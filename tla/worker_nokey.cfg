\* No MASTER_KEY: passwords travel through one-time tokens.  No failing
\* command; the goroutines are scheduled.
CONSTANTS
    j1 = j1
    j2 = j2
    alice = alice
    Jobs = {j1, j2}
    Users = {alice}
    Owner <- OneUser
    Deletable = {}
    VisibilityTimeout = 5
    ClaimCount = 2
    ScanFactor = 10
    LockTTL = 2
    MaxRetries = 1
    ListLimit = 1
    MaxFaults = 0
    Pool = pool
    Recovered = {r1}
    WorkerConcurrency = 1
    StartBound = 1
    HoldBound = 1
    HasMasterKey = FALSE
    DylibJobs = {}
    MaxCrashes = 1
SPECIFICATION FairSpec
INVARIANTS OutcomeIsTold OneTimeToken
PROPERTIES ImplementsLife EveryJobEnds
