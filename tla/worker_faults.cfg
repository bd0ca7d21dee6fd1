\* A visibility timeout longer than two whole processings, 5 > 2 * (1 + 1),
\* one failing Redis command and one restart.
CONSTANTS
    j1 = j1
    j2 = j2
    alice = alice
    Jobs = {j1, j2}
    Users = {alice}
    Owner <- OneUser
    Deletable = {}
    VisibilityTimeout = 5
    ClaimCount = 2
    ScanFactor = 10
    LockTTL = 2
    MaxRetries = 1
    ListLimit = 1
    MaxFaults = 1
    Pool = pool
    Recovered = {r1}
    WorkerConcurrency = 1
    StartBound = 1
    HoldBound = 1
    HasMasterKey = TRUE
    DylibJobs = {j1}
    MaxCrashes = 1
SPECIFICATION Spec
INVARIANTS TypeOK SoleProcessor DoneHasIPA AckedIsEnded
PROPERTIES TerminalIsFinal HandlesInOrder
