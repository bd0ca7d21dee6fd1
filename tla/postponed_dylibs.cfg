\* Two goroutines for two jobs of one user; no restart, no fault.
CONSTANTS
    j1 = j1
    j2 = j2
    alice = alice
    Jobs = {j1, j2}
    Users = {alice}
    Owner <- OneUser
    Deletable = {}
    VisibilityTimeout = 5
    ClaimCount = 2
    ScanFactor = 10
    LockTTL = 2
    MaxRetries = 1
    ListLimit = 1
    MaxFaults = 0
    Pool = pool
    Recovered = {r1}
    WorkerConcurrency = 2
    StartBound = 1
    HoldBound = 1
    HasMasterKey = TRUE
    DylibJobs = {j1}
    MaxCrashes = 0
SPECIFICATION Spec
INVARIANTS DylibsAtSigning
