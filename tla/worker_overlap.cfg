\* A visibility timeout shorter than a signing, as the defaults have it:
\* goroutines of one message overlap, and the administrator deletes a job at
\* any moment.
CONSTANTS
    j1 = j1
    j2 = j2
    alice = alice
    Jobs = {j1, j2}
    Users = {alice}
    Owner <- OneUser
    Deletable = {j1}
    VisibilityTimeout = 1
    ClaimCount = 2
    ScanFactor = 10
    LockTTL = 2
    MaxRetries = 1
    ListLimit = 1
    MaxFaults = 1
    Pool = pool
    Recovered = {r1}
    WorkerConcurrency = 2
    StartBound = 0
    HoldBound = 1
    HasMasterKey = TRUE
    DylibJobs = {}
    MaxCrashes = 0
SPECIFICATION Spec
INVARIANTS UserExclusion OwnLock
PROPERTIES DeletedIsForgotten
