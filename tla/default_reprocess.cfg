\* The default timing in ticks of 300 s: visibility 600 s, signing 900 s.
CONSTANTS
    j1 = j1
    j2 = j2
    alice = alice
    Jobs = {j1, j2}
    Users = {alice}
    Owner <- OneUser
    Deletable = {}
    VisibilityTimeout = 2
    ClaimCount = 2
    ScanFactor = 10
    LockTTL = 4
    MaxRetries = 1
    ListLimit = 1
    MaxFaults = 0
    Pool = pool
    Recovered = {r1}
    WorkerConcurrency = 1
    StartBound = 0
    HoldBound = 3
    HasMasterKey = TRUE
    DylibJobs = {j1}
    MaxCrashes = 0
SPECIFICATION Spec
PROPERTIES TerminalIsFinal
