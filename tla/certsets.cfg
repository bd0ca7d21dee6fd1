\* One set too few for two tasks to fit; with and without cut-off writes.
CONSTANTS
    Tasks = {t1, t2}
    Sets = {s1, s2, s3}
    NoSet = NoSet
    MaxSets = 1
    HasMasterKey = TRUE
    MaxCalls = 5
    MaxCrashes = 1
\* Calls may stop coming.
CHECK_DEADLOCK FALSE
SYMMETRY Alike
SPECIFICATION CertSpec
INVARIANTS CertTypeOK ListedIsWhole FailedLeavesNothing KeptUntilDeleted BoundedOvershoot
