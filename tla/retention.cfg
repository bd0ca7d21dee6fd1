\* Two jobs, waits and a stop of any length.
CONSTANTS
    Jobs = {j1, j2}
    Retention = 1
    Period = 2
    MaxStops = 1
SPECIFICATION FairRetentionSpec
INVARIANTS RetentionTypeOK InputsKept Downloadable NoneTooOld
PROPERTIES EventuallyCleaned
