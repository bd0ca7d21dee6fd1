\* One claim a period that looks at two entries: of three messages one can be out of
\* its reach.
CONSTANTS
    Jobs = {j1, j2, j3}
    VisibilityTimeout = 3
    ClaimCount = 1
    ScanFactor = 2
SPECIFICATION LoopFairSpec
INVARIANTS  PassedOverRarely
PROPERTIES AtLeastOnce NoMessageForgotten
