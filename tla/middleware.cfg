\* A map that overflows with two keys, three messages per window.
CONSTANTS
    Limit = 3
    Window = 3
    Keys = {k1, k2, k3}
    Interval = 3
    KeepFor = 4
    MaxEntries = 1
SPECIFICATION MiddlewareSpec
INVARIANTS MiddlewareTypeOK
PROPERTIES LimiterIsWindow DebouncerIsWindow
