CONSTANTS
    Keys = {k1, k2, k3}
    NoKey = NoKey
    MaxContexts = 1
    MaxTotal = 2
    MaxBytes = 2
    DefaultSize = 1
    Totals = {2}
    BodySizes = {1}
    TailSizes = {1}
    TailBytes = {1}
    Timeouts = {1, 3}
    MaxTimeout = 3
SPECIFICATION Spec
SYMMETRY KeySymmetry
INVARIANTS FreezeKept
CHECK_DEADLOCK FALSE
