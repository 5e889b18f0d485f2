SPECIFICATION Spec
CONSTANTS
    RunIds = {i1, i2}
    Calls = {c1, c2}
    MaxPools = 2
INVARIANT RowIsOneRun
CHECK_DEADLOCK FALSE
