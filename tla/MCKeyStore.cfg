SPECIFICATION Spec
CONSTANTS
    N = 3
    Procs = {p1, p2}
    MaxCrashes = 1
SYMMETRY Symmetry
INVARIANTS
    CrashLosesAtMostOneKey
    RevocationSticks
    SomeKeyStaysActive
PROPERTIES
    ActivationIsExclusive
    ConfigIsUsable
CHECK_DEADLOCK FALSE
