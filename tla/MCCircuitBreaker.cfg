SPECIFICATION Spec
CONSTANTS
    Calls = {c1, c2, c3, c4}
    threshold = 3
    cooldown_seconds = 2
    success_threshold = 2
INVARIANTS
    CountersAgreeWithState
PROPERTIES
    CooldownRespected
    NoLeftoverCredit
    OpenIsTemporary
    Recovery
