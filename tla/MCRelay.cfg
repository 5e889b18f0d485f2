SPECIFICATION Spec
CONSTANTS
    Fleet <- MCFleet
    MaxChain = 3
INVARIANTS
    InvokeConforms
    NoLateIncompatibility
    InjectedFromNamesake
    NothingIsLost
CHECK_DEADLOCK FALSE
