SPECIFICATION Spec
CONSTANTS
    Experts = {e1, e2, e3}
    MaxChain = 3
INVARIANTS
    TypeOK
    ContextIsUnbroken
    KVChainIsLossless
    UnreportedFallbacks
    AtMostOneLostInvocation
    MemoryReachesFirstExpert
PROPERTIES
    TextModeIsFinal
    ImplementsChain
