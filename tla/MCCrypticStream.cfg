SPECIFICATION Spec
CONSTANTS
    MaxData = 5
    BlockSizes = {1, 2, 3, 6}
    Configs <- MCConfigs
    Sessions = {s1, s2}
    BlockHeader = 2
    MaxReceived = 3
    MaxStreams = 2
INVARIANTS
    IteratorAgrees
    ReceivedIsFaithful
SYMMETRY MCSymmetry
CHECK_DEADLOCK FALSE
