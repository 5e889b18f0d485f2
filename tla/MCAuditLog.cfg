SPECIFICATION Spec
CONSTANTS
    Writers = {w1, w2}
    MaxRecords = 5
    MaxCrashes = 1
    MaxTampers = 2
SYMMETRY Symmetry
INVARIANTS
    HashVouchesForPast
    SequentialLogVerifies
    NoEntryLost
PROPERTIES
    BreakIsPermanent
CHECK_DEADLOCK FALSE
