SPECIFICATION Spec
CONSTANTS
    c1 = c1
    c2 = c2
    c3 = c3
    NoCall = NoCall
    Calls = {c1, c2, c3}
    MaxIds = 2
    MaxReaders = 1
    Garbled = TRUE
SYMMETRY CallSymmetry
INVARIANTS
    OwnAnswer
CHECK_DEADLOCK FALSE
