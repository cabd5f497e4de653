SPECIFICATION Spec
CONSTANTS
    c1 = c1
    c2 = c2
    c3 = c3
    NoCall = NoCall
    Calls = {c1, c2, c3}
    MaxIds = 2
    MaxReaders = 2
    Garbled = FALSE
SYMMETRY CallSymmetry
INVARIANTS
    OwnAnswer
PROPERTIES
    RefusedOnlyWhenTaken
    ImplementsRemoteCall
CHECK_DEADLOCK FALSE
