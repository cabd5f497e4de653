SPECIFICATION FairSpec
CONSTANTS
    c1 = c1
    c2 = c2
    c3 = c3
    NoCall = NoCall
    Calls = {c1, c2}
    MaxIds = 2
    MaxReaders = 2
    Garbled = TRUE
INVARIANTS
    WaiterIsRegistered
    NoCallIsStuck
PROPERTIES
    EveryCallEnds
CHECK_DEADLOCK FALSE
