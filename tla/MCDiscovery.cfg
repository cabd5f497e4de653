SPECIFICATION FairSpec
CONSTANTS
    n1 = n1
    n2 = n2
    Names = {n1, n2}
    Versions = {1}
    MaxEvents = 3
INVARIANTS
    ServicesAreWatched
    NoChangeMissed
    EntriesAreWatched
    QuietAfterStop
PROPERTIES
    CatchesUp
CHECK_DEADLOCK FALSE
