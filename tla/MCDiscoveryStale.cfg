SPECIFICATION FairSpec
CONSTANTS
    n1 = n1
    n2 = n2
    Names = {n1}
    Versions = {1, 2}
    MaxEvents = 2
PROPERTIES
    MaintainsTopology
CHECK_DEADLOCK FALSE
