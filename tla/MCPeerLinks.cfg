SPECIFICATION FairSpec
CONSTANTS
    a = a
    b = b
    c1 = c1
    Nodes = {a, b}
    Calls = {c1}
    Target <- CallA
    Conns = {1, 2}
    NoConn = NoConn
    NoNode = NoNode
    MaxChanges = 3
    CloseFails = TRUE
CHECK_DEADLOCK FALSE
INVARIANTS
    NoStrayConnection
    OutboxesRun
    LeaversAreForgotten
PROPERTIES
    TopologyIsCurrent
    CallsToLeaversEnd
