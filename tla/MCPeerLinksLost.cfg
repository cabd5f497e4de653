SPECIFICATION Spec
CONSTANTS
    a = a
    b = b
    c1 = c1
    Nodes = {a}
    Calls = {c1}
    Target <- CallA
    Conns = {1, 2}
    NoConn = NoConn
    NoNode = NoNode
    MaxChanges = 1
    CloseFails = TRUE
CHECK_DEADLOCK FALSE
PROPERTIES
    LostIsReplaced
