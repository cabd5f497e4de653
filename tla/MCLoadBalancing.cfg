SPECIFICATION Spec
CONSTANTS
    n1 = n1
    n2 = n2
    n3 = n3
    t1 = t1
    s1 = s1
    Nodes = {n1, n2, n3}
    NumNames = 2
    NameOf <- TwoNames
    Topics = {t1}
    Services = {s1}
    MaxTime = 8
PROPERTIES
    OnePerName
    NewNodesFirst
    NoSecondOvertaking
