SPECIFICATION FairSpec
CONSTANTS
    a = a
    b = b
    t = t
    s = s
    r = r
    Nodes = {a, b}
    Topics = {t}
    Services = {s, r}
    NoService = NoService
    Nested <- NestedValue
    Unencodable = {s}
    Changing <- ChangingValue
    Script <- ScriptValue
    Fragile <- FragileValue
    Cancellable = {t, r}
    MaxFrames = 5
INVARIANTS
    TopicsInOrder
    NothingIsStuck
PROPERTIES
    HandledOnce
    RequestsAreAnswered
    MessagesAreHandled
CHECK_DEADLOCK FALSE
