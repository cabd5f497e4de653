SPECIFICATION FairSpec
CONSTANTS
    MaxSize = 2
    Ttl = 2
    MaxMessages = 5
    MaxTime = 4
INVARIANTS
    UnfinishedIsExact
    QueueIsNewestSuffix
PROPERTIES
    NothingWrittenExpired
    QuietWhenStopped
    MessagesMoveOn
    ImplementsChannel
    EveryMessageLeaves
    StopReturns
