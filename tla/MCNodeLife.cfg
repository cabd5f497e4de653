SPECIFICATION FairSpec
CONSTANTS
    t1 = t1
    t2 = t2
    s1 = s1
    Topics = {t1, t2}
    Services = {s1}
    Needs <- NeedsValue
    Providers = 2
    Unsupported = {1}
    Faulty = {2}
    Slow = {"browser"}
    MaxChanges = 3
INVARIANTS
    AdvertisesWhatItOffers
    LastWordHolds
    StopComesToAll
PROPERTIES
    StopReturns
    ChainWakes
CHECK_DEADLOCK FALSE
