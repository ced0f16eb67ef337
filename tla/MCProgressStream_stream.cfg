SPECIFICATION FairSpec
CONSTANTS
    Workers = {w1}
    Stages = 2
    MaxRetries = 2
    MaxFaults = 1
    MaxRedeliveries = 1
    MaxOpens = 1
INVARIANTS
    TypeOK
    ToldIsTrue
PROPERTIES
    FeedIsKept
    Released
CHECK_DEADLOCK FALSE
