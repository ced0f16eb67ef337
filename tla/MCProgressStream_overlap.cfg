SPECIFICATION Spec
CONSTANTS
    Workers = {w1, w2}
    Stages = 1
    MaxRetries = 1
    MaxFaults = 1
    MaxRedeliveries = 1
    MaxOpens = 1
SYMMETRY
    Symmetry
INVARIANTS
    ToldIsTrue
PROPERTIES
    FeedIsKept
CHECK_DEADLOCK FALSE
