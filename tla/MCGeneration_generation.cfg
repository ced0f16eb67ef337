SPECIFICATION FairSpec
CONSTANTS
    None = None
    Jobs <- SomeJobs
    Requested <- SomeRequested
    Reference <- SomeReference
    Supported = {"all", "edges"}
    Backends = {"flux", "sdturbo"}
    StageMaxRetries = 2
    MaxRetries = 2
    MaxRestarts = 1
INVARIANTS
    TypeOK
    OutputIsWhole
    BestBackend
PROPERTIES
    JobsEnd
CHECK_DEADLOCK FALSE
