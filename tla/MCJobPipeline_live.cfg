SPECIFICATION FairSpec
CONSTANTS
    None = None
    BaseCost = 1
    Users <- OneUser
    Keys = {"ka", "requeue-a"}
    InitialBalance <- AmpleBalance
    Jobs <- CloneJobs
    KeyOf <- CloneKeyOf
    Owner <- CloneOwner
    Cost <- CloneCost
    Clones = {"c"}
    Requests = {"ra"}
    Requester <- SoloRequester
    Plan <- SoloPlan
    Cancels = {"x"}
    Workers = {"w1"}
    Stages = 2
    MaxRetries = 2
    FaultKinds = {}
    MaxFaults = 0
    MaxRedeliveries = 0
INVARIANTS
    CloneIsFree
PROPERTIES
    RunningSettles
CHECK_DEADLOCK FALSE
