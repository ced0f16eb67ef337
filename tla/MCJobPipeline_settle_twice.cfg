SPECIFICATION Spec
CONSTANTS
    None = None
    BaseCost = 1
    Users <- OneUser
    Keys = {"ka"}
    InitialBalance <- AmpleBalance
    Jobs <- SoloJobs
    KeyOf <- SoloKeyOf
    Owner <- SoloOwner
    Cost <- SoloCost
    Clones = {}
    Requests = {"ra"}
    Requester <- SoloRequester
    Plan <- SoloPlan
    Cancels = {"x"}
    Workers = {"w1"}
    Stages = 1
    MaxRetries = 1
    FaultKinds = {}
    MaxFaults = 0
    MaxRedeliveries = 0
INVARIANTS
    NeverDebitedAndRefunded
CHECK_DEADLOCK FALSE
