SPECIFICATION Spec
CONSTANTS
    None = None
    BaseCost = 1
    Users <- OneUser
    Keys = {"ka", "kb"}
    InitialBalance <- TightBalance
    Jobs <- PairJobs
    KeyOf <- PairKeyOf
    Owner <- PairOwner
    Cost <- PairCost
    Clones = {}
    Requests = {"ra", "rb"}
    Requester <- PairRequester
    Plan <- PairPlan
    Cancels = {"x"}
    Workers = {w1, w2}
    Stages = 1
    MaxRetries = 2
    FaultKinds = {"storage", "worker", "cancel"}
    MaxFaults = 1
    MaxRedeliveries = 1
SYMMETRY
    WorkerSymmetry
INVARIANTS
    TypeOK
    BalanceIsLedgerSum
    UnfinishedIsRefunded
    HeldIsBacked
    CompletedIsCharged
    OneDelivery
PROPERTIES
    FinishedNeverRuns
CHECK_DEADLOCK FALSE
