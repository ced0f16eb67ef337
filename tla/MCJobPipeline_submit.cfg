SPECIFICATION Spec
CONSTANTS
    None = None
    BaseCost = 1
    Users <- TwoUsers
    Keys = {"k1", "k2", "k3"}
    InitialBalance <- RaceBalance
    Jobs <- RaceJobs
    KeyOf <- RaceKeyOf
    Owner <- RaceOwner
    Cost <- RaceCost
    Clones = {}
    Requests = {"pack", "retry", "other"}
    Requester <- RaceRequester
    Plan <- RacePlan
    Cancels = {}
    Workers = {"w1"}
    Stages = 1
    MaxRetries = 1
    FaultKinds = {}
    MaxFaults = 0
    MaxRedeliveries = 0
INVARIANTS
    Solvent
    OneJobPerKey
    AdmittedIffHeld
    HeldIsOutstanding
CHECK_DEADLOCK FALSE
