SPECIFICATION FairSpec
CONSTANTS
    None = None
    Users = {"ann"}
    Keys = {"b1", "b2", "r1", "c1", "j", "g"}
    InitialBalance <- Registered
    Events <- BackEvents
    Kind <- BackKind
    Session <- BackSession
    Buyer <- BackBuyer
    Named = {}
    Credits <- BackCredits
    PlanOf <- BackPlan
    SubPlans = {"pro", "studio"}
    AllowNegative = TRUE
    Calls = {"h1", "h2"}
    Spends = {"j"}
    Spender <- OneSpender
    Cost <- JobCost
    Gifts = {"g"}
    Recipient <- ToAnn
    Gift = 1
    Patches = {}
    Patcher <- Nobody
    MaxDuplicates = 1
    MaxFaults = 1
INVARIANTS
    RefundReverses
PROPERTIES
    EventsAcknowledged
CHECK_DEADLOCK FALSE
