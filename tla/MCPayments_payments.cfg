SPECIFICATION Spec
CONSTANTS
    None = None
    Users = {"ann", "bob"}
    Keys = {"b1", "b2", "b3", "c1", "r2", "j"}
    InitialBalance <- TwoUsers
    Events <- ManyEvents
    Kind <- ManyKind
    Session <- ManySession
    Buyer <- ManyBuyer
    Named = {"r2"}
    Credits <- ManyCredits
    PlanOf <- ManyPlan
    SubPlans = {"pro", "studio"}
    AllowNegative = TRUE
    Calls = {h1, h2}
    Spends = {"j"}
    Spender <- OneSpender
    Cost <- JobCost
    Gifts = {}
    Recipient <- Nobody
    Gift = 1
    Patches = {"m"}
    Patcher <- OnePatcher
    MaxDuplicates = 1
    MaxFaults = 1
SYMMETRY CallSymmetry
INVARIANTS
    TypeOK
    OneSubscription
    EntitledByPurchase
    BalanceTracksLedger
CHECK_DEADLOCK FALSE
