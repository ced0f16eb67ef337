SPECIFICATION Spec
CONSTANTS
    None = None
    Ids = {u1, u2}
    Emails = {"ann@mail"}
    Identities = {"google"}
    IdentityEmail <- ReportedEmail
    Calls = {c1, c2}
    MaxSecrets = 3
    MaxCalls = 5
SYMMETRY Alike
INVARIANTS
    TypeOK
    OneAccount
    ExchangedOnce
    OneLivePerFamily
    EndedSessionsStayEnded
CHECK_DEADLOCK FALSE
