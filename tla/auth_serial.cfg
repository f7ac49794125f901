\* One request at a time and no failure: the documented promises as they stand.
SPECIFICATION Spec
CONSTANTS
    None = None
    Users = {u1}
    Seeded = {}
    Passwords = {p1, p2}
    Handlers = {h1}
    MaxTokens = 3
    MaxVersion = 3
    Workload = {"register", "resend", "verify", "login", "refresh", "logout", "change", "forgot", "reset"}
    Faults = {"expiry"}
\* the bounds on tokens and versions stop the system
CHECK_DEADLOCK FALSE
SYMMETRY Interchangeable
INVARIANTS
    EverySessionHoldsCurrentPassword
    ResetTokenSingleUse
PROPERTIES
    RevocationIsFinal
    RefreshReturnsLiveSession
