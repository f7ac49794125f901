\* Registration to the first session with everything that may go wrong.
SPECIFICATION SystemSpec
CONSTANTS
    None = None
    Users = {u1}
    Seeded = {}
    Passwords = {p1}
    Handlers = {h1, h2}
    MaxTokens = 2
    MaxVersion = 1
    Workload = {"register", "resend", "verify", "login", "refresh", "logout", "change", "forgot", "reset"}
    Faults = {"abort", "save", "publish", "expiry"}
    Consumers = {c1}
    MaxLost = 0
    SmtpFails = TRUE
\* the bounds on tokens and versions stop the system
CHECK_DEADLOCK FALSE
SYMMETRY Interchangeable
INVARIANTS
    WelcomeMeansVerified
PROPERTIES
    DeadLinksDoNothing
    ImplementsLifecycle
    SystemImplementsLifecycle
