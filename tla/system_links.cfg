\* Links on their way from register, resend and forgot to being used; a channel
\* is lost.
SPECIFICATION SystemSpec
CONSTANTS
    None = None
    Users = {u1}
    Seeded = {}
    Passwords = {p1}
    Handlers = {h1, h2}
    MaxTokens = 3
    MaxVersion = 1
    Workload = {"register", "resend", "verify", "forgot", "reset"}
    Faults = {}
    Consumers = {c1}
    MaxLost = 1
    SmtpFails = FALSE
\* the bounds on tokens and versions stop the system
CHECK_DEADLOCK FALSE
INVARIANTS
    PendingHasLiveLink
    ResetHasLiveLink
    OutstandingTokensBounded
PROPERTIES
    RegisteredGetsMail
