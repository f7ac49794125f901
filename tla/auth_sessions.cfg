\* Everything that reads or bumps tokenVersion, two requests in flight.
SPECIFICATION Spec
CONSTANTS
    None = None
    Users = {u1}
    Seeded = {u1}
    Passwords = {p1, p2}
    Handlers = {h1, h2}
    MaxTokens = 1
    MaxVersion = 3
    Workload = {"login", "refresh", "logout", "change", "forgot", "reset"}
    Faults = {"save", "abort", "publish"}
\* the bounds on tokens and versions stop the system
CHECK_DEADLOCK FALSE
SYMMETRY Interchangeable
INVARIANTS
    TypeOK
    SessionsHoldCurrentPassword
PROPERTIES
    RevokedStayRevoked
