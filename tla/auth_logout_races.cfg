\* A password change in flight during a refresh and a logout.
SPECIFICATION Spec
CONSTANTS
    None = None
    Users = {u1}
    Seeded = {u1}
    Passwords = {p1, p2}
    Handlers = {h1, h2}
    MaxTokens = 0
    MaxVersion = 2
    Workload = {"login", "refresh", "logout", "change"}
    Faults = {}
\* the bounds on tokens and versions stop the system
CHECK_DEADLOCK FALSE
SYMMETRY Interchangeable
PROPERTIES
    RevocationIsFinal
