\* Two uses of one reset token in flight together.
SPECIFICATION Spec
CONSTANTS
    None = None
    Users = {u1}
    Seeded = {u1}
    Passwords = {p1, p2}
    Handlers = {h1, h2}
    MaxTokens = 1
    MaxVersion = 2
    Workload = {"forgot", "reset"}
    Faults = {}
\* the bounds on tokens and versions stop the system
CHECK_DEADLOCK FALSE
SYMMETRY Interchangeable
INVARIANTS
    ResetTokenSingleUse
