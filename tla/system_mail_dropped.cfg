\* Every registration is answered by a mail?  One SMTP call fails.
SPECIFICATION SystemSpec
CONSTANTS
    None = None
    Users = {u1}
    Seeded = {}
    Passwords = {p1}
    Handlers = {h1, h2}
    MaxTokens = 2
    MaxVersion = 1
    Workload = {"register", "verify"}
    Faults = {}
    Consumers = {c1}
    MaxLost = 0
    SmtpFails = TRUE
\* every account may end up verified
CHECK_DEADLOCK FALSE
PROPERTIES
    RegisteredGetsMail
