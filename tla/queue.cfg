\* Three messages, two consumers, two lost channels, failing SMTP.
SPECIFICATION QueueSpec
CONSTANTS
    Messages = {m1, m2, m3}
    Consumers = {c1, c2}
    MaxLost = 2
    SmtpFails = TRUE
    NoMessage = NoMessage
\* every message may end up settled
CHECK_DEADLOCK FALSE
INVARIANTS
    QueueTypeOK
    AckedWasMailed
    DuplicateOnlyAfterRedelivery
PROPERTIES
    EventuallySettled
    ImplementsMailDelivery
