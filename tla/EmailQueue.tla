------------------------------ MODULE EmailQueue ------------------------------
(***************************************************************************)
(* The mail pipeline behind EmailService: the durable RabbitMQ queue       *)
(* email-queue and its consumers (the HTTP process and the email worker    *)
(* both listen on it, with manual acknowledgement and a prefetch of one).  *)
(*                                                                         *)
(* A consumer sends the mail over SMTP, then acknowledges.  When the send  *)
(* fails it rejects the message without requeueing it, and no dead-letter  *)
(* exchange is declared: the message is gone.  When its channel closes the *)
(* broker takes the unacknowledged message back.                           *)
(***************************************************************************)
EXTENDS Naturals, Sequences

CONSTANTS
    Messages,   \* publications; one the client library repeats is another
    Consumers,
    MaxLost,    \* bound: channels lost
    SmtpFails,  \* may sendMail reject?
    NoMessage

ASSUME QueueAssumption == NoMessage \notin Messages /\ MaxLost \in Nat /\ SmtpFails \in BOOLEAN

VARIABLES
    queue,       \* messages ready for delivery
    holding,     \* the message each consumer works on
    acked,
    dropped,     \* rejected without requeue
    mailed,      \* how many mails SMTP delivered for a message, up to 2
    redelivered, \* messages the broker took back
    lost         \* channels lost so far

queueVars == <<queue, holding, acked, dropped, mailed, redelivered, lost>>

Idle == [msg |-> NoMessage, sent |-> FALSE, live |-> FALSE]

\* sent: sendMail has resolved.  live: the channel is the one it came over.
Holding == [msg: Messages \cup {NoMessage}, sent: BOOLEAN, live: BOOLEAN]

QueueTypeOK ==
    /\ queue \in Seq(Messages)
    /\ holding \in [Consumers -> Holding]
    /\ acked \subseteq Messages
    /\ dropped \subseteq Messages
    /\ mailed \in [Messages -> 0..2]
    /\ redelivered \subseteq Messages
    /\ lost \in 0..MaxLost

Ready == {queue[i] : i \in DOMAIN queue}
Working(c) == holding[c].msg # NoMessage
Unacked == {holding[c].msg : c \in {d \in Consumers : Working(d) /\ holding[d].live}}
Published == Ready \cup Unacked \cup acked \cup dropped

OnceMore(m) == [mailed EXCEPT ![m] = IF @ < 2 THEN @ + 1 ELSE @]

-----------------------------------------------------------------------------
QueueInit ==
    /\ queue = <<>>
    /\ holding = [c \in Consumers |-> Idle]
    /\ acked = {}
    /\ dropped = {}
    /\ mailed = [m \in Messages |-> 0]
    /\ redelivered = {}
    /\ lost = 0

\* client.emit, confirmed by the broker
Emit(m) ==
    /\ queue' = Append(queue, m)
    /\ UNCHANGED <<holding, acked, dropped, mailed, redelivered, lost>>

Deliver(c) ==
    /\ ~ Working(c)
    /\ queue # <<>>
    /\ holding' = [holding EXCEPT ![c] = [msg |-> Head(queue), sent |-> FALSE, live |-> TRUE]]
    /\ queue' = Tail(queue)
    /\ UNCHANGED <<acked, dropped, mailed, redelivered, lost>>

\* Mutation: the message is acknowledged before it is sent.
AckAtOnce(c) == Working(c)

\* the handler is past its await
MayAck(c) == Working(c) /\ holding[c].sent

SendMail(c) ==
    /\ Working(c) /\ ~ holding[c].sent
    /\ holding' = [holding EXCEPT ![c].sent = TRUE]
    /\ mailed' = OnceMore(holding[c].msg)
    /\ UNCHANGED <<queue, acked, dropped, redelivered, lost>>

\* channel.ack; on a channel that was lost it throws, and so does the nack in
\* the catch block: the message stays with the broker.
Ack(c) ==
    /\ MayAck(c)
    /\ holding' = [holding EXCEPT ![c] = Idle]
    /\ acked' = IF holding[c].live THEN acked \cup {holding[c].msg} ELSE acked
    /\ UNCHANGED <<queue, dropped, mailed, redelivered, lost>>

\* Mutation: nack(msg, false, true), the message is requeued.
NackRequeues(c) ==
    [queue   |-> IF holding[c].live THEN <<holding[c].msg>> \o queue ELSE queue,
     dropped |-> dropped]

\* nack(msg, false, false): requeue is false.  On a channel that was lost it
\* throws.
AfterNack(c) ==
    [queue   |-> queue,
     dropped |-> IF holding[c].live THEN dropped \cup {holding[c].msg} ELSE dropped]

\* sendMail rejects, though the server may have taken the mail.
SendFails(c) ==
    /\ SmtpFails
    /\ Working(c) /\ ~ holding[c].sent
    /\ mailed' \in {mailed, OnceMore(holding[c].msg)}
    /\ queue' = AfterNack(c).queue
    /\ dropped' = AfterNack(c).dropped
    /\ holding' = [holding EXCEPT ![c] = Idle]
    /\ UNCHANGED <<acked, redelivered, lost>>

\* Mutations: noAck consumption, nothing is taken back; the message is cleared
\* before it is taken back.
NotRequeued(m) == queue
RequeuedCleared(m) == <<NoMessage>> \o queue

Requeued(m) == <<m>> \o queue

\* The channel of c closes: the broker requeues its message.  Either the
\* process died with it, or its handler goes on and will fail to acknowledge.
LoseChannel(c) ==
    /\ lost < MaxLost
    /\ Working(c) /\ holding[c].live
    /\ lost' = lost + 1
    /\ queue' = Requeued(holding[c].msg)
    /\ redelivered' = redelivered \cup {holding[c].msg}
    /\ holding' \in {[holding EXCEPT ![c] = Idle], [holding EXCEPT ![c].live = FALSE]}
    /\ UNCHANGED <<acked, dropped, mailed>>

Consume(c) == Deliver(c) \/ SendMail(c) \/ Ack(c) \/ SendFails(c)

QueueNext ==
    \/ \E m \in Messages \ Published : Emit(m)
    \/ \E c \in Consumers : Consume(c) \/ LoseChannel(c)

\* The broker delivers to a free consumer and sendMail settles (nodemailer
\* times out), so a consumer with something to do does it.
QueueSpec == QueueInit /\ [][QueueNext]_queueVars /\ \A c \in Consumers : WF_queueVars(Consume(c))

-----------------------------------------------------------------------------
(* Properties *)

\* No message is acknowledged that SMTP has not delivered, whichever consumer
\* did it and however often it was redelivered.
AckedWasMailed == \A m \in acked : mailed[m] > 0

\* A mail arrives twice only if the broker had taken the message back.
DuplicateOnlyAfterRedelivery == \A m \in Messages : mailed[m] > 1 => m \in redelivered

\* Whatever SMTP does the queue does not get stuck: a message the broker has
\* accepted is acknowledged or dropped in the end, for good.
EventuallySettled == \A m \in Messages : m \in Published ~> [](m \in acked \cup dropped)

\* MailDelivery, message by message.
Fate(m) ==
    IF m \in acked THEN "done"
    ELSE IF m \in dropped THEN "dropped"
    ELSE IF m \in Published THEN "accepted" ELSE "new"

Fates == [m \in Messages |-> Fate(m)]
Delivered == {m \in Messages : mailed[m] > 0}

Delivery == INSTANCE MailDelivery WITH status <- Fates, delivered <- Delivered

\* The broker and its consumers implement MailDelivery: a message that was
\* accepted is not lost on the way between them, however channels come and go,
\* and what became of it stays.
ImplementsMailDelivery == Delivery!Spec
=============================================================================
