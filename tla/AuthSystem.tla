------------------------------ MODULE AuthSystem ------------------------------
(***************************************************************************)
(* AuthService and the mail pipeline together: a one-time token reaches    *)
(* its user only through the queue, its consumers and SMTP, and only a     *)
(* token from the mailbox can be redeemed.                                 *)
(*                                                                         *)
(* Message t of the queue is the mail that carries token t.  Welcome mails *)
(* go the same way and carry nothing anybody waits for: they are left out. *)
(***************************************************************************)
EXTENDS AuthService, Sequences

CONSTANTS Consumers, MaxLost, SmtpFails

VARIABLES queue, holding, acked, dropped, mailed, redelivered, lost

Pipeline == INSTANCE EmailQueue WITH Messages <- TokenIds, NoMessage <- 0

mailVars == <<queue, holding, acked, dropped, mailed, redelivered, lost>>
systemVars == <<vars, mailVars>>

-----------------------------------------------------------------------------
\* Mutation: fire and forget, nothing is awaited and the emit is lost.
NeverEmitted(m) == UNCHANGED mailVars

\* What the broker took is in the queue.
Handed(m) ==
    IF m \notin outbox /\ m \in outbox' /\ m.token # 0
    THEN Pipeline!Emit(m.token)
    ELSE UNCHANGED mailVars

Send(h) == Publish(h) /\ Handed(MailOf(req[h]))

InMailbox(t) == mailed[t] > 0

\* Mutation: the token is in the answer of the request, too.
FollowAnswer(h) ==
    /\ VerifyEmail(h) \/ ResetPassword(h)
    /\ UNCHANGED mailVars

\* A client follows the link of a mail it has received.
FollowLink(h) ==
    /\ VerifyEmail(h) \/ ResetPassword(h)
    /\ InMailbox(req'[h].t)
    /\ UNCHANGED mailVars

\* Requests that arrive.
Arrive(h) ==
    /\ \/ Register(h) \/ ResendVerification(h) \/ ForgotPassword(h)
       \/ ValidateUser(h) \/ RefreshTokens(h) \/ Authenticate(h)
    /\ UNCHANGED mailVars

\* Requests in flight going on, apart from the mail.
Serve(h) ==
    /\ \/ InsertUser(h) \/ InvalidateTokens(h) \/ InsertToken(h) \/ BurnToken(h)
       \/ Login(h) \/ RotateVersion(h) \/ IssueRefreshed(h)
       \/ Logout(h) \/ ChangePassword(h)
       \/ SaveDiff(h) \/ SaveWrite(h) \/ SaveToken(h)
    /\ UNCHANGED mailVars

Fail(h) == (SaveFails(h) \/ Abort(h)) /\ UNCHANGED mailVars

Expire(t) == ExpireToken(t) /\ UNCHANGED mailVars

Consume(c) == Pipeline!Consume(c) /\ UNCHANGED vars

LoseChannel(c) == Pipeline!LoseChannel(c) /\ UNCHANGED vars

SystemInit == Init /\ Pipeline!QueueInit

SystemNext ==
    \/ \E h \in Handlers : Arrive(h) \/ FollowLink(h) \/ Serve(h) \/ Send(h) \/ Fail(h)
    \/ \E t \in TokenIds : Expire(t)
    \/ \E c \in Consumers : Consume(c) \/ LoseChannel(c)

\* The database and the broker answer a request that waits for them, and the
\* consumers are as in EmailQueue.  Clients owe nothing.
Fairness ==
    /\ \A h \in Handlers : WF_systemVars(Serve(h) \/ Send(h))
    /\ \A c \in Consumers : WF_systemVars(Consume(c))

SystemSpec == SystemInit /\ [][SystemNext]_systemVars /\ Fairness

-----------------------------------------------------------------------------
(* Properties *)

Quiet ==
    /\ \A h \in Handlers : req[h].at = "idle"
    /\ queue = <<>>
    /\ \A c \in Consumers : ~ Pipeline!Working(c)

Pending(u) == Status[u] = "pending"

\* register and resend-verification retire the old link of an account before
\* the new one exists, and let it travel on its own.  Once nothing is in flight
\* every pending account nevertheless has a link that works in its mailbox.
PendingHasLiveLink ==
    Quiet => \A u \in Users : Pending(u) =>
        \E t \in Usable(u, "verify") : InMailbox(t)

\* The same for forgot-password, as long as no link has been used.
AskedForReset(u) ==
    /\ \E t \in TokenIds : ott[t].kind = "reset" /\ ott[t].user = u
    /\ \A t \in TokenIds : ott[t].user = u => redeemed[t] = 0

ResetHasLiveLink ==
    Quiet => \A u \in Users : AskedForReset(u) =>
        \E t \in Usable(u, "reset") : InMailbox(t)

\* The system implements the lifecycle of an account with its mails counted
\* where SMTP delivers them: only a link that was in the mailbox verifies an
\* account, whatever is lost, repeated or dropped on the way.
DeliveredTo == {ott[t].user : t \in {n \in TokenIds : ott[n].kind = "verify" /\ InMailbox(n)}}

Delivery == INSTANCE AccountLifecycle WITH
    status <- Status, mailed <- DeliveredTo, granted <- Granted

SystemImplementsLifecycle == Delivery!Spec

\* register "sends a verification email to the user": every account that comes
\* into being gets one in the end.
RegisteredGetsMail ==
    \A u \in Users : Pending(u) ~>
        \E t \in TokenIds : ott[t].kind = "verify" /\ ott[t].user = u /\ InMailbox(t)
=============================================================================
