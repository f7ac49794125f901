---------------------------- MODULE MailDelivery ----------------------------
(***************************************************************************)
(* What the mail pipeline promises for a message, without the queue, the   *)
(* channels and the consumers it is made of: once accepted it is neither   *)
(* forgotten nor taken for new again, it is settled once, and it counts as *)
(* done only after a mail went out.                                        *)
(***************************************************************************)
CONSTANT Messages

VARIABLES
    status,    \* [Messages -> {"new", "accepted", "done", "dropped"}]
    delivered  \* messages of which a mail went out

vars == <<status, delivered>>

Init ==
    /\ status = [m \in Messages |-> "new"]
    /\ delivered = {}

Move(m, from, to) ==
    /\ status[m] = from
    /\ status' = [status EXCEPT ![m] = to]

Accept(m) == Move(m, "new", "accepted") /\ UNCHANGED delivered

\* A consumer that lost its channel may send a mail after another has settled
\* the message.
Send(m) ==
    /\ status[m] # "new"
    /\ delivered' = delivered \cup {m}
    /\ UNCHANGED status

Finish(m) ==
    /\ m \in delivered
    /\ Move(m, "accepted", "done")
    /\ UNCHANGED delivered

\* The server refused the mail, or took it and the answer was lost.
Drop(m) ==
    /\ Move(m, "accepted", "dropped")
    /\ delivered' \in {delivered, delivered \cup {m}}

Next == \E m \in Messages : Accept(m) \/ Send(m) \/ Finish(m) \/ Drop(m)

Spec == Init /\ [][Next]_vars
=============================================================================
