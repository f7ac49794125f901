-------------------------- MODULE AccountLifecycle --------------------------
(***************************************************************************)
(* What the authentication flows promise about an account, without the     *)
(* requests, rows and tokens they are made of: an account comes into being *)
(* unverified, is verified only after a verification mail for it went out, *)
(* stays verified, and gets a session only then.                           *)
(***************************************************************************)
CONSTANTS Users, Seeded

VARIABLES
    status,  \* [Users -> {"absent", "pending", "verified"}]
    mailed,  \* accounts a verification mail went out for
    granted  \* accounts a session was ever issued to

vars == <<status, mailed, granted>>

Init ==
    /\ status = [u \in Users |-> IF u \in Seeded THEN "verified" ELSE "absent"]
    /\ mailed = {}
    /\ granted = {}

Enrol(u) ==
    /\ status[u] = "absent"
    /\ status' = [status EXCEPT ![u] = "pending"]
    /\ UNCHANGED <<mailed, granted>>

\* A second mail may still go out while the first is being used.
SendMail(u) ==
    /\ status[u] # "absent"
    /\ mailed' = mailed \cup {u}
    /\ UNCHANGED <<status, granted>>

Verify(u) ==
    /\ status[u] = "pending" /\ u \in mailed
    /\ status' = [status EXCEPT ![u] = "verified"]
    /\ UNCHANGED <<mailed, granted>>

Grant(u) ==
    /\ status[u] = "verified"
    /\ granted' = granted \cup {u}
    /\ UNCHANGED <<status, mailed>>

Next == \E u \in Users : Enrol(u) \/ SendMail(u) \/ Verify(u) \/ Grant(u)

Spec == Init /\ [][Next]_vars
=============================================================================
