----------------------------- MODULE MCAuthSystem -----------------------------
(***************************************************************************)
(* Instances of AuthSystem for TLC.                                        *)
(***************************************************************************)
EXTENDS AuthSystem, TLC

\* No account is seeded, so accounts are interchangeable too.
Interchangeable ==
    Permutations(Users) \cup Permutations(Handlers) \cup Permutations(Consumers)
=============================================================================
