---------------------------- MODULE MCAuthService ----------------------------
(***************************************************************************)
(* Instances of AuthService for TLC.                                       *)
(***************************************************************************)
EXTENDS AuthService, TLC

\* Passwords and slots are interchangeable, and so are accounts when they all
\* start alike.
Interchangeable == Permutations(Passwords) \cup Permutations(Handlers)
=============================================================================
