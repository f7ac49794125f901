------------------------------- MODULE MCRoles -------------------------------
(***************************************************************************)
(* Instances of Roles for TLC.                                             *)
(***************************************************************************)
EXTENDS Roles, TLC

Interchangeable ==
    Permutations(RoleNames) \cup Permutations(Permissions) \cup Permutations(Names)
        \cup Permutations(Handlers)
=============================================================================
