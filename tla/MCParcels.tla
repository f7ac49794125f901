------------------------------ MODULE MCParcels ------------------------------
(***************************************************************************)
(* Instances of Parcels for TLC.                                           *)
(***************************************************************************)
EXTENDS Parcels, TLC

Interchangeable ==
    Permutations(Files) \cup Permutations(Shapes) \cup Permutations(Handlers)

\* A name and perhaps a geometry, as create needs; or a geometry and the flag,
\* which reads "false".
FewBodies ==
    [name: Names, geometry: Shapes \cup {None}, deleteOldImage: {"absent"}]
    \cup [name: {None}, geometry: Shapes, deleteOldImage: {"false"}]
=============================================================================
