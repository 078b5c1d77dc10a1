------------------------------ MODULE MCGateway ------------------------------
(***************************************************************************)
(* Instances of Gateway for TLC.  Calls are interchangeable: no property   *)
(* of the runs that use the symmetry tells them apart.                      *)
(***************************************************************************)
EXTENDS Gateway, TLC

Symmetry == Permutations(Calls)
=============================================================================
