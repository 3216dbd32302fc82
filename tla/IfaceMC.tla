------------------------------- MODULE IfaceMC -------------------------------
(***************************************************************************)
(* Iface with two UEs and one slot for a neighbor, so that the row of the  *)
(* second UE is past the end of sim_neighs, as that of the eleventh is in  *)
(* the program; a wrong neighbor takes two.  U32 leaves room for a count   *)
(* below zero.                                                             *)
(***************************************************************************)
EXTENDS Iface, TLC

Symmetry == Permutations(Rntis)

=============================================================================
