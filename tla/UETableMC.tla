------------------------------ MODULE UETableMC ------------------------------
(***************************************************************************)
(* UETable on a table of three slots with two RAN user slots.  Of three    *)
(* candidate RNTIs a colliding request has one left even when the table    *)
(* holds two UEs; one reserved RNTI can be asked for; four subscribers     *)
(* overfill the table; one of the two cells of the network is this eNB's.  *)
(***************************************************************************)
EXTENDS UETable, TLC

Symmetry == Permutations(Imsis)

=============================================================================
