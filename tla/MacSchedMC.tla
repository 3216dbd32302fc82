------------------------------ MODULE MacSchedMC ------------------------------
(***************************************************************************)
(* MacSched with two UEs, both RAN users, two cells of 9 PRBs and frames   *)
(* of two subframes of two groups; subframe 0 is the default slice's.  The *)
(* sum of the PRBs is kept in four bits.  One cell makes three groups: the *)
(* third of subframe 0 falls on subframe 1, the third of subframe 1 past   *)
(* the end of the frame.  Two cells are 18 % 16 = 2 PRBs, one group, for   *)
(* which the second UE is too late.                                        *)
(*                                                                         *)
(* The main loop adds UEs, the agent removes them and the interface turns  *)
(* RAN sharing on and off, so all three are half way through at once; that *)
(* the interface may add and remove as well is left to the proofs.         *)
(***************************************************************************)
EXTENDS MacSched

=============================================================================
