----------------------------- MODULE UEThreadsMC -----------------------------
(***************************************************************************)
(* UEThreads on a table of two slots: of three candidate RNTIs one is left *)
(* when two UEs are in, so the third of three subscribers finds the table  *)
(* full after a draw that meets an RNTI in use, or two.                    *)
(***************************************************************************)
EXTENDS UEThreads, TLC

Symmetry == Permutations(Imsis)

=============================================================================
