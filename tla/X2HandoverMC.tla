---------------------------- MODULE X2HandoverMC -----------------------------
(***************************************************************************)
(* X2Handover on a small network.  A table of two slots for three          *)
(* subscribers can be full when a UE arrives; the two candidate RNTIs make *)
(* an eNB reuse the RNTI of a UE that left as soon as possible.            *)
(***************************************************************************)
EXTENDS X2Handover, TLC

MCNeigh == [e \in Enbs |-> Enbs \ {e}]
MCCell0 == [e \in Enbs |-> CHOOSE p \in Pcis : TRUE]

Symmetry == Permutations(Imsis) \cup Permutations(Enbs)

=============================================================================
