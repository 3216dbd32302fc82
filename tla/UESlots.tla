------------------------------- MODULE UESlots -------------------------------
(***************************************************************************)
(* The array sim_ues of one eNB and what ue_add and ue_rem (ue.c) compute  *)
(* on it, as operators of a table value: the modules that own a table      *)
(* (UETable: one eNB, X2Handover: several) decide when they are applied.   *)
(*                                                                         *)
(* Of an em_ue the model keeps the RNTI, the IMSI and the PCI.  The PLMN,  *)
(* the bands, the signal levels and the measurement slots are data no      *)
(* property of these modules tells apart.                                  *)
(***************************************************************************)
EXTENDS Integers, FiniteSets, FiniteSetsExt

CONSTANTS
    UEMax,         \* UE_MAX, the number of slots of sim_ues
    RntiReserved,  \* UE_RNTI_RESERVED, the first RNTI of the reserved area
    RntiTop,       \* the largest value of the u16 that holds an RNTI
    Imsis,         \* the IMSIs of the simulated subscribers
    NoImsi,        \* IMSI 0, what a free slot holds
    Pcis           \* the Physical Cell IDs in use in the network

ASSUME SlotsAssumption ==
    /\ UEMax \in Nat \ {0}
    /\ RntiReserved \in Nat
    /\ RntiTop \in Nat
    /\ UEMax < RntiReserved
    /\ RntiReserved <= RntiTop + 1
    /\ NoImsi \notin Imsis

NoRnti == 0        \* UE_RNTI_INVALID
NoPci == 0         \* what ue_rem leaves in the pci of a slot

Slots == 0 .. UEMax - 1
Rntis == 0 .. RntiTop

(* Mutant of Candidates: the remainder is by one more. *)
CandidatesReserved == 1 .. RntiReserved

(* What ue_rnti_candidate can return: rand() % (UE_RNTI_RESERVED - 1) + 1. *)
Candidates == 1 .. RntiReserved - 1

UE == [rnti : Rntis, imsi : Imsis \cup {NoImsi}, pci : Pcis \cup {NoPci}]

FreeSlot == [rnti |-> NoRnti, imsi |-> NoImsi, pci |-> NoPci]

EmptyTable == [i \in Slots |-> FreeSlot]

RntisOf(t) == {t[i].rnti : i \in Slots}
ImsisOf(t) == {t[i].imsi : i \in Slots}

FreeSlots(t) == {i \in Slots : t[i].rnti = NoRnti}
ActiveSlots(t) == {i \in Slots : t[i].rnti # NoRnti}

(* The UEs a table holds, whatever the slots they sit in. *)
UesOf(t) == {<<t[i].imsi, t[i].rnti>> : i \in ActiveSlots(t)}

-----------------------------------------------------------------------------
(* ue_add *)

(* Mutant of AddResult: the loop stops at the first free slot and leaves   *)
(* the IMSIs behind it unread.                                             *)
AddResultStopsAtFree(t, imsi, pci, phy) ==
    IF \E i \in Slots : t[i].imsi = imsi /\ \A j \in FreeSlots(t) : i < j
    THEN "EXISTS"
    ELSE IF FreeSlots(t) = {} THEN "FULL"
    ELSE IF pci \in phy THEN "SUCCESS" ELSE "PCI_UNKNOWN"

(* The verdict of ue_add.  Its last pass over the slots compares the IMSI  *)
(* with every one of them, free ones included, so EXISTS comes before FULL;*)
(* the cell is looked up last.  phy is the set of values in the pci fields *)
(* of sim_phy.cells.                                                       *)
AddResult(t, imsi, pci, phy) ==
    CASE imsi \in ImsisOf(t)                         -> "EXISTS"
      [] imsi \notin ImsisOf(t) /\ FreeSlots(t) = {} -> "FULL"
      [] imsi \notin ImsisOf(t) /\ FreeSlots(t) # {} ->
            IF pci \in phy THEN "SUCCESS" ELSE "PCI_UNKNOWN"

(* Mutant of AssignedRntis: a candidate is not compared with the slots. *)
AssignedRntisOnce(t, rnti) ==
    IF rnti \in RntisOf(t) THEN Candidates ELSE {rnti}

(* The RNTI the do-while loop ends with: the one asked for unless a slot   *)
(* holds it (a free slot holds 0), otherwise some candidate no slot holds. *)
AssignedRntis(t, rnti) ==
    IF rnti \in RntisOf(t) THEN Candidates \ RntisOf(t) ELSE {rnti}

(* The slot taken is the first free one; PHY-level fields start afresh. *)
AddUE(t, rnti, imsi, pci) ==
    [t EXCEPT ![Min(FreeSlots(t))] =
        [rnti |-> rnti, imsi |-> imsi, pci |-> pci]]

-----------------------------------------------------------------------------
(* ue_rem *)

Matching(t, rnti) == {i \in Slots : t[i].rnti = rnti}

(* Mutant of RemUE: only the RNTI is reset. *)
RemUEKeepsImsi(t, rnti) ==
    IF Matching(t, rnti) = {}
    THEN t
    ELSE [t EXCEPT ![Min(Matching(t, rnti))].rnti = NoRnti]

(* ue_rem frees the first slot that holds the RNTI.  Asked for RNTI 0 it   *)
(* matches, and blanks again, the first free slot.                         *)
RemUE(t, rnti) ==
    IF Matching(t, rnti) = {}
    THEN t
    ELSE [t EXCEPT ![Min(Matching(t, rnti))] = FreeSlot]

=============================================================================
