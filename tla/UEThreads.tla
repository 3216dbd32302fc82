------------------------------ MODULE UEThreads ------------------------------
(***************************************************************************)
(* ue_add and ue_rem (ue.c) with no lock around them: each read and each   *)
(* write of a field of sim_ues, and of sim_nof_ues, is a step.  The memset *)
(* of a slot is one.                                                       *)
(*                                                                         *)
(* One thread adds and one removes, which is an eNB started with --hl once *)
(* its scenario is read: the main loop adds the UEs handed over to it      *)
(* (x2_handover), the agent removes those the controller hands over        *)
(* (wrap_handover).  Nothing here holds with a second thread that adds:    *)
(* both would find the same slot, RNTI or IMSI free.                       *)
(*                                                                         *)
(* RAN sharing is off and the list is not made dirty, as in every headless *)
(* handover; the PLMN, the bands and the measurements share the fate of    *)
(* the PCI.                                                                *)
(***************************************************************************)
EXTENDS UESlots

CONSTANTS
    Cell0,         \* sim_phy.cells[0].pci
    CountMod,      \* sim_nof_ues is a u32: 2^32
    NoSlot         \* -1 in the variable f of ue_add: no free slot seen yet

ASSUME ThreadsAssumption ==
    /\ Cell0 \in Pcis
    /\ CountMod \in Nat
    /\ UEMax < CountMod
    /\ NoSlot \notin Slots

VARIABLES
    ues,           \* sim_ues
    nof,           \* sim_nof_ues
    add,           \* where ue_add is, and its variables
    rem,           \* where ue_rem is, and its variables
    raced,         \* history: the slots both threads were writing at a time,
                   \* until they are taken again undisturbed
    miscounted     \* history: has an update of the count been overwritten?

vars == <<ues, nof, add, rem, raced, miscounted>>

(* ue_add: "scan", "scan rnti", "scan imsi", about to look whether slot i  *)
(* is free, has the RNTI, has the IMSI; "clean", "pci", "rnti", "imsi",    *)
(* about to write that of slot f; "load" and "store", about to read and to *)
(* write the count; "exists", "full", about to return that.  held and full *)
(* are history: was the IMSI in a slot, was no slot free at the call?      *)
AddIdle == [at |-> "idle", i |-> 0, e |-> FALSE, f |-> NoSlot, rnti |-> NoRnti,
            imsi |-> NoImsi, n |-> 0, held |-> FALSE, full |-> FALSE]

Places == {"idle", "scan", "scan rnti", "scan imsi", "clean", "pci", "rnti", "imsi",
           "load", "store", "exists", "full"}

Adder ==
    [at : Places,
     i : Slots, e : BOOLEAN, f : Slots \cup {NoSlot}, rnti : Rntis,
     imsi : Imsis \cup {NoImsi}, n : 0 .. CountMod - 1, held : BOOLEAN, full : BOOLEAN]

(* ue_rem: "scan", about to look at slot i; the others as above. *)
RemIdle == [at |-> "idle", i |-> 0, rnti |-> NoRnti, n |-> 0]

Remover ==
    [at : {"idle", "scan", "load", "store", "rnti", "imsi", "pci"},
     i : Slots, rnti : Rntis, n : 0 .. CountMod - 1]

TypeOK ==
    /\ ues \in [Slots -> UE]
    /\ nof \in 0 .. CountMod - 1
    /\ add \in Adder
    /\ rem \in Remover
    /\ raced \subseteq Slots
    /\ miscounted \in BOOLEAN

Init ==
    /\ ues = EmptyTable
    /\ nof = 0
    /\ add = AddIdle
    /\ rem = RemIdle
    /\ raced = {}
    /\ miscounted = FALSE

-----------------------------------------------------------------------------
(* The slots under the hands of the two threads. *)

Filling == IF add.at \in {"clean", "pci", "rnti", "imsi"} THEN {add.f} ELSE {}
Blanking == IF rem.at \in {"rnti", "imsi", "pci"} THEN {rem.i} ELSE {}

Race == raced' = raced \cup (Filling \cap Blanking)

-----------------------------------------------------------------------------
(* ue_add *)

BeginAdd ==
    /\ add.at = "idle"
    /\ \E imsi \in Imsis, asked \in Candidates :
          add' = [AddIdle EXCEPT !.at = "scan", !.imsi = imsi, !.rnti = asked,
                                 !.held = (imsi \in ImsisOf(ues)),
                                 !.full = (FreeSlots(ues) = {})]
    /\ UNCHANGED <<ues, nof, rem, raced, miscounted>>

Again == [add EXCEPT !.at = "scan", !.i = 0, !.e = FALSE]
Exists == [AddIdle EXCEPT !.at = "exists", !.held = add.held]
Full == [AddIdle EXCEPT !.at = "full", !.full = add.full]
Take == [AddIdle EXCEPT !.at = "clean", !.f = add.f, !.rnti = add.rnti, !.imsi = add.imsi]

(* Mutant of Pass: a draw is not compared with the slots. *)
PassOnce ==
    IF add.f = NoSlot THEN Full ELSE Take

(* The end of a pass over the slots: another one if the RNTI was drawn. *)
Pass ==
    CASE add.e                    -> Again
      [] ~add.e /\ add.f = NoSlot -> Full
      [] ~add.e /\ add.f # NoSlot -> Take

(* One slot of the do-while loop, in three steps.  The free slot is        *)
(* remembered once for all passes.                                         *)
LookFree ==
    /\ add.at = "scan"
    /\ add' = [add EXCEPT !.at = "scan rnti",
                          !.f = IF @ = NoSlot /\ ues[add.i].rnti = NoRnti THEN add.i ELSE @]
    /\ UNCHANGED <<ues, nof, rem, raced, miscounted>>

(* A slot with the RNTI has another one drawn, and ends the pass if a free *)
(* slot is known; its IMSI and those behind it are left to the next pass.  *)
CompareRnti ==
    /\ add.at = "scan rnti"
    /\ IF ues[add.i].rnti # add.rnti THEN add' = [add EXCEPT !.at = "scan imsi"]
       ELSE \E rnti \in Candidates :
               add' = [ IF add.f # NoSlot THEN Again
                        ELSE [add EXCEPT !.at = "scan imsi", !.e = TRUE]
                      EXCEPT !.rnti = rnti ]
    /\ UNCHANGED <<ues, nof, rem, raced, miscounted>>

(* Mutant of CompareImsi: no IMSI is compared behind the first free slot. *)
CompareImsiUpToFree ==
    /\ add.at = "scan imsi"
    /\ add' = IF ues[add.i].imsi = add.imsi /\ add.f = NoSlot THEN Exists
              ELSE IF add.i = UEMax - 1 THEN Pass
              ELSE [add EXCEPT !.at = "scan", !.i = @ + 1]
    /\ UNCHANGED <<ues, nof, rem, raced, miscounted>>

(* Mutant of CompareImsi: the last slot is left out. *)
CompareImsiShort ==
    /\ add.at = "scan imsi"
    /\ add' = IF ues[add.i].imsi = add.imsi THEN Exists
              ELSE IF add.i >= UEMax - 2 THEN Pass
              ELSE [add EXCEPT !.at = "scan", !.i = @ + 1]
    /\ UNCHANGED <<ues, nof, rem, raced, miscounted>>

CompareImsi ==
    /\ add.at = "scan imsi"
    /\ add' = IF ues[add.i].imsi = add.imsi THEN Exists
              ELSE IF add.i = UEMax - 1 THEN Pass
              ELSE [add EXCEPT !.at = "scan", !.i = @ + 1]
    /\ UNCHANGED <<ues, nof, rem, raced, miscounted>>

(* memset.  The cell is one of this eNB. *)
CleanSlot ==
    /\ add.at = "clean"
    /\ ues' = [ues EXCEPT ![add.f] = FreeSlot]
    /\ add' = [add EXCEPT !.at = "pci"]
    /\ raced' = (raced \ {add.f}) \cup (Filling \cap Blanking)
    /\ UNCHANGED <<nof, rem, miscounted>>

WritePci ==
    /\ add.at = "pci"
    /\ ues' = [ues EXCEPT ![add.f].pci = Cell0]
    /\ add' = [add EXCEPT !.at = "rnti"]
    /\ Race
    /\ UNCHANGED <<nof, rem, miscounted>>

WriteRnti ==
    /\ add.at = "rnti"
    /\ ues' = [ues EXCEPT ![add.f].rnti = add.rnti]
    /\ add' = [add EXCEPT !.at = "imsi"]
    /\ Race
    /\ UNCHANGED <<nof, rem, miscounted>>

WriteImsi ==
    /\ add.at = "imsi"
    /\ ues' = [ues EXCEPT ![add.f].imsi = add.imsi]
    /\ add' = [AddIdle EXCEPT !.at = "load"]
    /\ Race
    /\ UNCHANGED <<nof, rem, miscounted>>

(* sim_nof_ues++ *)
AddLoadsCount ==
    /\ add.at = "load"
    /\ add' = [add EXCEPT !.at = "store", !.n = nof]
    /\ UNCHANGED <<ues, nof, rem, raced, miscounted>>

AddStoresCount ==
    /\ add.at = "store"
    /\ nof' = (add.n + 1) % CountMod
    /\ miscounted' = (miscounted \/ nof # add.n)
    /\ add' = AddIdle
    /\ UNCHANGED <<ues, rem, raced>>

(* Mutant of Refuse: no return before the count goes up. *)
RefuseCounts ==
    /\ add.at \in {"exists", "full"}
    /\ add' = [AddIdle EXCEPT !.at = "load"]
    /\ UNCHANGED <<ues, nof, rem, raced, miscounted>>

Refuse ==
    /\ add.at \in {"exists", "full"}
    /\ add' = AddIdle
    /\ UNCHANGED <<ues, nof, rem, raced, miscounted>>

-----------------------------------------------------------------------------
(* ue_rem *)

(* wrap_handover: x2_hand_over has just sent the UE in slot i. *)
BeginRem ==
    /\ rem.at = "idle"
    /\ \E i \in ActiveSlots(ues) : rem' = [RemIdle EXCEPT !.at = "scan", !.rnti = ues[i].rnti]
    /\ UNCHANGED <<ues, nof, add, raced, miscounted>>

(* An RNTI that is in no slot would be no error. *)
SearchSlot ==
    /\ rem.at = "scan"
    /\ rem' = CASE ues[rem.i].rnti = rem.rnti                        -> [rem EXCEPT !.at = "load"]
                [] ues[rem.i].rnti # rem.rnti /\ rem.i = UEMax - 1 -> RemIdle
                [] ues[rem.i].rnti # rem.rnti /\ rem.i < UEMax - 1 -> [rem EXCEPT !.i = @ + 1]
    /\ UNCHANGED <<ues, nof, add, raced, miscounted>>

(* sim_nof_ues-- *)
RemLoadsCount ==
    /\ rem.at = "load"
    /\ rem' = [rem EXCEPT !.at = "store", !.n = nof]
    /\ UNCHANGED <<ues, nof, add, raced, miscounted>>

(* Mutant of RemStoresCount: the count is not a u32. *)
RemStoresCountSigned ==
    /\ rem.at = "store"
    /\ nof' = rem.n - 1
    /\ miscounted' = (miscounted \/ nof # rem.n)
    /\ rem' = [rem EXCEPT !.at = "rnti"]
    /\ UNCHANGED <<ues, add, raced>>

RemStoresCount ==
    /\ rem.at = "store"
    /\ nof' = (rem.n - 1) % CountMod
    /\ miscounted' = (miscounted \/ nof # rem.n)
    /\ rem' = [rem EXCEPT !.at = "rnti"]
    /\ UNCHANGED <<ues, add, raced>>

BlankRnti ==
    /\ rem.at = "rnti"
    /\ ues' = [ues EXCEPT ![rem.i].rnti = NoRnti]
    /\ rem' = [rem EXCEPT !.at = "imsi"]
    /\ Race
    /\ UNCHANGED <<nof, add, miscounted>>

(* Mutant of BlankImsi: it is done only for a UE still of that RNTI, which *)
(* BlankRnti has just changed.                                             *)
BlankImsiOfUe ==
    /\ rem.at = "imsi"
    /\ ues' = IF ues[rem.i].rnti = rem.rnti THEN [ues EXCEPT ![rem.i].imsi = NoImsi] ELSE ues
    /\ rem' = [rem EXCEPT !.at = "pci"]
    /\ Race
    /\ UNCHANGED <<nof, add, miscounted>>

BlankImsi ==
    /\ rem.at = "imsi"
    /\ ues' = [ues EXCEPT ![rem.i].imsi = NoImsi]
    /\ rem' = [rem EXCEPT !.at = "pci"]
    /\ Race
    /\ UNCHANGED <<nof, add, miscounted>>

BlankPci ==
    /\ rem.at = "pci"
    /\ ues' = [ues EXCEPT ![rem.i].pci = NoPci]
    /\ rem' = RemIdle
    /\ Race
    /\ UNCHANGED <<nof, add, miscounted>>

-----------------------------------------------------------------------------

UEAdd ==
    \/ BeginAdd
    \/ LookFree
    \/ CompareRnti
    \/ CompareImsi
    \/ CleanSlot
    \/ WritePci
    \/ WriteRnti
    \/ WriteImsi
    \/ AddLoadsCount
    \/ AddStoresCount
    \/ Refuse

UERem ==
    \/ BeginRem
    \/ SearchSlot
    \/ RemLoadsCount
    \/ RemStoresCount
    \/ BlankRnti
    \/ BlankImsi
    \/ BlankPci

Next == UEAdd \/ UERem

Spec == Init /\ [][Next]_vars

-----------------------------------------------------------------------------
(* Properties. *)

(* At no point of an add or a removal is a subscriber in two slots: what a *)
(* scan has seen may be freed behind it, never taken ("Two UE with the     *)
(* same IMSI are not allowed!", ue.c:72).                                  *)
UniqueImsi ==
    \A i, j \in Slots : ues[i].imsi = ues[j].imsi /\ ues[i].imsi # NoImsi => i = j

(* Nor does an RNTI name two UEs, whatever pass of the scan drew it.       *)
UniqueRnti ==
    \A i, j \in ActiveSlots(ues) : ues[i].rnti = ues[j].rnti => i = j

(* Unless both threads were writing it at once, a slot nobody is writing   *)
(* is free as a whole or taken as a whole (ue.c:89 and ue.c:158 onwards).  *)
SlotsWhole ==
    \A i \in Slots \ (raced \cup Filling \cup Blanking) :
        IF ues[i].rnti = NoRnti
        THEN ues[i] = FreeSlot
        ELSE ues[i].imsi \in Imsis /\ ues[i].pci = Cell0

(* Between calls the count is right as long as no update of it has been    *)
(* overwritten, even when a UE was removed while it was being added.       *)
CountRight ==
    add.at = "idle" /\ rem.at = "idle" /\ ~miscounted =>
        nof = Cardinality(ActiveSlots(ues))

(* A UE is turned away only for what was so when its call began: its IMSI  *)
(* was in a slot, or every slot was taken.                                 *)
RefusedRightly ==
    /\ add.at = "exists" => add.held
    /\ add.at = "full" => add.full

=============================================================================
