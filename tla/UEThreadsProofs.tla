--------------------------- MODULE UEThreadsProofs ---------------------------
(***************************************************************************)
(* Proofs about UEThreads, for every size of the table and every number of *)
(* subscribers and RNTIs: one thread may remove UEs at any access of       *)
(* another one that adds them.                                             *)
(*                                                                         *)
(* The invariant says what ue_add knows at each of its accesses and why a  *)
(* removal cannot take it away: what a scan has not found behind it nobody *)
(* puts there, since the other thread only blanks.  Slots are whole and    *)
(* the count is right because of what each thread has done so far of its   *)
(* slot (Filled, Blanked) and of its update (Counted).                     *)
(***************************************************************************)
EXTENDS UEThreads, TableProofs

(* In the scan: of the slots behind none has the IMSI, and none the RNTI   *)
(* unless it was drawn in this pass.  The free slot stays free.  An IMSI   *)
(* not held at the call is in no slot, and of a table not full at the call *)
(* a free slot is still to come, or known.                                 *)
Scans == {"scan", "scan rnti", "scan imsi"}

Scanning ==
    add.at \in Scans =>
        /\ add.imsi \in Imsis
        /\ add.rnti \in Candidates
        /\ add.f # NoSlot => ues[add.f].rnti = NoRnti
        /\ \A j \in Slots : j < add.i => ues[j].imsi # add.imsi
        /\ ~add.e => \A j \in Slots : j < add.i => ues[j].rnti # add.rnti
        /\ ~add.e /\ add.at = "scan imsi" => ues[add.i].rnti # add.rnti
        /\ ~add.held => \A j \in Slots : ues[j].imsi # add.imsi
        /\ ~add.full => \E j \in Slots :
                            /\ ues[j].rnti = NoRnti
                            /\ add.f = NoSlot => j >= add.i
                            /\ add.f = NoSlot /\ add.at # "scan" => j # add.i

(* Before the RNTI is written neither it nor the IMSI is in any slot. *)
Preparing ==
    add.at \in {"clean", "pci", "rnti"} =>
        /\ add.f \in Slots
        /\ add.imsi \in Imsis
        /\ add.rnti \in Candidates
        /\ \A j \in Slots : ues[j].imsi # add.imsi /\ ues[j].rnti # add.rnti

Completing ==
    add.at = "imsi" =>
        /\ add.f \in Slots
        /\ add.imsi \in Imsis
        /\ \A j \in Slots : ues[j].imsi # add.imsi

Typed ==
    /\ ues \in [Slots -> UE]
    /\ add \in Adder
    /\ rem \in Remover

CountTyped ==
    /\ nof \in 0 .. CountMod - 1
    /\ raced \subseteq Slots
    /\ miscounted \in BOOLEAN

IInv ==
    /\ Typed
    /\ Scanning
    /\ Preparing
    /\ Completing
    /\ UniqueImsi
    /\ UniqueRnti
    /\ RefusedRightly

-----------------------------------------------------------------------------
LEMMA CandidatesAreRntis == Candidates \subseteq Rntis \ {NoRnti}
BY SlotsAssumption DEF Candidates, Rntis, NoRnti

LEMMA FirstSlot ==
    /\ 0 \in Slots
    /\ UEMax - 1 \in Slots
    /\ Slots \subseteq Nat
    /\ NoSlot \notin Slots
    /\ 0 \in 0 .. CountMod - 1
BY SlotsAssumption, ThreadsAssumption DEF Slots

LEMMA Below ==
    ASSUME NEW i \in Slots, NEW j \in Slots, j < i + 1
    PROVE  j < i \/ j = i
BY SlotsAssumption DEF Slots

LEMMA SlotOrder ==
    ASSUME NEW i \in Slots
    PROVE  /\ \A j \in Slots : j >= i => ~(j < i)
           /\ \A j \in Slots : j >= i /\ j # i => j >= i + 1
           /\ i # UEMax - 1 => i + 1 \in Slots
BY SlotsAssumption DEF Slots

LEMMA FreeSlotIsUE == FreeSlot \in UE
BY SlotsAssumption DEF FreeSlot, UE, Rntis, NoRnti, NoPci

-----------------------------------------------------------------------------
(* Types. *)

LEMMA Moves ==
    ASSUME NEW a \in Adder, NEW at \in Places
    PROVE  [a EXCEPT !.at = at] \in Adder /\ [a EXCEPT !.at = at].at = at
BY DEF Adder

LEMMA AddIdleTyped == AddIdle \in Adder
BY FirstSlot, SlotsAssumption DEF AddIdle, Adder, Places, Rntis, NoRnti

LEMMA InitTyped == Init => Typed
BY FreeSlotIsUE, FirstSlot, ThreadsAssumption, SlotsAssumption
   DEF Init, Typed, EmptyTable, AddIdle, Adder, Places, RemIdle, Remover, Rntis, NoRnti

(* The count wraps at the ends of a u32. *)
LEMMA CountWraps ==
    ASSUME NEW n \in 0 .. CountMod - 1
    PROVE  /\ (n + 1) % CountMod \in 0 .. CountMod - 1
           /\ (n - 1) % CountMod \in 0 .. CountMod - 1
BY ThreadsAssumption, SlotsAssumption

-----------------------------------------------------------------------------
(* ue_add *)

(* A step of the scan that goes on scanning. *)
LEMMA ScanKeeps ==
    ASSUME IInv, CountTyped, add.at \in Scans, add'.at \in Scans,
           UNCHANGED <<ues, nof, rem, raced, miscounted>>,
           add' \in Adder, Scanning'
    PROVE  IInv' /\ CountTyped'
BY DEF IInv, CountTyped, Typed, Scans, Preparing, Completing, UniqueImsi, UniqueRnti,
       RefusedRightly, ActiveSlots

(* The pass is begun again, with the free slot if there is one by now. *)
LEMMA PassAgain ==
    ASSUME IInv, add.at \in Scans, NEW rnti \in Candidates, ues' = ues,
           add' = [Again EXCEPT !.rnti = rnti]
    PROVE  add' \in Adder /\ add'.at \in Scans /\ Scanning'
<1>1. /\ add \in Adder
      /\ add' = [[add EXCEPT !.at = "scan", !.i = 0, !.e = FALSE] EXCEPT !.rnti = rnti]
  BY DEF IInv, Typed, Again
<1>2. add' \in Adder
  BY <1>1, FirstSlot, CandidatesAreRntis DEF Adder, Places
<1>3. /\ add'.at = "scan" /\ add'.i = 0 /\ add'.rnti = rnti
      /\ add'.imsi = add.imsi /\ add'.f = add.f
      /\ add'.held = add.held /\ add'.full = add.full
  BY <1>1 DEF Adder
<1>4. \A j \in Slots : ~(j < 0) /\ j >= 0
  BY SlotsAssumption DEF Slots
<1>. QED
  BY <1>2, <1>3, <1>4 DEF IInv, Scanning, Scans

LEMMA LookStep ==
    ASSUME IInv, CountTyped, LookFree
    PROVE  IInv' /\ CountTyped'
<1>. DEFINE f == IF add.f = NoSlot /\ ues[add.i].rnti = NoRnti THEN add.i ELSE add.f
<1>1. /\ add.at = "scan"
      /\ UNCHANGED <<ues, nof, rem, raced, miscounted>>
      /\ add \in Adder
      /\ add' = [add EXCEPT !.at = "scan rnti", !.f = f]
  BY DEF LookFree, IInv, Typed, Adder
<1>2. add.i \in Slots /\ f \in Slots \cup {NoSlot}
  BY <1>1 DEF Adder
<1>3. f # NoSlot => ues[f].rnti = NoRnti
  BY <1>1 DEF IInv, Scanning, Scans
<1>4. f = NoSlot => add.f = NoSlot /\ ues[add.i].rnti # NoRnti
  BY <1>2, FirstSlot
<1>. HIDE DEF f
<1>5. add' \in Adder
  BY <1>1, <1>2 DEF Adder, Places
<1>6. /\ add'.at = "scan rnti" /\ add'.i = add.i /\ add'.e = add.e /\ add'.rnti = add.rnti
      /\ add'.imsi = add.imsi /\ add'.f = f
      /\ add'.held = add.held /\ add'.full = add.full
  BY <1>1 DEF Adder
<1>7. ~add.full => \E j \in Slots : /\ ues[j].rnti = NoRnti
                                    /\ f = NoSlot => j >= add.i /\ j # add.i
  <2>. SUFFICES ASSUME ~add.full
                PROVE  \E j \in Slots : /\ ues[j].rnti = NoRnti
                                        /\ f = NoSlot => j >= add.i /\ j # add.i
    OBVIOUS
  <2>1. PICK j \in Slots : ues[j].rnti = NoRnti /\ (add.f = NoSlot => j >= add.i)
    BY <1>1 DEF IInv, Scanning, Scans
  <2>. QED
    BY <1>4, <2>1
<1>8. Scanning'
  BY <1>1, <1>3, <1>6, <1>7 DEF IInv, Scanning, Scans
<1>. QED
  BY <1>1, <1>5, <1>6, <1>8, ScanKeeps DEF Scans

LEMMA RntiCompared ==
    ASSUME IInv, CountTyped, CompareRnti
    PROVE  IInv' /\ CountTyped'
<1>1. /\ add.at = "scan rnti"
      /\ UNCHANGED <<ues, nof, rem, raced, miscounted>>
      /\ add \in Adder
  BY DEF CompareRnti, IInv, Typed
<1>2. CASE ues[add.i].rnti # add.rnti
  <2>1. add' = [add EXCEPT !.at = "scan imsi"]
    BY <1>2 DEF CompareRnti
  <2>2. /\ add' \in Adder
        /\ add'.at = "scan imsi" /\ add'.i = add.i /\ add'.e = add.e
        /\ add'.rnti = add.rnti /\ add'.imsi = add.imsi /\ add'.f = add.f
        /\ add'.held = add.held /\ add'.full = add.full
    BY <1>1, <2>1 DEF Adder, Places
  <2>3. Scanning'
    BY <1>1, <1>2, <2>2 DEF IInv, Scanning, Scans
  <2>. QED
    BY <1>1, <2>2, <2>3, ScanKeeps DEF Scans
<1>3. CASE ues[add.i].rnti = add.rnti
  <2>1. PICK rnti \in Candidates :
           add' = [ IF add.f # NoSlot THEN Again
                    ELSE [add EXCEPT !.at = "scan imsi", !.e = TRUE]
                  EXCEPT !.rnti = rnti ]
    BY <1>3 DEF CompareRnti
  <2>2. CASE add.f # NoSlot
    BY <1>1, <2>1, <2>2, PassAgain, ScanKeeps DEF Scans
  <2>3. CASE add.f = NoSlot
    <3>1. add' = [[add EXCEPT !.at = "scan imsi", !.e = TRUE] EXCEPT !.rnti = rnti]
      BY <2>1, <2>3
    <3>2. /\ add' \in Adder
          /\ add'.at = "scan imsi" /\ add'.i = add.i /\ add'.e = TRUE
          /\ add'.rnti = rnti /\ add'.imsi = add.imsi /\ add'.f = add.f
          /\ add'.held = add.held /\ add'.full = add.full
      BY <1>1, <3>1, CandidatesAreRntis DEF Adder, Places
    <3>3. Scanning'
      BY <1>1, <3>2 DEF IInv, Scanning, Scans
    <3>. QED
      BY <1>1, <3>2, <3>3, ScanKeeps DEF Scans
  <2>. QED
    BY <2>2, <2>3
<1>. QED
  BY <1>2, <1>3

LEMMA ImsiCompared ==
    ASSUME IInv, CountTyped, CompareImsi
    PROVE  IInv' /\ CountTyped'
<1>1. /\ add.at = "scan imsi"
      /\ UNCHANGED <<ues, nof, rem, raced, miscounted>>
      /\ add \in Adder /\ add.i \in Slots /\ add.rnti \in Candidates
  BY DEF CompareImsi, IInv, Typed, Adder, Scanning, Scans
<1>5. add.i \in Slots
  BY <1>1
<1>2. CASE ues[add.i].imsi = add.imsi
  <2>1. add' = Exists /\ add.held
    BY <1>1, <1>2 DEF CompareImsi, IInv, Scanning, Scans
  <2>2. Typed'
    BY <1>1, <2>1, FirstSlot, AddIdleTyped DEF IInv, Typed, Adder, Places, Exists, AddIdle
  <2>. QED
    BY <1>1, <2>1, <2>2
       DEF IInv, CountTyped, Scanning, Scans, Preparing, Completing, UniqueImsi, UniqueRnti,
           RefusedRightly, ActiveSlots, Exists, AddIdle
<1>3. CASE ues[add.i].imsi # add.imsi /\ add.i = UEMax - 1
  <2>1. add' = Pass
    BY <1>3 DEF CompareImsi
  <2>2. \A j \in Slots : j < add.i \/ j = add.i
    BY <1>3, SlotsAssumption DEF Slots
  <2>3. CASE add.e
    <3>1. add' = [Again EXCEPT !.rnti = add.rnti]
      BY <1>1, <2>1, <2>3 DEF Pass, Again, Adder
    <3>. QED
      BY <1>1, <3>1, PassAgain, ScanKeeps DEF Scans
  <2>4. CASE ~add.e /\ add.f = NoSlot
    <3>1. add' = Full
      BY <2>1, <2>4 DEF Pass
    <3>2. add.full
      <4>1. ~add.full => \E j \in Slots : j >= add.i /\ j # add.i
        BY <1>1, <2>4 DEF IInv, Scanning, Scans
      <4>2. \A j \in Slots : j >= add.i => ~(j < add.i)
        BY <1>5, SlotOrder
      <4>. QED
        BY <2>2, <4>1, <4>2
    <3>3. Typed'
      BY <1>1, <3>1, FirstSlot, AddIdleTyped DEF IInv, Typed, Adder, Places, Full, AddIdle
    <3>. QED
      BY <1>1, <3>1, <3>2, <3>3
         DEF IInv, CountTyped, Scanning, Scans, Preparing, Completing, UniqueImsi, UniqueRnti,
             RefusedRightly, ActiveSlots, Full, AddIdle
  <2>5. CASE ~add.e /\ add.f # NoSlot
    <3>1. add' = Take
      BY <2>1, <2>5 DEF Pass
    <3>2. \A j \in Slots : ues[j].imsi # add.imsi /\ ues[j].rnti # add.rnti
      BY <1>1, <1>3, <2>2, <2>5 DEF IInv, Scanning, Scans
    <3>3. Typed'
      BY <1>1, <3>1, FirstSlot, AddIdleTyped DEF IInv, Typed, Adder, Places, Take, AddIdle
    <3>4. Preparing'
      BY <1>1, <2>5, <3>1, <3>2 DEF IInv, Typed, Adder, Scanning, Scans, Preparing, Take, AddIdle
    <3>. QED
      BY <1>1, <3>1, <3>3, <3>4
         DEF IInv, CountTyped, Scanning, Scans, Completing, UniqueImsi, UniqueRnti,
             RefusedRightly, ActiveSlots, Take, AddIdle
  <2>. QED
    BY <2>3, <2>4, <2>5
<1>4. CASE ues[add.i].imsi # add.imsi /\ add.i # UEMax - 1
  <2>1. add' = [add EXCEPT !.at = "scan", !.i = add.i + 1]
    BY <1>4 DEF CompareImsi
  <2>2. add.i + 1 \in Slots
    BY <1>4, <1>5, SlotOrder
  <2>3. /\ add' \in Adder
        /\ add'.at = "scan" /\ add'.i = add.i + 1 /\ add'.e = add.e
        /\ add'.rnti = add.rnti /\ add'.imsi = add.imsi /\ add'.f = add.f
        /\ add'.held = add.held /\ add'.full = add.full
    BY <1>1, <2>1, <2>2 DEF Adder, Places
  <2>4. \A j \in Slots : j < add.i + 1 => j < add.i \/ j = add.i
    BY <1>1, Below
  <2>5. \A j \in Slots : j >= add.i /\ j # add.i => j >= add.i + 1
    BY <1>5, SlotOrder
  <2>6. Scanning'
    <3>1. /\ \A j \in Slots : j < add.i + 1 => ues[j].imsi # add.imsi
          /\ ~add.e => \A j \in Slots : j < add.i + 1 => ues[j].rnti # add.rnti
      BY <1>1, <1>4, <2>4 DEF IInv, Scanning, Scans
    <3>2. ~add.full => \E j \in Slots : ues[j].rnti = NoRnti /\ (add.f = NoSlot => j >= add.i + 1)
      BY <1>1, <2>5 DEF IInv, Scanning, Scans
    <3>. QED
      BY <1>1, <2>3, <3>1, <3>2 DEF IInv, Scanning, Scans
  <2>. QED
    BY <1>1, <2>3, <2>6, ScanKeeps DEF Scans
<1>. QED
  BY <1>2, <1>3, <1>4

(* The steps of ue_add that write sim_ues. *)
LEMMA CleanStep ==
    ASSUME IInv, CleanSlot
    PROVE  IInv'
<1>1. /\ add.at = "clean" /\ add.f \in Slots
      /\ ues' = [ues EXCEPT ![add.f] = FreeSlot]
      /\ add' = [add EXCEPT !.at = "pci"]
      /\ rem' = rem
  BY DEF CleanSlot, IInv, Preparing
<1>2. Typed'
  BY <1>1, FreeSlotIsUE DEF IInv, Typed, Adder, Places
<1>3. Preparing'
  BY <1>1, CandidatesAreRntis, SlotsAssumption DEF IInv, Typed, Adder, Preparing, FreeSlot
<1>4. UniqueImsi' /\ UniqueRnti'
  BY <1>1 DEF IInv, Typed, UniqueImsi, UniqueRnti, ActiveSlots, FreeSlot
<1>. QED
  BY <1>1, <1>2, <1>3, <1>4 DEF IInv, Typed, Adder, Scanning, Scans, Completing, RefusedRightly

LEMMA PciStep ==
    ASSUME IInv, WritePci
    PROVE  IInv'
<1>1. /\ add.at = "pci" /\ add.f \in Slots
      /\ ues' = [ues EXCEPT ![add.f].pci = Cell0]
      /\ add' = [add EXCEPT !.at = "rnti"]
      /\ rem' = rem
  BY DEF WritePci, IInv, Preparing
<1>2. Typed'
  <2>1. add' \in Adder
    BY <1>1, Moves DEF IInv, Typed, Places
  <2>2. ues' \in [Slots -> UE]
    BY <1>1, ThreadsAssumption DEF IInv, Typed, UE
  <2>. QED
    BY <1>1, <2>1, <2>2 DEF IInv, Typed
<1>3. Preparing'
  BY <1>1 DEF IInv, Typed, Adder, Preparing, UE
<1>4. UniqueImsi' /\ UniqueRnti'
  BY <1>1 DEF IInv, Typed, UniqueImsi, UniqueRnti, ActiveSlots, UE
<1>. QED
  BY <1>1, <1>2, <1>3, <1>4 DEF IInv, Typed, Adder, Scanning, Scans, Completing, RefusedRightly

LEMMA RntiStep ==
    ASSUME IInv, WriteRnti
    PROVE  IInv'
<1>1. /\ add.at = "rnti" /\ add.f \in Slots
      /\ ues' = [ues EXCEPT ![add.f].rnti = add.rnti]
      /\ add' = [add EXCEPT !.at = "imsi"]
      /\ rem' = rem
  BY DEF WriteRnti, IInv, Preparing
<1>2. Typed'
  <2>1. add' \in Adder
    BY <1>1, Moves DEF IInv, Typed, Places
  <2>2. ues' \in [Slots -> UE]
    BY <1>1 DEF IInv, Typed, Adder, UE
  <2>. QED
    BY <1>1, <2>1, <2>2 DEF IInv, Typed
<1>3. Completing'
  BY <1>1 DEF IInv, Typed, Adder, Preparing, Completing, UE
<1>4. UniqueImsi'
  BY <1>1 DEF IInv, Typed, UniqueImsi, UE
<1>5. UniqueRnti'
  <2>1. \A j \in Slots : ues[j].rnti # add.rnti
    BY <1>1 DEF IInv, Preparing
  <2>2. \A j \in Slots : ues'[j].rnti = IF j = add.f THEN add.rnti ELSE ues[j].rnti
    BY <1>1 DEF IInv, Typed, UE
  <2>. QED
    BY <2>1, <2>2 DEF IInv, UniqueRnti, ActiveSlots
<1>. QED
  BY <1>1, <1>2, <1>3, <1>4, <1>5 DEF IInv, Typed, Adder, Scanning, Scans, Preparing, RefusedRightly

LEMMA ImsiStep ==
    ASSUME IInv, WriteImsi
    PROVE  IInv'
<1>1. /\ add.at = "imsi" /\ add.f \in Slots
      /\ ues' = [ues EXCEPT ![add.f].imsi = add.imsi]
      /\ add' = [AddIdle EXCEPT !.at = "load"]
      /\ rem' = rem
  BY DEF WriteImsi, IInv, Completing
<1>2. Typed'
  <2>1. ues' \in [Slots -> UE]
    BY <1>1 DEF IInv, Typed, Completing, UE
  <2>2. add' \in Adder
    BY <1>1, AddIdleTyped DEF Adder, Places
  <2>. QED
    BY <1>1, <2>1, <2>2 DEF IInv, Typed
<1>3. UniqueRnti'
  BY <1>1 DEF IInv, Typed, UniqueRnti, ActiveSlots, UE
<1>4. UniqueImsi'
  <2>1. \A j \in Slots : ues[j].imsi # add.imsi
    BY <1>1 DEF IInv, Completing
  <2>2. \A j \in Slots : ues'[j].imsi = IF j = add.f THEN add.imsi ELSE ues[j].imsi
    BY <1>1 DEF IInv, Typed, UE
  <2>. QED
    BY <2>1, <2>2 DEF IInv, UniqueImsi
<1>. QED
  BY <1>1, <1>2, <1>3, <1>4 DEF IInv, AddIdle, Scanning, Scans, Preparing, Completing, RefusedRightly

(* The other steps of ue_add leave sim_ues alone. *)
LEMMA AddRestStep ==
    ASSUME IInv, CountTyped, BeginAdd \/ AddLoadsCount \/ AddStoresCount \/ Refuse
    PROVE  IInv'
<1>1. UNCHANGED <<ues, rem>>
  BY DEF BeginAdd, AddLoadsCount, AddStoresCount, Refuse
<1>2. CASE BeginAdd
  <2>1. PICK imsi \in Imsis, asked \in Candidates :
           add' = [AddIdle EXCEPT !.at = "scan", !.imsi = imsi, !.rnti = asked,
                                  !.held = (imsi \in ImsisOf(ues)),
                                  !.full = (FreeSlots(ues) = {})]
    BY <1>2 DEF BeginAdd
  <2> DEFINE h == imsi \in ImsisOf(ues)
             u == FreeSlots(ues) = {}
  <2>3. h \in BOOLEAN /\ u \in BOOLEAN
    OBVIOUS
  <2>4. ~h => \A j \in Slots : ues[j].imsi # imsi
    BY DEF ImsisOf
  <2>5. ~u => \E j \in Slots : ues[j].rnti = NoRnti
    BY DEF FreeSlots
  <2>6. add' = [at |-> "scan", i |-> 0, e |-> FALSE, f |-> NoSlot, rnti |-> asked,
                imsi |-> imsi, n |-> 0, held |-> h, full |-> u]
    BY <2>1 DEF AddIdle
  <2> HIDE DEF h, u
  <2>7. Typed'
    BY <1>1, <2>3, <2>6, FirstSlot, CandidatesAreRntis DEF IInv, Typed, Adder, Places
  <2>8. Scanning'
    BY <1>1, <2>4, <2>5, <2>6, FirstSlot DEF Scanning, Scans
  <2>. QED
    BY <1>1, <2>6, <2>7, <2>8
       DEF IInv, Preparing, Completing, UniqueImsi, UniqueRnti, RefusedRightly, ActiveSlots
<1>3. CASE AddLoadsCount
  <2>1. add' = [add EXCEPT !.at = "store", !.n = nof] /\ nof \in 0 .. CountMod - 1
    BY <1>3 DEF AddLoadsCount, CountTyped
  <2>2. Typed'
    <3>1. [add EXCEPT !.n = nof] \in Adder /\ add' = [[add EXCEPT !.n = nof] EXCEPT !.at = "store"]
      BY <2>1 DEF IInv, Typed, Adder
    <3>. QED
      BY <1>1, <3>1, Moves DEF IInv, Typed, Places
  <2>. QED
    BY <1>1, <2>1, <2>2
       DEF IInv, Typed, Adder, Scanning, Scans, Preparing, Completing, UniqueImsi, UniqueRnti,
           RefusedRightly, ActiveSlots
<1>4. CASE AddStoresCount \/ Refuse
  <2>1. add' = AddIdle
    BY <1>4 DEF AddStoresCount, Refuse
  <2>. QED
    BY <1>1, <2>1, AddIdleTyped
       DEF IInv, Typed, AddIdle, Scanning, Scans, Preparing, Completing, UniqueImsi, UniqueRnti,
           RefusedRightly, ActiveSlots
<1>. QED
  BY <1>2, <1>3, <1>4

-----------------------------------------------------------------------------
(* ue_rem *)

(* Whatever ue_add is about to do, blanking a field of a slot takes        *)
(* nothing from what it knows.                                             *)
LEMMA BlankStep ==
    ASSUME IInv, add' = add,
           ues' \in [Slots -> UE],
           \A j \in Slots : /\ ues'[j].rnti \in {ues[j].rnti, NoRnti}
                           /\ ues'[j].imsi \in {ues[j].imsi, NoImsi},
           rem' \in Remover
    PROVE  IInv'
<1>1. Scanning'
  <2>1. add.at \in Scans => add.i \in Slots /\ add.rnti # NoRnti /\ add.imsi # NoImsi
    BY CandidatesAreRntis, SlotsAssumption DEF IInv, Typed, Adder, Scanning
  <2>2. add.f \in Slots \cup {NoSlot}
    BY DEF IInv, Typed, Adder
  <2>. QED
    BY <2>1, <2>2 DEF IInv, Scanning, Scans
<1>2. Preparing' /\ Completing'
  BY CandidatesAreRntis, SlotsAssumption DEF IInv, Preparing, Completing
<1>3. UniqueImsi' /\ UniqueRnti'
  BY DEF IInv, UniqueImsi, UniqueRnti, ActiveSlots
<1>. QED
  BY <1>1, <1>2, <1>3 DEF IInv, Typed, RefusedRightly

LEMMA RemStep ==
    ASSUME IInv, CountTyped, UERem
    PROVE  IInv'
<1>1. add' = add
  BY DEF UERem, BeginRem, SearchSlot, RemLoadsCount, RemStoresCount, BlankRnti, BlankImsi, BlankPci
<1>2. rem' \in Remover
  <2>1. RemIdle \in Remover
    BY FirstSlot, SlotsAssumption DEF RemIdle, Remover, Rntis, NoRnti
  <2>2. CASE BeginRem
    BY <2>1, <2>2 DEF BeginRem, IInv, Typed, UE, Remover, RemIdle, ActiveSlots
  <2>3. CASE SearchSlot
    <3>1. rem \in Remover /\ rem.i \in Slots
      BY DEF IInv, Typed, Remover
    <3>2. rem.i < UEMax - 1 => rem.i + 1 \in Slots
      BY <3>1, SlotsAssumption DEF Slots
    <3>3. rem.i = UEMax - 1 \/ rem.i < UEMax - 1
      BY <3>1, SlotsAssumption DEF Slots
    <3>. QED
      BY <2>1, <2>3, <3>1, <3>2, <3>3 DEF SearchSlot, Remover
  <2>4. CASE RemLoadsCount \/ RemStoresCount \/ BlankRnti \/ BlankImsi \/ BlankPci
    BY <2>1, <2>4
       DEF RemLoadsCount, RemStoresCount, BlankRnti, BlankImsi, BlankPci, CountTyped, IInv, Typed, Remover
  <2>. QED
    BY <2>2, <2>3, <2>4 DEF UERem
<1>3. rem.i \in Slots
  BY DEF IInv, Typed, Remover
<1>4. /\ ues' \in [Slots -> UE]
      /\ \A j \in Slots : /\ ues'[j].rnti \in {ues[j].rnti, NoRnti}
                          /\ ues'[j].imsi \in {ues[j].imsi, NoImsi}
  <2>1. CASE UNCHANGED ues
    BY <2>1 DEF IInv, Typed
  <2>2. CASE BlankRnti
    BY <1>3, <2>2, SlotsAssumption DEF BlankRnti, IInv, Typed, UE, Rntis, NoRnti
  <2>3. CASE BlankImsi
    BY <1>3, <2>3 DEF BlankImsi, IInv, Typed, UE
  <2>4. CASE BlankPci
    BY <1>3, <2>4 DEF BlankPci, IInv, Typed, UE
  <2>. QED
    BY <2>1, <2>2, <2>3, <2>4 DEF UERem, BeginRem, SearchSlot, RemLoadsCount, RemStoresCount
<1>. QED
  BY <1>1, <1>2, <1>4, BlankStep

-----------------------------------------------------------------------------
(* The invariant. *)

LEMMA InitInv == Init => IInv /\ CountTyped
<1>1. Init => CountTyped
  BY FirstSlot DEF Init, CountTyped
<1>. QED
  BY <1>1, InitTyped, FirstSlot, SlotsAssumption
     DEF Init, IInv, AddIdle, EmptyTable, FreeSlot, Scanning, Scans, Preparing, Completing, UniqueImsi,
         UniqueRnti, RefusedRightly, ActiveSlots

LEMMA CountStep ==
    ASSUME IInv, CountTyped, Next
    PROVE  CountTyped'
<1>1. Filling \cap Blanking \subseteq Slots
  BY DEF Blanking, IInv, Typed, Remover
<1>2. CASE AddStoresCount \/ RemStoresCount
  BY <1>2, CountWraps DEF AddStoresCount, RemStoresCount, CountTyped, IInv, Typed, Adder, Remover
<1>3. CASE CleanSlot \/ WritePci \/ WriteRnti \/ WriteImsi \/ BlankRnti \/ BlankImsi \/ BlankPci
  BY <1>1, <1>3
     DEF CleanSlot, WritePci, WriteRnti, WriteImsi, BlankRnti, BlankImsi, BlankPci, Race, CountTyped
<1>4. CASE BeginAdd \/ AddLoadsCount \/ Refuse \/ BeginRem \/ SearchSlot \/ RemLoadsCount
  BY <1>4
     DEF BeginAdd, AddLoadsCount, Refuse, BeginRem, SearchSlot, RemLoadsCount, CountTyped
<1>5. CASE LookFree \/ CompareRnti \/ CompareImsi
  BY <1>5 DEF LookFree, CompareRnti, CompareImsi, CountTyped
<1>. QED
  BY <1>2, <1>3, <1>4, <1>5 DEF Next, UEAdd, UERem

LEMMA NextInv == IInv /\ CountTyped /\ [Next]_vars => IInv' /\ CountTyped'
<1>. SUFFICES ASSUME IInv, CountTyped, [Next]_vars
              PROVE  IInv' /\ CountTyped'
  OBVIOUS
<1>1. CASE Next
  BY <1>1, CountStep, LookStep, RntiCompared, ImsiCompared, CleanStep, PciStep, RntiStep, ImsiStep,
     AddRestStep, RemStep DEF Next, UEAdd
<1>2. CASE UNCHANGED vars
  BY <1>2
     DEF vars, IInv, CountTyped, Typed, Scanning, Scans, Preparing, Completing, UniqueImsi, UniqueRnti,
         RefusedRightly, ActiveSlots
<1>. QED
  BY <1>1, <1>2

LEMMA InvHolds == Spec => [](IInv /\ CountTyped)
BY InitInv, NextInv, PTL DEF Spec

-----------------------------------------------------------------------------
(* Whole slots and the count. *)

(* ue_add writes a slot that nobody is in until it writes the RNTI, ue_rem *)
(* blanks one that somebody is in until it takes the RNTI away.            *)
Vacant ==
    add.at \in {"clean", "pci", "rnti"} => ues[add.f].rnti = NoRnti

Claimed ==
    /\ rem.at = "scan" => rem.rnti # NoRnti
    /\ rem.at \in {"load", "store", "rnti"} => ues[rem.i].rnti # NoRnti

(* What each has made so far of its slot, if the other was not in it.      *)
Filled ==
    add.f \notin raced \cup Blanking =>
        /\ add.at = "pci" => ues[add.f] = FreeSlot
        /\ add.at = "rnti" => ues[add.f] = [FreeSlot EXCEPT !.pci = Cell0]
        /\ add.at = "imsi" => ues[add.f].pci = Cell0 /\ ues[add.f].rnti # NoRnti

Blanked ==
    rem.i \notin raced \cup Filling =>
        /\ rem.at \in {"imsi", "pci"} => ues[rem.i].rnti = NoRnti
        /\ rem.at = "pci" => ues[rem.i].imsi = NoImsi

SInv ==
    /\ Vacant
    /\ Claimed
    /\ Filled
    /\ Blanked
    /\ SlotsWhole

(* A UE that is in but not counted yet, and one that is counted out but    *)
(* still in.                                                               *)
Uncounted == IF add.at \in {"imsi", "load", "store"} THEN 1 ELSE 0
Discounted == IF rem.at = "rnti" THEN 1 ELSE 0

Counted ==
    ~miscounted =>
        nof = (Cardinality(ActiveSlots(ues)) - Uncounted - Discounted) % CountMod

LEMMA InitSInv == Init => SInv /\ Counted
<1>. SUFFICES ASSUME Init PROVE SInv /\ Counted
  OBVIOUS
<1>1. add.at = "idle" /\ rem.at = "idle" /\ ues = EmptyTable /\ nof = 0
  BY DEF Init, AddIdle, RemIdle
<1>2. SInv
  BY <1>1 DEF SInv, Vacant, Claimed, Filled, Blanked, SlotsWhole, EmptyTable, FreeSlot
<1>3. ActiveSlots(ues) = {}
  BY <1>1 DEF ActiveSlots, EmptyTable, FreeSlot
<1>4. 0 % CountMod = 0
  BY ThreadsAssumption, SlotsAssumption
<1>. QED
  BY <1>1, <1>2, <1>3, <1>4, FS_EmptySet DEF Counted, Uncounted, Discounted

(* A step of the scan ends in the next one, a refusal, or a free slot.     *)
LEMMA ScanOutcome ==
    ASSUME IInv, LookFree \/ CompareRnti \/ CompareImsi
    PROVE  /\ UNCHANGED <<ues, nof, rem, raced, miscounted>>
           /\ add.at \in Scans
           /\ add'.at \in Scans \cup {"exists", "full", "clean"}
           /\ add'.at = "clean" => ues[add'.f].rnti = NoRnti
<1>1. add \in Adder
  BY DEF IInv, Typed
<1>2. CASE LookFree
  BY <1>1, <1>2 DEF LookFree, Adder, Scans
<1>3. CASE CompareRnti
  <2>1. /\ UNCHANGED <<ues, nof, rem, raced, miscounted>>
        /\ add.at = "scan rnti"
        /\ \/ add' = [add EXCEPT !.at = "scan imsi"]
           \/ \E rnti : add' = [Again EXCEPT !.rnti = rnti]
           \/ \E rnti : add' = [[add EXCEPT !.at = "scan imsi", !.e = TRUE] EXCEPT !.rnti = rnti]
    BY <1>3 DEF CompareRnti
  <2>. QED
    BY <1>1, <2>1 DEF Again, Adder, Scans
<1>4. CASE CompareImsi
  <2>1. /\ UNCHANGED <<ues, nof, rem, raced, miscounted>>
        /\ add.at = "scan imsi"
        /\ add.f # NoSlot => ues[add.f].rnti = NoRnti
        /\ \/ add' \in {Exists, Again, Full, [add EXCEPT !.at = "scan", !.i = @ + 1]}
           \/ add' = Take /\ add.f # NoSlot
    <3>1. add.e \in BOOLEAN
      BY <1>1 DEF Adder
    <3>2. Pass \in {Again, Full} \/ (Pass = Take /\ add.f # NoSlot)
      <4>1. add.e => Pass = Again
        BY DEF Pass
      <4>2. ~add.e /\ add.f = NoSlot => Pass = Full
        BY DEF Pass
      <4>3. ~add.e /\ add.f # NoSlot => Pass = Take
        BY DEF Pass
      <4>. QED
        BY <4>1, <4>2, <4>3
    <3>3. add' \in {Exists, Pass, [add EXCEPT !.at = "scan", !.i = @ + 1]}
      BY <1>4 DEF CompareImsi
    <3>4. /\ UNCHANGED <<ues, nof, rem, raced, miscounted>>
          /\ add.at = "scan imsi"
          /\ add.f # NoSlot => ues[add.f].rnti = NoRnti
      BY <1>4 DEF CompareImsi, IInv, Scanning, Scans
    <3>. QED
      BY <3>2, <3>3, <3>4
  <2>. QED
    BY <1>1, <2>1 DEF Exists, Again, Full, Take, AddIdle, Adder, Scans
<1>. QED
  BY <1>2, <1>3, <1>4

(* Steps of ue_add outside the slot it fills, and of ue_rem outside the    *)
(* one it blanks.                                                          *)
LEMMA AddElsewhere ==
    ASSUME SInv, UNCHANGED <<ues, rem, raced>>,
           add.at \notin {"clean", "pci", "rnti", "imsi"},
           add'.at \notin {"pci", "rnti", "imsi"},
           add'.at = "clean" => ues[add'.f].rnti = NoRnti
    PROVE  SInv'
<1>1. Filling = {} /\ Blanking' = Blanking
  BY DEF Filling, Blanking
<1>. QED
  BY <1>1 DEF SInv, Vacant, Claimed, Filled, Blanked, SlotsWhole

LEMMA RemElsewhere ==
    ASSUME SInv, UNCHANGED <<ues, add, raced>>,
           rem.at \notin {"rnti", "imsi", "pci"},
           rem'.at \notin {"imsi", "pci"},
           Claimed'
    PROVE  SInv'
<1>1. Blanking = {} /\ Filling' = Filling
  BY DEF Filling, Blanking
<1>. QED
  BY <1>1 DEF SInv, Vacant, Filled, Blanked, SlotsWhole

LEMMA CleanWhole ==
    ASSUME IInv, SInv, CleanSlot
    PROVE  SInv'
<1>1. /\ add.at = "clean" /\ add'.at = "pci" /\ add'.f = add.f /\ add.f \in Slots /\ rem' = rem
      /\ ues'[add.f] = FreeSlot
      /\ \A j \in Slots \ {add.f} : ues'[j] = ues[j]
      /\ raced' = (raced \ {add.f}) \cup (Filling \cap Blanking)
  BY DEF CleanSlot, IInv, Typed, Adder, Preparing
<1>2. Filling = {add.f} /\ Filling' = {add.f} /\ Blanking' = Blanking /\ rem.i \in Slots
  BY <1>1 DEF Filling, Blanking, IInv, Typed, Remover
<1>3. Vacant' /\ Claimed' /\ Filled'
  BY <1>1, <1>2 DEF SInv, Vacant, Claimed, Filled, FreeSlot
<1>4. Blanked'
  BY <1>1, <1>2 DEF SInv, Blanked
<1>5. SlotsWhole'
  BY <1>1, <1>2 DEF SInv, SlotsWhole
<1>. QED
  BY <1>3, <1>4, <1>5 DEF SInv

(* A field of the slot that is filled: until the RNTI is in it nobody else *)
(* blanks it.                                                              *)
LEMMA FillWhole ==
    ASSUME IInv, SInv, WritePci \/ WriteRnti
    PROVE  SInv'
<1>1. /\ add.at \in {"pci", "rnti"} /\ add.f \in Slots /\ rem' = rem /\ rem.i \in Slots
      /\ add'.f = add.f
      /\ raced' = raced \cup (Filling \cap Blanking)
  BY DEF WritePci, WriteRnti, Race, IInv, Typed, Adder, Remover, Preparing
<1>2. /\ WritePci => add.at = "pci" /\ add'.at = "rnti" /\ ues' = [ues EXCEPT ![add.f].pci = Cell0]
      /\ WriteRnti => /\ add.at = "rnti" /\ add'.at = "imsi"
                      /\ ues' = [ues EXCEPT ![add.f].rnti = add.rnti]
  BY DEF WritePci, WriteRnti, IInv, Typed, Adder
<1>3. \A j \in Slots \ {add.f} : ues'[j] = ues[j]
  BY <1>1, <1>2 DEF IInv, Typed
<1>4. Filling = {add.f} /\ Filling' = {add.f} /\ Blanking' = Blanking
  BY <1>1, <1>2 DEF Filling, Blanking
<1>5. Blanked' /\ SlotsWhole'
  BY <1>1, <1>3, <1>4 DEF SInv, Blanked, SlotsWhole
<1>6. CASE WritePci
  <2>1. ues'[add.f] = [ues[add.f] EXCEPT !.pci = Cell0] /\ ues[add.f] \in UE
    BY <1>1, <1>2, <1>6 DEF IInv, Typed
  <2>2. Vacant'
    BY <1>1, <1>2, <1>6, <2>1 DEF SInv, Vacant, UE
  <2>3. Claimed'
    BY <1>1, <1>3, <1>2, <1>6 DEF SInv, Vacant, Claimed
  <2>4. Filled'
    BY <1>1, <1>2, <1>4, <1>6, <2>1 DEF SInv, Filled
  <2>. QED
    BY <1>5, <2>2, <2>3, <2>4 DEF SInv
<1>7. CASE WriteRnti
  <2>1. /\ ues'[add.f] = [ues[add.f] EXCEPT !.rnti = add.rnti]
        /\ ues[add.f] \in UE
        /\ add.rnti # NoRnti
    BY <1>1, <1>2, <1>7, CandidatesAreRntis DEF IInv, Typed, Preparing
  <2>2. Vacant'
    BY <1>2, <1>7 DEF Vacant
  <2>3. Claimed'
    BY <1>1, <1>3, <1>2, <1>7 DEF SInv, Vacant, Claimed
  <2>4. Filled'
    BY <1>1, <1>2, <1>4, <1>7, <2>1 DEF SInv, Filled, FreeSlot, UE
  <2>. QED
    BY <1>5, <2>2, <2>3, <2>4 DEF SInv
<1>. QED
  BY <1>6, <1>7

(* The last field: the slot is left whole, or has been noted as raced.     *)
LEMMA ImsiWhole ==
    ASSUME IInv, SInv, WriteImsi
    PROVE  SInv'
<1>1. /\ add.at = "imsi" /\ add'.at = "load" /\ add.f \in Slots /\ rem' = rem /\ rem.i \in Slots
      /\ add.imsi \in Imsis
      /\ ues' = [ues EXCEPT ![add.f].imsi = add.imsi]
      /\ raced' = raced \cup (Filling \cap Blanking)
  BY DEF WriteImsi, Race, AddIdle, IInv, Typed, Adder, Remover, Completing
<1>2. Filling = {add.f} /\ Filling' = {} /\ Blanking' = Blanking
  BY <1>1 DEF Filling, Blanking
<1>3. /\ \A j \in Slots \ {add.f} : ues'[j] = ues[j]
      /\ ues'[add.f].rnti = ues[add.f].rnti
      /\ ues'[add.f].pci = ues[add.f].pci
      /\ ues'[add.f].imsi = add.imsi
  BY <1>1 DEF IInv, Typed, UE
<1>4. Vacant' /\ Filled'
  BY <1>1 DEF Vacant, Filled
<1>5. Claimed'
  BY <1>1, <1>3 DEF SInv, Claimed
<1>6. Blanked'
  <2>1. rem.at \in {"imsi", "pci"} /\ rem.i \notin raced' => rem.i # add.f
    BY <1>1, <1>2 DEF Blanking
  <2>. QED
    BY <1>1, <1>2, <1>3, <2>1 DEF SInv, Blanked
<1>7. SlotsWhole'
  <2>1. add.f \notin raced' \cup Blanking =>
            ues'[add.f].rnti # NoRnti /\ ues'[add.f].imsi \in Imsis /\ ues'[add.f].pci = Cell0
    BY <1>1, <1>3 DEF SInv, Filled
  <2>. QED
    BY <1>1, <1>2, <1>3, <2>1 DEF SInv, SlotsWhole
<1>. QED
  BY <1>4, <1>5, <1>6, <1>7 DEF SInv

(* The fields ue_rem blanks. *)
LEMMA BlankWhole ==
    ASSUME IInv, SInv, BlankRnti \/ BlankImsi \/ BlankPci
    PROVE  SInv'
<1>1. /\ rem.at \in {"rnti", "imsi", "pci"} /\ rem.i \in Slots /\ add' = add
      /\ raced' = raced \cup (Filling \cap Blanking)
      /\ RemIdle.at = "idle"
  BY DEF BlankRnti, BlankImsi, BlankPci, Race, IInv, Typed, Remover, RemIdle
<1>2. /\ \A j \in Slots \ {rem.i} : ues'[j] = ues[j]
      /\ ues[rem.i] \in UE
      /\ BlankRnti => ues'[rem.i] = [ues[rem.i] EXCEPT !.rnti = NoRnti]
      /\ BlankImsi => ues'[rem.i] = [ues[rem.i] EXCEPT !.imsi = NoImsi]
      /\ BlankPci => ues'[rem.i] = [ues[rem.i] EXCEPT !.pci = NoPci]
  BY <1>1 DEF BlankRnti, BlankImsi, BlankPci, IInv, Typed
<1>3. /\ BlankRnti => rem.at = "rnti" /\ rem'.at = "imsi" /\ rem'.i = rem.i
      /\ BlankImsi => rem.at = "imsi" /\ rem'.at = "pci" /\ rem'.i = rem.i
      /\ BlankPci => rem.at = "pci" /\ rem'.at = "idle"
  BY <1>1 DEF BlankRnti, BlankImsi, BlankPci, IInv, Typed, Remover
<1>4. Blanking = {rem.i} /\ Filling' = Filling /\ Blanking' \subseteq {rem.i}
  BY <1>1, <1>3 DEF Filling, Blanking
<1>5. Vacant'
  <2>1. add.f = rem.i => ues'[rem.i].rnti \in {NoRnti, ues[rem.i].rnti}
    BY <1>2 DEF UE
  <2>2. add.at \in {"clean", "pci", "rnti"} => add.f \in Slots
    BY DEF IInv, Preparing
  <2>. QED
    BY <1>1, <1>2, <2>1, <2>2 DEF SInv, Vacant
<1>6. Claimed'
  BY <1>1, <1>3 DEF Claimed
<1>7. Filled'
  <2>1. add.at \in {"pci", "rnti", "imsi"} /\ add.f \notin raced' \cup Blanking' =>
            add.f # rem.i /\ add.f \in Slots /\ add.f \notin raced \cup Blanking
    BY <1>1, <1>4 DEF Filling, IInv, Preparing, Completing
  <2>. QED
    BY <1>1, <1>2, <2>1 DEF SInv, Filled
<1>8. Blanked'
  BY <1>1, <1>2, <1>3, <1>4 DEF SInv, Blanked, UE
<1>9. SlotsWhole'
  <2>1. BlankPci /\ rem.i \notin raced' \cup Filling' => ues'[rem.i] = FreeSlot
    BY <1>1, <1>2, <1>3, <1>4 DEF SInv, Blanked, UE, FreeSlot
  <2>2. ~BlankPci => rem.i \in Blanking'
    BY <1>3 DEF Blanking
  <2>. QED
    BY <1>1, <1>2, <1>4, <2>1, <2>2 DEF SInv, SlotsWhole, FreeSlot
<1>. QED
  BY <1>5, <1>6, <1>7, <1>8, <1>9 DEF SInv

LEMMA NextSInv ==
    ASSUME IInv, SInv, [Next]_vars
    PROVE  SInv'
<1>1. CASE BeginAdd \/ AddLoadsCount \/ AddStoresCount \/ Refuse
  <2>1. /\ UNCHANGED <<ues, rem, raced>>
        /\ add.at \notin {"clean", "pci", "rnti", "imsi"}
        /\ add'.at \notin {"clean", "pci", "rnti", "imsi"}
    <3>1. CASE BeginAdd
      BY <3>1 DEF BeginAdd, AddIdle
    <3>2. CASE AddLoadsCount
      BY <3>2 DEF AddLoadsCount, IInv, Typed, Adder
    <3>3. CASE AddStoresCount \/ Refuse
      BY <3>3 DEF AddStoresCount, Refuse, AddIdle
    <3>. QED
      BY <1>1, <3>1, <3>2, <3>3
  <2>. QED
    BY <2>1, AddElsewhere
<1>2. CASE LookFree \/ CompareRnti \/ CompareImsi
  BY <1>2, ScanOutcome, AddElsewhere DEF Scans
<1>3. CASE BeginRem \/ SearchSlot \/ RemLoadsCount \/ RemStoresCount
  <2>1. UNCHANGED <<ues, add, raced>> /\ rem.at \notin {"rnti", "imsi", "pci"}
    BY <1>3 DEF BeginRem, SearchSlot, RemLoadsCount, RemStoresCount
  <2>2. rem'.at \notin {"imsi", "pci"} /\ Claimed'
    <3>1. CASE BeginRem
      BY <2>1, <3>1 DEF BeginRem, RemIdle, ActiveSlots, Claimed
    <3>2. CASE SearchSlot
      <4>1. rem \in Remover /\ rem.at = "scan" /\ rem.rnti # NoRnti /\ ues' = ues
        BY <3>2 DEF SearchSlot, IInv, Typed, SInv, Claimed
      <4>2. \/ ues[rem.i].rnti = rem.rnti /\ rem' = [rem EXCEPT !.at = "load"]
            \/ rem' = RemIdle
            \/ rem' = [rem EXCEPT !.i = @ + 1]
        <5>1. rem.i = UEMax - 1 \/ rem.i < UEMax - 1
          BY <4>1, SlotsAssumption DEF Remover, Slots
        <5>. QED
          BY <3>2, <5>1 DEF SearchSlot
      <4>. QED
        BY <4>1, <4>2 DEF Claimed, Remover, RemIdle
    <3>3. CASE RemLoadsCount \/ RemStoresCount
      <4>1. rem \in Remover /\ ues[rem.i].rnti # NoRnti /\ ues' = ues
        BY <3>3 DEF RemLoadsCount, RemStoresCount, IInv, Typed, SInv, Claimed
      <4>2. rem'.at \in {"store", "rnti"} /\ rem'.i = rem.i
        BY <3>3, <4>1 DEF RemLoadsCount, RemStoresCount, Remover
      <4>. QED
        BY <4>1, <4>2 DEF Claimed
    <3>. QED
      BY <1>3, <3>1, <3>2, <3>3
  <2>. QED
    BY <2>1, <2>2, RemElsewhere
<1>4. CASE UNCHANGED vars
  BY <1>4 DEF vars, SInv, Vacant, Claimed, Filled, Blanked, SlotsWhole, Filling, Blanking
<1>. QED
  BY <1>1, <1>2, <1>3, <1>4, CleanWhole, FillWhole, ImsiWhole, BlankWhole DEF Next, UEAdd, UERem

LEMMA SInvHolds == Spec => []SInv
<1>1. IInv /\ SInv /\ [Next]_vars => SInv'
  BY NextSInv
<1>2. Init => SInv
  BY InitSInv
<1>. QED
  BY <1>1, <1>2, InvHolds, PTL DEF Spec

(* The UEs in, less those not counted yet or counted out already. *)
Due == Cardinality(ActiveSlots(ues)) - Uncounted - Discounted

LEMMA DueType == Due \in Int /\ CountMod \in Nat \ {0}
BY ActiveFinite, ThreadsAssumption, SlotsAssumption DEF Due, Uncounted, Discounted

(* A step that leaves the count alone, or that moves it with what is due.  *)
LEMMA CountStays ==
    ASSUME Counted, nof' = nof, miscounted' = miscounted, Due' = Due
    PROVE  Counted'
BY DEF Counted, Due

LEMMA CountMoves ==
    ASSUME Counted, miscounted => miscounted', NEW k \in Int,
           ~miscounted' => nof' = (nof + k) % CountMod /\ Due' = Due + k
    PROVE  Counted'
<1>1. ASSUME ~miscounted'
      PROVE  nof' = (Due + k) % CountMod
  <2>1. nof = Due % CountMod
    BY <1>1 DEF Counted, Due
  <2>. QED
    BY <1>1, <2>1, DueType, ModPlus
<1>. QED
  BY <1>1 DEF Counted, Due

(* The steps that take a slot or give it up. *)
LEMMA WriteRntiCounts ==
    ASSUME IInv, SInv, Counted, WriteRnti
    PROVE  Counted'
<1>1. /\ add.at = "rnti" /\ add'.at = "imsi" /\ add.f \in Slots /\ rem' = rem
      /\ ues[add.f].rnti = NoRnti
      /\ ues'[add.f].rnti # NoRnti
      /\ \A j \in Slots \ {add.f} : ues'[j] = ues[j]
      /\ nof' = nof /\ miscounted' = miscounted
  BY CandidatesAreRntis DEF WriteRnti, IInv, Typed, UE, Adder, Preparing, SInv, Vacant
<1>2. ActiveSlots(ues') = ActiveSlots(ues) \cup {add.f} /\ add.f \notin ActiveSlots(ues)
  BY <1>1 DEF ActiveSlots
<1>3. Cardinality(ActiveSlots(ues')) = Cardinality(ActiveSlots(ues)) + 1
  BY <1>2, ActiveFinite, FS_AddElement
<1>4. Uncounted = 0 /\ Uncounted' = 1 /\ Discounted' = Discounted
  BY <1>1 DEF Uncounted, Discounted
<1>5. Due' = Due
  <2>1. Cardinality(ActiveSlots(ues)) \in Nat /\ Discounted \in Int
    BY ActiveFinite DEF Discounted
  <2>. QED
    BY <1>3, <1>4, <2>1 DEF Due
<1>. QED
  BY <1>1, <1>5, CountStays

LEMMA BlankRntiCounts ==
    ASSUME IInv, SInv, Counted, BlankRnti
    PROVE  Counted'
<1>1. /\ rem.at = "rnti" /\ rem'.at = "imsi" /\ rem.i \in Slots /\ add' = add
      /\ ues[rem.i].rnti # NoRnti
      /\ ues'[rem.i].rnti = NoRnti
      /\ \A j \in Slots \ {rem.i} : ues'[j] = ues[j]
      /\ nof' = nof /\ miscounted' = miscounted
  BY DEF BlankRnti, IInv, Typed, UE, Remover, SInv, Claimed
<1>2. ActiveSlots(ues') = ActiveSlots(ues) \ {rem.i} /\ rem.i \in ActiveSlots(ues)
  BY <1>1 DEF ActiveSlots
<1>3. Cardinality(ActiveSlots(ues')) = Cardinality(ActiveSlots(ues)) - 1
  BY <1>2, ActiveFinite, FS_RemoveElement
<1>4. Discounted = 1 /\ Discounted' = 0 /\ Uncounted' = Uncounted
  BY <1>1 DEF Uncounted, Discounted
<1>5. Due' = Due
  <2>1. Cardinality(ActiveSlots(ues)) \in Nat /\ Uncounted \in Int
    BY ActiveFinite DEF Uncounted
  <2>. QED
    BY <1>3, <1>4, <2>1 DEF Due
<1>. QED
  BY <1>1, <1>5, CountStays

(* The other writes to sim_ues leave a free slot free, a taken one taken.  *)
LEMMA SameRntis ==
    ASSUME ues \in [Slots -> UE],
           \A j \in Slots : ues'[j].rnti = ues[j].rnti,
           Uncounted' = Uncounted, Discounted' = Discounted
    PROVE  Due' = Due
<1>1. ActiveSlots(ues') = ActiveSlots(ues)
  BY DEF ActiveSlots
<1>. QED
  BY <1>1 DEF Due

LEMMA OtherWritesCount ==
    ASSUME IInv, SInv, Counted, CleanSlot \/ WritePci \/ WriteImsi \/ BlankImsi \/ BlankPci
    PROVE  Counted'
<1>1. ues \in [Slots -> UE] /\ add \in Adder /\ rem \in Remover /\ nof' = nof /\ miscounted' = miscounted
  BY DEF CleanSlot, WritePci, WriteImsi, BlankImsi, BlankPci, IInv, Typed
<1>2. \A j \in Slots : ues'[j].rnti = ues[j].rnti
  <2>1. CASE CleanSlot
    BY <1>1, <2>1 DEF CleanSlot, SInv, Vacant, FreeSlot
  <2>2. CASE WritePci \/ WriteImsi
    BY <1>1, <2>2 DEF WritePci, WriteImsi, UE
  <2>3. CASE BlankImsi \/ BlankPci
    BY <1>1, <2>3 DEF BlankImsi, BlankPci, UE
  <2>. QED
    BY <2>1, <2>2, <2>3
<1>3. Uncounted' = Uncounted
  <2>1. CASE CleanSlot \/ WritePci
    BY <1>1, <2>1 DEF CleanSlot, WritePci, Adder, Uncounted
  <2>2. CASE WriteImsi
    BY <2>2 DEF WriteImsi, AddIdle, Uncounted
  <2>3. CASE BlankImsi \/ BlankPci
    BY <2>3 DEF BlankImsi, BlankPci, Uncounted
  <2>. QED
    BY <2>1, <2>2, <2>3
<1>4. Discounted' = Discounted
  BY <1>1
     DEF CleanSlot, WritePci, WriteImsi, BlankImsi, BlankPci, Remover, RemIdle, Discounted
<1>. QED
  BY <1>1, <1>2, <1>3, <1>4, SameRntis, CountStays

(* sim_nof_ues++ and sim_nof_ues--: the store writes what the load read,   *)
(* one up or down, and is right unless the count changed in between.       *)
LEMMA StoresCount ==
    ASSUME IInv, CountTyped, Counted, AddStoresCount \/ RemStoresCount
    PROVE  Counted'
<1>1. /\ ActiveSlots(ues') = ActiveSlots(ues)
      /\ miscounted => miscounted'
      /\ nof \in Nat /\ add \in Adder /\ rem \in Remover
  BY DEF AddStoresCount, RemStoresCount, CountTyped, IInv, Typed
<1>2. CASE AddStoresCount
  <2>1. Uncounted = 1 /\ Uncounted' = 0 /\ Discounted' = Discounted
    BY <1>2 DEF AddStoresCount, AddIdle, Uncounted, Discounted
  <2>2. Due' = Due + 1
    BY <1>1, <2>1, ActiveFinite DEF Due, Discounted
  <2>3. ~miscounted' => nof' = (nof + 1) % CountMod
    BY <1>2 DEF AddStoresCount
  <2>. QED
    BY <1>1, <2>2, <2>3, CountMoves
<1>3. CASE RemStoresCount
  <2>1. Discounted = 0 /\ Discounted' = 1 /\ Uncounted' = Uncounted
    BY <1>1, <1>3 DEF RemStoresCount, Remover, Uncounted, Discounted
  <2>2. Due' = Due + (-1)
    BY <1>1, <2>1, ActiveFinite DEF Due, Uncounted
  <2>3. ~miscounted' => nof' = (nof + (-1)) % CountMod
    <3>1. nof + (-1) = nof - 1
      BY <1>1
    <3>. QED
      BY <1>3, <3>1 DEF RemStoresCount
  <2>. QED
    BY <1>1, <2>2, <2>3, CountMoves
<1>. QED
  BY <1>2, <1>3

LEMMA NextCounted ==
    ASSUME IInv, CountTyped, SInv, Counted, [Next]_vars
    PROVE  Counted'
<1>1. ASSUME UNCHANGED <<ues, nof, miscounted>>,
             Uncounted' = Uncounted, Discounted' = Discounted
      PROVE  Counted'
  BY <1>1, CountStays DEF Due
<1>2. add \in Adder /\ rem \in Remover
  BY DEF IInv, Typed
<1>3. CASE BeginAdd \/ AddLoadsCount \/ Refuse \/ LookFree \/ CompareRnti \/ CompareImsi
  <2>1. UNCHANGED <<ues, nof, rem, miscounted>>
    BY <1>3 DEF BeginAdd, AddLoadsCount, Refuse, LookFree, CompareRnti, CompareImsi
  <2>2. Discounted' = Discounted
    BY <2>1 DEF Discounted
  <2>3. Uncounted' = Uncounted
    <3>1. CASE BeginAdd
      BY <3>1 DEF BeginAdd, AddIdle, Uncounted
    <3>2. CASE AddLoadsCount
      BY <1>2, <3>2 DEF AddLoadsCount, Adder, Uncounted
    <3>3. CASE Refuse
      BY <3>3 DEF Refuse, AddIdle, Uncounted
    <3>4. CASE LookFree \/ CompareRnti \/ CompareImsi
      BY <3>4, ScanOutcome DEF Scans, Uncounted
    <3>. QED
      BY <1>3, <3>1, <3>2, <3>3, <3>4
  <2>. QED
    BY <1>1, <2>1, <2>2, <2>3
<1>4. CASE BeginRem \/ SearchSlot \/ RemLoadsCount
  <2>1. UNCHANGED <<ues, nof, add, miscounted>> /\ rem.at # "rnti"
    BY <1>4 DEF BeginRem, SearchSlot, RemLoadsCount
  <2>2. rem'.at # "rnti"
    <3>1. CASE BeginRem
      BY <3>1 DEF BeginRem, RemIdle
    <3>2. CASE SearchSlot
      <4>1. rem.i = UEMax - 1 \/ rem.i < UEMax - 1
        BY <1>2, SlotsAssumption DEF Remover, Slots
      <4>. QED
        BY <1>2, <2>1, <3>2, <4>1 DEF SearchSlot, Remover, RemIdle
    <3>3. CASE RemLoadsCount
      BY <1>2, <3>3 DEF RemLoadsCount, Remover
    <3>. QED
      BY <1>4, <3>1, <3>2, <3>3
  <2>. QED
    BY <1>1, <2>1, <2>2 DEF Uncounted, Discounted
<1>5. CASE UNCHANGED vars
  BY <1>1, <1>5 DEF vars, Uncounted, Discounted
<1>. QED
  BY <1>3, <1>4, <1>5, WriteRntiCounts, BlankRntiCounts, OtherWritesCount, StoresCount
     DEF Next, UEAdd, UERem

LEMMA CountedHolds == Spec => []Counted
<1>1. IInv /\ CountTyped /\ SInv /\ Counted /\ [Next]_vars => Counted'
  BY NextCounted
<1>2. Init => Counted
  BY InitSInv
<1>. QED
  BY <1>1, <1>2, InvHolds, SInvHolds, PTL DEF Spec

-----------------------------------------------------------------------------
(* The theorems. *)

(* The two threads leave every field of sim_ues, and their own variables,  *)
(* in their types (ue.c:45 and ue.c:149).                                  *)
THEOREM ThreadsTypeCorrect == Spec => []TypeOK
<1>1. IInv /\ CountTyped => TypeOK
  BY DEF IInv, Typed, CountTyped, TypeOK
<1>. QED
  BY <1>1, InvHolds, PTL

(* While one thread adds and another one removes no subscriber is ever in  *)
(* two slots (ue.c:72).                                                    *)
THEOREM ThreadsKeepImsis == Spec => []UniqueImsi
<1>1. IInv => UniqueImsi
  BY DEF IInv
<1>. QED
  BY <1>1, InvHolds, PTL

(* Nor does an RNTI ever name two UEs (ue.c:61).                           *)
THEOREM ThreadsKeepRntis == Spec => []UniqueRnti
<1>1. IInv => UniqueRnti
  BY DEF IInv
<1>. QED
  BY <1>1, InvHolds, PTL

(* ue_add refuses a UE only for an IMSI or a full table it was called with *)
(* (ue.c:72 and ue.c:83).                                                  *)
THEOREM ThreadsRefuseRightly == Spec => []RefusedRightly
<1>1. IInv => RefusedRightly
  BY DEF IInv
<1>. QED
  BY <1>1, InvHolds, PTL

(* A slot that nobody is writing is free or taken as a whole, unless the   *)
(* two threads were writing it at once (ue.c:89 and ue.c:158).             *)
THEOREM ThreadsLeaveSlotsWhole == Spec => []SlotsWhole
<1>1. SInv => SlotsWhole
  BY DEF SInv
<1>. QED
  BY <1>1, SInvHolds, PTL

(* Whatever the two threads were doing, between their calls sim_nof_ues is *)
(* the number of UEs, unless one overwrote the other's update of it        *)
(* (ue.c:128 and ue.c:156).                                                *)
THEOREM ThreadsCountRightly == Spec => []CountRight
<1>1. IInv /\ CountTyped /\ Counted => CountRight
  <2>. SUFFICES ASSUME Counted, add.at = "idle", rem.at = "idle", ~miscounted
                PROVE  nof = Cardinality(ActiveSlots(ues))
    BY DEF CountRight
  <2>. DEFINE n == Cardinality(ActiveSlots(ues))
  <2>1. n \in Nat /\ n < CountMod
    <3>1. ActiveSlots(ues) \subseteq Slots
      BY DEF ActiveSlots
    <3>2. n <= UEMax /\ n \in Nat
      BY <3>1, SlotsFinite, ActiveFinite, FS_Subset
    <3>. QED
      BY <3>2, ThreadsAssumption, SlotsAssumption
  <2>2. nof = (n - 0 - 0) % CountMod
    BY DEF Counted, Uncounted, Discounted
  <2>. HIDE DEF n
  <2>3. n % CountMod = n
    BY <2>1, ThreadsAssumption, SlotsAssumption
  <2>. QED
    BY <2>1, <2>2, <2>3 DEF n
<1>. QED
  BY <1>1, InvHolds, CountedHolds, PTL

=============================================================================
