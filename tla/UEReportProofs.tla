--------------------------- MODULE UEReportProofs ----------------------------
(***************************************************************************)
(* Proofs about UEReport, for any number of UEs, measurements, requests    *)
(* and frequencies, with or without a user interface.                      *)
(*                                                                         *)
(* ListReported is not inductive: while the report is out and its flag not *)
(* yet reset, the flag says nothing; what is owed then was made dirty      *)
(* meanwhile or is in a report that failed (WindowNoted).                  *)
(* MeasureAtItsUE rests on what the agent is about to store being meant    *)
(* for the UE that is in the slot it found (StoreMeant).                   *)
(***************************************************************************)
EXTENDS UEReport, WellFoundedInduction, TLAPS

WindowNoted == main.at = "clear" /\ owed => missed

StoreMeant == agent.at = "store" => agent.rnti = ues[agent.i]

IInv ==
    /\ TypeOK
    /\ ListReported
    /\ WindowNoted
    /\ MeasureAtItsUE
    /\ StoreMeant

-----------------------------------------------------------------------------
(* The first of some slots is one of them. *)
LEMMA MinIsOne ==
    ASSUME NEW S \in SUBSET Nat, S # {}
    PROVE  Min(S) \in S
<1>1. PICK x \in S : \A y \in S : ~(<<y, x>> \in OpToRel(<, Nat))
  BY WFMin, NatLessThanWellFounded, Zenon
<1>2. \A y \in S : ~(y < x)
  BY <1>1, Zenon DEF OpToRel
<1>3. \E z \in S : \A y \in S : z <= y
  BY <1>2
<1>. QED
  BY <1>3 DEF Min

LEMMA FirstSlot ==
    ASSUME NEW S \in SUBSET Slots, S # {}
    PROVE  Min(S) \in S
BY MinIsOne, ReportAssumption DEF Slots

LEMMA FirstMeas ==
    ASSUME NEW S \in SUBSET MSlots, S # {}
    PROVE  Min(S) \in S
BY MinIsOne, ReportAssumption DEF MSlots

LEMMA SlotZero == 0 \in Slots /\ 0 \in MSlots
BY ReportAssumption DEF Slots, MSlots

(* What ue_add and ue_rem make of a slot is a slot without live triggers. *)
LEMMA NewMeasType ==
    /\ NewMeas \in [MSlots -> Meas]
    /\ \A j \in MSlots : NewMeas[j].tri \notin Trigs
BY ReportAssumption DEF NewMeas, NoMeas, Meas

LEMMA OldMeasType ==
    ASSUME NEW m \in [MSlots -> Meas]
    PROVE  /\ OldMeas(m) \in [MSlots -> Meas]
           /\ \A j \in MSlots : OldMeas(m)[j].tri = NoTrig
BY DEF OldMeas, Meas

LEMMA OnwardType ==
    ASSUME NEW m \in Main
    PROVE  Onward(m) \in Main /\ Onward(m).at \in {"meas", "top"}
BY ReportAssumption, SlotZero DEF Onward, Main, At, Slots, MSlots


(* Slots whose triggers are gone say nothing about live ones. *)
LEMMA Gone ==
    ASSUME TypeOK
    PROVE  NoTrig \notin live /\ OwnTrig \notin live
BY ReportAssumption DEF TypeOK

-----------------------------------------------------------------------------
LEMMA InitIInv ==
    Init => IInv
<1>. SUFFICES ASSUME Init PROVE IInv
  OBVIOUS
<1>1. TypeOK
  BY ReportAssumption, SlotZero
     DEF Init, TypeOK, At, Main, Idle, Agent, NoMeas, Meas
<1>2. ListReported /\ WindowNoted /\ StoreMeant
  BY DEF Init, ListReported, WindowNoted, StoreMeant, Idle
<1>3. MeasureAtItsUE
  BY DEF Init, MeasureAtItsUE
<1>. QED
  BY <1>1, <1>2, <1>3 DEF IInv

(* A loud change is in the dirty flag, and if a report is out, noted. *)
LEMMA TouchIInv ==
    ASSUME IInv, NEW i \in Slots, NEW loud \in BOOLEAN, Touch(i, loud),
           UNCHANGED main
    PROVE  /\ ListReported'
           /\ WindowNoted'
           /\ {dirty', owed', missed'} \subseteq BOOLEAN
           /\ agent' \in Agent
           /\ agent'.at = "store" => agent' = agent /\ agent.i # i
<1>1. ListReported' /\ WindowNoted'
  BY DEF Touch, IInv, ListReported, WindowNoted
<1>2. {dirty', owed', missed'} \subseteq BOOLEAN
  BY DEF Touch, IInv, TypeOK
<1>3. agent \in Agent
  BY DEF IInv, TypeOK
<1>4. agent.at = "store" => agent # Idle
  BY DEF Idle
<1>5. CASE agent # Idle /\ agent.i = i
  <2>1. agent' = [agent EXCEPT !.at = "lost"]
    BY <1>5 DEF Touch
  <2>2. agent \in [at : {"store", "lost"}, i : Slots, j : MSlots, tri : Trigs,
                   freq : Freqs, rnti : Rntis \cup {NoRnti}]
    BY <1>3, <1>5 DEF Agent
  <2>3. agent' \in Agent /\ agent'.at = "lost"
    BY <2>1, <2>2 DEF Agent
  <2>. QED
    BY <1>1, <1>2, <2>3
<1>6. CASE ~(agent # Idle /\ agent.i = i)
  <2>1. agent' = agent
    BY <1>6 DEF Touch
  <2>. QED
    BY <1>1, <1>2, <1>3, <1>4, <1>6, <2>1
<1>. QED
  BY <1>5, <1>6

LEMMA AttachIInv ==
    ASSUME IInv, NEW r \in Rntis, NEW loud \in BOOLEAN, Attach(r, loud)
    PROVE  IInv'
<1>. DEFINE f == Min(FreeSlots)
<1>1. f \in Slots
  BY FirstSlot DEF Attach, FreeSlots
<1>2. /\ ues' = [ues EXCEPT ![f] = r]
      /\ meas' = [meas EXCEPT ![f] = NewMeas]
      /\ Touch(f, loud)
      /\ UNCHANGED <<rep, main, up, live>>
  BY DEF Attach, link
<1>. HIDE DEF f
<1>3. /\ ListReported'
      /\ WindowNoted'
      /\ {dirty', owed', missed'} \subseteq BOOLEAN
      /\ agent' \in Agent
      /\ agent'.at = "store" => agent' = agent /\ agent.i # f
  BY <1>1, <1>2, TouchIInv
<1>4. TypeOK'
  BY <1>1, <1>2, <1>3, NewMeasType DEF IInv, TypeOK
<1>5. MeasureAtItsUE'
  BY <1>1, <1>2, NewMeasType DEF IInv, TypeOK, MeasureAtItsUE
<1>6. StoreMeant'
  BY <1>1, <1>2, <1>3 DEF IInv, TypeOK, StoreMeant, Agent
<1>. QED
  BY <1>3, <1>4, <1>5, <1>6 DEF IInv

LEMMA DetachIInv ==
    ASSUME IInv, NEW k \in Slots, NEW loud \in BOOLEAN, Detach(ues[k], loud)
    PROVE  IInv'
<1>. DEFINE i == Min({n \in Slots : ues[n] = ues[k]})
<1>1. i \in Slots
  BY FirstSlot
<1>2. /\ ues' = [ues EXCEPT ![i] = NoRnti]
      /\ meas' = [meas EXCEPT ![i] = OldMeas(@)]
      /\ live' \subseteq live
      /\ Touch(i, loud)
      /\ UNCHANGED <<rep, main, up>>
  BY DEF Detach
<1>. HIDE DEF i
<1>3. /\ ListReported'
      /\ WindowNoted'
      /\ {dirty', owed', missed'} \subseteq BOOLEAN
      /\ agent' \in Agent
      /\ agent'.at = "store" => agent' = agent /\ agent.i # i
  BY <1>1, <1>2, TouchIInv
<1>4. meas[i] \in [MSlots -> Meas]
  BY <1>1 DEF IInv, TypeOK
<1>5. TypeOK'
  BY <1>1, <1>2, <1>3, <1>4, OldMeasType DEF IInv, TypeOK
<1>6. MeasureAtItsUE'
  BY <1>1, <1>2, <1>4, OldMeasType, Gone DEF IInv, TypeOK, MeasureAtItsUE
<1>7. StoreMeant'
  BY <1>1, <1>2, <1>3 DEF IInv, TypeOK, StoreMeant, Agent
<1>. QED
  BY <1>3, <1>5, <1>6, <1>7 DEF IInv


(* Dirty flags of measurements are nobody's business here. *)
LEMMA DirtyIInv ==
    ASSUME IInv, NEW i \in Slots, NEW j \in MSlots, NEW d \in BOOLEAN,
           meas' = [meas EXCEPT ![i][j].dirty = d]
    PROVE  /\ meas' \in [Slots -> [MSlots -> Meas]]
           /\ \A k \in Slots, n \in MSlots :
                 /\ meas'[k][n].tri = meas[k][n].tri
                 /\ meas'[k][n].rnti = meas[k][n].rnti
                 /\ meas'[k][n].strayed = meas[k][n].strayed
<1>1. meas \in [Slots -> [MSlots -> Meas]] /\ meas[i][j] \in Meas
  BY DEF IInv, TypeOK
<1>2. [meas[i][j] EXCEPT !.dirty = d] \in Meas
  BY <1>1 DEF Meas
<1>3. meas' = [meas EXCEPT ![i] = [meas[i] EXCEPT ![j] = [meas[i][j] EXCEPT !.dirty = d]]]
  BY <1>1
<1>. QED
  BY <1>1, <1>2, <1>3 DEF Meas

LEMMA SignalIInv ==
    ASSUME IInv, OperatorSignal
    PROVE  IInv'
<1>1. PICK i \in Slots : meas' = [meas EXCEPT ![i][0].dirty = TRUE]
  BY DEF OperatorSignal
<1>2. UNCHANGED <<ues, dirty, rep, main, agent, up, live, owed, missed>>
  BY DEF OperatorSignal, threads, link, history
<1>3. /\ meas' \in [Slots -> [MSlots -> Meas]]
      /\ \A k \in Slots, n \in MSlots :
            /\ meas'[k][n].tri = meas[k][n].tri
            /\ meas'[k][n].rnti = meas[k][n].rnti
            /\ meas'[k][n].strayed = meas[k][n].strayed
  BY <1>1, SlotZero, DirtyIInv
<1>. QED
  BY <1>2, <1>3 DEF IInv, TypeOK, ListReported, WindowNoted, MeasureAtItsUE, StoreMeant

-----------------------------------------------------------------------------
(* The link and the requests. *)

LEMMA ConnectIInv ==
    ASSUME IInv, Connect
    PROVE  IInv'
BY DEF Connect, IInv, TypeOK, ListReported, WindowNoted, MeasureAtItsUE, StoreMeant,
       threads, history

LEMMA DisconnectIInv ==
    ASSUME IInv, Disconnect
    PROVE  IInv'
<1>1. /\ up' = FALSE
      /\ live' = {}
      /\ rep' = NoTrig
      /\ meas' = [i \in Slots |-> OldMeas(meas[i])]
      /\ UNCHANGED <<ues, dirty, main, agent, owed, missed>>
  BY DEF Disconnect, threads, history
<1>2. meas' \in [Slots -> [MSlots -> Meas]]
  BY <1>1, OldMeasType DEF IInv, TypeOK
<1>. QED
  BY <1>1, <1>2 DEF IInv, TypeOK, ListReported, WindowNoted, MeasureAtItsUE, StoreMeant

LEMMA CancelTriggerIInv ==
    ASSUME IInv, NEW t \in Trigs, CancelTrigger(t)
    PROVE  IInv'
BY DEF CancelTrigger, IInv, TypeOK, ListReported, WindowNoted, MeasureAtItsUE, StoreMeant,
       threads, history

LEMMA ReportRequestIInv ==
    ASSUME IInv, NEW t \in Trigs, ReportRequest(t)
    PROVE  IInv'
BY DEF ReportRequest, Fresh, IInv, TypeOK, ListReported, WindowNoted, MeasureAtItsUE,
       StoreMeant, threads

LEMMA MeasureRequestIInv ==
    ASSUME IInv, NEW t \in Trigs, NEW r \in Rntis \cup {NoRnti}, NEW f \in Freqs,
           MeasureRequest(t, r, f)
    PROVE  IInv'
<1>. DEFINE i == Min({k \in Slots : ues[k] = r})
            j == Min(FreeMeas(i))
<1>1. i \in {k \in Slots : ues[k] = r}
  BY FirstSlot DEF MeasureRequest
<1>2. j \in MSlots
  BY FirstMeas DEF MeasureRequest, FreeMeas
<1>3. /\ agent' = [at |-> "store", i |-> i, j |-> j, tri |-> t, freq |-> f, rnti |-> r]
      /\ live' = live \cup {t}
      /\ Fresh(t)
      /\ UNCHANGED <<ues, meas, dirty, rep, main, up, owed, missed>>
  BY DEF MeasureRequest, history
<1>. HIDE DEF i, j
<1>4. agent' \in Agent
  BY <1>1, <1>2, <1>3 DEF Agent
<1>5. TypeOK'
  BY <1>3, <1>4 DEF IInv, TypeOK
<1>6. ListReported' /\ WindowNoted'
  BY <1>3 DEF IInv, ListReported, WindowNoted
<1>7. MeasureAtItsUE'
  BY <1>3 DEF Fresh, IInv, MeasureAtItsUE
<1>8. StoreMeant'
  BY <1>1, <1>3 DEF StoreMeant
<1>. QED
  BY <1>5, <1>6, <1>7, <1>8 DEF IInv

LEMMA MeasureStoreIInv ==
    ASSUME IInv, MeasureStore
    PROVE  IInv'
<1>. DEFINE i == agent.i
            same == {k \in MSlots : meas[i][k].freq = agent.freq}
            j == IF same = {} THEN agent.j ELSE Min(same)
            new == [tri |-> agent.tri, freq |-> agent.freq,
                    dirty |-> same # {} \/ meas[i][j].dirty,
                    rnti |-> agent.rnti,
                    strayed |-> agent.at = "lost" /\ ues[i] # agent.rnti]
<1>1. agent \in Agent /\ agent # Idle
  BY DEF IInv, TypeOK, MeasureStore
<1>2. i \in Slots /\ agent.j \in MSlots
  BY <1>1 DEF Agent
<1>3. j \in MSlots
  BY <1>2, FirstMeas
<1>4. /\ meas' = [meas EXCEPT ![i][j] = new]
      /\ agent' = Idle
      /\ UNCHANGED <<ues, dirty, rep, main, up, live, owed, missed>>
  BY DEF MeasureStore, link, history
<1>5. meas[i] \in [MSlots -> Meas] /\ ues[i] \in Rntis \cup {NoRnti}
  BY <1>2 DEF IInv, TypeOK
<1>6. new \in Meas
  BY <1>1, <1>3, <1>5 DEF Meas, Agent
<1>7. TypeOK'
  BY <1>2, <1>3, <1>4, <1>6, SlotZero DEF IInv, TypeOK, Idle, Agent
<1>8. ListReported' /\ WindowNoted'
  BY <1>4 DEF IInv, ListReported, WindowNoted
<1>9. new.rnti = ues[i] \/ new.strayed
  <2>1. CASE agent.at = "lost"
    BY <2>1
  <2>2. CASE agent.at = "store"
    BY <2>2 DEF IInv, StoreMeant
  <2>. QED
    BY <1>1, <2>1, <2>2 DEF Agent
<1>. HIDE DEF i, j, new
<1>10. MeasureAtItsUE'
  BY <1>2, <1>3, <1>4, <1>5, <1>9 DEF IInv, TypeOK, MeasureAtItsUE
<1>11. StoreMeant'
  BY <1>4 DEF StoreMeant, Idle
<1>. QED
  BY <1>7, <1>8, <1>10, <1>11 DEF IInv

-----------------------------------------------------------------------------
(* The main loop. *)

LEMMA BeginTurnIInv ==
    ASSUME IInv, BeginTurn
    PROVE  IInv'
<1>1. /\ main.at = "top"
      /\ main' = At(Route, 0, 0)
      /\ UNCHANGED <<ues, dirty, rep, agent, up, live>>
  BY DEF BeginTurn, link
<1>2. /\ meas' \in [Slots -> [MSlots -> Meas]]
      /\ \A k \in Slots, n \in MSlots :
            /\ meas'[k][n].tri = meas[k][n].tri
            /\ meas'[k][n].rnti = meas[k][n].rnti
            /\ meas'[k][n].strayed = meas[k][n].strayed
  <2>1. CASE ues[0] = NoRnti
    BY <2>1 DEF BeginTurn, IInv, TypeOK
  <2>2. CASE ues[0] # NoRnti
    BY <2>2, SlotZero, DirtyIInv DEF BeginTurn
  <2>. QED
    BY <2>1, <2>2
<1>3. Route \in {"top", "meas", "clear"}
  BY DEF Route, IInv, TypeOK
<1>4. main' \in Main
  BY <1>1, <1>3, SlotZero DEF Main, At
<1>5. owed' \in BOOLEAN /\ missed' \in BOOLEAN /\ ListReported' /\ WindowNoted'
  <2>1. CASE Route = "clear"
    BY <1>1, <2>1 DEF BeginTurn, Sent, Failed, IInv, TypeOK, ListReported, WindowNoted
  <2>2. CASE Route # "clear"
    BY <1>1, <2>2 DEF BeginTurn, history, IInv, TypeOK, ListReported, WindowNoted, At
  <2>. QED
    BY <2>1, <2>2
<1>6. TypeOK'
  BY <1>1, <1>2, <1>4, <1>5 DEF IInv, TypeOK
<1>7. MeasureAtItsUE' /\ StoreMeant'
  BY <1>1, <1>2 DEF IInv, MeasureAtItsUE, StoreMeant
<1>. QED
  BY <1>5, <1>6, <1>7 DEF IInv

LEMMA NoDirtyAnymoreIInv ==
    ASSUME IInv, NoDirtyAnymore
    PROVE  IInv'
<1>1. /\ main.at = "clear"
      /\ dirty' = FALSE
      /\ main' = At(IF up THEN "meas" ELSE "top", 0, 0)
      /\ UNCHANGED <<ues, meas, rep, agent, up, live, owed, missed>>
  BY DEF NoDirtyAnymore, link, history
<1>2. main' \in Main /\ main'.at # "clear"
  BY <1>1, SlotZero DEF Main, At
<1>. QED
  BY <1>1, <1>2
     DEF IInv, TypeOK, ListReported, WindowNoted, MeasureAtItsUE, StoreMeant

(* A step that moves the main loop on and touches no measurement. *)
LEMMA MeasureIInv ==
    ASSUME IInv, Measure
    PROVE  IInv'
<1>1. main \in Main /\ main.at = "meas"
  BY DEF IInv, TypeOK, Measure
<1>2. UNCHANGED <<ues, meas, dirty, rep, agent, up, live, owed, missed>>
  BY DEF Measure, link, history
<1>3. main' \in {Onward(main), [main EXCEPT !.at = "sent"], [main EXCEPT !.at = "clean"]}
  BY DEF Measure
<1>4. main' \in Main /\ main'.at # "clear"
  BY <1>1, <1>3, OnwardType DEF Main
<1>. QED
  BY <1>2, <1>4
     DEF IInv, TypeOK, ListReported, WindowNoted, MeasureAtItsUE, StoreMeant

LEMMA MeasureSentIInv ==
    ASSUME IInv, MeasureSent
    PROVE  IInv'
<1>1. main \in Main /\ main.i \in Slots /\ main.j \in MSlots
  BY DEF IInv, TypeOK, Main
<1>2. /\ meas' = [meas EXCEPT ![main.i][main.j].dirty = FALSE]
      /\ main' = Onward(main)
      /\ UNCHANGED <<ues, dirty, rep, agent, up, live, owed, missed>>
  BY DEF MeasureSent, link, history
<1>3. main' \in Main /\ main'.at # "clear"
  BY <1>1, <1>2, OnwardType
<1>4. /\ meas' \in [Slots -> [MSlots -> Meas]]
      /\ \A k \in Slots, n \in MSlots :
            /\ meas'[k][n].tri = meas[k][n].tri
            /\ meas'[k][n].rnti = meas[k][n].rnti
            /\ meas'[k][n].strayed = meas[k][n].strayed
  BY <1>1, <1>2, DirtyIInv
<1>5. TypeOK'
  BY <1>2, <1>3, <1>4 DEF IInv, TypeOK
<1>6. MeasureAtItsUE'
  <2>1. ues' = ues /\ live' = live
    BY <1>2
  <2>. QED
    BY <1>4, <2>1 DEF IInv, MeasureAtItsUE
<1>. QED
  BY <1>2, <1>3, <1>5, <1>6 DEF IInv, ListReported, WindowNoted, StoreMeant

LEMMA MeasureCleanIInv ==
    ASSUME IInv, MeasureClean
    PROVE  IInv'
<1>. DEFINE i == main.i
            j == main.j
            new == [meas[i][j] EXCEPT !.tri = NoTrig, !.dirty = FALSE, !.rnti = NoRnti,
                                      !.strayed = FALSE]
<1>1. main \in Main /\ i \in Slots /\ j \in MSlots
  BY DEF IInv, TypeOK, Main
<1>2. meas \in [Slots -> [MSlots -> Meas]] /\ meas[i][j] \in Meas
  BY <1>1 DEF IInv, TypeOK
<1>3. /\ meas' = [meas EXCEPT ![i][j] = new]
      /\ main' = Onward(main)
      /\ UNCHANGED <<ues, dirty, rep, agent, up, live, owed, missed>>
  <2>1. /\ meas' = [meas EXCEPT ![i][j].tri = NoTrig, ![i][j].dirty = FALSE,
                                ![i][j].rnti = NoRnti, ![i][j].strayed = FALSE]
        /\ main' = Onward(main)
        /\ UNCHANGED <<ues, dirty, rep, agent, up, live, owed, missed>>
    BY DEF MeasureClean, link, history
  <2>. QED
    BY <1>1, <1>2, <2>1
<1>4. main' \in Main /\ main'.at # "clear"
  BY <1>1, <1>3, OnwardType
<1>5. new \in Meas /\ new.tri = NoTrig
  BY <1>2 DEF Meas
<1>. HIDE DEF i, j, new
<1>6. TypeOK'
  BY <1>1, <1>2, <1>3, <1>4, <1>5 DEF IInv, TypeOK
<1>7. MeasureAtItsUE'
  BY <1>1, <1>2, <1>3, <1>5, Gone DEF IInv, MeasureAtItsUE
<1>. QED
  BY <1>3, <1>4, <1>6, <1>7 DEF IInv, ListReported, WindowNoted, StoreMeant

-----------------------------------------------------------------------------
LEMMA NextIInv ==
    IInv /\ [Next]_vars => IInv'
<1>. SUFFICES ASSUME IInv, [Next]_vars PROVE IInv'
  OBVIOUS
<1>1. CASE MainStep
  BY <1>1, BeginTurnIInv, NoDirtyAnymoreIInv, MeasureIInv, MeasureSentIInv, MeasureCleanIInv
     DEF MainStep
<1>2. CASE HandoverIn
  BY <1>2, AttachIInv DEF HandoverIn
<1>3. CASE OperatorAdd
  BY <1>3, AttachIInv DEF OperatorAdd
<1>4. CASE OperatorRemove
  BY <1>4, DetachIInv DEF OperatorRemove
<1>5. CASE OperatorHandover \/ ControllerHandover
  BY <1>5, DetachIInv DEF OperatorHandover, ControllerHandover
<1>6. CASE OperatorSignal
  BY <1>6, SignalIInv
<1>7. CASE Connect \/ Disconnect
  BY <1>7, ConnectIInv, DisconnectIInv
<1>8. CASE \E t \in Trigs : CancelTrigger(t) \/ ReportRequest(t)
  BY <1>8, CancelTriggerIInv, ReportRequestIInv
<1>9. CASE \E t \in Trigs, r \in Rntis \cup {NoRnti}, f \in Freqs : MeasureRequest(t, r, f)
  BY <1>9, MeasureRequestIInv
<1>10. CASE MeasureStore
  BY <1>10, MeasureStoreIInv
<1>11. CASE UNCHANGED vars
  BY <1>11 DEF vars, threads, link, history, IInv, TypeOK, ListReported, WindowNoted,
               MeasureAtItsUE, StoreMeant
<1>. QED
  BY <1>1, <1>2, <1>3, <1>4, <1>5, <1>6, <1>7, <1>8, <1>9, <1>10, <1>11 DEF Next

LEMMA IInvAlways == Spec => []IInv
BY InitIInv, NextIInv, PTL DEF Spec

(* Every variable keeps its type: no request writes outside the table of   *)
(* measurements and the main loop never looks outside it.                  *)
THEOREM ReportTypeCorrect == Spec => []TypeOK
<1>1. IInv => TypeOK
  BY DEF IInv
<1>. QED
  BY <1>1, IInvAlways, PTL

(* A loud change of the UE list is dirty, or in a report that was sent, or *)
(* one of the two things happened that lose it: it fell between a report   *)
(* and the reset of its flag, or its report failed (ue.c:344-361).         *)
THEOREM ChangesReported == Spec => []ListReported
<1>1. IInv => ListReported
  BY DEF IInv
<1>. QED
  BY <1>1, IInvAlways, PTL

(* A measurement stays with the UE it was asked for, but for one whose     *)
(* slot changed hands before wrap_ue_measure wrote to it (wrap.c:289-324). *)
THEOREM MeasuresStay == Spec => []MeasureAtItsUE
<1>1. IInv => MeasureAtItsUE
  BY DEF IInv
<1>. QED
  BY <1>1, IInvAlways, PTL

=============================================================================
