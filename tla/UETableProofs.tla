---------------------------- MODULE UETableProofs ----------------------------
(***************************************************************************)
(* Proofs about UETable, for every size of the two tables and every set of *)
(* subscribers, cells and RNTIs that the assumptions admit.                *)
(*                                                                         *)
(* The inductive invariant is the conjunction of the invariants: ue_add    *)
(* keeps IMSIs apart only because free slots hold none (SlotsWhole), and   *)
(* ran_rem_user leaves no trace of a UE only because each RNTI is one UE's *)
(* and sits in one user slot (UniqueRnti, RanUsersAttached).               *)
(***************************************************************************)
EXTENDS UETable, TableProofs

IInv ==
    /\ TypeOK
    /\ UniqueImsi
    /\ UniqueRnti
    /\ SlotsWhole
    /\ RanUsersAttached

LEMMA CoherentTable ==
    Coherent(ues, Phy) <=> UniqueImsi /\ UniqueRnti /\ SlotsWhole
BY DEF Coherent, UniqueImsi, UniqueRnti, SlotsWhole

LEMMA CoherentTablePrime ==
    Coherent(ues', Phy) <=> UniqueImsi' /\ UniqueRnti' /\ SlotsWhole'
BY DEF Coherent, UniqueImsi, UniqueRnti, SlotsWhole

-----------------------------------------------------------------------------
(* The operators of ListScreen. *)

(* The cursor of a list screen stays on a slot, the row on a row. *)
LEMMA DrawnType ==
    ASSUME NEW taken \in SUBSET Slots, NEW s, NEW c \in Slots
    PROVE  Drawn(taken, s, c) \in Slots
BY DEF Drawn

LEMMA RowType ==
    ASSUME NEW s \in Nat \ {0}, NEW n \in Nat
    PROVE  /\ Up(s) \in Nat \ {0}
           /\ Down(s, n) \in Nat \ {0}
BY DEF Up, Down

-----------------------------------------------------------------------------
(* The two operations. *)

(* The part of TypeOK that ue_add and ue_rem write. *)
TableTypeOK ==
    /\ IsTable(ues)
    /\ nof \in 0 .. CountMod - 1
    /\ dirty \in BOOLEAN
    /\ IsUserTable(users)

(* What both operations need and keep. *)
TableInv ==
    /\ TableTypeOK
    /\ Coherent(ues, Phy)
    /\ RanUsersAttached

LEMMA TableInvOfIInv == IInv => TableInv
BY CoherentTable DEF IInv, TypeOK, TableInv, TableTypeOK, IsTable, IsUserTable

LEMMA CountType ==
    ASSUME NEW k \in Int
    PROVE  k % CountMod \in 0 .. CountMod - 1
BY SlotsAssumption, TableAssumption, RanAssumption

(* ue_add with its consequences in the RAN table. *)
LEMMA UEAddKeeps ==
    ASSUME TableInv, ran \in BOOLEAN, ran' = ran,
           NEW pci \in Pcis, NEW asked \in Rntis, NEW imsi \in Imsis \cup {NoImsi},
           NEW rep \in BOOLEAN, UEAdd(pci, asked, imsi, rep)
    PROVE  /\ TableInv'
           /\ ran => RanUsers \subseteq RanUsers'
<1>1. PICK r \in AssignedRntis(ues, asked) :
         /\ ues' = AddUE(ues, r, imsi, pci)
         /\ users' = IF ran THEN RanAddUser(users, r) ELSE users
  BY DEF UEAdd
<1>2. AddResult(ues, imsi, pci, Phy) = "SUCCESS" /\ FreeSlots(ues) # {}
  BY DEF UEAdd, AddResult
<1>3. r \in Rntis \ {NoRnti}
  BY <1>2, AssignedIsFresh DEF TableInv, TableTypeOK
<1>4. TableTypeOK'
  <2>1. IsTable(ues')
    BY <1>1, <1>3, AddUEType DEF TableInv, TableTypeOK
  <2>2. nof' \in 0 .. CountMod - 1
    BY CountType DEF UEAdd, TableInv, TableTypeOK
  <2>3. dirty' \in BOOLEAN
    BY DEF UEAdd, TableInv, TableTypeOK
  <2>4. IsUserTable(users')
    BY <1>1, <1>3, RanAddUserSlots DEF TableInv, TableTypeOK
  <2>. QED
    BY <2>1, <2>2, <2>3, <2>4 DEF TableTypeOK, IsTable, IsUserTable
<1>5. Coherent(ues', Phy)
  BY <1>1, <1>2, AddUECoherent DEF TableInv, TableTypeOK
<1>6. ASSUME ran
      PROVE  RanUsersAttached' /\ RanUsers \subseteq RanUsers'
  <2>1. RanUsers = UsersOf(users) /\ RanUsers' = UsersOf(users')
    BY DEF RanUsers, UsersOf
  <2>2. RanUsers \subseteq Attached /\ OneSlotEach(users)
    BY <1>6 DEF TableInv, RanUsersAttached, OneSlotEach
  <2>3. users' = RanAddUser(users, r) /\ IsUserTable(users)
    BY <1>1, <1>6 DEF TableInv, TableTypeOK
  <2>4. /\ OneSlotEach(users')
        /\ UsersOf(users) \subseteq UsersOf(users')
        /\ UsersOf(users') \subseteq UsersOf(users) \cup {r}
    BY <1>3, <2>2, <2>3, RanAddUserSlots
  <2>5. Attached \cup {r} \subseteq Attached'
    <3>. DEFINE f == Min(FreeSlots(ues))
    <3>1. /\ ues'[f] = [rnti |-> r, imsi |-> imsi, pci |-> pci]
          /\ \A i \in Slots \ {f} : ues'[i] = ues[i]
          /\ ActiveSlots(ues') = ActiveSlots(ues) \cup {f}
      BY <1>1, <1>2, <1>3, AddUESlots DEF TableInv, TableTypeOK
    <3>2. f \notin ActiveSlots(ues)
      BY <1>2, FirstFree DEF ActiveSlots
    <3>. HIDE DEF f
    <3>. QED
      BY <3>1, <3>2 DEF Attached, ActiveSlots
  <2>. QED
    BY <2>1, <2>2, <2>4, <2>5 DEF RanUsersAttached, OneSlotEach
<1>. QED
  BY <1>4, <1>5, <1>6 DEF TableInv, Coherent, RanUsersAttached

(* ue_rem with its consequences in the RAN table. *)
LEMMA UERemKeeps ==
    ASSUME TableInv, ran \in BOOLEAN, ran' = ran,
           NEW rnti \in Rntis, NEW rep \in BOOLEAN, UERem(rnti, rep)
    PROVE  /\ TableInv'
           /\ ran => (RanUsers \ RanUsers') \cap Attached' = {}
<1>1. TableTypeOK'
  <2>1. IsTable(ues')
    BY RemUEType DEF UERem, TableInv, TableTypeOK
  <2>2. nof' \in 0 .. CountMod - 1
    BY CountType DEF UERem, TableInv, TableTypeOK
  <2>3. dirty' \in BOOLEAN
    BY DEF UERem, TableInv, TableTypeOK
  <2>4. IsUserTable(users')
    BY RanRemUserSlots DEF UERem, TableInv, TableTypeOK, RanUsersAttached, OneSlotEach
  <2>. QED
    BY <2>1, <2>2, <2>3, <2>4 DEF TableTypeOK, IsTable, IsUserTable
<1>2. Coherent(ues', Phy)
  BY RemUECoherent DEF UERem, TableInv, TableTypeOK
<1>3. ASSUME ran
      PROVE  RanUsersAttached' /\ (RanUsers \ RanUsers') \cap Attached' = {}
  <2>1. RanUsers = UsersOf(users) /\ RanUsers' = UsersOf(users')
    BY DEF RanUsers, UsersOf
  <2>2. RanUsers \subseteq Attached /\ OneSlotEach(users) /\ IsUserTable(users)
    BY <1>3 DEF TableInv, TableTypeOK, RanUsersAttached, OneSlotEach
  <2>3. \A i \in Slots : ues'[i] = ues[i] \/ (ues[i].rnti = rnti /\ ues'[i] = FreeSlot)
    BY RemUESlots DEF UERem, TableInv, TableTypeOK
  <2>4. Attached \ {rnti} \subseteq Attached'
    BY <2>3 DEF Attached, ActiveSlots
  <2>5. CASE Matching(ues, rnti) = {}
    <3>1. users' = users /\ rnti \notin Attached
      BY <2>5 DEF UERem, Matching, Attached, ActiveSlots
    <3>. QED
      BY <2>1, <2>2, <2>4, <3>1, <1>3 DEF RanUsersAttached, OneSlotEach
  <2>6. CASE Matching(ues, rnti) # {}
    <3>1. OneSlotEach(users') /\ UsersOf(users') = UsersOf(users) \ {rnti}
      BY <1>3, <2>2, <2>6, RanRemUserSlots DEF UERem
    <3>2. rnti \notin Attached'
      <4>1. CASE rnti = NoRnti
        BY <4>1 DEF Attached, ActiveSlots
      <4>2. CASE rnti # NoRnti
        BY <4>2, RemUERemoves DEF UERem, TableInv, TableTypeOK, Attached
      <4>. QED
        BY <4>1, <4>2
    <3>. QED
      BY <2>1, <2>2, <2>4, <3>1, <3>2 DEF RanUsersAttached, OneSlotEach
  <2>. QED
    BY <2>5, <2>6
<1>. QED
  BY <1>1, <1>2, <1>3 DEF TableInv, Coherent, RanUsersAttached

-----------------------------------------------------------------------------
(* The inductive invariant. *)

LEMMA InitIInv == Init => IInv
<1>. SUFFICES ASSUME Init PROVE IInv
  OBVIOUS
<1>1. NoRnti \in Rntis /\ FreeSlot \in UE /\ 0 \in Slots
  BY SlotsAssumption DEF NoRnti, Rntis, FreeSlot, UE, Slots, NoPci
<1>2. TypeOK
  <2>1. /\ booting \in BOOLEAN /\ dirty \in BOOLEAN
        /\ wanted \in BOOLEAN /\ ran \in BOOLEAN
    BY DEF Init
  <2>2. nof \in 0 .. CountMod - 1 /\ sel \in Nat \ {0} /\ blank \in Nat
    BY SlotsAssumption, TableAssumption, RanAssumption DEF Init
  <2>3. cursor \in Slots /\ ues \in [Slots -> UE] /\ users \in [RanSlots -> Rntis]
    BY <1>1 DEF Init, EmptyTable
  <2>. QED
    BY <2>1, <2>2, <2>3 DEF TypeOK
<1>3. ActiveSlots(ues) = {} /\ \A i \in Slots : ues[i] = FreeSlot
  BY DEF Init, EmptyTable, ActiveSlots, FreeSlot
<1>4. UniqueImsi /\ UniqueRnti /\ SlotsWhole
  BY <1>3 DEF UniqueImsi, UniqueRnti, SlotsWhole, FreeSlot
<1>5. RanUsersAttached
  BY DEF Init, RanUsersAttached
<1>. QED
  BY <1>2, <1>4, <1>5 DEF IInv

(* The drawing at the end of a turn of the UE screen. *)
LEMMA RedrawType ==
    ASSUME cursor \in Slots, NEW s \in Nat \ {0}, Redraw(s)
    PROVE  sel' \in Nat \ {0} /\ cursor' \in Slots
<1>1. ActiveSlots(ues') \in SUBSET Slots
  BY DEF ActiveSlots
<1>. QED
  BY <1>1, DrawnType DEF Redraw

(* The rest of TypeOK, once the table is in order. *)
ScreenTypeOK ==
    /\ booting \in BOOLEAN
    /\ wanted \in BOOLEAN
    /\ ran \in BOOLEAN
    /\ sel \in Nat \ {0}
    /\ cursor \in Slots
    /\ blank \in Nat

LEMMA IInvParts ==
    IInv <=> TableInv /\ ScreenTypeOK
BY CoherentTable
   DEF IInv, TypeOK, TableInv, TableTypeOK, ScreenTypeOK, IsTable, IsUserTable

LEMMA IInvPartsPrime ==
    IInv' <=> TableInv' /\ ScreenTypeOK'
BY CoherentTablePrime
   DEF IInv, TypeOK, TableInv, TableTypeOK, ScreenTypeOK, IsTable, IsUserTable, Coherent

(* What a step may do to the RAN users, on top of keeping the invariant. *)
KeepsUsers == ran /\ ran' => (RanUsers \ RanUsers') \cap Attached' = {}

(* A step that leaves both tables alone. *)
LEMMA TablesAlone ==
    ASSUME TableInv, UNCHANGED <<ues, nof, users, ran>>, dirty' \in BOOLEAN
    PROVE  TableInv' /\ KeepsUsers
<1>1. TableTypeOK'
  BY DEF TableInv, TableTypeOK, IsTable, IsUserTable
<1>2. Coherent(ues, Phy)'
  BY DEF TableInv, Coherent, ActiveSlots
<1>3. RanUsers' = RanUsers /\ Attached' = Attached
  BY DEF RanUsers, Attached, ActiveSlots
<1>4. RanUsersAttached' /\ KeepsUsers
  BY <1>3 DEF TableInv, RanUsersAttached, KeepsUsers
<1>. QED
  BY <1>1, <1>2, <1>4 DEF TableInv

LEMMA NextIInv ==
    ASSUME IInv, [Next]_vars
    PROVE  IInv' /\ KeepsUsers
<1>. USE IInvParts, IInvPartsPrime
<1>1. CASE ScenarioUE
  <2>1. PICK pci \in Pcis, asked \in Rntis, imsi \in Imsis \cup {NoImsi} :
            UEAdd(pci, asked, imsi, TRUE)
    BY <1>1 DEF ScenarioUE
  <2>2. TableInv' /\ (ran => RanUsers \subseteq RanUsers')
    BY <1>1, <2>1, UEAddKeeps DEF ScenarioUE, ScreenTypeOK
  <2>3. ScreenTypeOK'
    BY <1>1 DEF ScenarioUE, ScreenTypeOK, screen
  <2>. QED
    BY <2>2, <2>3 DEF KeepsUsers
<1>2. CASE Started
  BY <1>2, TablesAlone DEF Started, table, screen, TableInv, TableTypeOK, ScreenTypeOK
<1>3. CASE OperatorAddUE
  <2>1. PICK asked \in Rntis, imsi \in Imsis \cup {NoImsi} :
            UEAdd(Cell0, asked, imsi, TRUE)
    BY <1>3 DEF OperatorAddUE
  <2>2. Cell0 \in Pcis /\ ran' = ran
    BY <1>3, TableAssumption DEF OperatorAddUE
  <2>3. TableInv' /\ (ran => RanUsers \subseteq RanUsers')
    BY <2>1, <2>2, UEAddKeeps DEF ScreenTypeOK
  <2>4. sel' \in Nat \ {0} /\ cursor' \in Slots
    BY <1>3, RedrawType DEF OperatorAddUE, ScreenTypeOK
  <2>5. ScreenTypeOK'
    BY <1>3, <2>4 DEF OperatorAddUE, ScreenTypeOK
  <2>. QED
    BY <2>3, <2>5 DEF KeepsUsers
<1>4. CASE OperatorMove
  <2>1. \A s \in {sel, Up(sel), Down(sel, nof)} : s \in Nat \ {0}
    <3>1. sel \in Nat \ {0}
      BY DEF ScreenTypeOK
    <3>2. nof \in Nat
      BY DEF TableInv, TableTypeOK
    <3>. QED
      BY <3>1, <3>2, RowType
  <2>2. sel' \in Nat \ {0} /\ cursor' \in Slots
    BY <1>4, <2>1, RedrawType DEF OperatorMove, ScreenTypeOK
  <2>. QED
    BY <1>4, <2>2, TablesAlone
       DEF OperatorMove, table, TableInv, TableTypeOK, ScreenTypeOK
<1>5. CASE OperatorRemoveUE
  <2>1. UERem(ues[cursor].rnti, TRUE) /\ ran' = ran /\ booting' = booting
    BY <1>5 DEF OperatorRemoveUE
  <2>2. ues[cursor].rnti \in Rntis
    BY DEF TableInv, TableTypeOK, IsTable, UE, ScreenTypeOK
  <2>3. TableInv' /\ (ran => (RanUsers \ RanUsers') \cap Attached' = {})
    BY <2>1, <2>2, UERemKeeps DEF ScreenTypeOK
  <2>4. sel' \in Nat \ {0} /\ cursor' \in Slots
    <3>1. Up(sel) \in Nat \ {0}
      BY RowType DEF ScreenTypeOK
    <3>. QED
      BY <1>5, <3>1, RedrawType DEF OperatorRemoveUE, ScreenTypeOK
  <2>5. ScreenTypeOK'
    BY <1>5, <2>4 DEF OperatorRemoveUE, ScreenTypeOK
  <2>. QED
    BY <2>3, <2>5 DEF KeepsUsers
<1>6. CASE HandoverIn
  <2>1. PICK asked \in Candidates, imsi \in Imsis : UEAdd(Cell0, asked, imsi, FALSE)
    BY <1>6 DEF HandoverIn
  <2>2. Cell0 \in Pcis /\ ran' = ran /\ asked \in Rntis
    BY <1>6, SlotsAssumption, TableAssumption DEF HandoverIn, Candidates, Rntis
  <2>3. TableInv' /\ (ran => RanUsers \subseteq RanUsers')
    BY <2>1, <2>2, UEAddKeeps DEF ScreenTypeOK
  <2>4. ScreenTypeOK'
    BY <1>6 DEF HandoverIn, ScreenTypeOK, screen
  <2>. QED
    BY <2>3, <2>4 DEF KeepsUsers
<1>7. CASE HandoverOut
  <2>1. PICK i \in ActiveSlots(ues) : UERem(ues[i].rnti, FALSE)
    BY <1>7 DEF HandoverOut
  <2>2. ues[i].rnti \in Rntis /\ ran' = ran
    BY <1>7 DEF HandoverOut, TableInv, TableTypeOK, IsTable, UE, ActiveSlots
  <2>3. TableInv' /\ (ran => (RanUsers \ RanUsers') \cap Attached' = {})
    BY <2>1, <2>2, UERemKeeps DEF ScreenTypeOK
  <2>4. ScreenTypeOK'
    BY <1>7 DEF HandoverOut, ScreenTypeOK, screen
  <2>. QED
    BY <2>3, <2>4 DEF KeepsUsers
<1>8. CASE ReportUEs
  BY <1>8, TablesAlone DEF ReportUEs, screen, ScreenTypeOK
<1>9. CASE ToggleRan
  <2>1. /\ ran' = ~ran
        /\ users' = IF ran' THEN RanBootstrap(ues) ELSE users
        /\ UNCHANGED <<booting, ues, nof, dirty, wanted, sel, cursor, blank>>
    BY <1>9 DEF ToggleRan, screen
  <2>2. IsTable(ues) /\ Coherent(ues, Phy)
    BY DEF TableInv, TableTypeOK
  <2>3. IsUserTable(users')
    BY <2>1, <2>2, RanBootstrapSlots DEF TableInv, TableTypeOK
  <2>4. ASSUME ran'
        PROVE  RanUsersAttached'
    <3>1. OneSlotEach(users') /\ UsersOf(users') \subseteq Attached
      BY <2>1, <2>2, <2>4, RanBootstrapSlots DEF Attached
    <3>2. RanUsers' = UsersOf(users') /\ Attached' = Attached
      BY <2>1 DEF RanUsers, UsersOf, Attached, ActiveSlots
    <3>. QED
      BY <3>1, <3>2 DEF RanUsersAttached, OneSlotEach
  <2>5. RanUsersAttached'
    BY <2>4 DEF RanUsersAttached
  <2>6. TableInv'
    BY <2>1, <2>2, <2>3, <2>5
       DEF TableInv, TableTypeOK, Coherent, ActiveSlots, IsTable, IsUserTable
  <2>. QED
    BY <2>1, <2>6 DEF ScreenTypeOK, KeepsUsers
<1>10. CASE ReportRequested
  BY <1>10, TablesAlone DEF ReportRequested, screen, ScreenTypeOK
<1>11. CASE ControllerLost
  BY <1>11, TablesAlone DEF ControllerLost, table, screen, TableInv, TableTypeOK, ScreenTypeOK
<1>12. CASE UNCHANGED vars
  BY <1>12, TablesAlone DEF vars, table, screen, TableInv, TableTypeOK, ScreenTypeOK
<1>. QED
  BY <1>1, <1>2, <1>3, <1>4, <1>5, <1>6, <1>7, <1>8, <1>9, <1>10, <1>11, <1>12 DEF Next

-----------------------------------------------------------------------------
(* The theorems. *)

LEMMA IInvAlways == Spec => []IInv
BY InitIInv, NextIInv, PTL DEF Spec

(* Every variable has the type its C declaration gives it, the list cursor *)
(* points into sim_ues and the count stays a u32.                          *)
THEOREM TypeCorrect == Spec => []TypeOK
BY IInvAlways, PTL DEF IInv

(* No two slots hold one subscriber, whatever mix of scenario lines, keys, *)
(* handovers and removals came before: ue_add compares with every slot.    *)
THEOREM SubscribersUnique == Spec => []UniqueImsi
BY IInvAlways, PTL DEF IInv

(* No two UEs hold one RNTI, however often RNTIs are reused, so the first  *)
(* match that ue_rem, x2_hand_over and wrap_ue_measure stop at is the UE.  *)
THEOREM RntisUnique == Spec => []UniqueRnti
BY IInvAlways, PTL DEF IInv

(* No slot is half free: what ue_rem leaves behind cannot make ue_add      *)
(* refuse a subscriber that is not there.                                  *)
THEOREM SlotsStayWhole == Spec => []SlotsWhole
BY IInvAlways, PTL DEF IInv

(* While RAN sharing is on the user table of the scheduler lists UEs of    *)
(* this eNB only, each once, whenever sharing was switched on.             *)
THEOREM RanServesAttached == Spec => []RanUsersAttached
BY IInvAlways, PTL DEF IInv

(* A UE that is scheduled stays scheduled until it leaves. *)
THEOREM RanKeepsServing == Spec => RanKeepsUsers
<1>1. IInv /\ [Next]_vars => [ran /\ ran' => (RanUsers \ RanUsers') \cap Attached' = {}]_vars
  BY NextIInv DEF KeepsUsers
<1>. QED
  BY <1>1, IInvAlways, PTL DEF Spec, RanKeepsUsers

-----------------------------------------------------------------------------
(* The count. *)

(* ue_add takes one more slot. *)
LEMMA UEAddActive ==
    ASSUME TableInv, NEW pci \in Pcis, NEW asked \in Rntis,
           NEW imsi \in Imsis \cup {NoImsi}, NEW rep, UEAdd(pci, asked, imsi, rep)
    PROVE  Cardinality(ActiveSlots(ues')) = Cardinality(ActiveSlots(ues)) + 1
<1>1. PICK r \in AssignedRntis(ues, asked) : ues' = AddUE(ues, r, imsi, pci)
  BY DEF UEAdd
<1>2. IsTable(ues) /\ FreeSlots(ues) # {}
  BY DEF UEAdd, AddResult, TableInv, TableTypeOK
<1>3. r \in Rntis \ {NoRnti}
  BY <1>2, AssignedIsFresh
<1>4. ActiveSlots(ues') = ActiveSlots(ues) \cup {Min(FreeSlots(ues))}
  BY <1>1, <1>2, <1>3, AddUESlots
<1>5. Min(FreeSlots(ues)) \notin ActiveSlots(ues)
  BY <1>2, FirstFree DEF ActiveSlots
<1>. QED
  BY <1>4, <1>5, ActiveFinite, FS_AddElement

(* ue_rem frees a taken slot exactly when it is asked for an RNTI in use.  *)
LEMMA UERemActive ==
    ASSUME TableInv, NEW rnti \in Rntis, NEW rep, UERem(rnti, rep)
    PROVE  /\ rnti = NoRnti => ActiveSlots(ues') = ActiveSlots(ues)
           /\ rnti # NoRnti /\ Matching(ues, rnti) # {} =>
                 Cardinality(ActiveSlots(ues')) = Cardinality(ActiveSlots(ues)) - 1
<1>1. ues' = RemUE(ues, rnti) /\ IsTable(ues)
  BY DEF UERem, TableInv, TableTypeOK
<1>2. CASE Matching(ues, rnti) = {}
  BY <1>1, <1>2 DEF RemUE
<1>3. CASE Matching(ues, rnti) # {}
  <2>. DEFINE f == Min(Matching(ues, rnti))
  <2>1. f \in Slots /\ ues[f].rnti = rnti /\ ActiveSlots(ues') = ActiveSlots(ues) \ {f}
    BY <1>1, <1>3, RemUEActive
  <2>. HIDE DEF f
  <2>2. f \in ActiveSlots(ues) <=> rnti # NoRnti
    BY <2>1 DEF ActiveSlots
  <2>3. IsFiniteSet(ActiveSlots(ues))
    BY ActiveFinite
  <2>4. rnti = NoRnti => ActiveSlots(ues') = ActiveSlots(ues)
    BY <2>1, <2>2
  <2>5. rnti # NoRnti =>
            Cardinality(ActiveSlots(ues')) = Cardinality(ActiveSlots(ues)) - 1
    BY <2>1, <2>2, <2>3, FS_RemoveElement
  <2>. QED
    BY <2>4, <2>5
<1>. QED
  BY <1>2, <1>3

LEMMA NextCount ==
    ASSUME IInv, CountDrift, [Next]_vars
    PROVE  CountDrift'
<1>. DEFINE n == Cardinality(ActiveSlots(ues))
<1>1. TableInv /\ ScreenTypeOK
  BY IInvParts
<1>2. n \in Nat /\ blank \in Nat /\ CountMod \in Nat \ {0} /\ nof = (n - blank) % CountMod
  BY <1>1, ActiveFinite, SlotsAssumption, TableAssumption DEF CountDrift, ScreenTypeOK
<1>3. ASSUME NEW pci \in Pcis, NEW asked \in Rntis, NEW imsi \in Imsis \cup {NoImsi},
             NEW rep, UEAdd(pci, asked, imsi, rep), blank' = blank
      PROVE  CountDrift'
  <2>1. nof' = (nof + 1) % CountMod /\ Cardinality(ActiveSlots(ues')) = n + 1
    BY <1>1, <1>3, UEAddActive DEF UEAdd
  <2>2. nof' = (n - blank + 1) % CountMod
    <3>1. n - blank \in Int /\ 1 \in Int
      BY <1>2
    <3>. HIDE DEF n
    <3>. QED
      BY <1>2, <2>1, <3>1, ModPlus
  <2>3. n - blank + 1 = (n + 1) - blank'
    BY <1>2, <1>3
  <2>. QED
    BY <2>1, <2>2, <2>3 DEF CountDrift
<1>4. ASSUME NEW i \in Slots, NEW rep, UERem(ues[i].rnti, rep),
             blank' = IF ues[i].rnti = NoRnti THEN blank + 1 ELSE blank
      PROVE  CountDrift'
  <2>1. ues[i].rnti \in Rntis /\ Matching(ues, ues[i].rnti) # {}
    BY <1>1 DEF TableInv, TableTypeOK, IsTable, UE, Matching
  <2>2. nof' = (nof - 1) % CountMod
    BY <1>4, <2>1 DEF UERem
  <2>3. nof' = (n - blank + (-1)) % CountMod
    <3>1. n - blank \in Int /\ -1 \in Int /\ nof - 1 = nof + (-1)
      BY <1>2, <1>1 DEF TableInv, TableTypeOK
    <3>. HIDE DEF n
    <3>. QED
      BY <1>2, <2>2, <3>1, ModPlus
  <2>4. Cardinality(ActiveSlots(ues')) - blank' = n - blank + (-1)
    <3>1. CASE ues[i].rnti = NoRnti
      <4>1. ActiveSlots(ues') = ActiveSlots(ues) /\ blank' = blank + 1
        BY <1>1, <1>4, <2>1, <3>1, UERemActive
      <4>. QED
        BY <1>2, <4>1
    <3>2. CASE ues[i].rnti # NoRnti
      <4>1. Cardinality(ActiveSlots(ues')) = n - 1 /\ blank' = blank
        BY <1>1, <1>4, <2>1, <3>2, UERemActive
      <4>. QED
        BY <1>2, <4>1
    <3>. QED
      BY <3>1, <3>2
  <2>. QED
    BY <2>3, <2>4 DEF CountDrift
<1>5. CASE ScenarioUE
  BY <1>3, <1>5 DEF ScenarioUE
<1>6. CASE OperatorAddUE
  BY <1>3, <1>6, TableAssumption DEF OperatorAddUE
<1>7. CASE HandoverIn
  <2>1. PICK asked \in Candidates, imsi \in Imsis : UEAdd(Cell0, asked, imsi, FALSE)
    BY <1>7 DEF HandoverIn
  <2>2. asked \in Rntis
    BY SlotsAssumption DEF Candidates, Rntis
  <2>. QED
    BY <1>3, <1>7, <2>1, <2>2, TableAssumption DEF HandoverIn
<1>8. CASE OperatorRemoveUE
  BY <1>1, <1>4, <1>8 DEF OperatorRemoveUE, ScreenTypeOK
<1>9. CASE HandoverOut
  BY <1>4, <1>9 DEF HandoverOut, ActiveSlots
<1>10. CASE UNCHANGED <<ues, nof, blank>>
  BY <1>10 DEF CountDrift, ActiveSlots
<1>. QED
  BY <1>5, <1>6, <1>7, <1>8, <1>9, <1>10
     DEF Next, Started, OperatorMove, ReportRequested, ControllerLost, ReportUEs, ToggleRan,
         vars, table

(* The count of UEs is wrong by the removals of free slots and by nothing  *)
(* else, in the arithmetic of a u32.                                       *)
THEOREM CountDriftsOnlyOnBlanks == Spec => []CountDrift
<1>1. Init => CountDrift
  <2>1. Init => ActiveSlots(ues) = {}
    BY DEF Init, EmptyTable, ActiveSlots, FreeSlot
  <2>2. Init => nof = 0 /\ blank = 0
    BY DEF Init
  <2>3. (0 - 0) % CountMod = 0
    BY SlotsAssumption, TableAssumption
  <2>. QED
    BY <2>1, <2>2, <2>3, FS_EmptySet DEF CountDrift
<1>2. IInv /\ CountDrift /\ [Next]_vars => CountDrift'
  BY NextCount
<1>. QED
  BY <1>1, <1>2, IInvAlways, PTL DEF Spec

-----------------------------------------------------------------------------
(* The refinement. *)

(* A call of ue_add that succeeds is one Attach. *)
LEMMA UEAddAttaches ==
    ASSUME TableInv, NEW pci \in Pcis, NEW asked \in Rntis,
           NEW imsi \in Imsis \cup {NoImsi}, NEW rep \in BOOLEAN,
           UEAdd(pci, asked, imsi, rep)
    PROVE  Registry!Next
<1>1. PICK r \in AssignedRntis(ues, asked) : ues' = AddUE(ues, r, imsi, pci)
  BY DEF UEAdd
<1>2. IsTable(ues) /\ Coherent(ues, Phy) /\ FreeSlots(ues) # {} /\ imsi \notin ImsisOf(ues)
  BY DEF UEAdd, AddResult, TableInv, TableTypeOK
<1>3. r \in Rntis \ {NoRnti} /\ r \notin RntisOf(ues)
  BY <1>2, AssignedIsFresh
<1>4. imsi \in Imsis
  BY <1>2 DEF Coherent, ImsisOf, FreeSlots, FreeSlot
<1>5. UesOf(ues') = UesOf(ues) \cup {<<imsi, r>>}
  <2>. DEFINE f == Min(FreeSlots(ues))
  <2>1. /\ ues'[f] = [rnti |-> r, imsi |-> imsi, pci |-> pci]
        /\ \A i \in Slots \ {f} : ues'[i] = ues[i]
        /\ ActiveSlots(ues') = ActiveSlots(ues) \cup {f}
    BY <1>1, <1>2, <1>3, AddUESlots
  <2>2. f \notin ActiveSlots(ues)
    BY <1>2, FirstFree DEF ActiveSlots
  <2>. HIDE DEF f
  <2>3. \A i \in ActiveSlots(ues) : ues'[i] = ues[i]
    BY <2>1, <2>2 DEF ActiveSlots
  <2>. QED
    BY <2>1, <2>3 DEF UesOf
<1>6. \A u \in UesOf(ues) : u[1] # imsi /\ u[2] # r
  BY <1>2, <1>3 DEF UesOf, ActiveSlots, ImsisOf, RntisOf
<1>7. Cardinality(UesOf(ues)) < UEMax
  BY <1>2, RoomLeft
<1>8. dirty' = (dirty \/ rep)
  BY DEF UEAdd
<1>9. Registry!Attach(imsi, r, rep)
  BY <1>5, <1>6, <1>7, <1>8
     DEF Registry!Attach, Cardinality, Registry!Cardinality
<1>. QED
  BY <1>3, <1>4, <1>9 DEF Registry!Next

(* A call of ue_rem is one Detach, or a Nudge when it frees no UE. *)
LEMMA UERemDetaches ==
    ASSUME TableInv, NEW i \in Slots, NEW rep \in BOOLEAN,
           UERem(ues[i].rnti, rep), ues[i].rnti = NoRnti => rep
    PROVE  Registry!Next
<1>1. IsTable(ues) /\ Coherent(ues, Phy) /\ ues' = RemUE(ues, ues[i].rnti)
  BY DEF UERem, TableInv, TableTypeOK
<1>2. dirty' = (dirty \/ rep)
  BY DEF UERem
<1>3. \A k \in ActiveSlots(ues') : k \in ActiveSlots(ues) /\ ues'[k] = ues[k]
  BY <1>1, RemUESlots
<1>4. \A k \in ActiveSlots(ues) : ues[k].rnti # ues[i].rnti => k \in ActiveSlots(ues')
  BY <1>1, RemUESlots DEF ActiveSlots
<1>5. CASE ues[i].rnti = NoRnti
  <2>1. ActiveSlots(ues') = ActiveSlots(ues)
    BY <1>3, <1>4, <1>5 DEF ActiveSlots
  <2>2. UesOf(ues') = UesOf(ues)
    BY <1>3, <2>1 DEF UesOf
  <2>3. Registry!Nudge
    BY <1>2, <1>5, <2>2 DEF Registry!Nudge
  <2>. QED
    BY <2>3 DEF Registry!Next
<1>6. CASE ues[i].rnti # NoRnti
  <2>. DEFINE u == <<ues[i].imsi, ues[i].rnti>>
  <2>1. u \in UesOf(ues)
    BY <1>6 DEF UesOf, ActiveSlots
  <2>2. ues[i].rnti \in Rntis \ {NoRnti}
    BY <1>1, <1>6 DEF IsTable, UE
  <2>3. \A k \in ActiveSlots(ues') : ues'[k].rnti # ues[i].rnti
    BY <1>1, <2>2, RemUERemoves
  <2>4. \A k \in ActiveSlots(ues) : ues[k].rnti = ues[i].rnti => k = i
    BY <1>1, <1>6 DEF Coherent, ActiveSlots
  <2>5. UesOf(ues') = UesOf(ues) \ {u}
    <3>1. \A v \in UesOf(ues') : v \in UesOf(ues) /\ v # u
      BY <1>3, <2>3 DEF UesOf
    <3>2. \A v \in UesOf(ues) : v # u => v \in UesOf(ues')
      BY <1>3, <1>4, <2>4 DEF UesOf
    <3>. QED
      BY <3>1, <3>2
  <2>6. Registry!Detach(u, rep)
    BY <1>2, <2>5 DEF Registry!Detach
  <2>. QED
    BY <2>1, <2>6 DEF Registry!Next
<1>. QED
  BY <1>5, <1>6

LEMMA NextRegistry ==
    ASSUME IInv, [Next]_vars
    PROVE  [Registry!Next]_<<UesOf(ues), dirty>>
<1>1. TableInv /\ ScreenTypeOK
  BY IInvParts
<1>2. CASE ScenarioUE
  BY <1>1, <1>2, UEAddAttaches DEF ScenarioUE
<1>3. CASE OperatorAddUE
  BY <1>1, <1>3, UEAddAttaches, TableAssumption DEF OperatorAddUE
<1>4. CASE HandoverIn
  <2>1. PICK asked \in Candidates, imsi \in Imsis : UEAdd(Cell0, asked, imsi, FALSE)
    BY <1>4 DEF HandoverIn
  <2>2. asked \in Rntis /\ Cell0 \in Pcis
    BY SlotsAssumption, TableAssumption DEF Candidates, Rntis
  <2>. QED
    BY <1>1, <2>1, <2>2, UEAddAttaches
<1>5. CASE OperatorRemoveUE
  BY <1>1, <1>5, UERemDetaches DEF OperatorRemoveUE, ScreenTypeOK
<1>6. CASE HandoverOut
  BY <1>1, <1>6, UERemDetaches DEF HandoverOut, ActiveSlots
<1>7. CASE ReportUEs
  <2>1. Registry!Report
    BY <1>7 DEF ReportUEs, Registry!Report, UesOf, ActiveSlots
  <2>. QED
    BY <2>1 DEF Registry!Next
<1>8. CASE ReportRequested
  <2>1. Registry!Nudge
    BY <1>8 DEF ReportRequested, Registry!Nudge, UesOf, ActiveSlots
  <2>. QED
    BY <2>1 DEF Registry!Next
<1>9. CASE UNCHANGED <<ues, dirty>>
  BY <1>9 DEF UesOf, ActiveSlots
<1>. QED
  BY <1>2, <1>3, <1>4, <1>5, <1>6, <1>7, <1>8, <1>9
     DEF Next, Started, OperatorMove, ControllerLost, ToggleRan, vars, table

(* The slots, the counters and the callers of ue_add and ue_rem implement  *)
(* the registry: UEs come and go one at a time, never more than UE_MAX,    *)
(* never with a subscriber or an RNTI twice, and the flag that asks for a  *)
(* report falls only by a report.                                          *)
THEOREM TableImplementsRegistry == Spec => ImplementsRegistry
<1>1. Init => Registry!Init
  BY DEF Init, EmptyTable, FreeSlot, UesOf, ActiveSlots, Registry!Init
<1>2. IInv /\ [Next]_vars => [Registry!Next]_<<UesOf(ues), dirty>>
  BY NextRegistry
<1>3. IInv /\ [Next]_vars => [Registry!Next]_Registry!vars
  BY <1>2 DEF Registry!vars
<1>. QED
  BY <1>1, <1>3, IInvAlways, PTL DEF Spec, ImplementsRegistry, Registry!Spec

=============================================================================
