---------------------------- MODULE MacSchedProofs ----------------------------
(***************************************************************************)
(* Proofs about MacSched, for every size of the tables.                    *)
(*                                                                         *)
(* The bound on the waits is not inductive: it holds because a user that   *)
(* is passed over gets closer.  So the inductive invariant adds to the     *)
(* waits of a user the length of the walk from the slot served last to its *)
(* own; the sum stays within one round.  In the middle of a turn the walk  *)
(* from the slot picked is already shorter for every user but those that   *)
(* came since, who have not waited.                                        *)
(*                                                                         *)
(* That RAN sharing serves UEs of this eNB rests on what the user table    *)
(* may hold while threads are half way through an add, a removal or the    *)
(* rebuild of the table (UsersInv).  A removal takes the user out of one   *)
(* slot, so it matters that no user sits in two.                           *)
(*                                                                         *)
(* The PRBs of the cells are a sum defined by recursion: that adding a     *)
(* cell adds its PRBs follows from the first place where it would not.     *)
(* Fair PRB Split is a loop over the slots, whose invariant is how many    *)
(* groups every UE has after whole passes and a part of one (FairSoFar).   *)
(***************************************************************************)
EXTENDS MacSched, TableProofs

(* Where the main loop can be. *)
Mains ==
    {Between, Overran} \cup {Picked(u) : u \in RanSlots}
        \cup {Filling(u, g) : u \in RanSlots, g \in Groups}

(* What the proofs need of TypeOK; user slots are filled no faster than    *)
(* slots of sim_ues are read.                                              *)
SchedTypeOK ==
    /\ IsTable(ues)
    /\ ran \in BOOLEAN
    /\ IsUserTable(users)
    /\ tasks \in [Threads -> Tasks]
    /\ tasks["ui"].at = "copying" => tasks["ui"].to <= tasks["ui"].from
    /\ last \in RanSlots
    /\ subframe \in 0 .. SubFrames - 1
    /\ main \in Mains
    /\ waits \in [RanSlots -> Nat]
    /\ crossed \subseteq Rntis

(* Once the table is cleared, its users are UEs of this eNB, or are being  *)
(* removed, each in one user slot, and those still to be copied are not in *)
(* it; unless their ran_add_user crossed something.                        *)
UsersKnown ==
    UsersOf(users) \subseteq Attached \cup LeavingRntis \cup crossed

UsersOnce ==
    \A j, k \in RanSlots :
        users[j] = users[k] /\ users[j] \notin crossed \cup {NoRnti} => j = k

CopiesNew ==
    tasks["ui"].at = "copying" =>
        \A i \in ActiveSlots(ues) :
            i >= tasks["ui"].from /\ ues[i].rnti \notin crossed =>
                ues[i].rnti \notin UsersOf(users)

UsersInv ==
    /\ Coherent(ues, Pcis)
    /\ ran /\ tasks["ui"].at # "clearing" => UsersKnown /\ UsersOnce /\ CopiesNew

(* Waits and the walk that is left. *)
Closer ==
    \A j \in RanSlots : users[j] # NoRnti => waits[j] + Walk(last, j) <= RanMax

PickedCloser ==
    main.at = "picked" =>
        \A j \in RanSlots \ {main.user} :
            users[j] # NoRnti => waits[j] = 0 \/ Walk(main.user, j) < Walk(last, j)

IInv == SchedTypeOK /\ UsersInv /\ Closer /\ PickedCloser

-----------------------------------------------------------------------------
(* The walk over the user slots. *)

LEMMA WalkRange ==
    ASSUME NEW j \in RanSlots, NEW k \in RanSlots
    PROVE  /\ Walk(j, k) \in 1 .. RanMax
           /\ j # k => Walk(j, k) < RanMax
BY RanAssumption, SlotsAssumption DEF RanSlots, Walk

(* Two slots are never the same number of steps away. *)
LEMMA WalkInjective ==
    ASSUME NEW from \in RanSlots, NEW j \in RanSlots, NEW k \in RanSlots,
           Walk(from, j) = Walk(from, k)
    PROVE  j = k
BY RanAssumption, SlotsAssumption DEF RanSlots, Walk

(* Beyond a slot on the way the walk is shorter. *)
LEMMA WalkOn ==
    ASSUME NEW from \in RanSlots, NEW j \in RanSlots, NEW k \in RanSlots,
           Walk(from, j) < Walk(from, k)
    PROVE  Walk(j, k) < Walk(from, k)
BY RanAssumption, SlotsAssumption DEF RanSlots, Walk

(* The user picked is one, and the first on the way. *)
LEMMA NextUserFirst ==
    ASSUME NEW u, Served(u) # {}, NEW from \in RanSlots
    PROVE  /\ NextUser(u, from) \in Served(u)
           /\ \A k \in Served(u) : Walk(from, NextUser(u, from)) <= Walk(from, k)
<1>. DEFINE D == {Walk(from, k) : k \in Served(u)}
<1>1. Served(u) \subseteq RanSlots
  BY DEF Served
<1>2. D \in SUBSET Nat /\ D # {}
  BY <1>1, WalkRange
<1>3. PICK d \in D : \A e \in D : d <= e
  BY <1>2, LeastNatural
<1>4. \E j \in Served(u) : \A k \in Served(u) : Walk(from, j) <= Walk(from, k)
  BY <1>3
<1>. QED
  BY <1>4 DEF NextUser

-----------------------------------------------------------------------------
(* The invariant. *)

LEMMA InitIInv == Init => IInv
<1>. SUFFICES ASSUME Init PROVE IInv
  OBVIOUS
<1>1. NoRnti \in Rntis /\ FreeSlot \in UE /\ 0 \in RanSlots
  BY SlotsAssumption, RanAssumption DEF NoRnti, Rntis, FreeSlot, UE, NoPci, RanSlots
<1>2. SchedTypeOK
  <2>1. IsTable(ues) /\ IsUserTable(users) /\ waits \in [RanSlots -> Nat]
    BY <1>1 DEF Init, IsTable, IsUserTable, EmptyTable
  <2>2. subframe \in 0 .. SubFrames - 1
    BY MacAssumption DEF Init
  <2>3. tasks \in [Threads -> Tasks] /\ tasks["ui"].at = "idle"
    BY DEF Init, Tasks, Threads, Idle
  <2>4. main \in Mains
    BY DEF Init, Mains
  <2>5. last \in RanSlots /\ ran = FALSE /\ crossed = {}
    BY <1>1 DEF Init
  <2>. QED
    BY <2>1, <2>2, <2>3, <2>4, <2>5 DEF SchedTypeOK
<1>3. UsersInv
  BY DEF Init, UsersInv, Coherent, EmptyTable, ActiveSlots, FreeSlot
<1>4. Closer /\ PickedCloser
  BY DEF Init, Closer, PickedCloser, Between
<1>. QED
  BY <1>2, <1>3, <1>4 DEF IInv

(* What a change of the user table does to the histories: the waits of the *)
(* slots it touches are 0 again, who is a user crossed something before or *)
(* does now.                                                               *)
LEMMA TrackedWaits ==
    ASSUME IInv, NEW met, TrackUsers(met)
    PROVE  /\ waits' \in [RanSlots -> Nat]
           /\ \A j \in RanSlots :
                 waits'[j] = 0 \/ (users'[j] = users[j] /\ waits'[j] = waits[j])
BY DEF IInv, SchedTypeOK, TrackUsers

LEMMA TrackedCrossed ==
    ASSUME IInv, NEW met \in SUBSET Rntis, TrackUsers(met)
    PROVE  /\ crossed' \subseteq Rntis
           /\ crossed' \subseteq crossed \cup met
           /\ \A r \in UsersOf(users') : r \in crossed' <=> r \in crossed \cup met
<1>1. crossed' = {r \in crossed \cup met : r # NoRnti /\ RanHolding(users', r) # {}}
  BY DEF TrackUsers
<1>. QED
  BY <1>1 DEF IInv, SchedTypeOK, UsersOf, RanHolding

(* A change of the tables, at any point of a turn. *)
LEMMA TablesKeepWaits ==
    ASSUME IInv, UNCHANGED frame, IsUserTable(users'), waits' \in [RanSlots -> Nat],
           \A j \in RanSlots :
              waits'[j] = 0 \/ (users'[j] = users[j] /\ waits'[j] = waits[j])
    PROVE  Closer' /\ PickedCloser'
<1>1. last \in RanSlots /\ last' = last /\ main' = main
  BY DEF IInv, SchedTypeOK, frame
<1>2. Closer'
  BY <1>1, WalkRange, RanAssumption, SlotsAssumption DEF IInv, Closer
<1>3. PickedCloser'
  BY <1>1 DEF IInv, PickedCloser
<1>. QED
  BY <1>2, <1>3

LEMMA TablesIInv ==
    ASSUME IInv, UNCHANGED frame, NEW met \in SUBSET Rntis, TrackUsers(met),
           IsTable(ues'), ran' \in BOOLEAN, IsUserTable(users'), tasks' \in [Threads -> Tasks],
           tasks'["ui"].at = "copying" => tasks'["ui"].to <= tasks'["ui"].from,
           UsersInv'
    PROVE  IInv'
<1>1. Closer' /\ PickedCloser'
  BY TrackedWaits, TablesKeepWaits
<1>2. SchedTypeOK'
  BY TrackedWaits, TrackedCrossed DEF IInv, SchedTypeOK, frame, IsTable, IsUserTable
<1>. QED
  BY <1>1, <1>2 DEF IInv

(* The types of a task, and who is leaving. *)
LEMMA TaskTypes ==
    /\ Idle \in Tasks /\ Clearing \in Tasks
    /\ \A i \in Slots : Added(i) \in Tasks
    /\ \A r \in Rntis : Joining(r) \in Tasks
    /\ \A r \in Rntis \ {NoRnti} : Leaving(r) \in Tasks
    /\ \A i, j \in RanSlots : Copying(i, j) \in Tasks
    /\ \A t \in Tasks : /\ t.at = "added" => t.slot \in Slots
                        /\ t.at = "joining" => t.rnti \in Rntis
                        /\ t.at = "leaving" => t.rnti \in Rntis \ {NoRnti}
                        /\ t.at = "copying" => t.from \in RanSlots /\ t.to \in RanSlots
    /\ "main" \in Threads /\ "ui" \in Threads /\ "agent" \in Threads
    /\ Adders \subseteq Threads /\ Removers \subseteq Threads
<1>1. Adders \subseteq Threads /\ Removers \subseteq Threads
  BY MacAssumption DEF Threads
<1>2. /\ Idle \in Tasks /\ Clearing \in Tasks
      /\ \A i \in Slots : Added(i) \in Tasks
      /\ \A r \in Rntis : Joining(r) \in Tasks
      /\ \A r \in Rntis \ {NoRnti} : Leaving(r) \in Tasks
      /\ \A i, j \in RanSlots : Copying(i, j) \in Tasks
  BY DEF Tasks
<1>3. ASSUME NEW t \in Tasks
      PROVE  /\ t.at = "added" => t.slot \in Slots
             /\ t.at = "joining" => t.rnti \in Rntis
             /\ t.at = "leaving" => t.rnti \in Rntis \ {NoRnti}
             /\ t.at = "copying" => t.from \in RanSlots /\ t.to \in RanSlots
  <2>1. CASE t \in {Idle, Clearing}
    BY <2>1 DEF Idle, Clearing
  <2>2. ASSUME NEW r \in Rntis \ {NoRnti}, t = Leaving(r)
        PROVE  t.rnti \in Rntis \ {NoRnti} /\ t.at = "leaving"
    BY <2>2 DEF Leaving
  <2>3. ASSUME NEW i \in RanSlots, NEW j \in RanSlots, t = Copying(i, j)
        PROVE  t.from \in RanSlots /\ t.to \in RanSlots /\ t.at = "copying"
    BY <2>3 DEF Copying
  <2>4. ASSUME NEW r \in Rntis, t = Joining(r)
        PROVE  t.rnti \in Rntis /\ t.at = "joining"
    BY <2>4 DEF Joining
  <2>5. ASSUME NEW i \in Slots, t = Added(i)
        PROVE  t.slot \in Slots /\ t.at = "added"
    BY <2>5 DEF Added
  <2>. QED
    BY <2>1, <2>2, <2>3, <2>4, <2>5 DEF Tasks
<1>4. "main" \in Threads /\ "ui" \in Threads /\ "agent" \in Threads
  BY DEF Threads
<1>. QED
  BY <1>1, <1>2, <1>3, <1>4

LEMMA LeaversStay ==
    ASSUME tasks \in [Threads -> Tasks], NEW th \in Threads, tasks[th].at # "leaving",
           NEW t, tasks' = [tasks EXCEPT ![th] = t]
    PROVE  LeavingRntis \subseteq LeavingRntis'
BY DEF LeavingRntis

LEMMA AttachIInv ==
    ASSUME IInv, NEW th \in Adders, Attach(th)
    PROVE  IInv'
<1>. DEFINE imsi == Newcomer
<1>0. imsi \in Imsis
  BY DEF Attach, Newcomer
<1>1. PICK pci \in Pcis, asked \in Candidates :
         /\ AddResult(ues, imsi, pci, {cells[c].pci : c \in CellSlots}) = "SUCCESS"
         /\ \E rnti \in AssignedRntis(ues, asked) :
               /\ ues' = AddUE(ues, rnti, imsi, pci)
               /\ tasks' = [tasks EXCEPT ![th] = Added(Min(FreeSlots(ues)))]
               /\ users' = users
               /\ TrackUsers(IF Rebuilding THEN {rnti} ELSE {})
  BY DEF Attach
<1>. HIDE DEF imsi
<1>2. PICK rnti \in AssignedRntis(ues, asked) :
         /\ ues' = AddUE(ues, rnti, imsi, pci)
         /\ tasks' = [tasks EXCEPT ![th] = Added(Min(FreeSlots(ues)))]
         /\ users' = users
         /\ TrackUsers(IF Rebuilding THEN {rnti} ELSE {})
  BY <1>1
<1>. DEFINE met == IF Rebuilding THEN {rnti} ELSE {}
<1>3. FreeSlots(ues) # {} /\ AddResult(ues, imsi, pci, Pcis) = "SUCCESS"
  BY <1>1 DEF AddResult
<1>4. asked \in Rntis /\ IsTable(ues) /\ IsUserTable(users) /\ Coherent(ues, Pcis)
  BY SlotsAssumption DEF Candidates, Rntis, IInv, SchedTypeOK, UsersInv
<1>5. rnti \in Rntis \ {NoRnti}
  BY <1>3, <1>4, AssignedIsFresh
<1>6. IsTable(ues') /\ Coherent(ues', Pcis)
  BY <1>2, <1>3, <1>4, <1>5, <1>0, AddUEType, AddUECoherent
<1>. DEFINE f == Min(FreeSlots(ues))
<1>7. /\ ues'[f] = [rnti |-> rnti, imsi |-> imsi, pci |-> pci]
      /\ \A i \in Slots \ {f} : ues'[i] = ues[i]
      /\ ActiveSlots(ues') = ActiveSlots(ues) \cup {f}
      /\ f \notin ActiveSlots(ues)
  BY <1>2, <1>3, <1>4, <1>5, <1>0, AddUESlots, FirstFree DEF ActiveSlots
<1>7a. f \in Slots
  BY <1>3, <1>4, FirstFree
<1>. HIDE DEF f
<1>8. /\ th \in Threads
      /\ tasks[th] = Idle
      /\ tasks \in [Threads -> Tasks]
      /\ tasks' \in [Threads -> Tasks]
      /\ tasks'["ui"].at = "copying" => tasks' ["ui"] = tasks["ui"]
      /\ tasks'["ui"].at = "clearing" <=> tasks["ui"].at = "clearing"
  BY <1>2, <1>7a, TaskTypes DEF Attach, Free, IInv, SchedTypeOK, Added, Idle, f
<1>9. Attached \subseteq Attached' /\ LeavingRntis \subseteq LeavingRntis'
  <2>1. Attached \subseteq Attached'
    BY <1>7 DEF Attached, ActiveSlots
  <2>2. tasks[th].at # "leaving"
    BY <1>8 DEF Idle
  <2>. QED
    BY <1>2, <1>8, <2>1, <2>2, LeaversStay
<1>10. met \in SUBSET Rntis /\ TrackUsers(met) /\ ran' = ran /\ UNCHANGED frame
  BY <1>2, <1>5 DEF Attach
<1>11. \A r \in UsersOf(users) : r \in crossed' <=> r \in crossed \cup met
  BY <1>2, <1>10, TrackedCrossed
<1>12. UsersInv'
  <2>1. ASSUME ran, tasks["ui"].at # "clearing"
        PROVE  UsersKnown' /\ UsersOnce' /\ CopiesNew'
    <3>1. UsersKnown /\ UsersOnce /\ CopiesNew
      BY <2>1 DEF IInv, UsersInv
    <3>2. UsersKnown'
      BY <1>2, <1>9, <1>11, <3>1 DEF UsersKnown, UsersOf
    <3>3. UsersOnce'
      BY <1>2, <1>11, <3>1 DEF UsersOnce, UsersOf
    <3>4. CopiesNew'
      <4>. SUFFICES ASSUME tasks'["ui"].at = "copying", NEW i \in ActiveSlots(ues'),
                           i >= tasks'["ui"].from, ues'[i].rnti \notin crossed',
                           ues'[i].rnti \in UsersOf(users)
                    PROVE  FALSE
        BY <1>2 DEF CopiesNew, UsersOf
      <4>1. Rebuilding /\ tasks'["ui"] = tasks["ui"]
        BY <1>8 DEF Rebuilding
      <4>2. ues'[i].rnti \notin crossed \cup {rnti}
        BY <1>11, <4>1
      <4>3. i \in ActiveSlots(ues) /\ ues'[i] = ues[i]
        BY <1>7, <4>2 DEF ActiveSlots
      <4>. QED
        BY <3>1, <4>1, <4>2, <4>3 DEF CopiesNew
    <3>. QED
      BY <3>2, <3>3, <3>4
  <2>. QED
    BY <1>6, <1>8, <1>10, <2>1 DEF UsersInv, Coherent
<1>13. tasks'["ui"].at = "copying" => tasks'["ui"].to <= tasks'["ui"].from
  BY <1>8 DEF IInv, SchedTypeOK
<1>14. ran' \in BOOLEAN /\ IsUserTable(users')
  BY <1>2, <1>4, <1>10 DEF IInv, SchedTypeOK
<1>. QED
  BY <1>6, <1>8, <1>10, <1>12, <1>13, <1>14, TablesIInv

(* The read of an RNTI changes no table. *)
LEMMA CallRanIInv ==
    ASSUME IInv, NEW th \in Adders, CallRan(th)
    PROVE  IInv'
<1>. DEFINE t == IF ran THEN Joining(ues[tasks[th].slot].rnti) ELSE Idle
<1>1. /\ tasks[th].at = "added"
      /\ tasks' = [tasks EXCEPT ![th] = t]
      /\ UNCHANGED <<ues, ran, users, frame, history>>
  BY DEF CallRan
<1>2. th \in Threads /\ tasks \in [Threads -> Tasks] /\ IsTable(ues)
  BY TaskTypes DEF IInv, SchedTypeOK
<1>3. t \in Tasks /\ t.at \in {"joining", "idle"}
  <2>1. tasks[th].slot \in Slots
    BY <1>1, <1>2, TaskTypes
  <2>2. ues[tasks[th].slot].rnti \in Rntis
    BY <1>2, <2>1 DEF IsTable, UE
  <2>. QED
    BY <2>2, TaskTypes DEF Joining, Idle
<1>. HIDE DEF t
<1>4. /\ tasks' \in [Threads -> Tasks]
      /\ tasks'["ui"].at = "copying" => tasks'["ui"] = tasks["ui"]
      /\ tasks'["ui"].at = "clearing" <=> tasks["ui"].at = "clearing"
  BY <1>1, <1>2, <1>3, TaskTypes
<1>5. LeavingRntis \subseteq LeavingRntis'
  BY <1>1, <1>2, LeaversStay
<1>6. SchedTypeOK'
  BY <1>1, <1>4 DEF IInv, SchedTypeOK, IsTable, IsUserTable, frame, history
<1>7. UsersInv'
  BY <1>1, <1>4, <1>5
  DEF IInv, UsersInv, UsersKnown, UsersOnce, CopiesNew, Coherent, UsersOf, Attached, ActiveSlots,
      history
<1>8. Closer' /\ PickedCloser'
  BY <1>1 DEF IInv, Closer, PickedCloser, frame, history
<1>. QED
  BY <1>6, <1>7, <1>8 DEF IInv

(* ran_add_user leaves the table alone or writes one free slot; the user   *)
(* was in none.                                                            *)
LEMMA RanAddUserStep ==
    ASSUME NEW u, IsUserTable(u), NEW r \in Rntis
    PROVE  \/ RanAddUser(u, r) = u
           \/ /\ r \notin UsersOf(u)
              /\ \E f \in RanSlots : u[f] = NoRnti /\ RanAddUser(u, r) = [u EXCEPT ![f] = r]
<1>1. CASE RanHolding(u, r) # {} \/ RanFree(u) = {}
  BY <1>1 DEF RanAddUser
<1>2. CASE RanHolding(u, r) = {} /\ RanFree(u) # {}
  <2>1. RanFree(u) \in SUBSET Nat
    BY RanSlotsAreNat DEF RanFree
  <2>2. Min(RanFree(u)) \in RanSlots /\ u[Min(RanFree(u))] = NoRnti
    BY <1>2, <2>1, MinIsLeast DEF RanFree
  <2>3. r \notin UsersOf(u)
    BY <1>2 DEF RanHolding, UsersOf
  <2>. QED
    BY <1>2, <2>2, <2>3 DEF RanAddUser
<1>. QED
  BY <1>1, <1>2

(* ran_rem_user blanks a slot of the user, if there is one. *)
LEMMA RanRemUserStep ==
    ASSUME NEW u, IsUserTable(u), NEW r \in Rntis \ {NoRnti}
    PROVE  \/ RanRemUser(u, r) = u /\ r \notin UsersOf(u)
           \/ \E f \in RanSlots : u[f] = r /\ RanRemUser(u, r) = [u EXCEPT ![f] = NoRnti]
<1>1. CASE RanHolding(u, r) = {}
  BY <1>1 DEF RanRemUser, RanHolding, UsersOf
<1>2. CASE RanHolding(u, r) # {}
  <2>1. RanHolding(u, r) \in SUBSET Nat
    BY RanSlotsAreNat DEF RanHolding
  <2>2. Min(RanHolding(u, r)) \in RanSlots /\ u[Min(RanHolding(u, r))] = r
    BY <1>2, <2>1, MinIsLeast DEF RanHolding
  <2>. QED
    BY <1>2, <2>2 DEF RanRemUser
<1>. QED
  BY <1>1, <1>2

LEMMA JoinIInv ==
    ASSUME IInv, NEW th \in Adders, Join(th)
    PROVE  IInv'
<1>. DEFINE rnti == tasks[th].rnti
            met == IF Rebuilding \/ rnti \notin RntisOf(ues) THEN {rnti} ELSE {}
<1>1. /\ tasks[th].at = "joining"
      /\ tasks' = [tasks EXCEPT ![th] = Idle]
      /\ users' = RanAddUser(users, rnti)
      /\ TrackUsers(met)
      /\ ues' = ues /\ ran' = ran /\ UNCHANGED frame
  BY DEF Join
<1>2. /\ th \in Threads
      /\ rnti \in Rntis
      /\ tasks \in [Threads -> Tasks]
      /\ tasks' \in [Threads -> Tasks]
      /\ tasks'["ui"].at = "copying" => tasks' ["ui"] = tasks["ui"]
      /\ tasks'["ui"].at = "clearing" <=> tasks["ui"].at = "clearing"
  BY <1>1, TaskTypes DEF IInv, SchedTypeOK, Idle
<1>3. met \in SUBSET Rntis /\ IsTable(ues) /\ IsUserTable(users) /\ Coherent(ues, Pcis)
  BY <1>2 DEF IInv, SchedTypeOK, UsersInv
<1>4. rnti \in met \/ (~Rebuilding /\ rnti \in Attached \cup {NoRnti})
  <2>1. ASSUME rnti \in RntisOf(ues)
        PROVE  rnti \in Attached \cup {NoRnti}
    BY <1>2, <2>1 DEF RntisOf, Attached, ActiveSlots
  <2>. QED
    BY <2>1
<1>. HIDE DEF rnti, met
<1>5. LeavingRntis \subseteq LeavingRntis' /\ Attached' = Attached
  BY <1>1, <1>2, LeaversStay DEF Attached
<1>6. \/ users' = users
      \/ /\ rnti \notin UsersOf(users)
         /\ \E f \in RanSlots : users[f] = NoRnti /\ users' = [users EXCEPT ![f] = rnti]
  BY <1>1, <1>2, <1>3, RanAddUserStep
<1>7. IsUserTable(users')
  BY <1>2, <1>3, <1>6 DEF IsUserTable
<1>8. \A r \in UsersOf(users') : r \in crossed' <=> r \in crossed \cup met
  BY <1>1, <1>3, TrackedCrossed
<1>9. UsersOf(users') \subseteq UsersOf(users) \cup {rnti} /\ NoRnti \notin UsersOf(users')
  BY <1>3, <1>6 DEF UsersOf, IsUserTable
<1>10. UsersInv'
  <2>1. ASSUME ran, tasks["ui"].at # "clearing"
        PROVE  UsersKnown' /\ UsersOnce' /\ CopiesNew'
    <3>1. UsersKnown /\ UsersOnce /\ CopiesNew
      BY <2>1 DEF IInv, UsersInv
    <3>2. UsersKnown'
      BY <1>4, <1>5, <1>8, <1>9, <3>1 DEF UsersKnown
    <3>3. UsersOnce'
      <4>. SUFFICES ASSUME NEW j \in RanSlots, NEW k \in RanSlots, users'[j] = users'[k],
                           users'[j] \notin crossed' \cup {NoRnti}
                    PROVE  j = k
        BY DEF UsersOnce
      <4>1. users'[j] \in UsersOf(users') /\ users'[j] \notin crossed
        BY <1>8 DEF UsersOf
      <4>2. CASE users' = users
        BY <3>1, <4>1, <4>2 DEF UsersOnce
      <4>3. ASSUME rnti \notin UsersOf(users), NEW f \in RanSlots,
                   users' = [users EXCEPT ![f] = rnti]
            PROVE  j = k
        BY <1>2, <1>3, <3>1, <4>1, <4>3 DEF UsersOnce, UsersOf, IsUserTable
      <4>. QED
        BY <1>6, <4>2, <4>3
    <3>4. CopiesNew'
      <4>. SUFFICES ASSUME tasks'["ui"].at = "copying", NEW i \in ActiveSlots(ues),
                           i >= tasks'["ui"].from, ues[i].rnti \notin crossed',
                           ues[i].rnti \in UsersOf(users')
                    PROVE  FALSE
        BY <1>1 DEF CopiesNew
      <4>1. Rebuilding /\ tasks'["ui"] = tasks["ui"]
        BY <1>2 DEF Rebuilding
      <4>2. ues[i].rnti \notin crossed \cup {rnti}
        BY <1>4, <1>8, <4>1
      <4>. QED
        BY <1>9, <3>1, <4>1, <4>2 DEF CopiesNew
    <3>. QED
      BY <3>2, <3>3, <3>4
  <2>. QED
    BY <1>1, <1>2, <1>3, <2>1 DEF UsersInv, Coherent
<1>11. tasks'["ui"].at = "copying" => tasks'["ui"].to <= tasks'["ui"].from
  BY <1>2 DEF IInv, SchedTypeOK
<1>12. IsTable(ues') /\ ran' \in BOOLEAN
  BY <1>1, <1>3 DEF IInv, SchedTypeOK
<1>. QED
  BY <1>1, <1>2, <1>3, <1>7, <1>10, <1>11, <1>12, TablesIInv

LEMMA DetachIInv ==
    ASSUME IInv, NEW th \in Removers, Detach(th)
    PROVE  IInv'
<1>1. PICK i \in ActiveSlots(ues) :
         /\ ues' = RemUE(ues, ues[i].rnti)
         /\ tasks' = [tasks EXCEPT ![th] = Leaving(ues[i].rnti)]
  BY DEF Detach
<1>. DEFINE r == ues[i].rnti
<1>2. IsTable(ues) /\ IsUserTable(users) /\ Coherent(ues, Pcis) /\ r \in Rntis \ {NoRnti}
  BY DEF IInv, SchedTypeOK, UsersInv, ActiveSlots, IsTable, UE
<1>. HIDE DEF r
<1>3. IsTable(ues') /\ Coherent(ues', Pcis)
  BY <1>1, <1>2, RemUEType, RemUECoherent DEF r
<1>4. \A k \in Slots : ues'[k] = ues[k] \/ (ues[k].rnti = r /\ ues'[k] = FreeSlot)
  BY <1>1, <1>2, RemUESlots DEF r
<1>5. Attached \ {r} \subseteq Attached'
  BY <1>4 DEF Attached, ActiveSlots
<1>6. /\ th \in Threads
      /\ tasks[th] = Idle
      /\ tasks \in [Threads -> Tasks]
      /\ tasks' = [tasks EXCEPT ![th] = Leaving(r)]
      /\ tasks' \in [Threads -> Tasks]
      /\ tasks'["ui"].at = "copying" => tasks' ["ui"] = tasks["ui"]
      /\ tasks'["ui"].at = "clearing" <=> tasks["ui"].at = "clearing"
  <2>1. th \in Threads /\ tasks[th] = Idle /\ tasks \in [Threads -> Tasks]
    BY TaskTypes DEF Detach, Free, IInv, SchedTypeOK
  <2>2. tasks' = [tasks EXCEPT ![th] = Leaving(r)] /\ Leaving(r) \in Tasks
    BY <1>1, <1>2, TaskTypes DEF r
  <2>3. Leaving(r).at = "leaving" /\ Idle.at = "idle"
    BY DEF Leaving, Idle
  <2>4. tasks'["ui"] = tasks["ui"] \/ (th = "ui" /\ tasks'["ui"] = Leaving(r))
    BY <2>1, <2>2, TaskTypes
  <2>. QED
    BY <2>1, <2>2, <2>3, <2>4
<1>7. LeavingRntis \cup {r} \subseteq LeavingRntis'
  <2>1. tasks[th].at # "leaving"
    BY <1>6 DEF Idle
  <2>2. LeavingRntis \subseteq LeavingRntis'
    BY <1>6, <2>1, LeaversStay
  <2>3. tasks'[th].at = "leaving" /\ tasks'[th].rnti = r
    BY <1>6 DEF Leaving
  <2>. QED
    BY <1>6, <2>2, <2>3 DEF LeavingRntis
<1>8. UNCHANGED <<config, ran, users, frame, history>>
  BY DEF Detach
<1>9. UsersInv'
  <2>1. ASSUME UsersKnown, UsersOnce, CopiesNew
        PROVE  UsersKnown' /\ UsersOnce' /\ CopiesNew'
    <3>1. UsersKnown'
      BY <1>5, <1>7, <1>8, <2>1 DEF UsersKnown, UsersOf, history
    <3>2. UsersOnce'
      BY <1>8, <2>1 DEF UsersOnce, history
    <3>3. CopiesNew'
      BY <1>4, <1>6, <1>8, <2>1 DEF CopiesNew, ActiveSlots, FreeSlot, UsersOf, history
    <3>. QED
      BY <3>1, <3>2, <3>3
  <2>. QED
    BY <1>3, <1>6, <1>8, <2>1 DEF IInv, UsersInv, Coherent
<1>10. SchedTypeOK'
  BY <1>3, <1>6, <1>8 DEF IInv, SchedTypeOK, frame, history, IsTable, IsUserTable
<1>11. Closer' /\ PickedCloser'
  BY <1>8 DEF IInv, Closer, PickedCloser, frame, history
<1>. QED
  BY <1>9, <1>10, <1>11 DEF IInv

(* A removal that is through took the user out of its one slot. *)
LEMMA LeaveIInv ==
    ASSUME IInv, NEW th \in Removers, Leave(th)
    PROVE  IInv'
<1>. DEFINE r == tasks[th].rnti
<1>1. /\ tasks[th].at = "leaving"
      /\ tasks' = [tasks EXCEPT ![th] = Idle]
      /\ users' = IF ran THEN RanRemUser(users, r) ELSE users
      /\ TrackUsers({})
      /\ ues' = ues /\ ran' = ran /\ UNCHANGED frame
  BY DEF Leave
<1>2. /\ th \in Threads
      /\ r \in Rntis \ {NoRnti}
      /\ tasks \in [Threads -> Tasks]
      /\ tasks' \in [Threads -> Tasks]
      /\ tasks'["ui"].at = "copying" => tasks' ["ui"] = tasks["ui"]
      /\ tasks'["ui"].at = "clearing" <=> tasks["ui"].at = "clearing"
  BY <1>1, TaskTypes DEF IInv, SchedTypeOK, Idle
<1>. HIDE DEF r
<1>3. IsTable(ues) /\ IsUserTable(users) /\ Coherent(ues, Pcis)
  BY DEF IInv, SchedTypeOK, UsersInv
<1>4. LeavingRntis \ {r} \subseteq LeavingRntis' /\ Attached' = Attached
  BY <1>1, <1>2 DEF LeavingRntis, Attached, r
<1>5. ran => \/ users' = users /\ r \notin UsersOf(users)
             \/ \E f \in RanSlots : users[f] = r /\ users' = [users EXCEPT ![f] = NoRnti]
  BY <1>1, <1>2, <1>3, RanRemUserStep
<1>6. NoRnti \in Rntis
  BY SlotsAssumption DEF NoRnti, Rntis
<1>7. IsUserTable(users')
  BY <1>1, <1>3, <1>5, <1>6 DEF IsUserTable
<1>8. \A q \in UsersOf(users') : q \in crossed' <=> q \in crossed
  BY <1>1, TrackedCrossed
<1>9. ran => UsersOf(users') \subseteq UsersOf(users)
  BY <1>3, <1>5 DEF UsersOf, IsUserTable
<1>10. UsersInv'
  <2>1. ASSUME ran, tasks["ui"].at # "clearing"
        PROVE  UsersKnown' /\ UsersOnce' /\ CopiesNew'
    <3>1. UsersKnown /\ UsersOnce /\ CopiesNew
      BY <2>1 DEF IInv, UsersInv
    <3>2. r \in crossed \/ r \notin UsersOf(users')
      BY <1>2, <1>3, <1>5, <2>1, <3>1 DEF UsersOnce, UsersOf, IsUserTable
    <3>3. UsersKnown'
      BY <1>4, <1>8, <1>9, <2>1, <3>1, <3>2 DEF UsersKnown
    <3>4. UsersOnce'
      <4>. SUFFICES ASSUME NEW j \in RanSlots, NEW k \in RanSlots, users'[j] = users'[k],
                           users'[j] \notin crossed' \cup {NoRnti}
                    PROVE  j = k
        BY DEF UsersOnce
      <4>1. users'[j] \in UsersOf(users') /\ users'[j] \notin crossed
        BY <1>8 DEF UsersOf
      <4>2. users'[j] = users[j] /\ users'[k] = users[k]
        BY <1>3, <1>5, <2>1 DEF IsUserTable
      <4>. QED
        BY <3>1, <4>1, <4>2 DEF UsersOnce
    <3>5. CopiesNew'
      BY <1>1, <1>2, <1>8, <1>9, <2>1, <3>1 DEF CopiesNew
    <3>. QED
      BY <3>3, <3>4, <3>5
  <2>. QED
    BY <1>1, <1>2, <1>3, <2>1 DEF UsersInv, Coherent
<1>11. tasks'["ui"].at = "copying" => tasks'["ui"].to <= tasks'["ui"].from
  BY <1>2 DEF IInv, SchedTypeOK
<1>12. IsTable(ues') /\ ran' \in BOOLEAN /\ {} \in SUBSET Rntis
  BY <1>1, <1>3 DEF IInv, SchedTypeOK
<1>. QED
  BY <1>1, <1>2, <1>7, <1>10, <1>11, <1>12, TablesIInv

LEMMA ToggleRanIInv ==
    ASSUME IInv, ToggleRan
    PROVE  IInv'
<1>1. /\ UNCHANGED <<config, ues, users, frame, history>>
      /\ ran' = ~ran
      /\ tasks["ui"] = Idle
      /\ tasks' = IF ran' THEN [tasks EXCEPT !["ui"] = Clearing] ELSE tasks
  BY DEF ToggleRan, Free
<1>2. tasks \in [Threads -> Tasks]
  BY DEF IInv, SchedTypeOK
<1>3. /\ tasks' \in [Threads -> Tasks]
      /\ tasks'["ui"].at # "copying"
      /\ ran' => tasks'["ui"].at = "clearing"
  BY <1>1, <1>2, TaskTypes DEF Clearing, Idle
<1>4. SchedTypeOK'
  BY <1>1, <1>3 DEF IInv, SchedTypeOK, frame, history, IsTable, IsUserTable
<1>5. UsersInv'
  BY <1>1, <1>3 DEF IInv, UsersInv, Coherent
<1>6. Closer' /\ PickedCloser'
  BY <1>1 DEF IInv, Closer, PickedCloser, frame, history
<1>. QED
  BY <1>4, <1>5, <1>6 DEF IInv

LEMMA ClearUsersIInv ==
    ASSUME IInv, ClearUsers
    PROVE  IInv'
<1>1. /\ tasks' = [tasks EXCEPT !["ui"] = Copying(0, 0)]
      /\ users' = [j \in RanSlots |-> NoRnti]
      /\ TrackUsers({})
      /\ ues' = ues /\ ran' = ran /\ UNCHANGED frame
  BY DEF ClearUsers
<1>2. 0 \in RanSlots /\ NoRnti \in Rntis
  BY RanAssumption, SlotsAssumption DEF RanSlots, NoRnti, Rntis
<1>3. tasks \in [Threads -> Tasks] /\ IsTable(ues) /\ Coherent(ues, Pcis) /\ ran \in BOOLEAN
  BY DEF IInv, SchedTypeOK, UsersInv
<1>4. tasks' \in [Threads -> Tasks] /\ tasks'["ui"] = Copying(0, 0)
  BY <1>1, <1>2, <1>3, TaskTypes
<1>5. tasks'["ui"].to <= tasks'["ui"].from
  BY <1>4 DEF Copying
<1>6. IsUserTable(users') /\ UsersOf(users') = {}
  BY <1>1, <1>2 DEF IsUserTable, UsersOf
<1>7. UsersKnown' /\ CopiesNew'
  BY <1>6 DEF UsersKnown, CopiesNew
<1>8. UsersOnce'
  BY <1>1 DEF UsersOnce
<1>9. UsersInv'
  BY <1>1, <1>3, <1>7, <1>8 DEF UsersInv, Coherent
<1>10. IsTable(ues') /\ ran' \in BOOLEAN /\ {} \in SUBSET Rntis
  BY <1>1, <1>3
<1>. QED
  BY <1>1, <1>4, <1>5, <1>6, <1>9, <1>10, TablesIInv

(* The UE copied was not in the table, and none of those left is the same. *)
LEMMA CopyUserIInv ==
    ASSUME IInv, CopyUser
    PROVE  IInv'
<1>. DEFINE i == tasks["ui"].from
            j == tasks["ui"].to
            r == ues[i].rnti
            n == IF r = NoRnti THEN j ELSE j + 1
<1>1. /\ tasks["ui"].at = "copying"
      /\ users' = IF r = NoRnti THEN users ELSE [users EXCEPT ![j] = r]
      /\ tasks' = [tasks EXCEPT !["ui"] = IF i + 1 = RanMax THEN Idle ELSE Copying(i + 1, n)]
      /\ TrackUsers({})
      /\ ues' = ues /\ ran' = ran /\ UNCHANGED frame
  BY DEF CopyUser
<1>2. /\ tasks \in [Threads -> Tasks] /\ IsTable(ues) /\ IsUserTable(users)
      /\ Coherent(ues, Pcis) /\ ran \in BOOLEAN
  BY DEF IInv, SchedTypeOK, UsersInv
<1>3. i \in RanSlots /\ j \in RanSlots /\ j <= i
  BY <1>1, <1>2, TaskTypes DEF IInv, SchedTypeOK
<1>4. i \in Slots /\ r \in Rntis
  BY <1>2, <1>3, RanSlotsAreNat DEF IsTable, UE
<1>. HIDE DEF i, j, r
<1>5. i + 1 # RanMax => i + 1 \in RanSlots /\ n \in RanSlots /\ n <= i + 1
  BY <1>3, RanAssumption, SlotsAssumption DEF RanSlots
<1>. HIDE DEF n
<1>6. \/ tasks'["ui"] = Idle
      \/ i + 1 # RanMax /\ tasks'["ui"] = Copying(i + 1, n)
  BY <1>1, <1>2, TaskTypes
<1>7. tasks' \in [Threads -> Tasks]
  <2>1. (IF i + 1 = RanMax THEN Idle ELSE Copying(i + 1, n)) \in Tasks
    BY <1>5, TaskTypes
  <2>. QED
    BY <1>1, <1>2, <2>1
<1>8. tasks'["ui"].at = "copying" =>
          tasks'["ui"].from = i + 1 /\ tasks'["ui"].to <= tasks'["ui"].from
  BY <1>5, <1>6 DEF Idle, Copying
<1>9. IsUserTable(users')
  BY <1>1, <1>2, <1>3, <1>4 DEF IsUserTable
<1>10. LeavingRntis \subseteq LeavingRntis' /\ Attached' = Attached
  BY <1>1, <1>2, TaskTypes, LeaversStay DEF Attached
<1>11. \A q \in UsersOf(users') : q \in crossed' <=> q \in crossed
  BY <1>1, TrackedCrossed
<1>12. UsersOf(users') \subseteq UsersOf(users) \cup ({r} \ {NoRnti})
  BY <1>1, <1>2 DEF UsersOf, IsUserTable
<1>13. r # NoRnti => i \in ActiveSlots(ues) /\ r \in Attached
  BY <1>4 DEF ActiveSlots, Attached, r
<1>14. UsersInv'
  <2>1. ASSUME ran
        PROVE  UsersKnown' /\ UsersOnce' /\ CopiesNew'
    <3>1. UsersKnown /\ UsersOnce /\ CopiesNew
      BY <1>1, <2>1 DEF IInv, UsersInv
    <3>2. UsersKnown'
      BY <1>10, <1>11, <1>12, <1>13, <3>1 DEF UsersKnown
    <3>3. r \notin crossed \cup {NoRnti} => r \notin UsersOf(users)
      <4>1. i \in Int
        BY <1>3, RanSlotsAreNat
      <4>. QED
        BY <1>1, <1>13, <3>1, <4>1 DEF CopiesNew, i, r
    <3>4. UsersOnce'
      <4>. SUFFICES ASSUME NEW a \in RanSlots, NEW b \in RanSlots, users'[a] = users'[b],
                           users'[a] \notin crossed' \cup {NoRnti}
                    PROVE  a = b
        BY DEF UsersOnce
      <4>1. users'[a] \in UsersOf(users') /\ users'[a] \notin crossed
        BY <1>11 DEF UsersOf
      <4>2. CASE r = NoRnti
        BY <1>1, <3>1, <4>1, <4>2 DEF UsersOnce
      <4>3. CASE r # NoRnti
        BY <1>1, <1>2, <1>3, <3>1, <3>3, <4>1, <4>3 DEF UsersOnce, UsersOf, IsUserTable
      <4>. QED
        BY <4>2, <4>3
    <3>5. CopiesNew'
      <4>. SUFFICES ASSUME tasks'["ui"].at = "copying", NEW k \in ActiveSlots(ues),
                           k >= i + 1, ues[k].rnti \notin crossed',
                           ues[k].rnti \in UsersOf(users')
                    PROVE  FALSE
        BY <1>1, <1>8 DEF CopiesNew
      <4>1. k \in Int /\ i \in Int /\ k # i /\ k >= i
        BY <1>3, RanSlotsAreNat, SlotsAreNat DEF ActiveSlots
      <4>2. ues[k].rnti # r
        BY <1>2, <1>4, <4>1 DEF Coherent, ActiveSlots, r
      <4>3. ues[k].rnti \in UsersOf(users) /\ ues[k].rnti \notin crossed
        BY <1>11, <1>12, <4>2
      <4>. QED
        BY <1>1, <3>1, <4>1, <4>3 DEF CopiesNew, i
    <3>. QED
      BY <3>2, <3>4, <3>5
  <2>. QED
    BY <1>1, <1>2, <2>1 DEF UsersInv, Coherent
<1>15. IsTable(ues') /\ ran' \in BOOLEAN /\ {} \in SUBSET Rntis
  BY <1>1, <1>2
<1>. QED
  BY <1>1, <1>7, <1>8, <1>9, <1>14, <1>15, TablesIInv

LEMMA UsersUntouched ==
    ASSUME UsersInv, UNCHANGED <<tables, history>>
    PROVE  UsersInv'
BY DEF UsersInv, Coherent, UsersKnown, UsersOnce, CopiesNew, UsersOf, Attached, LeavingRntis,
       tables, history

(* What touches neither the tables nor the waits, and picks nobody. *)
LEMMA TurnIInv ==
    ASSUME IInv, UNCHANGED <<tables, last, history>>, subframe' \in 0 .. SubFrames - 1,
           main' \in Mains, main'.at # "picked"
    PROVE  IInv'
<1>1. UsersInv'
  BY UsersUntouched DEF IInv
<1>2. SchedTypeOK'
  BY DEF IInv, SchedTypeOK, IsTable, IsUserTable, tables, history
<1>3. Closer' /\ PickedCloser'
  BY DEF IInv, Closer, PickedCloser, tables, history
<1>. QED
  BY <1>1, <1>2, <1>3 DEF IInv

LEMMA SubframeType ==
    ASSUME IInv
    PROVE  subframe \in 0 .. SubFrames - 1 /\ NextSubframe \in 0 .. SubFrames - 1
BY MacAssumption DEF IInv, SchedTypeOK, NextSubframe

(* A turn of Fair PRB Split leaves the users alone. *)
LEMMA FairSplitIInv ==
    ASSUME IInv, FairSplitTurn \/ Overrun
    PROVE  IInv'
<1>1. subframe' \in 0 .. SubFrames - 1
  BY SubframeType DEF FairSplitTurn, Overrun
<1>2. main' \in {Between, Overran}
  BY DEF FairSplitTurn, Overrun
<1>3. main' \in Mains /\ main'.at # "picked"
  BY <1>2 DEF Mains, Between, Overran
<1>. QED
  BY <1>1, <1>3, TurnIInv DEF FairSplitTurn, Overrun

(* The user picked is the first on the way, so all others get closer. *)
LEMMA RanTurnIInv ==
    ASSUME IInv, RanTurn
    PROVE  IInv'
<1>1. subframe' \in 0 .. SubFrames - 1
  BY SubframeType DEF RanTurn
<1>2. UNCHANGED <<tables, last, history>> /\ last \in RanSlots
  BY DEF RanTurn, IInv, SchedTypeOK
<1>. DEFINE u == NextUser(users, last)
<1>3. \/ main' = Between
      \/ main' = Picked(u) /\ Served(users) # {}
  BY DEF RanTurn
<1>4. CASE main' = Between
  <2>1. main' \in Mains /\ main'.at # "picked"
    BY <1>4 DEF Mains, Between
  <2>. QED
    BY <1>1, <1>2, <2>1, TurnIInv
<1>5. CASE main' = Picked(u) /\ Served(users) # {}
  <2>1. u \in RanSlots /\ \A k \in Served(users) : Walk(last, u) <= Walk(last, k)
    BY <1>2, <1>5, NextUserFirst DEF Served
  <2>. HIDE DEF u
  <2>2. main' \in Mains
    BY <1>5, <2>1 DEF Mains
  <2>3. PickedCloser'
    <3>1. ASSUME NEW j \in RanSlots, j # u, users[j] # NoRnti
          PROVE  Walk(u, j) < Walk(last, j)
      <4>1. Walk(last, u) <= Walk(last, j) /\ Walk(last, u) # Walk(last, j)
        BY <1>2, <2>1, <3>1, WalkInjective DEF Served
      <4>2. Walk(last, u) \in Nat /\ Walk(last, j) \in Nat
        BY <1>2, <2>1, WalkRange
      <4>. QED
        BY <1>2, <2>1, <4>1, <4>2, WalkOn
    <3>2. main'.user = u
      BY <1>5 DEF Picked
    <3>. QED
      BY <1>2, <3>1, <3>2 DEF PickedCloser, tables
  <2>4. UsersInv'
    BY <1>2, UsersUntouched DEF IInv
  <2>5. SchedTypeOK' /\ Closer'
    BY <1>1, <1>2, <2>2 DEF IInv, SchedTypeOK, Closer, IsTable, IsUserTable, tables, history
  <2>. QED
    BY <2>3, <2>4, <2>5 DEF IInv
<1>. QED
  BY <1>3, <1>4, <1>5

(* Which slot is filled, from which group on. *)
LEMMA FillTypes ==
    ASSUME IInv, main.at \in {"picked", "filling"}
    PROVE  /\ main.user \in RanSlots /\ main.group \in Groups
           /\ main.at = "picked" => main.group = 0
<1>1. 0 \in Groups
  BY MacAssumption DEF Groups
<1>. QED
  BY <1>1 DEF IInv, SchedTypeOK, Mains, Between, Overran, Picked, Filling

LEMMA FilledOn ==
    ASSUME NEW u \in RanSlots, NEW g \in Groups, Fill(u, g)
    PROVE  main' \in Mains /\ main'.at # "picked"
<1>1. g + 1 # GroupMax => g + 1 \in Groups
  BY MacAssumption DEF Groups
<1>2. main' = Between \/ (g + 1 \in Groups /\ main' = Filling(u, g + 1))
  BY <1>1 DEF Fill
<1>. QED
  BY <1>2 DEF Mains, Between, Filling

(* One more wait is paid for by the shorter walk. *)
LEMMA RanServeIInv ==
    ASSUME IInv, RanServe
    PROVE  IInv'
<1>. DEFINE u == main.user
<1>1. main.at = "picked" /\ u \in RanSlots /\ 0 \in Groups
  BY FillTypes DEF RanServe
<1>2. UNCHANGED <<tables, subframe, crossed>> /\ last' = u
  BY DEF RanServe
<1>3. main' \in Mains /\ main'.at # "picked"
  BY <1>1, FilledOn DEF RanServe
<1>4. waits' = [j \in RanSlots |-> IF j = u \/ users[j] = NoRnti THEN 0 ELSE waits[j] + 1]
  BY DEF RanServe
<1>5. SchedTypeOK'
  <2>1. waits' \in [RanSlots -> Nat]
    BY <1>4 DEF IInv, SchedTypeOK
  <2>. QED
    BY <1>1, <1>2, <1>3, <2>1 DEF IInv, SchedTypeOK, IsTable, IsUserTable, tables
<1>6. Closer'
  <2>1. ASSUME NEW j \in RanSlots, users[j] # NoRnti
        PROVE  waits'[j] + Walk(u, j) <= RanMax
    <3>1. Walk(u, j) \in 1 .. RanMax /\ (j # u => Walk(u, j) < RanMax)
      BY <1>1, WalkRange
    <3>2. waits[j] \in Nat /\ RanMax \in Nat /\ last \in RanSlots
      BY RanAssumption, SlotsAssumption DEF IInv, SchedTypeOK
    <3>3. CASE j = u
      BY <1>4, <3>1, <3>2, <3>3
    <3>4. CASE j # u
      <4>1. waits'[j] = waits[j] + 1
        BY <1>4, <2>1, <3>4
      <4>2. Walk(last, j) \in Nat
        BY <3>2, WalkRange
      <4>3. waits[j] + Walk(last, j) <= RanMax
        BY <2>1 DEF IInv, Closer
      <4>4. waits[j] = 0 \/ Walk(u, j) < Walk(last, j)
        BY <1>1, <2>1, <3>4 DEF IInv, PickedCloser
      <4>. QED
        BY <3>1, <3>2, <3>4, <4>1, <4>2, <4>3, <4>4
    <3>. QED
      BY <3>3, <3>4
  <2>. QED
    BY <1>2, <2>1 DEF Closer, tables
<1>7. PickedCloser'
  BY <1>3 DEF PickedCloser
<1>8. UsersInv'
  BY <1>2 DEF IInv, UsersInv, Coherent, UsersKnown, UsersOnce, CopiesNew, UsersOf, Attached,
              LeavingRntis, tables
<1>. QED
  BY <1>5, <1>6, <1>7, <1>8 DEF IInv

LEMMA RanFillIInv ==
    ASSUME IInv, RanFill
    PROVE  IInv'
<1>1. main' \in Mains /\ main'.at # "picked"
  BY FillTypes, FilledOn DEF RanFill
<1>. QED
  BY <1>1, SubframeType, TurnIInv DEF RanFill

LEMMA NextIInv == IInv /\ [Next]_vars => IInv'
<1>. SUFFICES ASSUME IInv, [Next]_vars PROVE IInv'
  OBVIOUS
<1>1. ASSUME UNCHANGED <<tables, frame, history>>
      PROVE  IInv'
  <2>1. SchedTypeOK'
    BY <1>1 DEF IInv, SchedTypeOK, IsTable, IsUserTable, tables, frame, history
  <2>2. UsersInv'
    BY <1>1, UsersUntouched DEF IInv
  <2>3. Closer' /\ PickedCloser'
    BY <1>1 DEF IInv, Closer, PickedCloser, tables, frame, history
  <2>. QED
    BY <2>1, <2>2, <2>3 DEF IInv
<1>2. CASE ConfigureCell
  BY <1>1, <1>2 DEF ConfigureCell
<1>3. CASE Started
  BY <1>1, <1>3 DEF Started
<1>4. CASE \E th \in Adders : Attach(th) \/ CallRan(th) \/ Join(th)
  BY <1>4, AttachIInv, CallRanIInv, JoinIInv
<1>5. CASE \E th \in Removers : Detach(th) \/ Leave(th)
  BY <1>5, DetachIInv, LeaveIInv
<1>6. CASE ToggleRan
  BY <1>6, ToggleRanIInv
<1>7. CASE ClearUsers
  BY <1>7, ClearUsersIInv
<1>8. CASE CopyUser
  BY <1>8, CopyUserIInv
<1>9. CASE FairSplitTurn \/ Overrun
  BY <1>9, FairSplitIInv
<1>10. CASE RanTurn
  BY <1>10, RanTurnIInv
<1>11. CASE RanServe
  BY <1>11, RanServeIInv
<1>12. CASE RanFill
  BY <1>12, RanFillIInv
<1>13. CASE UNCHANGED vars
  BY <1>1, <1>13 DEF vars
<1>. QED
  BY <1>2, <1>3, <1>4, <1>5, <1>6, <1>7, <1>8, <1>9, <1>10, <1>11, <1>12, <1>13 DEF Next

LEMMA IInvAlways == Spec => []IInv
BY InitIInv, NextIInv, PTL DEF Spec

-----------------------------------------------------------------------------
(* No user of the default slice waits longer than a round of the others:   *)
(* ran_user_rr_sched is fair for any number of user slots.                 *)
THEOREM WaitsAreBounded == Spec => []RanWaitBound
<1>1. IInv => RanWaitBound
  <2>. SUFFICES ASSUME IInv, NEW j \in RanSlots, users[j] # NoRnti
                PROVE  waits[j] < RanMax
    BY DEF RanWaitBound
  <2>1. Walk(last, j) \in 1 .. RanMax /\ waits[j] \in Nat /\ RanMax \in Nat
    BY WalkRange, RanAssumption, SlotsAssumption DEF IInv, SchedTypeOK
  <2>2. waits[j] + Walk(last, j) <= RanMax
    BY DEF IInv, Closer
  <2>. QED
    BY <2>1, <2>2
<1>. QED
  BY <1>1, IInvAlways, PTL

(* The cells. *)

IsCells(t) == t \in [CellSlots -> [pci : Pcis \cup {PciInvalid}, prb : 0 .. PrbMod - 1]]

(* g[n] is the sum of the PRBs of the first n cells. *)
IsSum(g, t) ==
    /\ g[0] = 0
    /\ \A n \in 1 .. CellMax : g[n] = g[n - 1] + t[n - 1].prb

(* What stack_add_cell needs to find: the cells are packed, and a slot     *)
(* without a PCI has no PRBs either.                                       *)
CellsInv ==
    /\ booting \in BOOLEAN
    /\ IsCells(cells)
    /\ nof \in 0 .. CellMax
    /\ prbMax \in 0 .. PrbMod - 1
    /\ \A c \in CellSlots : cells[c].pci = PciInvalid <=> c >= nof
    /\ \A c \in CellSlots : cells[c].pci = PciInvalid => cells[c].prb = 0
    /\ prbMax = PrbsOf[CellMax] % PrbMod

LEMMA MacNumbers ==
    /\ CellMax \in Nat \ {0}
    /\ PrbMod \in Nat \ {0}
    /\ 0 \in 0 .. PrbMod - 1
BY MacAssumption

(* The sum is what its recursive definition says. *)
LEMMA PrbsSum == IsCells(cells) => IsSum(PrbsOf, cells)
<1>. SUFFICES ASSUME IsCells(cells)
              PROVE  IsSum(PrbsOf, cells)
  OBVIOUS
<1>. DEFINE step == [n \in 1 .. CellMax |-> [x \in Nat |-> x + cells[n - 1].prb]]
<1>1. \A n \in 1 .. CellMax : cells[n - 1].prb \in Nat
  BY MacNumbers DEF IsCells, CellSlots
<1>2. step \in [1 .. CellMax -> [Nat -> Nat]]
  BY <1>1
<1>3. CellMax \in Nat /\ 0 \in Nat
  BY MacNumbers
<1>4. PICK f : Iterates(f, Nat, CellMax, 0, step)
  <2>. HIDE DEF step
  <2>. QED
    BY <1>2, <1>3, Iterated
<1>5. \A n \in 1 .. CellMax : f[n] = f[n - 1] + cells[n - 1].prb
  <2>. SUFFICES ASSUME NEW n \in 1 .. CellMax
                PROVE  f[n] = f[n - 1] + cells[n - 1].prb
    OBVIOUS
  <2>1. f[n - 1] \in Nat
    BY <1>3, <1>4 DEF Iterates
  <2>. QED
    BY <1>4, <2>1 DEF Iterates
<1>6. f = [n \in 0 .. CellMax |-> IF n = 0 THEN 0 ELSE f[n - 1] + cells[n - 1].prb]
  BY <1>3, <1>4, <1>5 DEF Iterates
<1>7. PrbsOf = [n \in 0 .. CellMax |-> IF n = 0 THEN 0 ELSE PrbsOf[n - 1] + cells[n - 1].prb]
  BY <1>6 DEF PrbsOf
<1>. QED
  BY <1>3, <1>7 DEF IsSum

LEMMA PrbsSumNext == IsCells(cells)' => IsSum(PrbsOf, cells)'
BY PrbsSum, PTL

(* When one cell gets its PRBs the sums grow by them, from that cell on. *)
LEMMA SumOneMore ==
    ASSUME NEW t, IsCells(t), NEW u, NEW g, IsSum(g, t), NEW h, IsSum(h, u),
           NEW f \in CellSlots, t[f].prb = 0, NEW prb \in Nat, u[f].prb = prb,
           \A c \in CellSlots \ {f} : u[c] = t[c]
    PROVE  g[CellMax] \in Nat /\ h[CellMax] = g[CellMax] + prb
<1>. DEFINE Right(n) == g[n] \in Nat /\ h[n] = g[n] + (IF n > f THEN prb ELSE 0)
            wrong == {n \in 0 .. CellMax : ~Right(n)}
<1>1. f \in 0 .. CellMax - 1 /\ CellMax \in Nat
  BY MacNumbers DEF CellSlots
<1>2. Right(0)
  BY <1>1 DEF IsSum
<1>3. ASSUME NEW n \in 1 .. CellMax, Right(n - 1)
      PROVE  Right(n)
  <2>1. n - 1 \in CellSlots /\ t[n - 1].prb \in Nat
    BY MacNumbers DEF CellSlots, IsCells
  <2>2. u[n - 1].prb = IF n - 1 = f THEN t[n - 1].prb + prb ELSE t[n - 1].prb
    BY <2>1
  <2>3. g[n] = g[n - 1] + t[n - 1].prb /\ h[n] = h[n - 1] + u[n - 1].prb
    BY DEF IsSum
  <2>. QED
    BY <1>1, <1>3, <2>1, <2>2, <2>3
<1>. HIDE DEF Right
<1>4. wrong = {}
  <2>. SUFFICES ASSUME wrong # {}
                PROVE  FALSE
    OBVIOUS
  <2>1. wrong \in SUBSET Nat
    OBVIOUS
  <2>2. PICK m \in wrong : \A n \in wrong : m <= n
    BY <2>1, LeastNatural
  <2>3. m \in 1 .. CellMax /\ ~Right(m)
    BY <1>1, <1>2, <2>2
  <2>4. m - 1 \in 0 .. CellMax /\ m - 1 \notin wrong
    BY <1>1, <2>2, <2>3
  <2>. QED
    BY <1>3, <2>3, <2>4
<1>5. Right(CellMax)
  BY <1>1, <1>4
<1>. QED
  BY <1>1, <1>5 DEF Right

LEMMA AddCellKeeps ==
    ASSUME CellsInv, NEW pci \in Pcis, NEW prb \in 0 .. PrbMod - 1, AddCell(pci, prb),
           booting' \in BOOLEAN
    PROVE  CellsInv'
<1>. DEFINE f == Min(FreeCells)
            new == [pci |-> pci, prb |-> prb]
<1>1. /\ cells' = [cells EXCEPT ![f] = new]
      /\ nof' = nof + 1
      /\ prbMax' = (prbMax + prb) % PrbMod
      /\ FreeCells # {}
  BY DEF AddCell
<1>2. FreeCells \in SUBSET Nat
  BY MacNumbers DEF FreeCells, CellSlots
<1>3. f \in FreeCells /\ \A c \in FreeCells : f <= c
  BY <1>1, <1>2, MinIsLeast
<1>. HIDE DEF f
<1>4. f = nof /\ f \in CellSlots
  <2>1. f \in CellSlots /\ f >= nof
    BY <1>3 DEF FreeCells, CellsInv
  <2>2. nof \in FreeCells
    BY <2>1, MacNumbers DEF FreeCells, CellsInv, CellSlots
  <2>3. f <= nof
    BY <1>3, <2>2
  <2>. QED
    BY <2>1, <2>3, MacNumbers DEF CellsInv, CellSlots
<1>5. nof' \in 0 .. CellMax
  BY <1>1, <1>4, MacNumbers DEF CellsInv, CellSlots
<1>6. pci # PciInvalid
  BY MacAssumption
<1>7. IsCells(cells)'
  BY <1>1, <1>4 DEF CellsInv, IsCells
<1>8. cells'[f] = new /\ \A c \in CellSlots \ {f} : cells'[c] = cells[c]
  BY <1>1, <1>4 DEF CellsInv, IsCells
<1>9. \A c \in CellSlots : cells'[c].pci = PciInvalid <=> c >= nof'
  BY <1>1, <1>4, <1>6, <1>8, MacNumbers DEF CellsInv, CellSlots
<1>10. \A c \in CellSlots : cells'[c].pci = PciInvalid => cells'[c].prb = 0
  BY <1>6, <1>8 DEF CellsInv
<1>11. PrbsOf[CellMax] \in Nat /\ PrbsOf'[CellMax] = PrbsOf[CellMax] + prb
  <2>1. cells[f].prb = 0
    BY <1>3 DEF FreeCells, CellsInv
  <2>2. prb \in Nat /\ cells'[f].prb = prb
    BY <1>8, MacNumbers
  <2>3. IsSum(PrbsOf, cells) /\ IsSum(PrbsOf', cells')
    BY <1>7, PrbsSum, PrbsSumNext DEF CellsInv, IsSum
  <2>4. IsCells(cells)
    BY DEF CellsInv
  <2>. QED
    BY <1>4, <1>8, <2>1, <2>2, <2>3, <2>4, SumOneMore
<1>12. prbMax' = PrbsOf'[CellMax] % PrbMod /\ prbMax' \in 0 .. PrbMod - 1
  <2>1. ((PrbsOf[CellMax] % PrbMod) + prb) % PrbMod = (PrbsOf[CellMax] + prb) % PrbMod
    <3>1. prb \in Int /\ PrbsOf[CellMax] \in Int
      BY <1>11, MacNumbers
    <3>. QED
      BY <3>1, MacNumbers, ModPlus, Zenon
  <2>2. prbMax' = PrbsOf'[CellMax] % PrbMod
    BY <1>1, <1>11, <2>1 DEF CellsInv
  <2>. QED
    BY <1>11, <2>2, MacNumbers
<1>. QED
  BY <1>5, <1>7, <1>9, <1>10, <1>12 DEF CellsInv

LEMMA CellsInvHolds == Spec => []CellsInv
<1>1. Init => CellsInv
  <2>. SUFFICES ASSUME Init
                PROVE  CellsInv
    OBVIOUS
  <2>1. IsCells(cells) /\ \A c \in CellSlots : cells[c] = NoCell
    BY MacNumbers DEF Init, IsCells, NoCell
  <2>2. \A n \in 1 .. CellMax : PrbsOf[n] = PrbsOf[n - 1] + cells[n - 1].prb
    BY <2>1, PrbsSum DEF IsSum
  <2>3. PrbsOf[CellMax] = 0
    <3>. DEFINE some == {n \in 0 .. CellMax : PrbsOf[n] # 0}
    <3>. SUFFICES ASSUME some # {}
                  PROVE  FALSE
      BY MacNumbers
    <3>1. some \in SUBSET Nat
      OBVIOUS
    <3>2. PICK m \in some : \A n \in some : m <= n
      BY <3>1, LeastNatural
    <3>3. m \in 1 .. CellMax
      BY <2>1, <3>2, PrbsSum DEF IsSum
    <3>4. m - 1 \in CellSlots /\ cells[m - 1].prb = 0
      BY <2>1, <3>3, MacNumbers DEF CellSlots, NoCell
    <3>5. PrbsOf[m - 1] # 0
      BY <2>2, <3>2, <3>3, <3>4
    <3>6. m - 1 \in some /\ ~(m <= m - 1)
      <4>1. m \in Int /\ m - 1 \in 0 .. CellMax
        BY <3>3, MacNumbers
      <4>. QED
        BY <3>5, <4>1
    <3>. QED
      BY <3>2, <3>6
  <2>. QED
    BY <2>1, <2>3, MacNumbers DEF Init, CellsInv, CellSlots, NoCell
<1>2. CellsInv /\ [Next]_vars => CellsInv'
  <2>. SUFFICES ASSUME CellsInv, [Next]_vars
                PROVE  CellsInv'
    OBVIOUS
  <2>1. ASSUME UNCHANGED <<cells, nof, prbMax>>, booting' \in BOOLEAN
        PROVE  CellsInv'
    BY <2>1 DEF CellsInv, IsCells, PrbsOf
  <2>2. CASE ConfigureCell
    <3>1. PICK pci \in Pcis, prb \in CellPrbs : AddCell(pci, prb)
      BY <2>2 DEF ConfigureCell
    <3>2. prb \in 0 .. PrbMod - 1 /\ booting' \in BOOLEAN
      BY <2>2, MacAssumption DEF ConfigureCell, CellsInv
    <3>. QED
      BY <3>1, <3>2, AddCellKeeps
  <2>3. CASE Started
    <3>1. DefaultPci \in Pcis /\ DefaultPrb \in 0 .. PrbMod - 1
      BY MacAssumption
    <3>2. AddCell(DefaultPci, DefaultPrb) \/ UNCHANGED <<cells, nof, prbMax>>
      BY <2>3 DEF Started
    <3>. QED
      BY <2>1, <2>3, <3>1, <3>2, AddCellKeeps DEF Started
  <2>4. CASE UNCHANGED config
    BY <2>1, <2>4 DEF config, CellsInv
  <2>. QED
    BY <2>2, <2>3, <2>4
    DEF Next, vars, Attach, CallRan, Join, Detach, Leave, ToggleRan, ClearUsers, CopyUser,
        FairSplitTurn, Overrun, RanTurn, RanServe, RanFill
<1>. QED
  BY <1>1, <1>2, PTL DEF Spec

(* The cells are counted, packed and summed up whatever configures them    *)
(* (stack.c:30), the sum within its u8.                                    *)
THEOREM CellsAreAccounted == Spec => []CellsAccounted
<1>1. CellsInv => CellsAccounted
  BY MacNumbers DEF CellsInv, CellsAccounted
<1>. QED
  BY <1>1, CellsInvHolds, PTL

-----------------------------------------------------------------------------
(* Fair PRB Split. *)

Deals == [left : Nat, next : Nat, groups : [Places -> Rntis]]

Visits == prbMax * UEMax
Width == GroupWidth(prbMax)
Visited(k) == ues[(k - 1) % UEMax].rnti
Base == First(NextSubframe)

(* What dealing starts from. *)
DealReady ==
    /\ IsTable(ues)
    /\ prbMax \in Nat
    /\ subframe \in 0 .. SubFrames - 1

Undealt == [left |-> prbMax, next |-> Base, groups |-> NoGroups]

LEMMA WidthRange ==
    ASSUME NEW total
    PROVE  GroupWidth(total) \in 1 .. 4
BY DEF GroupWidth

(* A subframe has its groups within the frame. *)
LEMMA BaseRange ==
    ASSUME DealReady
    PROVE  /\ Base \in Nat /\ SubFrames * GroupMax \in Nat
           /\ Base + GroupMax <= SubFrames * GroupMax
<1>1. GroupMax \in Nat /\ SubFrames \in Nat /\ NextSubframe \in 0 .. SubFrames - 1
  BY MacAssumption DEF DealReady, NextSubframe
<1>2. PICK more \in Nat : SubFrames = NextSubframe + 1 + more
  <2>1. SubFrames - NextSubframe - 1 \in Nat
    BY <1>1
  <2>. QED
    BY <1>1, <2>1
<1>. DEFINE n == NextSubframe
<1>3. n \in Nat /\ Base = n * GroupMax /\ SubFrames = n + 1 + more
  BY <1>1, <1>2 DEF Base, First
<1>. HIDE DEF n
<1>4. (n + 1 + more) * GroupMax = n * GroupMax + GroupMax + more * GroupMax
  BY <1>1, <1>3
<1>5. n * GroupMax \in Nat /\ more * GroupMax \in Nat
  BY <1>1, <1>3
<1>. QED
  BY <1>1, <1>3, <1>4, <1>5

LEMMA VisitedType ==
    ASSUME IsTable(ues), NEW k \in Nat \ {0}
    PROVE  (k - 1) % UEMax \in Slots /\ Visited(k) \in Rntis
<1>1. (k - 1) % UEMax \in Slots
  BY SlotsAssumption DEF Slots
<1>. QED
  BY <1>1 DEF Visited, IsTable, UE

LEMMA GiveType ==
    ASSUME NEW w \in 1 .. 4, NEW d \in Deals, NEW r \in Rntis
    PROVE  Give(w, d, r) \in Deals
<1>1. CASE r = NoRnti \/ d.left = 0
  BY <1>1 DEF Give
<1>2. CASE ~(r = NoRnti \/ d.left = 0)
  <2>. DEFINE prbs == IF d.left <= w THEN d.left ELSE w
              gs == [d.groups EXCEPT ![d.next] = r]
  <2>1. d.left \in Nat /\ d.next \in Nat /\ d.groups \in [Places -> Rntis]
    BY DEF Deals
  <2>2. prbs \in Nat /\ prbs <= d.left
    BY <2>1
  <2>3. gs \in [Places -> Rntis]
    BY <2>1
  <2>. HIDE DEF prbs, gs
  <2>4. Give(w, d, r) = [left |-> d.left - prbs, next |-> d.next + 1, groups |-> gs]
    BY <1>2 DEF Give, prbs, gs
  <2>. QED
    BY <2>1, <2>2, <2>3, <2>4 DEF Deals
<1>. QED
  BY <1>1, <1>2

(* Dealing is what its recursive definition says. *)
LEMMA DealingSteps ==
    ASSUME DealReady
    PROVE  /\ Dealing[0] = Undealt
           /\ \A k \in 1 .. Visits : Dealing[k] = Give(Width, Dealing[k - 1], Visited(k))
<1>. DEFINE step == [k \in 1 .. Visits |-> [d \in Deals |-> Give(Width, d, Visited(k))]]
<1>1. Visits \in Nat
  BY SlotsAssumption DEF Visits, DealReady
<1>2. Undealt \in Deals
  <2>1. NoGroups \in [Places -> Rntis]
    BY SlotsAssumption DEF NoGroups, NoRnti, Rntis
  <2>. QED
    BY <2>1, BaseRange DEF DealReady, Undealt, Deals
<1>3. step \in [1 .. Visits -> [Deals -> Deals]]
  <2>. SUFFICES ASSUME NEW k \in 1 .. Visits, NEW d \in Deals
                PROVE  Give(Width, d, Visited(k)) \in Deals
    OBVIOUS
  <2>1. Visited(k) \in Rntis
    BY <1>1, VisitedType DEF DealReady
  <2>2. Width \in 1 .. 4
    BY WidthRange DEF Width
  <2>. QED
    BY <2>1, <2>2, GiveType
<1>4. PICK f : Iterates(f, Deals, Visits, Undealt, step)
  <2>. HIDE DEF step
  <2>. QED
    BY <1>1, <1>2, <1>3, Iterated
<1>5. \A k \in 1 .. Visits : f[k] = Give(Width, f[k - 1], Visited(k))
  <2>. SUFFICES ASSUME NEW k \in 1 .. Visits
                PROVE  f[k] = Give(Width, f[k - 1], Visited(k))
    OBVIOUS
  <2>1. f[k - 1] \in Deals
    BY <1>1, <1>4 DEF Iterates
  <2>. QED
    BY <1>4, <2>1 DEF Iterates
<1>6. f = [k \in 0 .. prbMax * UEMax |->
              IF k = 0
              THEN [left |-> prbMax, next |-> First(NextSubframe), groups |-> NoGroups]
              ELSE Give(GroupWidth(prbMax), f[k - 1], ues[(k - 1) % UEMax].rnti)]
  <2>1. f = [k \in 0 .. Visits |-> IF k = 0 THEN Undealt ELSE Give(Width, f[k - 1], Visited(k))]
    BY <1>1, <1>4, <1>5 DEF Iterates
  <2>. QED
    BY <2>1 DEF Visits, Undealt, Width, Visited, Base
<1>7. Dealing = [k \in 0 .. prbMax * UEMax |->
              IF k = 0
              THEN [left |-> prbMax, next |-> First(NextSubframe), groups |-> NoGroups]
              ELSE Give(GroupWidth(prbMax), Dealing[k - 1], ues[(k - 1) % UEMax].rnti)]
  BY <1>6 DEF Dealing
<1>8. Dealing = [k \in 0 .. Visits |->
                    IF k = 0 THEN Undealt ELSE Give(Width, Dealing[k - 1], Visited(k))]
  BY <1>7 DEF Visits, Undealt, Width, Visited, Base
<1>. QED
  BY <1>1, <1>8

LEMMA DealingType ==
    ASSUME DealReady
    PROVE  \A k \in 0 .. Visits : Dealing[k] \in Deals
<1>. DEFINE Right(k) == Dealing[k] \in Deals
            wrong == {k \in 0 .. Visits : ~Right(k)}
<1>1. Visits \in Nat
  BY SlotsAssumption DEF Visits, DealReady
<1>2. Right(0)
  <2>1. NoGroups \in [Places -> Rntis]
    BY SlotsAssumption DEF NoGroups, NoRnti, Rntis
  <2>. QED
    BY <2>1, BaseRange, DealingSteps DEF Undealt, Deals, DealReady
<1>3. ASSUME NEW k \in 1 .. Visits, Right(k - 1)
      PROVE  Right(k)
  <2>1. Dealing[k] = Give(Width, Dealing[k - 1], Visited(k))
    BY DealingSteps
  <2>2. Width \in 1 .. 4 /\ Visited(k) \in Rntis
    BY <1>1, WidthRange, VisitedType DEF DealReady, Width
  <2>. QED
    BY <1>3, <2>1, <2>2, GiveType
<1>. HIDE DEF Right
<1>. SUFFICES ASSUME wrong # {}
              PROVE  FALSE
  BY DEF Right
<1>4. wrong \in SUBSET Nat
  OBVIOUS
<1>5. PICK m \in wrong : \A k \in wrong : m <= k
  BY <1>4, LeastNatural
<1>6. m \in 1 .. Visits /\ ~Right(m)
  BY <1>1, <1>2, <1>5
<1>7. m - 1 \in 0 .. Visits /\ m - 1 \notin wrong
  BY <1>1, <1>5, <1>6
<1>. QED
  BY <1>3, <1>6, <1>7

-----------------------------------------------------------------------------
(* Types. *)

LEMMA NextTyped == IInv /\ CellsInv /\ TypeOK /\ IInv' /\ CellsInv' /\ [Next]_vars => TypeOK'
<1>. SUFFICES ASSUME IInv, CellsInv, TypeOK, IInv', CellsInv', [Next]_vars
              PROVE  TypeOK'
  OBVIOUS
<1>1. ASSUME groups' \in [Places -> Rntis]
      PROVE  TypeOK'
  BY <1>1, MacNumbers
  DEF TypeOK, CellsInv, IsCells, IInv, SchedTypeOK, IsTable, IsUserTable, Mains
<1>2. UNCHANGED groups => TypeOK'
  BY <1>1 DEF TypeOK
<1>3. CASE FairSplitTurn
  <2>1. DealReady
    BY MacNumbers DEF DealReady, TypeOK, IsTable
  <2>2. Visits \in 0 .. Visits
    BY <2>1, SlotsAssumption DEF DealReady, Visits
  <2>3. Deal \in Deals
    BY <2>1, <2>2, DealingType DEF Deal, Visits
  <2>. QED
    BY <1>1, <1>3, <2>3 DEF FairSplitTurn, Deals
<1>4. CASE RanTurn
  <2>1. groups' \in [Places -> Rntis]
    BY <1>4, SlotsAssumption DEF RanTurn, NoGroups, NoRnti, Rntis
  <2>. QED
    BY <1>1, <2>1
<1>5. CASE RanServe \/ RanFill
  <2>1. main.user \in RanSlots
    BY <1>5, FillTypes DEF RanServe, RanFill
  <2>2. users[main.user] \in Rntis
    BY <2>1 DEF TypeOK
  <2>3. groups' \in [Places -> Rntis]
    BY <1>5, <2>2 DEF RanServe, RanFill, Fill, TypeOK
  <2>. QED
    BY <1>1, <2>3
<1>. QED
  BY <1>2, <1>3, <1>4, <1>5
  DEF Next, vars, frame, ConfigureCell, Started, Attach, CallRan, Join, Detach, Leave, ToggleRan,
      ClearUsers, CopyUser, Overrun

(* Every number of the scheduler stays within its width, the sum of the    *)
(* PRBs of the cells (u8) among them, the threads are where the code can   *)
(* be, and the groups of a frame hold RNTIs only (mac_compute).            *)
THEOREM SchedulerTyped == Spec => []TypeOK
<1>1. Init => TypeOK
  <2>. SUFFICES ASSUME Init
                PROVE  TypeOK
    OBVIOUS
  <2>1. groups \in [Places -> Rntis]
    BY SlotsAssumption DEF Init, NoGroups, NoRnti, Rntis
  <2>2. IInv
    BY InitIInv
  <2>3. cells \in [CellSlots -> [pci : Pcis \cup {PciInvalid}, prb : 0 .. PrbMod - 1]]
    BY MacNumbers DEF Init, NoCell
  <2>. QED
    BY <2>1, <2>2, <2>3, MacNumbers
    DEF Init, TypeOK, IInv, SchedTypeOK, IsTable, IsUserTable, Mains
<1>2. IInv /\ CellsInv /\ TypeOK /\ IInv' /\ CellsInv' /\ [Next]_vars => TypeOK'
  BY NextTyped
<1>. QED
  BY <1>1, <1>2, IInvAlways, CellsInvHolds, PTL DEF Spec

-----------------------------------------------------------------------------
(* With RAN sharing on and its table cleared, ran_user_rr_sched fills a    *)
(* group for a UE of this eNB or one just being removed, or blanks it,     *)
(* unless the ran_add_user of the user crossed its removal or a rebuild:   *)
(* whatever the other threads do to either table between the search, the   *)
(* first group and every other (ran.c:99, 114).                            *)
THEOREM AttachedAreServed == Spec => RanServesAttached
<1>. DEFINE A == (ran /\ tasks["ui"].at # "clearing" /\ main.at \in {"picked", "filling"}) =>
                    \A p \in Places :
                        groups'[p] # groups[p] =>
                            groups'[p] \in Attached \cup LeavingRntis \cup crossed \cup {NoRnti}
<1>1. ASSUME IInv, TypeOK, [Next]_vars
      PROVE  [A]_vars
  <2>1. CASE RanServe \/ RanFill
    <3>1. PICK g : groups' = [groups EXCEPT ![First(subframe) + g] = users[main.user]]
      BY <2>1 DEF RanServe, RanFill, Fill
    <3>2. main.user \in RanSlots
      BY <1>1, <2>1, FillTypes DEF RanServe, RanFill
    <3>3. ran /\ tasks["ui"].at # "clearing" =>
              users[main.user] \in Attached \cup LeavingRntis \cup crossed \cup {NoRnti}
      BY <1>1, <3>2 DEF IInv, UsersInv, UsersKnown, UsersOf
    <3>4. \A p \in Places : groups'[p] # groups[p] => groups'[p] = users[main.user]
      BY <1>1, <3>1 DEF TypeOK
    <3>. QED
      BY <3>3, <3>4
  <2>2. CASE ~(RanServe \/ RanFill)
    <3>1. main = Between \/ UNCHANGED groups
      BY <1>1, <2>2 DEF Next, vars, frame, ConfigureCell, Started, Attach, CallRan, Join, Detach,
         Leave, ToggleRan, ClearUsers, CopyUser, FairSplitTurn, Overrun, RanTurn
    <3>2. Between.at = "between"
      BY DEF Between
    <3>. QED
      BY <3>1, <3>2
  <2>. QED
    BY <2>1, <2>2
<1>2. IInv /\ TypeOK /\ [Next]_vars => [A]_vars
  BY <1>1
<1>. QED
  BY <1>2, IInvAlways, SchedulerTyped, PTL DEF Spec, RanServesAttached

-----------------------------------------------------------------------------
(* Fairness of Fair PRB Split. *)

(* The groups of one UE among those dealt. *)
Owned(d, r) == {p \in Base .. d.next - 1 : d.groups[p] = r}

(* A pass is in its slot s after q whole passes: every UE has a group of   *)
(* each whole pass, those of the slots ahead of s have one of this.        *)
SharesAt(d, q, s) ==
    \A i \in ActiveSlots(ues) :
        Cardinality(Owned(d, ues[i].rnti)) = q + (IF i < s THEN 1 ELSE 0)

(* While PRBs are left all groups are full; the last one may not be. *)
GroupsFull(d) ==
    LET dealt == d.next - Base
    IN  IF d.left > 0
        THEN d.left = prbMax - Width * dealt
        ELSE Width * dealt >= prbMax /\ Width * (dealt - 1) < prbMax

(* The groups dealt, and no others, have an owner. *)
DealtSoFar(d) ==
    /\ d.next >= Base
    /\ \A p \in Places : d.groups[p] # NoRnti <=> p \in Base .. d.next - 1

(* The groups of the PRBs of the eNB end within the frame. *)
Room == Base + GroupsOf(prbMax) <= SubFrames * GroupMax

FairSoFar(k) ==
    LET d == Dealing[k]
    IN  /\ GroupsFull(d)
        /\ DealtSoFar(d)
        /\ \E q \in Nat, s \in Slots :
              /\ d.left > 0 => UEMax * q + s = k
              /\ SharesAt(d, q, s)

(* How many groups there are. *)
LEMMA GroupsNumber ==
    ASSUME NEW total \in Nat
    PROVE  /\ GroupsOf(total) \in Nat
           /\ \A n \in Int : GroupWidth(total) * n < total => n < GroupsOf(total)
           /\ \A n \in Int :
                 GroupWidth(total) * n >= total /\ GroupWidth(total) * (n - 1) < total =>
                     n = GroupsOf(total)
<1>. DEFINE w == GroupWidth(total)
<1>1. w \in 1 .. 4
  BY WidthRange
<1>2. GroupsOf(total) = (total + w - 1) \div w
  BY DEF GroupsOf
<1>. HIDE DEF w
<1>3. CASE w = 1
  BY <1>2, <1>3 DEF w
<1>4. CASE w = 2
  BY <1>2, <1>4 DEF w
<1>5. CASE w = 3
  BY <1>2, <1>5 DEF w
<1>6. CASE w = 4
  BY <1>2, <1>6 DEF w
<1>. QED
  BY <1>1, <1>3, <1>4, <1>5, <1>6

(* The place of the next slot to look at. *)
LEMMA NextPlace ==
    ASSUME NEW q \in Nat, NEW p \in Slots
    PROVE  \E q2 \in Nat, p2 \in Slots :
               /\ UEMax * q2 + p2 = UEMax * q + p + 1
               /\ \A i \in Slots :
                     q2 + (IF i < p2 THEN 1 ELSE 0)
                       = q + (IF i < p THEN 1 ELSE 0) + (IF i = p THEN 1 ELSE 0)
<1>1. UEMax \in Nat \ {0} /\ p \in 0 .. UEMax - 1
  BY SlotsAssumption DEF Slots
<1>2. CASE p + 1 = UEMax
  <2>1. UEMax * (q + 1) = UEMax * q + UEMax
    BY <1>1
  <2>2. UEMax * (q + 1) + 0 = UEMax * q + p + 1
    <3>1. UEMax * q \in Nat
      BY <1>1
    <3>. QED
      BY <1>1, <1>2, <2>1, <3>1
  <2>3. \A i \in Slots : (q + 1) + (IF i < 0 THEN 1 ELSE 0)
                            = q + (IF i < p THEN 1 ELSE 0) + (IF i = p THEN 1 ELSE 0)
    BY <1>1, <1>2 DEF Slots
  <2>4. q + 1 \in Nat /\ 0 \in Slots
    BY <1>1 DEF Slots
  <2>. QED
    BY <2>2, <2>3, <2>4
<1>3. CASE p + 1 # UEMax
  <2>1. p + 1 \in Slots
    BY <1>1, <1>3 DEF Slots
  <2>2. \A i \in Slots : q + (IF i < p + 1 THEN 1 ELSE 0)
                            = q + (IF i < p THEN 1 ELSE 0) + (IF i = p THEN 1 ELSE 0)
    BY <1>1 DEF Slots
  <2>3. UEMax * q + (p + 1) = UEMax * q + p + 1
    <3>1. UEMax * q \in Nat
      BY <1>1
    <3>. QED
      BY <1>1, <3>1
  <2>. QED
    BY <2>1, <2>2, <2>3
<1>. QED
  BY <1>2, <1>3

(* A group given is the next one, full unless nothing is left then. *)
LEMMA GiveGroup ==
    ASSUME DealReady, NEW d \in Deals, d.left > 0, GroupsFull(d), DealtSoFar(d), d.next \in Places,
           NEW r \in Rntis \ {NoRnti}
    PROVE  LET e == Give(Width, d, r)
           IN  /\ e.next = d.next + 1
               /\ e.groups = [d.groups EXCEPT ![d.next] = r]
               /\ GroupsFull(e)
               /\ DealtSoFar(e)
<1>. DEFINE w == Width
            prbs == IF d.left <= w THEN d.left ELSE w
            e == Give(w, d, r)
<1>1. w \in 1 .. 4 /\ prbMax \in Nat /\ Base \in Nat
  BY WidthRange, BaseRange DEF Width, DealReady
<1>2. d.left \in Nat /\ d.next \in Nat /\ d.groups \in [Places -> Rntis]
  BY DEF Deals
<1>3. /\ e.left = d.left - prbs
      /\ e.next = d.next + 1
      /\ e.groups = [d.groups EXCEPT ![d.next] = r]
  BY <1>2 DEF Give
<1>4. d.left = prbMax - w * (d.next - Base)
  BY DEF GroupsFull
<1>. HIDE DEF e
<1>5. IF e.left > 0
      THEN e.left = prbMax - w * (e.next - Base)
      ELSE w * (e.next - Base) >= prbMax /\ w * (e.next - Base - 1) < prbMax
  <2>. HIDE DEF w
  <2>1. CASE w = 1
    BY <1>1, <1>2, <1>3, <1>4, <2>1
  <2>2. CASE w = 2
    BY <1>1, <1>2, <1>3, <1>4, <2>2
  <2>3. CASE w = 3
    BY <1>1, <1>2, <1>3, <1>4, <2>3
  <2>4. CASE w = 4
    BY <1>1, <1>2, <1>3, <1>4, <2>4
  <2>. QED
    BY <1>1, <2>1, <2>2, <2>3, <2>4
<1>6. DealtSoFar(e)
  <2>1. d.next >= Base /\ \A p \in Places : d.groups[p] # NoRnti <=> p \in Base .. d.next - 1
    BY DEF DealtSoFar
  <2>2. Base .. e.next - 1 = (Base .. d.next - 1) \cup {d.next}
    BY <1>1, <1>2, <1>3, <2>1
  <2>3. \A p \in Places : e.groups[p] = IF p = d.next THEN r ELSE d.groups[p]
    BY <1>2, <1>3
  <2>. QED
    BY <1>1, <1>2, <1>3, <2>1, <2>2, <2>3 DEF DealtSoFar
<1>. QED
  BY <1>3, <1>5, <1>6 DEF GroupsFull, e

LEMMA OwnedFinite ==
    ASSUME DealReady, NEW d \in Deals, d.next >= Base, NEW r
    PROVE  /\ IsFiniteSet(Owned(d, r))
           /\ Cardinality(Owned(d, r)) \in Nat
           /\ Cardinality(Owned(d, r)) <= d.next - Base
<1>1. d.next \in Nat /\ Base \in Nat
  BY BaseRange DEF Deals
<1>2. IsFiniteSet(Base .. d.next - 1) /\ Cardinality(Base .. d.next - 1) = d.next - Base
  <2>1. Base \in Int /\ d.next - 1 \in Int
    BY <1>1
  <2>2. /\ IsFiniteSet(Base .. d.next - 1)
        /\ Cardinality(Base .. d.next - 1)
             = IF Base > d.next - 1 THEN 0 ELSE d.next - 1 - Base + 1
    BY <2>1, FS_Interval
  <2>. QED
    BY <1>1, <2>2
<1>3. Owned(d, r) \in SUBSET (Base .. d.next - 1)
  BY DEF Owned
<1>. QED
  BY <1>2, <1>3, FS_Subset, FS_CardinalityType

(* The group given is one more for the UE in slot u and for nobody else:   *)
(* no two UEs have one RNTI.                                               *)
LEMMA GiveShares ==
    ASSUME Coherent(ues, Pcis), DealReady, NEW d \in Deals, NEW e \in Deals,
           NEW u \in ActiveSlots(ues), d.next \in Places, d.next >= Base,
           e.next = d.next + 1,
           e.groups = [d.groups EXCEPT ![d.next] = ues[u].rnti]
    PROVE  \A i \in ActiveSlots(ues) :
               Cardinality(Owned(e, ues[i].rnti))
                 = Cardinality(Owned(d, ues[i].rnti)) + (IF i = u THEN 1 ELSE 0)
<1>. SUFFICES ASSUME NEW i \in ActiveSlots(ues)
              PROVE  Cardinality(Owned(e, ues[i].rnti))
                       = Cardinality(Owned(d, ues[i].rnti)) + (IF i = u THEN 1 ELSE 0)
  OBVIOUS
<1>. DEFINE r == ues[i].rnti
<1>1. d.next \in Nat /\ d.groups \in [Places -> Rntis] /\ Base \in Nat
  BY BaseRange DEF Deals
<1>2. r = ues[u].rnti <=> i = u
  BY DEF Coherent
<1>3. e.groups[d.next] = ues[u].rnti /\ \A p \in Places \ {d.next} : e.groups[p] = d.groups[p]
  BY <1>1
<1>4. Base .. e.next - 1 = (Base .. d.next - 1) \cup {d.next} /\ d.next \notin Base .. d.next - 1
  BY <1>1
<1>5. Base .. d.next - 1 \subseteq Places
  BY <1>1, BaseRange DEF Places
<1>6. \A p \in Base .. d.next - 1 : e.groups[p] = d.groups[p]
  BY <1>3, <1>4, <1>5
<1>7. IsFiniteSet(Owned(d, r)) /\ d.next \notin Owned(d, r)
  BY <1>4, OwnedFinite DEF Owned
<1>8. CASE i = u
  <2>1. Owned(e, r) = Owned(d, r) \cup {d.next}
    BY <1>2, <1>3, <1>4, <1>6, <1>8 DEF Owned
  <2>2. Cardinality(Owned(e, r)) = Cardinality(Owned(d, r)) + 1
    BY <1>7, <2>1, FS_AddElement
  <2>. QED
    BY <1>8, <2>2
<1>9. CASE i # u
  <2>1. Owned(e, r) = Owned(d, r)
    BY <1>2, <1>3, <1>4, <1>6, <1>9 DEF Owned
  <2>. QED
    BY <1>9, <2>1, OwnedFinite
<1>. QED
  BY <1>8, <1>9

(* One look at a slot. *)
LEMMA FairStep ==
    ASSUME DealReady, Coherent(ues, Pcis), Room, NEW k \in 1 .. Visits, FairSoFar(k - 1)
    PROVE  FairSoFar(k)
<1>. DEFINE d == Dealing[k - 1]
            e == Dealing[k]
<1>1. Visits \in Nat /\ UEMax \in Nat \ {0}
  BY SlotsAssumption DEF Visits, DealReady
<1>2. /\ d \in Deals
      /\ e \in Deals
      /\ e = Give(Width, d, Visited(k))
  BY <1>1, DealingType, DealingSteps
<1>3. prbMax \in Nat /\ IsTable(ues)
  BY DEF DealReady
<1>. HIDE DEF d, e
<1>4. PICK q \in Nat, s \in Slots : /\ d.left > 0 => UEMax * q + s = k - 1
                                    /\ SharesAt(d, q, s)
  BY DEF FairSoFar, d
<1>5. GroupsFull(d) /\ DealtSoFar(d)
  BY DEF FairSoFar, d
<1>6. CASE d.left = 0
  <2>1. e = d
    BY <1>2, <1>6 DEF Give
  <2>. QED
    BY <1>4, <1>5, <1>6, <2>1 DEF FairSoFar, e
<1>7. CASE d.left > 0
  <2>1. PICK q2 \in Nat, s2 \in Slots :
            /\ UEMax * q2 + s2 = UEMax * q + s + 1
            /\ \A i \in Slots :
                  q2 + (IF i < s2 THEN 1 ELSE 0)
                    = q + (IF i < s THEN 1 ELSE 0) + (IF i = s THEN 1 ELSE 0)
    BY NextPlace
  <2>2. UEMax * q2 + s2 = k
    BY <1>1, <1>4, <1>7, <2>1
  <2>3. (k - 1) % UEMax = s
    <3>1. k - 1 \in Int /\ s \in 0 .. UEMax - 1 /\ k - 1 = UEMax * q + s
      BY <1>1, <1>4, <1>7 DEF Slots
    <3>. QED
      BY <1>1, <3>1, ModUnique
  <2>4. CASE ues[s].rnti = NoRnti
    <3>1. e = d
      BY <1>2, <2>3, <2>4 DEF Give, Visited
    <3>2. SharesAt(e, q2, s2)
      BY <1>4, <2>1, <2>4, <3>1 DEF SharesAt, ActiveSlots
    <3>. QED
      BY <1>5, <2>2, <3>1, <3>2 DEF FairSoFar, e
  <2>5. CASE ues[s].rnti # NoRnti
    <3>1. ues[s].rnti \in Rntis \ {NoRnti} /\ s \in ActiveSlots(ues)
      BY <1>3, <2>5 DEF IsTable, UE, ActiveSlots
    <3>2. d.next \in Places /\ d.next >= Base
      <4>1. /\ d.next \in Nat /\ d.left \in Nat /\ Base \in Nat /\ SubFrames * GroupMax \in Nat
            /\ d.next >= Base
            /\ d.left = prbMax - Width * (d.next - Base)
            /\ Width \in 1 .. 4
        BY <1>2, <1>5, <1>7, BaseRange, WidthRange DEF Deals, GroupsFull, DealtSoFar, Width
      <4>2. Width * (d.next - Base) < prbMax
        <5>. DEFINE n == Width * (d.next - Base)
        <5>1. n \in Int
          BY <4>1
        <5>2. d.left = prbMax - n
          BY <4>1
        <5>. HIDE DEF n
        <5>3. n < prbMax
          BY <1>3, <1>7, <5>1, <5>2
        <5>. QED
          BY <5>3 DEF n
      <4>3. GroupsOf(prbMax) \in Nat /\ d.next - Base < GroupsOf(prbMax)
        BY <1>3, <4>1, <4>2, GroupsNumber DEF Width
      <4>. QED
        BY <4>1, <4>3 DEF Room, Places
    <3>3. /\ e.next = d.next + 1
          /\ e.groups = [d.groups EXCEPT ![d.next] = ues[s].rnti]
          /\ GroupsFull(e)
          /\ DealtSoFar(e)
      BY <1>2, <1>5, <1>7, <2>3, <3>1, <3>2, GiveGroup DEF Visited
    <3>4. \A i \in ActiveSlots(ues) :
              Cardinality(Owned(e, ues[i].rnti))
                = Cardinality(Owned(d, ues[i].rnti)) + (IF i = s THEN 1 ELSE 0)
      BY <1>2, <1>3, <3>1, <3>2, <3>3, GiveShares
    <3>5. SharesAt(e, q2, s2)
      BY <1>4, <2>1, <3>4 DEF SharesAt, ActiveSlots
    <3>. QED
      BY <2>2, <3>3, <3>5 DEF FairSoFar, e
  <2>. QED
    BY <2>4, <2>5
<1>. QED
  BY <1>2, <1>6, <1>7 DEF Deals

LEMMA FairAllAlong ==
    ASSUME DealReady, Coherent(ues, Pcis), Room
    PROVE  FairSoFar(Visits)
<1>. DEFINE wrong == {k \in 0 .. Visits : ~FairSoFar(k)}
<1>1. Visits \in Nat /\ UEMax \in Nat \ {0} /\ 0 \in Slots /\ prbMax \in Nat
  BY SlotsAssumption DEF Visits, DealReady, Slots
<1>2. FairSoFar(0)
  <2>1. Dealing[0] = Undealt /\ Undealt.next = Base /\ Base \in Nat
    BY DealingSteps, BaseRange DEF Undealt
  <2>2. GroupsFull(Undealt)
    <3>1. Width \in 1 .. 4
      BY WidthRange DEF Width
    <3>2. Width * 0 = 0 /\ Width * (0 - 1) < 0
      <4>. HIDE DEF Width
      <4>. QED
        BY <3>1
    <3>. HIDE DEF Width
    <3>. QED
      BY <1>1, <2>1, <3>1, <3>2 DEF Undealt, GroupsFull
  <2>3. SharesAt(Undealt, 0, 0)
    <3>1. \A r : Owned(Undealt, r) = {}
      BY <2>1 DEF Owned
    <3>2. \A i \in Slots : 0 + (IF i < 0 THEN 1 ELSE 0) = 0
      BY DEF Slots
    <3>. QED
      BY <3>1, <3>2, FS_EmptySet DEF SharesAt, ActiveSlots
  <2>4. DealtSoFar(Undealt)
    BY <2>1 DEF DealtSoFar, Undealt, NoGroups
  <2>5. UEMax * 0 + 0 = 0
    BY <1>1
  <2>. QED
    BY <1>1, <2>1, <2>2, <2>3, <2>4, <2>5 DEF FairSoFar
<1>3. wrong = {}
  <2>. SUFFICES ASSUME wrong # {}
                PROVE  FALSE
    OBVIOUS
  <2>1. wrong \in SUBSET Nat
    OBVIOUS
  <2>2. PICK m \in wrong : \A k \in wrong : m <= k
    BY <2>1, LeastNatural
  <2>3. m \in 1 .. Visits /\ ~FairSoFar(m)
    BY <1>1, <1>2, <2>2
  <2>4. m - 1 \in 0 .. Visits /\ m - 1 \notin wrong
    BY <1>1, <2>2, <2>3
  <2>. QED
    BY <2>3, <2>4, FairStep
<1>. QED
  BY <1>1, <1>3

(* As many passes as there are PRBs leave none: each gave every UE a       *)
(* group.                                                                  *)
LEMMA NothingLeft ==
    ASSUME DealReady, Coherent(ues, Pcis), Room, ActiveSlots(ues) # {}
    PROVE  Deal.left = 0
<1>. SUFFICES ASSUME Deal.left # 0
              PROVE  FALSE
  OBVIOUS
<1>1. UEMax \in Nat \ {0} /\ prbMax \in Nat /\ Visits \in 0 .. Visits
  BY SlotsAssumption DEF DealReady, Visits
<1>2. Deal \in Deals
  BY <1>1, DealingType DEF Deal, Visits
<1>3. Deal = Dealing[Visits]
  BY DEF Deal, Visits
<1>. DEFINE d == Deal
<1>. HIDE DEF d
<1>4. d.left > 0 /\ d.next \in Nat /\ d.left \in Nat /\ Base \in Nat
  BY <1>2, BaseRange DEF Deals, d
<1>5. /\ GroupsFull(d)
      /\ DealtSoFar(d)
      /\ \E q \in Nat, s \in Slots : /\ d.left > 0 => UEMax * q + s = Visits
                                     /\ SharesAt(d, q, s)
  BY <1>3, FairAllAlong DEF FairSoFar, d
<1>6. PICK q \in Nat, s \in Slots : UEMax * q + s = Visits /\ SharesAt(d, q, s)
  BY <1>4, <1>5
<1>7. q >= prbMax
  <2>1. UEMax * q + s = prbMax * UEMax /\ s \in 0 .. UEMax - 1
    BY <1>1, <1>6 DEF Visits, Slots
  <2>2. ASSUME q + 1 <= prbMax
        PROVE  UEMax * q + UEMax <= prbMax * UEMax
    <3>1. PICK more \in Nat : prbMax = q + 1 + more
      <4>1. prbMax - q - 1 \in Nat /\ prbMax = q + 1 + (prbMax - q - 1)
        BY <1>1, <2>2
      <4>. QED
        BY <4>1
    <3>2. (q + 1 + more) * UEMax = UEMax * q + UEMax + more * UEMax
      BY <1>1, <3>1
    <3>3. more * UEMax \in Nat /\ UEMax * q \in Nat
      BY <1>1, <3>1
    <3>. QED
      BY <1>1, <3>1, <3>2, <3>3
  <2>3. UEMax * q \in Nat /\ prbMax * UEMax \in Nat
    BY <1>1
  <2>. QED
    BY <1>1, <2>1, <2>2, <2>3
<1>8. d.next >= Base /\ d.next - Base >= prbMax
  <2>1. PICK i \in ActiveSlots(ues) : TRUE
    OBVIOUS
  <2>2. Cardinality(Owned(d, ues[i].rnti)) = q + (IF i < s THEN 1 ELSE 0)
    BY <1>6 DEF SharesAt
  <2>3. d.next >= Base
    BY <1>5 DEF DealtSoFar
  <2>4. Cardinality(Owned(d, ues[i].rnti)) <= d.next - Base
    BY <1>2, <2>3, OwnedFinite DEF d
  <2>. QED
    BY <1>1, <1>4, <1>7, <2>2, <2>3, <2>4
<1>9. d.left = prbMax - Width * (d.next - Base) /\ Width \in 1 .. 4
  BY <1>4, <1>5, WidthRange DEF GroupsFull, Width
<1>. DEFINE n == d.next - Base
<1>10. n \in Nat /\ n >= prbMax /\ d.left = prbMax - Width * n
  BY <1>4, <1>8, <1>9
<1>. HIDE DEF n, Width
<1>11. Width * n >= n
  BY <1>9, <1>10
<1>12. Width * n \in Nat
  BY <1>9, <1>10
<1>. QED
  BY <1>1, <1>4, <1>10, <1>11, <1>12

(* Without a UE every look at a slot is in vain. *)
LEMMA NobodyDealt ==
    ASSUME DealReady, ActiveSlots(ues) = {}
    PROVE  Deal = Undealt
<1>. DEFINE wrong == {k \in 0 .. Visits : Dealing[k] # Undealt}
<1>1. Visits \in Nat
  BY SlotsAssumption DEF Visits, DealReady
<1>2. wrong = {}
  <2>. SUFFICES ASSUME wrong # {}
                PROVE  FALSE
    OBVIOUS
  <2>1. wrong \in SUBSET Nat
    OBVIOUS
  <2>2. PICK m \in wrong : \A k \in wrong : m <= k
    BY <2>1, LeastNatural
  <2>3. m \in 1 .. Visits /\ Dealing[m] # Undealt
    BY <1>1, <2>2, DealingSteps
  <2>4. m - 1 \in 0 .. Visits /\ m - 1 \notin wrong
    BY <1>1, <2>2, <2>3
  <2>5. Visited(m) = NoRnti
    BY <1>1, <2>3, VisitedType DEF Visited, ActiveSlots, DealReady
  <2>6. Dealing[m] = Give(Width, Dealing[m - 1], Visited(m))
    BY <2>3, DealingSteps
  <2>. QED
    BY <2>3, <2>4, <2>5, <2>6 DEF Give
<1>. QED
  BY <1>1, <1>2 DEF Deal, Visits

(* What one turn deals. *)
TurnDealt ==
    IF Attached = {}
    THEN groups' = NoGroups
    ELSE /\ \A p \in Dealt(GroupsOf(prbMax))' : groups'[p] # NoRnti
         /\ \A i, j \in ActiveSlots(ues) :
               LET mine == Shares(ues[i].rnti, GroupsOf(prbMax))'
                   other == Shares(ues[j].rnti, GroupsOf(prbMax))'
               IN  i < j => mine - other \in {0, 1}
         /\ \A p \in Places \ PlacesOf(subframe') :
               groups'[p] # NoRnti => GroupsOf(prbMax) > GroupMax

LEMMA TurnDeals ==
    ASSUME IInv, TypeOK, FairSplitTurn
    PROVE  TurnDealt
<1>1. DealReady /\ Coherent(ues, Pcis) /\ prbMax \in Nat
  BY MacNumbers DEF DealReady, TypeOK, IsTable, IInv, UsersInv
<1>2. /\ groups' = Deal.groups
      /\ First(subframe') = Base
      /\ ues' = ues
      /\ prbMax' = prbMax
      /\ InFrame
  BY DEF FairSplitTurn, config, tables, Base
<1>3. Attached = {} <=> ActiveSlots(ues) = {}
  BY DEF Attached
<1>4. CASE Attached = {}
  BY <1>1, <1>2, <1>3, <1>4, NobodyDealt DEF Undealt, TurnDealt
<1>5. CASE Attached # {}
  <2>. DEFINE d == Deal
              n == GroupsOf(prbMax)
  <2>1. Room
    BY <1>2, <1>3, <1>5 DEF InFrame, Room, Base
  <2>2. Visits \in 0 .. Visits /\ d = Dealing[Visits]
    BY <1>1, SlotsAssumption DEF Visits, Deal
  <2>3. d \in Deals /\ d.left = 0
    BY <1>1, <1>3, <1>5, <2>1, <2>2, DealingType, NothingLeft
  <2>4. FairSoFar(Visits)
    BY <1>1, <2>1, FairAllAlong
  <2>. HIDE DEF d
  <2>5. PICK q \in Nat, s \in Slots : SharesAt(d, q, s)
    BY <2>2, <2>4 DEF FairSoFar
  <2>6. /\ d.next \in Nat /\ Base \in Nat /\ SubFrames * GroupMax \in Nat /\ GroupMax \in Nat
        /\ n \in Nat
    BY <1>1, <2>3, BaseRange, GroupsNumber, MacAssumption DEF Deals
  <2>7. d.next - Base = n /\ DealtSoFar(d)
    <3>1. GroupsFull(d) /\ DealtSoFar(d)
      BY <2>2, <2>4 DEF FairSoFar
    <3>2. Width * (d.next - Base) >= prbMax /\ Width * (d.next - Base - 1) < prbMax
      BY <2>3, <3>1 DEF GroupsFull
    <3>. QED
      BY <1>1, <2>6, <3>1, <3>2, GroupsNumber DEF Width
  <2>8. (Dealt(GroupsOf(prbMax)))' = Base .. d.next - 1
    <3>1. Base + n - 1 = d.next - 1
      BY <2>6, <2>7
    <3>. QED
      BY <1>2, <3>1 DEF Dealt, GroupsOf, GroupWidth
  <2>9. groups' = d.groups
    BY <1>2 DEF d
  <2>10. \A p \in (Dealt(GroupsOf(prbMax)))' : groups'[p] # NoRnti
    <3>. SUFFICES ASSUME NEW p \in Base .. d.next - 1
                  PROVE  d.groups[p] # NoRnti
      BY <2>8, <2>9
    <3>1. d.next <= SubFrames * GroupMax
      BY <2>1, <2>6, <2>7 DEF Room
    <3>2. p \in Places
      BY <2>6, <3>1 DEF Places
    <3>. QED
      BY <2>7, <3>2 DEF DealtSoFar
  <2>11. ASSUME NEW i \in ActiveSlots(ues)
         PROVE  (Shares(ues[i].rnti, GroupsOf(prbMax)))' = q + (IF i < s THEN 1 ELSE 0)
    <3>1. (Shares(ues[i].rnti, GroupsOf(prbMax)))' = Cardinality(Owned(d, ues[i].rnti))
      BY <1>2, <2>8, <2>9 DEF Shares, Owned
    <3>. QED
      BY <2>5, <3>1 DEF SharesAt
  <2>12. ASSUME NEW i \in ActiveSlots(ues), NEW j \in ActiveSlots(ues), i < j
         PROVE  (Shares(ues[i].rnti, GroupsOf(prbMax)))'
                   - (Shares(ues[j].rnti, GroupsOf(prbMax)))' \in {0, 1}
    <3>1. i \in Int /\ j \in Int /\ s \in Int
      BY SlotsAreNat DEF ActiveSlots
    <3>. DEFINE mine == (Shares(ues[i].rnti, GroupsOf(prbMax)))'
                other == (Shares(ues[j].rnti, GroupsOf(prbMax)))'
    <3>2. mine = q + (IF i < s THEN 1 ELSE 0) /\ other = q + (IF j < s THEN 1 ELSE 0)
      BY <2>11
    <3>. HIDE DEF mine, other
    <3>3. mine - other \in {0, 1}
      BY <2>12, <3>1, <3>2
    <3>. QED
      BY <3>3 DEF mine, other
  <2>13. \A p \in Places \ PlacesOf(subframe') :
             groups'[p] # NoRnti => GroupsOf(prbMax) > GroupMax
    <3>. SUFFICES ASSUME NEW p \in Places, p \notin PlacesOf(subframe'), d.groups[p] # NoRnti
                  PROVE  n > GroupMax
      BY <2>9
    <3>1. p \in Base .. d.next - 1
      BY <2>7 DEF DealtSoFar
    <3>2. p \notin Base .. Base + GroupMax - 1
      BY <1>2 DEF PlacesOf
    <3>. HIDE DEF n
    <3>. QED
      BY <2>6, <2>7, <3>1, <3>2
  <2>. QED
    BY <1>5, <2>10, <2>12, <2>13 DEF TurnDealt
<1>. QED
  BY <1>4, <1>5

(* A turn of Fair PRB Split that ends within the frame deals every group   *)
(* of the PRBs, and the shares of two UEs differ by a group at most, those *)
(* of the first slots ahead, for every number of UEs and every bandwidth;  *)
(* it writes on other subframes only when its own has not got as many      *)
(* groups (mac.c:191).                                                     *)
THEOREM DealsFairly == Spec => DealtFairly
<1>. DEFINE A == (~ran /\ main = Between /\ subframe' # subframe) => TurnDealt
<1>1. IInv /\ TypeOK /\ [Next]_vars => [A]_vars
  <2>. SUFFICES ASSUME IInv, TypeOK, [Next]_vars, ~ran, subframe' # subframe
                PROVE  A
    OBVIOUS
  <2>1. FairSplitTurn
    BY DEF Next, vars, frame, ConfigureCell, Started, Attach, CallRan, Join, Detach, Leave, ToggleRan,
           ClearUsers, CopyUser, Overrun, RanTurn, RanServe, RanFill
  <2>. QED
    BY <2>1, TurnDeals
<1>. QED
  BY <1>1, IInvAlways, SchedulerTyped, PTL DEF Spec, DealtFairly, TurnDealt

=============================================================================
