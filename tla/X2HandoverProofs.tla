-------------------------- MODULE X2HandoverProofs ---------------------------
(***************************************************************************)
(* Proofs about X2Handover, for any network of eNBs, any threads that hand *)
(* over, and a network that may lose and repeat datagrams.                 *)
(*                                                                         *)
(* Each table stays coherent by itself, whatever the others send: ue_add   *)
(* makes sure of it at the target and ue_rem cannot break it at the source.*)
(* The invariant adds to TablesCoherent what ue_add relies on, that a free *)
(* slot is free as a whole (Coherent, TableProofs).                        *)
(***************************************************************************)
EXTENDS X2Handover, TableProofs

CoherentEverywhere ==
    \A e \in Enbs : Coherent(ues[e], {Cell0[e]})

IInv ==
    /\ TypeOK
    /\ CoherentEverywhere

-----------------------------------------------------------------------------
(* The initial spread of the subscribers leaves every table coherent. *)
LEMMA SpreadCoherent ==
    ASSUME NEW e \in Enbs,
           NEW place \in [Imsis -> Enbs \X Slots], NEW rnti \in [Imsis -> Candidates],
           \A m, n \in Imsis : m # n =>
                /\ place[m] # place[n]
                /\ place[m][1] = place[n][1] => rnti[m] # rnti[n],
           NEW t,
           t = [i \in Slots |->
                  IF \E m \in Imsis : place[m] = <<e, i>>
                  THEN LET m == CHOOSE m \in Imsis : place[m] = <<e, i>>
                       IN  [rnti |-> rnti[m], imsi |-> m, pci |-> Cell0[e]]
                  ELSE FreeSlot]
    PROVE  IsTable(t) /\ Coherent(t, {Cell0[e]})
<1>. DEFINE here == {i \in Slots : \E m \in Imsis : place[m] = <<e, i>>}
            who(i) == CHOOSE m \in Imsis : place[m] = <<e, i>>
<1>1. \A i \in here : /\ who(i) \in Imsis
                      /\ place[who(i)] = <<e, i>>
                      /\ t[i] = [rnti |-> rnti[who(i)], imsi |-> who(i), pci |-> Cell0[e]]
  OBVIOUS
<1>2. \A i \in Slots \ here : t[i] = FreeSlot
  OBVIOUS
<1>3. DOMAIN t = Slots /\ t = [i \in Slots |-> t[i]]
  OBVIOUS
<1>. HIDE DEF who
<1>4. Candidates \subseteq Rntis \ {NoRnti}
  BY SlotsAssumption DEF Candidates, Rntis, NoRnti
<1>5. Cell0[e] \in Pcis
  BY HandoverAssumption
<1>6. FreeSlot \in UE
  BY SlotsAssumption DEF FreeSlot, UE, Rntis, NoRnti
<1>7. \A i \in here : t[i] \in UE /\ t[i].rnti # NoRnti
  BY <1>1, <1>4, <1>5 DEF UE
<1>8. IsTable(t)
  BY <1>2, <1>3, <1>6, <1>7 DEF IsTable
<1>9. ActiveSlots(t) = here
  BY <1>2, <1>7 DEF ActiveSlots, FreeSlot
<1>10. \A i \in here : place[who(i)][1] = e /\ place[who(i)][2] = i
  <2>. SUFFICES ASSUME NEW i \in here
                PROVE  place[who(i)][1] = e /\ place[who(i)][2] = i
    OBVIOUS
  <2>1. place[who(i)] = <<e, i>>
    BY <1>1
  <2>. HIDE DEF here
  <2>. QED
    BY ONLY <2>1
<1>11. \A i, j \in here : rnti[who(i)] = rnti[who(j)] => i = j
  <2>. SUFFICES ASSUME NEW i \in here, NEW j \in here, i # j
                PROVE  rnti[who(i)] # rnti[who(j)]
    OBVIOUS
  <2>1. who(i) # who(j)
    BY <1>10
  <2>2. who(i) \in Imsis /\ who(j) \in Imsis
    BY <1>1
  <2>3. place[who(i)][1] = place[who(j)][1]
    BY <1>10
  <2>. QED
    BY <2>1, <2>2, <2>3
<1>12. \A i \in here : t[i].rnti = rnti[who(i)] /\ t[i].imsi = who(i) /\ t[i].pci = Cell0[e]
  BY <1>1
<1>13. \A i \in Slots : IF t[i].rnti = NoRnti
                        THEN t[i] = FreeSlot
                        ELSE t[i].imsi \in Imsis /\ t[i].pci \in {Cell0[e]}
  <2>. SUFFICES ASSUME NEW i \in Slots
                PROVE  IF t[i].rnti = NoRnti
                       THEN t[i] = FreeSlot
                       ELSE t[i].imsi \in Imsis /\ t[i].pci \in {Cell0[e]}
    OBVIOUS
  <2>1. CASE i \in here
    <3>1. who(i) \in Imsis /\ t[i].imsi = who(i) /\ t[i].pci = Cell0[e]
      BY <1>1, <1>12, <2>1
    <3>2. t[i].rnti # NoRnti
      BY <1>7, <2>1
    <3>. QED
      BY <3>1, <3>2
  <2>2. CASE i \notin here
    <3>1. t[i] = FreeSlot
      BY <1>2, <2>2
    <3>. QED
      BY <3>1 DEF FreeSlot
  <2>. QED
    BY <2>1, <2>2
<1>14. /\ \A i, j \in ActiveSlots(t) : t[i].imsi = t[j].imsi => i = j
       /\ \A i, j \in ActiveSlots(t) : t[i].rnti = t[j].rnti => i = j
  <2>1. \A i, j \in here : who(i) = who(j) => i = j
    BY <1>10
  <2>2. \A i, j \in here : t[i].imsi = t[j].imsi => i = j
    BY <1>12, <2>1
  <2>3. \A i, j \in here : t[i].rnti = t[j].rnti => i = j
    BY <1>11, <1>12
  <2>. QED
    BY <1>9, <2>2, <2>3
<1>. QED
  BY <1>8, <1>13, <1>14 DEF Coherent

LEMMA InitIInv ==
    Init => IInv
<1>. SUFFICES ASSUME Init PROVE IInv
  OBVIOUS
<1>1. PICK place \in [Imsis -> Enbs \X Slots], rnti \in [Imsis -> Candidates] :
          /\ \A m, n \in Imsis : m # n =>
                /\ place[m] # place[n]
                /\ place[m][1] = place[n][1] => rnti[m] # rnti[n]
          /\ ues = [e \in Enbs |-> [i \in Slots |->
                IF \E m \in Imsis : place[m] = <<e, i>>
                THEN LET m == CHOOSE m \in Imsis : place[m] = <<e, i>>
                     IN  [rnti |-> rnti[m], imsi |-> m, pci |-> Cell0[e]]
                ELSE FreeSlot]]
  BY DEF Init
<1>2. \A e \in Enbs : IsTable(ues[e]) /\ Coherent(ues[e], {Cell0[e]})
  <2>. SUFFICES ASSUME NEW e \in Enbs
                PROVE  IsTable(ues[e]) /\ Coherent(ues[e], {Cell0[e]})
    OBVIOUS
  <2>1. ues[e] = [i \in Slots |->
                IF \E m \in Imsis : place[m] = <<e, i>>
                THEN LET m == CHOOSE m \in Imsis : place[m] = <<e, i>>
                     IN  [rnti |-> rnti[m], imsi |-> m, pci |-> Cell0[e]]
                ELSE FreeSlot]
    BY <1>1
  <2>. QED
    BY <1>1, <2>1, SpreadCoherent
<1>3. ues = [e \in Enbs |-> ues[e]]
  BY <1>1
<1>4. ues \in [Enbs -> [Slots -> UE]]
  BY <1>2, <1>3 DEF IsTable
<1>5. pend \in [Enbs -> [Threads -> Rntis]]
  BY SlotsAssumption DEF Init, NoRnti, Rntis
<1>6. net \in [Msgs -> Nat]
  BY DEF Init
<1>. QED
  BY <1>2, <1>4, <1>5, <1>6 DEF IInv, TypeOK, CoherentEverywhere

-----------------------------------------------------------------------------
(* One table changes by a ue_rem. *)
LEMMA RemKeeps ==
    ASSUME IInv, NEW e \in Enbs, NEW r,
           ues' = [ues EXCEPT ![e] = RemUE(@, r)]
    PROVE  ues' \in [Enbs -> [Slots -> UE]] /\ CoherentEverywhere'
<1>1. IsTable(ues[e]) /\ Coherent(ues[e], {Cell0[e]})
  BY DEF IInv, TypeOK, CoherentEverywhere, IsTable
<1>2. IsTable(RemUE(ues[e], r)) /\ Coherent(RemUE(ues[e], r), {Cell0[e]})
  BY <1>1, RemUEType, RemUECoherent
<1>3. /\ ues' \in [Enbs -> [Slots -> UE]]
      /\ ues'[e] = RemUE(ues[e], r)
      /\ \A f \in Enbs \ {e} : ues'[f] = ues[f]
  BY <1>2 DEF IInv, TypeOK, IsTable
<1>4. \A f \in Enbs : Coherent(ues'[f], {Cell0[f]})
  BY <1>2, <1>3 DEF IInv, CoherentEverywhere
<1>. QED
  BY <1>3, <1>4 DEF CoherentEverywhere

(* One copy of a datagram more or less is still a count. *)
LEMMA NetType ==
    ASSUME net \in [Msgs -> Nat], NEW x \in Msgs
    PROVE  /\ [net EXCEPT ![x] = @ + 1] \in [Msgs -> Nat]
           /\ net[x] > 0 => [net EXCEPT ![x] = @ - 1] \in [Msgs -> Nat]
OBVIOUS

LEMMA HandOverIInv ==
    ASSUME IInv, NEW e \in Enbs, NEW t \in Threads, NEW i \in Slots, NEW d \in Enbs,
           HandOver(e, t, i, d)
    PROVE  IInv'
<1>1. ues[e][i].rnti \in Rntis
  BY DEF IInv, TypeOK, UE
<1>2. pend' \in [Enbs -> [Threads -> Rntis]]
  BY <1>1 DEF HandOver, IInv, TypeOK
<1>. DEFINE x == [src |-> e, dst |-> d, imsi |-> ues[e][i].imsi, rnti |-> ues[e][i].rnti]
<1>3. x \in Msgs
  <2>1. ues[e][i].imsi \in Imsis /\ ues[e][i].rnti # NoRnti /\ d \in Neigh[e]
    BY DEF HandOver, IInv, CoherentEverywhere, Coherent, ActiveSlots
  <2>. QED
    BY <1>1, <2>1 DEF Msgs
<1>4. net' = [net EXCEPT ![x] = @ + 1]
  BY DEF HandOver
<1>. HIDE DEF x
<1>5. net' \in [Msgs -> Nat]
  BY <1>3, <1>4, NetType DEF IInv, TypeOK
<1>. QED
  BY <1>2, <1>5 DEF HandOver, IInv, TypeOK, CoherentEverywhere, Coherent, ActiveSlots

LEMMA RemoveSentIInv ==
    ASSUME IInv, NEW e \in Enbs, NEW t \in Threads, RemoveSent(e, t)
    PROVE  IInv'
<1>1. ues' \in [Enbs -> [Slots -> UE]] /\ CoherentEverywhere'
  BY RemKeeps DEF RemoveSent
<1>2. NoRnti \in Rntis
  BY SlotsAssumption DEF NoRnti, Rntis
<1>. QED
  BY <1>1, <1>2 DEF RemoveSent, IInv, TypeOK

LEMMA OperatorRemoveIInv ==
    ASSUME IInv, NEW e \in Enbs, NEW i \in Slots, OperatorRemove(e, i)
    PROVE  IInv'
<1>1. ues' \in [Enbs -> [Slots -> UE]] /\ CoherentEverywhere'
  BY RemKeeps DEF OperatorRemove
<1>. QED
  BY <1>1 DEF OperatorRemove, IInv, TypeOK

(* What arrives is compared with every slot before it is let in. *)
LEMMA HandoverAcceptedIInv ==
    ASSUME IInv, NEW x \in Msgs, HandoverAccepted(x)
    PROVE  IInv'
<1>. DEFINE e == x.dst
<1>1. e \in Enbs /\ x.imsi \in Imsis
  BY DEF Msgs
<1>2. PICK asked \in Candidates : \E rnti \in AssignedRntis(ues[e], asked) :
          ues' = [ues EXCEPT ![e] = AddUE(@, rnti, x.imsi, Cell0[e])]
  BY DEF HandoverAccepted
<1>3. PICK rnti \in AssignedRntis(ues[e], asked) :
          ues' = [ues EXCEPT ![e] = AddUE(@, rnti, x.imsi, Cell0[e])]
  BY <1>2
<1>4. AddResult(ues[e], x.imsi, Cell0[e], {Cell0[e]}) = "SUCCESS"
  BY DEF HandoverAccepted
<1>5. IsTable(ues[e]) /\ Coherent(ues[e], {Cell0[e]})
  BY <1>1 DEF IInv, TypeOK, CoherentEverywhere, IsTable
<1>6. asked \in Rntis /\ Cell0[e] \in Pcis
  BY <1>1, SlotsAssumption, HandoverAssumption DEF Candidates, Rntis
<1>7. FreeSlots(ues[e]) # {}
  BY <1>4 DEF AddResult
<1>. DEFINE u == AddUE(ues[e], rnti, x.imsi, Cell0[e])
<1>8. rnti \in Rntis
  BY <1>5, <1>6, <1>7, AssignedIsFresh
<1>9. IsTable(u)
  BY <1>1, <1>5, <1>6, <1>8, AddUEType
<1>10. Coherent(u, {Cell0[e]})
  BY <1>1, <1>4, <1>5, <1>6, AddUECoherent
<1>11. ues' = [ues EXCEPT ![e] = u]
  BY <1>3
<1>. HIDE DEF u
<1>12. ues' \in [Enbs -> [Slots -> UE]]
  BY <1>1, <1>9, <1>11 DEF IInv, TypeOK, IsTable
<1>13. \A f \in Enbs : Coherent(ues'[f], {Cell0[f]})
  BY <1>1, <1>10, <1>11 DEF IInv, TypeOK, CoherentEverywhere
<1>14. net' \in [Msgs -> Nat]
  BY NetType DEF HandoverAccepted, IInv, TypeOK
<1>. QED
  BY <1>12, <1>13, <1>14 DEF HandoverAccepted, IInv, TypeOK, CoherentEverywhere

(* Refusals, losses and repetitions change no table. *)
LEMMA NetworkIInv ==
    ASSUME IInv, NEW x \in Msgs,
           HandoverRefused(x) \/ Drop(x) \/ Duplicate(x)
    PROVE  IInv'
<1>1. net' \in [Msgs -> Nat]
  BY NetType DEF HandoverRefused, Drop, Duplicate, IInv, TypeOK
<1>2. UNCHANGED <<ues, pend>>
  BY DEF HandoverRefused, Drop, Duplicate
<1>3. CoherentEverywhere'
  BY <1>2 DEF IInv, CoherentEverywhere, Coherent, ActiveSlots
<1>. QED
  BY <1>1, <1>2, <1>3 DEF IInv, TypeOK

LEMMA NextIInv ==
    IInv /\ [Next]_vars => IInv'
<1>. SUFFICES ASSUME IInv, [Next]_vars PROVE IInv'
  OBVIOUS
<1>1. ASSUME NEW e \in Enbs, NEW t \in Threads, NEW i \in Slots, NEW d \in Enbs,
             HandOver(e, t, i, d)
      PROVE  IInv'
  BY <1>1, HandOverIInv
<1>2. ASSUME NEW e \in Enbs, NEW t \in Threads, RemoveSent(e, t)
      PROVE  IInv'
  BY <1>2, RemoveSentIInv
<1>3. ASSUME NEW e \in Enbs, NEW i \in Slots, OperatorRemove(e, i)
      PROVE  IInv'
  BY <1>3, OperatorRemoveIInv
<1>4. ASSUME NEW x \in Msgs, Receive(x)
      PROVE  IInv'
  BY <1>4, HandoverAcceptedIInv, NetworkIInv DEF Receive
<1>5. ASSUME NEW x \in Msgs, Drop(x) \/ Duplicate(x)
      PROVE  IInv'
  BY <1>5, NetworkIInv
<1>6. CASE UNCHANGED vars
  BY <1>6 DEF vars, IInv, TypeOK, CoherentEverywhere, Coherent, ActiveSlots
<1>. QED
  BY <1>1, <1>2, <1>3, <1>4, <1>5, <1>6 DEF Next

LEMMA IInvAlways == Spec => []IInv
BY InitIInv, NextIInv, PTL DEF Spec

-----------------------------------------------------------------------------
(* Every table, pending removal and count of datagrams keeps its type,     *)
(* whatever threads of whatever eNBs hand over to each other (x2.c).       *)
THEOREM HandoverTypeCorrect == Spec => []TypeOK
<1>1. IInv => TypeOK
  BY DEF IInv
<1>. QED
  BY <1>1, IInvAlways, PTL

(* No eNB ever holds a subscriber or an RNTI twice: a datagram that comes  *)
(* twice, or after its UE has moved on, is stopped by the comparison in    *)
(* ue_add, and the ue_rem that follows a hand-over only frees slots.       *)
THEOREM HandoverKeepsTables == Spec => []TablesCoherent
<1>1. IInv => TablesCoherent
  BY DEF IInv, CoherentEverywhere, Coherent, TablesCoherent
<1>. QED
  BY <1>1, IInvAlways, PTL

-----------------------------------------------------------------------------
(* A headless network that repeats nothing: one thread per eNB hands over, *)
(* so what it is about to remove is still what it has sent (SentPresent),  *)
(* and every subscriber is in one place at most.                           *)

Headless ==
    /\ \E agent : Threads = {agent}
    /\ UI \notin Threads
    /\ Duplicating = FALSE

SentPresent ==
    \A e \in Enbs, t \in Threads :
        pend[e][t] # NoRnti => \E i \in Slots : ues[e][i].rnti = pend[e][t]

OnePlace ==
    /\ \A e, f \in Enbs : \A m \in Imsis :
          m \in Settled(e) /\ m \in Settled(f) => e = f
    /\ \A x \in Msgs : net[x] <= 1
    /\ \A x, y \in Msgs : net[x] > 0 /\ net[y] > 0 /\ x.imsi = y.imsi => x = y
    /\ \A x \in Msgs : \A e \in Enbs : net[x] > 0 => x.imsi \notin Settled(e)

HInv == IInv /\ SentPresent /\ OnePlace

(* What the steps of a headless network do to the subscribers. *)
Departs(x) ==
    /\ x.imsi \in Settled(x.src)
    /\ Settled(x.src)' = Settled(x.src) \ {x.imsi}
    /\ \A e \in Enbs \ {x.src} : Settled(e)' = Settled(e)
    /\ net' = [net EXCEPT ![x] = @ + 1]

Arrives(x) ==
    /\ net[x] > 0
    /\ Settled(x.dst)' = Settled(x.dst) \cup {x.imsi}
    /\ \A e \in Enbs \ {x.dst} : Settled(e)' = Settled(e)
    /\ net' = [net EXCEPT ![x] = @ - 1]

Vanishes(x) ==
    /\ net[x] > 0
    /\ \A e \in Enbs : Settled(e)' = Settled(e)
    /\ net' = [net EXCEPT ![x] = @ - 1]
    /\ x.dst \in Lossy \/ NoRoom(x)

Rests ==
    /\ \A e \in Enbs : Settled(e)' = Settled(e)
    /\ net' = net

Moves == Rests \/ \E x \in Msgs : Departs(x) \/ Arrives(x) \/ Vanishes(x)

LEMMA SettledAt ==
    ASSUME NEW e, NEW m
    PROVE  m \in Settled(e) <=>
              \E i \in Slots : /\ ues[e][i].rnti # NoRnti
                               /\ ues[e][i].imsi = m
                               /\ \A t \in Threads : pend[e][t] # ues[e][i].rnti
BY DEF Settled, ActiveSlots

(* The same in the next state. *)
LEMMA SettledNext ==
    ASSUME NEW e, NEW m
    PROVE  m \in Settled(e)' <=>
              \E i \in Slots : /\ ues'[e][i].rnti # NoRnti
                               /\ ues'[e][i].imsi = m
                               /\ \A t \in Threads : pend'[e][t] # ues'[e][i].rnti
BY DEF Settled, ActiveSlots

LEMMA SettledAlone ==
    ASSUME NEW e, ues'[e] = ues[e], pend'[e] = pend[e]
    PROVE  Settled(e)' = Settled(e)
BY DEF Settled, ActiveSlots

(* The UE that is sent is settled no more, though it is still in its slot. *)
LEMMA HandOverMoves ==
    ASSUME IInv, Headless, SentPresent,
           NEW e \in Enbs, NEW t \in Threads, NEW i \in Slots, NEW d \in Enbs,
           HandOver(e, t, i, d)
    PROVE  Moves /\ SentPresent'
<1>. DEFINE x == [src |-> e, dst |-> d, imsi |-> ues[e][i].imsi, rnti |-> ues[e][i].rnti]
<1>1. Coherent(ues[e], {Cell0[e]}) /\ IsTable(ues[e])
  BY DEF IInv, CoherentEverywhere, TypeOK, IsTable
<1>2. i \in ActiveSlots(ues[e]) /\ ues[e][i].rnti # NoRnti
  BY DEF HandOver, ActiveSlots
<1>3. ues[e][i].imsi \in Imsis /\ ues[e][i].rnti \in Rntis
  BY <1>1, <1>2 DEF Coherent, IsTable, UE
<1>4. x \in Msgs
  BY <1>2, <1>3 DEF HandOver, Msgs
<1>5. Threads = {t} /\ pend[e][t] = NoRnti
  BY DEF Headless, HandOver
<1>6. ues' = ues /\ net' = [net EXCEPT ![x] = @ + 1]
  BY DEF HandOver
<1>7. /\ pend'[e][t] = ues[e][i].rnti
      /\ \A f \in Enbs \ {e} : pend'[f] = pend[f]
  BY DEF HandOver, IInv, TypeOK
<1>8. \A j \in Slots : ues[e][j].rnti # NoRnti /\ j # i =>
          ues[e][j].rnti # ues[e][i].rnti /\ ues[e][j].imsi # ues[e][i].imsi
  BY <1>1, <1>2 DEF Coherent, ActiveSlots
<1>9. ues[e][i].imsi \in Settled(e)
  BY <1>2, <1>5, SettledAt
<1>10. Settled(e)' = Settled(e) \ {ues[e][i].imsi}
  <2>1. ASSUME NEW m
        PROVE  m \in Settled(e)' <=> m \in Settled(e) /\ m # ues[e][i].imsi
    <3>1. m \in Settled(e)' <=>
             \E j \in Slots : /\ ues[e][j].rnti # NoRnti
                              /\ ues[e][j].imsi = m
                              /\ ues[e][i].rnti # ues[e][j].rnti
      BY <1>5, <1>6, <1>7, SettledNext
    <3>2. m \in Settled(e) <=>
             \E j \in Slots : ues[e][j].rnti # NoRnti /\ ues[e][j].imsi = m
      BY <1>5, SettledAt
    <3>. QED
      BY <1>8, <3>1, <3>2
  <2>. QED
    BY <2>1
<1>11. \A f \in Enbs \ {e} : Settled(f)' = Settled(f)
  BY <1>6, <1>7, SettledAlone
<1>12. Departs(x)
  BY <1>6, <1>9, <1>10, <1>11 DEF Departs
<1>13. SentPresent'
  BY <1>5, <1>6, <1>7 DEF SentPresent
<1>. QED
  BY <1>4, <1>12, <1>13 DEF Moves

(* The removal that follows changes nothing for the subscribers: the UE it *)
(* takes out of its slot is the one that was sent.                         *)
LEMMA RemoveSentMoves ==
    ASSUME IInv, Headless, SentPresent,
           NEW e \in Enbs, NEW t \in Threads, RemoveSent(e, t)
    PROVE  Moves /\ SentPresent'
<1>. DEFINE r == pend[e][t]
<1>1. Coherent(ues[e], {Cell0[e]}) /\ IsTable(ues[e]) /\ r \in Rntis \ {NoRnti}
  BY DEF IInv, CoherentEverywhere, TypeOK, IsTable, RemoveSent
<1>2. Threads = {t}
  BY DEF Headless
<1>3. /\ ues'[e] = RemUE(ues[e], r)
      /\ pend'[e][t] = NoRnti
      /\ \A f \in Enbs \ {e} : ues'[f] = ues[f] /\ pend'[f] = pend[f]
      /\ net' = net
  BY DEF RemoveSent, IInv, TypeOK
<1>4. \A i \in Slots : ues'[e][i] = ues[e][i] \/ (ues[e][i].rnti = r /\ ues'[e][i] = FreeSlot)
  BY <1>1, <1>3, RemUESlots
<1>5. \A i \in Slots : ues'[e][i].rnti # NoRnti =>
          ues'[e][i] = ues[e][i] /\ ues[e][i].rnti # r
  BY <1>1, <1>3, <1>4, RemUERemoves DEF ActiveSlots, FreeSlot
<1>6. Settled(e)' = Settled(e)
  <2>1. ASSUME NEW m
        PROVE  m \in Settled(e)' <=> m \in Settled(e)
    <3>1. m \in Settled(e)' <=>
             \E i \in Slots : ues'[e][i].rnti # NoRnti /\ ues'[e][i].imsi = m
      BY <1>2, <1>3, SettledNext
    <3>2. m \in Settled(e) <=>
             \E i \in Slots : /\ ues[e][i].rnti # NoRnti
                              /\ ues[e][i].imsi = m
                              /\ ues[e][i].rnti # r
      BY <1>2, SettledAt
    <3>. QED
      BY <1>4, <1>5, <3>1, <3>2
  <2>. QED
    BY <2>1
<1>7. \A f \in Enbs \ {e} : Settled(f)' = Settled(f)
  BY <1>3, SettledAlone
<1>8. SentPresent'
  BY <1>2, <1>3 DEF SentPresent
<1>. QED
  BY <1>3, <1>6, <1>7, <1>8 DEF Moves, Rests

(* A UE that is let in gets an RNTI that is not about to be removed. *)
LEMMA AcceptedMoves ==
    ASSUME IInv, Headless, SentPresent, NEW x \in Msgs, HandoverAccepted(x)
    PROVE  Moves /\ SentPresent'
<1>. DEFINE e == x.dst
<1>1. e \in Enbs /\ x.imsi \in Imsis
  BY DEF Msgs
<1>2. PICK asked \in Candidates : \E rnti \in AssignedRntis(ues[e], asked) :
          ues' = [ues EXCEPT ![e] = AddUE(@, rnti, x.imsi, Cell0[e])]
  BY DEF HandoverAccepted
<1>3. PICK rnti \in AssignedRntis(ues[e], asked) :
          ues' = [ues EXCEPT ![e] = AddUE(@, rnti, x.imsi, Cell0[e])]
  BY <1>2
<1>4. IsTable(ues[e])
  BY <1>1 DEF IInv, TypeOK, IsTable
<1>5. FreeSlots(ues[e]) # {}
  BY DEF HandoverAccepted, AddResult
<1>6. asked \in Rntis
  BY SlotsAssumption DEF Candidates, Rntis
<1>7. rnti \in Rntis \ {NoRnti} /\ rnti \notin RntisOf(ues[e])
  BY <1>4, <1>5, <1>6, AssignedIsFresh
<1>. DEFINE f == Min(FreeSlots(ues[e]))
<1>8. f \in Slots /\ ues[e][f].rnti = NoRnti
  BY <1>5, FirstFree
<1>9. ues'[e] = AddUE(ues[e], rnti, x.imsi, Cell0[e]) /\ \A g \in Enbs \ {e} : ues'[g] = ues[g]
  BY <1>1, <1>3 DEF IInv, TypeOK
<1>10. /\ ues'[e][f] = [rnti |-> rnti, imsi |-> x.imsi, pci |-> Cell0[e]]
       /\ \A i \in Slots \ {f} : ues'[e][i] = ues[e][i]
  BY <1>4, <1>5, <1>7, <1>9, AddUESlots
<1>. HIDE DEF f
<1>11. pend' = pend /\ net[x] > 0 /\ net' = [net EXCEPT ![x] = @ - 1]
  BY DEF HandoverAccepted
<1>12. \A t \in Threads : pend[e][t] # rnti
  <2>. SUFFICES ASSUME NEW t \in Threads, pend[e][t] = rnti PROVE FALSE
    OBVIOUS
  <2>1. \E i \in Slots : ues[e][i].rnti = rnti
    BY <1>1, <1>7 DEF SentPresent
  <2>. QED
    BY <1>7, <2>1 DEF RntisOf
<1>13. Settled(e)' = Settled(e) \cup {x.imsi}
  <2>1. ASSUME NEW m
        PROVE  m \in Settled(e)' <=> m \in Settled(e) \/ m = x.imsi
    <3>1. m \in Settled(e)' <=>
             \E i \in Slots : /\ ues'[e][i].rnti # NoRnti
                              /\ ues'[e][i].imsi = m
                              /\ \A t \in Threads : pend[e][t] # ues'[e][i].rnti
      BY <1>11, SettledNext
    <3>2. m \in Settled(e) <=>
             \E i \in Slots : /\ ues[e][i].rnti # NoRnti
                              /\ ues[e][i].imsi = m
                              /\ \A t \in Threads : pend[e][t] # ues[e][i].rnti
      BY SettledAt
    <3>3. ues'[e][f].rnti = rnti /\ ues'[e][f].imsi = x.imsi
      BY <1>10
    <3>. QED
      BY <1>7, <1>8, <1>10, <1>12, <3>1, <3>2, <3>3
  <2>. QED
    BY <2>1
<1>14. \A g \in Enbs \ {e} : Settled(g)' = Settled(g)
  BY <1>9, <1>11, SettledAlone
<1>15. Arrives(x)
  BY <1>11, <1>13, <1>14 DEF Arrives
<1>16. SentPresent'
  <2>. SUFFICES ASSUME NEW g \in Enbs, NEW t \in Threads, pend[g][t] # NoRnti
                PROVE  \E i \in Slots : ues'[g][i].rnti = pend[g][t]
    BY <1>11 DEF SentPresent
  <2>1. PICK i \in Slots : ues[g][i].rnti = pend[g][t]
    BY DEF SentPresent
  <2>2. ues'[g][i] = ues[g][i]
    BY <1>8, <1>9, <1>10, <2>1
  <2>. QED
    BY <2>1, <2>2
<1>. QED
  BY <1>15, <1>16 DEF Moves

(* ue_add has refused the UE for want of a slot, or since it has come back *)
(* while the removal that follows its own departure is still to come.      *)
LEMMA RefusedForRoom ==
    ASSUME IInv, OnePlace, NEW x \in Msgs, HandoverRefused(x)
    PROVE  NoRoom(x)
<1>. DEFINE e == x.dst
<1>1. e \in Enbs /\ x.imsi \in Imsis
  BY DEF Msgs
<1>2. Coherent(ues[e], {Cell0[e]}) /\ net[x] > 0
  BY <1>1 DEF IInv, CoherentEverywhere, HandoverRefused
<1>3. CASE x.imsi \notin ImsisOf(ues[e])
  <2>1. FreeSlots(ues[e]) = {}
    BY <1>3 DEF HandoverRefused, AddResult
  <2>. QED
    BY <2>1 DEF NoRoom
<1>4. CASE x.imsi \in ImsisOf(ues[e])
  <2>1. PICK i \in Slots : ues[e][i].imsi = x.imsi
    BY <1>4 DEF ImsisOf
  <2>2. i \in ActiveSlots(ues[e]) /\ ues[e][i].rnti # NoRnti
    BY <1>1, <1>2, <2>1, SlotsAssumption DEF Coherent, FreeSlot, ActiveSlots
  <2>3. x.imsi \notin Settled(e)
    BY <1>1, <1>2 DEF OnePlace
  <2>4. \E t \in Threads : pend[e][t] = ues[e][i].rnti
    BY <2>1, <2>2, <2>3, SettledAt
  <2>. QED
    BY <2>1, <2>2, <2>4 DEF NoRoom
<1>. QED
  BY <1>3, <1>4

LEMMA NextMoves ==
    ASSUME IInv, Headless, SentPresent, OnePlace, [Next]_vars
    PROVE  Moves /\ SentPresent'
<1>1. ASSUME NEW x \in Msgs, HandoverRefused(x) \/ Drop(x)
      PROVE  Moves /\ SentPresent'
  <2>0. x.dst \in Lossy \/ NoRoom(x)
    BY <1>1, RefusedForRoom DEF Drop
  <2>1. Vanishes(x)
    BY <1>1, <2>0, SettledAlone DEF HandoverRefused, Drop, Vanishes
  <2>2. SentPresent'
    BY <1>1 DEF HandoverRefused, Drop, SentPresent
  <2>. QED
    BY <2>1, <2>2 DEF Moves
<1>2. CASE UNCHANGED vars
  <2>1. Rests
    BY <1>2, SettledAlone DEF vars, Rests
  <2>2. SentPresent'
    BY <1>2 DEF vars, SentPresent
  <2>. QED
    BY <2>1, <2>2 DEF Moves
<1>3. ASSUME NEW e \in Enbs, NEW i \in Slots PROVE ~ OperatorRemove(e, i)
  BY DEF Headless, OperatorRemove
<1>4. ASSUME NEW x \in Msgs PROVE ~ Duplicate(x)
  BY DEF Headless, Duplicate
<1>. QED
  BY <1>1, <1>2, <1>3, <1>4, HandOverMoves, RemoveSentMoves, AcceptedMoves DEF Next, Receive

(* One copy more or less of one datagram, in terms of what is in flight. *)
LEMMA NetMore ==
    ASSUME net \in [Msgs -> Nat], NEW x \in Msgs, net' = [net EXCEPT ![x] = @ + 1]
    PROVE  net'[x] = net[x] + 1 /\ \A y \in Msgs \ {x} : net'[y] = net[y]
OBVIOUS

LEMMA NetLess ==
    ASSUME net \in [Msgs -> Nat], NEW x \in Msgs, net' = [net EXCEPT ![x] = @ - 1]
    PROVE  net'[x] = net[x] - 1 /\ \A y \in Msgs \ {x} : net'[y] = net[y]
OBVIOUS

(* A move takes a subscriber from its one place to another one. *)
LEMMA DepartsKeeps ==
    ASSUME TypeOK, OnePlace, NEW x \in Msgs, Departs(x)
    PROVE  OnePlace'
<1>1. x.src \in Enbs /\ x.imsi \in Imsis
  BY DEF Msgs
<1>2. net[x] = 0 /\ \A y \in Msgs : y.imsi = x.imsi => net[y] = 0
  BY <1>1 DEF Departs, OnePlace, TypeOK
<1>3. net'[x] = 1 /\ \A y \in Msgs \ {x} : net'[y] = net[y]
  BY <1>2, NetMore DEF Departs, TypeOK
<1>4. \A e \in Enbs, m \in Imsis :
          m \in Settled(e)' <=> m \in Settled(e) /\ m # x.imsi
  BY <1>1 DEF Departs, OnePlace
<1>5. OnePlace'
  <2>1. \A e, f \in Enbs : \A m \in Imsis : m \in Settled(e)' /\ m \in Settled(f)' => e = f
    BY <1>4 DEF OnePlace
  <2>2. \A y \in Msgs : net'[y] <= 1
    BY <1>3 DEF OnePlace, TypeOK
  <2>3. \A y, z \in Msgs : net'[y] > 0 /\ net'[z] > 0 /\ y.imsi = z.imsi => y = z
    BY <1>2, <1>3 DEF OnePlace, TypeOK
  <2>4. \A y \in Msgs : y.imsi \in Imsis
    BY DEF Msgs
  <2>5. \A y \in Msgs : \A e \in Enbs : net'[y] > 0 => y.imsi \notin Settled(e)'
    BY <1>2, <1>3, <1>4, <2>4 DEF OnePlace
  <2>. QED
    BY <2>1, <2>2, <2>3, <2>5 DEF OnePlace
<1>. QED
  BY <1>5

LEMMA ArrivesKeeps ==
    ASSUME TypeOK, OnePlace, NEW x \in Msgs, Arrives(x)
    PROVE  OnePlace'
<1>1. x.dst \in Enbs /\ x.imsi \in Imsis
  BY DEF Msgs
<1>2. net[x] = 1 /\ \A y \in Msgs : y.imsi = x.imsi /\ y # x => net[y] = 0
  BY DEF Arrives, OnePlace, TypeOK
<1>3. net'[x] = 0 /\ \A y \in Msgs \ {x} : net'[y] = net[y]
  BY <1>2, NetLess DEF Arrives, TypeOK
<1>4. \A e \in Enbs, m \in Imsis :
          m \in Settled(e)' <=> m \in Settled(e) \/ (m = x.imsi /\ e = x.dst)
  BY <1>1 DEF Arrives
<1>5. \A e \in Enbs : x.imsi \notin Settled(e)
  BY <1>2 DEF OnePlace
<1>6. OnePlace'
  <2>1. \A e, f \in Enbs : \A m \in Imsis : m \in Settled(e)' /\ m \in Settled(f)' => e = f
    BY <1>4, <1>5 DEF OnePlace
  <2>2. \A y \in Msgs : net'[y] <= 1
    BY <1>3 DEF OnePlace, TypeOK
  <2>3. \A y, z \in Msgs : net'[y] > 0 /\ net'[z] > 0 /\ y.imsi = z.imsi => y = z
    BY <1>3 DEF OnePlace, TypeOK
  <2>4. \A y \in Msgs : y.imsi \in Imsis
    BY DEF Msgs
  <2>5. \A y \in Msgs : \A e \in Enbs : net'[y] > 0 => y.imsi \notin Settled(e)'
    <3>. SUFFICES ASSUME NEW y \in Msgs, NEW e \in Enbs, net'[y] > 0
                  PROVE  y.imsi \notin Settled(e)'
      OBVIOUS
    <3>1. y # x /\ net[y] > 0
      BY <1>3
    <3>2. y.imsi # x.imsi /\ y.imsi \notin Settled(e)
      BY <1>2, <3>1 DEF OnePlace
    <3>. QED
      BY <1>4, <2>4, <3>2
  <2>. QED
    BY <2>1, <2>2, <2>3, <2>5 DEF OnePlace
<1>. QED
  BY <1>6

LEMMA VanishesKeeps ==
    ASSUME TypeOK, OnePlace, NEW x \in Msgs, Vanishes(x)
    PROVE  OnePlace'
<1>1. net'[x] = net[x] - 1 /\ \A y \in Msgs \ {x} : net'[y] = net[y]
  BY NetLess DEF Vanishes, TypeOK
<1>2. \A y \in Msgs : net[y] \in Nat /\ (net'[y] > 0 => net[y] > 0) /\ net'[y] <= net[y]
  BY <1>1 DEF TypeOK
<1>3. OnePlace'
  <2>1. \A y \in Msgs : net'[y] <= 1
    BY <1>1 DEF OnePlace, TypeOK
  <2>. QED
    BY <1>2, <2>1 DEF OnePlace, Vanishes
<1>. QED
  BY <1>3

LEMMA NextHInv ==
    ASSUME Headless, HInv, [Next]_vars
    PROVE  HInv'
<1>1. IInv' /\ Moves /\ SentPresent'
  BY NextIInv, NextMoves DEF HInv
<1>2. TypeOK /\ OnePlace
  BY DEF HInv, IInv
<1>3. ASSUME Rests PROVE OnePlace'
  BY <1>2, <1>3 DEF Rests, OnePlace
<1>4. ASSUME NEW x \in Msgs, Departs(x) \/ Arrives(x) \/ Vanishes(x)
      PROVE  OnePlace'
  BY <1>2, <1>4, DepartsKeeps, ArrivesKeeps, VanishesKeeps
<1>5. OnePlace'
  BY <1>1, <1>3, <1>4 DEF Moves
<1>. QED
  BY <1>1, <1>5 DEF HInv

(* The scenario files put each subscriber at one eNB. *)
LEMMA InitHInv ==
    ASSUME Headless, Init
    PROVE  HInv /\ \A m \in Imsis : \E e \in Enbs : m \in Settled(e)
<1>1. PICK place \in [Imsis -> Enbs \X Slots], rnti \in [Imsis -> Candidates] :
          /\ \A m, n \in Imsis : m # n =>
                /\ place[m] # place[n]
                /\ place[m][1] = place[n][1] => rnti[m] # rnti[n]
          /\ ues = [e \in Enbs |-> [i \in Slots |->
                IF \E m \in Imsis : place[m] = <<e, i>>
                THEN LET m == CHOOSE m \in Imsis : place[m] = <<e, i>>
                     IN  [rnti |-> rnti[m], imsi |-> m, pci |-> Cell0[e]]
                ELSE FreeSlot]]
  BY DEF Init
<1>2. \A e \in Enbs, i \in Slots, m \in Imsis : place[m] = <<e, i>> =>
          ues[e][i] = [rnti |-> rnti[m], imsi |-> m, pci |-> Cell0[e]]
  <2>. SUFFICES ASSUME NEW e \in Enbs, NEW i \in Slots, NEW m \in Imsis, place[m] = <<e, i>>
                PROVE  ues[e][i] = [rnti |-> rnti[m], imsi |-> m, pci |-> Cell0[e]]
    OBVIOUS
  <2>. DEFINE n == CHOOSE n \in Imsis : place[n] = <<e, i>>
  <2>1. n \in Imsis /\ place[n] = <<e, i>>
    OBVIOUS
  <2>2. n = m
    <3>. HIDE DEF n
    <3>. QED
      BY <1>1, <2>1
  <2>3. ues[e][i] = [rnti |-> rnti[n], imsi |-> n, pci |-> Cell0[e]]
    BY <1>1
  <2>. HIDE DEF n
  <2>. QED
    BY <2>2, <2>3
<1>3. \A e \in Enbs, i \in Slots : ues[e][i].rnti # NoRnti =>
          ues[e][i].imsi \in Imsis /\ place[ues[e][i].imsi] = <<e, i>>
  <2>. SUFFICES ASSUME NEW e \in Enbs, NEW i \in Slots, ues[e][i].rnti # NoRnti
                PROVE  ues[e][i].imsi \in Imsis /\ place[ues[e][i].imsi] = <<e, i>>
    OBVIOUS
  <2>1. PICK m \in Imsis : place[m] = <<e, i>>
    BY <1>1 DEF FreeSlot
  <2>2. ues[e][i] = [rnti |-> rnti[m], imsi |-> m, pci |-> Cell0[e]]
    BY <1>2, <2>1, Zenon
  <2>3. ues[e][i].imsi = m
    BY ONLY <2>2
  <2>. QED
    BY <2>1, <2>3
<1>4. \A e \in Enbs, t \in Threads : pend[e][t] = NoRnti
  BY DEF Init
<1>5. \A m \in Imsis : rnti[m] # NoRnti
  BY DEF Candidates, NoRnti
<1>6. \A x \in Msgs : net[x] = 0
  BY DEF Init
<1>7. \A e \in Enbs, m \in Imsis : m \in Settled(e) <=> \E i \in Slots : place[m] = <<e, i>>
  <2>. SUFFICES ASSUME NEW e \in Enbs, NEW m \in Imsis
                PROVE  m \in Settled(e) <=> \E i \in Slots : place[m] = <<e, i>>
    OBVIOUS
  <2>1. ASSUME NEW i \in Slots, place[m] = <<e, i>> PROVE m \in Settled(e)
    <3>0. ues[e][i] = [rnti |-> rnti[m], imsi |-> m, pci |-> Cell0[e]]
      BY <1>2, <2>1, Zenon
    <3>1. ues[e][i].rnti = rnti[m] /\ ues[e][i].imsi = m
      BY ONLY <3>0
    <3>2. ues[e][i].rnti # NoRnti /\ \A t \in Threads : pend[e][t] # ues[e][i].rnti
      BY <1>4, <1>5, <3>1
    <3>. QED
      BY <3>1, <3>2, SettledAt
  <2>2. ASSUME m \in Settled(e) PROVE \E i \in Slots : place[m] = <<e, i>>
    BY <1>3, <2>2, SettledAt
  <2>. QED
    BY <2>1, <2>2
<1>8. \A m \in Imsis : \E e \in Enbs : m \in Settled(e)
  <2>1. \A m \in Imsis : \E e \in Enbs, i \in Slots : place[m] = <<e, i>>
    BY <1>1
  <2>. QED
    BY <1>7, <2>1
<1>9. \A e, f \in Enbs, m \in Imsis : m \in Settled(e) /\ m \in Settled(f) => e = f
  BY <1>7
<1>10. OnePlace
  BY <1>6, <1>9 DEF OnePlace
<1>11. SentPresent
  BY <1>4 DEF SentPresent
<1>. QED
  BY <1>8, <1>10, <1>11, InitIInv DEF HInv

-----------------------------------------------------------------------------
LEMMA HoldersAre ==
    ASSUME NEW m, NEW h \in Holders(m)
    PROVE  \/ \E e \in Enbs : h = <<e>> /\ m \in Settled(e)
           \/ \E x \in Msgs : \E k \in 1 .. net[x] : h = <<x, k>> /\ x.imsi = m
BY DEF Holders, Flying

(* A headless network never clones a UE: whatever the interleaving of      *)
(* sending, removing, receiving and losing (wrap.c:228, x2.c:318), a       *)
(* subscriber is at one eNB or in one datagram.                            *)
THEOREM HeadlessNeverClones ==
    ASSUME Headless
    PROVE  Spec => []NoClone
<1>1. HInv => NoClone
  <2>. SUFFICES ASSUME HInv, NEW m \in Imsis, NEW h \in Holders(m), NEW k \in Holders(m)
                PROVE  h = k
    BY DEF NoClone
  <2>1. TypeOK /\ OnePlace
    BY DEF HInv, IInv
  <2>2. ASSUME NEW e \in Enbs, h = <<e>>, m \in Settled(e) PROVE h = k
    <3>1. PICK f \in Enbs : k = <<f>> /\ m \in Settled(f)
      BY <2>1, <2>2, HoldersAre DEF OnePlace, TypeOK
    <3>2. e = f
      BY <2>1, <2>2, <3>1 DEF OnePlace
    <3>. QED
      BY <2>2, <3>1, <3>2
  <2>3. ASSUME NEW x \in Msgs, NEW a \in 1 .. net[x], h = <<x, a>>, x.imsi = m PROVE h = k
    <3>1. net[x] = 1 /\ a = 1
      BY <2>1 DEF OnePlace, TypeOK
    <3>2. PICK y \in Msgs : \E b \in 1 .. net[y] : k = <<y, b>> /\ y.imsi = m
      BY <2>1, <2>3, <3>1, HoldersAre DEF OnePlace, TypeOK
    <3>3. net[y] = 1 /\ k = <<y, 1>>
      BY <2>1, <3>2 DEF OnePlace, TypeOK
    <3>4. x = y
      BY <2>1, <2>3, <3>1, <3>2, <3>3 DEF OnePlace
    <3>. QED
      BY <2>3, <3>1, <3>2, <3>3, <3>4
  <2>. QED
    BY <2>2, <2>3, HoldersAre
<1>. QED
  BY <1>1, InitHInv, NextHInv, PTL DEF Spec

LEMMA HeldIf ==
    ASSUME NEW m, net \in [Msgs -> Nat], InFlight(m) \/ \E e \in Enbs : m \in Settled(e)
    PROVE  Holders(m) # {}
<1>1. CASE \E e \in Enbs : m \in Settled(e)
  BY <1>1 DEF Holders
<1>2. ASSUME NEW x \in Msgs, x.imsi = m, net[x] > 0 PROVE Holders(m) # {}
  <2>1. 1 \in 1 .. net[x]
    BY <1>2
  <2>2. <<x, 1>> \in Flying
    BY <2>1 DEF Flying
  <2>3. <<x, 1>>[1].imsi = m
    BY <1>2
  <2>. QED
    BY <2>2, <2>3 DEF Holders
<1>. QED
  BY <1>1, <1>2 DEF InFlight

(* The same in the next state. *)
LEMMA HeldIfNext ==
    ASSUME NEW m, (net \in [Msgs -> Nat])',
           InFlight(m)' \/ \E e \in Enbs : m \in Settled(e)'
    PROVE  Holders(m)' # {}
<1>1. CASE \E e \in Enbs : m \in Settled(e)'
  BY <1>1 DEF Holders
<1>2. ASSUME NEW x \in Msgs, x.imsi = m, net'[x] > 0 PROVE Holders(m)' # {}
  <2>1. 1 \in 1 .. net'[x]
    BY <1>2
  <2>2. <<x, 1>> \in Flying'
    BY <2>1 DEF Flying
  <2>3. <<x, 1>>[1].imsi = m
    BY <1>2
  <2>. QED
    BY <2>2, <2>3 DEF Holders
<1>. QED
  BY <1>1, <1>2 DEF InFlight

(* A headless network loses a UE only with its datagram, on a link that    *)
(* loses datagrams or at a target that has no slot for it or still has its *)
(* old one: never is it removed in place of another (wrap.c:228), and no   *)
(* UE is let in under the RNTI of a removal to come (x2.c:108).            *)
THEOREM HeadlessLosesOnItsWay ==
    ASSUME Headless
    PROVE  Spec => LostOnItsWay
<1>. DEFINE Lost(m) == \E x \in Msgs : /\ x.imsi = m
                                       /\ net'[x] < net[x]
                                       /\ (x.dst \in Lossy \/ NoRoom(x))
<1>1. HInv /\ HInv' /\ [Next]_vars =>
        [\A m \in Imsis :
            Holders(m) # {} /\ Holders(m)' = {} =>
                \E x \in Msgs : /\ x.imsi = m
                               /\ net'[x] < net[x]
                               /\ (x.dst \in Lossy \/ NoRoom(x))]_vars
  <2>. SUFFICES ASSUME HInv, HInv', [Next]_vars,
                       NEW m \in Imsis, Holders(m) # {}, Holders(m)' = {}
                PROVE  Lost(m)
    OBVIOUS
  <2>1. net \in [Msgs -> Nat] /\ (net \in [Msgs -> Nat])'
    BY DEF HInv, IInv, TypeOK
  <2>2. ~ InFlight(m)' /\ \A e \in Enbs : m \notin Settled(e)'
    BY <2>1, HeldIfNext
  <2>3. InFlight(m) \/ \E e \in Enbs : m \in Settled(e)
    <3>1. PICK h : h \in Holders(m)
      OBVIOUS
    <3>2. CASE \E e \in Enbs : h = <<e>> /\ m \in Settled(e)
      BY <3>2
    <3>3. CASE \E x \in Msgs : \E k \in 1 .. net[x] : h = <<x, k>> /\ x.imsi = m
      BY <2>1, <3>3 DEF InFlight
    <3>. QED
      BY <3>1, <3>2, <3>3, HoldersAre
  <2>4. Moves
    BY NextMoves DEF HInv
  <2>5. CASE Rests
    BY <2>2, <2>3, <2>5 DEF Rests, InFlight
  <2>6. ASSUME NEW x \in Msgs, Departs(x) PROVE Lost(m)
    <3>1. net'[x] = net[x] + 1 /\ \A y \in Msgs \ {x} : net'[y] = net[y]
      BY <2>1, <2>6, NetMore DEF Departs
    <3>2. InFlight(x.imsi)'
      BY <2>1, <3>1 DEF InFlight
    <3>3. m # x.imsi
      BY <2>2, <3>2
    <3>4. InFlight(m) => InFlight(m)'
      BY <3>1, <3>3 DEF InFlight
    <3>5. \A e \in Enbs : m \in Settled(e) => m \in Settled(e)'
      BY <2>6, <3>3 DEF Departs
    <3>. QED
      BY <2>2, <2>3, <3>4, <3>5
  <2>7. ASSUME NEW x \in Msgs, Arrives(x) PROVE Lost(m)
    <3>1. net'[x] = net[x] - 1 /\ \A y \in Msgs \ {x} : net'[y] = net[y]
      BY <2>1, <2>7, NetLess DEF Arrives
    <3>2. x.dst \in Enbs /\ x.imsi \in Settled(x.dst)'
      BY <2>7 DEF Arrives, Msgs
    <3>3. m # x.imsi
      BY <2>2, <3>2
    <3>4. InFlight(m) => InFlight(m)'
      BY <3>1, <3>3 DEF InFlight
    <3>5. \A e \in Enbs : m \in Settled(e) => m \in Settled(e)'
      BY <2>7 DEF Arrives
    <3>. QED
      BY <2>2, <2>3, <3>4, <3>5
  <2>8. ASSUME NEW x \in Msgs, Vanishes(x) PROVE Lost(m)
    <3>1. net'[x] = net[x] - 1 /\ \A y \in Msgs \ {x} : net'[y] = net[y]
      BY <2>1, <2>8, NetLess DEF Vanishes
    <3>2. CASE m = x.imsi
      BY <2>1, <2>8, <3>1, <3>2 DEF Vanishes
    <3>3. CASE m # x.imsi
      <4>1. InFlight(m) => InFlight(m)'
        BY <3>1, <3>3 DEF InFlight
      <4>. QED
        BY <2>2, <2>3, <2>8, <4>1 DEF Vanishes
    <3>. QED
      BY <3>2, <3>3
  <2>. QED
    BY <2>4, <2>5, <2>6, <2>7, <2>8 DEF Moves
<1>2. Init => HInv
  BY InitHInv
<1>3. HInv /\ [Next]_vars => HInv'
  BY NextHInv
<1>. QED
  BY <1>1, <1>2, <1>3, PTL DEF Spec, LostOnItsWay

-----------------------------------------------------------------------------
(* The refinement: where UEMobility sees a subscriber. *)

PlacedWell ==
    \A m \in Imsis :
        /\ \A e \in Enbs : m \in Settled(e) => Place(m) = <<e>>
        /\ \A x \in Msgs : x.imsi = m /\ net[x] > 0 => Place(m) = <<x.src, x.dst>>
        /\ (\A e \in Enbs : m \notin Settled(e)) /\ ~ InFlight(m) => Place(m) = <<>>

LEMMA PlaceIsTheOne == HInv => PlacedWell
<1>. SUFFICES ASSUME HInv, NEW m \in Imsis
              PROVE  /\ \A e \in Enbs : m \in Settled(e) => Place(m) = <<e>>
                     /\ \A x \in Msgs : x.imsi = m /\ net[x] > 0 => Place(m) = <<x.src, x.dst>>
                     /\ (\A e \in Enbs : m \notin Settled(e)) /\ ~ InFlight(m) => Place(m) = <<>>
  BY DEF PlacedWell
<1>1. OnePlace
  BY DEF HInv
<1>2. ASSUME NEW e \in Enbs, m \in Settled(e) PROVE Place(m) = <<e>>
  <2>. DEFINE f == CHOOSE f \in Enbs : m \in Settled(f)
  <2>1. f \in Enbs /\ m \in Settled(f)
    BY <1>2
  <2>2. Place(m) = <<f>>
    BY <1>2 DEF Place
  <2>. HIDE DEF f
  <2>3. f = e
    BY <1>1, <1>2, <2>1 DEF OnePlace
  <2>. QED
    BY <2>2, <2>3
<1>3. ASSUME NEW x \in Msgs, x.imsi = m, net[x] > 0 PROVE Place(m) = <<x.src, x.dst>>
  <2>. DEFINE y == CHOOSE y \in Msgs : y.imsi = m /\ net[y] > 0
  <2>1. y \in Msgs /\ y.imsi = m /\ net[y] > 0
    BY <1>3
  <2>2. \A e \in Enbs : m \notin Settled(e)
    BY <1>1, <1>3 DEF OnePlace
  <2>3. InFlight(m)
    BY <1>3 DEF InFlight
  <2>4. Place(m) = <<y.src, y.dst>>
    BY <2>2, <2>3 DEF Place
  <2>. HIDE DEF y
  <2>5. y = x
    BY <1>1, <1>3, <2>1 DEF OnePlace
  <2>. QED
    BY <2>4, <2>5
<1>4. (\A e \in Enbs : m \notin Settled(e)) /\ ~ InFlight(m) => Place(m) = <<>>
  BY DEF Place
<1>. QED
  BY <1>2, <1>3, <1>4

(* A subscriber that a step does not touch stays where it is. *)
LEMMA StaysPut ==
    ASSUME PlacedWell, PlacedWell', NEW m \in Imsis,
           \A e \in Enbs : m \in Settled(e)' <=> m \in Settled(e),
           \A x \in Msgs : x.imsi = m => (net'[x] > 0 <=> net[x] > 0)
    PROVE  Place(m)' = Place(m)
<1>1. CASE \E e \in Enbs : m \in Settled(e)
  BY <1>1 DEF PlacedWell
<1>2. CASE \E x \in Msgs : x.imsi = m /\ net[x] > 0
  BY <1>2 DEF PlacedWell
<1>3. CASE (\A e \in Enbs : m \notin Settled(e)) /\ ~ \E x \in Msgs : x.imsi = m /\ net[x] > 0
  <2>1. ~ InFlight(m) /\ ~ InFlight(m)'
    BY <1>3 DEF InFlight
  <2>. QED
    BY <1>3, <2>1 DEF PlacedWell
<1>. QED
  BY <1>1, <1>2, <1>3

(* One subscriber changes its place in a step of UEMobility. *)
LEMMA OneMoves ==
    ASSUME NEW x \in Msgs,
           \A m \in Imsis \ {x.imsi} : Place(m)' = Place(m),
           \/ Place(x.imsi) = <<x.src>> /\ Place(x.imsi)' = <<x.src, x.dst>>
           \/ Place(x.imsi) = <<x.src, x.dst>> /\ Place(x.imsi)' = <<x.dst>>
           \/ Place(x.imsi) = <<x.src, x.dst>> /\ Place(x.imsi)' = <<>>
    PROVE  Mobility!Next
<1>1. x.imsi \in Imsis /\ x.src \in Enbs /\ x.dst \in Enbs
  BY DEF Msgs
<1>. DEFINE p == [m \in Imsis |-> Place(m)]
            q == [m \in Imsis |-> Place(m)']
<1>2. q = [p EXCEPT ![x.imsi] = Place(x.imsi)']
  BY <1>1
<1>3. p[x.imsi] = Place(x.imsi)
  BY <1>1
<1>4. \/ Mobility!Depart(x.imsi, x.src, x.dst)
      \/ Mobility!Arrive(x.imsi, x.src, x.dst)
      \/ Mobility!Vanish(x.imsi, x.src, x.dst)
  BY <1>2, <1>3 DEF Mobility!Depart, Mobility!Arrive, Mobility!Vanish, Mobility!Gone
<1>. QED
  BY <1>1, <1>4 DEF Mobility!Next

LEMMA MovesRefine ==
    ASSUME HInv, HInv', PlacedWell, PlacedWell', Moves
    PROVE  [Mobility!Next]_([m \in Imsis |-> Place(m)])
<1>. USE DEF HInv, IInv
<1>1. CASE Rests
  <2>1. \A m \in Imsis : Place(m)' = Place(m)
    BY <1>1, StaysPut DEF Rests
  <2>. QED
    BY <2>1
<1>2. ASSUME NEW x \in Msgs, Departs(x) PROVE Mobility!Next
  <2>1. x.src \in Enbs /\ x.imsi \in Imsis
    BY DEF Msgs
  <2>2. net'[x] = net[x] + 1 /\ \A y \in Msgs \ {x} : net'[y] = net[y]
    BY <1>2, NetMore DEF Departs, TypeOK
  <2>3. \A m \in Imsis \ {x.imsi} : Place(m)' = Place(m)
    <3>. SUFFICES ASSUME NEW m \in Imsis, m # x.imsi PROVE Place(m)' = Place(m)
      OBVIOUS
    <3>1. \A e \in Enbs : m \in Settled(e)' <=> m \in Settled(e)
      BY <1>2, <2>1 DEF Departs
    <3>2. \A y \in Msgs : y.imsi = m => (net'[y] > 0 <=> net[y] > 0)
      BY <2>2
    <3>. QED
      BY <3>1, <3>2, StaysPut
  <2>4. Place(x.imsi) = <<x.src>>
    BY <1>2, <2>1 DEF Departs, PlacedWell
  <2>5. net'[x] > 0
    BY <2>2 DEF TypeOK
  <2>6. Place(x.imsi)' = <<x.src, x.dst>>
    BY <2>1, <2>5 DEF PlacedWell
  <2>. QED
    BY <2>3, <2>4, <2>6, OneMoves
<1>3. ASSUME NEW x \in Msgs, Arrives(x) PROVE Mobility!Next
  <2>1. x.dst \in Enbs /\ x.imsi \in Imsis
    BY DEF Msgs
  <2>2. net'[x] = net[x] - 1 /\ \A y \in Msgs \ {x} : net'[y] = net[y]
    BY <1>3, NetLess DEF Arrives, TypeOK
  <2>3. \A m \in Imsis \ {x.imsi} : Place(m)' = Place(m)
    <3>. SUFFICES ASSUME NEW m \in Imsis, m # x.imsi PROVE Place(m)' = Place(m)
      OBVIOUS
    <3>1. \A e \in Enbs : m \in Settled(e)' <=> m \in Settled(e)
      BY <1>3, <2>1 DEF Arrives
    <3>2. \A y \in Msgs : y.imsi = m => (net'[y] > 0 <=> net[y] > 0)
      BY <2>2
    <3>. QED
      BY <3>1, <3>2, StaysPut
  <2>4. Place(x.imsi) = <<x.src, x.dst>>
    BY <1>3, <2>1 DEF Arrives, PlacedWell
  <2>5. Place(x.imsi)' = <<x.dst>>
    BY <1>3, <2>1 DEF Arrives, PlacedWell
  <2>. QED
    BY <2>3, <2>4, <2>5, OneMoves
<1>4. ASSUME NEW x \in Msgs, Vanishes(x) PROVE Mobility!Next
  <2>1. x.imsi \in Imsis
    BY DEF Msgs
  <2>2. net'[x] = net[x] - 1 /\ \A y \in Msgs \ {x} : net'[y] = net[y]
    BY <1>4, NetLess DEF Vanishes, TypeOK
  <2>3. \A m \in Imsis \ {x.imsi} : Place(m)' = Place(m)
    <3>. SUFFICES ASSUME NEW m \in Imsis, m # x.imsi PROVE Place(m)' = Place(m)
      OBVIOUS
    <3>1. \A e \in Enbs : m \in Settled(e)' <=> m \in Settled(e)
      BY <1>4 DEF Vanishes
    <3>2. \A y \in Msgs : y.imsi = m => (net'[y] > 0 <=> net[y] > 0)
      BY <2>2
    <3>. QED
      BY <3>1, <3>2, StaysPut
  <2>4. Place(x.imsi) = <<x.src, x.dst>>
    BY <1>4, <2>1 DEF Vanishes, PlacedWell
  <2>5. ~ InFlight(x.imsi)'
    BY <1>4, <2>2 DEF Vanishes, OnePlace, TypeOK, InFlight
  <2>6. \A e \in Enbs : x.imsi \notin Settled(e)'
    BY <1>4 DEF Vanishes, OnePlace
  <2>7. Place(x.imsi)' = <<>>
    BY <2>1, <2>5, <2>6 DEF PlacedWell
  <2>. QED
    BY <2>3, <2>4, <2>7, OneMoves
<1>. QED
  BY <1>1, <1>2, <1>3, <1>4 DEF Moves

(* A headless network implements UEMobility: each step of wrap.c, x2.c and *)
(* the network takes one subscriber from its eNB to the way to another,    *)
(* from there to that eNB, or away, or leaves all of them where they are.  *)
THEOREM HeadlessImplementsMobility ==
    ASSUME Headless
    PROVE  Spec => ImplementsMobility
<1>1. Init => HInv
  BY InitHInv
<1>2. HInv /\ [Next]_vars => HInv'
  BY NextHInv
<1>3. HInv => PlacedWell
  BY PlaceIsTheOne
<1>4. Init => Mobility!Init
  <2>. SUFFICES ASSUME Init PROVE Mobility!Init
    OBVIOUS
  <2>1. PlacedWell
    BY <1>1, <1>3
  <2>2. ASSUME NEW m \in Imsis PROVE Place(m) \in {<<e>> : e \in Enbs}
    <3>1. PICK e \in Enbs : m \in Settled(e)
      BY InitHInv
    <3>. QED
      BY <2>1, <3>1 DEF PlacedWell
  <2>. QED
    BY <2>2 DEF Mobility!Init
<1>5. HInv /\ HInv' /\ PlacedWell /\ PlacedWell' /\ [Next]_vars
         => [Mobility!Next]_([m \in Imsis |-> Place(m)])
  BY NextMoves, MovesRefine DEF HInv
<1>. QED
  BY <1>1, <1>2, <1>3, <1>4, <1>5, PTL DEF Spec, ImplementsMobility, Mobility!Spec

=============================================================================
