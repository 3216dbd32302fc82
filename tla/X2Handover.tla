----------------------------- MODULE X2Handover ------------------------------
(***************************************************************************)
(* Handovers between eNBs over X2 (x2.c, wrap.c, iface_enb.c).             *)
(*                                                                         *)
(* Each eNB runs up to three threads that share its UE table without a     *)
(* lock.  A handover takes two steps at the source, made by the thread     *)
(* that was asked for it: x2_hand_over finds the UE and sends it in a UDP  *)
(* datagram, then ue_rem removes whatever UE holds that RNTI by now.  The  *)
(* main loop of the target takes datagrams off its socket and runs         *)
(* x2_handover on each, which adds the UE or gives it up.  Nothing travels *)
(* back to the source: a datagram that is lost, or whose sendto fails      *)
(* (x2.c:281 ignores the result), is lost without anybody knowing, and one *)
(* that is refused is known at most to the controller of the target, when  *)
(* it is connected (x2.c:169).                                             *)
(*                                                                         *)
(* The operator adds no UE here: one that types an IMSI which is in use at *)
(* another eNB makes a second UE of it by hand.                            *)
(*                                                                         *)
(* The neighbor tables are complete here and point where they should (see  *)
(* NeighTable for how they come about); signal levels are left out, and    *)
(* with them sim_switch, which only steers them.                           *)
(***************************************************************************)
EXTENDS UESlots

CONSTANTS
    Enbs,          \* the eNBs
    Neigh,         \* Neigh[e]: the eNBs in sim_neighs of e
    Threads,       \* who can hand over: the agent and, unless --hl, the UI
    UI,            \* the UI thread; in a headless network it is not in Threads
    Cell0,         \* Cell0[e]: sim_phy.cells[0].pci of e
    Lossy,         \* the eNBs datagrams to which may get lost
    Duplicating,   \* may it deliver one twice?
    MaxFlight      \* bound of the model: datagrams on their way at once

ASSUME HandoverAssumption ==
    /\ Neigh \in [Enbs -> SUBSET Enbs]
    /\ Cell0 \in [Enbs -> Pcis]
    /\ Lossy \subseteq Enbs
    /\ Duplicating \in BOOLEAN
    /\ MaxFlight \in Nat \ {0}

VARIABLES
    ues,           \* ues[e]: sim_ues of e
    pend,          \* pend[e][t]: the RNTI thread t of e has sent and not yet
                   \* removed, NoRnti when it is not in a handover
    net            \* how many copies of each datagram are on their way

vars == <<ues, pend, net>>

(* struct x2_ho behind a struct x2_head; dst is the address it is sent to. *)
Msgs == {x \in [src : Enbs, dst : Enbs, imsi : Imsis, rnti : Rntis \ {NoRnti}] :
            x.dst \in Neigh[x.src]}

(* The datagrams on their way, copies told apart. *)
Flying == UNION {{<<x, k>> : k \in 1 .. net[x]} : x \in Msgs}

TypeOK ==
    /\ ues \in [Enbs -> [Slots -> UE]]
    /\ pend \in [Enbs -> [Threads -> Rntis]]
    /\ net \in [Msgs -> Nat]

(* The subscribers have been spread over the eNBs by scenario files, each  *)
(* attached to one of them.                                                *)
Init ==
    /\ \E place \in [Imsis -> Enbs \X Slots], rnti \in [Imsis -> Candidates] :
          /\ \A m, n \in Imsis : m # n =>
                /\ place[m] # place[n]
                /\ place[m][1] = place[n][1] => rnti[m] # rnti[n]
          /\ ues = [e \in Enbs |-> [i \in Slots |->
                IF \E m \in Imsis : place[m] = <<e, i>>
                THEN LET m == CHOOSE m \in Imsis : place[m] = <<e, i>>
                     IN  [rnti |-> rnti[m], imsi |-> m, pci |-> Cell0[e]]
                ELSE FreeSlot]]
    /\ pend = [e \in Enbs |-> [t \in Threads |-> NoRnti]]
    /\ net = [x \in Msgs |-> 0]

-----------------------------------------------------------------------------
(* Mutant of HandOver: the UE is sent and nobody removes it. *)
HandOverKeeps(e, t, i, d) ==
    /\ pend[e][t] = NoRnti
    /\ i \in ActiveSlots(ues[e])
    /\ d \in Neigh[e]
    /\ LET x == [src |-> e, dst |-> d, imsi |-> ues[e][i].imsi, rnti |-> ues[e][i].rnti]
       IN  net' = [net EXCEPT ![x] = @ + 1]
    /\ Cardinality(Flying) < MaxFlight
    /\ UNCHANGED <<ues, pend>>

(* x2_hand_over, called by wrap_handover or by the handover mask: the UE   *)
(* and the neighbor exist, the datagram goes out.  When either is missing  *)
(* the caller reports the failure and nothing changes.  The neighbor may   *)
(* be any: the controller names one, and the mask takes the row of the UE  *)
(* for an index of sim_neighs (iface_enb.c:440).                           *)
HandOver(e, t, i, d) ==
    /\ pend[e][t] = NoRnti
    /\ i \in ActiveSlots(ues[e])
    /\ d \in Neigh[e]
    /\ LET x == [src |-> e, dst |-> d, imsi |-> ues[e][i].imsi, rnti |-> ues[e][i].rnti]
       IN  net' = [net EXCEPT ![x] = @ + 1]
    /\ Cardinality(Flying) < MaxFlight
    /\ pend' = [pend EXCEPT ![e][t] = ues[e][i].rnti]
    /\ UNCHANGED ues

(* Mutant of RemoveSent: the first UE of the table goes. *)
RemoveSentFirst(e, t) ==
    /\ pend[e][t] # NoRnti
    /\ ues' = [ues EXCEPT ![e] =
                  IF ActiveSlots(@) = {} THEN @
                  ELSE [@ EXCEPT ![CHOOSE i \in ActiveSlots(@) :
                                      \A j \in ActiveSlots(@) : i <= j] = FreeSlot]]
    /\ pend' = [pend EXCEPT ![e][t] = NoRnti]
    /\ UNCHANGED net

(* The second step of the same thread: ue_rem(rnti, 0). *)
RemoveSent(e, t) ==
    /\ pend[e][t] # NoRnti
    /\ ues' = [ues EXCEPT ![e] = RemUE(@, pend[e][t])]
    /\ pend' = [pend EXCEPT ![e][t] = NoRnti]
    /\ UNCHANGED net

(* Key 'r' of the UE screen, between two keys of a handover. *)
OperatorRemove(e, i) ==
    /\ UI \in Threads
    /\ pend[e][UI] = NoRnti
    /\ i \in ActiveSlots(ues[e])
    /\ ues' = [ues EXCEPT ![e] = RemUE(@, ues[e][i].rnti)]
    /\ UNCHANGED <<pend, net>>

(* x2_compute takes one datagram off the socket; x2_handover adds the UE   *)
(* under an RNTI of this eNB...                                            *)
HandoverAccepted(x) ==
    /\ net[x] > 0
    /\ AddResult(ues[x.dst], x.imsi, Cell0[x.dst], {Cell0[x.dst]}) = "SUCCESS"
    /\ \E asked \in Candidates : \E rnti \in AssignedRntis(ues[x.dst], asked) :
          ues' = [ues EXCEPT ![x.dst] = AddUE(@, rnti, x.imsi, Cell0[x.dst])]
    /\ net' = [net EXCEPT ![x] = @ - 1]
    /\ UNCHANGED pend

(* ... or, when ue_add refuses it, gives it up.  The ho_rep_fail to the    *)
(* controller, built and sent without a look at the result, changes no     *)
(* state; the source hears nothing and the UE is not given back to it.     *)
HandoverRefused(x) ==
    /\ net[x] > 0
    /\ AddResult(ues[x.dst], x.imsi, Cell0[x.dst], {Cell0[x.dst]}) # "SUCCESS"
    /\ net' = [net EXCEPT ![x] = @ - 1]
    /\ UNCHANGED <<ues, pend>>

(* Mutant of Receive: a datagram that is refused stays on the socket. *)
ReceiveOnlyAccepted(x) == HandoverAccepted(x)

Receive(x) == HandoverAccepted(x) \/ HandoverRefused(x)

(* UDP, or a sendto that failed. *)
Drop(x) ==
    /\ x.dst \in Lossy
    /\ net[x] > 0
    /\ net' = [net EXCEPT ![x] = @ - 1]
    /\ UNCHANGED <<ues, pend>>

Duplicate(x) ==
    /\ Duplicating
    /\ net[x] > 0
    /\ Cardinality(Flying) < MaxFlight
    /\ net' = [net EXCEPT ![x] = @ + 1]
    /\ UNCHANGED <<ues, pend>>

Next ==
    \/ \E e \in Enbs, t \in Threads :
          \/ \E i \in Slots, d \in Enbs : HandOver(e, t, i, d)
          \/ RemoveSent(e, t)
    \/ \E e \in Enbs, i \in Slots : OperatorRemove(e, i)
    \/ \E x \in Msgs : Receive(x) \/ Drop(x) \/ Duplicate(x)

Spec == Init /\ [][Next]_vars

(* A thread that has sent a UE goes on to remove it: there is no wait in   *)
(* between.  x2_compute receives until the socket is empty, in every turn  *)
(* of the main loop, so a datagram that stays is received.                 *)
Fairness ==
    /\ \A e \in Enbs, t \in Threads : WF_vars(RemoveSent(e, t))
    /\ \A x \in Msgs : WF_vars(Receive(x))

FairSpec == Spec /\ Fairness

-----------------------------------------------------------------------------
(* Properties. *)

(* The subscribers at e that no thread is about to remove. *)
Settled(e) ==
    {ues[e][i].imsi : i \in {j \in ActiveSlots(ues[e]) :
                                \A t \in Threads : pend[e][t] # ues[e][j].rnti}}

(* Every place that holds subscriber m: an eNB for good, or a datagram. *)
Holders(m) ==
    {<<e>> : e \in {f \in Enbs : m \in Settled(f)}}
        \cup {f \in Flying : f[1].imsi = m}

(* A subscriber never ends up attached to two eNBs, and no datagram is     *)
(* left that would make it so (x2.h:53 calls the IMSI the "unique id" of   *)
(* the UE): the two steps at the source, the receipt at the target and a   *)
(* handover back may interleave in any order.                              *)
NoClone ==
    \A m \in Imsis : \A h, k \in Holders(m) : h = k

(* The target's table is full, or still lists the subscriber, who came     *)
(* back before the thread that sent it had removed it.                     *)
NoRoom(x) ==
    \/ FreeSlots(ues[x.dst]) = {}
    \/ \E i \in ActiveSlots(ues[x.dst]), t \in Threads :
          /\ ues[x.dst][i].imsi = x.imsi
          /\ pend[x.dst][t] = ues[x.dst][i].rnti

(* A subscriber is lost only on its way: it is nowhere any more after a    *)
(* step that took its own datagram off the network, on a link that loses   *)
(* datagrams or at a target that had no room for it.  No handover takes    *)
(* another UE away (wrap.c:228 removes whatever holds the RNTI by then),   *)
(* and none arrives under an RNTI that is about to be removed.             *)
LostOnItsWay ==
    [][\A m \in Imsis :
          Holders(m) # {} /\ Holders(m)' = {} =>
              \E x \in Msgs : /\ x.imsi = m
                             /\ net'[x] < net[x]
                             /\ (x.dst \in Lossy \/ NoRoom(x))]_vars

(* Whatever two handing-over threads and a network that loses and repeats  *)
(* datagrams do, no eNB holds a subscriber or an RNTI twice: the check in  *)
(* ue_add stops the second copy of a UE, and removals only free slots.     *)
TablesCoherent ==
    \A e \in Enbs : \A i, j \in ActiveSlots(ues[e]) :
        i # j => /\ ues[e][i].imsi # ues[e][j].imsi
                 /\ ues[e][i].rnti # ues[e][j].rnti

(* A subscriber in flight does not stay there: it gets to an eNB that keeps*)
(* it, or nobody holds it any more.  No datagram is left on the socket,    *)
(* and no UE comes and goes for ever without settling anywhere.            *)
InFlight(m) == \E x \in Msgs : x.imsi = m /\ net[x] > 0

HandoverSettles ==
    \A m \in Imsis :
        InFlight(m) ~> (Holders(m) = {} \/ \E e \in Enbs : m \in Settled(e))

(* Seen from outside, a headless network moves each subscriber as          *)
(* UEMobility says, whatever the interleaving and whatever is dropped.     *)
Place(m) ==
    IF \E e \in Enbs : m \in Settled(e)
    THEN <<CHOOSE e \in Enbs : m \in Settled(e)>>
    ELSE IF InFlight(m)
         THEN LET x == CHOOSE x \in Msgs : x.imsi = m /\ net[x] > 0
              IN  <<x.src, x.dst>>
         ELSE <<>>

Mobility == INSTANCE UEMobility WITH
    Subscribers <- Imsis,
    Stations <- Enbs,
    place <- [m \in Imsis |-> Place(m)]

ImplementsMobility == Mobility!Spec

=============================================================================
