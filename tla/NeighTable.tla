----------------------------- MODULE NeighTable ------------------------------
(***************************************************************************)
(* The neighbor table of one eNB: sim_neighs and sim_nof_neigh (neigh.c),  *)
(* filled by the operator and by the ALIVE datagrams of the other eNBs     *)
(* (x2_alive, x2.c), emptied by the operator and by an id conflict.        *)
(*                                                                         *)
(* The main loop and the interface share the table without a lock, and an  *)
(* add of one of them goes on in steps while the other looks at the table, *)
(* removes, or adds as well: the search of the slots, the id and the cell, *)
(* the text of the address, the address read out of it, the count.  A      *)
(* search or a removal is one step.                                        *)
(*                                                                         *)
(* Two of its habits need the bytes of an address: neigh_add_ipv4 copies   *)
(* the text of the address over the text the slot held before, without a   *)
(* terminator, and parses the result; and a conflict compares all 16 bytes *)
(* of two texts.  A text is a short sequence of characters here, a buffer  *)
(* a sequence of BufLen of them.                                           *)
(*                                                                         *)
(* Left out: last_seen, refreshed where pci is, and the signal levels.     *)
(* The NEIGH lines of the scenario add what the operator may add.          *)
(***************************************************************************)
EXTENDS Integers, Sequences, FiniteSetsExt, ListScreen

CONSTANTS
    NeighMax,      \* NEIGH_MAX, the number of slots of sim_neighs
    Me,            \* sim_ID
    Peers,         \* the other eNBs: records of their id, cell, address text
                   \* and port
    Callers,       \* those that run and list this one as a neighbor: they
                   \* send it ALIVE
    Typed,         \* those the operator adds
    BufLen,        \* the bytes of ipv4, room for a text and one NUL: 16
    MaxRemovals,   \* bound of the model: removals by the operator
    MaxConflicts   \* bound of the model: neighbors struck by an id conflict

NUL == 0
NoId == 0          \* NEIGH_INVALID_ID
NoPci == 0         \* the cell of a neighbor that has not said it yet

ASSUME NeighAssumption ==
    /\ NeighMax \in Nat \ {0}
    /\ Me \in Nat \ {NoId}
    /\ BufLen \in Nat \ {0}
    /\ \A p \in Peers :
          /\ p.id \in Nat \ {NoId}
          /\ p.pci \in Nat \ {NoPci}
          /\ p.ip \in Seq(Nat \ {NUL})
          /\ Len(p.ip) < BufLen
          /\ p.port \in Nat
    /\ \A p, q \in Peers : p.id = q.id => p = q
    /\ Callers \subseteq Peers
    /\ Typed \subseteq Peers
    /\ MaxRemovals \in Nat
    /\ MaxConflicts \in Nat

NSlots == 0 .. NeighMax - 1

NoIp == <<>>                            \* saddr of a slot never used
Ips == {p.ip : p \in Peers}             \* the texts inet_pton takes
EmptyBuf == [k \in 1 .. BufLen |-> NUL]

VARIABLES
    neighs,        \* sim_neighs: id, pci, text (ipv4), ip and port (saddr)
    nof,           \* sim_nof_neigh
    sel,           \* iface_enb_sel, the row of the list the operator is on
    cursor,        \* iface_enb_sel_idx, the slot last drawn in that row
    adds,          \* the neigh_add_ipv4 each thread is in, if any
    removals,      \* history: removals by the operator
    conflicts,     \* history: neighbors struck by a conflict
    met,           \* history: the ids both threads were adding at once
    torn           \* history: the slots both threads were filling at once,
                   \* until one is taken again by one thread alone

screen == <<sel, cursor>>
bounded == <<removals, conflicts>>
crossings == <<met, torn>>
vars == <<neighs, nof, screen, adds, bounded, crossings>>

(* The main loop runs x2_alive, the interface the add mask. *)
Threads == {"main", "ui"}
Other(th) == IF th = "main" THEN "ui" ELSE "main"

(* In neigh_add_ipv4 for peer, with the slot found, ahead of the write of  *)
(* its id, its text, its address, or the count.                            *)
Idle == [at |-> "idle"]
Adding == [at   : {"id", "text", "address", "count"},
           peer : Peers,
           pci  : {p.pci : p \in Peers} \cup {NoPci},
           slot : NSlots]

Neighbor == [id   : {p.id : p \in Peers} \cup {NoId},
             pci  : {p.pci : p \in Peers} \cup {NoPci},
             text : [1 .. BufLen -> Nat],
             ip   : Ips \cup {NoIp},
             port : {p.port : p \in Peers} \cup {0}]

TypeOK ==
    /\ neighs \in [NSlots -> Neighbor]
    /\ nof \in Nat
    /\ sel \in Nat \ {0}
    /\ cursor \in NSlots
    /\ adds \in [Threads -> {Idle} \cup Adding]
    /\ removals \in 0 .. MaxRemovals
    /\ conflicts \in 0 .. MaxConflicts
    /\ met \subseteq {p.id : p \in Peers}
    /\ torn \subseteq NSlots

Init ==
    /\ neighs = [i \in NSlots |-> [id |-> NoId, pci |-> NoPci, text |-> EmptyBuf,
                                   ip |-> NoIp, port |-> 0]]
    /\ nof = 0
    /\ sel = 1
    /\ cursor = 0
    /\ adds = [th \in Threads |-> Idle]
    /\ removals = 0
    /\ conflicts = 0
    /\ met = {}
    /\ torn = {}

-----------------------------------------------------------------------------
(* Buffers. *)

(* memcpy of the bytes s to the start of buffer b. *)
Overwrite(s, b) == [k \in 1 .. BufLen |-> IF k <= Len(s) THEN s[k] ELSE b[k]]

(* The text a buffer holds: what is ahead of its first NUL. *)
TextOf(b) ==
    SubSeq(b, 1, Min({k \in 1 .. BufLen : b[k] = NUL} \cup {BufLen + 1}) - 1)

(* What the address buffer of x2_compute, cleared once per call, can hold  *)
(* after n datagrams: inet_ntop writes each text and a NUL over what the   *)
(* earlier ones left.                                                      *)
Buffers[n \in 0 .. BufLen] ==
    IF n = 0
    THEN {EmptyBuf}
    ELSE Buffers[n - 1]
            \cup {Overwrite(Append(p.ip, NUL), b) : p \in Callers, b \in Buffers[n - 1]}

(* The same once a text is received.  Of the texts before only those       *)
(* matter that are longer than all that followed.                          *)
Received(ip) == {Overwrite(Append(ip, NUL), b) : b \in Buffers[BufLen]}

-----------------------------------------------------------------------------
(* neigh_add_ipv4 and neigh_rem. *)

Used == {i \in NSlots : neighs[i].id # NoId}

(* The end of a turn of iface_loop with this screen up, row s selected. *)
Redraw(s) ==
    /\ sel' = s
    /\ cursor' = Drawn(Used', s, cursor)

Free == {i \in NSlots : neighs[i].id = NoId}
Known(id) == \E i \in NSlots : neighs[i].id = id

(* The slot a thread has found and not yet filled. *)
Hands(th) == IF adds[th].at \in {"id", "text", "address"} THEN {adds[th].slot} ELSE {}

(* The search is over: slot f is the one to take. *)
Begins(th, p, pci, f) ==
    LET o == Other(th)
    IN  /\ adds' = [adds EXCEPT ![th] = [at |-> "id", peer |-> p, pci |-> pci, slot |-> f]]
        /\ met' = IF adds[o].at = "id" /\ adds[o].peer = p THEN met \cup {p.id} ELSE met
        /\ torn' = IF f \in Hands(o) THEN torn \cup {f} ELSE torn \ {f}

(* Mutant of Begin: trusts x2_alive to have looked for the id. *)
BeginUnchecked(th, p, pci) ==
    /\ adds[th] = Idle
    /\ Free # {}
    /\ Begins(th, p, pci, Min(Free))

(* Mutant of Begin: takes the count for the state of the table. *)
BeginByCount(th, p, pci) ==
    /\ adds[th] = Idle
    /\ ~Known(p.id)
    /\ Free # {}
    /\ nof < NeighMax
    /\ Begins(th, p, pci, Min(Free))

(* neigh_add_ipv4 up to its first write.  Refused, without a change, when  *)
(* the id is in the table or no slot is free.                              *)
Begin(th, p, pci) ==
    /\ adds[th] = Idle
    /\ ~Known(p.id)
    /\ Free # {}
    /\ Begins(th, p, pci, Min(Free))

GoesOn(th, at) == adds' = [adds EXCEPT ![th].at = at]

TakeId(th) ==
    LET a == adds[th]
    IN  /\ a.at = "id"
        /\ neighs' = [neighs EXCEPT ![a.slot].id = a.peer.id, ![a.slot].pci = a.pci]
        /\ GoesOn(th, "text")
        /\ UNCHANGED <<nof, screen, bounded, crossings>>

CopyText(th) ==
    LET a == adds[th]
    IN  /\ a.at = "text"
        /\ neighs' = [neighs EXCEPT ![a.slot].text = Overwrite(a.peer.ip, @)]
        /\ GoesOn(th, "address")
        /\ UNCHANGED <<nof, screen, bounded, crossings>>

(* inet_pton leaves the address as it was when it cannot parse the text. *)
Parsed(n) == IF TextOf(n.text) \in Ips THEN TextOf(n.text) ELSE n.ip

(* Mutant of TakeAddress: the port of the slot stays. *)
TakeAddressKeepsPort(th) ==
    LET a == adds[th]
    IN  /\ a.at = "address"
        /\ neighs' = [neighs EXCEPT ![a.slot].ip = Parsed(neighs[a.slot])]
        /\ GoesOn(th, "count")
        /\ UNCHANGED <<nof, screen, bounded, crossings>>

TakeAddress(th) ==
    LET a == adds[th]
    IN  /\ a.at = "address"
        /\ neighs' = [neighs EXCEPT ![a.slot].ip = Parsed(neighs[a.slot]),
                                    ![a.slot].port = a.peer.port]
        /\ GoesOn(th, "count")
        /\ UNCHANGED <<nof, screen, bounded, crossings>>

(* The end; the add mask closes and the screen is drawn again. *)
Count(th) ==
    /\ adds[th].at = "count"
    /\ nof' = nof + 1
    /\ adds' = [adds EXCEPT ![th] = Idle]
    /\ UNCHANGED <<neighs, bounded, crossings>>
    /\ IF th = "ui" THEN Redraw(sel) ELSE UNCHANGED screen

Add(th) == TakeId(th) \/ CopyText(th) \/ TakeAddress(th) \/ Count(th)

(* The first slot that holds the id, a free one for id 0; only the id is   *)
(* reset.                                                                  *)
RemNeigh(id) ==
    /\ Known(id)
    /\ neighs' = [neighs EXCEPT ![Min({i \in NSlots : neighs[i].id = id})].id = NoId]
    /\ nof' = IF nof > 0 THEN nof - 1 ELSE 0

-----------------------------------------------------------------------------
(* x2_alive. *)

(* The slots its loops look at: as many as there are neighbors, from 0 on. *)
(* (Past NeighMax they read beyond the array, which matches nothing here.) *)
Searched == {i \in NSlots : i < nof}

FoundAt(id) == {i \in Searched : neighs[i].id = id}

(* Mutant of AliveKnown: the cell goes through ntohl, as in AliveNew. *)
AliveKnownLong(p) ==
    /\ adds["main"] = Idle
    /\ p.id # Me
    /\ FoundAt(p.id) # {}
    /\ neighs' = [neighs EXCEPT ![Min(FoundAt(p.id))].pci = NoPci]
    /\ UNCHANGED <<nof, screen, adds, bounded, crossings>>

(* A known neighbor tells its cell. *)
AliveKnown(p) ==
    /\ adds["main"] = Idle
    /\ p.id # Me
    /\ FoundAt(p.id) # {}
    /\ neighs' = [neighs EXCEPT ![Min(FoundAt(p.id))].pci = p.pci]
    /\ UNCHANGED <<nof, screen, adds, bounded, crossings>>

(* Mutant of AliveNew: the parameter is wide enough for what ntohl gives. *)
AliveNewWide(p) ==
    /\ p.id # Me
    /\ FoundAt(p.id) = {}
    /\ Begin("main", p, p.pci * 65536)
    /\ UNCHANGED <<neighs, nof, screen, bounded>>

(* Somebody new is going to be added.  Its cell, a 16-bit field, goes      *)
(* through ntohl, and what is left of it in the u16 parameter is 0.        *)
AliveNew(p) ==
    /\ p.id # Me
    /\ FoundAt(p.id) = {}
    /\ Begin("main", p, NoPci)
    /\ UNCHANGED <<neighs, nof, screen, bounded>>

Alive(p) == AliveKnown(p) \/ AliveNew(p)

(* Somebody with our id calls: the first neighbor with that address, among *)
(* those searched, loses its id; the count stays.                          *)
Conflict(p) ==
    /\ adds["main"] = Idle
    /\ p.id = Me
    /\ \E b \in Received(p.ip) :
          LET same == {i \in Searched : neighs[i].text = b}
          IN  /\ same # {}
              /\ neighs[Min(same)].id # NoId => conflicts < MaxConflicts
              /\ neighs' = [neighs EXCEPT ![Min(same)].id = NoId]
              /\ conflicts' = IF neighs[Min(same)].id # NoId THEN conflicts + 1 ELSE conflicts
    /\ UNCHANGED <<nof, screen, adds, removals, crossings>>

-----------------------------------------------------------------------------
(* The eNB screen. *)

(* ENTER in the add mask; the operator types what is true of the eNB. *)
OperatorAdd(p) ==
    /\ Begin("ui", p, NoPci)
    /\ UNCHANGED <<neighs, nof, screen, bounded>>

(* Keys up and down, or no key at all. *)
OperatorMove ==
    /\ adds["ui"] = Idle
    /\ UNCHANGED <<neighs, nof, adds, bounded, crossings>>
    /\ \E s \in {sel, Up(sel), Down(sel, nof)} : Redraw(s)

(* Key 'r': the slot under the cursor, taken by now or not. *)
OperatorRemove ==
    /\ adds["ui"] = Idle
    /\ removals < MaxRemovals
    /\ RemNeigh(neighs[cursor].id)
    /\ Redraw(Up(sel))
    /\ removals' = removals + 1
    /\ UNCHANGED <<adds, conflicts, crossings>>

Next ==
    \/ \E p \in Callers : Alive(p) \/ Conflict(p)
    \/ \E p \in Typed : OperatorAdd(p)
    \/ \E th \in Threads : Add(th)
    \/ OperatorMove
    \/ OperatorRemove

Spec == Init /\ [][Next]_vars

(* Every eNB sends ALIVE to its neighbors in every turn of its main loop   *)
(* (x2_compute, send stage) and this one receives until its socket is      *)
(* empty, finishing an add before the next datagram: a caller is heard     *)
(* again and again.  The interface finishes its adds, too.                 *)
FairSpec ==
    /\ Spec
    /\ \A p \in Callers : WF_vars(Alive(p))
    /\ \A th \in Threads : WF_vars(Add(th))

-----------------------------------------------------------------------------
(* Properties. *)

(* No eNB is in the table twice, although x2_alive overlooks the neighbors *)
(* past sim_nof_neigh and adds them again: x2_hand_over would send to one  *)
(* of them and the other would be refreshed.  Unless both threads added it *)
(* at once, each before the other had written the id.                      *)
UniqueNeighbor ==
    \A i, j \in Used :
        neighs[i].id = neighs[j].id /\ neighs[i].id \notin met => i = j

(* The neighbors whose add is through and was not mixed with another. *)
Settled == Used \ (Hands("main") \cup Hands("ui") \cup torn)

(* What is sent to a neighbor, handovers included, goes to the address and *)
(* port of the eNB with that id (neigh.h:72, "Prepare a neighbor slot in   *)
(* order to describe the given cell").                                     *)
AddressRight ==
    \A i \in Settled : \E p \in Peers :
        /\ neighs[i].id = p.id
        /\ neighs[i].ip = p.ip
        /\ neighs[i].port = p.port

(* The eNBs no other has a longer address text than. *)
Longest == {p \in Peers : \A q \in Peers : Len(q.ip) <= Len(p.ip)}

(* It always goes to the port of the eNB, and to its address if no text is *)
(* longer, whatever was removed, struck and added around it, by both       *)
(* threads, since the slot was last used.                                  *)
LongestReached ==
    \A i \in Settled, p \in Peers :
        neighs[i].id = p.id =>
            /\ neighs[i].port = p.port
            /\ p \in Longest => neighs[i].ip = p.ip

(* A caller removed by the operator, or never added, gets into the table   *)
(* unless it is full or the caller uses our own id.                        *)
CallerListed ==
    \A p \in Callers : p.id # Me => []<>(Known(p.id) \/ Free = {})

(* A caller that stays among the slots x2_alive looks at gets the cell it  *)
(* announces, although its first ALIVE leaves a 0 there.                   *)
CellLearned(p, slots) == \E i \in slots : neighs[i].id = p.id /\ neighs[i].pci = p.pci

SearchedCellLearned ==
    \A p \in Callers :
        p.id # Me /\ <>[](FoundAt(p.id) # {}) => <>[]CellLearned(p, Searched)

(* x2.c:73, "The cell id sent to us is always the most updated": so has    *)
(* any caller that stays in the table.                                     *)
NeighborCellLearned ==
    \A p \in Callers :
        p.id # Me /\ <>[]Known(p.id) => <>[]CellLearned(p, NSlots)

=============================================================================
