--------------------------- MODULE NeighTableProofs --------------------------
(***************************************************************************)
(* Proofs about NeighTable, for every size of the table, of the buffers    *)
(* and of the network, for any number of removals and conflicts, and for   *)
(* every order of the steps of two adds.                                   *)
(*                                                                         *)
(* No eNB is listed twice because neigh_add_ipv4 looks for the id in all   *)
(* slots; what it found holds until the id is written unless the other     *)
(* thread is ahead of the same write (Fresh, Apart).  An address is that   *)
(* of its neighbor because all that was ever copied into a buffer, that of *)
(* a free slot included, is no longer than the longest text (Clean), and   *)
(* because nobody else touches the text between the copy and the parse     *)
(* unless the slot is torn (TwoHands, Copied, Owned).                      *)
(***************************************************************************)
EXTENDS NeighTable, SequenceTheorems, WellFoundedInduction, TLAPS

(* What the search said holds when the id is written. *)
Fresh ==
    \A th \in Threads :
        adds[th].at = "id" =>
            \/ adds[th].peer.id \in met
            \/ ~Known(adds[th].peer.id)

Apart ==
    \A th \in Threads :
        LET a == adds[th]
            b == adds[Other(th)]
        IN  a.at = "id" /\ b.at = "id" /\ a.peer = b.peer => a.peer.id \in met

UniqueInv == TypeOK /\ UniqueNeighbor /\ Fresh /\ Apart

(* No buffer has anything behind the longest text. *)
Clean ==
    \A i \in NSlots, p \in Longest, k \in 1 .. BufLen :
        Len(p.ip) < k => neighs[i].text[k] = NUL

TwoHands == \A th \in Threads : Hands(th) \cap Hands(Other(th)) \subseteq torn

(* The slot a thread alone is filling has no id but the one it wrote, and  *)
(* the text it copied.                                                     *)
Owned ==
    \A th \in Threads :
        LET a == adds[th]
        IN  /\ a.at = "id" /\ a.slot \notin torn => neighs[a.slot].id = NoId
            /\ a.at \in {"text", "address"} /\ a.slot \notin torn =>
                   neighs[a.slot].id \in {a.peer.id, NoId}

Copied ==
    \A th \in Threads :
        LET a == adds[th]
        IN  a.at = "address" /\ a.slot \notin torn /\ a.peer \in Longest =>
                neighs[a.slot].text = Overwrite(a.peer.ip, EmptyBuf)

AddressInv == TypeOK /\ Clean /\ TwoHands /\ Owned /\ Copied /\ LongestReached

-----------------------------------------------------------------------------
(* Buffers. *)

LEMMA OverwriteType ==
    ASSUME NEW p \in Peers, NEW b \in [1 .. BufLen -> Nat]
    PROVE  Overwrite(p.ip, b) \in [1 .. BufLen -> Nat]
<1>1. \A k \in 1 .. Len(p.ip) : p.ip[k] \in Nat
  BY NeighAssumption
<1>. QED
  BY <1>1, NeighAssumption DEF Overwrite

LEMMA EmptyBufType == EmptyBuf \in [1 .. BufLen -> Nat]
BY DEF EmptyBuf, NUL

(* Over a buffer with nothing behind the longest text, that text is copied *)
(* whole.                                                                  *)
LEMMA OverwriteWhole ==
    ASSUME NEW p \in Peers, NEW b \in [1 .. BufLen -> Nat],
           \A k \in 1 .. BufLen : Len(p.ip) < k => b[k] = NUL
    PROVE  Overwrite(p.ip, b) = Overwrite(p.ip, EmptyBuf)
<1>1. Len(p.ip) \in Nat /\ BufLen \in Nat
  BY NeighAssumption
<1>2. \A k \in 1 .. BufLen : ~(k <= Len(p.ip)) => b[k] = EmptyBuf[k]
  BY <1>1 DEF EmptyBuf
<1>. QED
  BY <1>2 DEF Overwrite

(* inet_pton reads out of a clean buffer the text that was copied there. *)
LEMMA TextRead ==
    ASSUME NEW p \in Peers
    PROVE  TextOf(Overwrite(p.ip, EmptyBuf)) = p.ip
<1>. DEFINE n == Len(p.ip)
            b == Overwrite(p.ip, EmptyBuf)
            ends == {k \in 1 .. BufLen : b[k] = NUL} \cup {BufLen + 1}
<1>1. /\ BufLen \in Nat
      /\ p.ip \in Seq(Nat \ {NUL})
      /\ n \in Nat
      /\ n < BufLen
      /\ \A k \in 1 .. n : p.ip[k] \in Nat /\ p.ip[k] # NUL
  BY NeighAssumption
<1>2. /\ \A k \in 1 .. n : b[k] = p.ip[k]
      /\ b[n + 1] = NUL
  BY <1>1 DEF Overwrite, EmptyBuf
<1>. HIDE DEF b
<1>3. n + 1 \in ends /\ \A k \in ends : n + 1 <= k
  BY <1>1, <1>2
<1>4. Min(ends) = n + 1
  <2>1. ends \subseteq Int
    BY <1>1
  <2>. HIDE DEF ends, n
  <2>2. Min(ends) \in ends /\ \A k \in ends : Min(ends) <= k
    BY <1>3 DEF Min
  <2>3. n + 1 <= Min(ends) /\ Min(ends) <= n + 1
    BY <1>3, <2>2
  <2>4. Min(ends) \in Int /\ n \in Nat
    BY <1>1, <2>1, <2>2
  <2>. QED
    BY <2>3, <2>4
<1>5. TextOf(b) = SubSeq(b, 1, n)
  <2>. HIDE DEF ends, n
  <2>. SUFFICES SubSeq(b, 1, Min(ends) - 1) = SubSeq(b, 1, n)
    BY DEF TextOf, ends
  <2>1. Min(ends) - 1 = n
    BY <1>1, <1>4
  <2>. QED
    BY <2>1
<1>6. /\ SubSeq(b, 1, n) \in Seq(Nat \ {NUL})
      /\ Len(SubSeq(b, 1, n)) = n
      /\ \A k \in 1 .. n : SubSeq(b, 1, n)[k] = b[k]
  <2>1. \A k \in 1 .. n : b[k] \in Nat \ {NUL}
    BY <1>1, <1>2
  <2>2. /\ SubSeq(b, 1, n) \in Seq(Nat \ {NUL})
        /\ Len(SubSeq(b, 1, n)) = IF 1 <= n THEN n - 1 + 1 ELSE 0
        /\ \A k \in 1 .. n - 1 + 1 : SubSeq(b, 1, n)[k] = b[1 + k - 1]
    BY <1>1, <2>1, SubSeqProperties
  <2>. QED
    BY <1>1, <2>2
<1>7. SubSeq(b, 1, n) = p.ip
  BY <1>1, <1>2, <1>6, SeqEqual
<1>. QED
  BY <1>5, <1>7 DEF b

-----------------------------------------------------------------------------
(* Slots. *)

LEMMA SlotZero == NSlots \subseteq Nat /\ 0 \in NSlots
BY NeighAssumption DEF NSlots

(* What drawing selects is a slot, of the list or the one before. *)
LEMMA DrawnType ==
    ASSUME NEW taken \in SUBSET NSlots, NEW s, NEW c \in NSlots
    PROVE  Drawn(taken, s, c) \in NSlots
BY DEF Drawn

LEMMA UpDownType ==
    ASSUME NEW s \in Nat \ {0}, NEW n \in Nat
    PROVE  Up(s) \in Nat \ {0} /\ Down(s, n) \in Nat \ {0}
BY DEF Up, Down

LEMMA RedrawnType ==
    ASSUME TypeOK, NEW s \in Nat \ {0}, Redraw(s)
    PROVE  sel' \in Nat \ {0} /\ cursor' \in NSlots
BY DrawnType DEF Redraw, Used, TypeOK

(* The slot a search ends at is one of those searched. *)
LEMMA FirstSlot ==
    ASSUME NEW S \in SUBSET NSlots, S # {}
    PROVE  Min(S) \in S
<1>1. S \in SUBSET Nat
  BY SlotZero
<1>2. PICK x \in S : \A y \in S : ~(<<y, x>> \in OpToRel(<, Nat))
  BY <1>1, WFMin, NatLessThanWellFounded, Zenon
<1>3. \A y \in S : ~(y < x)
  BY <1>1, <1>2, Zenon DEF OpToRel
<1>4. \E z \in S : \A y \in S : z <= y
  BY <1>1, <1>3
<1>. QED
  BY <1>4 DEF Min

(* Resetting the id of a slot, or telling its cell. *)
LEMMA FieldType ==
    ASSUME TypeOK, NEW i
    PROVE  /\ [neighs EXCEPT ![i].id = NoId] \in [NSlots -> Neighbor]
           /\ \A p \in Peers : [neighs EXCEPT ![i].pci = p.pci] \in [NSlots -> Neighbor]
<1>1. CASE i \in NSlots
  <2>1. neighs[i] \in Neighbor
    BY <1>1 DEF TypeOK
  <2>2. [neighs[i] EXCEPT !.id = NoId] \in Neighbor
    BY <2>1 DEF Neighbor
  <2>3. \A p \in Peers : [neighs[i] EXCEPT !.pci = p.pci] \in Neighbor
    BY <2>1 DEF Neighbor
  <2>. QED
    BY <2>2, <2>3 DEF TypeOK
<1>2. CASE i \notin NSlots
  BY <1>2 DEF TypeOK
<1>. QED
  BY <1>1, <1>2

-----------------------------------------------------------------------------
(* The two threads. *)

LEMMA Pair ==
    ASSUME NEW th \in Threads
    PROVE  /\ Other(th) \in Threads
           /\ Other(th) # th
           /\ Other(Other(th)) = th
           /\ \A u \in Threads : u = th \/ u = Other(th)
BY DEF Threads, Other

(* Who is in neigh_add_ipv4 is there for an eNB, with a slot. *)
LEMMA InAdd ==
    ASSUME TypeOK, NEW th \in Threads, adds[th].at # "idle"
    PROVE  adds[th] \in Adding
BY DEF TypeOK, Idle

(* What the search of an add that is not refused leaves. *)
LEMMA Begun ==
    ASSUME TypeOK, NEW th \in Threads, NEW p \in Peers, Begin(th, p, NoPci)
    PROVE  LET f == Min(Free)
           IN  /\ f \in NSlots
               /\ neighs[f].id = NoId
               /\ adds[th] = Idle
               /\ adds'[th] = [at |-> "id", peer |-> p, pci |-> NoPci, slot |-> f]
               /\ adds'[th] \in Adding
               /\ adds'[Other(th)] = adds[Other(th)]
               /\ adds' \in [Threads -> {Idle} \cup Adding]
               /\ met' \subseteq met \cup {p.id}
               /\ met \subseteq met'
               /\ torn' \subseteq torn \cup {f}
               /\ torn \subseteq torn' \cup {f}
               /\ f \in torn' <=> f \in Hands(Other(th))
<1>. DEFINE f == Min(Free)
<1>1. f \in Free
  BY FirstSlot DEF Begin, Free
<1>2. f \in NSlots /\ neighs[f].id = NoId
  BY <1>1 DEF Free
<1>3. Begins(th, p, NoPci, f) /\ adds[th] = Idle
  BY DEF Begin
<1>. HIDE DEF f
<1>4. [at |-> "id", peer |-> p, pci |-> NoPci, slot |-> f] \in Adding
  BY <1>2 DEF Adding
<1>5. adds \in [Threads -> {Idle} \cup Adding]
  BY DEF TypeOK
<1>6. /\ adds'[th] = [at |-> "id", peer |-> p, pci |-> NoPci, slot |-> f]
      /\ adds'[Other(th)] = adds[Other(th)]
      /\ adds' \in [Threads -> {Idle} \cup Adding]
  BY <1>3, <1>4, <1>5, Pair DEF Begins
<1>7. /\ met' \subseteq met \cup {p.id}
      /\ met \subseteq met'
      /\ torn' \subseteq torn \cup {f}
      /\ torn \subseteq torn' \cup {f}
      /\ f \in torn' <=> f \in Hands(Other(th))
  BY <1>3 DEF Begins
<1>. QED
  BY <1>2, <1>3, <1>4, <1>6, <1>7 DEF f

(* One step on in an add. *)
LEMMA GoneOn ==
    ASSUME TypeOK, NEW th \in Threads, adds[th].at # "idle",
           NEW at \in {"text", "address", "count"}, GoesOn(th, at)
    PROVE  /\ adds'[th] \in Adding
           /\ adds'[th].at = at
           /\ adds'[th].peer = adds[th].peer
           /\ adds'[th].slot = adds[th].slot
           /\ adds'[Other(th)] = adds[Other(th)]
           /\ adds' \in [Threads -> {Idle} \cup Adding]
<1>1. adds[th] \in Adding
  BY InAdd
<1>2. /\ [adds[th] EXCEPT !.at = at] \in Adding
      /\ [adds[th] EXCEPT !.at = at].at = at
      /\ [adds[th] EXCEPT !.at = at].peer = adds[th].peer
      /\ [adds[th] EXCEPT !.at = at].slot = adds[th].slot
  BY <1>1 DEF Adding
<1>3. adds \in [Threads -> {Idle} \cup Adding]
  BY DEF TypeOK
<1>4. adds' = [adds EXCEPT ![th] = [adds[th] EXCEPT !.at = at]]
  BY <1>3 DEF GoesOn
<1>. QED
  BY <1>2, <1>3, <1>4, Pair

-----------------------------------------------------------------------------
(* Types. *)

LEMMA InitTyped == Init => TypeOK
<1>1. [id |-> NoId, pci |-> NoPci, text |-> EmptyBuf, ip |-> NoIp, port |-> 0] \in Neighbor
  BY EmptyBufType DEF Neighbor
<1>. QED
  BY <1>1, SlotZero, NeighAssumption DEF Init, TypeOK, NSlots

LEMMA ParsedType ==
    ASSUME NEW n \in Neighbor
    PROVE  Parsed(n) \in Ips \cup {NoIp}
BY DEF Parsed, Neighbor

(* The writes of an add, slot by slot. *)
LEMMA AddWrites ==
    ASSUME TypeOK, NEW th \in Threads, adds[th].at # "idle"
    PROVE  LET a == adds[th]
           IN  /\ [neighs EXCEPT ![a.slot].id = a.peer.id, ![a.slot].pci = a.pci]
                      \in [NSlots -> Neighbor]
               /\ [neighs EXCEPT ![a.slot].text = Overwrite(a.peer.ip, @)]
                      \in [NSlots -> Neighbor]
               /\ [neighs EXCEPT ![a.slot].ip = Parsed(neighs[a.slot]),
                                 ![a.slot].port = a.peer.port]
                      \in [NSlots -> Neighbor]
<1>. DEFINE a == adds[th]
            n == neighs[a.slot]
<1>1. /\ a.peer \in Peers
      /\ a.pci \in {p.pci : p \in Peers} \cup {NoPci}
      /\ a.slot \in NSlots
  BY InAdd DEF Adding
<1>2. n \in Neighbor /\ neighs \in [NSlots -> Neighbor]
  BY <1>1 DEF TypeOK
<1>. HIDE DEF a, n
<1>3. [[n EXCEPT !.id = a.peer.id] EXCEPT !.pci = a.pci] \in Neighbor
  BY <1>1, <1>2 DEF Neighbor
<1>4. [n EXCEPT !.text = Overwrite(a.peer.ip, n.text)] \in Neighbor
  BY <1>1, <1>2, OverwriteType DEF Neighbor
<1>5. [[n EXCEPT !.ip = Parsed(n)] EXCEPT !.port = a.peer.port] \in Neighbor
  BY <1>1, <1>2, ParsedType DEF Neighbor
<1>6. /\ [neighs EXCEPT ![a.slot].id = a.peer.id, ![a.slot].pci = a.pci]
             \in [NSlots -> Neighbor]
      /\ [neighs EXCEPT ![a.slot].text = Overwrite(a.peer.ip, @)]
             \in [NSlots -> Neighbor]
      /\ [neighs EXCEPT ![a.slot].ip = Parsed(n), ![a.slot].port = a.peer.port]
             \in [NSlots -> Neighbor]
  BY <1>1, <1>2, <1>3, <1>4, <1>5 DEF n
<1>. QED
  BY <1>6 DEF a, n

LEMMA AddTyped ==
    ASSUME TypeOK, NEW th \in Threads, Add(th)
    PROVE  TypeOK'
<1>1. CASE TakeId(th)
  BY <1>1, AddWrites, GoneOn DEF TakeId, TypeOK, screen, bounded, crossings
<1>2. CASE CopyText(th)
  BY <1>2, AddWrites, GoneOn DEF CopyText, TypeOK, screen, bounded, crossings
<1>3. CASE TakeAddress(th)
  BY <1>3, AddWrites, GoneOn DEF TakeAddress, TypeOK, screen, bounded, crossings
<1>4. CASE Count(th)
  <2>1. adds' \in [Threads -> {Idle} \cup Adding] /\ nof' \in Nat
    BY <1>4 DEF Count, TypeOK
  <2>2. sel' \in Nat \ {0} /\ cursor' \in NSlots
    BY <1>4, RedrawnType DEF Count, TypeOK, screen
  <2>. QED
    BY <1>4, <2>1, <2>2 DEF Count, TypeOK, bounded, crossings
<1>. QED
  BY <1>1, <1>2, <1>3, <1>4 DEF Add

LEMMA BeginTyped ==
    ASSUME TypeOK, NEW th \in Threads, NEW p \in Peers, Begin(th, p, NoPci),
           UNCHANGED <<neighs, nof, screen, bounded>>
    PROVE  TypeOK'
<1>1. /\ adds' \in [Threads -> {Idle} \cup Adding]
      /\ met' \subseteq met \cup {p.id}
      /\ torn' \subseteq torn \cup {Min(Free)}
      /\ Min(Free) \in NSlots
  BY Begun
<1>. QED
  BY <1>1 DEF TypeOK, screen, bounded

LEMMA NextTyped == TypeOK /\ [Next]_vars => TypeOK'
<1>. SUFFICES ASSUME TypeOK, [Next]_vars
              PROVE  TypeOK'
  OBVIOUS
<1>. "main" \in Threads /\ "ui" \in Threads
  BY DEF Threads
<1>1. ASSUME NEW p \in Callers, AliveKnown(p)
      PROVE  TypeOK'
  <2>1. p \in Peers
    BY <1>1, NeighAssumption
  <2>. QED
    BY <1>1, <2>1, FieldType DEF AliveKnown, TypeOK, screen, bounded, crossings
<1>2. ASSUME NEW p \in Callers, AliveNew(p)
      PROVE  TypeOK'
  BY <1>2, BeginTyped, NeighAssumption DEF AliveNew
<1>3. ASSUME NEW p \in Callers, Conflict(p)
      PROVE  TypeOK'
  <2>1. PICK i : /\ neighs[i].id # NoId => conflicts < MaxConflicts
                 /\ neighs' = [neighs EXCEPT ![i].id = NoId]
                 /\ conflicts' = IF neighs[i].id # NoId THEN conflicts + 1 ELSE conflicts
    BY <1>3 DEF Conflict
  <2>2. neighs' \in [NSlots -> Neighbor]
    BY <2>1, FieldType
  <2>3. conflicts' \in 0 .. MaxConflicts
    BY <2>1, NeighAssumption DEF TypeOK
  <2>. QED
    BY <1>3, <2>2, <2>3 DEF Conflict, TypeOK, screen, crossings
<1>4. ASSUME NEW p \in Typed, OperatorAdd(p)
      PROVE  TypeOK'
  BY <1>4, BeginTyped, NeighAssumption DEF OperatorAdd
<1>5. ASSUME NEW th \in Threads, Add(th)
      PROVE  TypeOK'
  BY <1>5, AddTyped
<1>6. CASE OperatorMove
  <2>1. PICK s \in {sel, Up(sel), Down(sel, nof)} : Redraw(s)
    BY <1>6 DEF OperatorMove
  <2>2. s \in Nat \ {0}
    BY UpDownType DEF TypeOK
  <2>. QED
    BY <1>6, <2>1, <2>2, RedrawnType DEF OperatorMove, TypeOK, bounded, crossings
<1>7. CASE OperatorRemove
  <2>. DEFINE id == neighs[cursor].id
              i == Min({k \in NSlots : neighs[k].id = id})
  <2>1. /\ neighs' = [neighs EXCEPT ![i].id = NoId]
        /\ nof' = IF nof > 0 THEN nof - 1 ELSE 0
    BY <1>7 DEF OperatorRemove, RemNeigh
  <2>. HIDE DEF i
  <2>2. neighs' \in [NSlots -> Neighbor]
    BY <2>1, FieldType
  <2>3. nof' \in Nat
    BY <2>1 DEF TypeOK
  <2>4. sel' \in Nat \ {0} /\ cursor' \in NSlots
    <3>1. Up(sel) \in Nat \ {0}
      BY UpDownType DEF TypeOK
    <3>. QED
      BY <1>7, <3>1, RedrawnType DEF OperatorRemove
  <2>. QED
    BY <1>7, <2>2, <2>3, <2>4, NeighAssumption DEF OperatorRemove, TypeOK, crossings
<1>8. CASE UNCHANGED vars
  BY <1>8 DEF vars, screen, bounded, crossings, TypeOK
<1>. QED
  BY <1>1, <1>2, <1>3, <1>4, <1>5, <1>6, <1>7, <1>8 DEF Next, Alive

(* The fields of a neighbor are those of eNBs or blank, an add has a slot  *)
(* of the table, and the operator is always on one, whatever was added and *)
(* removed by others since it was drawn (iface_enb_draw,                   *)
(* iface_enb_handle_input, neigh_add_ipv4).                                *)
THEOREM NeighborsTyped == Spec => []TypeOK
<1>. QED
  BY InitTyped, NextTyped, PTL DEF Spec

-----------------------------------------------------------------------------
(* What a step may do to the table: an add goes on, or, with the adds left *)
(* alone, one slot loses its id or one learns its cell.                    *)

Starts(th) == \E p \in Peers : Begin(th, p, NoPci) /\ UNCHANGED neighs

Strikes == \E i : neighs' = [neighs EXCEPT ![i].id = NoId]
Learns == \E i : \E p \in Peers : neighs' = [neighs EXCEPT ![i].pci = p.pci]
Elsewhere ==
    /\ Strikes \/ Learns \/ UNCHANGED neighs
    /\ UNCHANGED <<adds, crossings>>

LEMMA TableSteps ==
    ASSUME [Next]_vars
    PROVE  \/ \E th \in Threads : Starts(th) \/ Add(th)
           \/ Elsewhere
<1>1. Callers \subseteq Peers /\ Typed \subseteq Peers
  BY NeighAssumption
<1>2. ASSUME NEW p \in Callers, AliveKnown(p)
      PROVE  Elsewhere
  BY <1>1, <1>2 DEF AliveKnown, Learns, Elsewhere
<1>3. ASSUME NEW p \in Callers, AliveNew(p)
      PROVE  Starts("main")
  BY <1>1, <1>3 DEF AliveNew, Starts
<1>4. ASSUME NEW p \in Callers, Conflict(p)
      PROVE  Elsewhere
  BY <1>4 DEF Conflict, Strikes, Elsewhere
<1>5. ASSUME NEW p \in Typed, OperatorAdd(p)
      PROVE  Starts("ui")
  BY <1>1, <1>5 DEF OperatorAdd, Starts
<1>6. OperatorMove => Elsewhere
  BY DEF OperatorMove, Elsewhere
<1>7. OperatorRemove => Elsewhere
  BY DEF OperatorRemove, RemNeigh, Strikes, Elsewhere
<1>8. UNCHANGED vars => Elsewhere
  BY DEF vars, Elsewhere
<1>9. "main" \in Threads /\ "ui" \in Threads
  BY DEF Threads
<1>. QED
  BY <1>2, <1>3, <1>4, <1>5, <1>6, <1>7, <1>8, <1>9 DEF Next, Alive

(* Slot by slot: a slot that had a neighbor keeps it, or is free after     *)
(* that; no slot gets a neighbor.                                          *)
LEMMA Kept ==
    ASSUME TypeOK, Elsewhere
    PROVE  \A i \in NSlots :
               /\ neighs'[i].text = neighs[i].text
               /\ neighs'[i].ip = neighs[i].ip
               /\ neighs'[i].port = neighs[i].port
               /\ neighs'[i].id \in {neighs[i].id, NoId}
<1>1. neighs \in [NSlots -> Neighbor]
  BY DEF TypeOK
<1>2. CASE Strikes
  BY <1>1, <1>2 DEF Strikes, Neighbor
<1>3. CASE Learns
  BY <1>1, <1>3 DEF Learns, Neighbor
<1>. QED
  BY <1>2, <1>3 DEF Elsewhere

-----------------------------------------------------------------------------
(* Each step of an add, field by field. *)

LEMMA IdTaken ==
    ASSUME TypeOK, NEW th \in Threads, TakeId(th)
    PROVE  LET a == adds[th]
           IN  /\ a \in Adding /\ a.at = "id"
               /\ \A i \in NSlots :
                     /\ neighs'[i].id = IF i = a.slot THEN a.peer.id ELSE neighs[i].id
                     /\ neighs'[i].text = neighs[i].text
                     /\ neighs'[i].ip = neighs[i].ip
                     /\ neighs'[i].port = neighs[i].port
               /\ adds'[th] \in Adding
               /\ adds'[th].at = "text"
               /\ adds'[th].peer = a.peer /\ adds'[th].slot = a.slot
               /\ adds'[Other(th)] = adds[Other(th)]
               /\ met' = met /\ torn' = torn
<1>1. adds[th] \in Adding /\ adds[th].at = "id"
  BY InAdd DEF TakeId
<1>2. neighs \in [NSlots -> Neighbor]
  BY DEF TypeOK
<1>3. \A i \in NSlots :
          /\ neighs'[i].id = IF i = adds[th].slot THEN adds[th].peer.id ELSE neighs[i].id
          /\ neighs'[i].text = neighs[i].text
          /\ neighs'[i].ip = neighs[i].ip
          /\ neighs'[i].port = neighs[i].port
  BY <1>2 DEF TakeId, Neighbor
<1>. QED
  BY <1>1, <1>3, GoneOn DEF TakeId, crossings

LEMMA TextCopied ==
    ASSUME TypeOK, NEW th \in Threads, CopyText(th)
    PROVE  LET a == adds[th]
           IN  /\ a \in Adding /\ a.at = "text"
               /\ \A i \in NSlots :
                     /\ neighs'[i].id = neighs[i].id
                     /\ neighs'[i].text =
                            IF i = a.slot THEN Overwrite(a.peer.ip, neighs[i].text)
                            ELSE neighs[i].text
                     /\ neighs'[i].ip = neighs[i].ip
                     /\ neighs'[i].port = neighs[i].port
               /\ adds'[th] \in Adding
               /\ adds'[th].at = "address"
               /\ adds'[th].peer = a.peer /\ adds'[th].slot = a.slot
               /\ adds'[Other(th)] = adds[Other(th)]
               /\ met' = met /\ torn' = torn
<1>1. adds[th] \in Adding /\ adds[th].at = "text"
  BY InAdd DEF CopyText
<1>2. neighs \in [NSlots -> Neighbor]
  BY DEF TypeOK
<1>3. \A i \in NSlots :
          /\ neighs'[i].id = neighs[i].id
          /\ neighs'[i].text =
                 IF i = adds[th].slot THEN Overwrite(adds[th].peer.ip, neighs[i].text)
                 ELSE neighs[i].text
          /\ neighs'[i].ip = neighs[i].ip
          /\ neighs'[i].port = neighs[i].port
  BY <1>2 DEF CopyText, Neighbor
<1>. QED
  BY <1>1, <1>3, GoneOn DEF CopyText, crossings

LEMMA AddressTaken ==
    ASSUME TypeOK, NEW th \in Threads, TakeAddress(th)
    PROVE  LET a == adds[th]
           IN  /\ a \in Adding /\ a.at = "address"
               /\ \A i \in NSlots :
                     /\ neighs'[i].id = neighs[i].id
                     /\ neighs'[i].text = neighs[i].text
                     /\ neighs'[i].ip = IF i = a.slot THEN Parsed(neighs[i]) ELSE neighs[i].ip
                     /\ neighs'[i].port = IF i = a.slot THEN a.peer.port ELSE neighs[i].port
               /\ adds'[th] \in Adding
               /\ adds'[th].at = "count"
               /\ adds'[th].peer = a.peer /\ adds'[th].slot = a.slot
               /\ adds'[Other(th)] = adds[Other(th)]
               /\ met' = met /\ torn' = torn
<1>1. adds[th] \in Adding /\ adds[th].at = "address"
  BY InAdd DEF TakeAddress
<1>2. neighs \in [NSlots -> Neighbor]
  BY DEF TypeOK
<1>3. \A i \in NSlots :
          /\ neighs'[i].id = neighs[i].id
          /\ neighs'[i].text = neighs[i].text
          /\ neighs'[i].ip = IF i = adds[th].slot THEN Parsed(neighs[i]) ELSE neighs[i].ip
          /\ neighs'[i].port = IF i = adds[th].slot THEN adds[th].peer.port ELSE neighs[i].port
  BY <1>2 DEF TakeAddress, Neighbor
<1>. QED
  BY <1>1, <1>3, GoneOn DEF TakeAddress, crossings

LEMMA Counted ==
    ASSUME TypeOK, NEW th \in Threads, Count(th)
    PROVE  /\ adds[th].at = "count"
           /\ adds'[th] = Idle
           /\ adds'[Other(th)] = adds[Other(th)]
           /\ neighs' = neighs /\ met' = met /\ torn' = torn
<1>1. adds \in [Threads -> {Idle} \cup Adding]
  BY DEF TypeOK
<1>. QED
  BY <1>1, Pair DEF Count, crossings

-----------------------------------------------------------------------------
(* Listed once. *)

LEMMA OneId ==
    ASSUME NEW p \in Peers, NEW q \in Peers, p.id = q.id
    PROVE  p = q
BY NeighAssumption

(* A step that gives no slot an id, and after which an add is ahead of the *)
(* write of its id only if it was before. *)
LEMMA UniqueKept ==
    ASSUME UniqueInv,
           \A i \in NSlots : neighs'[i].id \in {neighs[i].id, NoId},
           \A u \in Threads : adds'[u].at = "id" => adds'[u] = adds[u],
           met' = met
    PROVE  UniqueNeighbor' /\ Fresh' /\ Apart'
<1>1. UniqueNeighbor'
  BY DEF UniqueInv, UniqueNeighbor, Used
<1>2. ASSUME NEW u \in Threads, adds'[u].at = "id", adds'[u].peer.id \notin met'
      PROVE  \A i \in NSlots : neighs'[i].id # adds'[u].peer.id
  <2>1. adds'[u] = adds[u]
    BY <1>2
  <2>2. ~Known(adds[u].peer.id)
    BY <1>2, <2>1 DEF UniqueInv, Fresh
  <2>3. adds[u].peer.id # NoId
    BY <1>2, <2>1, InAdd, NeighAssumption DEF UniqueInv, Adding
  <2>. QED
    BY <2>1, <2>2, <2>3 DEF Known
<1>3. Fresh'
  BY <1>2 DEF Fresh, Known
<1>4. Apart'
  <2>. SUFFICES ASSUME NEW u \in Threads,
                       adds'[u].at = "id", adds'[Other(u)].at = "id",
                       adds'[u].peer = adds'[Other(u)].peer
                PROVE  adds'[u].peer.id \in met'
    BY DEF Apart
  <2>1. Other(u) \in Threads
    BY Pair
  <2>. QED
    BY <2>1 DEF UniqueInv, Apart
<1>. QED
  BY <1>1, <1>3, <1>4

LEMMA UniqueStarts ==
    ASSUME UniqueInv, NEW th \in Threads, Starts(th)
    PROVE  UniqueNeighbor' /\ Fresh' /\ Apart'
<1>. DEFINE o == Other(th)
<1>1. PICK p \in Peers : Begin(th, p, NoPci) /\ UNCHANGED neighs
  BY DEF Starts
<1>2. /\ adds'[th] = [at |-> "id", peer |-> p, pci |-> NoPci, slot |-> Min(Free)]
      /\ adds'[o] = adds[o]
      /\ met \subseteq met'
  BY <1>1, Begun DEF UniqueInv
<1>3. /\ o \in Threads /\ Other(o) = th /\ Other(th) = o
      /\ \A u \in Threads : u = th \/ u = o
  BY Pair
<1>4. ~Known(p.id) /\ (adds[o].at = "id" /\ adds[o].peer = p => p.id \in met')
  BY <1>1 DEF Begin, Begins
<1>. HIDE DEF o
<1>5. UniqueNeighbor'
  BY <1>1, <1>2 DEF UniqueInv, UniqueNeighbor, Used
<1>6. Fresh'
  BY <1>1, <1>2, <1>3, <1>4 DEF UniqueInv, Fresh, Known
<1>7. Apart'
  BY <1>2, <1>3, <1>4 DEF UniqueInv, Apart
<1>. QED
  BY <1>5, <1>6, <1>7

LEMMA UniqueTakesId ==
    ASSUME UniqueInv, NEW th \in Threads, TakeId(th)
    PROVE  UniqueNeighbor' /\ Fresh' /\ Apart'
<1>. DEFINE o == Other(th)
            a == adds[th]
<1>1. /\ a \in Adding /\ a.at = "id"
      /\ \A i \in NSlots : neighs'[i].id = IF i = a.slot THEN a.peer.id ELSE neighs[i].id
      /\ adds'[th].at = "text"
      /\ adds'[o] = adds[o]
      /\ met' = met
  BY IdTaken DEF UniqueInv
<1>2. /\ o \in Threads /\ Other(o) = th /\ Other(th) = o
      /\ \A u \in Threads : u = th \/ u = o
  BY Pair
<1>3. a.peer.id \in met \/ ~Known(a.peer.id)
  BY <1>1 DEF UniqueInv, Fresh
<1>4. ASSUME adds[o].at = "id", adds[o].peer.id \notin met
      PROVE  ~Known(adds[o].peer.id)'
  <2>1. ~Known(adds[o].peer.id)
    BY <1>2, <1>4 DEF UniqueInv, Fresh
  <2>2. adds[o].peer \in Peers /\ a.peer \in Peers
    BY <1>1, <1>2, <1>4, InAdd DEF UniqueInv, Adding
  <2>3. adds[o].peer # a.peer
    BY <1>1, <1>2, <1>4 DEF UniqueInv, Apart
  <2>4. adds[o].peer.id # a.peer.id
    BY <2>2, <2>3, OneId
  <2>. QED
    BY <1>1, <2>1, <2>4 DEF Known
<1>. HIDE DEF o, a
<1>5. UniqueNeighbor'
  BY <1>1, <1>3 DEF UniqueInv, UniqueNeighbor, Used, Known
<1>6. Fresh'
  BY <1>1, <1>2, <1>4 DEF Fresh
<1>7. Apart'
  BY <1>1, <1>2 DEF Apart
<1>. QED
  BY <1>5, <1>6, <1>7

LEMMA NextUnique == UniqueInv /\ [Next]_vars => UniqueInv'
<1>. SUFFICES ASSUME UniqueInv, [Next]_vars
              PROVE  UniqueNeighbor' /\ Fresh' /\ Apart'
  BY NextTyped DEF UniqueInv
<1>. USE DEF UniqueInv
<1>1. ASSUME NEW th \in Threads, CopyText(th)
      PROVE  UniqueNeighbor' /\ Fresh' /\ Apart'
  BY <1>1, TextCopied, Pair, UniqueKept
<1>2. ASSUME NEW th \in Threads, TakeAddress(th)
      PROVE  UniqueNeighbor' /\ Fresh' /\ Apart'
  BY <1>2, AddressTaken, Pair, UniqueKept
<1>3. ASSUME NEW th \in Threads, Count(th)
      PROVE  UniqueNeighbor' /\ Fresh' /\ Apart'
  <2>1. \A u \in Threads : adds'[u].at = "id" => adds'[u] = adds[u]
    BY <1>3, Counted, Pair DEF Idle
  <2>. QED
    BY <1>3, <2>1, Counted, UniqueKept
<1>4. CASE Elsewhere
  BY <1>4, Kept, UniqueKept DEF Elsewhere, crossings
<1>. QED
  BY <1>1, <1>2, <1>3, <1>4, TableSteps, UniqueStarts, UniqueTakesId DEF Add

(* No eNB is in the table twice, although x2_alive takes one past          *)
(* sim_nof_neigh for a stranger (x2.c:69 and x2.c:84): neigh_add_ipv4      *)
(* looks at every slot.  Unless the main loop and the interface were both  *)
(* between that look and the write of the same id (neigh.c:49-67).         *)
THEOREM NeighborsUnique == Spec => []UniqueNeighbor
<1>1. Init => UniqueInv
  BY InitTyped DEF Init, UniqueNeighbor, Used, UniqueInv, Fresh, Apart, Idle, Threads, Other
<1>2. UniqueInv /\ [Next]_vars => UniqueInv'
  BY NextUnique
<1>3. UniqueInv => UniqueNeighbor
  BY DEF UniqueInv
<1>. QED
  BY <1>1, <1>2, <1>3, PTL DEF Spec

-----------------------------------------------------------------------------
(* Addresses. *)

(* A slot that is nobody's but its neighbor's. *)
LEMMA SettledSlot ==
    \A i : i \in Settled <=>
        /\ i \in NSlots /\ neighs[i].id # NoId
        /\ i \notin torn
        /\ \A th \in Threads : i \notin Hands(th)
BY DEF Settled, Used, Threads

LEMMA SettledSlotNext ==
    \A i : i \in Settled' <=>
        /\ i \in NSlots /\ neighs'[i].id # NoId
        /\ i \notin torn'
        /\ \A th \in Threads : i \notin Hands(th)'
BY DEF Settled, Used, Threads

(* Steps that write no text and take no slot leave the buffers clean. *)
LEMMA CleanKept ==
    ASSUME Clean, \A i \in NSlots : neighs'[i].text = neighs[i].text
    PROVE  Clean'
BY DEF Clean, Longest

(* The slots a thread alone is filling. *)
Alone(u) ==
    LET a == adds[u]
    IN  /\ a.at = "id" /\ a.slot \notin torn => neighs[a.slot].id = NoId
        /\ a.at \in {"text", "address"} /\ a.slot \notin torn =>
               neighs[a.slot].id \in {a.peer.id, NoId}
        /\ a.at = "address" /\ a.slot \notin torn /\ a.peer \in Longest =>
               neighs[a.slot].text = Overwrite(a.peer.ip, EmptyBuf)

LEMMA AllAlone == Owned /\ Copied <=> \A u \in Threads : Alone(u)
BY DEF Owned, Copied, Alone

LEMMA AllAloneNext == Owned' /\ Copied' <=> \A u \in Threads : Alone(u)'
BY DEF Owned, Copied, Alone

(* They stay so over a step of the other thread that leaves the slots that *)
(* are not torn to it.                                                     *)
LEMMA AloneKept ==
    ASSUME AddressInv, NEW u \in Threads, adds'[u] = adds[u],
           Hands(u) # {} /\ adds[u].slot \notin torn' =>
               /\ adds[u].slot \notin torn
               /\ neighs'[adds[u].slot].text = neighs[adds[u].slot].text
               /\ neighs'[adds[u].slot].id \in {neighs[adds[u].slot].id, NoId}
    PROVE  Alone(u)'
<1>1. Alone(u)
  BY AllAlone DEF AddressInv
<1>2. adds[u].at \in {"id", "text", "address"} => Hands(u) # {}
  BY DEF Hands
<1>3. Longest' = Longest
  BY DEF Longest
<1>. QED
  BY <1>1, <1>2, <1>3 DEF Alone

(* A step that takes no slot and keeps the texts; in hand stays what was,  *)
(* ids are kept or reset, and so are the addresses.                        *)
LEMMA AddressKept ==
    ASSUME AddressInv,
           \A i \in NSlots : /\ neighs'[i].text = neighs[i].text
                             /\ neighs'[i].ip = neighs[i].ip
                             /\ neighs'[i].port = neighs[i].port
                             /\ neighs'[i].id \in {neighs[i].id, NoId},
           \A u \in Threads : Hands(u)' = Hands(u),
           \A u \in Threads : Hands(u) # {} => adds'[u] = adds[u],
           torn' = torn
    PROVE  Clean' /\ TwoHands' /\ Owned' /\ Copied' /\ LongestReached'
<1>1. Clean'
  BY CleanKept DEF AddressInv
<1>2. TwoHands'
  BY Pair DEF AddressInv, TwoHands
<1>3. ASSUME NEW u \in Threads
      PROVE  Alone(u)'
  <2>1. CASE Hands(u) = {}
    <3>1. adds'[u].at \notin {"id", "text", "address"}
      BY <2>1 DEF Hands
    <3>. QED
      BY <3>1 DEF Alone
  <2>2. CASE Hands(u) # {}
    <3>1. adds[u].slot \in NSlots
      BY <2>2, InAdd DEF AddressInv, Adding, Hands
    <3>. QED
      BY <2>2, <3>1, AloneKept
  <2>. QED
    BY <2>1, <2>2
<1>4. LongestReached'
  <2>1. \A i \in Settled' : i \in Settled /\ neighs'[i].id = neighs[i].id
    BY SettledSlot, SettledSlotNext
  <2>2. \A i \in Settled : i \in NSlots
    BY SettledSlot
  <2>. QED
    BY <2>1, <2>2 DEF AddressInv, LongestReached, Longest
<1>. QED
  BY <1>1, <1>2, <1>3, <1>4, AllAloneNext

LEMMA AddressStarts ==
    ASSUME AddressInv, NEW th \in Threads, Starts(th)
    PROVE  Clean' /\ TwoHands' /\ Owned' /\ Copied' /\ LongestReached'
<1>. DEFINE o == Other(th)
            f == Min(Free)
<1>1. PICK p \in Peers : Begin(th, p, NoPci) /\ UNCHANGED neighs
  BY DEF Starts
<1>2. /\ f \in NSlots
      /\ neighs[f].id = NoId
      /\ adds[th] = Idle
      /\ adds'[th] = [at |-> "id", peer |-> p, pci |-> NoPci, slot |-> f]
      /\ adds'[o] = adds[o]
      /\ torn' \subseteq torn \cup {f}
      /\ torn \subseteq torn' \cup {f}
      /\ f \in torn' <=> f \in Hands(o)
  BY <1>1, Begun DEF AddressInv
<1>3. /\ o \in Threads /\ Other(o) = th /\ Other(th) = o
      /\ \A u \in Threads : u = th \/ u = o
  BY Pair
<1>. HIDE DEF o, f
<1>4. Hands(th) = {} /\ Hands(th)' = {f} /\ Hands(o)' = Hands(o)
  BY <1>2 DEF Hands, Idle
<1>5. Clean'
  BY <1>1, CleanKept DEF AddressInv
<1>6. TwoHands'
  BY <1>2, <1>3, <1>4 DEF TwoHands
<1>7. Alone(th)'
  BY <1>1, <1>2 DEF Alone
<1>8. Alone(o)'
  <2>1. Hands(o) # {} => Hands(o) = {adds[o].slot}
    BY DEF Hands
  <2>2. Hands(o) # {} /\ adds[o].slot \notin torn' => adds[o].slot \notin torn
    BY <1>2, <2>1
  <2>. QED
    BY <1>1, <1>2, <1>3, <2>2, AloneKept
<1>9. LongestReached'
  <2>1. \A i \in Settled' : i \in Settled
    BY <1>1, <1>2, <1>3, <1>4, SettledSlot, SettledSlotNext
  <2>. QED
    BY <1>1, <2>1 DEF AddressInv, LongestReached, Longest
<1>. QED
  BY <1>3, <1>5, <1>6, <1>7, <1>8, <1>9, AllAloneNext

LEMMA AddressTakesId ==
    ASSUME AddressInv, NEW th \in Threads, TakeId(th)
    PROVE  Clean' /\ TwoHands' /\ Owned' /\ Copied' /\ LongestReached'
<1>. DEFINE o == Other(th)
            a == adds[th]
<1>1. /\ a \in Adding /\ a.at = "id"
      /\ \A i \in NSlots :
            /\ neighs'[i].id = IF i = a.slot THEN a.peer.id ELSE neighs[i].id
            /\ neighs'[i].text = neighs[i].text
            /\ neighs'[i].ip = neighs[i].ip
            /\ neighs'[i].port = neighs[i].port
      /\ adds'[th].at = "text"
      /\ adds'[th].peer = a.peer /\ adds'[th].slot = a.slot
      /\ adds'[o] = adds[o]
      /\ torn' = torn
  BY IdTaken DEF AddressInv
<1>2. /\ o \in Threads /\ Other(o) = th /\ Other(th) = o
      /\ \A u \in Threads : u = th \/ u = o
  BY Pair
<1>3. a.slot \in NSlots
  BY <1>1 DEF Adding
<1>4. /\ Hands(th) = {a.slot} /\ Hands(th)' = {a.slot} /\ Hands(o)' = Hands(o)
      /\ Hands(o) # {} => Hands(o) = {adds[o].slot} /\ adds[o].slot \in NSlots
  <2>1. Hands(o) # {} => Hands(o) = {adds[o].slot} /\ adds[o].slot \in NSlots
    BY <1>2, InAdd DEF AddressInv, Adding, Hands
  <2>. QED
    BY <1>1, <2>1 DEF Hands
<1>. HIDE DEF o, a
<1>5. Clean'
  BY <1>1, CleanKept DEF AddressInv
<1>6. TwoHands'
  BY <1>1, <1>2, <1>4 DEF AddressInv, TwoHands
<1>7. Alone(th)'
  BY <1>1, <1>3 DEF Alone
<1>8. Alone(o)'
  <2>1. Hands(o) # {} /\ adds[o].slot \notin torn => adds[o].slot # a.slot
    BY <1>2, <1>4 DEF AddressInv, TwoHands
  <2>. QED
    BY <1>1, <1>2, <1>4, <2>1, AloneKept
<1>9. LongestReached'
  <2>1. \A i \in Settled' : i \in Settled /\ i # a.slot
    BY <1>1, <1>2, <1>4, SettledSlot, SettledSlotNext
  <2>2. \A i \in Settled : i \in NSlots
    BY SettledSlot
  <2>. QED
    BY <1>1, <2>1, <2>2 DEF AddressInv, LongestReached, Longest
<1>. QED
  BY <1>2, <1>5, <1>6, <1>7, <1>8, <1>9, AllAloneNext

LEMMA AddressCopiesText ==
    ASSUME AddressInv, NEW th \in Threads, CopyText(th)
    PROVE  Clean' /\ TwoHands' /\ Owned' /\ Copied' /\ LongestReached'
<1>. DEFINE o == Other(th)
            a == adds[th]
<1>1. /\ a \in Adding /\ a.at = "text"
      /\ \A i \in NSlots :
            /\ neighs'[i].id = neighs[i].id
            /\ neighs'[i].text = IF i = a.slot THEN Overwrite(a.peer.ip, neighs[i].text)
                                 ELSE neighs[i].text
            /\ neighs'[i].ip = neighs[i].ip
            /\ neighs'[i].port = neighs[i].port
      /\ adds'[th].at = "address"
      /\ adds'[th].peer = a.peer /\ adds'[th].slot = a.slot
      /\ adds'[o] = adds[o]
      /\ torn' = torn
  BY TextCopied DEF AddressInv
<1>2. /\ o \in Threads /\ Other(o) = th /\ Other(th) = o
      /\ \A u \in Threads : u = th \/ u = o
  BY Pair
<1>3. a.slot \in NSlots /\ a.peer \in Peers
  BY <1>1 DEF Adding
<1>4. /\ Hands(th) = {a.slot} /\ Hands(th)' = {a.slot} /\ Hands(o)' = Hands(o)
      /\ Hands(o) # {} => Hands(o) = {adds[o].slot} /\ adds[o].slot \in NSlots
  <2>1. Hands(o) # {} => Hands(o) = {adds[o].slot} /\ adds[o].slot \in NSlots
    BY <1>2, InAdd DEF AddressInv, Adding, Hands
  <2>. QED
    BY <1>1, <2>1 DEF Hands
<1>5. Alone(th)
  BY AllAlone DEF AddressInv
<1>6. neighs[a.slot].text \in [1 .. BufLen -> Nat]
  BY <1>3 DEF AddressInv, TypeOK, Neighbor
<1>. HIDE DEF o
<1>7. Clean'
  <2>. SUFFICES ASSUME NEW i \in NSlots, NEW p \in Longest, NEW k \in 1 .. BufLen,
                       Len(p.ip) < k
                PROVE  neighs'[i].text[k] = NUL
    BY DEF Clean, Longest
  <2>1. neighs[i].text[k] = NUL
    BY DEF AddressInv, Clean
  <2>2. i = a.slot => neighs'[i].text[k] = NUL
    <3>1. Len(a.peer.ip) <= Len(p.ip) /\ Len(a.peer.ip) \in Nat /\ Len(p.ip) \in Nat
      BY <1>3, NeighAssumption DEF Longest
    <3>2. ~(k <= Len(a.peer.ip))
      BY <3>1
    <3>3. Overwrite(a.peer.ip, neighs[i].text)[k] = neighs[i].text[k]
      BY <3>2 DEF Overwrite
    <3>. QED
      BY <1>1, <2>1, <3>3
  <2>. QED
    BY <1>1, <2>1, <2>2
<1>8. TwoHands'
  BY <1>1, <1>2, <1>4 DEF AddressInv, TwoHands
<1>9. Alone(th)'
  <2>1. a.peer \in Longest =>
            Overwrite(a.peer.ip, neighs[a.slot].text) = Overwrite(a.peer.ip, EmptyBuf)
    BY <1>3, <1>6, OverwriteWhole DEF AddressInv, Clean
  <2>2. Longest' = Longest
    BY DEF Longest
  <2>. QED
    BY <1>1, <1>3, <1>5, <2>1, <2>2 DEF Alone
<1>10. Alone(o)'
  <2>1. Hands(o) # {} /\ adds[o].slot \notin torn => adds[o].slot # a.slot
    BY <1>2, <1>4 DEF AddressInv, TwoHands
  <2>. HIDE DEF a
  <2>. QED
    BY <1>1, <1>2, <1>4, <2>1, AloneKept
<1>11. LongestReached'
  <2>1. \A i \in Settled' : i \in Settled
    BY <1>1, <1>2, <1>4, SettledSlot, SettledSlotNext
  <2>2. \A i \in Settled : i \in NSlots
    BY SettledSlot
  <2>. QED
    BY <1>1, <2>1, <2>2 DEF AddressInv, LongestReached, Longest
<1>. QED
  BY <1>2, <1>7, <1>8, <1>9, <1>10, <1>11, AllAloneNext

(* The address read out of the slot: whoever has an address of the longest *)
(* kind gets its own.                                                      *)
LEMMA AddressParsed ==
    ASSUME AddressInv, NEW th \in Threads, TakeAddress(th)
    PROVE  Clean' /\ TwoHands' /\ Owned' /\ Copied' /\ LongestReached'
<1>. DEFINE o == Other(th)
            a == adds[th]
<1>1. /\ a \in Adding /\ a.at = "address"
      /\ \A i \in NSlots :
            /\ neighs'[i].id = neighs[i].id
            /\ neighs'[i].text = neighs[i].text
            /\ neighs'[i].ip = IF i = a.slot THEN Parsed(neighs[i]) ELSE neighs[i].ip
            /\ neighs'[i].port = IF i = a.slot THEN a.peer.port ELSE neighs[i].port
      /\ adds'[th].at = "count"
      /\ adds'[o] = adds[o]
      /\ torn' = torn
  BY AddressTaken DEF AddressInv
<1>2. /\ o \in Threads /\ Other(o) = th /\ Other(th) = o
      /\ \A u \in Threads : u = th \/ u = o
  BY Pair
<1>3. a.slot \in NSlots /\ a.peer \in Peers
  BY <1>1 DEF Adding
<1>4. /\ Hands(th) = {a.slot} /\ Hands(th)' = {} /\ Hands(o)' = Hands(o)
      /\ Hands(o) # {} => Hands(o) = {adds[o].slot} /\ adds[o].slot \in NSlots
  <2>1. Hands(o) # {} => Hands(o) = {adds[o].slot} /\ adds[o].slot \in NSlots
    BY <1>2, InAdd DEF AddressInv, Adding, Hands
  <2>. QED
    BY <1>1, <2>1 DEF Hands
<1>5. Alone(th)
  BY AllAlone DEF AddressInv
<1>. HIDE DEF o, a
<1>6. Clean'
  BY <1>1, CleanKept DEF AddressInv
<1>7. TwoHands'
  BY <1>1, <1>2, <1>4 DEF AddressInv, TwoHands
<1>8. Alone(th)'
  BY <1>1 DEF Alone
<1>9. Alone(o)'
  BY <1>1, <1>2, <1>4, AloneKept
<1>10. LongestReached'
  <2>. SUFFICES ASSUME NEW i \in Settled', NEW p \in Peers, neighs'[i].id = p.id
                PROVE  /\ neighs'[i].port = p.port
                       /\ p \in Longest => neighs'[i].ip = p.ip
    BY DEF LongestReached, Longest
  <2>1. i \in NSlots /\ neighs[i].id = p.id /\ i \notin torn
    BY <1>1, SettledSlotNext
  <2>2. CASE i # a.slot
    <3>1. i \in Settled
      BY <1>1, <1>2, <1>4, <2>1, <2>2, SettledSlot, SettledSlotNext
    <3>. QED
      BY <1>1, <2>1, <2>2, <3>1 DEF AddressInv, LongestReached
  <2>3. CASE i = a.slot
    <3>1. p = a.peer
      <4>1. p.id \in {a.peer.id, NoId} /\ p.id # NoId
        BY <1>1, <1>5, <2>1, <2>3, NeighAssumption DEF Alone, a
      <4>. QED
        BY <1>3, <4>1, OneId
    <3>2. p \in Longest => neighs[i].text = Overwrite(p.ip, EmptyBuf)
      BY <1>1, <1>5, <2>1, <2>3, <3>1 DEF Alone, a
    <3>3. p \in Longest => Parsed(neighs[i]) = p.ip
      BY <3>2, TextRead DEF Parsed, Ips
    <3>. QED
      BY <1>1, <2>1, <2>3, <3>1, <3>3
  <2>. QED
    BY <2>2, <2>3
<1>. QED
  BY <1>2, <1>6, <1>7, <1>8, <1>9, <1>10, AllAloneNext

LEMMA NextAddress == AddressInv /\ [Next]_vars => AddressInv'
<1>. SUFFICES ASSUME AddressInv, [Next]_vars
              PROVE  Clean' /\ TwoHands' /\ Owned' /\ Copied' /\ LongestReached'
  BY NextTyped DEF AddressInv
<1>1. ASSUME NEW th \in Threads, Count(th)
      PROVE  Clean' /\ TwoHands' /\ Owned' /\ Copied' /\ LongestReached'
  <2>1. /\ adds[th].at = "count"
        /\ adds'[th] = Idle
        /\ adds'[Other(th)] = adds[Other(th)]
        /\ neighs' = neighs /\ torn' = torn
    BY <1>1, Counted DEF AddressInv
  <2>2. /\ \A u \in Threads : Hands(u)' = Hands(u)
        /\ \A u \in Threads : Hands(u) # {} => adds'[u] = adds[u]
    BY <2>1, Pair DEF Hands, Idle
  <2>. QED
    BY <2>1, <2>2, AddressKept
<1>2. CASE Elsewhere
  <2>1. /\ \A u \in Threads : Hands(u)' = Hands(u)
        /\ \A u \in Threads : Hands(u) # {} => adds'[u] = adds[u]
        /\ torn' = torn
    BY <1>2 DEF Elsewhere, Hands, crossings
  <2>. QED
    BY <1>2, <2>1, Kept, AddressKept DEF AddressInv
<1>. QED
  BY <1>1, <1>2, TableSteps, AddressStarts, AddressTakesId, AddressCopiesText, AddressParsed
     DEF Add

LEMMA InitAddress == Init => AddressInv
<1>. SUFFICES ASSUME Init
              PROVE  AddressInv
  OBVIOUS
<1>1. Hands("main") = {} /\ Hands("ui") = {}
  BY DEF Init, Hands, Threads, Idle
<1>2. Clean
  BY DEF Init, Clean, EmptyBuf
<1>3. TwoHands /\ Owned /\ Copied
  BY <1>1 DEF Init, TwoHands, Owned, Copied, Threads, Idle
<1>4. LongestReached
  BY DEF Init, LongestReached, Settled, Used
<1>. QED
  BY <1>2, <1>3, <1>4, InitTyped DEF AddressInv

(* Whoever is listed is listed with its own port, and with its own address *)
(* unless some address text of the network is longer, in any order of      *)
(* adds, removals and conflicts: neigh_add_ipv4 copies the text without    *)
(* its end (neigh.c:70) and parses the result (neigh.c:72).  The slots two *)
(* adds took at once, and those an add has still to write, are not claimed.*)
THEOREM LongestAreReached == Spec => []LongestReached
<1>1. AddressInv => LongestReached
  BY DEF AddressInv
<1>. QED
  BY <1>1, InitAddress, NextAddress, PTL DEF Spec


=============================================================================
