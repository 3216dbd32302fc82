----------------------------- MODULE TableProofs -----------------------------
(***************************************************************************)
(* Lemmas about the tables of an eNB as values, cited by the modules that  *)
(* own one: what ue_add and ue_rem (UESlots) and ran_add_user,             *)
(* ran_rem_user and ran_bootstrap (RanTable) make of them.  RanMax has no  *)
(* part in what the modules without a RAN table cite.                      *)
(*                                                                         *)
(* First, numbers: the loops of the program stop at the first slot that    *)
(* fits, for which the modules say Min, and its counters wrap around.      *)
(***************************************************************************)
EXTENDS RanTable, FiniteSetTheorems, WellFoundedInduction, TLAPS

LEMMA LeastNatural ==
    ASSUME NEW S \in SUBSET Nat, S # {}
    PROVE  \E x \in S : \A y \in S : x <= y
<1>1. PICK x \in S : \A y \in S : ~(<<y, x>> \in OpToRel(<, Nat))
  BY WFMin, NatLessThanWellFounded, Zenon
<1>2. \A y \in S : ~(y < x)
  BY <1>1, Zenon DEF OpToRel
<1>. QED
  BY <1>2

(* Min is one of the elements and none is smaller. *)
LEMMA MinIsLeast ==
    ASSUME NEW S \in SUBSET Nat, S # {}
    PROVE  /\ Min(S) \in S
           /\ \A y \in S : Min(S) <= y
BY LeastNatural DEF Min

(* What a loop computes turn by turn, f[k] being the result of k turns.    *)
Iterates(f, D, N, s, step) ==
    /\ f \in [0 .. N -> D]
    /\ f[0] = s
    /\ \A k \in 1 .. N : f[k] = step[k][f[k - 1]]

(* There is such a function, so that a recursive definition defines it. *)
LEMMA Iterated ==
    ASSUME NEW D, NEW N \in Nat, NEW s \in D, NEW step \in [1 .. N -> [D -> D]]
    PROVE  \E f : Iterates(f, D, N, s, step)
<1>. USE DEF Iterates
<1>. DEFINE Upto(n) == \E f : Iterates(f, D, n, s, step)
            bad == {n \in 0 .. N : ~Upto(n)}
<1>. SUFFICES ASSUME bad # {}
              PROVE  FALSE
  OBVIOUS
<1>1. bad \in SUBSET Nat
  OBVIOUS
<1>2. PICK m \in bad : \A n \in bad : m <= n
  <2>. HIDE DEF bad
  <2>. QED
    BY <1>1, LeastNatural
<1>3. m # 0
  <2>. DEFINE f == [k \in 0 .. 0 |-> s]
  <2>1. Iterates(f, D, 0, s, step)
    OBVIOUS
  <2>. HIDE DEF f, Iterates
  <2>. QED
    BY <1>2, <2>1
<1>4. m - 1 \in 0 .. N /\ m - 1 \notin bad
  <2>1. m \in 0 .. N
    BY <1>2
  <2>. HIDE DEF bad
  <2>2. m - 1 \in bad => m <= m - 1
    BY <1>2
  <2>. QED
    BY <1>3, <2>1, <2>2
<1>5. PICK f : Iterates(f, D, m - 1, s, step)
  BY <1>4
<1>. DEFINE g == [k \in 0 .. m |-> IF k = m THEN step[m][f[m - 1]] ELSE f[k]]
<1>6. m \in 1 .. N /\ f[m - 1] \in D /\ step[m][f[m - 1]] \in D
  <2>1. m \in 1 .. N
    BY <1>2, <1>3
  <2>2. f[m - 1] \in D
    BY <1>5, <2>1
  <2>. QED
    BY <2>1, <2>2
<1>7. g \in [0 .. m -> D] /\ g[0] = s
  BY <1>5, <1>6
<1>8. \A k \in 1 .. m : g[k] = step[k][g[k - 1]]
  BY <1>5, <1>6
<1>9. Iterates(g, D, m, s, step)
  BY <1>7, <1>8
<1>. HIDE DEF g, Iterates
<1>. QED
  BY <1>2, <1>9

LEMMA DivMod ==
    ASSUME NEW m \in Nat \ {0}, NEW a \in Int
    PROVE  /\ a \div m \in Int
           /\ a % m \in 0 .. m - 1
           /\ a = m * (a \div m) + (a % m)
OBVIOUS

LEMMA ModUnique ==
    ASSUME NEW m \in Nat \ {0}, NEW a \in Int, NEW q \in Int, NEW r \in 0 .. m - 1,
           a = m * q + r
    PROVE  a % m = r
BY SMTT(60)

(* A u32 counter may wrap before each change or once at the end. *)
LEMMA ModPlus ==
    ASSUME NEW m \in Nat \ {0}, NEW a \in Int, NEW k \in Int
    PROVE  ((a % m) + k) % m = (a + k) % m
<1>. DEFINE qa == a \div m
            ra == a % m
            qb == (ra + k) \div m
            rb == (ra + k) % m
<1>1. qa \in Int /\ ra \in 0 .. m - 1 /\ a = m * qa + ra
  BY DivMod
<1>2. qb \in Int /\ rb \in 0 .. m - 1 /\ ra + k = m * qb + rb
  <2>1. ra + k \in Int
    BY <1>1
  <2>. HIDE DEF ra
  <2>. QED
    BY <2>1, DivMod
<1>. HIDE DEF qa, ra, qb, rb
<1>3. a + k = m * (qa + qb) + rb
  <2>1. m * (qa + qb) = m * qa + m * qb
    BY <1>1, <1>2
  <2>2. m * qa \in Int /\ m * qb \in Int
    BY <1>1, <1>2
  <2>. QED
    BY <1>1, <1>2, <2>1, <2>2
<1>4. (a + k) % m = rb
  <2>1. a + k \in Int /\ qa + qb \in Int
    BY <1>1, <1>2
  <2>. QED
    BY <1>2, <1>3, <2>1, ModUnique
<1>. QED
  BY <1>4 DEF ra, rb

-----------------------------------------------------------------------------
(* sim_ues. *)

(* A table whose slots are all of the type the C structure gives them. *)
IsTable(t) == t \in [Slots -> UE]

(* A table in which no two taken slots hold one IMSI or one RNTI, and in   *)
(* which a slot is free as a whole or taken as a whole by a UE of one of   *)
(* the cells phy.                                                          *)
Coherent(t, phy) ==
    /\ \A i, j \in ActiveSlots(t) : t[i].imsi = t[j].imsi => i = j
    /\ \A i, j \in ActiveSlots(t) : t[i].rnti = t[j].rnti => i = j
    /\ \A i \in Slots :
          IF t[i].rnti = NoRnti
          THEN t[i] = FreeSlot
          ELSE t[i].imsi \in Imsis /\ t[i].pci \in phy

-----------------------------------------------------------------------------
LEMMA SlotsAreNat == Slots \in SUBSET Nat
BY SlotsAssumption DEF Slots

-----------------------------------------------------------------------------
(* ue_add *)

(* The slot ue_add takes is a free one. *)
LEMMA FirstFree ==
    ASSUME NEW t, FreeSlots(t) # {}
    PROVE  /\ Min(FreeSlots(t)) \in Slots
           /\ t[Min(FreeSlots(t))].rnti = NoRnti
<1>1. FreeSlots(t) \in SUBSET Nat
  BY SlotsAreNat DEF FreeSlots
<1>. QED
  BY <1>1, MinIsLeast DEF FreeSlots

(* The RNTI ue_add ends up with is nobody's, and not the invalid one. *)
LEMMA AssignedIsFresh ==
    ASSUME NEW t, IsTable(t), FreeSlots(t) # {},
           NEW asked \in Rntis, NEW r \in AssignedRntis(t, asked)
    PROVE  /\ r \in Rntis \ {NoRnti}
           /\ r \notin RntisOf(t)
<1>1. NoRnti \in RntisOf(t)
  BY DEF FreeSlots, RntisOf
<1>2. Candidates \subseteq Rntis
  BY SlotsAssumption DEF Candidates, Rntis
<1>. QED
  BY <1>1, <1>2 DEF AssignedRntis

LEMMA AddUEType ==
    ASSUME NEW t, IsTable(t),
           NEW r \in Rntis, NEW m \in Imsis \cup {NoImsi}, NEW p \in Pcis
    PROVE  IsTable(AddUE(t, r, m, p))
BY DEF IsTable, AddUE, UE

(* The taken slots after ue_add are those before and the one it took. *)
LEMMA AddUESlots ==
    ASSUME NEW t, IsTable(t), FreeSlots(t) # {}, NEW r \in Rntis \ {NoRnti},
           NEW m, NEW p
    PROVE  LET f == Min(FreeSlots(t))
               u == AddUE(t, r, m, p)
           IN  /\ u[f] = [rnti |-> r, imsi |-> m, pci |-> p]
               /\ \A i \in Slots \ {f} : u[i] = t[i]
               /\ ActiveSlots(u) = ActiveSlots(t) \cup {f}
BY FirstFree DEF IsTable, AddUE, ActiveSlots

(* ue_add keeps a table coherent: the IMSI and the RNTI it writes are in   *)
(* no other slot, the free ones included.                                  *)
LEMMA AddUECoherent ==
    ASSUME NEW t, IsTable(t), NEW phy, Coherent(t, phy),
           NEW m \in Imsis \cup {NoImsi}, NEW p, NEW asked \in Rntis,
           AddResult(t, m, p, phy) = "SUCCESS",
           NEW r \in AssignedRntis(t, asked)
    PROVE  Coherent(AddUE(t, r, m, p), phy)
<1>. DEFINE f == Min(FreeSlots(t))
            u == AddUE(t, r, m, p)
<1>1. m \notin ImsisOf(t) /\ FreeSlots(t) # {} /\ p \in phy
  BY DEF AddResult
<1>2. m \in Imsis
  BY <1>1 DEF Coherent, ImsisOf, FreeSlots, FreeSlot
<1>3. r \in Rntis \ {NoRnti} /\ r \notin RntisOf(t)
  BY <1>1, AssignedIsFresh
<1>4. f \in Slots
  BY <1>1, FirstFree
<1>5. /\ u[f] = [rnti |-> r, imsi |-> m, pci |-> p]
      /\ \A i \in Slots \ {f} : u[i] = t[i]
      /\ ActiveSlots(u) = ActiveSlots(t) \cup {f}
  BY <1>1, <1>3, AddUESlots
<1>. HIDE DEF f, u
<1>6. \A i \in ActiveSlots(u) \ {f} : i \in ActiveSlots(t) /\ u[i] = t[i]
  BY <1>5 DEF ActiveSlots
<1>7. \A i \in ActiveSlots(t) : t[i].imsi # m /\ t[i].rnti # r
  BY <1>1, <1>3 DEF ImsisOf, RntisOf, ActiveSlots
<1>8. \A i, j \in ActiveSlots(u) : u[i].imsi = u[j].imsi => i = j
  BY <1>5, <1>6, <1>7 DEF Coherent
<1>9. \A i, j \in ActiveSlots(u) : u[i].rnti = u[j].rnti => i = j
  BY <1>5, <1>6, <1>7 DEF Coherent
<1>10. \A i \in Slots :
          IF u[i].rnti = NoRnti
          THEN u[i] = FreeSlot
          ELSE u[i].imsi \in Imsis /\ u[i].pci \in phy
  BY <1>1, <1>2, <1>3, <1>5 DEF Coherent
<1>. QED
  BY <1>8, <1>9, <1>10 DEF Coherent, u

-----------------------------------------------------------------------------
(* ue_rem *)

(* The slot ue_rem frees is one that holds the RNTI. *)
LEMMA FirstMatching ==
    ASSUME NEW t, NEW r, Matching(t, r) # {}
    PROVE  /\ Min(Matching(t, r)) \in Slots
           /\ t[Min(Matching(t, r))].rnti = r
<1>1. Matching(t, r) \in SUBSET Nat
  BY SlotsAreNat DEF Matching
<1>. QED
  BY <1>1, MinIsLeast DEF Matching

LEMMA RemUEType ==
    ASSUME NEW t, IsTable(t), NEW r
    PROVE  IsTable(RemUE(t, r))
<1>1. FreeSlot \in UE
  BY SlotsAssumption DEF FreeSlot, UE, Rntis, NoRnti
<1>. QED
  BY <1>1 DEF IsTable, RemUE

(* The slots taken after ue_rem are slots taken before, unchanged; only    *)
(* slots that hold the RNTI are freed, and every change leaves a slot      *)
(* blank.                                                                  *)
LEMMA RemUESlots ==
    ASSUME NEW t, IsTable(t), NEW r
    PROVE  LET u == RemUE(t, r)
           IN  /\ \A i \in Slots : u[i] = t[i] \/ (t[i].rnti = r /\ u[i] = FreeSlot)
               /\ ActiveSlots(u) \subseteq ActiveSlots(t)
               /\ \A i \in ActiveSlots(u) : u[i] = t[i]
<1>1. \A i \in Slots : \/ RemUE(t, r)[i] = t[i]
                       \/ t[i].rnti = r /\ RemUE(t, r)[i] = FreeSlot
  BY FirstMatching DEF IsTable, RemUE
<1>. QED
  BY <1>1 DEF ActiveSlots, FreeSlot

(* ue_rem keeps a table coherent. *)
LEMMA RemUECoherent ==
    ASSUME NEW t, IsTable(t), NEW phy, Coherent(t, phy), NEW r
    PROVE  Coherent(RemUE(t, r), phy)
<1>. DEFINE u == RemUE(t, r)
<1>1. /\ \A i \in Slots : u[i] = t[i] \/ u[i] = FreeSlot
      /\ ActiveSlots(u) \subseteq ActiveSlots(t)
      /\ \A i \in ActiveSlots(u) : u[i] = t[i]
  BY RemUESlots
<1>. HIDE DEF u
<1>2. \A i \in Slots :
          IF u[i].rnti = NoRnti
          THEN u[i] = FreeSlot
          ELSE u[i].imsi \in Imsis /\ u[i].pci \in phy
  BY <1>1 DEF Coherent, FreeSlot
<1>. QED
  BY <1>1, <1>2 DEF Coherent, u

(* In a coherent table the RNTI is gone after ue_rem: no other slot held   *)
(* it.                                                                     *)
LEMMA RemUERemoves ==
    ASSUME NEW t, IsTable(t), NEW phy, Coherent(t, phy), NEW r \in Rntis \ {NoRnti}
    PROVE  \A i \in ActiveSlots(RemUE(t, r)) : RemUE(t, r)[i].rnti # r
<1>1. CASE Matching(t, r) = {}
  BY <1>1 DEF RemUE, Matching, ActiveSlots
<1>2. CASE Matching(t, r) # {}
  <2>1. Min(Matching(t, r)) \in ActiveSlots(t) /\ t[Min(Matching(t, r))].rnti = r
    BY <1>2, FirstMatching DEF ActiveSlots
  <2>2. RemUE(t, r)[Min(Matching(t, r))] = FreeSlot
    BY <1>2, <2>1 DEF RemUE, IsTable, ActiveSlots
  <2>3. \A i \in ActiveSlots(RemUE(t, r)) :
            i \in ActiveSlots(t) /\ RemUE(t, r)[i] = t[i]
    BY RemUESlots
  <2>4. Min(Matching(t, r)) \notin ActiveSlots(RemUE(t, r))
    BY <2>2 DEF ActiveSlots, FreeSlot
  <2>. QED
    BY <2>1, <2>3, <2>4 DEF Coherent
<1>. QED
  BY <1>1, <1>2

(* One slot is freed, at most. *)
LEMMA RemUEActive ==
    ASSUME NEW t, IsTable(t), NEW r, Matching(t, r) # {}
    PROVE  /\ Min(Matching(t, r)) \in Slots
           /\ t[Min(Matching(t, r))].rnti = r
           /\ ActiveSlots(RemUE(t, r)) = ActiveSlots(t) \ {Min(Matching(t, r))}
<1>1. Min(Matching(t, r)) \in Slots /\ t[Min(Matching(t, r))].rnti = r
  BY FirstMatching
<1>2. /\ RemUE(t, r)[Min(Matching(t, r))] = FreeSlot
      /\ \A i \in Slots \ {Min(Matching(t, r))} : RemUE(t, r)[i] = t[i]
  BY <1>1 DEF RemUE, IsTable
<1>. QED
  BY <1>1, <1>2 DEF ActiveSlots, FreeSlot

-----------------------------------------------------------------------------
(* The UEs of a table. *)

LEMMA SlotsFinite ==
    /\ IsFiniteSet(Slots)
    /\ Cardinality(Slots) = UEMax
BY SlotsAssumption, FS_Interval DEF Slots

LEMMA ActiveFinite ==
    ASSUME NEW t
    PROVE  IsFiniteSet(ActiveSlots(t)) /\ Cardinality(ActiveSlots(t)) \in Nat
BY SlotsFinite, FS_Subset, FS_CardinalityType DEF ActiveSlots

(* With a slot free the table holds fewer UEs than it has slots. *)
LEMMA RoomLeft ==
    ASSUME NEW t, FreeSlots(t) # {}
    PROVE  Cardinality(UesOf(t)) < UEMax
<1>. DEFINE h == [i \in ActiveSlots(t) |-> <<t[i].imsi, t[i].rnti>>]
<1>1. Cardinality(ActiveSlots(t)) < UEMax
  <2>1. ActiveSlots(t) \in SUBSET Slots /\ ActiveSlots(t) # Slots
    BY DEF ActiveSlots, FreeSlots
  <2>. QED
    BY <2>1, SlotsFinite, ActiveFinite, FS_Subset, FS_CardinalityType, SlotsAssumption
<1>2. h \in Surjection(ActiveSlots(t), UesOf(t))
  BY DEF Surjection, UesOf
<1>3. IsFiniteSet(UesOf(t)) /\ Cardinality(UesOf(t)) <= Cardinality(ActiveSlots(t))
  <2>1. IsFiniteSet(ActiveSlots(t))
    BY ActiveFinite
  <2>. HIDE DEF h
  <2>. QED
    BY <1>2, <2>1, FS_Surjection
<1>. QED
  BY <1>1, <1>3, ActiveFinite, FS_CardinalityType, SlotsAssumption

-----------------------------------------------------------------------------
(* sim_ran.users. *)

IsUserTable(u) == u \in [RanSlots -> Rntis]

(* No RNTI sits in two user slots. *)
OneSlotEach(u) ==
    \A j, k \in RanSlots : u[j] = u[k] /\ u[j] # NoRnti => j = k

UsersOf(u) == {u[j] : j \in RanSlots} \ {NoRnti}

LEMMA RanSlotsAreNat == RanSlots \in SUBSET Nat /\ RanSlots \subseteq Slots
BY SlotsAssumption, RanAssumption DEF RanSlots, Slots

(* ran_add_user changes at most one slot, a free one, to a user that had   *)
(* none.                                                                   *)
LEMMA RanAddUserSlots ==
    ASSUME NEW u, IsUserTable(u), NEW r \in Rntis \ {NoRnti}
    PROVE  /\ IsUserTable(RanAddUser(u, r))
           /\ OneSlotEach(u) => OneSlotEach(RanAddUser(u, r))
           /\ UsersOf(u) \subseteq UsersOf(RanAddUser(u, r))
           /\ UsersOf(RanAddUser(u, r)) \subseteq UsersOf(u) \cup {r}
<1>1. CASE RanHolding(u, r) # {} \/ RanFree(u) = {}
  BY <1>1 DEF RanAddUser
<1>2. CASE RanHolding(u, r) = {} /\ RanFree(u) # {}
  <2>. DEFINE f == Min(RanFree(u))
              v == RanAddUser(u, r)
  <2>1. RanFree(u) \in SUBSET Nat
    BY RanSlotsAreNat DEF RanFree
  <2>2. f \in RanSlots /\ u[f] = NoRnti
    BY <1>2, <2>1, MinIsLeast DEF RanFree
  <2>3. v = [u EXCEPT ![f] = r]
    BY <1>2 DEF RanAddUser
  <2>. HIDE DEF f, v
  <2>4. v \in [RanSlots -> Rntis] /\ v[f] = r /\ \A j \in RanSlots \ {f} : v[j] = u[j]
    BY <2>2, <2>3 DEF IsUserTable
  <2>5. \A j \in RanSlots : u[j] # r
    BY <1>2 DEF RanHolding
  <2>6. OneSlotEach(u) => OneSlotEach(v)
    BY <2>2, <2>4, <2>5 DEF OneSlotEach
  <2>7. UsersOf(u) \subseteq UsersOf(v)
    BY <2>2, <2>4 DEF UsersOf
  <2>8. UsersOf(v) \subseteq UsersOf(u) \cup {r}
    BY <2>2, <2>4 DEF UsersOf
  <2>. QED
    BY <2>4, <2>6, <2>7, <2>8 DEF v, IsUserTable
<1>. QED
  BY <1>1, <1>2

(* ran_rem_user takes out the user and nobody else. *)
LEMMA RanRemUserSlots ==
    ASSUME NEW u, IsUserTable(u), OneSlotEach(u), NEW r \in Rntis
    PROVE  /\ IsUserTable(RanRemUser(u, r))
           /\ OneSlotEach(RanRemUser(u, r))
           /\ UsersOf(RanRemUser(u, r)) = UsersOf(u) \ {r}
<1>1. CASE RanHolding(u, r) = {}
  BY <1>1 DEF RanRemUser, RanHolding, UsersOf
<1>2. CASE RanHolding(u, r) # {}
  <2>. DEFINE f == Min(RanHolding(u, r))
              v == RanRemUser(u, r)
  <2>1. RanHolding(u, r) \in SUBSET Nat
    BY RanSlotsAreNat DEF RanHolding
  <2>2. f \in RanSlots /\ u[f] = r
    BY <1>2, <2>1, MinIsLeast DEF RanHolding
  <2>3. v = [u EXCEPT ![f] = NoRnti]
    BY <1>2 DEF RanRemUser
  <2>. HIDE DEF f, v
  <2>4. NoRnti \in Rntis
    BY SlotsAssumption DEF NoRnti, Rntis
  <2>5. /\ v \in [RanSlots -> Rntis]
        /\ v[f] = NoRnti
        /\ \A j \in RanSlots \ {f} : v[j] = u[j]
    BY <2>2, <2>3, <2>4 DEF IsUserTable
  <2>6. OneSlotEach(v)
    BY <2>2, <2>5 DEF OneSlotEach
  <2>7. UsersOf(v) = UsersOf(u) \ {r}
    BY <2>2, <2>5 DEF UsersOf, OneSlotEach
  <2>. QED
    BY <2>5, <2>6, <2>7 DEF v, IsUserTable
<1>. QED
  BY <1>1, <1>2

(* ran_bootstrap fills the user table with attached UEs, each once: two    *)
(* user slots with one RNTI come from one slot of sim_ues, which has one   *)
(* rank among the active ones.                                             *)
LEMMA RanBootstrapSlots ==
    ASSUME NEW t, IsTable(t), NEW phy, Coherent(t, phy)
    PROVE  /\ IsUserTable(RanBootstrap(t))
           /\ OneSlotEach(RanBootstrap(t))
           /\ UsersOf(RanBootstrap(t)) \subseteq {t[i].rnti : i \in ActiveSlots(t)}
<1>. DEFINE seen == ActiveSlots(t) \cap RanSlots
            rank(i) == Cardinality({k \in seen : k < i})
            at(j) == CHOOSE i \in seen : rank(i) = j
            u == RanBootstrap(t)
<1>1. \A j \in RanSlots :
         \/ u[j] = NoRnti
         \/ at(j) \in seen /\ rank(at(j)) = j /\ u[j] = t[at(j)].rnti
  BY DEF RanBootstrap
<1>2. DOMAIN u = RanSlots /\ u = [j \in RanSlots |-> u[j]]
  BY DEF RanBootstrap
<1>. HIDE DEF rank, u
<1>3. \A i \in seen : i \in ActiveSlots(t) /\ t[i].rnti \in Rntis \ {NoRnti}
  BY DEF ActiveSlots, IsTable, UE
<1>4. \A j \in RanSlots : u[j] \in Rntis
  BY <1>1, <1>3, SlotsAssumption DEF NoRnti, Rntis
<1>5. IsUserTable(u)
  BY <1>2, <1>4 DEF IsUserTable
<1>6. OneSlotEach(u)
  <2>1. ASSUME NEW j \in RanSlots, NEW k \in RanSlots, u[j] = u[k], u[j] # NoRnti
        PROVE  j = k
    <3>1. at(j) \in seen /\ rank(at(j)) = j /\ u[j] = t[at(j)].rnti
      BY <1>1, <2>1
    <3>2. at(k) \in seen /\ rank(at(k)) = k /\ u[k] = t[at(k)].rnti
      BY <1>1, <2>1
    <3>. HIDE DEF at
    <3>3. at(j) = at(k)
      BY <2>1, <3>1, <3>2 DEF Coherent
    <3>. QED
      BY <3>1, <3>2, <3>3
  <2>. QED
    BY <2>1 DEF OneSlotEach
<1>7. UsersOf(u) \subseteq {t[i].rnti : i \in ActiveSlots(t)}
  <2>. HIDE DEF at
  <2>. QED
    BY <1>1 DEF UsersOf
<1>. QED
  BY <1>5, <1>6, <1>7 DEF u

=============================================================================
