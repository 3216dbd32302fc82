----------------------------- MODULE IfaceProofs -----------------------------
(***************************************************************************)
(* Proofs about Iface, for every size of the tables and every number of    *)
(* RNTIs, ids and of the counters' width.                                  *)
(*                                                                         *)
(* The panels exclude each other by what the keys leave on and off, so     *)
(* that the properties need what holds between two turns of iface_loop as  *)
(* well: help is never up over an error (HelpWithoutError).                *)
(***************************************************************************)
EXTENDS Iface, FiniteSetTheorems, TLAPS

HelpWithoutError == help => err = SUCCESS

(* One mask of the eNB screen at a time. *)
MaskSets == {{}, {"add"}, {"ho"}, {"uenm"}}

(* TypeOK, with the parts that a screen and its masks change with a key    *)
(* apart from those that only the loop and the low bar do.                 *)
TablesTypeOK ==
    /\ ues \in [Slots -> Rntis \cup {NoRnti}]
    /\ nof \in 0 .. U32 - 1
    /\ neighs \in [NSlots -> Ids \cup {NoId}]

ScreenTypeOK ==
    /\ TablesTypeOK
    /\ err \in Errors \cup {SUCCESS}
    /\ ueAdd \in BOOLEAN
    /\ masks \in MaskSets
    /\ ueSel \in 1 .. U32 - 1
    /\ ueIdx \in Slots
    /\ enbSel \in 1 .. NeighMax + 1
    /\ enbIdx \in NSlots
    /\ ho \in [sel : 0 .. U32 - 1, idx : Slots, rnti : Rntis \cup {NoRnti}]
    /\ sent \in (Rntis \cup {NoRnti}) \X (Ids \cup {NoId})

PartsTypeOK ==
    /\ ScreenTypeOK
    /\ ui \in {"test", "key", "ended"}
    /\ f9 \in BOOLEAN
    /\ scr \in Screens
    /\ help \in BOOLEAN
    /\ alive \in BOOLEAN
    /\ shown \in Rntis \cup {NoRnti}

IInv == PartsTypeOK /\ HelpWithoutError /\ MeasureOfAttached

-----------------------------------------------------------------------------
(* Masks. *)

LEMMA OneMask ==
    ASSUME NEW m
    PROVE  m \subseteq EnbMasks /\ Cardinality(m) <= 1 <=> m \in MaskSets
<1>1. ASSUME m \subseteq EnbMasks, Cardinality(m) <= 1
      PROVE  m \in MaskSets
  <2>1. IsFiniteSet(EnbMasks)
    <3>1. IsFiniteSet({"add"})
      BY FS_Singleton
    <3>2. IsFiniteSet({"add"} \cup {"ho"})
      BY <3>1, FS_AddElement
    <3>3. IsFiniteSet(({"add"} \cup {"ho"}) \cup {"uenm"})
      BY <3>2, FS_AddElement
    <3>4. EnbMasks = ({"add"} \cup {"ho"}) \cup {"uenm"}
      BY DEF EnbMasks
    <3>. QED
      BY <3>3, <3>4
  <2>2. IsFiniteSet(m)
    BY <1>1, <2>1, FS_Subset
  <2>3. \A x, y \in m : x = y
    <3>. SUFFICES ASSUME NEW x \in m, NEW y \in m, x # y
                  PROVE  FALSE
      OBVIOUS
    <3>1. IsFiniteSet({x}) /\ Cardinality({x}) = 1
      BY FS_Singleton
    <3>2. Cardinality({x} \cup {y}) = 2
      BY <3>1, FS_AddElement
    <3>3. {x} \cup {y} \subseteq m
      OBVIOUS
    <3>4. Cardinality({x} \cup {y}) <= Cardinality(m) /\ Cardinality(m) \in Nat
      BY <2>2, <3>3, FS_Subset, FS_CardinalityType
    <3>. QED
      BY <1>1, <3>2, <3>4
  <2>. QED
    BY <1>1, <2>3 DEF EnbMasks, MaskSets
<1>2. ASSUME m \in MaskSets
      PROVE  m \subseteq EnbMasks /\ Cardinality(m) <= 1
  <2>1. Cardinality(m) \in {0, 1}
    BY <1>2, FS_EmptySet, FS_Singleton DEF MaskSets
  <2>. QED
    BY <1>2, <2>1 DEF MaskSets, EnbMasks
<1>. QED
  BY <1>1, <1>2

LEMMA PartsAreTypes == PartsTypeOK <=> TypeOK
<1>1. masks \subseteq EnbMasks /\ Cardinality(masks) <= 1 <=> masks \in MaskSets
  BY OneMask
<1>. QED
  BY <1>1 DEF TypeOK, PartsTypeOK, ScreenTypeOK, TablesTypeOK

-----------------------------------------------------------------------------
(* Lists. *)

LEMMA U32Positive == U32 \in Nat /\ U32 > 1
BY IfaceAssumption

LEMMA Wraps ==
    ASSUME NEW a \in Int
    PROVE  a % U32 \in 0 .. U32 - 1
BY U32Positive

LEMMA DrawnType ==
    ASSUME NEW S, NEW taken \in SUBSET S, NEW s, NEW c \in S
    PROVE  Drawn(taken, s, c) \in S
BY DEF Drawn

(* A row that is there is the row of a slot. *)
LEMMA RowInTable ==
    ASSUME NEW s \in Nat, InRow(s) # {}
    PROVE  s \in Slots
<1>1. PICK i \in Taken : Cardinality({k \in Taken : k <= i}) = s + 1
  BY DEF InRow, Row
<1>2. IsFiniteSet(Slots) /\ Cardinality(Slots) = UEMax
  BY FS_Interval, IfaceAssumption DEF Slots
<1>3. {k \in Taken : k <= i} \in SUBSET Slots
  BY DEF Taken
<1>4. s + 1 <= UEMax
  BY <1>1, <1>2, <1>3, FS_Subset
<1>. QED
  BY <1>4, IfaceAssumption DEF Slots

(* Handover mask: the selection wraps around, it never leaves the u32. *)
LEMMA HoRowsType ==
    ASSUME ho.sel \in 0 .. U32 - 1, nof \in 0 .. U32 - 1, NEW k \in Keys
    PROVE  HoRows(k) \in 0 .. U32 - 1
<1>. DEFINE next == (ho.sel + 1) % U32
            last == (nof - 1) % U32
            before == (ho.sel - 1) % U32
<1>1. /\ next \in 0 .. U32 - 1
      /\ last \in 0 .. U32 - 1
      /\ before \in 0 .. U32 - 1
  BY Wraps
<1>. HIDE DEF next, last, before
<1>2. HoRows(k) \in {next, last, before, ho.sel}
  BY DEF HoRows, next, last, before
<1>. QED
  BY <1>1, <1>2

-----------------------------------------------------------------------------
(* The tables, whoever changes them. *)

LEMMA AttachType ==
    ASSUME TablesTypeOK, NEW rnti \in Rntis, Attach(rnti)
    PROVE  ues' \in [Slots -> Rntis \cup {NoRnti}] /\ nof' \in 0 .. U32 - 1
<1>1. (nof + 1) % U32 \in 0 .. U32 - 1
  BY Wraps DEF TablesTypeOK
<1>. QED
  BY <1>1 DEF Attach, TablesTypeOK

LEMMA DetachType ==
    ASSUME TablesTypeOK, NEW rnti, Detach(rnti)
    PROVE  ues' \in [Slots -> Rntis \cup {NoRnti}] /\ nof' \in 0 .. U32 - 1
<1>1. (nof - 1) % U32 \in 0 .. U32 - 1
  BY Wraps DEF TablesTypeOK
<1>. QED
  BY <1>1 DEF Detach, TablesTypeOK

LEMMA ListType ==
    ASSUME TablesTypeOK, NEW id \in Ids, List(id)
    PROVE  neighs' \in [NSlots -> Ids \cup {NoId}]
BY DEF List, TablesTypeOK

LEMMA UnlistType ==
    ASSUME TablesTypeOK, NEW id, Unlist(id)
    PROVE  neighs' \in [NSlots -> Ids \cup {NoId}]
BY DEF Unlist, TablesTypeOK

-----------------------------------------------------------------------------
(* A key for a screen. *)

LEMMA UEKeyType ==
    ASSUME ScreenTypeOK, NEW k \in Keys, UEKey(k)
    PROVE  ScreenTypeOK'
<1>1. CASE ueAdd
  <2>1. UEAddKey(k)
    BY <1>1 DEF UEKey
  <2>2. ASSUME Ignored
        PROVE  ScreenTypeOK'
    BY <2>2 DEF Ignored, ScreenTypeOK, TablesTypeOK, lists, tables
  <2>3. CASE /\ k = "esc"
             /\ ueAdd' = FALSE
             /\ UNCHANGED <<err, masks, lists, tables, sent>>
    BY <2>3 DEF ScreenTypeOK, TablesTypeOK, lists, tables
  <2>4. CASE /\ k = "enter"
             /\ \/ err' = err /\ \E rnti \in Rntis : Attach(rnti)
                \/ err' = "UE_ADD_EXISTS" /\ UNCHANGED tables
                \/ Taken = Slots /\ err' = "UE_ADD_FULL" /\ UNCHANGED tables
             /\ ueAdd' = FALSE
             /\ UNCHANGED <<masks, lists, neighs, sent>>
    <3>1. err' \in Errors \cup {SUCCESS}
      BY <2>4 DEF ScreenTypeOK, Errors
    <3>2. TablesTypeOK'
      BY <2>4, AttachType DEF ScreenTypeOK, TablesTypeOK, tables
    <3>. QED
      BY <2>4, <3>1, <3>2 DEF ScreenTypeOK, lists
  <2>. QED
    BY <2>1, <2>2, <2>3, <2>4 DEF UEAddKey
<1>2. CASE ~ueAdd
  <2>1. /\ ueAdd' \in BOOLEAN
        /\ ueSel' \in {Up(ueSel), Down(ueSel, nof), ueSel}
        /\ (\E rnti : Detach(rnti)) \/ UNCHANGED <<ues, nof>>
        /\ UNCHANGED <<err, masks, ueIdx, enbSel, enbIdx, ho, neighs, sent>>
    BY <1>2 DEF UEKey
  <2>2. ueSel' \in 1 .. U32 - 1
    BY <2>1, U32Positive DEF ScreenTypeOK, TablesTypeOK, Up, Down
  <2>3. TablesTypeOK'
    BY <2>1, DetachType DEF ScreenTypeOK, TablesTypeOK
  <2>. QED
    BY <2>1, <2>2, <2>3 DEF ScreenTypeOK
<1>. QED
  BY <1>1, <1>2

LEMMA ENBAddKeyType ==
    ASSUME ScreenTypeOK, masks = {"add"}, NEW k \in Keys, ENBAddKey(k)
    PROVE  ScreenTypeOK'
<1>1. masks' \in MaskSets
  BY DEF ENBAddKey, Ignored, MaskSets
<1>2. TablesTypeOK'
  BY ListType DEF ENBAddKey, Ignored, ScreenTypeOK, TablesTypeOK, tables
<1>. QED
  BY <1>1, <1>2 DEF ENBAddKey, Ignored, ScreenTypeOK, lists

LEMMA HoKeyType ==
    ASSUME ScreenTypeOK, masks = {"ho"}, NEW k \in Keys, HoKey(k)
    PROVE  ScreenTypeOK'
<1>1. masks' \in MaskSets
  BY DEF HoKey, MaskSets
<1>2. ho' \in [sel : 0 .. U32 - 1, idx : Slots, rnti : Rntis \cup {NoRnti}]
  <2>1. HoRows(k) \in 0 .. U32 - 1
    BY HoRowsType DEF ScreenTypeOK, TablesTypeOK
  <2>. QED
    BY <2>1 DEF HoKey, ScreenTypeOK
<1>3. CASE k # "enter"
  BY <1>1, <1>2, <1>3 DEF HoKey, ScreenTypeOK, TablesTypeOK
<1>4. CASE k = "enter"
  <2>1. PICK id \in IdAtRow :
            /\ err' = HandOverResult(ho.rnti, id)
            /\ IF err' = SUCCESS
               THEN Detach(ho.rnti) /\ sent' = <<ho.rnti, id>>
               ELSE UNCHANGED <<ues, nof, sent>>
    BY <1>4 DEF HoKey
  <2>2. id \in Ids \cup {NoId}
    BY DEF IdAtRow, ScreenTypeOK, TablesTypeOK
  <2>3. HandOverResult(ho.rnti, id) \in Errors \cup {SUCCESS}
    BY DEF HandOverResult, Errors
  <2>4. neighs' = neighs
    BY DEF HoKey
  <2>5. TablesTypeOK'
    BY <2>1, <2>4, DetachType DEF ScreenTypeOK, TablesTypeOK
  <2>6. sent' \in (Rntis \cup {NoRnti}) \X (Ids \cup {NoId})
    BY <2>1, <2>2 DEF ScreenTypeOK
  <2>. QED
    BY <1>1, <1>2, <2>1, <2>3, <2>5, <2>6 DEF HoKey, ScreenTypeOK
<1>. QED
  BY <1>3, <1>4

LEMMA ENBKeyType ==
    ASSUME ScreenTypeOK, NEW k \in Keys, ENBKey(k)
    PROVE  ScreenTypeOK'
<1>1. masks \in MaskSets
  BY DEF ScreenTypeOK
<1>2. CASE masks = {"add"}
  BY <1>2, ENBAddKeyType DEF ENBKey
<1>3. CASE masks = {"ho"}
  BY <1>3, HoKeyType DEF ENBKey
<1>4. CASE masks = {"uenm"}
  <2>1. UenmKey(k)
    BY <1>4 DEF ENBKey
  <2>. QED
    BY <1>4, <2>1 DEF UenmKey, ScreenTypeOK, TablesTypeOK, MaskSets, lists, tables
<1>5. CASE masks = {}
  <2>1. /\ masks' \in MaskSets
        /\ enbSel' \in {Up(enbSel), enbSel, Down(enbSel, NeighMax + 1)}
        /\ (\E id : Unlist(id)) \/ UNCHANGED neighs
        /\ UNCHANGED <<err, ueAdd, ueSel, ueIdx, enbIdx, ho, ues, nof, sent>>
    BY <1>5 DEF ENBKey, MaskSets
  <2>2. enbSel' \in 1 .. NeighMax + 1
    BY <2>1, IfaceAssumption DEF ScreenTypeOK, Up, Down
  <2>3. TablesTypeOK'
    BY <2>1, UnlistType DEF ScreenTypeOK, TablesTypeOK
  <2>. QED
    BY <2>1, <2>2, <2>3 DEF ScreenTypeOK
<1>. QED
  BY <1>1, <1>2, <1>3, <1>4, <1>5 DEF MaskSets

LEMMA ScreenKeyType ==
    ASSUME ScreenTypeOK, scr \in Screens, NEW k \in Keys, ScreenKey(k)
    PROVE  ScreenTypeOK'
<1>1. CASE scr = "UE"
  BY <1>1, UEKeyType DEF ScreenKey
<1>2. CASE scr = "ENB"
  BY <1>2, ENBKeyType DEF ScreenKey
<1>3. CASE scr = "MAC"
  <2>1. Ignored
    BY <1>3 DEF ScreenKey
  <2>. QED
    BY <2>1 DEF Ignored, ScreenTypeOK, TablesTypeOK, lists, tables
<1>. QED
  BY <1>1, <1>2, <1>3 DEF Screens

(* Only ENTER is ever answered by an error. *)
LEMMA ErrorOfEnter ==
    ASSUME ScreenTypeOK, scr \in Screens, NEW k \in Keys, k # "enter", ScreenKey(k)
    PROVE  err' = err
<1>1. CASE scr = "UE"
  <2>1. UEKey(k)
    BY <1>1 DEF ScreenKey
  <2>. QED
    BY <2>1 DEF UEKey, UEAddKey, Ignored
<1>2. CASE scr = "ENB"
  <2>1. ENBKey(k) /\ masks \in MaskSets
    BY <1>2 DEF ScreenKey, ScreenTypeOK
  <2>. QED
    BY <2>1 DEF ENBKey, ENBAddKey, HoKey, UenmKey, Ignored, MaskSets
<1>3. CASE scr = "MAC"
  BY <1>3 DEF ScreenKey, Ignored
<1>. QED
  BY <1>1, <1>2, <1>3 DEF Screens

LEMMA HandleInputType ==
    ASSUME PartsTypeOK, HelpWithoutError, NEW k \in Keys, HandleInput(k)
    PROVE  /\ ScreenTypeOK'
           /\ scr' \in Screens
           /\ help' \in BOOLEAN
           /\ HelpWithoutError'
<1>. USE DEF PartsTypeOK
<1>1. CASE err # SUCCESS
  <2>1. ErrKey(k) /\ UNCHANGED <<scr, help, ueAdd, masks, lists, tables, sent>>
    BY <1>1 DEF HandleInput
  <2>2. err' \in Errors \cup {SUCCESS}
    BY <2>1 DEF ErrKey, ScreenTypeOK
  <2>. QED
    BY <1>1, <2>1, <2>2 DEF ScreenTypeOK, TablesTypeOK, HelpWithoutError, lists, tables
<1>2. CASE err = SUCCESS /\ help
  <2>1. HelpKey(k) /\ UNCHANGED scr /\ Ignored
    BY <1>2 DEF HandleInput
  <2>2. help' \in BOOLEAN
    BY <2>1 DEF HelpKey
  <2>. QED
    BY <1>2, <2>1, <2>2
    DEF Ignored, ScreenTypeOK, TablesTypeOK, HelpWithoutError, lists, tables
<1>3. CASE err = SUCCESS /\ ~help
  <2>1. ScreenKey(k) /\ LowBar(k)
    BY <1>3 DEF HandleInput
  <2>2. help' = (k = "F1") /\ scr' \in Screens
    BY <2>1 DEF LowBar, Screens
  <2>3. ScreenTypeOK'
    BY <2>1, ScreenKeyType
  <2>4. k # "enter" => err' = SUCCESS
    BY <1>3, <2>1, ErrorOfEnter
  <2>. QED
    BY <2>2, <2>3, <2>4 DEF HelpWithoutError
<1>. QED
  BY <1>1, <1>2, <1>3

-----------------------------------------------------------------------------
(* Drawing. *)

LEMMA DrawHoType ==
    ASSUME ScreenTypeOK, DrawHo
    PROVE  /\ ho' \in [sel : 0 .. U32 - 1, idx : Slots, rnti : Rntis \cup {NoRnti}]
           /\ shown' \in Rntis \cup {NoRnti}
<1>1. CASE InRow(ho.sel) = {}
  BY <1>1 DEF DrawHo, ScreenTypeOK
<1>2. CASE InRow(ho.sel) # {}
  <2>1. PICK i \in InRow(ho.sel) :
            /\ ho' = [ho EXCEPT !.idx = ho.sel, !.rnti = ues[i]]
            /\ shown' = ues[i]
    BY <1>2 DEF DrawHo
  <2>2. i \in Slots /\ ues[i] \in Rntis \cup {NoRnti}
    BY DEF InRow, Taken, ScreenTypeOK, TablesTypeOK
  <2>3. ho.sel \in Slots
    BY <1>2, RowInTable, U32Positive DEF ScreenTypeOK
  <2>. QED
    BY <2>1, <2>2, <2>3 DEF ScreenTypeOK
<1>. QED
  BY <1>1, <1>2

(* What drawing a screen changes, and that the measurement mask stays only *)
(* if it was drawn for a UE.                                               *)
DrawnScreen ==
    /\ ueIdx' \in Slots
    /\ enbIdx' \in NSlots
    /\ ho' \in [sel : 0 .. U32 - 1, idx : Slots, rnti : Rntis \cup {NoRnti}]
    /\ shown' \in Rntis \cup {NoRnti}
    /\ scr' \in Screens
    /\ masks' \in MaskSets
    /\ scr' = "ENB" /\ masks' = {"uenm"} => shown' # NoRnti

LEMMA DrawENBType ==
    ASSUME PartsTypeOK, scr = "ENB", DrawENB
    PROVE  DrawnScreen
<1>. USE DEF PartsTypeOK
<1>1. enbIdx' \in NSlots
  BY DrawnType DEF DrawENB, ScreenTypeOK, Listed
<1>2. ueIdx' \in Slots
  BY DEF DrawENB, ScreenTypeOK
<1>3. masks \in MaskSets
  BY DEF ScreenTypeOK
<1>4. CASE masks = {"ho"}
  <2>1. DrawHo /\ UNCHANGED <<scr, masks>>
    BY <1>4 DEF DrawENB
  <2>. QED
    BY <1>1, <1>2, <1>3, <1>4, <2>1, DrawHoType DEF DrawnScreen
<1>5. CASE masks = {"uenm"}
  <2>1. DrawUenm /\ UNCHANGED ho
    BY <1>5 DEF DrawENB
  <2>2. ues[ueIdx] \in Rntis \cup {NoRnti}
    BY DEF ScreenTypeOK, TablesTypeOK
  <2>3. scr' \in Screens /\ masks' \in MaskSets
    BY <1>5, <2>1 DEF DrawUenm, Screens, MaskSets
  <2>. QED
    BY <1>1, <1>2, <2>1, <2>2, <2>3 DEF DrawUenm, DrawnScreen, ScreenTypeOK
<1>6. CASE masks \in {{}, {"add"}}
  <2>1. shown' = NoRnti /\ UNCHANGED <<scr, masks, ho>>
    BY <1>6 DEF DrawENB
  <2>. QED
    BY <1>1, <1>2, <1>3, <1>6, <2>1 DEF DrawnScreen, ScreenTypeOK
<1>. QED
  BY <1>3, <1>4, <1>5, <1>6 DEF MaskSets

LEMMA DrawScreenType ==
    ASSUME PartsTypeOK, ~help, Draw
    PROVE  DrawnScreen
<1>. USE DEF PartsTypeOK
<1>1. CASE scr = "UE"
  <2>1. DrawUE
    BY <1>1 DEF Draw
  <2>2. ueIdx' \in Slots
    BY <2>1, DrawnType DEF DrawUE, ScreenTypeOK, Taken
  <2>. QED
    BY <1>1, <2>1, <2>2 DEF DrawUE, DrawnScreen, ScreenTypeOK
<1>2. CASE scr = "ENB"
  BY <1>2, DrawENBType DEF Draw
<1>3. CASE scr = "MAC"
  <2>1. shown' = NoRnti /\ UNCHANGED <<scr, masks, ueIdx, enbIdx, ho>>
    BY <1>3 DEF Draw
  <2>. QED
    BY <1>3, <2>1 DEF DrawnScreen, ScreenTypeOK
<1>. QED
  BY <1>1, <1>2, <1>3 DEF Screens

LEMMA DrawKeeps == IInv /\ Draw => IInv'
<1>. SUFFICES ASSUME PartsTypeOK, HelpWithoutError, Draw
              PROVE  IInv'
  BY DEF IInv
<1>1. NoHandover \in (Rntis \cup {NoRnti}) \X (Ids \cup {NoId})
  BY DEF NoHandover
<1>2. /\ UNCHANGED <<f9, help, err, ueAdd, ueSel, enbSel, tables, alive>>
      /\ ui' = "key"
      /\ sent' = NoHandover
  BY DEF Draw
<1>3. CASE help
  <2>1. shown' = NoRnti /\ UNCHANGED <<scr, masks, ueIdx, enbIdx, ho>>
    BY <1>3 DEF Draw
  <2>2. PartsTypeOK'
    BY <1>1, <1>2, <2>1 DEF PartsTypeOK, ScreenTypeOK, TablesTypeOK, tables
  <2>. QED
    BY <1>2, <1>3, <2>1, <2>2 DEF IInv, HelpWithoutError, MeasureOfAttached
<1>4. CASE ~help
  <2>1. DrawnScreen
    BY <1>4, DrawScreenType
  <2>2. PartsTypeOK'
    BY <1>1, <1>2, <2>1 DEF DrawnScreen, PartsTypeOK, ScreenTypeOK, TablesTypeOK, tables
  <2>. QED
    BY <1>2, <1>4, <2>1, <2>2 DEF DrawnScreen, IInv, HelpWithoutError, MeasureOfAttached
<1>. QED
  BY <1>3, <1>4 DEF PartsTypeOK

-----------------------------------------------------------------------------
(* The invariant. *)

LEMMA InitIInv == Init => IInv
<1>. SUFFICES ASSUME Init
              PROVE  IInv
  OBVIOUS
<1>1. TablesTypeOK
  BY U32Positive DEF Init, TablesTypeOK
<1>2. 0 \in Slots /\ 0 \in NSlots
  BY IfaceAssumption DEF Slots, NSlots
<1>3. ho \in [sel : 0 .. U32 - 1, idx : Slots, rnti : Rntis \cup {NoRnti}]
  BY <1>2, U32Positive DEF Init
<1>4. ueSel \in 1 .. U32 - 1 /\ enbSel \in 1 .. NeighMax + 1
  BY U32Positive, IfaceAssumption DEF Init
<1>5. masks \in MaskSets /\ sent \in (Rntis \cup {NoRnti}) \X (Ids \cup {NoId})
  BY DEF Init, MaskSets, NoHandover
<1>6. ScreenTypeOK
  BY <1>1, <1>2, <1>3, <1>4, <1>5 DEF Init, ScreenTypeOK
<1>. QED
  BY <1>6 DEF Init, IInv, PartsTypeOK, Screens, HelpWithoutError, MeasureOfAttached

LEMMA KeyKeeps == IInv /\ (\E k \in Keys : Key(k)) => IInv'
<1>. SUFFICES ASSUME PartsTypeOK, HelpWithoutError, NEW k \in Keys, Key(k)
              PROVE  IInv'
  BY DEF IInv
<1>1. ScreenTypeOK' /\ scr' \in Screens /\ help' \in BOOLEAN /\ HelpWithoutError'
  BY HandleInputType DEF Key
<1>2. PartsTypeOK'
  BY <1>1 DEF Key, PartsTypeOK
<1>. QED
  BY <1>1, <1>2 DEF Key, IInv, MeasureOfAttached

LEMMA EndLoopKeeps == IInv /\ EndLoop => IInv'
<1>. SUFFICES ASSUME PartsTypeOK, HelpWithoutError, EndLoop
              PROVE  IInv'
  BY DEF IInv
<1>1. ScreenTypeOK'
  BY DEF EndLoop, PartsTypeOK, ScreenTypeOK, TablesTypeOK, panels, lists, tables
<1>2. PartsTypeOK'
  BY <1>1 DEF EndLoop, PartsTypeOK, panels
<1>. QED
  BY <1>2 DEF EndLoop, IInv, HelpWithoutError, MeasureOfAttached, panels

(* The other threads change the tables and nothing else. *)
LEMMA OthersKeep == IInv /\ TablesTypeOK' /\ Others => IInv'
BY DEF Others, IInv, PartsTypeOK, ScreenTypeOK, HelpWithoutError, MeasureOfAttached,
       panels, lists

LEMMA NextIInv == IInv /\ [Next]_vars => IInv'
<1>. SUFFICES ASSUME IInv, [Next]_vars
              PROVE  IInv'
  OBVIOUS
<1>1. TablesTypeOK
  BY DEF IInv, PartsTypeOK, ScreenTypeOK
<1>2. ASSUME NEW rnti \in Rntis, Arrive(rnti)
      PROVE  IInv'
  BY <1>1, <1>2, AttachType, OthersKeep DEF Arrive, TablesTypeOK
<1>3. ASSUME NEW i \in Slots, Leave(i)
      PROVE  IInv'
  BY <1>1, <1>3, DetachType, OthersKeep DEF Leave, TablesTypeOK
<1>4. ASSUME NEW id \in Ids, Announce(id)
      PROVE  IInv'
  BY <1>1, <1>4, ListType, OthersKeep DEF Announce, TablesTypeOK
<1>5. ASSUME NEW n \in NSlots, Conflict(n)
      PROVE  IInv'
  BY <1>1, <1>5, UnlistType, OthersKeep DEF Conflict, TablesTypeOK
<1>6. CASE UNCHANGED vars
  BY <1>6 DEF vars, panels, lists, tables, IInv, PartsTypeOK, ScreenTypeOK,
              TablesTypeOK, HelpWithoutError, MeasureOfAttached
<1>. QED
  BY <1>2, <1>3, <1>4, <1>5, <1>6, DrawKeeps, KeyKeeps, EndLoopKeeps DEF Next

LEMMA IInvHolds == Spec => []IInv
BY InitIInv, NextIInv, PTL DEF Spec

-----------------------------------------------------------------------------

(* Whatever the keys and the other threads do, the slots the two lists act *)
(* on are slots of their tables, that of the handover mask, whose selection*)
(* wraps around the u32 (iface_enb_handover_input), is one of sim_ues, and *)
(* no two masks are set at once.  The handover mask looks into sim_neighs  *)
(* with it all the same, past its end or not (IdAtRow).                    *)
THEOREM IfaceTyped == Spec => []TypeOK
<1>1. IInv => TypeOK
  BY PartsAreTypes DEF IInv
<1>. QED
  BY <1>1, IInvHolds, PTL

(* An error that has the keys is on the screen (iface.c:228, iface.c:259). *)
THEOREM ErrorsShown == Spec => []ErrorShown
<1>1. IInv => ErrorShown
  BY DEF IInv, PartsTypeOK, ScreenTypeOK, HelpWithoutError, ErrorShown
<1>. QED
  BY <1>1, IInvHolds, PTL

(* A key for the measurement mask finds it drawn for a UE that was there   *)
(* (iface_enb_draw_uenm).                                                  *)
THEOREM MeasuresOfAttached == Spec => []MeasureOfAttached
<1>1. IInv => MeasureOfAttached
  BY DEF IInv
<1>. QED
  BY <1>1, IInvHolds, PTL

=============================================================================
