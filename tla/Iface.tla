-------------------------------- MODULE Iface --------------------------------
(***************************************************************************)
(* The user interface thread (iface/): iface_loop draws the screen that is *)
(* selected, waits up to 16 ms for a key and hands it to the panel on top: *)
(* error, help, the mask of a screen or the screen.  Drawing is not pure:  *)
(* it fixes the slots the next key acts on (iface_ue_sel_idx and the like) *)
(* and between the two the other threads change sim_ues and sim_neighs.    *)
(*                                                                         *)
(* Of a UE the model keeps the RNTI, of a neighbor the id.  The fields of  *)
(* the two add masks are left out: ENTER finds them filled in or not.      *)
(***************************************************************************)
EXTENDS Integers, FiniteSets, FiniteSetsExt, ListScreen

CONSTANTS
    UEMax,         \* UE_MAX, the slots of sim_ues
    NeighMax,      \* NEIGH_MAX, the slots of sim_neighs
    Rntis,         \* RNTIs a UE can be given
    NoRnti,        \* UE_RNTI_INVALID
    Ids,           \* ids of other eNBs
    NoId,          \* NEIGH_INVALID_ID
    U32            \* u32 is counted modulo this: 2^32

ASSUME IfaceAssumption ==
    /\ UEMax \in Nat \ {0}
    /\ NeighMax \in Nat \ {0}
    /\ NoRnti \notin Rntis
    /\ NoId \notin Ids
    /\ U32 \in Nat
    /\ UEMax < U32

Slots == 0 .. UEMax - 1
NSlots == 0 .. NeighMax - 1

SUCCESS == "success"

(* The errors that reach iface_err, of ue_add and of x2_hand_over, all of  *)
(* them with words in err_to_str.                                          *)
Errors == {"UE_ADD_EXISTS", "UE_ADD_FULL", "X2_HO_CELL", "X2_HO_UE"}

Screens == {"UE", "ENB", "MAC"}
EnbMasks == {"add", "ho", "uenm"}

(* The keys that do something somewhere; "other" is any other key or none. *)
Keys == {"up", "down", "enter", "esc", "F1", "F2", "F3", "F4", "F9",
         "a", "r", "h", "m", "other"}

VARIABLES
    ui,            \* where iface_loop is: "test", "key" or "ended"
    f9,            \* is the variable key of iface_loop F9?
    scr,           \* iface_scr_select
    help,          \* iface_help
    err,           \* iface_err
    ueAdd,         \* iface_ue_add_mask
    masks,         \* those of iface_enb_add_mask, _ho_mask, _uenm_mask that are set
    ueSel, ueIdx,  \* iface_ue_sel, iface_ue_sel_idx
    enbSel, enbIdx,  \* iface_enb_sel, iface_enb_sel_idx
    ho,            \* sel, idx and rnti: iface_enb_ho_sel, _idx and _rnti
    ues, nof,      \* the RNTIs in sim_ues; sim_nof_ues
    neighs,        \* the ids in sim_neighs
    alive,         \* iface_alive
    shown,         \* history: the RNTI of the UE the mask on the screen was
                   \* drawn for, if any, while a key is waited for
    sent           \* history: the UE and the eNB of the handover just sent

panels == <<scr, help, err, ueAdd, masks>>
lists == <<ueSel, ueIdx, enbSel, enbIdx, ho>>
tables == <<ues, nof, neighs>>
vars == <<ui, f9, panels, lists, tables, alive, shown, sent>>

NoHandover == <<NoRnti, NoId>>

TypeOK ==
    /\ ui \in {"test", "key", "ended"}
    /\ f9 \in BOOLEAN
    /\ scr \in Screens
    /\ help \in BOOLEAN
    /\ err \in Errors \cup {SUCCESS}
    /\ ueAdd \in BOOLEAN
    /\ masks \subseteq EnbMasks
    /\ Cardinality(masks) <= 1
    /\ ueSel \in 1 .. U32 - 1
    /\ ueIdx \in Slots
    /\ enbSel \in 1 .. NeighMax + 1
    /\ enbIdx \in NSlots
    /\ ho \in [sel : 0 .. U32 - 1, idx : Slots, rnti : Rntis \cup {NoRnti}]
    /\ ues \in [Slots -> Rntis \cup {NoRnti}]
    /\ nof \in 0 .. U32 - 1
    /\ neighs \in [NSlots -> Ids \cup {NoId}]
    /\ alive \in BOOLEAN
    /\ shown \in Rntis \cup {NoRnti}
    /\ sent \in (Rntis \cup {NoRnti}) \X (Ids \cup {NoId})

(* key is tested before it is set: it is what the stack held. *)
Init ==
    /\ ui = "test"
    /\ f9 \in BOOLEAN
    /\ scr = "UE" /\ help = FALSE /\ err = SUCCESS /\ ueAdd = FALSE /\ masks = {}
    /\ ueSel = 1 /\ ueIdx = 0 /\ enbSel = 1 /\ enbIdx = 0
    /\ ho = [sel |-> 0, idx |-> 0, rnti |-> NoRnti]
    /\ ues = [i \in Slots |-> NoRnti]
    /\ nof = 0
    /\ neighs = [n \in NSlots |-> NoId]
    /\ alive = TRUE
    /\ shown = NoRnti /\ sent = NoHandover

Taken == {i \in Slots : ues[i] # NoRnti}
Listed == {n \in NSlots : neighs[n] # NoId}

-----------------------------------------------------------------------------
(* sim_ues and sim_neighs, whoever calls. *)

FreshRntis == Rntis \ {ues[i] : i \in Slots}

(* ue_add when it has nothing to object. *)
Attach(rnti) ==
    /\ Taken # Slots
    /\ rnti \in FreshRntis
    /\ ues' = [ues EXCEPT ![Min(Slots \ Taken)] = rnti]
    /\ nof' = (nof + 1) % U32

(* ue_rem: RNTI 0 is found in a free slot. *)
Detach(rnti) ==
    IF \E i \in Slots : ues[i] = rnti
    THEN /\ ues' = [ues EXCEPT ![Min({i \in Slots : ues[i] = rnti})] = NoRnti]
         /\ nof' = (nof - 1) % U32
    ELSE UNCHANGED <<ues, nof>>

(* neigh_add_ipv4 and neigh_rem. *)
List(id) ==
    IF Listed # NSlots /\ id \notin {neighs[n] : n \in NSlots}
    THEN neighs' = [neighs EXCEPT ![Min(NSlots \ Listed)] = id]
    ELSE UNCHANGED neighs

Unlist(id) ==
    IF \E n \in Listed : neighs[n] = id
    THEN neighs' = [neighs EXCEPT ![Min({n \in Listed : neighs[n] = id})] = NoId]
    ELSE UNCHANGED neighs

-----------------------------------------------------------------------------
(* Drawing. *)

(* The row of a list that is selected, from 0 on, and the UE in it. *)
InRow(s) == {i \in Taken : Row(Taken, i) = s + 1}

(* iface_enb_draw_ho: a row that is not there leaves idx and rnti alone. *)
DrawHo ==
    IF InRow(ho.sel) = {}
    THEN /\ ho' = ho
         /\ shown' = NoRnti
    ELSE \E i \in InRow(ho.sel) :
            /\ ho' = [ho EXCEPT !.idx = ho.sel, !.rnti = ues[i]]
            /\ shown' = ues[i]

(* Mutant of DrawUenm: the mask is drawn whether its UE is there or not. *)
DrawUenmAnyway ==
    /\ shown' = ues[ueIdx]
    /\ UNCHANGED <<scr, masks>>

(* iface_enb_draw_uenm: without its UE the mask is left for the UE screen. *)
DrawUenm ==
    /\ shown' = ues[ueIdx]
    /\ scr' = IF ues[ueIdx] = NoRnti THEN "UE" ELSE scr
    /\ masks' = IF ues[ueIdx] = NoRnti THEN {} ELSE masks

DrawUE ==
    /\ ueIdx' = Drawn(Taken, ueSel, ueIdx)
    /\ shown' = NoRnti
    /\ UNCHANGED <<scr, masks, enbIdx, ho>>

DrawENB ==
    /\ enbIdx' = Drawn(Listed, enbSel, enbIdx)
    /\ CASE masks = {"ho"}         -> DrawHo /\ UNCHANGED <<scr, masks>>
         [] masks = {"uenm"}       -> DrawUenm /\ UNCHANGED ho
         [] masks \in {{}, {"add"}} -> shown' = NoRnti /\ UNCHANGED <<scr, masks, ho>>
    /\ UNCHANGED ueIdx

(* A turn of iface_loop up to getch, and iface_draw: help hides everything *)
(* else.                                                                   *)
Draw ==
    /\ ui = "test"
    /\ ~f9
    /\ \/ /\ help
          /\ shown' = NoRnti
          /\ UNCHANGED <<scr, masks, ueIdx, enbIdx, ho>>
       \/ /\ ~help
          /\ CASE scr = "UE"  -> DrawUE
               [] scr = "ENB" -> DrawENB
               [] scr = "MAC" -> shown' = NoRnti /\ UNCHANGED <<scr, masks, ueIdx, enbIdx, ho>>
    /\ ui' = "key"
    /\ sent' = NoHandover
    /\ UNCHANGED <<f9, help, err, ueAdd, ueSel, enbSel, tables, alive>>

-----------------------------------------------------------------------------
(* Keys.  A handler says what becomes of err, ueAdd, masks, lists, tables  *)
(* and sent; which screen and help are on is up to the low bar.            *)

Ignored == UNCHANGED <<err, ueAdd, masks, lists, tables, sent>>

(* iface_ue_handle_add_input: an empty field makes ENTER do nothing; IMSI  *)
(* 0 is the one of free slots and exists whenever there is one.            *)
UEAddKey(k) ==
    \/ /\ k = "enter"
       /\ \/ err' = err /\ \E rnti \in Rntis : Attach(rnti)
          \/ err' = "UE_ADD_EXISTS" /\ UNCHANGED tables
          \/ Taken = Slots /\ err' = "UE_ADD_FULL" /\ UNCHANGED tables
       /\ ueAdd' = FALSE
       /\ UNCHANGED <<masks, lists, neighs, sent>>
    \/ /\ k = "esc"
       /\ ueAdd' = FALSE
       /\ UNCHANGED <<err, masks, lists, tables, sent>>
    \/ k # "esc" /\ Ignored

(* iface_ue_handle_input. *)
UEKey(k) ==
    IF ueAdd THEN UEAddKey(k) ELSE
    /\ ueAdd' = (k = "a")
    /\ ueSel' = CASE k \in {"up", "r"} -> Up(ueSel)
                  [] k = "down"        -> Down(ueSel, nof)
                  [] OTHER             -> ueSel
    /\ IF k = "r" THEN Detach(ues[ueIdx]) ELSE UNCHANGED <<ues, nof>>
    /\ UNCHANGED <<err, masks, ueIdx, enbSel, enbIdx, ho, neighs, sent>>

(* iface_enb_handle_add_input: what neigh_add_ipv4 answers is not asked. *)
ENBAddKey(k) ==
    \/ /\ k = "enter"
       /\ \E id \in Ids : List(id)
       /\ masks' = masks \ {"add"}
       /\ UNCHANGED <<err, ueAdd, lists, ues, nof, sent>>
    \/ /\ k = "esc"
       /\ masks' = masks \ {"add"}
       /\ UNCHANGED <<err, ueAdd, lists, tables, sent>>
    \/ k # "esc" /\ Ignored

(* What x2_hand_over answers; the first objection counts. *)
HandOverResult(rnti, id) ==
    CASE id = NoId                       -> "X2_HO_CELL"
      [] id # NoId /\ rnti = NoRnti     -> "X2_HO_UE"
      [] id # NoId /\ rnti # NoRnti     ->
            IF id \notin {neighs[n] : n \in NSlots} THEN "X2_HO_CELL"
            ELSE IF rnti \in FreshRntis THEN "X2_HO_UE"
            ELSE SUCCESS

(* Mutant of HoRows: the selection is signed, as the comparisons with zero *)
(* in the code would have it.                                              *)
HoRowsSigned(k) ==
    CASE k = "up"   -> ho.sel - 1
      [] k = "down" -> IF ho.sel + 1 > nof - 1 THEN nof - 1 ELSE ho.sel + 1
      [] OTHER      -> ho.sel

(* The row selected in the handover mask: unsigned, so that it wraps below *)
(* row 0, and so does the last row of an empty list.                       *)
HoRows(k) ==
    LET next == (ho.sel + 1) % U32
        last == (nof - 1) % U32
    IN  CASE k = "up"   -> (ho.sel - 1) % U32
          [] k = "down" -> IF next > last THEN last ELSE next
          [] OTHER      -> ho.sel

(* sim_neighs[iface_enb_ho_idx].id, at the row of the UE.  NEIGH_MAX is 10 *)
(* and UE_MAX 32: the rows past the end of sim_neighs read what is there.  *)
IdAtRow == IF ho.idx \in NSlots THEN {neighs[ho.idx]} ELSE Ids \cup {NoId}

(* iface_enb_handover_input. *)
HoKey(k) ==
    /\ ho' = [ho EXCEPT !.sel = HoRows(k)]
    /\ IF k # "enter" THEN UNCHANGED <<err, ues, nof, sent>>
       ELSE \E id \in IdAtRow :
               /\ err' = HandOverResult(ho.rnti, id)
               /\ IF err' = SUCCESS
                  THEN Detach(ho.rnti) /\ sent' = <<ho.rnti, id>>
                  ELSE UNCHANGED <<ues, nof, sent>>
    /\ masks' = IF k \in {"enter", "esc"} THEN masks \ {"ho"} ELSE masks
    /\ UNCHANGED <<ueAdd, ueSel, ueIdx, enbSel, enbIdx, neighs>>

(* iface_enb_handle_uenm_input, but for the signal levels it changes. *)
UenmKey(k) ==
    /\ masks' = IF k = "esc" THEN masks \ {"uenm"} ELSE masks
    /\ UNCHANGED <<err, ueAdd, lists, tables, sent>>

(* iface_enb_handle_input.  sim_nof_neigh, the bound of the row, can be    *)
(* off in both directions (NeighTable): below the list all rows are alike. *)
ENBKey(k) ==
    CASE masks = {"add"}  -> ENBAddKey(k)
      [] masks = {"ho"}   -> HoKey(k)
      [] masks = {"uenm"} -> UenmKey(k)
      [] masks = {} ->
            /\ masks' = CASE k = "a" -> {"add"} [] k = "h" -> {"ho"} [] k = "m" -> {"uenm"}
                          [] OTHER   -> {}
            /\ enbSel' \in CASE k \in {"up", "r"} -> {Up(enbSel)}
                             [] k = "down" -> {enbSel, Down(enbSel, NeighMax + 1)}
                             [] OTHER      -> {enbSel}
            /\ IF k = "r" THEN Unlist(neighs[enbIdx]) ELSE UNCHANGED neighs
            /\ UNCHANGED <<err, ueAdd, ueSel, ueIdx, enbIdx, ho, ues, nof, sent>>

(* The keys of the MAC screen change nothing the user interface keeps. *)
ScreenKey(k) ==
    CASE scr = "UE"  -> UEKey(k)
      [] scr = "ENB" -> ENBKey(k)
      [] scr = "MAC" -> Ignored

LowBar(k) ==
    /\ help' = (k = "F1")
    /\ scr' = CASE k = "F2" -> "UE" [] k = "F3" -> "ENB" [] k = "F4" -> "MAC" [] OTHER -> scr

ErrKey(k) == err' = IF k = "esc" THEN SUCCESS ELSE err
HelpKey(k) == help' = (k # "F1")

(* Mutant of HandleInput: an error keeps the keys from the screens only.   *)
HandleInputPastError(k) ==
    \/ /\ err # SUCCESS
       /\ ErrKey(k) /\ LowBar(k)
       /\ UNCHANGED <<ueAdd, masks, lists, tables, sent>>
    \/ /\ err = SUCCESS /\ help
       /\ HelpKey(k)
       /\ UNCHANGED scr /\ Ignored
    \/ /\ err = SUCCESS /\ ~help
       /\ ScreenKey(k) /\ LowBar(k)

(* iface_handle_input: one panel has the keys, but those of the low bar    *)
(* work above every screen and mask.                                       *)
HandleInput(k) ==
    \/ /\ err # SUCCESS
       /\ ErrKey(k)
       /\ UNCHANGED <<scr, help, ueAdd, masks, lists, tables, sent>>
    \/ /\ err = SUCCESS /\ help
       /\ HelpKey(k)
       /\ UNCHANGED scr /\ Ignored
    \/ /\ err = SUCCESS /\ ~help
       /\ ScreenKey(k) /\ LowBar(k)

(* getch and what follows.  A key that does not come is "other". *)
Key(k) ==
    /\ ui = "key"
    /\ HandleInput(k)
    /\ f9' = (k = "F9")
    /\ ui' = "test"
    /\ shown' = NoRnti
    /\ UNCHANGED alive

EndLoop ==
    /\ ui = "test"
    /\ f9
    /\ ui' = "ended"
    /\ alive' = FALSE
    /\ UNCHANGED <<f9, panels, lists, tables, shown, sent>>

-----------------------------------------------------------------------------
(* The other threads. *)

Others == UNCHANGED <<ui, f9, panels, lists, alive, shown, sent>>

(* x2_handover in, wrap_handover out, x2_alive and its conflicts.  The     *)
(* main loop ends with iface_alive and the agent with the main loop: of    *)
(* what they do in their last turn no panel is left to take notice.        *)
Arrive(rnti) == alive /\ Attach(rnti) /\ UNCHANGED neighs /\ Others
Leave(i) == alive /\ i \in Taken /\ Detach(ues[i]) /\ UNCHANGED neighs /\ Others
Announce(id) == alive /\ List(id) /\ UNCHANGED <<ues, nof>> /\ Others
Conflict(n) == alive /\ n \in Listed /\ Unlist(neighs[n]) /\ UNCHANGED <<ues, nof>> /\ Others

Next ==
    \/ Draw
    \/ EndLoop
    \/ \E k \in Keys : Key(k)
    \/ \E rnti \in Rntis : Arrive(rnti)
    \/ \E i \in Slots : Leave(i)
    \/ \E id \in Ids : Announce(id)
    \/ \E n \in NSlots : Conflict(n)

Spec == Init /\ [][Next]_vars

-----------------------------------------------------------------------------
(* Properties. *)

(* Whenever an error has the keys it is on the screen, never hidden by the *)
(* help, which would leave the operator without a key that seems to work   *)
(* ("Inhibits every input until error has been resolved", iface.c:259, and *)
(* the bypass of iface.c:228).                                             *)
ErrorShown == ui = "key" /\ err # SUCCESS => ~help

(* A key that goes to the measurement mask works on the slot of a UE that  *)
(* was there when the mask was drawn, however many UEs left while help or  *)
(* another screen was in front (iface_enb.c:247).                          *)
MeasureOfAttached ==
    ui = "key" /\ err = SUCCESS /\ ~help /\ scr = "ENB" /\ masks = {"uenm"} =>
        shown # NoRnti

(* The UE and the eNB of a handover by the operator are those highlighted  *)
(* when ENTER was hit ("Select the UE to hand-over to the selected eNB",   *)
(* iface_enb.c:418).                                                       *)
HandoverAsSelected ==
    [][sent' # sent /\ sent' # NoHandover => sent' = <<shown, neighs[enbIdx]>>]_vars

=============================================================================
