------------------------------- MODULE UETable -------------------------------
(***************************************************************************)
(* The UE table of one eNB and the RAN-sharing user table kept beside it:  *)
(* ue_add and ue_rem (ue.c), ran_add_user, ran_rem_user and ran_bootstrap  *)
(* (stack/ran.c), and every caller of them: the scenario file read at      *)
(* start-up, the operator's UE and MAC screens, the handovers in and out.  *)
(*                                                                         *)
(* A call is one step here.  The three threads of the program call these   *)
(* functions without a lock; what their interleaving breaks is the subject *)
(* of X2Handover, what a call does by itself that of this module.          *)
(***************************************************************************)
EXTENDS RanTable, ListScreen

CONSTANTS
    Phy,           \* the values in the pci fields of sim_phy.cells once it is
                   \* configured, PHY_PCI_INVALID among them while a slot is free
    Cell0,         \* sim_phy.cells[0].pci
    CountMod,      \* sim_nof_ues is a u32: 2^32
    MaxBlank       \* bound of the model: how many removals may hit a free slot

ASSUME TableAssumption ==
    /\ Phy \subseteq Pcis
    /\ Cell0 \in Phy
    /\ CountMod \in Nat
    /\ UEMax < CountMod
    /\ MaxBlank \in Nat

VARIABLES
    booting,       \* main is still in parse_args: no other thread runs
    ues,           \* sim_ues
    nof,           \* sim_nof_ues
    dirty,         \* sim_ue_dirty
    wanted,        \* is the controller connected, with a UE-report trigger set?
    ran,           \* sim_mac.ran
    sel,           \* iface_ue_sel, the row of the UE list the operator is on
    cursor,        \* iface_ue_sel_idx, the slot last drawn in that row
    users,         \* the rnti of each slot of sim_ran.users; its slice[0] is
                   \* RAN_SLICE_DEFAULT exactly when the rnti is not 0
    blank          \* history: the removals that hit a free slot

table == <<ues, nof, dirty, users>>
screen == <<sel, cursor>>
vars == <<booting, table, wanted, ran, screen, blank>>

TypeOK ==
    /\ booting \in BOOLEAN
    /\ ues \in [Slots -> UE]
    /\ nof \in 0 .. CountMod - 1
    /\ dirty \in BOOLEAN
    /\ wanted \in BOOLEAN
    /\ ran \in BOOLEAN
    /\ sel \in Nat \ {0}
    /\ cursor \in Slots
    /\ users \in [RanSlots -> Rntis]
    /\ blank \in Nat

Init ==
    /\ booting = TRUE
    /\ ues = EmptyTable
    /\ nof = 0
    /\ dirty = FALSE
    /\ wanted = FALSE
    /\ ran = FALSE
    /\ sel = 1
    /\ cursor = 0
    /\ users = [j \in RanSlots |-> NoRnti]
    /\ blank = 0

-----------------------------------------------------------------------------
(* ue_add and ue_rem with everything they change. *)

(* Mutant of UEAdd: the flag is set to rep instead of raised by it. *)
UEAddOverwritesDirty(pci, asked, imsi, rep) ==
    /\ AddResult(ues, imsi, pci, Phy) = "SUCCESS"
    /\ \E rnti \in AssignedRntis(ues, asked) :
          /\ ues' = AddUE(ues, rnti, imsi, pci)
          /\ users' = IF ran THEN RanAddUser(users, rnti) ELSE users
    /\ nof' = (nof + 1) % CountMod
    /\ dirty' = rep

(* A refused ue_add changes nothing here: the free slot it wipes before it *)
(* looks the cell up is already blank.                                     *)
UEAdd(pci, asked, imsi, rep) ==
    /\ AddResult(ues, imsi, pci, Phy) = "SUCCESS"
    /\ \E rnti \in AssignedRntis(ues, asked) :
          /\ ues' = AddUE(ues, rnti, imsi, pci)
          /\ users' = IF ran THEN RanAddUser(users, rnti) ELSE users
    /\ nof' = (nof + 1) % CountMod
    /\ dirty' = (dirty \/ rep)

(* Mutant of UERem: the user stays in the RAN table. *)
UERemKeepsRanUser(rnti, rep) ==
    /\ ues' = RemUE(ues, rnti)
    /\ nof' = IF Matching(ues, rnti) = {} THEN nof ELSE (nof - 1) % CountMod
    /\ dirty' = (dirty \/ rep)
    /\ UNCHANGED users

(* Mutant of UERem: the count is kept by the reports only. *)
UERemCountsReports(rnti, rep) ==
    /\ ues' = RemUE(ues, rnti)
    /\ nof' = IF Matching(ues, rnti) = {} \/ ~rep THEN nof ELSE (nof - 1) % CountMod
    /\ users' = IF ran THEN RanRemUser(users, rnti) ELSE users
    /\ dirty' = (dirty \/ rep)

(* Mutant of UERem: the count is not a u32. *)
UERemSigned(rnti, rep) ==
    /\ ues' = RemUE(ues, rnti)
    /\ nof' = IF Matching(ues, rnti) = {} THEN nof ELSE nof - 1
    /\ users' = IF ran THEN RanRemUser(users, rnti) ELSE users
    /\ dirty' = (dirty \/ rep)

(* ue_rem succeeds whether or not it finds the RNTI; the list is dirty     *)
(* either way when rep is set.  The count is taken down for any match, a   *)
(* free slot matched by RNTI 0 included.                                   *)
UERem(rnti, rep) ==
    /\ ues' = RemUE(ues, rnti)
    /\ nof' = IF Matching(ues, rnti) = {} THEN nof ELSE (nof - 1) % CountMod
    /\ users' = IF ran /\ Matching(ues, rnti) # {}
                THEN RanRemUser(users, rnti)
                ELSE users
    /\ dirty' = (dirty \/ rep)

-----------------------------------------------------------------------------
(* The UE screen. *)

(* A turn of iface_loop with this screen up: what the key did, with row s  *)
(* selected after it, then the drawing.  The wait for the next key is      *)
(* between turns, and anything may happen to the table during it.          *)
Redraw(s) ==
    /\ sel' = s
    /\ cursor' = Drawn(ActiveSlots(ues'), s, cursor)

-----------------------------------------------------------------------------
(* The callers. *)

(* sce_parse_line, UE case: the file names any cell and any RNTI.  A UE    *)
(* line ahead of its CELL line is refused, which adds no behaviour.        *)
ScenarioUE ==
    /\ booting
    /\ \E pci \in Pcis, asked \in Rntis, imsi \in Imsis \cup {NoImsi} :
          UEAdd(pci, asked, imsi, TRUE)
    /\ UNCHANGED <<booting, wanted, ran, screen, blank>>

(* The end of parse_args: main starts the agent, X2 and the interface. *)
Started ==
    /\ booting
    /\ booting' = FALSE
    /\ UNCHANGED <<table, wanted, ran, screen, blank>>

(* The add mask of the UE screen, ENTER. *)
OperatorAddUE ==
    /\ ~booting
    /\ \E asked \in Rntis, imsi \in Imsis \cup {NoImsi} :
          UEAdd(Cell0, asked, imsi, TRUE)
    /\ Redraw(sel)
    /\ UNCHANGED <<booting, wanted, ran, blank>>

(* Keys up and down of the UE screen, or no key at all. *)
OperatorMove ==
    /\ ~booting
    /\ UNCHANGED <<booting, table, wanted, ran, blank>>
    /\ \E s \in {sel, Up(sel), Down(sel, nof)} : Redraw(s)

(* Key 'r' of the UE screen: whatever UE is in the slot under the cursor   *)
(* goes, and if it has left already, whatever slot is free first.          *)
OperatorRemoveUE ==
    /\ ~booting
    /\ ues[cursor].rnti = NoRnti => blank < MaxBlank
    /\ UERem(ues[cursor].rnti, TRUE)
    /\ blank' = IF ues[cursor].rnti = NoRnti THEN blank + 1 ELSE blank
    /\ Redraw(Up(sel))
    /\ UNCHANGED <<booting, wanted, ran>>

(* x2_handover: a neighbor hands a UE over; the RNTI is drawn here. *)
HandoverIn ==
    /\ ~booting
    /\ \E asked \in Candidates, imsi \in Imsis :
          UEAdd(Cell0, asked, imsi, FALSE)
    /\ UNCHANGED <<booting, wanted, ran, screen, blank>>

(* wrap_handover, or the handover mask of the eNB screen, once the X2      *)
(* message is out: x2_hand_over has found the UE, so its RNTI is not 0.    *)
HandoverOut ==
    /\ ~booting
    /\ \E i \in ActiveSlots(ues) : UERem(ues[i].rnti, FALSE)
    /\ UNCHANGED <<booting, wanted, ran, screen, blank>>

(* wrap_ue_report: the controller asks for the UE list, and gets it soon.  *)
ReportRequested ==
    /\ ~booting
    /\ wanted' = TRUE
    /\ dirty' = TRUE
    /\ UNCHANGED <<booting, ues, nof, ran, users, screen, blank>>

(* wrap_disconnected: the trigger is gone, the list may stay dirty. *)
ControllerLost ==
    /\ ~booting
    /\ wanted' = FALSE
    /\ UNCHANGED <<booting, table, ran, screen, blank>>

(* ue_compute: the list is sent when it is dirty and somebody wants it. *)
ReportUEs ==
    /\ ~booting
    /\ dirty
    /\ wanted
    /\ dirty' = FALSE
    /\ UNCHANGED <<booting, ues, nof, wanted, ran, users, screen, blank>>

(* Key 'r' of the MAC screen. *)
ToggleRan ==
    /\ ~booting
    /\ ran' = ~ran
    /\ users' = IF ran' THEN RanBootstrap(ues) ELSE users
    /\ UNCHANGED <<booting, ues, nof, dirty, wanted, screen, blank>>

Next ==
    \/ ScenarioUE
    \/ Started
    \/ OperatorAddUE
    \/ OperatorMove
    \/ OperatorRemoveUE
    \/ HandoverIn
    \/ HandoverOut
    \/ ReportRequested
    \/ ControllerLost
    \/ ReportUEs
    \/ ToggleRan

Spec == Init /\ [][Next]_vars

-----------------------------------------------------------------------------
(* Properties. *)

Attached == {ues[i].rnti : i \in ActiveSlots(ues)}

RanUsers == {users[j] : j \in RanSlots} \ {NoRnti}

(* No subscriber sits in two slots, whichever callers added it and however *)
(* slots and RNTIs were reused in between ("Two UE with the same IMSI are  *)
(* not allowed!", ue.c:72).                                                *)
UniqueImsi ==
    \A i, j \in ActiveSlots(ues) : ues[i].imsi = ues[j].imsi => i = j

(* An RNTI names one UE: ue_rem, x2_hand_over and wrap_ue_measure all stop *)
(* at the first slot that holds it.                                        *)
UniqueRnti ==
    \A i, j \in ActiveSlots(ues) : ues[i].rnti = ues[j].rnti => i = j

(* A slot is free as a whole or taken as a whole: ue_add looks for an IMSI *)
(* in free slots too and ue_compute reports every slot with an RNTI.       *)
SlotsWhole ==
    \A i \in Slots :
        IF ues[i].rnti = NoRnti
        THEN ues[i] = FreeSlot
        ELSE ues[i].imsi \in Imsis /\ ues[i].pci \in Phy

(* While RAN sharing is on, the scheduler serves only UEs of this eNB and  *)
(* none of them from two user slots: ran_user_rr_sched walks the user      *)
(* slots without looking at sim_ues.                                       *)
RanUsersAttached ==
    ran => /\ RanUsers \subseteq Attached
           /\ \A j, k \in RanSlots :
                 users[j] = users[k] /\ users[j] # NoRnti => j = k

(* sim_nof_ues is off by exactly the removals that hit a free slot: adds,  *)
(* refusals and handovers never disturb it.                                *)
CountDrift ==
    nof = (Cardinality(ActiveSlots(ues)) - blank) % CountMod

(* While RAN sharing stays on a UE that is scheduled stays so until it     *)
(* leaves the eNB, whoever else comes and goes.                            *)
RanKeepsUsers ==
    [][ran /\ ran' => (RanUsers \ RanUsers') \cap Attached' = {}]_vars

(* The table implements UERegistry: one UE comes or goes at a time, and    *)
(* the dirty flag stays up from an operator's change to the next report.   *)
Registry == INSTANCE UERegistry WITH
    Subscribers <- Imsis,
    RadioIds <- Rntis \ {NoRnti},
    Capacity <- UEMax,
    attached <- UesOf(ues),
    news <- dirty

ImplementsRegistry == Registry!Spec

=============================================================================
