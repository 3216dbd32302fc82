------------------------------- MODULE MacSched -------------------------------
(***************************************************************************)
(* The cells of one eNB (stack/stack.c, stack/phy.c) and its downlink MAC  *)
(* scheduler (stack/mac.c, stack/ran.c): each turn of the main loop deals  *)
(* the resource-block groups of one subframe, either to every UE (Fair PRB *)
(* Split) or, with RAN sharing on, to one user of the default slice.       *)
(*                                                                         *)
(* Three threads share the tables without a lock: the main loop schedules  *)
(* and, between two turns, adds the UEs handed over to this eNB; the       *)
(* interface adds and removes UEs and turns RAN sharing on and off; the    *)
(* agent removes the UEs that are handed over.  ue_add and ue_rem write    *)
(* sim_ues first and sim_ran.users in a second step; turning RAN sharing   *)
(* on rebuilds the user table slot by slot; with RAN sharing a turn finds  *)
(* a user slot in one step and reads it again for every group it fills.    *)
(* One step are the scan and the writes of ue_add and ue_rem on sim_ues    *)
(* (UEThreads takes those apart), a search of the user table, the filling  *)
(* of one group, and the whole of a Fair PRB Split.                        *)
(*                                                                         *)
(* Of a group only the RNTI of its owner is kept; the blocks in it repeat  *)
(* it.  No code reads the groups, so the model keeps those of one turn.    *)
(* Left out: the uplink, which is not scheduled, mac_rr_DL_schedule and    *)
(* the variable stu, which nothing uses, the EARFCNs, and the PRBs in use  *)
(* and the reports of them (mac_rep), which the scheduler never reads.     *)
(***************************************************************************)
EXTENDS RanTable

CONSTANTS
    CellMax,       \* PHY_CELL_MAX
    CellPrbs,      \* the downlink bandwidths a cell is configured with, in PRBs
    DefaultPrb,    \* the bandwidth of the cell main adds when there is none
    DefaultPci,    \* and its PCI, 1
    PciInvalid,    \* PHY_PCI_INVALID
    PrbMod,        \* prb_max is a u8: 2^8
    GroupMax,      \* MAC_DL_PRBG_MAX, the groups of a subframe
    Adders,        \* the threads that add UEs: the main loop, the interface
    Removers,      \* the threads that remove UEs: the interface, the agent
    SubFrames      \* PHY_SUBFRAME_X_FRAME; PHY_MAX_TTI is a multiple of it

ASSUME MacAssumption ==
    /\ CellMax \in Nat \ {0}
    /\ CellPrbs \subseteq 1 .. PrbMod - 1
    /\ DefaultPrb \in 1 .. PrbMod - 1
    /\ PrbMod \in Nat
    /\ GroupMax \in Nat \ {0}
    /\ Adders \subseteq {"main", "ui"}
    /\ Removers \subseteq {"ui", "agent"}
    /\ SubFrames \in Nat \ {0}
    /\ DefaultPci \in Pcis
    /\ PciInvalid \notin Pcis \cup {NoPci}

VARIABLES
    booting,       \* main is still in parse_args
    cells,         \* the pci and DL_prb of each slot of sim_phy.cells
    nof,           \* sim_phy.nof_cells
    prbMax,        \* sim_mac.DL.prb_max
    ues,           \* sim_ues
    ran,           \* sim_mac.ran
    users,         \* sim_ran.users
    tasks,         \* what each thread is doing to the tables
    last,          \* what sched_priv of slice 0 points to: the slot served last
    subframe,      \* sim_mac.DL.tti % 10
    groups,        \* the RNTIs the last turn wrote to the groups of
                   \* sim_mac.DL.PRBG, by their places
    main,          \* where the main loop is in a turn
    waits,         \* history: how many times in a row the user in a slot saw
                   \* the subframe of its slice go to another
    crossed        \* history: the users that came to the table after their UE
                   \* was gone, or while the table was being rebuilt

config == <<booting, cells, nof, prbMax>>
tables == <<ues, ran, users, tasks>>
frame == <<last, subframe, groups, main>>
history == <<waits, crossed>>
vars == <<config, tables, frame, history>>

CellSlots == 0 .. CellMax - 1
Groups == 0 .. GroupMax - 1

(* The groups of a frame lie one subframe after the other in memory, so    *)
(* past the last group of one subframe comes the first of the next.        *)
Places == 0 .. SubFrames * GroupMax - 1
First(t) == t * GroupMax
PlacesOf(t) == First(t) .. First(t) + GroupMax - 1

(* The subframes ran_init gives to RAN_SLICE_DEFAULT; it takes all groups. *)
DefaultSlice == {0}

(* Before a turn wrote any. *)
NoGroups == [p \in Places |-> NoRnti]

NoCell == [pci |-> PciInvalid, prb |-> 0]

(* Where the main loop is: outside mac_compute; in ran_user_rr_sched, with *)
(* the user slot it found, or before group g of those it fills; or past    *)
(* the end of the frame, where it wrote over whatever lies there.          *)
Between == [at |-> "between", user |-> 0, group |-> 0]
Picked(u) == [at |-> "picked", user |-> u, group |-> 0]
Filling(u, g) == [at |-> "filling", user |-> u, group |-> g]
Overran == [at |-> "overran", user |-> 0, group |-> 0]

(* What a thread does: nothing; ue_add, with its slot of sim_ues written,  *)
(* or with its RNTI read out of that again and going to sim_ran.users;     *)
(* ue_rem, with sim_ues written and sim_ran.users not yet; ran_bootstrap,  *)
(* before the table is cleared, or with slot "from" of sim_ues the next to *)
(* go to user slot "to".                                                   *)
Threads == {"main", "ui", "agent"}
Idle == [at |-> "idle"]
Added(i) == [at |-> "added", slot |-> i]
Joining(rnti) == [at |-> "joining", rnti |-> rnti]
Leaving(rnti) == [at |-> "leaving", rnti |-> rnti]
Clearing == [at |-> "clearing"]
Copying(i, j) == [at |-> "copying", from |-> i, to |-> j]

Tasks ==
    {Idle, Clearing} \cup {Added(i) : i \in Slots} \cup {Joining(r) : r \in Rntis}
        \cup {Leaving(r) : r \in Rntis \ {NoRnti}}
        \cup {Copying(i, j) : i, j \in RanSlots}

TypeOK ==
    /\ booting \in BOOLEAN
    /\ cells \in [CellSlots -> [pci : Pcis \cup {PciInvalid}, prb : 0 .. PrbMod - 1]]
    /\ nof \in Nat
    /\ prbMax \in 0 .. PrbMod - 1
    /\ ues \in [Slots -> UE]
    /\ ran \in BOOLEAN
    /\ users \in [RanSlots -> Rntis]
    /\ tasks \in [Threads -> Tasks]
    /\ last \in RanSlots
    /\ subframe \in 0 .. SubFrames - 1
    /\ groups \in [Places -> Rntis]
    /\ main \in {Between, Overran} \cup {Picked(u) : u \in RanSlots}
                    \cup {Filling(u, g) : u \in RanSlots, g \in Groups}
    /\ waits \in [RanSlots -> Nat]
    /\ crossed \subseteq Rntis

(* After stack_init. *)
Init ==
    /\ booting = TRUE
    /\ cells = [c \in CellSlots |-> NoCell]
    /\ nof = 0
    /\ prbMax = 0
    /\ ues = EmptyTable
    /\ ran = FALSE
    /\ users = [j \in RanSlots |-> NoRnti]
    /\ tasks = [th \in Threads |-> Idle]
    /\ last = 0
    /\ subframe = 0
    /\ groups = NoGroups
    /\ main = Between
    /\ waits = [j \in RanSlots |-> 0]
    /\ crossed = {}

-----------------------------------------------------------------------------
(* The cells. *)

FreeCells == {c \in CellSlots : cells[c].pci = PciInvalid}

(* Mutant of AddCell: the cell is counted before a slot is looked for. *)
AddCellCountsFirst(pci, prb) ==
    /\ nof' = nof + 1
    /\ IF FreeCells = {}
       THEN UNCHANGED <<cells, prbMax>>
       ELSE /\ cells' = [cells EXCEPT ![Min(FreeCells)] = [pci |-> pci, prb |-> prb]]
            /\ prbMax' = (prbMax + prb) % PrbMod

(* Mutant of AddCell: the sum is not a u8. *)
AddCellWide(pci, prb) ==
    /\ FreeCells # {}
    /\ cells' = [cells EXCEPT ![Min(FreeCells)] = [pci |-> pci, prb |-> prb]]
    /\ nof' = nof + 1
    /\ prbMax' = prbMax + prb

(* stack_add_cell: the first slot without a PCI; its bandwidth is added to *)
(* that of the other cells.  With no slot left nothing changes.            *)
AddCell(pci, prb) ==
    /\ FreeCells # {}
    /\ cells' = [cells EXCEPT ![Min(FreeCells)] = [pci |-> pci, prb |-> prb]]
    /\ nof' = nof + 1
    /\ prbMax' = (prbMax + prb) % PrbMod

(* An argument --cell (parse_cell), or a CELL line of the scenario.  A bad *)
(* --cell ends the program.                                                *)
ConfigureCell ==
    /\ booting
    /\ \E pci \in Pcis, prb \in CellPrbs : AddCell(pci, prb)
    /\ UNCHANGED <<booting, tables, frame, history>>

(* The end of parse_args: there is one cell at least, and the threads run. *)
Started ==
    /\ booting
    /\ tasks["main"] = Idle
    /\ booting' = FALSE
    /\ IF nof = 0
       THEN AddCell(DefaultPci, DefaultPrb)
       ELSE UNCHANGED <<cells, nof, prbMax>>
    /\ UNCHANGED <<tables, frame, history>>

-----------------------------------------------------------------------------
(* The tables the scheduler reads. *)

(* The main loop does one thing at a time, and there is an interface and   *)
(* an agent once it runs.                                                  *)
Free(th) ==
    /\ tasks[th] = Idle
    /\ main # Overran
    /\ IF th = "main" THEN main = Between ELSE ~booting

Rebuilding == tasks["ui"].at \in {"clearing", "copying"}

(* A user slot with another tenant, or none, has not waited yet; who has   *)
(* no user slot any more crosses nobody.                                   *)
TrackUsers(met) ==
    /\ waits' = [j \in RanSlots |-> IF users'[j] = users[j] THEN waits[j] ELSE 0]
    /\ crossed' = {r \in crossed \cup met : r # NoRnti /\ RanHolding(users', r) # {}}

(* A subscriber that is not here yet; which one makes no difference to the *)
(* scheduler.                                                              *)
Newcomer == CHOOSE imsi \in Imsis : imsi \notin ImsisOf(ues)

(* ue_add, from the scenario, the operator or a neighbor, up to the writes *)
(* to sim_ues.                                                             *)
Attach(th) ==
    /\ Free(th)
    /\ ~(Imsis \subseteq ImsisOf(ues))
    /\ \E pci \in Pcis, asked \in Candidates :
          /\ AddResult(ues, Newcomer, pci, {cells[c].pci : c \in CellSlots}) = "SUCCESS"
          /\ \E rnti \in AssignedRntis(ues, asked) :
                /\ ues' = AddUE(ues, rnti, Newcomer, pci)
                /\ tasks' = [tasks EXCEPT ![th] = Added(Min(FreeSlots(ues)))]
                /\ users' = users
                /\ TrackUsers(IF Rebuilding THEN {rnti} ELSE {})
    /\ UNCHANGED <<config, ran, frame>>

(* With RAN sharing on the UE is to be a user as well: ue_add calls        *)
(* ran_add_user with what its slot holds by now, 0 after a removal.        *)
CallRan(th) ==
    /\ tasks[th].at = "added"
    /\ tasks' = [tasks EXCEPT ![th] = IF ran THEN Joining(ues[tasks[th].slot].rnti) ELSE Idle]
    /\ UNCHANGED <<config, ues, ran, users, frame, history>>

(* ran_add_user, even if the UE was removed or RAN sharing switched off    *)
(* since.                                                                  *)
Join(th) ==
    LET rnti == tasks[th].rnti
    IN  /\ tasks[th].at = "joining"
        /\ tasks' = [tasks EXCEPT ![th] = Idle]
        /\ users' = RanAddUser(users, rnti)
        /\ TrackUsers(IF Rebuilding \/ rnti \notin RntisOf(ues) THEN {rnti} ELSE {})
        /\ UNCHANGED <<config, ues, ran, frame>>

(* ue_rem, from the operator or for a UE handed over, up to the writes to  *)
(* sim_ues.                                                                *)
Detach(th) ==
    /\ Free(th)
    /\ \E i \in ActiveSlots(ues) :
          /\ ues' = RemUE(ues, ues[i].rnti)
          /\ tasks' = [tasks EXCEPT ![th] = Leaving(ues[i].rnti)]
    /\ UNCHANGED <<config, ran, users, frame, history>>

(* Mutant of Leave: the user stays in the RAN table. *)
LeaveKeepsRanUser(th) ==
    /\ tasks[th].at = "leaving"
    /\ tasks' = [tasks EXCEPT ![th] = Idle]
    /\ UNCHANGED <<config, ues, ran, users, frame, history>>

(* The end of ue_rem: the user goes, if RAN sharing is on by now. *)
Leave(th) ==
    /\ tasks[th].at = "leaving"
    /\ tasks' = [tasks EXCEPT ![th] = Idle]
    /\ users' = IF ran THEN RanRemUser(users, tasks[th].rnti) ELSE users
    /\ TrackUsers({})
    /\ UNCHANGED <<config, ues, ran, frame>>

(* Key 'r' of the MAC screen: the flag.  The table still holds the users   *)
(* of the last time.                                                       *)
ToggleRan ==
    /\ Free("ui")
    /\ ran' = ~ran
    /\ tasks' = IF ran' THEN [tasks EXCEPT !["ui"] = Clearing] ELSE tasks
    /\ UNCHANGED <<config, ues, users, frame, history>>

(* ran_bootstrap clears the table.  Slice 0 keeps the index of the user it *)
(* served last.                                                            *)
ClearUsers ==
    /\ tasks["ui"].at = "clearing"
    /\ tasks' = [tasks EXCEPT !["ui"] = Copying(0, 0)]
    /\ users' = [j \in RanSlots |-> NoRnti]
    /\ TrackUsers({})
    /\ UNCHANGED <<config, ues, ran, frame>>

(* A UE among the first RAN_USER_MAX slots goes to the next user slot,     *)
(* over whoever was added there since the table was cleared.               *)
CopyUser ==
    LET i == tasks["ui"].from
        j == tasks["ui"].to
        k == IF ues[i].rnti = NoRnti THEN j ELSE j + 1
    IN  /\ tasks["ui"].at = "copying"
        /\ users' = IF ues[i].rnti = NoRnti THEN users ELSE [users EXCEPT ![j] = ues[i].rnti]
        /\ tasks' = [tasks EXCEPT !["ui"] = IF i + 1 = RanMax THEN Idle ELSE Copying(i + 1, k)]
        /\ TrackUsers({})
        /\ UNCHANGED <<config, ues, ran, frame>>

-----------------------------------------------------------------------------
(* Fair PRB Split. *)

(* The PRBs of one group, by the bandwidth of the eNB. *)
GroupWidth(total) ==
    CASE total = 6         -> 1
      [] total \in {15, 25} -> 2
      [] total = 50        -> 3
      [] OTHER             -> 4

(* How many groups that makes of all PRBs, the last one perhaps not full. *)
GroupsOf(total) == (total + GroupWidth(total) - 1) \div GroupWidth(total)

NextSubframe == (subframe + 1) % SubFrames

(* A slot that holds a UE gets the next group, of what is left if that is  *)
(* less than width.                                                        *)
Give(width, d, rnti) ==
    IF rnti = NoRnti \/ d.left = 0
    THEN d
    ELSE LET prbs == IF d.left <= width THEN d.left ELSE width
         IN  [left |-> d.left - prbs, next |-> d.next + 1,
              groups |-> [d.groups EXCEPT ![d.next] = rnti]]

(* The dealing of the next subframe after k slots were looked at: passes   *)
(* over sim_ues, one after the other, and groups from the first of the     *)
(* subframe on.                                                            *)
Dealing[k \in 0 .. prbMax * UEMax] ==
    IF k = 0
    THEN [left |-> prbMax, next |-> First(NextSubframe), groups |-> NoGroups]
    ELSE Give(GroupWidth(prbMax), Dealing[k - 1], ues[(k - 1) % UEMax].rnti)

(* Mutant of Deal: one pass over the UEs, what is left stays unused. *)
DealOnce == Dealing[IF prbMax = 0 THEN 0 ELSE UEMax]

(* mac_fps_DL_schedule: passes until nothing is left.  A pass over at      *)
(* least one UE hands out at least one PRB, so prbMax passes do.           *)
Deal == Dealing[prbMax * UEMax]

(* Nothing stops the dealing at the last group of the subframe, nor at the *)
(* last of the frame.                                                      *)
InFrame ==
    ActiveSlots(ues) = {} \/ First(NextSubframe) + GroupsOf(prbMax) <= SubFrames * GroupMax

(* mac_compute with RAN sharing off. *)
FairSplitTurn ==
    /\ ~booting
    /\ tasks["main"] = Idle
    /\ main = Between
    /\ ~ran
    /\ InFrame
    /\ subframe' = NextSubframe
    /\ groups' = Deal.groups
    /\ UNCHANGED <<config, tables, last, main, history>>

(* The same past the last group of the frame: the next RNTIs are written   *)
(* over tti, prb_max, the reports and what follows sim_mac.  What the      *)
(* program does from then on is anything; the model ends here.             *)
Overrun ==
    /\ ~booting
    /\ tasks["main"] = Idle
    /\ main = Between
    /\ ~ran
    /\ ~InFrame
    /\ main' = Overran
    /\ UNCHANGED <<config, tables, last, subframe, groups, history>>

-----------------------------------------------------------------------------
(* RAN sharing. *)

(* How many steps of the walk over the user slots lead from one to another; *)
(* back to the same slot it is a whole round.                               *)
Walk(from, to) == IF to > from THEN to - from ELSE to - from + RanMax

Served(u) == {j \in RanSlots : u[j] # NoRnti}

(* The first user after the one served last. *)
NextUser(u, from) ==
    CHOOSE j \in Served(u) : \A k \in Served(u) : Walk(from, j) <= Walk(from, k)

(* Mutant of RanTurn: the walk ends before it is back at the user served   *)
(* last, as in the loop commented out in mac_rr_DL_schedule.               *)
RanTurnSkipsLast ==
    /\ ~booting
    /\ tasks["main"] = Idle
    /\ main = Between
    /\ ran
    /\ subframe' = NextSubframe
    /\ groups' = NoGroups
    /\ main' = IF NextSubframe \in DefaultSlice /\ Served(users) \ {last} # {}
               THEN Picked(NextUser(users, last))
               ELSE Between
    /\ UNCHANGED <<config, tables, last, history>>

(* mac_compute with RAN sharing on, up to the choice of the user: the      *)
(* subframe is blanked; if it is the default slice's and there is a user,  *)
(* it is going to be filled.                                               *)
RanTurn ==
    /\ ~booting
    /\ tasks["main"] = Idle
    /\ main = Between
    /\ ran
    /\ subframe' = NextSubframe
    /\ groups' = NoGroups
    /\ main' = IF NextSubframe \in DefaultSlice /\ Served(users) # {}
               THEN Picked(NextUser(users, last))
               ELSE Between
    /\ UNCHANGED <<config, tables, last, history>>

(* One group goes to whoever is in the slot by now. *)
Fill(u, g) ==
    /\ groups' = [groups EXCEPT ![First(subframe) + g] = users[u]]
    /\ main' = IF g + 1 = GroupMax THEN Between ELSE Filling(u, g + 1)

(* Mutant of RanServe: the index served last is not written back. *)
RanServeForgets ==
    /\ main.at = "picked"
    /\ Fill(main.user, 0)
    /\ waits' = [j \in RanSlots |-> IF j = main.user \/ users[j] = NoRnti THEN 0 ELSE waits[j] + 1]
    /\ UNCHANGED <<config, tables, last, subframe, crossed>>

(* The first group, with which the slot becomes the one served last. *)
RanServe ==
    /\ main.at = "picked"
    /\ Fill(main.user, 0)
    /\ last' = main.user
    /\ waits' = [j \in RanSlots |-> IF j = main.user \/ users[j] = NoRnti THEN 0 ELSE waits[j] + 1]
    /\ UNCHANGED <<config, tables, subframe, crossed>>

(* The other groups. *)
RanFill ==
    /\ main.at = "filling"
    /\ Fill(main.user, main.group)
    /\ UNCHANGED <<config, tables, last, subframe, history>>

-----------------------------------------------------------------------------

Next ==
    \/ ConfigureCell
    \/ Started
    \/ \E th \in Adders : Attach(th) \/ CallRan(th) \/ Join(th)
    \/ \E th \in Removers : Detach(th) \/ Leave(th)
    \/ ToggleRan
    \/ ClearUsers
    \/ CopyUser
    \/ FairSplitTurn
    \/ Overrun
    \/ RanTurn
    \/ RanServe
    \/ RanFill

Spec == Init /\ [][Next]_vars

(* The main loop (main.c:257-336) goes on: what it is in the middle of it  *)
(* finishes, and as x2_compute returns once its socket is empty, it comes  *)
(* back to the next turn again and again, whatever it adds in between.     *)
FairSpec ==
    /\ Spec
    /\ SF_vars(RanTurn)
    /\ WF_vars(RanServe \/ RanFill \/ CallRan("main") \/ Join("main"))

-----------------------------------------------------------------------------
(* Properties. *)

Attached == {ues[i].rnti : i \in ActiveSlots(ues)}

(* The PRBs of the first n cells. *)
PrbsOf[n \in 0 .. CellMax] == IF n = 0 THEN 0 ELSE PrbsOf[n - 1] + cells[n - 1].prb

(* The cells fill the first slots, as many as are counted, and the PRBs    *)
(* dealt are theirs, whatever mixture of arguments, scenario lines and     *)
(* refusals configured them: wrap_enb_setup_request sends the first        *)
(* nof_cells slots to the controller.                                      *)
CellsAccounted ==
    /\ nof <= CellMax
    /\ \A c \in CellSlots : cells[c].pci = PciInvalid <=> c >= nof
    /\ prbMax = PrbsOf[CellMax] % PrbMod

(* No user of the default slice sees its subframe go to others more than   *)
(* once per other user slot in a row, whoever attaches, leaves or toggles  *)
(* RAN sharing between the choice of a user and the filling of the groups. *)
RanWaitBound ==
    \A j \in RanSlots : users[j] # NoRnti => waits[j] < RanMax

(* The places a number of groups take, and how many of them went to a UE.  *)
Dealt(n) == First(subframe) .. First(subframe) + n - 1
Shares(rnti, n) == Cardinality({p \in Dealt(n) : groups[p] = rnti})

(* A turn of Fair PRB Split that ends within the frame gives away every    *)
(* group of the PRBs of the eNB when there is a UE, gives no UE two groups *)
(* more than another, prefers the UEs of the first slots, and writes on    *)
(* other subframes only when the groups of its own do not do ("Fair PRB    *)
(* Split", mac.c:118).                                                     *)
DealtFairly ==
    [][ (~ran /\ main = Between /\ subframe' # subframe) =>
        IF Attached = {}
        THEN groups' = NoGroups
        ELSE /\ \A p \in Dealt(GroupsOf(prbMax))' : groups'[p] # NoRnti
             /\ \A i, j \in ActiveSlots(ues) :
                   LET mine == Shares(ues[i].rnti, GroupsOf(prbMax))'
                       other == Shares(ues[j].rnti, GroupsOf(prbMax))'
                   IN  i < j => mine - other \in {0, 1}
             /\ \A p \in Places \ PlacesOf(subframe') :
                   groups'[p] # NoRnti => GroupsOf(prbMax) > GroupMax ]_vars

(* The UEs whose removal is not through with the user table. *)
LeavingRntis == {tasks[th].rnti : th \in {t \in Threads : tasks[t].at = "leaving"}}

(* With RAN sharing on and its table cleared, a group is given to a UE of  *)
(* this eNB, to one a thread is just removing, or to nobody if the user    *)
(* left after it was chosen; a UE that is gone for good gets none, unless  *)
(* its ran_add_user crossed its removal or a rebuild of the table.         *)
RanServesAttached ==
    [][ (ran /\ tasks["ui"].at # "clearing" /\ main.at \in {"picked", "filling"}) =>
        \A p \in Places :
            groups'[p] # groups[p] =>
                groups'[p] \in Attached \cup LeavingRntis \cup crossed \cup {NoRnti} ]_vars

(* A user that stays in its slot while RAN sharing stays on is served      *)
(* again and again.                                                        *)
EveryUserServed ==
    \A j \in RanSlots :
        <>[](ran /\ users[j] # NoRnti) => []<><<RanServe /\ main.user = j>>_vars

=============================================================================
