# A TLA+ model of the EmPOWER base station simulator

`embase` simulates an LTE base station (eNB): UEs that attach, leave and are
handed over, neighbor eNBs it talks to over X2 (UDP), a MAC scheduler, and an
agent that a controller sends requests to.  Nothing below the messages is
real, but the tables, the threads and the datagrams are, and they are what
this project models.  Paths below are relative to `sim/lte/`.

## 1. The system

### Threads

| thread | runs | touches |
| --- | --- | --- |
| main loop (`main.c:258-336`) | every turn: the signal of slot 0 swings, `ue_compute`, the MAC (`stack_compute`), `x2_compute` | everything |
| agent (libemagent, not in the repository) | the callbacks of `wrap.c`: reports, measurements, handovers, RAN | UE table, MAC, sends X2 datagrams |
| user interface (`iface/`, absent with `--hl`) | one turn per key: the mask or the screen acts, then it is drawn | UE table, neighbors, RAN switch, sends X2 datagrams |

No lock guards any of the tables.  The threads meet in `sim_ues`,
`sim_neighs`, `sim_mac`, and in flags that one thread raises and another takes
down (`sim_ue_dirty`, the `dirty` of a measurement, `sim_UE_rep_trigger`).

### Components

| component | state | operations | what makes it correct |
| --- | --- | --- | --- |
| UE table (`ue.c`) | `sim_ues`, `sim_nof_ues`, `sim_ue_dirty`, `sim_UE_rep_trigger` | `ue_add`, `ue_rem`, `ue_compute`, `ue_compute_measurements` | an IMSI and an RNTI name one UE; a slot is whole; the count is right; changes and measurements reach the controller that asked |
| RAN sharing users (`stack/ran.c`) | `sim_ran.users` | `ran_bootstrap`, `ran_add_user`, `ran_rem_user`, the slice and user schedulers | every scheduled user is attached or about to be removed; users keep their turn |
| X2 (`x2.c`) | the socket, its buffers | `x2_alive`, `x2_hand_over`, `x2_handover`, `x2_compute` | a UE is at one eNB; it gets lost only with its own datagram |
| Neighbor table (`neigh.c`) | `sim_neighs`, `sim_nof_neigh` | `neigh_add_ipv4`, `neigh_rem` | one entry per eNB, with its address and its cell |
| Controller callbacks (`wrap.c`) | none of its own | `wrap_handover`, `wrap_ue_report`, `wrap_ue_measure`, `wrap_mac_report`, `wrap_disconnected`, setups | a request takes effect on the UE it names, or is refused |
| Screens (`iface/ue`, `iface/enb`, `iface/mac`, `iface/help`) | selected row, slot drawn in it, the fields of the masks | keys | a key acts on what was selected |
| User interface loop (`iface/iface.c`) | current screen, help, error | `iface_loop` | one panel has the keys, and it is the one in front |
| MAC scheduler (`stack/mac.c`) | resource-block groups, usage, MAC reports | `mac_compute`, `mac_fps_DL_schedule` | all blocks are dealt, evenly, and in their own subframe if they fit there; reports say what was used |
| Cells (`stack/phy.c`, `stack/stack.c`) | `sim_phy.cells` | `stack_add_cell` | cells are distinct and valid |
| Scenario files, PLMN (`scenario.c`, `plmn.c`) | none | load, save, convert | what is saved loads to the same state |
| Main loop (`main.c`) | `sim_peak`, options | start-up, turns, `sim_switch` | things are started once and in order |
| Agent library | connection, triggers | `em_has_trigger`, `em_del_trigger`, `em_send`, callbacks | external: modelled as the code uses it |

`wrap.c:379-1036` and the body of `sim_ops` that names it (1048-1058) are
compiled out, logging only writes to a file, and the makefiles and type
headers have no behaviour; none of them is modelled.

### What is hard about it

- **Steps in an order nobody tested.**  `x2_hand_over` and the `ue_rem` that
  follows are two steps of one thread; a second thread can hand over the same
  UE, free its RNTI or give it to somebody else in between.
  `wrap_ue_measure` searches a slot and writes to it later.  `ue_compute`
  copies the list, sends it, and only then clears the flag.  `ue_add` and
  `ue_rem` change `sim_ues` first and the RAN user table later, while the
  scheduler reads both.  `neigh_add_ipv4` runs in two threads, and shows the
  id of a neighbor before its address.
- **Results nobody looks at.**  `x2_send`, `em_send`, `ran_add_user` and the
  builders of most messages are called for their effect; what follows happens
  whether they worked or not.
- **An unreliable network without acknowledgement.**  A handover is one UDP
  datagram.  The source removes the UE whatever happens to it.
- **Reuse.**  Slots, RNTIs, measurement slots, RAN user slots and the bytes of
  a neighbor's address are all reused, and several searches stop at the first
  match.
- **Two notions of a table's size.**  `sim_nof_neigh` and `sim_nof_ues` bound
  some loops and array sizes bound others, and after a removal they disagree.
- **Selections that go stale.**  The screens act on the slot drawn a turn ago.

The full list, by line, with the properties that cover each entry, is
`hazards` in PROJECT.json.

## 2. The modules

```
ListScreen            the selection in a list of the user interface
UESlots               sim_ues as a value; ue_add and ue_rem as operators on it
  UETable             one eNB: the table, RAN users, operator, scenario
    UETableMC         small instance
    UERegistry        what UETable promises (abstract)
  X2Handover          several eNBs, their threads and the network
    X2HandoverMC      small instance
    UEMobility        what X2Handover promises (abstract)
NeighTable            the neighbor table of one eNB, ALIVE, the eNB screen
  NeighTableMC        small instance, two sets of peers
UEReport              UE list and measurement reports, three threads
  UEReportMC          small instance
RanTable              sim_ran.users as a value; its add, remove, bootstrap
  (UETable, MacSched)
MacSched              cells, Fair PRB Split, RAN sharing, the main loop's turn
  MacSchedMC          small instance
UEThreads             ue_add and ue_rem read by read and write by write
  UEThreadsMC         small instance
Iface                 the user interface loop, its screens, masks and panels
  IfaceMC             small instance
TableProofs           facts about the operators of UESlots and RanTable,
                      about Min, remainders and recursive functions
  UETableProofs       theorems about UETable
  X2HandoverProofs    theorems about X2Handover
  MacSchedProofs      theorems about MacSched
  UEThreadsProofs     theorems about UEThreads
NeighTableProofs      theorems about NeighTable
UEReportProofs        theorems about UEReport
IfaceProofs           theorems about Iface
```

`map` in PROJECT.json gives for each definition the lines it stands for.

### UESlots, UETable, UERegistry

An `em_ue` is its RNTI, IMSI and PCI; a free slot holds zeros, as `ue_rem`
leaves it.  `AddResult` is the order of refusals of `ue_add` (the IMSI
first, then room, then the cell), `AssignedRntis` the outcomes of the loop
that draws RNTIs, `RemUE` the first-match removal, RNTI 0 matching a free
slot.  UETable applies them with all they change (`UEAdd`, `UERem`: slots,
count modulo 2^32, dirty flag, RAN users) from every caller: `ScenarioUE`
before the threads exist, `OperatorAddUE`, `OperatorRemoveUE` and
`OperatorMove` for a turn of the UE screen up to its drawing, `HandoverIn`,
`HandoverOut`, the report and its trigger, and `ToggleRan`.  The cells are the
constant `Phy`.  A call is one step in this module.

UERegistry is a set of attached UEs that changes by one at a time and a flag
that stays up from a change to its report; slots, count and RAN users are
implementation.

### X2Handover, UEMobility

`ues[e]` is the table of each eNB, `pend[e][t]` the RNTI a thread has sent and
not yet removed, `net` the datagrams on their way.  `HandOver` is
`x2_hand_over`; `RemoveSent` the `ue_rem(rnti, 0)` the same thread goes on to;
`Receive` one datagram in `x2_compute`, accepted or refused by `ue_add`;
`Drop` and `Duplicate` are UDP.  Of a datagram that is lost, or was never sent
(x2.c:281 ignores the result), nobody learns; of one that is refused at most
the controller of the target does, if the message can be built and sent
(x2.c:169-171 does not look).  So nothing in the model records who knows, and
the property `LostOnItsWay` says instead where a UE can get lost at all: in
the step that takes its own datagram off the network, on a link that loses
datagrams (`Lossy`, per target) or at a target that has no room or still
lists it (`NoRoom`).  Neighbors are complete and right here; NeighTable is
about how they come about.

UEMobility: a subscriber is at a station, between two, or gone; it leaves from
where it is, arrives where it was sent, and is lost only on the way.

### NeighTable

A slot is id, cell, the bytes of the address text, and the address and port
they were parsed to.  The main loop (`x2_alive`) and the interface (the add
mask) run `neigh_add_ipv4` without a lock, so that an add of each can be under
way (`adds`): `Begin` is its search of the table, `TakeId` writes id and cell,
`CopyText` overwrites the bytes the slot held without a terminator,
`TakeAddress` parses what is there now, `Count` is `sim_nof_neigh++`.  The
search, the update of the count and `neigh_rem` are one step each; that two
updates of `sim_nof_neigh` can lose one, as those of `sim_nof_ues` do in
UEThreads, is left out.  `Received` is what the receive
buffer can hold behind a text, the tails of any number of earlier ones,
`Searched` the slots `x2_alive` looks at (`sim_nof_neigh` of them),
`AliveKnown`, `AliveNew` and `Conflict` its three paths; the operator's add,
remove and moves are turns of the eNB screen.

Two adds at once can take the same slot and mix two eNBs in it, or list one
eNB twice; and between `TakeId` and `TakeAddress` a neighbor has its id
already and still the address of an earlier one.  The properties say so:
`met` (history) has the ids both threads were adding before either had
written it, `torn` (history) the slots both were filling at once, `Settled`
are the neighbors outside these windows.

### UEReport

The same slots by RNTI only, and with each its measurements (`meas`): trigger,
frequency, dirty flag.  A step ends wherever another thread can change what
the next one relies on.  `main` is the place of the main loop in `ue_compute`
(`BeginTurn`, `NoDirtyAnymore`) and in `ue_compute_measurements` (`Measure`,
`MeasureSent`, `MeasureClean`), with its slot indices; `agent` is what
`wrap_ue_measure` found and is about to write (`MeasureRequest`,
`MeasureStore`); other callbacks and the operator's keys are one step each.
`live` is the agent's trigger table.  A report is sent or fails (`Sent`,
`Failed`; it cannot be built, or `em_send` does not get it out), and the flag
goes down in both cases, against the comments of the code ("Failures keeps
the flag dirty", ue.c:359; "Keep it dirty if some error occurs", ue.c:290).

`owed` and `missed` are history: has the list changed since it was last copied
into a report that was sent, and did since then a change fall between a report
and the reset of the flag, or a report fail?  `strayed` marks a measurement
that `wrap_ue_measure` wrote to a slot that had changed hands since it was
found.  More windows are in the model without a property of their own: a
measurement whose report fails, or whose signal changes between the report and
the reset of its flag, is not reported, and a request stored while its slot is
being cleaned up is lost; no property here tells any of them from a change
that was superseded.  A measurement stored in a slot not used for its
frequency before is not flagged and reports nothing until something touches
it; the sources promise no first report.

### RanTable, MacSched

RanTable has the user table of RAN sharing as operators, used by UETable
(which is about the table) and MacSched (which is about what is scheduled from
it).  MacSched starts with `main` in `parse_args`: `ConfigureCell` is a
`--cell` or a scenario line, `Started` the default cell and the start of the
threads.  From then on three threads are at the tables (`tasks`).  `ue_add` is
`Attach`, which writes `sim_ues`, `CallRan`, which looks whether RAN sharing
is on and reads the RNTI out of the slot again (ue.c:135-137), and `Join`,
`ran_add_user`; `ue_rem` is `Detach`, which clears the slot, and `Leave`, the
`ran_rem_user` of ue.c:185-187; switching RAN sharing on is `ToggleRan`, then
`ClearUsers` and one `CopyUser` per slot (`ran_bootstrap`).

`FairSplitTurn` is a turn of `mac_compute` with RAN sharing off: `Deal` is
`mac_fps_DL_schedule`, passes over `sim_ues` that give each active UE a group
until no block is left.  `Dealing[k]` is its state after k looks at a slot,
one function for the first pass and the further ones, which do the same.
Nothing in the code stops it at the last group of a subframe.  The groups of
a frame lie behind each other (`Places`), so the groups that do not fit go to
the next subframe; past the last one of the frame they overwrite `tti`,
`prb_max` and what follows: that is the action `Overrun`, after which the
model stops.  In the program this takes more than 100 blocks, which eight
cells allow.

With RAN sharing on `RanTurn` blanks the subframe and walks to the next user
slot, `RanServe` reads that slot for the first group and makes it the last
served, `RanFill` reads it again for each further group; the other threads may
come in between.  `waits` is history: how often in a row a user saw the
subframe of its slice go to others.  `crossed` is history, too: the users
whose `ran_add_user` came when the UE was gone already, or which came while the
table was being rebuilt.  Such a user may be listed with no UE behind it (an
RNTI of 0 included), or twice, until RAN sharing is switched on again.

### UEThreads

One thread in `ue_add`, one in `ue_rem`, each with its place and its local
variables; a step is one read or one write of a field of `sim_ues`, or of
`sim_nof_ues`; only the `memset` of a slot is one step as a whole.
`LookFree`, `CompareRnti` and `CompareImsi` are the three reads of a turn of
the loop of `ue_add`, with `Pass` its return to the start when the RNTI is in
use; `CleanSlot`, `WritePci`, `WriteRnti` and
`WriteImsi` fill the slot in the order of the code, `BlankRnti`, `BlankImsi`
and `BlankPci` blank it in theirs; the two accesses of `sim_nof_ues++` and
`--` are separate.  This is an eNB started with `--hl`: the main loop adds,
the agent removes.  With a second thread that adds nothing of it holds, both
would find the same slot, RNTI and IMSI free.  `raced` notes slots that both
threads were writing at once, `miscounted` an update of the count that was
overwritten.

### Iface

`ui` alternates between the test of the loop, where the screen is drawn
(`Draw`), and the wait for a key (`Key`).  Drawing fixes the slots that the
next key acts on, so both matter: `Drawn` and `Row` of ListScreen, `DrawHo`,
`DrawUenm`.  `HandleInput` gives a key to the error panel, to the help, or to
the screen or its mask and then to the low bar; `HoKey` is the handover mask
with its unsigned selection and its two indices.  One of them, the row of the
UE, is used on `sim_neighs`, which is shorter (iface_enb.c:391-392): `IdAtRow`
takes what lies behind the table for any id or none.  The other threads attach and
remove UEs and neighbors between any two steps.  `shown` is history: the UE
the mask on the screen was drawn for.

## 3. The runs

| run | question | answer |
| --- | --- | --- |
| `ue_table` | Does any sequence of scenario lines, keys, handovers and RAN switches break the table? | No: IMSIs and RNTIs stay unique, slots whole, RAN users attached and kept while they are attached, the count is off by removals of free slots only; it implements UERegistry. |
| `x2_headless` | With one thread per eNB that hands over, does a lossy network lose or clone UEs? | It never clones one, loses one only with its own datagram (on a lossy link, or at a target without room for it), and every handover settles; the eNBs implement UEMobility. |
| `x2_threads` | Two threads, a network that loses and repeats: what still holds? | Each eNB's own table stays coherent. |
| `neigh` | Does the table keep one right entry per eNB while two threads add to it, and are callers listed and their cells learned? | One entry, unless both threads added the eNB at once; the right port, and the right address for eNBs with the longest text, once an add is through and was not mixed with another; cells are learned in the slots that `x2_alive` searches. |
| `neigh_mixed` | ... and for shorter texts? | No: a shorter text keeps the tail of the longer one it replaces. |
| `neigh_overlooked` | Is the cell of every neighbor that keeps calling learned (x2.c:73)? | No: one behind a gap is past `sim_nof_neigh` and keeps cell 0. |
| `ue_report` | Three threads at every unlocked window, reports that fail: what reaches the controller, and for the right UE? | A list change is lost only in the window before the flag is cleared or by a failed report; a measurement stays with its UE but for the window in `wrap_ue_measure`; the list has its turn, and so have measurements while the list is not stuck. |
| `ue_starved` | Does a raised flag always trigger an update (iface_enb.c:97)? | No: a dirty list nobody asks for ends every `ue_compute` before the measurements. |
| `mac_sched` | Are cells and blocks accounted for, and does every UE get its share, whatever the tables do meanwhile? | Yes: blocks are all dealt, evenly; they leave their subframe only when they do not fit in it.  With RAN sharing no user waits longer than a round, every user that stays is served, and a UE that is gone gets something only while its removal is on its way, or if its `ran_add_user` crossed its removal or a rebuild of the table. |
| `ue_threads` | What is left of the table when an add and a removal interleave at every read and write? | IMSIs and RNTIs stay unique and no add is refused without a reason; a slot is torn only when both were writing it, the count is wrong only when an update was overwritten. |
| `iface` | Can the panels get in each other's way, or a key act on something not there? | An error that has the keys is visible, and the measurement mask is left when its UE is gone. |
| `iface_target` | Does the handover mask hand over what is highlighted (iface_enb.c:418)? | No: the target is the neighbor in the row of the UE, and the UE may be one highlighted earlier. |

The four violated properties are statements of the sources' own comments; the
findings in PROJECT.json quote them.  Some more divergences were met on the
way and have no run of their own: key `r` on a slot that is free by then makes
`sim_nof_ues` differ from the "Number of UEs actually active on this cell"
(ue.h:111; `CountDrift` says by how much); UEs that find the RAN user table
full or sit past its size stay out of the default tenant (ran.c:259); a report
that fails takes the dirty flag down although ue.c:359 says "Failures keeps the
flag dirty" (`missed` stands for it in `ListReported`), and so does one of a
measurement (ue.c:290); more than 100 resource blocks are written past their
subframe; two
threads of one eNB that hand the same UE over at once make two of it, which is
why `NoClone` is a property of headless networks; and a second thread that
adds breaks all of UEThreads.

### Bounds

- `ue_table`: three slots, two RAN user slots, four subscribers, so that both
  tables overfill and a gap can lie before, between and behind taken slots;
  three candidate RNTIs, so that a collision has a way out and an RNTI is
  reused at once; one reserved RNTI; a cell of this eNB and one that is not.
  `CountMod` = 4 lets the count wrap; `MaxBlank` = 1 is enough for it to do so
  and keeps the drift countable.  IMSIs are symmetric.
- `x2_*`: two eNBs of two slots, three subscribers (two with two threads), two
  candidate RNTIs: a target can be full, hold the subscriber already, or give
  out the RNTI that a pending removal at the same eNB is about to take.
  `MaxFlight` = 2 datagrams let a handover and the handover back cross.
- `neigh`: two slots, three peers, one with this eNB's own id, two on one
  host, one with a shorter text; all call and the operator types one of them,
  so that an ALIVE and the add mask meet at one id and at one slot.  One
  removal and one conflict make gaps on both sides of `sim_nof_neigh`.
  `neigh_mixed` has four peers, texts of which one is the end of another, and
  two removals; `neigh_overlooked` one caller, and everybody typed.  The bytes
  of a buffer are three: two of the longest text, one for its NUL.
- `ue_report`: two UEs with one measurement each, two RNTIs, two frequencies,
  two triggers: a request can find the slot taken, supersede another, outlive
  its trigger or its UE.  `ue_starved` has one UE with two measurements.  The
  number of triggers bounds how many requests are remembered at once.
- `mac_sched`: two UEs, two RAN user slots, two cells; the main loop adds, the
  agent removes, the interface switches RAN sharing: each of the three can be
  half way through while the other two go on.  That the interface adds and
  removes, too, is left to the proofs.  `PrbMod` = 16 stands for 2^8, with
  cells of 9 blocks, so that the sum of two wraps to 2; one cell makes three
  groups of four, four and one blocks, and a subframe has `GroupMax` = 2, so
  that from subframe 0 they run into subframe 1 and from there past the frame;
  two cells make one group of two blocks, for which the second UE is too late.
  Two subframes stand for ten, one of them the slice's.  Which subscriber
  attaches makes no difference to the scheduler; `Newcomer` takes one that is
  not attached.
- `ue_threads`: two slots, three subscribers and three candidate RNTIs; the
  RNTI a removal frees can be drawn at once, and the slot taken while it is
  still being blanked.  The calls are not bounded.
- `iface`: two UE slots, one neighbor, a u32 of three values, so that the
  selection of the handover mask wraps in a few keys; `iface_target` has two
  neighbors, so that the wrong one can be taken.

### Fairness

- X2Handover: weak fairness of `RemoveSent` for each thread, there being no
  wait between the send and the removal, and of `Receive` for each datagram,
  since `x2_compute` empties the socket in every turn.  `Drop` is not fair.
- NeighTable: weak fairness of `Alive` for each caller; the send stage of
  `x2_compute` sends ALIVE to every neighbor in every turn, and this eNB
  receives until its socket is empty.  And weak fairness of `Add` for each
  thread, since an add does not wait for anything.
- MacSched: strong fairness of `RanTurn`, and weak fairness of the steps by
  which the main loop finishes what it is in the middle of: filling a subframe
  (`RanServe`, `RanFill`) or adding a UE handed over to it (`CallRan`, `Join`).
  Strong, because adding UEs takes the main loop away from the next turn again
  and again: `x2_compute` returns once its socket is empty, so the main loop
  always comes back.  A user is served if it stays in its slot while RAN
  sharing stays on; the others may come and go.
- UEReport: weak fairness of `MainStep`; the main loop turns until the
  program is told to stop and waits for nobody.  The agent and the operator may do
  anything or nothing.

UEThreads and Iface have no liveness properties and no fairness.

`CHECK_DEADLOCK FALSE` is used by the X2 runs, where the network has nothing
left to do once every UE is gone, by those of Iface, which stops after F9, and
by `mac_sched`, whose model ends at `Overrun`.

## 4. What is proved

TLAPS checks these for every value of the constants that the named assumptions
of the modules admit.  They say that the tables have a slot, that UEs are
fewer than candidate RNTIs (32 and 65523 in the program), that RAN user slots
are not more than UE slots (8 and 32), that the count's range exceeds the
table, that the distinguished ids and triggers are none of the ordinary ones,
that an eNB's neighbors and first cell are among the eNBs and cells of the
network, and that bandwidths fit a u8.  The three theorems about headless
networks add `Headless`: one thread per eNB hands over, it is not the user
interface, and the network repeats nothing.  No other theorem has a
hypothesis of its own.

| theorem | says |
| --- | --- |
| `UETableProofs!TypeCorrect` | every variable keeps its type; the count stays a u32, the cursor in the table |
| `UETableProofs!SubscribersUnique`, `RntisUnique`, `SlotsStayWhole` | `UniqueImsi`, `UniqueRnti`, `SlotsWhole` |
| `UETableProofs!RanServesAttached` | `RanUsersAttached` |
| `UETableProofs!RanKeepsServing` | `RanKeepsUsers`, an action property |
| `UETableProofs!CountDriftsOnlyOnBlanks` | `CountDrift` |
| `UETableProofs!TableImplementsRegistry` | every step of UETable is one of UERegistry or a stutter |
| `X2HandoverProofs!HandoverTypeCorrect` | every variable keeps its type |
| `X2HandoverProofs!HandoverKeepsTables` | `TablesCoherent`, for any number of eNBs, threads and datagrams |
| `X2HandoverProofs!HeadlessNeverClones` | `NoClone`, for headless networks |
| `X2HandoverProofs!HeadlessLosesOnItsWay` | `LostOnItsWay`, an action property, for headless networks |
| `X2HandoverProofs!HeadlessImplementsMobility` | every step of a headless network is one of UEMobility or a stutter |
| `MacSchedProofs!WaitsAreBounded` | `RanWaitBound` |
| `MacSchedProofs!AttachedAreServed` | `RanServesAttached`, an action property |
| `MacSchedProofs!CellsAreAccounted` | `CellsAccounted`, for any number of cells |
| `MacSchedProofs!SchedulerTyped` | every variable keeps its type |
| `MacSchedProofs!DealsFairly` | `DealtFairly`, an action property, for any bandwidth |
| `UEThreadsProofs!ThreadsTypeCorrect` | every variable keeps its type |
| `UEThreadsProofs!ThreadsKeepImsis`, `ThreadsKeepRntis` | `UniqueImsi`, `UniqueRnti`, at every read and write |
| `UEThreadsProofs!ThreadsRefuseRightly` | `RefusedRightly` |
| `UEThreadsProofs!ThreadsLeaveSlotsWhole` | `SlotsWhole`: a slot is torn only when both threads wrote it at once |
| `UEThreadsProofs!ThreadsCountRightly` | `CountRight`: the count is wrong only when an update was overwritten |
| `UEReportProofs!ReportTypeCorrect` | every variable keeps its type; no write past the measurements of a UE |
| `UEReportProofs!ChangesReported` | `ListReported`: a change is lost only in the window or by a failed report |
| `UEReportProofs!MeasuresStay` | `MeasureAtItsUE` |
| `NeighTableProofs!NeighborsTyped` | every variable keeps its type |
| `NeighTableProofs!NeighborsUnique` | `UniqueNeighbor`: unless both threads added the eNB at once |
| `NeighTableProofs!LongestAreReached` | `LongestReached`, for any mixture of address texts |
| `IfaceProofs!IfaceTyped` | every variable keeps its type |
| `IfaceProofs!ErrorsShown` | `ErrorShown` |
| `IfaceProofs!MeasuresOfAttached` | `MeasureOfAttached` |

**UETable.**  The inductive invariant is the type invariant with the four
state invariants, which need each other: `ue_add` compares the IMSI with all
slots, which keeps IMSIs apart and refuses nobody wrongly only because free
slots hold none (`SlotsWhole`); `ran_rem_user` and `ue_rem` free the first
match, which leaves no trace of the UE only because its RNTI is nobody else's
(`UniqueRnti`) and sits in one user slot (`RanUsersAttached`).  The lemmas on
`ue_add` and `ue_rem` as operators are in TableProofs, and each caller is
reduced to them.  The count needs an argument of its own, how the cardinality
of the active slots changes, and so does the refinement, how the set of UEs
does.

**X2Handover.**  `TablesCoherent` by itself does not survive `ue_add`, whose
comparison covers free slots too; the invariant takes `Coherent` of
TableProofs for every eNB, which says that free slots are blank.  Each eNB's
table is then kept by the same lemmas on `ue_add` and `ue_rem` that UETable
uses, whatever datagram arrives and whoever removes.

For headless networks the invariant adds that what a thread is about to remove
is still in the table (`SentPresent`), so that no UE can be given its RNTI and
be removed in its place, and that every subscriber is settled at one eNB or in
one copy of one datagram, or nowhere (`OnePlace`).  The actions are first reduced to four effects on the sets `Settled` and on the
network (`Departs`, `Arrives`, `Vanishes`, `Rests`: `NextMoves`); invariance
and refinement then speak of these only.  A handover is refused for one of the
reasons of `NoRoom` because the subscriber of a datagram is settled nowhere:
where the target lists it, somebody is about to remove it (`RefusedForRoom`).

**MacSched.**  The bound on the waits is not inductive: it holds because a user
that is passed over gets closer.  The waits of a user and the walk from the
slot served last to its own stay within one round (`Closer`); in the middle of
a turn the walk from the slot picked is already shorter, but for users that
came since, who have not waited (`PickedCloser`).

That RAN sharing serves nobody else than `RanServesAttached` says rests on what
the user table holds while threads are half way through (`UsersInv`): its users
are UEs, UEs being removed, or crossed (`UsersKnown`); since a removal takes
out one slot, no user that is not crossed is in two (`UsersOnce`); and during a
rebuild the UEs still to be copied are not there yet (`CopiesNew`).  `crossed`
cannot be left out, TLC shows each of its two cases.

`PrbsOf` and `Dealing` are functions defined by recursion.  `Iterated` of
TableProofs gives them for any number of steps, without induction over an
operator; what they compute is then shown by taking the least place where it
would be wrong and looking at the one before.  For `CellsAccounted` this is
that one cell more adds its own blocks to the sum (`SumOneMore`), also when the
sum wraps.  For `DealtFairly` it is the invariant of a loop, `FairSoFar`: after
q whole passes and p slots of the next each UE has q groups, and one more if it
is among the p, each group but the last is full, and at least one block goes in
every pass that meets a UE, so that none is left in the end.  The groups lie
one behind the other from the first of the subframe on, wherever that leads,
as long as it is within the frame.

**UEThreads.**  The scan of `ue_add` sees each slot at another time.  What it
has seen stays true because the other thread only frees: no slot before the
index holds the IMSI, nor the RNTI unless a match was seen (`Scanning`); once
a slot is taken the IMSI and the RNTI it is about to write are nowhere
(`Preparing`, `Completing`).

`SlotsWhole` says nothing of the slots the threads are at, and holds when they
leave them because of what each has made of its slot by then: `Filled` for the
one that adds, `Blanked` for the one that removes, both for a slot the other
was not in; `Vacant` and `Claimed` keep the two in different slots until the
RNTI is written or taken away.  `CountRight`
speaks of idle threads; in between the count differs from the active UEs by one
that is in but not yet counted and one that is counted out but still in
(`Counted`), and a thread that stores a count it has read stores the right one
unless the other stored in between.

**NeighTable.**  `UniqueNeighbor` needs that what the search of an add said
still holds when the id is written: nobody else has written the id meanwhile,
or it is in `met` (`Fresh`), and two adds of one eNB that have both searched
and not yet written are in `met` (`Apart`).  The search itself looks at every
slot, not only at the first `sim_nof_neigh`.  `LongestReached` is not
inductive either: whether the next address is parsed whole depends on what the
slot's bytes held before.  The invariant adds that no buffer, of a free slot
included, has anything behind the longest text (`Clean`), that two threads
fill the same slot only if it is torn (`TwoHands`), and that a slot one thread
fills alone has the id it wrote and the text it copied (`Owned`, `Copied`).
For shorter texts there is nothing to prove: `neigh_mixed` shows the violation.

**Iface.**  The properties speak of the moment a key is awaited, so each needs
what the loop keeps between its steps: help is never up over an error
(`HelpWithoutError`).  The types are not trivial here, since they say that the
rows and slots that outlive the UE they were drawn for stay in the range of
`sim_ues` and of u32, and that at most one mask of a screen is up.  They do not
say that every index is used on the table it is meant for: the handover mask
uses one of `sim_ues` on `sim_neighs`.

**UEReport.**  `ListReported` is not inductive: while a report is out the flag
says nothing, and what keeps a change from being forgotten is that it was
noted as missed, as is a report that failed (`WindowNoted`).  `MeasureAtItsUE` needs that what the agent
is about to store is meant for the UE now in the slot it found (`StoreMeant`).
The three actions through which UEs come and go share `AttachIInv` and
`DetachIInv`.

Only model-checked: the six liveness properties (`HandoverSettles`,
`CallerListed`, `SearchedCellLearned`, `ListServed`, `MeasuresServed`,
`EveryUserServed`), which the proof system does not reach, and the properties
of the runs that expect a violation.  Every invariant and every other action
property of the passing runs has a theorem.

## 5. Not modelled, and the plan

In order of importance:

1. **Proofs** beyond the properties of the runs: the safety halves of the
   liveness properties, such as the steps that bring a round of the MAC or of
   ALIVE forward, and the theorems of the modules below.
2. **Two adding threads**: the operator and a handover adding at once, which
   UEThreads leaves out; what, if anything, is left of the table then.
3. **MAC reports** (`wrap_mac_report`, mac.c:346-379): their slots, intervals
   and the accumulators carried from one report to the next.
4. **X2 with NeighTable**: the neighbor read from its slot at the key, removed
   or reused before the datagram leaves.
5. **Scenario**: load after save, the PLMN conversion.
6. **MainLoop**: `sim_peak`, `sim_switch` and the levels they steer, shutdown.

Left out for good: logging, drawing and wording, signal levels as numbers
(only that they change matters), bands and PLMN of a UE, the bytes of the
controller's messages, and the agent library's own threads and sockets.
