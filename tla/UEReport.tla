------------------------------- MODULE UEReport -------------------------------
(***************************************************************************)
(* What one eNB tells its controller about its UEs: the UE list            *)
(* (sim_ue_dirty, sim_UE_rep_trigger) and the measurements asked of each   *)
(* UE (sim_ues[i].meas).                                                   *)
(*                                                                         *)
(* Three threads meet here without a lock.  The main loop (main.c) looks   *)
(* for flags, sends, and takes the flags down: ue_compute and              *)
(* ue_compute_measurements (ue.c).  The agent runs the callbacks of        *)
(* wrap.c.  The user interface adds and removes UEs and changes signal     *)
(* levels.  A step ends where another thread can change what the next one  *)
(* relies on: between a message and the reset of its flag, between the     *)
(* check of a trigger and its removal, and between the search for the slot *)
(* of a measurement and the store into it.                                 *)
(*                                                                         *)
(* A report may fail to be formatted or sent, with the link lost since it  *)
(* was looked at or for any other reason.  The flags are taken down all    *)
(* the same, although comments (ue.c:290, ue.c:359) say they would stay.   *)
(*                                                                         *)
(* Slots are taken and freed as UESlots says; only the RNTI is kept here.  *)
(* The id, the module, the interval and the levels of a measurement go     *)
(* with its trigger and are left out.                                      *)
(***************************************************************************)
EXTENDS Integers, FiniteSetsExt

CONSTANTS
    UEMax,         \* UE_MAX
    MeasMax,       \* UE_RRCM_MAX, the measurements of one UE
    Rntis,         \* the RNTIs UEs are given
    Freqs,         \* the EARFCNs the controller asks for, 0 left out
    Freq0,         \* the EARFCN of the cell, stored in meas[0] of a new UE
    NoFreq,        \* EARFCN 0, in a measurement slot that was never used
    Trigs,         \* the trigger ids the agent hands out: as many as requests
                   \* of the controller are remembered at a time (a bound)
    NoTrig,        \* trigger id 0: no measurement here, no UE report asked for
    OwnTrig,       \* trigger id -1, what ue_add puts in meas[0]
    Ui             \* is there a user interface (no --hl)?

ASSUME ReportAssumption ==
    /\ UEMax \in Nat \ {0}
    /\ MeasMax \in Nat \ {0}
    /\ 0 \notin Rntis
    /\ Freq0 \in Freqs
    /\ NoFreq \notin Freqs
    /\ NoTrig \notin Trigs
    /\ OwnTrig \notin Trigs
    /\ OwnTrig # NoTrig
    /\ Ui \in BOOLEAN

NoRnti == 0        \* UE_RNTI_INVALID

Slots == 0 .. UEMax - 1
MSlots == 0 .. MeasMax - 1

VARIABLES
    ues,           \* the rnti of each slot of sim_ues
    meas,          \* meas[i][j]: the trigger, frequency and dirty flag of
                   \* sim_ues[i].meas[j]; history: the rnti the trigger was
                   \* asked for, and whether the slot changed hands before
                   \* the agent wrote to it (strayed)
    dirty,         \* sim_ue_dirty
    rep,           \* sim_UE_rep_trigger
    main,          \* where the main loop is, and its i and j there
    agent,         \* what wrap_ue_measure is about to store, if anything
    up,            \* em_is_connected
    live,          \* the triggers the agent holds (em_has_trigger)
    owed,          \* history: has the list been made dirty since it was last
                   \* copied into a report that was sent?
    missed         \* history: since then, was it made dirty between a report
                   \* and the reset of the flag, or did a report fail?

threads == <<main, agent>>
link == <<up, live>>
history == <<owed, missed>>
vars == <<ues, meas, dirty, rep, threads, link, history>>

Meas == [tri : Trigs \cup {NoTrig, OwnTrig}, freq : Freqs \cup {NoFreq},
         dirty : BOOLEAN, rnti : Rntis \cup {NoRnti}, strayed : BOOLEAN]
NoMeas == [tri |-> NoTrig, freq |-> NoFreq, dirty |-> FALSE,
           rnti |-> NoRnti, strayed |-> FALSE]

(* "top", between ue_compute of one turn and of the next; "clear", the     *)
(* list is sent, or could not be, and is still dirty; "meas",              *)
(* ue_compute_measurements at slot i, j; "sent", its report is sent, or    *)
(* could not be, and it is still dirty; "clean", its trigger was found     *)
(* gone.  What the program does next does not depend on whether a report   *)
(* went out: it does not look.                                             *)
At(where, i, j) == [at |-> where, i |-> i, j |-> j]
Main == [at : {"top", "clear", "meas", "sent", "clean"}, i : Slots, j : MSlots]

(* "lost": the slot has changed hands since the agent found it. *)
Idle == [at |-> "idle", i |-> 0, j |-> 0, tri |-> NoTrig, freq |-> NoFreq, rnti |-> NoRnti]
Agent == {Idle} \cup
    [at : {"store", "lost"}, i : Slots, j : MSlots,
     tri : Trigs, freq : Freqs, rnti : Rntis \cup {NoRnti}]

TypeOK ==
    /\ ues \in [Slots -> Rntis \cup {NoRnti}]
    /\ meas \in [Slots -> [MSlots -> Meas]]
    /\ dirty \in BOOLEAN
    /\ rep \in Trigs \cup {NoTrig}
    /\ main \in Main
    /\ agent \in Agent
    /\ up \in BOOLEAN
    /\ live \subseteq Trigs
    /\ owed \in BOOLEAN
    /\ missed \in BOOLEAN

(* No UE yet: the first loud attach stands for a line of the scenario, too.*)
Init ==
    /\ ues = [i \in Slots |-> NoRnti]
    /\ meas = [i \in Slots |-> [j \in MSlots |-> NoMeas]]
    /\ dirty = FALSE
    /\ rep = NoTrig
    /\ main = At("top", 0, 0)
    /\ agent = Idle
    /\ up = FALSE
    /\ live = {}
    /\ owed = FALSE
    /\ missed = FALSE

-----------------------------------------------------------------------------
(* UEs come and go. *)

FreeSlots == {i \in Slots : ues[i] = NoRnti}

(* meas of a slot after ue_add, which clears it and prepares the first     *)
(* measurement, and after ue_rem, which leaves all but the ids behind.     *)
NewMeas == [j \in MSlots |->
    IF j = 0
    THEN [NoMeas EXCEPT !.tri = OwnTrig, !.freq = Freq0, !.dirty = TRUE]
    ELSE NoMeas]
OldMeas(m) == [j \in MSlots |->
    [m[j] EXCEPT !.tri = NoTrig, !.rnti = NoRnti, !.strayed = FALSE]]

(* A change of slot i that makes the list dirty if it is loud. *)
Touch(i, loud) ==
    /\ dirty' = (dirty \/ loud)
    /\ owed' = (owed \/ loud)
    /\ missed' = (missed \/ (loud /\ main.at = "clear"))
    /\ agent' = IF agent # Idle /\ agent.i = i THEN [agent EXCEPT !.at = "lost"] ELSE agent

(* ue_add, with an RNTI no UE has. *)
Attach(r, loud) ==
    /\ FreeSlots # {}
    /\ \A i \in Slots : ues[i] # r
    /\ LET f == Min(FreeSlots)
       IN  /\ ues' = [ues EXCEPT ![f] = r]
           /\ meas' = [meas EXCEPT ![f] = NewMeas]
           /\ Touch(f, loud)
    /\ UNCHANGED <<rep, main, link>>

(* Mutant of Detach: the triggers stay where they are. *)
DetachKeepsSlots(r, loud) ==
    LET i == Min({k \in Slots : ues[k] = r})
    IN  /\ ues' = [ues EXCEPT ![i] = NoRnti]
        /\ UNCHANGED <<meas, live>>
        /\ Touch(i, loud)
        /\ UNCHANGED <<rep, main, up>>

(* ue_rem of the first slot that holds r, a free one for RNTI 0. *)
Detach(r, loud) ==
    LET i == Min({k \in Slots : ues[k] = r})
    IN  /\ ues' = [ues EXCEPT ![i] = NoRnti]
        /\ meas' = [meas EXCEPT ![i] = OldMeas(@)]
        /\ live' = live \ {meas[i][j].tri : j \in MSlots}
        /\ Touch(i, loud)
        /\ UNCHANGED <<rep, main, up>>

(* The add mask and key 'r' of the UE screen (r is what the slot under the *)
(* cursor holds by now), and the handover mask of the eNB screen.          *)
OperatorAdd == Ui /\ \E r \in Rntis : Attach(r, TRUE)
OperatorRemove == Ui /\ \E i \in Slots : Detach(ues[i], TRUE)
OperatorHandover == Ui /\ \E i \in Slots \ FreeSlots : Detach(ues[i], FALSE)

(* The keys that change a signal level of the UE under the cursor. *)
OperatorSignal ==
    /\ Ui
    /\ \E i \in Slots : meas' = [meas EXCEPT ![i][0].dirty = TRUE]
    /\ UNCHANGED <<ues, dirty, rep, threads, link, history>>

-----------------------------------------------------------------------------
(* The agent: its link to the controller and the callbacks. *)

Connect ==
    /\ ~up
    /\ up' = TRUE
    /\ UNCHANGED <<ues, meas, dirty, rep, threads, live, history>>

(* wrap_disconnected; the agent forgets its triggers. *)
Disconnect ==
    /\ agent = Idle
    /\ up
    /\ up' = FALSE
    /\ live' = {}
    /\ rep' = NoTrig
    /\ meas' = [i \in Slots |-> OldMeas(meas[i])]
    /\ UNCHANGED <<ues, dirty, threads, history>>

(* The controller takes a request back. *)
CancelTrigger(t) ==
    /\ agent = Idle
    /\ up
    /\ t \in live
    /\ live' = live \ {t}
    /\ UNCHANGED <<ues, meas, dirty, rep, threads, up, history>>

(* A trigger id nobody remembers is as good as one never handed out. *)
Fresh(t) ==
    /\ t \notin live \cup {rep, agent.tri}
    /\ \A i \in Slots, j \in MSlots : meas[i][j].tri # t

(* wrap_ue_report. *)
ReportRequest(t) ==
    /\ agent = Idle
    /\ up
    /\ Fresh(t)
    /\ live' = live \cup {t}
    /\ rep' = t
    /\ dirty' = TRUE
    /\ owed' = TRUE
    /\ missed' = (missed \/ main.at = "clear")
    /\ UNCHANGED <<ues, meas, threads, up>>

(* wrap_handover, the UE being found and sent (X2Handover). *)
ControllerHandover ==
    /\ agent = Idle
    /\ up
    /\ \E i \in Slots \ FreeSlots : Detach(ues[i], FALSE)

FreeMeas(i) == {j \in MSlots : meas[i][j].tri = NoTrig}

(* Mutant of MeasureRequest: no "Too many active measurements". *)
MeasureRequestUnbounded(t, r, f) ==
    /\ agent = Idle
    /\ up
    /\ Fresh(t)
    /\ \E i \in Slots : ues[i] = r
    /\ LET i == Min({k \in Slots : ues[k] = r})
       IN  agent' = [at |-> "store", i |-> i, j |-> Min(FreeMeas(i) \cup {MeasMax}),
                     tri |-> t, freq |-> f, rnti |-> r]
    /\ live' = live \cup {t}
    /\ UNCHANGED <<ues, meas, dirty, rep, main, up, history>>

(* wrap_ue_measure finds the UE, a free slot for RNTI 0, and a measurement *)
(* slot of it.  When there is none it reports a failure and stores nothing.*)
MeasureRequest(t, r, f) ==
    /\ agent = Idle
    /\ up
    /\ Fresh(t)
    /\ \E i \in Slots : ues[i] = r
    /\ LET i == Min({k \in Slots : ues[k] = r})
       IN  /\ FreeMeas(i) # {}
           /\ agent' = [at |-> "store", i |-> i, j |-> Min(FreeMeas(i)),
                         tri |-> t, freq |-> f, rnti |-> r]
    /\ live' = live \cup {t}
    /\ UNCHANGED <<ues, meas, dirty, rep, main, up, history>>

(* It then stores the request: into the slot that has the frequency, one   *)
(* that another request or an earlier UE measurement used included, which  *)
(* makes it dirty; else into the one found, which stays as dirty as it is. *)
MeasureStore ==
    /\ agent # Idle
    /\ LET same == {k \in MSlots : meas[agent.i][k].freq = agent.freq}
           j == IF same = {} THEN agent.j ELSE Min(same)
       IN  meas' = [meas EXCEPT ![agent.i][j] =
                       [tri |-> agent.tri, freq |-> agent.freq,
                        dirty |-> same # {} \/ @.dirty,
                        rnti |-> agent.rnti,
                        strayed |-> agent.at = "lost" /\ ues[agent.i] # agent.rnti]]
    /\ agent' = Idle
    /\ UNCHANGED <<ues, dirty, rep, main, link, history>>

-----------------------------------------------------------------------------
(* The main loop. *)

(* Whether ue_compute goes on to the measurements, stops at a list nobody  *)
(* wants or reports it.                                                    *)
Route ==
    CASE ~up                            -> "top"
      [] up /\ ~dirty                   -> "meas"
      [] up /\ dirty /\ rep \notin live -> "top"
      [] up /\ dirty /\ rep \in live    -> "clear"

(* What becomes of the list: sent, the changes are told; not formatted or  *)
(* not sent, they are still owed, and the flag goes down all the same.     *)
Sent == owed' = FALSE /\ missed' = FALSE
Failed == owed' = owed /\ missed' = TRUE

(* Mutant of BeginTurn: a list nobody wants is clean again. *)
BeginTurnDrops ==
    /\ main.at = "top"
    /\ meas' = IF ues[0] = NoRnti THEN meas ELSE [meas EXCEPT ![0][0].dirty = TRUE]
    /\ main' = At(Route, 0, 0)
    /\ IF Route = "clear" THEN Sent \/ Failed ELSE UNCHANGED history
    /\ dirty' = (dirty /\ Route = "clear")
    /\ UNCHANGED <<ues, rep, agent, link>>

(* A turn: the signal of the UE in slot 0 swings; ue_compute does nothing  *)
(* without a controller; a dirty list goes out when its trigger is there,  *)
(* and when it is not ue_compute is over, the measurements included.       *)
BeginTurn ==
    /\ main.at = "top"
    /\ meas' = IF ues[0] = NoRnti THEN meas ELSE [meas EXCEPT ![0][0].dirty = TRUE]
    /\ main' = At(Route, 0, 0)
    /\ IF Route = "clear" THEN Sent \/ Failed ELSE UNCHANGED history
    /\ UNCHANGED <<ues, dirty, rep, agent, link>>

(* Mutant of NoDirtyAnymore: the flag stays. *)
StillDirty ==
    /\ main.at = "clear"
    /\ main' = At(IF up THEN "meas" ELSE "top", 0, 0)
    /\ UNCHANGED <<ues, meas, dirty, rep, agent, link, history>>

(* "No dirty anymore", whatever became of the report, and on to            *)
(* ue_compute_measurements.                                                *)
NoDirtyAnymore ==
    /\ main.at = "clear"
    /\ dirty' = FALSE
    /\ main' = At(IF up THEN "meas" ELSE "top", 0, 0)
    /\ UNCHANGED <<ues, meas, rep, agent, link, history>>

(* The next measurement slot, of this UE or of the next one. *)
Onward(m) ==
    CASE m.j < MeasMax - 1                   -> At("meas", m.i, m.j + 1)
      [] m.j = MeasMax - 1 /\ m.i < UEMax - 1 -> At("meas", m.i + 1, 0)
      [] m.j = MeasMax - 1 /\ m.i = UEMax - 1 -> At("top", 0, 0)

Here == meas[main.i][main.j]

(* Mutant of Measure: one report is enough for a turn. *)
MeasureFirst ==
    /\ main.at = "meas"
    /\ \/ /\ ues[main.i] = NoRnti \/ Here.tri = NoTrig \/ (Here.tri \in live /\ ~Here.dirty)
          /\ main' = Onward(main)
       \/ /\ ues[main.i] # NoRnti /\ Here.tri \in live /\ Here.dirty
          /\ main' = At("sent", 0, 0)
       \/ /\ ues[main.i] # NoRnti /\ Here.tri \notin live \cup {NoTrig}
          /\ main' = [main EXCEPT !.at = "clean"]
    /\ UNCHANGED <<ues, meas, dirty, rep, agent, link, history>>

(* One measurement slot: nothing to do or nothing new to say; a report,    *)
(* sent or not; or a trigger that is gone.                                 *)
Measure ==
    /\ main.at = "meas"
    /\ \/ /\ ues[main.i] = NoRnti \/ Here.tri = NoTrig \/ (Here.tri \in live /\ ~Here.dirty)
          /\ main' = Onward(main)
       \/ /\ ues[main.i] # NoRnti /\ Here.tri \in live /\ Here.dirty
          /\ main' = [main EXCEPT !.at = "sent"]
       \/ /\ ues[main.i] # NoRnti /\ Here.tri \notin live \cup {NoTrig}
          /\ main' = [main EXCEPT !.at = "clean"]
    /\ UNCHANGED <<ues, meas, dirty, rep, agent, link, history>>

(* The flag goes down, after a report that could not be sent, too.         *)
MeasureSent ==
    /\ main.at = "sent"
    /\ meas' = [meas EXCEPT ![main.i][main.j].dirty = FALSE]
    /\ main' = Onward(main)
    /\ UNCHANGED <<ues, dirty, rep, agent, link, history>>

(* "Trigger removed; clean up". *)
MeasureClean ==
    /\ main.at = "clean"
    /\ meas' = [meas EXCEPT ![main.i][main.j].tri = NoTrig,
                            ![main.i][main.j].dirty = FALSE,
                            ![main.i][main.j].rnti = NoRnti,
                            ![main.i][main.j].strayed = FALSE]
    /\ main' = Onward(main)
    /\ UNCHANGED <<ues, dirty, rep, agent, link, history>>

(* x2_compute, later in the turn: UEs handed over to this eNB are added. *)
HandoverIn ==
    /\ main.at = "top"
    /\ \E r \in Rntis : Attach(r, FALSE)

MainStep ==
    \/ BeginTurn
    \/ NoDirtyAnymore
    \/ Measure
    \/ MeasureSent
    \/ MeasureClean

Next ==
    \/ MainStep
    \/ HandoverIn
    \/ OperatorAdd
    \/ OperatorRemove
    \/ OperatorHandover
    \/ OperatorSignal
    \/ Connect
    \/ Disconnect
    \/ \E t \in Trigs :
          \/ CancelTrigger(t)
          \/ ReportRequest(t)
          \/ \E r \in Rntis \cup {NoRnti}, f \in Freqs : MeasureRequest(t, r, f)
    \/ ControllerHandover
    \/ MeasureStore

Spec == Init /\ [][Next]_vars

(* The main loop turns until the program is told to stop. *)
FairSpec == Spec /\ WF_vars(MainStep)

-----------------------------------------------------------------------------
(* Properties. *)

(* "If the UEs simulated are marked as dirty, the system will report to    *)
(* the controller" (ue.c:314): a change that made the list dirty is either *)
(* still dirty or in a report that was sent, and there are two ways to     *)
(* lose one: another thread's change falls between a report and the reset  *)
(* of the flag, or the report fails, though "Failures keeps the flag       *)
(* dirty" (ue.c:359).                                                      *)
ListReported ==
    owed => dirty \/ missed

(* The triggers a UE carries were asked for that UE: RNTIs and slots are   *)
(* given to other UEs, requests are superseded and cancelled, and a        *)
(* measurement never ends up with another subscriber, except when its slot *)
(* had changed hands by the time wrap_ue_measure wrote to it.              *)
MeasureAtItsUE ==
    \A i \in Slots, j \in MSlots :
        meas[i][j].tri \in live => meas[i][j].rnti = ues[i] \/ meas[i][j].strayed

(* A list the controller waits for is worked on again and again, whatever  *)
(* the other threads do to its flag meanwhile: the flag goes down, with    *)
(* the report sent or failed.                                              *)
ListServed ==
    []<>(dirty => ~up \/ rep \notin live)

(* A measurement that changed and is asked for. *)
Due(i, j) == ues[i] # NoRnti /\ meas[i][j].tri \in live /\ meas[i][j].dirty

(* Every such measurement has its turn again and again, no matter how busy *)
(* the others are, while the UE list is wanted or has not changed.         *)
MeasuresServed ==
    \A i \in Slots, j \in MSlots :
        []<>(Due(i, j) => ~up \/ (dirty /\ rep \notin live))

(* iface_enb.c:97 says of the dirty flag of a measurement, "This trigger   *)
(* an update for the controller".                                          *)
UpdatesTriggered ==
    \A i \in Slots, j \in MSlots : []<>(Due(i, j) => ~up)

=============================================================================
