----------------------------- MODULE UERegistry -----------------------------
(***************************************************************************)
(* What the UE table of an eNB promises to its callers, with no slots, no  *)
(* counters and no scheduler: a set of attached UEs, each subscriber in it *)
(* at most once and each RNTI given to at most one of them, that changes   *)
(* by one UE at a time; and a flag that stays up from a change the         *)
(* controller has to hear about until the UE list is reported to it.       *)
(* UETable implements this specification.                                  *)
(***************************************************************************)
EXTENDS Integers, FiniteSets

CONSTANTS
    Subscribers,   \* who can attach
    RadioIds,      \* what can identify an attached UE on the air interface
    Capacity       \* how many UEs the eNB can hold

VARIABLES
    attached,      \* the pairs <<subscriber, radio id>>
    news           \* is a change of the list waiting to be reported?

vars == <<attached, news>>

TypeOK ==
    /\ attached \subseteq Subscribers \X RadioIds
    /\ news \in BOOLEAN

Init ==
    /\ attached = {}
    /\ news = FALSE

(* A UE attaches, here or by a handover; loud when the list has to be      *)
(* reported, silent when a handover message tells the controller.          *)
Attach(s, r, loud) ==
    /\ \A u \in attached : u[1] # s /\ u[2] # r
    /\ Cardinality(attached) < Capacity
    /\ attached' = attached \cup {<<s, r>>}
    /\ news' = (news \/ loud)

Detach(u, loud) ==
    /\ attached' = attached \ {u}
    /\ news' = (news \/ loud)

(* A request that names nobody only has the list reported again. *)
Nudge ==
    /\ news' = TRUE
    /\ UNCHANGED attached

Report ==
    /\ news
    /\ news' = FALSE
    /\ UNCHANGED attached

Next ==
    \/ \E s \in Subscribers, r \in RadioIds, loud \in BOOLEAN : Attach(s, r, loud)
    \/ \E u \in attached, loud \in BOOLEAN : Detach(u, loud)
    \/ Nudge
    \/ Report

Spec == Init /\ [][Next]_vars

=============================================================================
