------------------------------ MODULE UEReportMC -----------------------------
(***************************************************************************)
(* UEReport on small tables.  With two UEs of one measurement each, slot 0 *)
(* takes part in the swinging signal and slot 1 does not; a request can    *)
(* find the measurement slot taken, supersede an earlier request or come   *)
(* after its cancellation; an RNTI is given to another UE while the main   *)
(* loop or the agent is busy with the one before.                          *)
(***************************************************************************)
EXTENDS UEReport, TLC

=============================================================================
