----------------------------- MODULE ListScreen ------------------------------
(***************************************************************************)
(* The selection in a list of the user interface.  The UE screen lists the *)
(* taken slots of sim_ues, the eNB screen those of sim_neighs, and both    *)
(* keep two numbers: the selected row, moved by the keys, and the slot     *)
(* last drawn in that row, which is the one the keys then act on.          *)
(***************************************************************************)
EXTENDS Integers, FiniteSets

(* The row of the list in which slot i of the taken slots is drawn. *)
Row(taken, i) == Cardinality({k \in taken : k <= i})

(* The slot selected after a drawing with row s selected: when the list is *)
(* shorter than that it stays what it was, c.                              *)
Drawn(taken, s, c) ==
    IF \E i \in taken : Row(taken, i) = s
    THEN CHOOSE i \in taken : Row(taken, i) = s
    ELSE c

(* KEY_UP, and what follows a removal; KEY_DOWN stops at the count. *)
Up(s) == IF s > 1 THEN s - 1 ELSE s
Down(s, count) == IF s < count THEN s + 1 ELSE s

=============================================================================
