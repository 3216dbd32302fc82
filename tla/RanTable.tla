------------------------------- MODULE RanTable -------------------------------
(***************************************************************************)
(* The user table of RAN sharing, sim_ran.users, and what ran_add_user,    *)
(* ran_rem_user and ran_bootstrap (stack/ran.c) compute on it, as          *)
(* operators of a table value.  UETable says who calls them, MacSched what *)
(* the scheduler does with the table.                                      *)
(*                                                                         *)
(* Every caller that is compiled in names the slice RAN_SLICE_DEFAULT or   *)
(* none, so of an em_ran_user the model keeps the RNTI: slice[0] is        *)
(* RAN_SLICE_DEFAULT exactly when the RNTI is not 0.                       *)
(***************************************************************************)
EXTENDS UESlots

CONSTANT RanMax    \* RAN_USER_MAX, the number of slots of sim_ran.users

ASSUME RanAssumption == RanMax \in 1 .. UEMax

RanSlots == 0 .. RanMax - 1

RanFree(u) == {j \in RanSlots : u[j] = NoRnti}
RanHolding(u, rnti) == {j \in RanSlots : u[j] = rnti}

(* Mutant of RanAddUser: with no slot free the first user makes room. *)
RanAddUserEvicts(u, rnti) ==
    IF RanHolding(u, rnti) # {} THEN u
    ELSE IF RanFree(u) = {} THEN [u EXCEPT ![0] = rnti]
    ELSE [u EXCEPT ![Min(RanFree(u))] = rnti]

(* ran_add_user(rnti, RAN_SLICE_DEFAULT): a user already there keeps its   *)
(* slot; when none is free ERR_RAN_ADD_FULL comes back and ue_add ignores  *)
(* it.                                                                     *)
RanAddUser(u, rnti) ==
    IF RanHolding(u, rnti) # {} \/ RanFree(u) = {}
    THEN u
    ELSE [u EXCEPT ![Min(RanFree(u))] = rnti]

(* ran_rem_user(rnti, 0): no slice given, so the whole user goes. *)
RanRemUser(u, rnti) ==
    IF RanHolding(u, rnti) = {}
    THEN u
    ELSE [u EXCEPT ![Min(RanHolding(u, rnti))] = NoRnti]

(* ran_bootstrap: the active UEs among the first RAN_USER_MAX slots of     *)
(* sim_ues, in order, from user slot 0 on.                                 *)
RanBootstrap(t) ==
    LET seen == ActiveSlots(t) \cap RanSlots
        rank(i) == Cardinality({k \in seen : k < i})
    IN  [j \in RanSlots |->
            IF \E i \in seen : rank(i) = j
            THEN t[CHOOSE i \in seen : rank(i) = j].rnti
            ELSE NoRnti]

=============================================================================
