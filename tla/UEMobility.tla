----------------------------- MODULE UEMobility ------------------------------
(***************************************************************************)
(* What a handover does to a subscriber, seen from outside the eNBs: it is *)
(* at one eNB, or on its way from one to another, or gone.  It leaves only *)
(* where it is, arrives only where it was sent, and is lost only on the    *)
(* way.  X2Handover implements this specification in a headless network    *)
(* that does not duplicate datagrams.                                      *)
(***************************************************************************)
CONSTANTS
    Subscribers,
    Stations       \* the eNBs

VARIABLE
    place          \* place[s]: <<e>>, at e; <<e, f>>, sent from e to f;
                   \* <<>>, gone

Gone == <<>>

Depart(s, e, f) ==
    /\ place[s] = <<e>>
    /\ place' = [place EXCEPT ![s] = <<e, f>>]

Arrive(s, e, f) ==
    /\ place[s] = <<e, f>>
    /\ place' = [place EXCEPT ![s] = <<f>>]

Vanish(s, e, f) ==
    /\ place[s] = <<e, f>>
    /\ place' = [place EXCEPT ![s] = Gone]

Init == place \in [Subscribers -> {<<e>> : e \in Stations}]

Next ==
    \E s \in Subscribers, e \in Stations, f \in Stations :
        Depart(s, e, f) \/ Arrive(s, e, f) \/ Vanish(s, e, f)

Spec == Init /\ [][Next]_place

=============================================================================
