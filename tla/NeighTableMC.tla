---------------------------- MODULE NeighTableMC -----------------------------
(***************************************************************************)
(* NeighTable with two slots and three eNBs: a caller that is misconfigured*)
(* to use the id of the eNB that keeps the table, 1; one on the same host, *)
(* as simulated eNBs run, at another port; and one with a shorter address  *)
(* text.  In Crossed a short text over the end of a long one is the        *)
(* address of a third eNB.  An eNB that does not call is down.             *)
(***************************************************************************)
EXTENDS NeighTable

Peer(id, pci, ip, port) == [id |-> id, pci |-> pci, ip |-> ip, port |-> port]

Network == {Peer(1, 1, <<1, 1>>, 1), Peer(2, 2, <<1, 1>>, 2), Peer(3, 3, <<2>>, 1)}
Crossed == {Peer(2, 2, <<1, 2>>, 1), Peer(3, 3, <<1>>, 1), Peer(4, 4, <<2>>, 1),
            Peer(5, 5, <<2, 2>>, 1)}

Everybody == Peers
AllButOne == {p \in Peers : p.id # 4}
OnlyOne == {p \in Peers : p.id = 2}

=============================================================================
