---------------------------- MODULE MCConnTable ----------------------------
(* Small instances of ConnTable for TLC: nodes 1 and 2 run, node 3 is only  *)
(* in their [peers] sections.  Nodes 1 and 3 have two endpoints each.      *)
EXTENDS ConnTable, SequencesExt

Ep(ip, port) == [ip |-> ip, port |-> port]

\* The sections of one cluster: every order of the entries and of node 1's
\* endpoints, for one endpoint e3 of node 3.
Entries(e3, flip) ==
    {[vip |-> 1, dsts |-> IF flip THEN <<Ep("b", 1), Ep("a", 1)>> ELSE <<Ep("a", 1), Ep("b", 1)>>],
     [vip |-> 2, dsts |-> <<Ep("c", 1)>>],
     [vip |-> 3, dsts |-> <<e3, Ep("e", 1)>>]}

Sections(e3) == UNION {SetToSeqs(Entries(e3, flip)) : flip \in BOOLEAN}

\* Every endpoint has an IP of its own, as in the README.
MCConfigs == [{1, 2} -> Sections(Ep("d", 1))]

\* Node 3 shares the IP of node 2 and has another port.
MCSharedIp == {c \in [{1, 2} -> Sections(Ep("c", 2))] : c[1] = c[2] /\ c[1][1].vip = 1}

MCEndpoints == {Ep(ip, 1) : ip \in {"a", "b", "c", "d", "e"}}
MCSharedEndpoints == {Ep("a", 1), Ep("b", 1), Ep("c", 1), Ep("c", 2), Ep("e", 1)}

\* The sections of both runs are those of one cluster.
ASSUME MCOneCluster == OneCluster
=============================================================================
