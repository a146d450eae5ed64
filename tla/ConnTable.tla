----------------------------- MODULE ConnTable -----------------------------
(***************************************************************************)
(* Every node of an overlay builds its ConnTable from its own [peers]      *)
(* section, then its prober sends a datagram over every slot in turn and   *)
(* its udpReader threads look up the slot an arriving datagram stands for. *)
(*                                                                         *)
(* A peer is [vip, dsts], dsts the sequence of its endpoints; an endpoint  *)
(* is [ip, port].  The sockets of a node are bound to the endpoints of its *)
(* own entry, so a datagram sent over a slot carries the slot's src.       *)
(* The loops of the constructor are steps: k, j, i are its counters, from  *)
(* 1 as the sequences are.                                                 *)
(***************************************************************************)
EXTENDS PeerSection, FiniteSets

CONSTANTS
    Vips,       \* the VIPs of the cluster
    Endpoints,  \* the endpoints of the cluster
    Nodes,      \* the VIPs of the nodes that run
    Configs,    \* the [peers] sections to consider: Nodes -> Seq(peer)
    MaxNet      \* bound: datagrams on the way

ASSUME ConfigsAssumption ==
    /\ Nodes \subseteq Vips
    /\ Configs \subseteq [Nodes -> Seq([vip : Vips, dsts : Seq(Endpoints)])]

\* A section is one that loadConfig has accepted, with one spelling for each VIP.
ASSUME SectionsAssumption == \A c \in Configs : \A n \in Nodes : SectionOk(c[n], n)

\* Endpoints of a cluster differ in their IPs, not in their ports alone.
UniqueIps == \A a, b \in Endpoints : a.ip = b.ip => a = b

\* Section sec gives VIP v the endpoint e.
Lists(sec, v, e) ==
    \E x \in 1 .. Len(sec) : sec[x].vip = v /\ \E a \in 1 .. Len(sec[x].dsts) : sec[x].dsts[a] = e

\* The sections of a cluster's nodes list the same endpoints for the same VIPs, in
\* whatever order, each endpoint once ("the full cluster table", README.md:53).
OneCluster ==
    \A c \in Configs : \A n \in Nodes :
        /\ \A m \in Nodes, v \in Vips, e \in Endpoints : Lists(c[n], v, e) => Lists(c[m], v, e)
        /\ \A x, y \in 1 .. Len(c[n]) :
             \A a \in 1 .. Len(c[n][x].dsts), b \in 1 .. Len(c[n][y].dsts) :
               c[n][x].dsts[a] = c[n][y].dsts[b] => x = y /\ a = b

VARIABLES
    config,     \* the [peers] section of every node
    pc,         \* "build" in the constructor, then "run"
    k, j, i,    \* the counters of the constructor's loops
    allSlots,   \* ConnTableImpl::allSlots_, [src, srcIdx, dst, vip]
    connSlots,  \* slots_ of the Conn under construction, positions in allSlots
    byVip,      \* ConnTableImpl::byVip_: vip -> slots_ of its Conn
    byEntry,    \* ConnTableImpl::byEntry_: entryKey -> position in allSlots
    probe,      \* the slot the prober sends over next
    net,        \* datagrams on the way
    sent,       \* history: every datagram ever sent
    heard       \* history: slots whose lastSeen was stamped by a datagram

buildVars == <<k, j, i, allSlots, connSlots, byVip, byEntry>>
runVars == <<probe, net, sent, heard>>
vars == <<config, pc, buildVars, runVars>>

Peers(n) == config[n]

\* PeerTable::lookup of the node's own VIP; VIPs are unique in a section.
Self(n) == CHOOSE x \in 1 .. Len(Peers(n)) : Peers(n)[x].vip = n

\* self->dst: the endpoints the sockets of the node are bound to.
Srcs(n) == Peers(n)[Self(n)].dsts

\* Fault: the slot is found by peer address alone.
EntryKeyNoSrc(srcIdx, addr) == <<0, addr.ip>>

\* Fault: the endpoint of the peer does not count, only the socket.
EntryKeyNoDst(srcIdx, addr) == <<srcIdx, 0>>

\* entryKey: srcIdx and the IP of the peer's endpoint, not its port.
EntryKey(srcIdx, addr) == <<srcIdx, addr.ip>>

\* IntMap::insert.  Whether a key that is there keeps its value or takes the
\* new one is the library's business: both.
Inserted(f, key, v) ==
    LET added == [x \in DOMAIN f \cup {key} |-> IF x = key THEN v ELSE f[x]]
    IN  IF key \in DOMAIN f THEN {f, added} ELSE {added}

Slot == [src : Endpoints, srcIdx : Nat, dst : Endpoints, vip : Vips]

(* Types: the maps of the table and the prober stay within allSlots_.      *)
TypeOK ==
    /\ config \in Configs
    /\ pc \in [Nodes -> {"build", "run"}]
    /\ allSlots \in [Nodes -> Seq(Slot)]
    /\ \A n \in Nodes :
        /\ k[n] \in 1 .. Len(Peers(n)) + 1
        /\ i[n] \in 1 .. Len(Srcs(n)) /\ j[n] \in Nat \ {0}
        /\ \A x \in DOMAIN byEntry[n] : byEntry[n][x] \in 1 .. Len(allSlots[n])
        /\ \A v \in DOMAIN byVip[n] : byVip[n][v] \in Seq(1 .. Len(allSlots[n]))
        /\ probe[n] \in IF pc[n] = "run" /\ allSlots[n] # <<>> THEN 1 .. Len(allSlots[n]) ELSE {1}
        /\ heard[n] \subseteq 1 .. Len(allSlots[n])
    /\ net \subseteq sent

Init ==
    /\ config \in Configs
    /\ pc = [n \in Nodes |-> "build"]
    /\ k = [n \in Nodes |-> 1]
    /\ j = [n \in Nodes |-> 1]
    /\ i = [n \in Nodes |-> 1]
    /\ allSlots = [n \in Nodes |-> <<>>]
    /\ connSlots = [n \in Nodes |-> <<>>]
    /\ byVip = [n \in Nodes |-> <<>>]
    /\ byEntry = [n \in Nodes |-> <<>>]
    /\ probe = [n \in Nodes |-> 1]
    /\ net = {}
    /\ sent = {}
    /\ heard = [n \in Nodes |-> {}]

-----------------------------------------------------------------------------
(* The constructor of ConnTableImpl.                                       *)

\* `if (p == self) continue`
SkipSelf(n) ==
    /\ pc[n] = "build" /\ k[n] <= Len(Peers(n)) /\ k[n] = Self(n)
    /\ k' = [k EXCEPT ![n] = @ + 1]
    /\ UNCHANGED <<config, pc, j, i, allSlots, connSlots, byVip, byEntry, runVars>>

\* Fault: sockets are the outer loop and endpoints the inner one.
NewSlotSwapped(n, p) ==
    LET M == Len(p.dsts)
        at == (j[n] - 1) * Len(Srcs(n)) + i[n] - 1
    IN  [src |-> Srcs(n)[at \div M + 1], srcIdx |-> at \div M + 1,
         dst |-> p.dsts[(at % M) + 1], vip |-> p.vip]

\* The slot of socket i and endpoint j of peer p.
NewSlot(n, p) ==
    [src |-> Srcs(n)[i[n]], srcIdx |-> i[n], dst |-> p.dsts[j[n]], vip |-> p.vip]

\* A round of the innermost loop; the last one of its peer completes the Conn.
AddSlot(n) ==
    /\ pc[n] = "build" /\ k[n] <= Len(Peers(n)) /\ k[n] # Self(n)
    /\ LET p == Peers(n)[k[n]]
           s == NewSlot(n, p)
           x == Len(allSlots[n]) + 1
           lastSrc == i[n] = Len(Srcs(n))
           last == lastSrc /\ j[n] = Len(p.dsts)
           slots == Append(connSlots[n], x)
       IN  /\ allSlots' = [allSlots EXCEPT ![n] = Append(@, s)]
           /\ \E f \in Inserted(byEntry[n], EntryKey(s.srcIdx, s.dst), x) :
                byEntry' = [byEntry EXCEPT ![n] = f]
           /\ i' = [i EXCEPT ![n] = IF lastSrc THEN 1 ELSE @ + 1]
           /\ j' = [j EXCEPT ![n] = IF last THEN 1 ELSE IF lastSrc THEN @ + 1 ELSE @]
           /\ k' = [k EXCEPT ![n] = IF last THEN @ + 1 ELSE @]
           /\ connSlots' = [connSlots EXCEPT ![n] = IF last THEN <<>> ELSE slots]
           /\ IF last
              THEN \E f \in Inserted(byVip[n], p.vip, slots) : byVip' = [byVip EXCEPT ![n] = f]
              ELSE byVip' = byVip
    /\ UNCHANGED <<config, pc, runVars>>

\* The table is built and main starts the threads.
Built(n) ==
    /\ pc[n] = "build" /\ k[n] > Len(Peers(n))
    /\ pc' = [pc EXCEPT ![n] = "run"]
    /\ UNCHANGED <<config, buildVars, runVars>>

-----------------------------------------------------------------------------
(* The running node.                                                       *)

\* The datagram sendto puts on the wire for slot x.
Datagram(n, x) == [src |-> allSlots[n][x].src, dst |-> allSlots[n][x].dst]

\* The next round of the loop of prober.
NextProbe(n) == IF probe[n] = Len(allSlots[n]) THEN 1 ELSE probe[n] + 1

\* prober: one probe over one slot, the slots in order, again and again.
Probe(n) ==
    /\ pc[n] = "run" /\ allSlots[n] # <<>>
    /\ Cardinality(net) < MaxNet
    /\ net' = net \cup {Datagram(n, probe[n])}
    /\ sent' = sent \cup {Datagram(n, probe[n])}
    /\ probe' = [probe EXCEPT ![n] = NextProbe(n)]
    /\ UNCHANGED <<config, pc, buildVars, heard>>

\* lookupSlot: the slots (one or none) that socket srcIdx and address stand for.
LookupSlot(n, srcIdx, addr) ==
    IF EntryKey(srcIdx, addr) \in DOMAIN byEntry[n]
    THEN {byEntry[n][EntryKey(srcIdx, addr)]} ELSE {}

\* Fault: every udpReader is given the first index.
ReadersFirst(n, d) == {1}

\* The index of the udpReader that reads the socket d is addressed to.
Readers(n, d) == {srcIdx \in 1 .. Len(Srcs(n)) : Srcs(n)[srcIdx] = d.dst}

\* The udpReader of the socket a datagram is addressed to stamps its slot.
Receive(n, d) ==
    /\ pc[n] = "run" /\ d \in net
    /\ \E srcIdx \in Readers(n, d) :
        heard' = [heard EXCEPT ![n] = @ \cup LookupSlot(n, srcIdx, d.src)]
    /\ net' = net \ {d}
    /\ UNCHANGED <<config, pc, buildVars, probe, sent>>

\* The network loses a datagram, or nobody is there to take it.
Lose ==
    /\ \E d \in net : net' = net \ {d}
    /\ UNCHANGED <<config, pc, buildVars, probe, sent, heard>>

Datagrams == [src : Endpoints, dst : Endpoints]

Next ==
    \/ \E n \in Nodes : SkipSelf(n) \/ AddSlot(n) \/ Built(n) \/ Probe(n)
    \/ \E n \in Nodes, d \in net : Receive(n, d)
    \/ Lose

Spec == Init /\ [][Next]_vars

-----------------------------------------------------------------------------
(* Properties.                                                             *)

(* Types are kept, and the slot array of a Conn is the N*M grid of sockets *)
(* and endpoints, with the socket changing fastest: "Slots [j*N + i]" of   *)
(* conn.cpp, whatever peers came before it in the section.                 *)
SlotGrid ==
  /\ TypeOK
  /\ \A n \in Nodes : pc[n] = "run" =>
        \A x \in 1 .. Len(Peers(n)) : x # Self(n) =>
            LET p == Peers(n)[x]
                c == byVip[n][p.vip]
                W == Len(Srcs(n))
            IN  /\ Len(c) = W * Len(p.dsts)
                /\ \A jj \in 1 .. Len(p.dsts), ii \in 1 .. W :
                    allSlots[n][c[(jj - 1) * W + ii]] =
                        [src |-> Srcs(n)[ii], srcIdx |-> ii, dst |-> p.dsts[jj], vip |-> p.vip]

(* "peer's TX slot is symmetric to our TX slot" (conn.h): a slot is only   *)
(* stamped when the peer at the slot's dst has sent to the slot's src,     *)
(* over its own slot for the same pair of endpoints.                       *)
HeardIsReverse ==
    \A n \in Nodes : \A x \in heard[n] :
        [src |-> allSlots[n][x].dst, dst |-> allSlots[n][x].src] \in sent

(* No slot is beyond the reach of probes: when both nodes run, each slot of *)
(* one to the other has a slot there for the same pair of endpoints, whose  *)
(* datagrams lookupSlot takes back to just that slot, in whatever order the *)
(* two sections list the cluster.                                           *)
EverySlotReached ==
    \A n, m \in Nodes : pc[n] = "run" /\ pc[m] = "run" =>
        \A x \in 1 .. Len(allSlots[n]) : allSlots[n][x].vip = m =>
            \E y \in 1 .. Len(allSlots[m]) :
                LET d == Datagram(m, y)
                IN  /\ Srcs(n)[allSlots[n][x].srcIdx] = d.dst
                    /\ LookupSlot(n, allSlots[n][x].srcIdx, d.src) = {x}

=============================================================================
