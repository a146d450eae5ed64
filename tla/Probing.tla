------------------------------ MODULE Probing ------------------------------
(***************************************************************************)
(* Time: the prober of a peer, the network, and a node that judges its     *)
(* slots by what arrives over them.  What a node learns of its paths comes *)
(* from the peer alone, so the two directions of an overlay are two copies *)
(* of this module; that a path carries nothing the other way is never      *)
(* noticed (plane.cpp:244).                                                *)
(*                                                                         *)
(* Time passes in units for all together (Tick).  A call that may take a   *)
(* while has a deadline past which time does not pass.  Times are kept     *)
(* relative, as ages, and stop counting where nothing depends on them.     *)
(***************************************************************************)
EXTENDS Integers

CONSTANTS
    N,          \* slots of all Conns of the peer: its prober visits them in turn
    Slots,      \* those of the Conn to the node, a path each
    IntervalMs, \* [probe] interval_ms of the peer
    USeconds,   \* useconds_t holds fewer milliseconds than this
    Late,       \* usleep returns this much late at most
    Block,      \* a sendto waits this long at most for room in the send buffer
    Delay,      \* a datagram takes this long at most, receive queue included
    Walk,       \* a tunReader sends a packet this long after reading the clock at most
    Timeout     \* [probe] timeout_ms of the node

ASSUME ProbingAssumption ==
    /\ N \in Nat /\ Slots \subseteq 1 .. N /\ Slots # {} /\ USeconds \in Nat \ {0}
    /\ IntervalMs \in Nat /\ Late \in Nat /\ Block \in Nat
    /\ Delay \in Nat /\ Walk \in Nat /\ Timeout \in Nat

VARIABLES
    peerUp,     \* the peer runs
    at,         \* its prober: the slot of the sendto, N + 1 in usleep
    wait,       \* how long it has been in that call
    up,         \* the path takes datagrams from the peer to the node
    net,        \* datagrams on the way over each path, as times since sent
    age,        \* clock - ConnSlot::lastSeen of every slot of the node
    tx,         \* a tunReader of the node: it reads, scans the slots, or sends
    since,      \* clock - now, the time it has read
    base, left, \* Conn::next: the slot it starts at, the slots not looked at yet
    slot,       \* the slot it has returned
    good,       \* history: how long the path has been up with the peer running
    bad         \* history: how long the path or the peer has been down, of the time
                \* before the node was started no more than a datagram takes

proberVars == <<peerUp, at, wait>>
pathVars == <<up, net, good, bad>>
txVars == <<tx, since, base, left, slot>>
nodeVars == <<age, txVars>>
vars == <<proberVars, pathVars, nodeVars>>

\* (useconds_t)(intervalMs * 1000)
Sleep == IntervalMs % USeconds

\* The longest time between two probes over one path.
Gap == N * Block + IntervalMs + Late

\* A slot is alive at this moment.
Alive(p) == age[p] <= Timeout

\* now - ls <= timeoutMs on u64: a slot stamped after now was read wraps around.
AliveFor(p) == age[p] - since \in 0 .. Timeout

AgeCap == Timeout + Walk + 1
GoodCap == Gap + Delay + Walk + 1
BadCap == Timeout + Delay + Walk + 1
Older(x, cap) == IF x < cap THEN x + 1 ELSE x

\* A time ago the path had been working, or not, for as long as it takes to notice.
LongGood(p, ago) == good[p] > Gap + Delay + ago
LongBad(p, ago) == bad[p] > Timeout + Delay + ago

(* Types: ages and deadlines are kept.                                     *)
TypeOK ==
    /\ peerUp \in BOOLEAN /\ up \in [Slots -> BOOLEAN]
    /\ at \in 1 .. N + 1
    /\ wait \in 0 .. (IF at = N + 1 THEN Sleep + Late ELSE Block)
    /\ net \in [Slots -> SUBSET (0 .. Delay)]
    /\ age \in [Slots -> 0 .. AgeCap]
    /\ good \in [Slots -> 0 .. GoodCap] /\ bad \in [Slots -> 0 .. BadCap]
    /\ tx \in {"read", "scan", "send"} /\ since \in 0 .. Walk
    /\ base \in Slots /\ left \subseteq Slots /\ slot \in Slots

\* What a tunReader keeps in locals is gone when it reads the next packet.
AnySlot == CHOOSE p \in Slots : TRUE
ReadsNext ==
    tx' = "read" /\ since' = 0 /\ base' = AnySlot /\ left' = {} /\ slot' = AnySlot

Init ==
    /\ peerUp = TRUE /\ at = 1 /\ wait = 0
    /\ up = [p \in Slots |-> TRUE]
    /\ net = [p \in Slots |-> {}]
    /\ age = [p \in Slots |-> 0]
    /\ good = [p \in Slots |-> 0] /\ bad = [p \in Slots |-> 0]
    /\ tx = "read" /\ since = 0 /\ base = AnySlot /\ left = {} /\ slot = AnySlot

-----------------------------------------------------------------------------
(* Time.                                                                   *)

\* No call and no datagram is past its deadline.
MayPass ==
    /\ peerUp => wait < IF at = N + 1 THEN Sleep + Late ELSE Block
    /\ \A p \in Slots : Delay \notin net[p]
    /\ tx # "read" => since < Walk

Works(p) == peerUp /\ up[p]

Tick ==
    /\ MayPass
    /\ wait' = IF peerUp THEN wait + 1 ELSE wait
    /\ net' = [p \in Slots |-> {t + 1 : t \in net[p]}]
    /\ age' = [p \in Slots |-> Older(age[p], AgeCap)]
    /\ since' = IF tx = "read" THEN since ELSE since + 1
    /\ good' = [p \in Slots |-> IF Works(p) THEN Older(good[p], GoodCap) ELSE 0]
    /\ bad' = [p \in Slots |-> IF Works(p) THEN 0 ELSE Older(bad[p], BadCap)]
    /\ UNCHANGED <<peerUp, at, up, tx, base, left, slot>>

-----------------------------------------------------------------------------
(* The peer.                                                               *)

\* What a datagram sent over p adds to the paths of the node: nothing when p is
\* down, or leads to somebody else.
Sent(p) == [q \in Slots |-> IF q = p /\ up[q] THEN net[q] \cup {0} ELSE net[q]]

\* Fault: the round starts at the second slot.
FirstSlotSecond == IF N > 1 THEN 2 ELSE 1

FirstSlot == 1

\* sendto returns: the probe of one slot, the slots in turn.
SendProbe ==
    /\ peerUp /\ at <= N
    /\ net' = Sent(at)
    /\ at' = at + 1
    /\ wait' = 0
    /\ UNCHANGED <<peerUp, up, good, bad, nodeVars>>

\* usleep returns.
WakeUp ==
    /\ peerUp /\ at = N + 1 /\ wait >= Sleep
    /\ at' = FirstSlot
    /\ wait' = 0
    /\ UNCHANGED <<peerUp, pathVars, nodeVars>>

\* Data of the peer is evidence as well.
PeerSends(p) ==
    /\ peerUp
    /\ net' = Sent(p)
    /\ UNCHANGED <<proberVars, up, good, bad, nodeVars>>

PeerStops ==
    /\ peerUp
    /\ peerUp' = FALSE
    /\ at' = 1 /\ wait' = 0
    /\ good' = [p \in Slots |-> 0]
    /\ UNCHANGED <<up, net, bad, nodeVars>>

\* The prober of the new process starts with the first slot.
PeerStarts ==
    /\ ~peerUp
    /\ peerUp' = TRUE
    /\ bad' = [p \in Slots |-> IF up[p] THEN 0 ELSE bad[p]]
    /\ UNCHANGED <<at, wait, up, net, good, nodeVars>>

-----------------------------------------------------------------------------
(* The network.                                                            *)

\* A cable is pulled or plugged in.
PathChanges(p) ==
    /\ up' = [up EXCEPT ![p] = ~up[p]]
    /\ good' = [good EXCEPT ![p] = 0]
    /\ bad' = [bad EXCEPT ![p] = IF ~up[p] /\ peerUp THEN 0 ELSE @]
    /\ UNCHANGED <<proberVars, net, nodeVars>>

\* What is on the way over a path that is down may be lost, or arrive.
Lose(p, t) ==
    /\ ~up[p] /\ t \in net[p]
    /\ net' = [net EXCEPT ![p] = @ \ {t}]
    /\ UNCHANGED <<proberVars, up, good, bad, nodeVars>>

-----------------------------------------------------------------------------
(* The node.                                                               *)

\* udpReader stamps the slot with the time it read for the batch: after the datagram
\* was sent, and not before the batch it stamped the slot for last.
Arrive(p, t) ==
    /\ t \in net[p]
    /\ net' = [net EXCEPT ![p] = @ \ {t}]
    /\ \E a \in 0 .. t : a <= age[p] /\ age' = [age EXCEPT ![p] = a]
    /\ UNCHANGED <<proberVars, up, good, bad, txVars>>

\* sendOne and sendUso: the clock is read once for all parts of a packet.  rr_ may
\* be anywhere.
TakePacket(b) ==
    /\ tx = "read"
    /\ tx' = "scan" /\ since' = 0 /\ base' = b /\ left' = Slots
    /\ UNCHANGED <<proberVars, pathVars, age, slot>>

\* Fault: the slot the walk started at is returned, alive or not.
PickedBase(p) == base

\* The slot returned by the loop.
Picked(p) == p

\* Where the loop looks: first at the base, then at the others.
MayLook(p) == p \in left /\ (left = Slots => p = base)

Returns(p) == tx' = "send" /\ slot' = p /\ base' = AnySlot /\ left' = {}

\* One round of the loop of Conn::next, an atomic load of one lastSeen.  With no
\* slot left next returns the base.
Look(p) ==
    /\ tx = "scan" /\ MayLook(p)
    /\ \/ AliveFor(p) /\ Returns(Picked(p))
       \/ ~AliveFor(p) /\ left = {p} /\ Returns(base)
       \/ ~AliveFor(p) /\ left # {p} /\ left' = left \ {p} /\ UNCHANGED <<tx, base, slot>>
    /\ UNCHANGED <<proberVars, pathVars, age, since>>

\* Fault: a sendto that succeeds counts as a sign of life.
AgeOnSendStamped(p) == [age EXCEPT ![p] = 0]

\* To send says nothing about the path.
AgeOnSend(p) == age

\* Data of the node goes over the slot that next has returned, and the walk for the
\* next part of the packet begins, or the packet is done.
NodeSends ==
    /\ tx = "send"
    /\ age' = AgeOnSend(slot)
    /\ \/ tx' = "scan" /\ base' \in Slots /\ left' = Slots /\ slot' = AnySlot /\ since' = since
       \/ ReadsNext
    /\ UNCHANGED <<proberVars, pathVars>>

\* ConnSlot::lastSeen is startMs.
StartAge == 0

\* A new process of the node; what was on the way is in its socket or lost.
NodeRestarts ==
    /\ age' = [p \in Slots |-> StartAge]
    /\ net' \in {net, [p \in Slots |-> {}]}
    /\ ReadsNext
    /\ bad' = [p \in Slots |-> IF bad[p] < Delay THEN bad[p] ELSE Delay]
    /\ UNCHANGED <<proberVars, up, good>>

-----------------------------------------------------------------------------

Next ==
    \/ Tick
    \/ SendProbe \/ WakeUp \/ PeerStops \/ PeerStarts
    \/ NodeRestarts \/ NodeSends
    \/ \E p \in Slots :
         \/ PeerSends(p) \/ PathChanges(p) \/ TakePacket(p) \/ Look(p)
         \/ \E t \in net[p] : Lose(p, t) \/ Arrive(p, t)

Spec == Init /\ [][Next]_vars

-----------------------------------------------------------------------------
(* Properties.                                                             *)

\* The timeout covers a round of the prober and the way of its datagram; what
\* the code does not check (config.cpp:91).
TimeoutCovers == Timeout >= Gap + Delay

\* A path that works is not given up: with no traffic, with sendto waiting for
\* each socket in turn (plane.cpp:313), usleep late and any interval, a slot is
\* alive once its path has worked for a round and the way of a datagram.
NoFlap ==
    TimeoutCovers => \A p \in Slots : LongGood(p, 0) => Alive(p)

\* A path that does not work is given up: no datagram that was under way, and no
\* restart of the node (conn.cpp:125), keeps a slot alive for longer than the
\* timeout and the way of a datagram.
GivenUp == \A p \in Slots : LongBad(p, 0) => ~Alive(p)

\* Data goes over a path that was long down when the packet was taken only if every
\* path that had long been working was stamped meanwhile: then now - ls wraps around
\* for all of them (conn.cpp:85) and next falls back to the base.  With no traffic
\* but the packet itself, a cable costs no more than the timeout and the way of a
\* datagram.
Failover ==
    TimeoutCovers /\ tx = "send" /\ LongBad(slot, since) =>
        \A q \in Slots : LongGood(q, since) => age[q] < since

=============================================================================
