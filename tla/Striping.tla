------------------------------ MODULE Striping ------------------------------
(***************************************************************************)
(* One Conn of a running gofra process and the threads that share it:      *)
(*                                                                         *)
(*   - tunReader threads take packets from the TUN and call Conn::next for *)
(*     every datagram they send (sendOne: one, sendUso: one per part);     *)
(*   - udpReader threads, one per local socket, stamp ConnSlot::lastSeen   *)
(*     with the time of the batch they took from the socket.               *)
(*                                                                         *)
(* Nothing is locked.  Every access to shared memory (rr_, lastSeen) and   *)
(* every reading of the monotonic clock is a step of its own, so a time    *)
(* read by one thread is used after other threads and the clock moved on.  *)
(* Slots are numbered from 0 as in ConnImpl::slots_.                       *)
(***************************************************************************)
EXTENDS Integers, FiniteSets

CONSTANTS
    N,          \* ConnImpl::slots_.length()
    Srcs,       \* indices of the local sockets, one udpReader thread each
    SrcOf,      \* ConnSlot::srcIdx of every slot
    TunReaders, \* the tunReader threads
    Timeout,    \* ConnImpl::timeoutMs_
    StartMs,    \* the clock when the ConnTable was built
    U64,        \* 2^64: unsigned subtraction is modulo U64
    USO_PARTS,  \* most datagrams one packet is sent as
    BATCH,      \* most messages one recvmmsg returns
    MaxClock,   \* bound: the clock stops there
    MaxPackets  \* bound: packets the TUN delivers

ASSUME NAssumption == N \in Nat \ {0}
ASSUME SrcOfAssumption == SrcOf \in [0 .. N - 1 -> Srcs]
ASSUME TimeAssumption ==
    /\ StartMs \in Nat /\ MaxClock \in Nat /\ Timeout \in Nat
    /\ StartMs <= MaxClock
ASSUME U64Assumption == U64 \in Nat /\ MaxClock + Timeout < U64
ASSUME BoundsAssumption ==
    /\ USO_PARTS \in Nat \ {0} /\ BATCH \in Nat \ {0}
    /\ MaxPackets \in Nat

VARIABLES
    clock,      \* CLOCK_MONOTONIC in ms, what nowMs() returns
    lastSeen,   \* ConnSlot::lastSeen of every slot
    rr,         \* ConnImpl::rr_
    packets,    \* packets read from the TUN so far
    txPc, txNow, txLeft, txBase, txK, txSlot, txFell,   \* tunReader threads
    rxPc, rxNow, rxLeft,                                \* udpReader threads
    everSilent, \* history: slots unheard for longer than Timeout at some time
    issued      \* history: calls of next that started at each slot

txVars == <<txPc, txNow, txLeft, txBase, txK, txSlot, txFell>>
rxVars == <<rxPc, rxNow, rxLeft>>
vars == <<clock, lastSeen, rr, packets, txVars, rxVars, everSilent, issued>>

Slots == 0 .. N - 1

\* Fault: a slot heard exactly Timeout ago counts as dead.
AliveStrict(now, ls) == (now - ls) % U64 < Timeout

\* The test of ConnImpl::next and of slotsStats, on u64: now - ls <= timeoutMs.
Alive(now, ls) == (now - ls) % U64 <= Timeout

SharedTypeOK ==
    /\ clock \in StartMs .. MaxClock
    /\ lastSeen \in [Slots -> StartMs .. MaxClock]
    /\ rr \in 0 .. U64 - 1
    /\ packets \in 0 .. MaxPackets
    /\ everSilent \in SUBSET Slots
    /\ issued \in [Slots -> Nat]

TxTypeOK ==
    /\ txPc \in [TunReaders -> {"read", "ticket", "scan", "send"}]
    /\ txNow \in [TunReaders -> StartMs .. MaxClock]
    /\ txLeft \in [TunReaders -> 0 .. USO_PARTS]
    /\ txBase \in [TunReaders -> Slots]
    /\ txK \in [TunReaders -> Slots]
    /\ txSlot \in [TunReaders -> Slots]
    /\ txFell \in [TunReaders -> BOOLEAN]

RxTypeOK ==
    /\ rxPc \in [Srcs -> {"recv", "msgs"}]
    /\ rxNow \in [Srcs -> StartMs .. MaxClock]
    /\ rxLeft \in [Srcs -> 0 .. BATCH]

(* Types: clocks stay within the bound, slot indices within slots_, the    *)
(* parts of a packet and the messages of a batch within their arrays.      *)
TypeOK == SharedTypeOK /\ TxTypeOK /\ RxTypeOK

Init ==
    /\ clock = StartMs
    /\ lastSeen = [s \in Slots |-> StartMs]
    /\ rr = 0
    /\ packets = 0
    /\ txPc = [t \in TunReaders |-> "read"]
    /\ txNow = [t \in TunReaders |-> StartMs]
    /\ txLeft = [t \in TunReaders |-> 0]
    /\ txBase = [t \in TunReaders |-> 0]
    /\ txK = [t \in TunReaders |-> 0]
    /\ txSlot = [t \in TunReaders |-> 0]
    /\ txFell = [t \in TunReaders |-> FALSE]
    /\ rxPc = [u \in Srcs |-> "recv"]
    /\ rxNow = [u \in Srcs |-> StartMs]
    /\ rxLeft = [u \in Srcs |-> 0]
    /\ everSilent = {}
    /\ issued = [s \in Slots |-> 0]

-----------------------------------------------------------------------------
(* The clock.                                                              *)

Tick ==
    /\ clock < MaxClock
    /\ clock' = clock + 1
    /\ everSilent' = everSilent \cup {s \in Slots : clock' - lastSeen[s] > Timeout}
    /\ UNCHANGED <<lastSeen, rr, packets, txVars, rxVars, issued>>

-----------------------------------------------------------------------------
(* tunReader: one packet is sent as `parts` datagrams.  sendOne and sendUso *)
(* read the clock once and every Conn::next of the packet uses that time.   *)

SendStart(t) ==
    /\ txPc[t] = "read"
    /\ packets < MaxPackets
    /\ packets' = packets + 1
    /\ \E parts \in 1 .. USO_PARTS : txLeft' = [txLeft EXCEPT ![t] = parts]
    /\ txNow' = [txNow EXCEPT ![t] = clock]
    /\ txPc' = [txPc EXCEPT ![t] = "ticket"]
    /\ UNCHANGED <<clock, lastSeen, rr, txBase, txK, txSlot, txFell, rxVars, everSilent, issued>>

\* The slot a ticket starts at.
TicketBase(c) == c % N

\* Fault: the increment is a load and a store, and another thread's may be lost.
NextTicketRacy(t) ==
    /\ txPc[t] = "ticket"
    /\ rr' \in {rr, (rr + 1) % U64}
    /\ txBase' = [txBase EXCEPT ![t] = TicketBase(rr)]
    /\ txK' = [txK EXCEPT ![t] = 0]
    /\ txPc' = [txPc EXCEPT ![t] = "scan"]
    /\ issued' = [issued EXCEPT ![TicketBase(rr)] = @ + 1]
    /\ UNCHANGED <<clock, lastSeen, packets, txNow, txLeft, txSlot, txFell,
                   rxVars, everSilent>>

\* Conn::next draws its ticket with an atomic add on rr_.
NextTicket(t) ==
    /\ txPc[t] = "ticket"
    /\ rr' = (rr + 1) % U64
    /\ txBase' = [txBase EXCEPT ![t] = TicketBase(rr)]
    /\ txK' = [txK EXCEPT ![t] = 0]
    /\ txPc' = [txPc EXCEPT ![t] = "scan"]
    /\ issued' = [issued EXCEPT ![TicketBase(rr)] = @ + 1]
    /\ UNCHANGED <<clock, lastSeen, packets, txNow, txLeft, txSlot, txFell,
                   rxVars, everSilent>>

\* The slot the loop of Conn::next looks at.
ScanSlot(t) == (txBase[t] + txK[t]) % N

\* The loop of Conn::next has no slot left after this one.
LastRound(k) == k + 1 = N

\* Fault: the slot the walk started at is returned, alive or not.
PickedBase(t) == txBase[t]

\* The slot returned by the loop.
Picked(t) == ScanSlot(t)

\* Fault: with no slot alive the loop starts over.
NextScanAgain(t) ==
    /\ txPc[t] = "scan"
    /\ IF Alive(txNow[t], lastSeen[ScanSlot(t)])
       THEN /\ txSlot' = [txSlot EXCEPT ![t] = Picked(t)]
            /\ txPc' = [txPc EXCEPT ![t] = "send"]
            /\ txK' = txK
       ELSE /\ txK' = [txK EXCEPT ![t] = (@ + 1) % N]
            /\ UNCHANGED <<txSlot, txPc>>
    /\ UNCHANGED <<clock, lastSeen, rr, packets, txNow, txLeft, txBase, txFell,
                   rxVars, everSilent, issued>>

\* One round of the loop of Conn::next: an atomic load of one lastSeen.
\* When the last round finds its slot dead too, next returns slots_[base].
NextScan(t) ==
    /\ txPc[t] = "scan"
    /\ \/ /\ Alive(txNow[t], lastSeen[ScanSlot(t)])
          /\ txSlot' = [txSlot EXCEPT ![t] = Picked(t)]
          /\ txFell' = [txFell EXCEPT ![t] = FALSE]
          /\ txPc' = [txPc EXCEPT ![t] = "send"]
          /\ txK' = txK
       \/ /\ ~Alive(txNow[t], lastSeen[ScanSlot(t)])
          /\ LastRound(txK[t])
          /\ txSlot' = [txSlot EXCEPT ![t] = txBase[t]]
          /\ txFell' = [txFell EXCEPT ![t] = TRUE]
          /\ txPc' = [txPc EXCEPT ![t] = "send"]
          /\ txK' = txK
       \/ /\ ~Alive(txNow[t], lastSeen[ScanSlot(t)])
          /\ ~LastRound(txK[t])
          /\ txK' = [txK EXCEPT ![t] = @ + 1]
          /\ UNCHANGED <<txSlot, txFell, txPc>>
    /\ UNCHANGED <<clock, lastSeen, rr, packets, txNow, txLeft, txBase, rxVars, everSilent, issued>>

\* sendto or sendmsg on the slot next returned; an error is only logged.
\* What next and the packet kept in locals goes out of scope.
SendPart(t) ==
    /\ txPc[t] = "send"
    /\ txLeft' = [txLeft EXCEPT ![t] = @ - 1]
    /\ txPc' = [txPc EXCEPT ![t] = IF txLeft[t] = 1 THEN "read" ELSE "ticket"]
    /\ txNow' = [txNow EXCEPT ![t] = IF txLeft[t] = 1 THEN StartMs ELSE @]
    /\ txBase' = [txBase EXCEPT ![t] = 0]
    /\ txK' = [txK EXCEPT ![t] = 0]
    /\ txSlot' = [txSlot EXCEPT ![t] = 0]
    /\ txFell' = [txFell EXCEPT ![t] = FALSE]
    /\ UNCHANGED <<clock, lastSeen, rr, packets, rxVars, everSilent, issued>>

-----------------------------------------------------------------------------
(* udpReader: a batch of messages, one reading of the clock, then message  *)
(* by message the stamp.                                                   *)

Recvmmsg(u) ==
    /\ rxPc[u] = "recv"
    /\ \E n \in 1 .. BATCH : rxLeft' = [rxLeft EXCEPT ![u] = n]
    /\ rxNow' = [rxNow EXCEPT ![u] = clock]
    /\ rxPc' = [rxPc EXCEPT ![u] = "msgs"]
    /\ UNCHANGED <<clock, lastSeen, rr, packets, txVars, everSilent, issued>>

\* Fault: the slot is found by peer address alone, whatever the socket.
StampableByAddress(u) == Slots

\* The slots a message taken from socket u can stand for: lookupSlot finds
\* the slot by socket and peer address, or none for an unknown address.
Stampable(u) == {s \in Slots : SrcOf[s] = u}

RecvMsg(u) ==
    /\ rxPc[u] = "msgs"
    /\ \/ \E s \in Stampable(u) : lastSeen' = [lastSeen EXCEPT ![s] = rxNow[u]]
       \/ lastSeen' = lastSeen
    /\ rxLeft' = [rxLeft EXCEPT ![u] = @ - 1]
    /\ rxPc' = [rxPc EXCEPT ![u] = IF rxLeft[u] = 1 THEN "recv" ELSE "msgs"]
    /\ rxNow' = [rxNow EXCEPT ![u] = IF rxLeft[u] = 1 THEN StartMs ELSE @]
    /\ UNCHANGED <<clock, rr, packets, txVars, everSilent, issued>>

-----------------------------------------------------------------------------

TunReader(t) == SendStart(t) \/ NextTicket(t) \/ NextScan(t) \/ SendPart(t)
UdpReader(u) == Recvmmsg(u) \/ RecvMsg(u)

Next ==
    \/ Tick
    \/ \E t \in TunReaders : TunReader(t)
    \/ \E u \in Srcs : UdpReader(u)

Spec == Init /\ [][Next]_vars

\* A thread that has a packet keeps running and its system calls return.
TxFairness ==
    \A t \in TunReaders : WF_vars(NextTicket(t) \/ NextScan(t) \/ SendPart(t))

-----------------------------------------------------------------------------
(* Properties.                                                             *)

(* ConnSlot::lastSeen never goes back: although udpReader threads stamp    *)
(* with a time read before the store, every slot has one writing thread,   *)
(* the one of its srcIdx.                                                  *)
LastSeenMonotone == [][\A s \in Slots : lastSeen'[s] >= lastSeen[s]]_vars

(* No false life: a slot Conn::next returns from its loop was heard from   *)
(* no longer than timeoutMs before the time next was called with.          *)
ChosenWasHeard ==
    \A t \in TunReaders :
        txPc[t] = "send" /\ ~txFell[t] => lastSeen[txSlot[t]] + Timeout >= txNow[t]

(* When Conn::next falls back to slots_[base], every slot had been silent  *)
(* for longer than timeoutMs at some time, or has been stamped with a time *)
(* later than the one next was called with (now - ls wraps around then).   *)
FallbackExplained ==
    \A t \in TunReaders :
        txPc[t] = "send" /\ txFell[t] =>
            \A s \in Slots : s \in everSilent \/ lastSeen[s] > txNow[t]

(* Whatever the interleaving of the tunReader threads, the walks of        *)
(* Conn::next start at every slot equally often, give or take one.         *)
StripeEven ==
    \A a, b \in Slots : issued[a] <= issued[b] + 1

(* The steps that are left to a tunReader for its packet: for each part a  *)
(* ticket, a round per slot, and the send.                                 *)
StepsInPart(t) ==
    CASE txPc[t] = "ticket" -> N + 2
      [] txPc[t] = "scan"   -> N - txK[t] + 1
      [] txPc[t] = "send"   -> 1

StepsLeft(t) ==
    IF txPc[t] = "read" THEN 0 ELSE (txLeft[t] - 1) * (N + 2) + StepsInPart(t)

TxLocals(t) == <<txPc[t], txNow[t], txLeft[t], txBase[t], txK[t], txSlot[t], txFell[t]>>

(* Nothing makes a walk longer: a step of anybody else leaves a tunReader  *)
(* where it is, and every step of its own is one less to take, of at most  *)
(* N + 2 per part, whatever is stamped, dies or is drawn meanwhile.        *)
WalksEnd ==
    [][\A t \in TunReaders :
        /\ StepsLeft(t)' \in 0 .. USO_PARTS * (N + 2)
        /\ txPc[t] # "read" =>
              UNCHANGED TxLocals(t) \/ StepsLeft(t)' < StepsLeft(t)]_vars

(* Conn::next always returns and every part of a packet is handed to the   *)
(* kernel, in so many steps, even when the last slot dies while it is      *)
(* being looked for.                                                       *)
PacketSent ==
    /\ \A t \in TunReaders : txPc[t] # "read" ~> txPc[t] = "read"
    /\ WalksEnd

(* What conn.cpp says of the fallback, "All slots dead": a slot that has   *)
(* been heard from within timeoutMs at every moment since startup is not   *)
(* passed over.                                                            *)
FallbackMeansAllDead ==
    \A t \in TunReaders : txPc[t] = "send" /\ txFell[t] => everSilent = Slots

=============================================================================
