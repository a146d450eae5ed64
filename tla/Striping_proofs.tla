-------------------------- MODULE Striping_proofs --------------------------
(* Proofs about Striping and, on top of them, about the line of slotsStats, *)
(* for any number of slots, sockets and threads and any timeout.            *)
EXTENDS SlotsStats, TLAPS

(* The inductive invariant.  The properties of Conn::next follow from four  *)
(* facts they do not state: no thread holds a time from the future; while   *)
(* a batch is being stamped its time is no older than any stamp its socket  *)
(* may overwrite; a slot that is silent now is in the history; and every    *)
(* slot a walk has passed over was passed over for a reason that lasts.     *)
Explained(s, now) == s \in everSilent \/ lastSeen[s] > now

Counters ==
    /\ \A t \in TunReaders : txPc[t] # "read" => txLeft[t] >= 1
    /\ \A u \in Srcs : rxPc[u] = "msgs" => rxLeft[u] >= 1

TimesPast ==
    /\ \A s \in Slots : lastSeen[s] <= clock
    /\ \A t \in TunReaders : txNow[t] <= clock
    /\ \A u \in Srcs : rxNow[u] <= clock

StampFresh ==
    \A u \in Srcs : rxPc[u] = "msgs" =>
        \A s \in Slots : SrcOf[s] = u => lastSeen[s] <= rxNow[u]

SilentKnown == \A s \in Slots : clock - lastSeen[s] > Timeout => s \in everSilent

PassedExplained ==
    \A t \in TunReaders : txPc[t] = "scan" =>
        \A q \in 0 .. txK[t] - 1 : Explained((txBase[t] + q) % N, txNow[t])

IInv ==
    /\ TypeOK /\ Counters /\ TimesPast /\ StampFresh /\ SilentKnown
    /\ PassedExplained /\ ChosenWasHeard /\ FallbackExplained

(* Slot numbers: what `% n` does on the indices Conn::next computes.        *)
LEMMA ModRange ==
    ASSUME NEW x \in Nat
    PROVE  x % N \in Slots
BY NAssumption, SMT DEF Slots

LEMMA ModSmall ==
    ASSUME NEW x \in Slots
    PROVE  x % N = x
BY NAssumption, SMT DEF Slots

LEMMA ModWrap ==
    ASSUME NEW x \in Slots
    PROVE  (x + N) % N = x
BY NAssumption, SMT DEF Slots

LEMMA ScanInSlots ==
    ASSUME TypeOK, NEW t \in TunReaders
    PROVE  ScanSlot(t) \in Slots
<1>1. txBase[t] \in 0 .. N - 1 /\ txK[t] \in 0 .. N - 1
  BY DEF TypeOK, TxTypeOK, Slots
<1>2. txBase[t] + txK[t] \in Nat
  BY <1>1, NAssumption
<1> QED BY <1>2, ModRange DEF ScanSlot

(* The walk of Conn::next from any base visits every slot.                  *)
LEMMA WalkCovers ==
    ASSUME NEW b \in Slots, NEW s \in Slots
    PROVE  \E q \in Slots : (b + q) % N = s
<1>1. CASE b <= s
  <2>1. s - b \in Slots /\ b + (s - b) = s
    BY <1>1, NAssumption DEF Slots
  <2> QED BY <2>1, ModSmall
<1>2. CASE ~(b <= s)
  <2>1. s - b + N \in Slots /\ b + (s - b + N) = s + N
    BY <1>2, NAssumption DEF Slots
  <2> QED BY <2>1, ModWrap
<1> QED BY <1>1, <1>2

(* The unsigned test of Conn::next: it holds exactly for a stamp that is    *)
(* neither older than timeoutMs nor later than `now`.                       *)
LEMMA AliveMeaning ==
    ASSUME NEW now \in StartMs .. MaxClock, NEW ls \in StartMs .. MaxClock
    PROVE  Alive(now, ls) <=> (ls <= now /\ now <= ls + Timeout)
<1>1. CASE ls <= now
  <2>1. (now - ls) % U64 = now - ls
    BY <1>1, TimeAssumption, U64Assumption, SMT
  <2> QED BY <1>1, <2>1, TimeAssumption DEF Alive
<1>2. CASE ~(ls <= now)
  <2>1. (now - ls) % U64 = now - ls + U64
    BY <1>2, TimeAssumption, U64Assumption, SMT
  <2> QED BY <1>2, <2>1, TimeAssumption, U64Assumption DEF Alive
<1> QED BY <1>1, <1>2

-----------------------------------------------------------------------------
(* Every step keeps the types, and a thread inside a packet or a batch has  *)
(* parts or messages left.                                                  *)
LEMMA TypeStep ==
    ASSUME TypeOK, Counters, [Next]_vars
    PROVE  TypeOK' /\ Counters'
<1> DEFINE TxLeftOK == \A t \in TunReaders : txPc[t] # "read" => txLeft[t] >= 1
<1> DEFINE RxLeftOK == \A u \in Srcs : rxPc[u] = "msgs" => rxLeft[u] >= 1
<1>a. SharedTypeOK /\ TxTypeOK /\ RxTypeOK /\ TxLeftOK /\ RxLeftOK
  BY DEF TypeOK, Counters
<1>b. UNCHANGED txVars => TxTypeOK' /\ TxLeftOK'
  BY <1>a DEF TxTypeOK, txVars
<1>c. UNCHANGED rxVars => RxTypeOK' /\ RxLeftOK'
  BY <1>a DEF RxTypeOK, rxVars
<1> SUFFICES SharedTypeOK' /\ TxTypeOK' /\ RxTypeOK' /\ TxLeftOK' /\ RxLeftOK'
  BY DEF TypeOK, Counters
<1>1. CASE Tick
  <2>1. SharedTypeOK'
    BY <1>a, <1>1, TimeAssumption DEF SharedTypeOK, Tick
  <2> QED BY <1>1, <1>b, <1>c, <2>1 DEF Tick
<1>2. ASSUME NEW t \in TunReaders, SendStart(t)
      PROVE  SharedTypeOK' /\ TxTypeOK' /\ RxTypeOK' /\ TxLeftOK' /\ RxLeftOK'
  <2>1. SharedTypeOK'
    BY <1>a, <1>2, BoundsAssumption DEF SharedTypeOK, SendStart
  <2>2. PICK parts \in 1 .. USO_PARTS : txLeft' = [txLeft EXCEPT ![t] = parts]
    BY <1>2 DEF SendStart
  <2>3. TxTypeOK'
    BY <1>a, <1>2, <2>2 DEF SharedTypeOK, TxTypeOK, SendStart
  <2>4. TxLeftOK'
    BY <1>a, <1>2, <2>2 DEF TxTypeOK, SendStart
  <2> QED BY <1>2, <1>c, <2>1, <2>3, <2>4 DEF SendStart
<1>3. ASSUME NEW t \in TunReaders, NextTicket(t)
      PROVE  SharedTypeOK' /\ TxTypeOK' /\ RxTypeOK' /\ TxLeftOK' /\ RxLeftOK'
  <2>1. TicketBase(rr) \in Slots /\ 0 \in Slots
    <3>1. rr \in Nat
      BY <1>a, U64Assumption DEF SharedTypeOK
    <3>2. 0 \in Slots
      BY NAssumption DEF Slots
    <3> QED BY <3>1, <3>2, ModRange DEF TicketBase
  <2>2. rr' \in 0 .. U64 - 1
    BY <1>3, <1>a, U64Assumption, TimeAssumption DEF NextTicket, SharedTypeOK
  <2>3. SharedTypeOK'
    BY <1>a, <1>3, <2>1, <2>2 DEF SharedTypeOK, NextTicket
  <2>4. TxTypeOK'
    BY <1>a, <1>3, <2>1 DEF TxTypeOK, NextTicket
  <2>5. TxLeftOK'
    BY <1>a, <1>3 DEF TxTypeOK, NextTicket
  <2> QED BY <1>3, <1>c, <2>3, <2>4, <2>5 DEF NextTicket
<1>4. ASSUME NEW t \in TunReaders, NextScan(t)
      PROVE  SharedTypeOK' /\ TxTypeOK' /\ RxTypeOK' /\ TxLeftOK' /\ RxLeftOK'
  <2>1. txBase[t] \in 0 .. N - 1 /\ txK[t] \in 0 .. N - 1
    BY <1>a DEF TxTypeOK, Slots
  <2>2. ScanSlot(t) \in Slots
    BY ScanInSlots
  <2>3. ~LastRound(txK[t]) => txK[t] + 1 \in Slots
    BY <2>1, NAssumption DEF LastRound, Slots
  <2>4. SharedTypeOK'
    BY <1>a, <1>4 DEF SharedTypeOK, NextScan
  <2>5. txSlot' \in [TunReaders -> Slots]
    BY <1>a, <1>4, <2>2 DEF TxTypeOK, NextScan, Picked
  <2>6. txK' \in [TunReaders -> Slots]
    BY <1>a, <1>4, <2>3 DEF TxTypeOK, NextScan
  <2>7. /\ txFell' \in [TunReaders -> BOOLEAN]
        /\ txPc' \in [TunReaders -> {"read", "ticket", "scan", "send"}]
    BY <1>a, <1>4 DEF TxTypeOK, NextScan
  <2>8. TxTypeOK'
    BY <1>a, <1>4, <2>5, <2>6, <2>7 DEF TxTypeOK, NextScan
  <2>9. TxLeftOK'
    BY <1>a, <1>4 DEF TxTypeOK, NextScan
  <2> QED BY <1>4, <1>c, <2>4, <2>8, <2>9 DEF NextScan
<1>5. ASSUME NEW t \in TunReaders, SendPart(t)
      PROVE  SharedTypeOK' /\ TxTypeOK' /\ RxTypeOK' /\ TxLeftOK' /\ RxLeftOK'
  <2>1. txLeft[t] \in 1 .. USO_PARTS
    BY <1>5, <1>a, BoundsAssumption DEF SendPart, TxTypeOK
  <2>2. 0 \in Slots /\ StartMs \in StartMs .. MaxClock
    BY NAssumption, TimeAssumption DEF Slots
  <2>3. SharedTypeOK'
    BY <1>a, <1>5 DEF SharedTypeOK, SendPart
  <2>4. txLeft' \in [TunReaders -> 0 .. USO_PARTS]
    BY <1>a, <1>5, <2>1, BoundsAssumption DEF TxTypeOK, SendPart
  <2>5. TxTypeOK'
    BY <1>a, <1>5, <2>2, <2>4 DEF TxTypeOK, SendPart
  <2>6. TxLeftOK'
    BY <1>a, <1>5, <2>1, BoundsAssumption DEF TxTypeOK, SendPart
  <2> QED BY <1>5, <1>c, <2>3, <2>5, <2>6 DEF SendPart
<1>6. ASSUME NEW u \in Srcs, Recvmmsg(u)
      PROVE  SharedTypeOK' /\ TxTypeOK' /\ RxTypeOK' /\ TxLeftOK' /\ RxLeftOK'
  <2>1. SharedTypeOK'
    BY <1>a, <1>6 DEF SharedTypeOK, Recvmmsg
  <2>2. PICK n \in 1 .. BATCH : rxLeft' = [rxLeft EXCEPT ![u] = n]
    BY <1>6 DEF Recvmmsg
  <2>3. RxTypeOK' /\ RxLeftOK'
    BY <1>a, <1>6, <2>2 DEF SharedTypeOK, RxTypeOK, Recvmmsg
  <2> QED BY <1>6, <1>b, <2>1, <2>3 DEF Recvmmsg
<1>7. ASSUME NEW u \in Srcs, RecvMsg(u)
      PROVE  SharedTypeOK' /\ TxTypeOK' /\ RxTypeOK' /\ TxLeftOK' /\ RxLeftOK'
  <2>1. rxLeft[u] \in 1 .. BATCH
    BY <1>7, <1>a, BoundsAssumption DEF RecvMsg, RxTypeOK
  <2>2. lastSeen' \in [Slots -> StartMs .. MaxClock]
    BY <1>7, <1>a DEF RecvMsg, SharedTypeOK, RxTypeOK, Stampable
  <2>3. SharedTypeOK'
    BY <1>a, <1>7, <2>2 DEF SharedTypeOK, RecvMsg
  <2>4. StartMs \in StartMs .. MaxClock
    BY TimeAssumption
  <2>5. RxTypeOK' /\ RxLeftOK'
    BY <1>a, <1>7, <2>1, <2>4, BoundsAssumption DEF RxTypeOK, RecvMsg
  <2> QED BY <1>7, <1>b, <2>3, <2>5 DEF RecvMsg
<1>8. CASE UNCHANGED vars
  <2>1. SharedTypeOK'
    BY <1>a, <1>8 DEF SharedTypeOK, vars
  <2> QED BY <1>8, <1>b, <1>c, <2>1 DEF vars
<1> HIDE DEF TxLeftOK, RxLeftOK
<1> QED BY <1>1, <1>2, <1>3, <1>4, <1>5, <1>6, <1>7, <1>8 DEF Next, TunReader, UdpReader

(* Stamps only grow: the socket that writes a slot stamps with a time that  *)
(* is no older than any stamp that socket has written, and a slot in the    *)
(* history stays there.                                                     *)
LEMMA StampStep ==
    ASSUME TypeOK, StampFresh, [Next]_vars
    PROVE  /\ \A s \in Slots : lastSeen'[s] >= lastSeen[s]
           /\ everSilent \subseteq everSilent'
<1>a. lastSeen \in [Slots -> StartMs .. MaxClock] /\ rxNow \in [Srcs -> StartMs .. MaxClock]
  BY DEF TypeOK, SharedTypeOK, RxTypeOK
<1>b. \A s \in Slots : lastSeen[s] \in Int
  BY <1>a, TimeAssumption
<1>1. ASSUME NEW u \in Srcs, RecvMsg(u)
      PROVE  \A s \in Slots : lastSeen'[s] >= lastSeen[s]
  <2>1. rxNow[u] \in Int /\ \A s \in Stampable(u) : rxNow[u] >= lastSeen[s]
    BY <1>1, <1>a, TimeAssumption DEF StampFresh, RecvMsg, Stampable
  <2>2. CASE lastSeen' = lastSeen
    BY <2>2, <1>b
  <2>3. ASSUME NEW z \in Stampable(u), lastSeen' = [lastSeen EXCEPT ![z] = rxNow[u]]
        PROVE  \A s \in Slots : lastSeen'[s] >= lastSeen[s]
    BY <2>3, <2>1, <1>a, <1>b
  <2> QED BY <1>1, <2>2, <2>3 DEF RecvMsg
<1>2. (\A u \in Srcs : ~RecvMsg(u)) => lastSeen' = lastSeen
  BY DEF Next, TunReader, UdpReader, Tick, SendStart, NextTicket, NextScan, SendPart,
         Recvmmsg, vars
<1>3. everSilent \subseteq everSilent'
  BY DEF Next, TunReader, UdpReader, Tick, SendStart, NextTicket, NextScan, SendPart,
         Recvmmsg, RecvMsg, vars
<1> QED BY <1>b, <1>1, <1>2, <1>3

(* What a passed-over slot was passed over for still holds after any step.  *)
LEMMA ExplainedStep ==
    ASSUME TypeOK, Counters, StampFresh, [Next]_vars,
           NEW s \in Slots, NEW now \in Int, Explained(s, now)
    PROVE  Explained(s, now)'
<1>1. lastSeen'[s] >= lastSeen[s] /\ everSilent \subseteq everSilent'
  BY StampStep
<1>2. lastSeen[s] \in Int /\ lastSeen'[s] \in Int
  BY TypeStep, TimeAssumption DEF TypeOK, SharedTypeOK
<1> QED BY <1>1, <1>2 DEF Explained

LEMMA TimesStep ==
    ASSUME TypeOK, Counters, TimesPast, [Next]_vars
    PROVE  TimesPast'
<1>a. /\ clock \in Int /\ \A s \in Slots : lastSeen[s] \in Int
      /\ \A t \in TunReaders : txNow[t] \in Int
      /\ \A u \in Srcs : rxNow[u] \in Int
  BY TimeAssumption DEF TypeOK, SharedTypeOK, TxTypeOK, RxTypeOK
<1>b. StartMs <= clock /\ StartMs \in Int
  BY TimeAssumption DEF TypeOK, SharedTypeOK
<1>c. /\ lastSeen \in [Slots -> StartMs .. MaxClock]
      /\ txNow \in [TunReaders -> StartMs .. MaxClock]
      /\ rxNow \in [Srcs -> StartMs .. MaxClock]
  BY DEF TypeOK, SharedTypeOK, TxTypeOK, RxTypeOK
<1>1. CASE Tick
  BY <1>1, <1>a DEF TimesPast, Tick, txVars, rxVars
<1>2. ASSUME NEW t \in TunReaders, SendStart(t) PROVE TimesPast'
  BY <1>2, <1>a, <1>c DEF TimesPast, SendStart, rxVars
<1>3. ASSUME NEW t \in TunReaders, NextTicket(t) \/ NextScan(t) PROVE TimesPast'
  BY <1>3 DEF TimesPast, NextTicket, NextScan, rxVars
<1>4. ASSUME NEW t \in TunReaders, SendPart(t) PROVE TimesPast'
  BY <1>4, <1>a, <1>b, <1>c DEF TimesPast, SendPart, rxVars
<1>5. ASSUME NEW u \in Srcs, Recvmmsg(u) PROVE TimesPast'
  BY <1>5, <1>a, <1>c DEF TimesPast, Recvmmsg, txVars
<1>6. ASSUME NEW u \in Srcs, RecvMsg(u) PROVE TimesPast'
  <2>1. \A s \in Slots : lastSeen'[s] <= clock
    BY <1>6, <1>a, <1>c DEF TimesPast, RecvMsg, Stampable
  <2>2. \A v \in Srcs : rxNow'[v] <= clock
    BY <1>6, <1>a, <1>b, <1>c DEF TimesPast, RecvMsg
  <2> QED BY <1>6, <2>1, <2>2 DEF TimesPast, RecvMsg, txVars
<1>7. CASE UNCHANGED vars
  BY <1>7 DEF TimesPast, vars, txVars, rxVars
<1> QED BY <1>1, <1>2, <1>3, <1>4, <1>5, <1>6, <1>7 DEF Next, TunReader, UdpReader

LEMMA FreshStep ==
    ASSUME TypeOK, Counters, TimesPast, StampFresh, [Next]_vars
    PROVE  StampFresh'
<1>c. /\ lastSeen \in [Slots -> StartMs .. MaxClock]
      /\ rxNow \in [Srcs -> StartMs .. MaxClock]
      /\ rxPc \in [Srcs -> {"recv", "msgs"}]
  BY DEF TypeOK, SharedTypeOK, RxTypeOK
<1>d. clock \in Int /\ (\A s \in Slots : lastSeen[s] \in Int) /\ (\A u \in Srcs : rxNow[u] \in Int)
  BY TimeAssumption DEF TypeOK, SharedTypeOK, RxTypeOK
<1>1. ASSUME NEW u \in Srcs, Recvmmsg(u) PROVE StampFresh'
  BY <1>1, <1>c DEF StampFresh, TimesPast, Recvmmsg
<1>2. ASSUME NEW u \in Srcs, RecvMsg(u) PROVE StampFresh'
  <2> SUFFICES ASSUME NEW v \in Srcs, rxPc'[v] = "msgs", NEW s \in Slots, SrcOf[s] = v
               PROVE  lastSeen'[s] <= rxNow'[v]
    BY DEF StampFresh
  <2>1. rxPc[v] = "msgs" /\ rxNow'[v] = rxNow[v]
    BY <1>2, <1>c DEF RecvMsg
  <2>2. CASE lastSeen'[s] = lastSeen[s]
    BY <2>1, <2>2 DEF StampFresh
  <2>3. CASE lastSeen'[s] # lastSeen[s]
    <3>1. s \in Stampable(u) /\ lastSeen'[s] = rxNow[u]
      BY <1>2, <1>c, <2>3 DEF RecvMsg, Stampable
    <3> QED BY <2>1, <3>1, <1>d DEF Stampable
  <2> QED BY <2>2, <2>3
<1>3. ASSUME UNCHANGED <<lastSeen, rxVars>> PROVE StampFresh'
  BY <1>3 DEF StampFresh, rxVars
<1>4. (\A u \in Srcs : ~Recvmmsg(u) /\ ~RecvMsg(u)) => UNCHANGED <<lastSeen, rxVars>>
  BY DEF Next, TunReader, UdpReader, Tick, SendStart, NextTicket, NextScan, SendPart, vars
<1> QED BY <1>1, <1>2, <1>3, <1>4

LEMMA SilentStep ==
    ASSUME TypeOK, Counters, StampFresh, SilentKnown, [Next]_vars
    PROVE  SilentKnown'
<1>a. clock \in Int /\ (\A s \in Slots : lastSeen[s] \in Int) /\ Timeout \in Int
  BY TimeAssumption DEF TypeOK, SharedTypeOK
<1>b. \A s \in Slots : lastSeen'[s] \in Int
  BY TypeStep, TimeAssumption DEF TypeOK, SharedTypeOK
<1>1. CASE Tick
  BY <1>1 DEF SilentKnown, Tick
<1>2. CASE ~Tick
  <2>1. clock' = clock
    BY <1>2 DEF Next, TunReader, UdpReader, SendStart, NextTicket, NextScan, SendPart,
                Recvmmsg, RecvMsg, vars
  <2> QED BY <2>1, <1>a, <1>b, StampStep DEF SilentKnown
<1> QED BY <1>1, <1>2

(* A slot that is not alive for a time read from the clock is explained: it *)
(* has been silent, or its stamp is later than that time.                   *)
LEMMA NotAliveExplained ==
    ASSUME TypeOK, SilentKnown, NEW s \in Slots,
           NEW now \in StartMs .. MaxClock, now <= clock, ~Alive(now, lastSeen[s])
    PROVE  Explained(s, now)
<1>1. clock \in Int /\ Timeout \in Int /\ lastSeen[s] \in StartMs .. MaxClock
  BY TimeAssumption DEF TypeOK, SharedTypeOK
<1>2. ~(lastSeen[s] <= now /\ now <= lastSeen[s] + Timeout)
  BY <1>1, AliveMeaning
<1>3. CASE lastSeen[s] > now
  BY <1>3 DEF Explained
<1>4. CASE ~(lastSeen[s] > now)
  <2>1. clock - lastSeen[s] > Timeout
    BY <1>1, <1>2, <1>4, TimeAssumption
  <2> QED BY <2>1 DEF SilentKnown, Explained
<1> QED BY <1>3, <1>4

(* Every walk keeps its passed-over slots explained: by ExplainedStep for   *)
(* the steps of others, by NotAliveExplained for the slot it passes over.   *)
LEMMA PassedStep ==
    ASSUME TypeOK, Counters, TimesPast, StampFresh, SilentKnown, PassedExplained, [Next]_vars
    PROVE  PassedExplained'
<1> SUFFICES ASSUME NEW r \in TunReaders, txPc'[r] = "scan", NEW q \in 0 .. txK'[r] - 1
             PROVE  Explained((txBase[r] + q) % N, txNow[r])'
  BY DEF PassedExplained
<1>a. TxTypeOK /\ txBase[r] \in Slots /\ txK[r] \in Slots /\ txNow[r] \in Int
  BY TimeAssumption DEF TypeOK, TxTypeOK
<1>b. txNow[r] \in StartMs .. MaxClock /\ txNow[r] <= clock
  BY DEF TypeOK, TxTypeOK, TimesPast
<1>1. CASE txPc[r] = "scan" /\ UNCHANGED <<txBase[r], txNow[r]>> /\ q \in 0 .. txK[r] - 1
  <2>1. Explained((txBase[r] + q) % N, txNow[r])
    BY <1>1 DEF PassedExplained
  <2>2. (txBase[r] + q) % N \in Slots
    <3>1. txBase[r] \in Nat /\ q \in Nat
      BY <1>1, <1>a, NAssumption DEF Slots
    <3>2. txBase[r] + q \in Nat
      BY <3>1
    <3> QED BY <3>2, ModRange
  <2>3. \A s \in Slots : \A now \in Int :
            Explained(s, now) => s \in everSilent' \/ lastSeen'[s] > now
    BY ExplainedStep DEF Explained
  <2> QED BY <1>1, <1>a, <2>1, <2>2, <2>3 DEF Explained
<1>2. CASE NextScan(r) /\ ~(q \in 0 .. txK[r] - 1)
  <2>1. /\ txK'[r] = txK[r] + 1 /\ q = txK[r]
        /\ UNCHANGED <<txBase, txNow, lastSeen, everSilent>>
        /\ ~Alive(txNow[r], lastSeen[ScanSlot(r)])
    <3>1. txK[r] \in Int
      BY <1>a, NAssumption DEF Slots
    <3> QED BY <1>2, <1>a, <3>1 DEF NextScan, TxTypeOK
  <2>2. ScanSlot(r) \in Slots
    BY ScanInSlots
  <2>3. Explained(ScanSlot(r), txNow[r])
    BY <2>1, <2>2, <1>b, NotAliveExplained
  <2> QED BY <2>1, <2>3 DEF Explained, ScanSlot
<1>3. CASE NextTicket(r)
  <2>1. txK'[r] = 0
    BY <1>3, <1>a DEF NextTicket, TxTypeOK
  <2> QED BY <2>1
<1>4. CASE ~NextScan(r) /\ ~NextTicket(r)
  <2>1. txPc[r] = "scan" /\ txBase'[r] = txBase[r] /\ txNow'[r] = txNow[r] /\ txK'[r] = txK[r]
    <3>1. CASE UNCHANGED txVars
      BY <3>1 DEF txVars
    <3>2. ASSUME NEW t \in TunReaders, TunReader(t)
          PROVE  txPc[r] = "scan" /\ txBase'[r] = txBase[r] /\ txNow'[r] = txNow[r] /\ txK'[r] = txK[r]
      <4>1. CASE t = r
        BY <1>4, <1>a, <3>2, <4>1 DEF TunReader, SendStart, SendPart, TxTypeOK
      <4>2. CASE t # r
        BY <1>a, <3>2, <4>2 DEF TunReader, SendStart, NextTicket, NextScan, SendPart, TxTypeOK
      <4> QED BY <4>1, <4>2
    <3> QED BY <3>1, <3>2 DEF Next, UdpReader, Tick, Recvmmsg, RecvMsg, vars
  <2> QED BY <1>1, <2>1
<1>5. CASE NextScan(r) /\ q \in 0 .. txK[r] - 1
  <2>1. txPc[r] = "scan" /\ UNCHANGED <<txBase[r], txNow[r]>>
    BY <1>5 DEF NextScan
  <2> QED BY <1>1, <1>5, <2>1
<1> QED BY <1>2, <1>3, <1>4, <1>5

(* A thread about to send either was about to send before, with the same    *)
(* slot and time, or has just taken the last round of its loop.             *)
LEMMA SendingStep ==
    ASSUME TypeOK, [Next]_vars, NEW r \in TunReaders, txPc'[r] = "send"
    PROVE  \/ NextScan(r)
           \/ /\ txPc[r] = "send" /\ txNow'[r] = txNow[r]
              /\ txSlot'[r] = txSlot[r] /\ txFell'[r] = txFell[r]
<1>a. TxTypeOK
  BY DEF TypeOK
<1>1. CASE UNCHANGED txVars
  BY <1>1 DEF txVars
<1>2. ASSUME NEW t \in TunReaders, TunReader(t), ~NextScan(r)
      PROVE  /\ txPc[r] = "send" /\ txNow'[r] = txNow[r]
             /\ txSlot'[r] = txSlot[r] /\ txFell'[r] = txFell[r]
  <2>1. CASE t = r
    BY <1>a, <1>2, <2>1 DEF TunReader, SendStart, NextTicket, SendPart, TxTypeOK
  <2>2. CASE t # r
    BY <1>a, <1>2, <2>2 DEF TunReader, SendStart, NextTicket, NextScan, SendPart, TxTypeOK
  <2> QED BY <2>1, <2>2
<1> QED BY <1>1, <1>2 DEF Next, UdpReader, Tick, Recvmmsg, RecvMsg, vars

LEMMA ChosenStep ==
    ASSUME TypeOK, Counters, StampFresh, ChosenWasHeard, [Next]_vars
    PROVE  ChosenWasHeard'
<1> SUFFICES ASSUME NEW r \in TunReaders, txPc'[r] = "send", ~txFell'[r]
             PROVE  lastSeen'[txSlot'[r]] + Timeout >= txNow'[r]
  BY DEF ChosenWasHeard
<1>a. /\ TxTypeOK /\ txBase[r] \in Slots /\ txK[r] \in Slots /\ txSlot[r] \in Slots
      /\ txNow[r] \in StartMs .. MaxClock
      /\ lastSeen \in [Slots -> StartMs .. MaxClock]
  BY DEF TypeOK, SharedTypeOK, TxTypeOK
<1>b. \A s \in Slots : lastSeen'[s] \in Int /\ lastSeen[s] \in Int
  BY TypeStep, TimeAssumption DEF TypeOK, SharedTypeOK
<1>1. CASE NextScan(r)
  <2>1. ScanSlot(r) \in Slots
    BY ScanInSlots
  <2>2. /\ Alive(txNow[r], lastSeen[ScanSlot(r)]) /\ txSlot'[r] = ScanSlot(r)
        /\ lastSeen' = lastSeen /\ txNow' = txNow
    BY <1>1, <1>a DEF NextScan, Picked, TxTypeOK
  <2>3. txNow[r] <= lastSeen[ScanSlot(r)] + Timeout
    BY <1>a, <2>1, <2>2, AliveMeaning
  <2> QED BY <2>2, <2>3, <2>1, <1>b, <1>a, TimeAssumption
<1>2. CASE ~NextScan(r)
  <2>1. /\ txPc[r] = "send" /\ txNow'[r] = txNow[r]
        /\ txSlot'[r] = txSlot[r] /\ txFell'[r] = txFell[r]
    BY <1>2, SendingStep
  <2>2. lastSeen[txSlot[r]] + Timeout >= txNow[r]
    BY <2>1 DEF ChosenWasHeard
  <2>3. lastSeen'[txSlot[r]] >= lastSeen[txSlot[r]]
    BY <1>a, StampStep
  <2>4. lastSeen'[txSlot[r]] \in Int /\ lastSeen[txSlot[r]] \in Int /\ txNow[r] \in Int
    BY <1>a, <1>b, TimeAssumption
  <2> QED BY <2>1, <2>2, <2>3, <2>4, TimeAssumption
<1> QED BY <1>1, <1>2

(* The fallback: its walk has passed over the slots at every offset, which  *)
(* by WalkCovers are all slots.                                             *)
LEMMA FallbackStep ==
    ASSUME TypeOK, Counters, TimesPast, StampFresh, SilentKnown, PassedExplained,
           FallbackExplained, [Next]_vars
    PROVE  FallbackExplained'
<1> SUFFICES ASSUME NEW r \in TunReaders, txPc'[r] = "send", txFell'[r], NEW s \in Slots
             PROVE  s \in everSilent' \/ lastSeen'[s] > txNow'[r]
  BY DEF FallbackExplained
<1>a. /\ TxTypeOK /\ txBase[r] \in Slots /\ txK[r] \in Slots /\ txNow[r] \in Int
  BY TimeAssumption DEF TypeOK, TxTypeOK
<1>b. txNow[r] \in StartMs .. MaxClock /\ txNow[r] <= clock
  BY DEF TypeOK, TxTypeOK, TimesPast
<1>1. CASE NextScan(r)
  <2>1. /\ ~Alive(txNow[r], lastSeen[ScanSlot(r)]) /\ LastRound(txK[r]) /\ txPc[r] = "scan"
        /\ UNCHANGED <<lastSeen, everSilent, txNow>>
    BY <1>1, <1>a DEF NextScan, TxTypeOK
  <2>2. PICK q \in Slots : (txBase[r] + q) % N = s
    BY <1>a, WalkCovers
  <2>3. q \in 0 .. txK[r] - 1 \/ q = txK[r]
    BY <1>a, <2>1, <2>2, NAssumption DEF LastRound, Slots
  <2>4. CASE q \in 0 .. txK[r] - 1
    BY <2>1, <2>2, <2>4 DEF PassedExplained, Explained
  <2>5. CASE q = txK[r]
    <3>1. ScanSlot(r) = s
      BY <2>2, <2>5 DEF ScanSlot
    <3>2. Explained(s, txNow[r])
      BY <2>1, <3>1, <1>b, NotAliveExplained
    <3> QED BY <2>1, <3>2 DEF Explained
  <2> QED BY <2>3, <2>4, <2>5
<1>2. CASE ~NextScan(r)
  <2>1. /\ txPc[r] = "send" /\ txNow'[r] = txNow[r]
        /\ txSlot'[r] = txSlot[r] /\ txFell'[r] = txFell[r]
    BY <1>2, SendingStep
  <2>2. Explained(s, txNow[r])
    BY <2>1 DEF FallbackExplained, Explained
  <2>3. s \in everSilent' \/ lastSeen'[s] > txNow[r]
    BY <1>a, <2>2, ExplainedStep DEF Explained
  <2> QED BY <2>1, <2>3
<1> QED BY <1>1, <1>2

-----------------------------------------------------------------------------
(* The invariant holds at startup, where every slot has the time the table  *)
(* was built, and every step of every thread keeps it.                      *)
LEMMA IInvInit == Init => IInv
<1> SUFFICES ASSUME Init PROVE IInv
  OBVIOUS
<1>1. 0 \in Slots /\ StartMs \in StartMs .. MaxClock /\ 0 \in 0 .. U64 - 1
  BY NAssumption, TimeAssumption, U64Assumption DEF Slots
<1>2. TypeOK
  BY <1>1, BoundsAssumption DEF Init, TypeOK, SharedTypeOK, TxTypeOK, RxTypeOK
<1>3. Counters /\ StampFresh /\ PassedExplained /\ ChosenWasHeard /\ FallbackExplained
  BY DEF Init, Counters, StampFresh, PassedExplained, ChosenWasHeard, FallbackExplained
<1>4. TimesPast /\ SilentKnown
  BY TimeAssumption DEF Init, TimesPast, SilentKnown
<1> QED BY <1>2, <1>3, <1>4 DEF IInv

LEMMA IInvStep == IInv /\ [Next]_vars => IInv'
<1> SUFFICES ASSUME IInv, [Next]_vars PROVE IInv'
  OBVIOUS
<1> QED
  BY TypeStep, TimesStep, FreshStep, SilentStep, PassedStep, ChosenStep, FallbackStep
  DEF IInv

(* Striping keeps its inductive invariant in every behaviour.               *)
THEOREM StripingInvariant == Spec => []IInv
BY IInvInit, IInvStep, PTL DEF Spec

(* Types: slot indices stay within slots_, times within the clock, counts   *)
(* within their arrays, whatever the number of slots, sockets and threads.  *)
THEOREM StripingTyped == Spec => []TypeOK
<1>1. IInv => TypeOK
  BY DEF IInv
<1> QED BY <1>1, StripingInvariant, PTL

(* Conn::next never returns from its loop with a slot that was not heard    *)
(* from within timeoutMs of the time it was called with.                    *)
THEOREM NoFalseLife == Spec => []ChosenWasHeard
<1>1. IInv => ChosenWasHeard
  BY DEF IInv
<1> QED BY <1>1, StripingInvariant, PTL

(* Conn::next falls back to slots_[base] only when every slot has been      *)
(* silent or has been stamped with a time after the one next works with.    *)
THEOREM FallbackIsExplained == Spec => []FallbackExplained
<1>1. IInv => FallbackExplained
  BY DEF IInv
<1> QED BY <1>1, StripingInvariant, PTL

(* ConnSlot::lastSeen never goes back, although it is a plain store of a    *)
(* time read earlier: each slot is written by the thread of one socket.     *)
THEOREM LastSeenNeverBack == Spec => LastSeenMonotone
<1>1. IInv /\ [Next]_vars => [\A s \in Slots : lastSeen'[s] >= lastSeen[s]]_vars
  BY StampStep DEF IInv
<1> QED BY <1>1, StripingInvariant, PTL DEF Spec, LastSeenMonotone

-----------------------------------------------------------------------------
(* Walks start at every slot equally often.                                *)

\* The slots below the next ticket's are one walk ahead of the others.
Even ==
    \E q \in Nat : \A s \in Slots : issued[s] = IF s < rr % N THEN q + 1 ELSE q

\* Only a ticket moves rr, by one, and counts for its slot; on 2^64 tickets it
\* starts from zero.
LEMMA TicketStep ==
    ASSUME TypeOK, [Next]_vars
    PROVE  \/ UNCHANGED <<rr, issued>>
           \/ /\ rr' = (rr + 1) % U64
              /\ issued' = [issued EXCEPT ![TicketBase(rr)] = @ + 1]
<1>1. ASSUME NEW t \in TunReaders, TunReader(t)
      PROVE  \/ UNCHANGED <<rr, issued>>
             \/ /\ rr' = (rr + 1) % U64
                /\ issued' = [issued EXCEPT ![TicketBase(rr)] = @ + 1]
  BY <1>1 DEF TunReader, SendStart, NextTicket, NextScan, SendPart
<1>2. ASSUME NEW u \in Srcs, UdpReader(u) PROVE UNCHANGED <<rr, issued>>
  BY <1>2 DEF UdpReader, Recvmmsg, RecvMsg
<1> QED BY <1>1, <1>2 DEF Next, Tick, vars

\* A sum of whole rounds and a slot number is that slot.
LEMMA ModOfSum ==
    ASSUME NEW q \in Nat, NEW c \in Slots
    PROVE  (N * q + c) % N = c
BY NAssumption, SMT DEF Slots

\* The slot of a ticket follows the one before it, around the slots.
LEMMA NextBase ==
    ASSUME NEW x \in Nat
    PROVE  (x + 1) % N = IF x % N = N - 1 THEN 0 ELSE (x % N) + 1
<1> DEFINE q == x \div N
           r == x % N
<1>1. q \in Nat /\ r \in 0 .. N - 1 /\ x = N * q + r
  BY NAssumption, SMT
<1> HIDE DEF q, r
<1>2. CASE r = N - 1
  <2>1. x + 1 = N * (q + 1) + 0
    BY <1>1, <1>2, NAssumption, SMT
  <2>2. 0 \in Slots /\ q + 1 \in Nat
    BY <1>1, NAssumption DEF Slots
  <2>3. (N * (q + 1) + 0) % N = 0
    BY <2>2, ModOfSum
  <2> QED BY <2>1, <2>3, <1>2 DEF r
<1>3. CASE r # N - 1
  <2>1. x + 1 = N * q + (r + 1) /\ r + 1 \in Slots
    BY <1>1, <1>3, NAssumption, SMT DEF Slots
  <2>2. (N * q + (r + 1)) % N = r + 1
    BY <1>1, <2>1, ModOfSum
  <2> QED BY <2>1, <2>2, <1>3 DEF r
<1> QED BY <1>2, <1>3

\* A ticket after which rr stands for the next slot keeps the walks even.
LEMMA EvenStep ==
    ASSUME TypeOK, Even, [Next]_vars, [rr' % N = (rr + 1) % N]_<<rr, issued>>
    PROVE  Even'
<1>1. rr \in Nat /\ issued \in [Slots -> Nat]
  BY U64Assumption DEF TypeOK, SharedTypeOK
<1>2. PICK q \in Nat : \A s \in Slots : issued[s] = IF s < rr % N THEN q + 1 ELSE q
  BY DEF Even
<1>3. CASE UNCHANGED <<rr, issued>>
  BY <1>2, <1>3 DEF Even
<1>4. CASE /\ rr' % N = (rr + 1) % N
           /\ issued' = [issued EXCEPT ![TicketBase(rr)] = @ + 1]
  <2> DEFINE b == rr % N
  <2>1. b \in Slots /\ TicketBase(rr) = b
    BY <1>1, ModRange DEF TicketBase
  <2>2. rr' % N = IF b = N - 1 THEN 0 ELSE b + 1
    BY <1>1, <1>4, NextBase
  <2>3. \A s \in Slots : issued'[s] = IF s = b THEN issued[s] + 1 ELSE issued[s]
    BY <1>1, <1>4, <2>1
  <2>4. b \in 0 .. N - 1 /\ \A s \in Slots : s \in 0 .. N - 1
    BY <2>1 DEF Slots
  <2>5. \A s \in Slots : issued[s] = IF s < b THEN q + 1 ELSE q
    BY <1>2
  <2> HIDE DEF b
  <2>6. CASE b = N - 1
    <3>1. \A s \in Slots : issued'[s] = IF s < 0 THEN q + 1 + 1 ELSE q + 1
      BY <2>3, <2>4, <2>5, <2>6, NAssumption
    <3> QED BY <2>2, <2>6, <3>1 DEF Even
  <2>7. CASE b # N - 1
    <3>1. \A s \in Slots : issued'[s] = IF s < b + 1 THEN q + 1 ELSE q
      BY <2>3, <2>4, <2>5, <2>7, NAssumption
    <3> QED BY <2>2, <2>7, <3>1 DEF Even
  <2> QED BY <2>6, <2>7
<1> QED BY <1>3, <1>4, TicketStep

LEMMA EvenInit == Init => Even
<1>1. 0 % N = 0
  BY NAssumption, SMT
<1>2. Init => \A s \in Slots : issued[s] = IF s < rr % N THEN 0 + 1 ELSE 0
  BY <1>1 DEF Init, Slots
<1> QED BY <1>2 DEF Even

LEMMA EvenMeaning == Even => StripeEven
BY DEF Even, StripeEven

\* No ticket has brought rr_ back to zero.
NotWrapped == [][rr' # 0]_<<rr, issued>>

\* Short of the wrap, rr stands for the next slot after every ticket.
LEMMA TicketShortOfWrap ==
    ASSUME TypeOK, [Next]_vars, [rr' # 0]_<<rr, issued>>
    PROVE  [rr' % N = (rr + 1) % N]_<<rr, issued>>
<1>1. rr \in 0 .. U64 - 1 /\ U64 \in Nat
  BY U64Assumption DEF TypeOK, SharedTypeOK
<1>2. rr' = (rr + 1) % U64 => rr' = rr + 1 \/ rr' = 0
  BY <1>1, SMT
<1> QED BY <1>2, TicketStep

\* When U64 is a multiple of N, zero stands for the slot after the last ticket's.
LEMMA TicketOverWrap ==
    ASSUME TypeOK, [Next]_vars, U64 % N = 0
    PROVE  [rr' % N = (rr + 1) % N]_<<rr, issued>>
<1>1. rr \in 0 .. U64 - 1 /\ U64 \in Nat
  BY U64Assumption DEF TypeOK, SharedTypeOK
<1>2. rr' = (rr + 1) % U64 => rr' = rr + 1 \/ (rr' = 0 /\ rr + 1 = U64)
  BY <1>1, SMT
<1>3. 0 % N = 0
  BY NAssumption, SMT
<1> QED BY <1>2, <1>3, TicketStep

(* Until rr_ wraps around, the walks of Conn::next start at every slot      *)
(* equally often, give or take one, however the tunReader threads interleave.*)
THEOREM EvenUntilWrap == Spec /\ NotWrapped => []StripeEven
<1>1. TypeOK /\ Even /\ [Next]_vars /\ [rr' # 0]_<<rr, issued>> => Even'
  BY TicketShortOfWrap, EvenStep
<1> QED BY <1>1, EvenInit, EvenMeaning, StripingTyped, PTL DEF Spec, NotWrapped

(* When the number of slots divides 2^64, they do so for ever: the wrap of  *)
(* rr_ goes on with slot 0 after slot N - 1.                                *)
THEOREM EvenForever == (U64 % N = 0) => (Spec => []StripeEven)
<1> SUFFICES ASSUME U64 % N = 0 PROVE Spec => []StripeEven
  OBVIOUS
<1>1. TypeOK /\ Even /\ [Next]_vars => Even'
  BY TicketOverWrap, EvenStep
<1> QED BY <1>1, EvenInit, EvenMeaning, StripingTyped, PTL DEF Spec

-----------------------------------------------------------------------------
(* The walks end.                                                           *)

(* What the parts that are left take, one part more or less.                *)
LEMMA PartTakes ==
    ASSUME NEW p \in Nat \ {0}
    PROVE  /\ (p - 1) * (N + 2) \in Nat
           /\ (p - 1) * (N + 2) + (N + 2) = p * (N + 2)
BY NAssumption, SMT

LEMMA PartsBounded ==
    ASSUME NEW p \in 1 .. USO_PARTS
    PROVE  p * (N + 2) <= USO_PARTS * (N + 2) /\ USO_PARTS * (N + 2) \in Nat
<1>1. (USO_PARTS - p) * (N + 2) \in Nat
  BY NAssumption, BoundsAssumption, SMT
<1>2. USO_PARTS * (N + 2) = p * (N + 2) + (USO_PARTS - p) * (N + 2)
  BY NAssumption, BoundsAssumption, SMT
<1>3. p * (N + 2) \in Nat
  BY NAssumption, SMT
<1> QED BY <1>1, <1>2, <1>3

(* A thread inside a packet has steps left, and those of one part at most.  *)
LEMMA StepsRange ==
    ASSUME TypeOK, Counters, NEW t \in TunReaders
    PROVE  /\ StepsLeft(t) \in 0 .. USO_PARTS * (N + 2)
           /\ txPc[t] # "read" => /\ txLeft[t] \in 1 .. USO_PARTS
                                  /\ StepsInPart(t) \in 1 .. N + 2
<1>a. /\ txPc[t] \in {"read", "ticket", "scan", "send"} /\ txK[t] \in 0 .. N - 1
      /\ txPc[t] # "read" => txLeft[t] \in 1 .. USO_PARTS
  BY BoundsAssumption DEF TypeOK, TxTypeOK, Slots, Counters
<1>1. CASE txPc[t] = "read"
  <2>1. USO_PARTS * (N + 2) \in Nat
    BY NAssumption, BoundsAssumption, SMT
  <2> QED BY <1>1, <2>1 DEF StepsLeft
<1>2. CASE txPc[t] # "read"
  <2>1. StepsInPart(t) \in 1 .. N + 2
    BY <1>a, <1>2, NAssumption DEF StepsInPart
  <2>2. StepsLeft(t) = (txLeft[t] - 1) * (N + 2) + StepsInPart(t)
    BY <1>2 DEF StepsLeft
  <2> DEFINE p == txLeft[t]
             a == (p - 1) * (N + 2)
             b == p * (N + 2)
             m == USO_PARTS * (N + 2)
  <2>3. a \in Nat /\ a + (N + 2) = b /\ b <= m /\ m \in Nat
    BY <1>a, <1>2, PartTakes, PartsBounded, BoundsAssumption
  <2>4. StepsLeft(t) = a + StepsInPart(t) /\ b \in Nat
    BY <2>2, <2>3, NAssumption
  <2> HIDE DEF a, b, m, p
  <2>5. StepsLeft(t) \in 0 .. m
    BY <2>1, <2>3, <2>4, NAssumption
  <2> QED BY <1>a, <1>2, <2>1, <2>5 DEF m
<1> QED BY <1>1, <1>2

StepsBounded == \A t \in TunReaders : StepsLeft(t) \in 0 .. USO_PARTS * (N + 2)

(* A step of a thread is one less for it to take.                           *)
LEMMA OwnStep ==
    ASSUME TypeOK, Counters, NEW t \in TunReaders, txPc[t] # "read",
           NextTicket(t) \/ NextScan(t) \/ SendPart(t)
    PROVE  StepsLeft(t)' < StepsLeft(t)
<1>a. /\ txPc \in [TunReaders -> {"read", "ticket", "scan", "send"}]
      /\ txK \in [TunReaders -> 0 .. N - 1] /\ txLeft \in [TunReaders -> 0 .. USO_PARTS]
  BY DEF TypeOK, TxTypeOK, Slots
<1> DEFINE a == (txLeft[t] - 1) * (N + 2)
<1>b. a \in Nat /\ txLeft[t] \in Nat \ {0} /\ N \in Nat \ {0} /\ txK[t] \in 0 .. N - 1
  BY <1>a, StepsRange, PartTakes, NAssumption, BoundsAssumption
<1>1. StepsLeft(t) = a + StepsInPart(t)
  BY DEF StepsLeft
<1>2. CASE NextTicket(t)
  <2>1. txLeft' = txLeft /\ txPc[t] = "ticket" /\ txPc'[t] = "scan" /\ txK'[t] = 0
    BY <1>a, <1>2 DEF NextTicket
  <2>2. StepsLeft(t)' = a + (N + 1)
    BY <1>b, <2>1 DEF StepsLeft, StepsInPart
  <2>3. StepsLeft(t) = a + (N + 2)
    BY <1>1, <2>1 DEF StepsInPart
  <2> HIDE DEF a
  <2> QED BY <1>b, <2>2, <2>3
<1>3. CASE NextScan(t)
  <2>1. txLeft' = txLeft /\ txPc[t] = "scan"
        /\ \/ txPc'[t] = "send"
           \/ txPc'[t] = "scan" /\ txK'[t] = txK[t] + 1
    BY <1>a, <1>3 DEF NextScan
  <2>2. StepsLeft(t)' = a + 1 \/ StepsLeft(t)' = a + (N - txK[t])
    BY <1>b, <2>1 DEF StepsLeft, StepsInPart
  <2>3. StepsLeft(t) = a + (N - txK[t] + 1)
    BY <1>1, <2>1 DEF StepsInPart
  <2> HIDE DEF a
  <2> QED BY <1>b, <2>2, <2>3
<1>4. CASE SendPart(t)
  <2>1. /\ txPc[t] = "send" /\ txLeft'[t] = txLeft[t] - 1
        /\ txPc'[t] = IF txLeft[t] = 1 THEN "read" ELSE "ticket"
    BY <1>a, <1>4 DEF SendPart
  <2>2. StepsLeft(t) = a + 1
    BY <1>1, <2>1 DEF StepsInPart
  <2>3. CASE txLeft[t] = 1
    <3>1. StepsLeft(t)' = 0
      BY <2>1, <2>3 DEF StepsLeft
    <3> HIDE DEF a
    <3> QED BY <1>b, <2>2, <3>1
  <2>4. CASE txLeft[t] # 1
    <3> DEFINE p == txLeft[t] - 1
    <3>1. p \in Nat \ {0} /\ txLeft'[t] = p /\ txPc'[t] = "ticket"
      BY <1>b, <2>1, <2>4
    <3>2. StepsLeft(t)' = (p - 1) * (N + 2) + (N + 2)
      BY <3>1 DEF StepsLeft, StepsInPart
    <3>3. StepsLeft(t)' = a
      BY <3>1, <3>2, PartTakes
    <3> HIDE DEF a
    <3> QED BY <1>b, <2>2, <3>3
  <2> QED BY <2>3, <2>4
<1> QED BY <1>2, <1>3, <1>4

(* A step of anybody else leaves a thread where it is.                      *)
LEMMA OthersStep ==
    ASSUME TypeOK, [Next]_vars, NEW t \in TunReaders, txPc[t] # "read",
           ~(NextTicket(t) \/ NextScan(t) \/ SendPart(t))
    PROVE  UNCHANGED TxLocals(t)
<1>a. TxTypeOK
  BY DEF TypeOK
<1>1. CASE Tick \/ UNCHANGED vars
  BY <1>1 DEF Tick, vars, txVars, TxLocals
<1>2. ASSUME NEW x \in TunReaders, TunReader(x) PROVE UNCHANGED TxLocals(t)
  <2>1. x # t
    BY <1>2 DEF TunReader, SendStart
  <2>2. CASE SendStart(x)
    BY <1>a, <2>1, <2>2 DEF SendStart, TxTypeOK, TxLocals
  <2>3. CASE NextTicket(x)
    BY <1>a, <2>1, <2>3 DEF NextTicket, TxTypeOK, TxLocals
  <2>4. CASE NextScan(x)
    BY <1>a, <2>1, <2>4 DEF NextScan, TxTypeOK, TxLocals
  <2>5. CASE SendPart(x)
    BY <1>a, <2>1, <2>5 DEF SendPart, TxTypeOK, TxLocals
  <2> QED BY <1>2, <2>2, <2>3, <2>4, <2>5 DEF TunReader
<1>3. ASSUME NEW u \in Srcs, UdpReader(u) PROVE UNCHANGED TxLocals(t)
  BY <1>3 DEF UdpReader, Recvmmsg, RecvMsg, txVars, TxLocals
<1> QED BY <1>1, <1>2, <1>3 DEF Next

(* Conn::next is wait-free: a tunReader hands a packet to the kernel within *)
(* N + 2 steps of its own per part, whatever the other threads and the      *)
(* clock do meanwhile.                                                      *)
THEOREM WalksAreBounded == Spec => WalksEnd
<1> DEFINE Shorter ==
        \A t \in TunReaders :
            /\ StepsLeft(t)' \in 0 .. USO_PARTS * (N + 2)
            /\ txPc[t] # "read" => UNCHANGED TxLocals(t) \/ StepsLeft(t)' < StepsLeft(t)
<1>1. IInv /\ StepsBounded' /\ [Next]_vars => [Shorter]_vars
  <2> SUFFICES ASSUME IInv, StepsBounded', [Next]_vars, NEW t \in TunReaders
               PROVE  /\ StepsLeft(t)' \in 0 .. USO_PARTS * (N + 2)
                      /\ txPc[t] # "read" =>
                            UNCHANGED TxLocals(t) \/ StepsLeft(t)' < StepsLeft(t)
    OBVIOUS
  <2> QED BY OwnStep, OthersStep DEF IInv, StepsBounded
<1>2. IInv => StepsBounded
  BY StepsRange DEF IInv, StepsBounded
<1> QED BY <1>1, <1>2, StripingInvariant, PTL DEF Spec, WalksEnd

-----------------------------------------------------------------------------
(* The line of slotsStats.                                                  *)

(* The line so far: what it says of a slot already loaded is explained.     *)
LineSoFar ==
    \A s \in 0 .. stAt - 1 :
        IF s \in stDead THEN Explained(s, stNow) ELSE lastSeen[s] + Timeout >= stNow

StatsLocals ==
    /\ stPc \in {"now", "slots", "print"}
    /\ stNow \in StartMs .. MaxClock /\ stNow <= clock
    /\ stAt \in 0 .. N /\ stDead \subseteq 0 .. stAt - 1
    /\ stPc = "now" => stAt = 0
    /\ stPc = "slots" => stAt < N
    /\ stPc = "print" => stAt = N

StatsInv == IInv /\ StatsLocals /\ LineSoFar

LEMMA StatsInvInit == StatsInit => StatsInv
<1> SUFFICES ASSUME StatsInit PROVE StatsInv
  OBVIOUS
<1>1. IInv
  BY IInvInit DEF StatsInit
<1>2. StatsLocals /\ LineSoFar
  BY NAssumption, TimeAssumption DEF StatsInit, Init, StatsLocals, LineSoFar
<1> QED BY <1>1, <1>2 DEF StatsInv

(* A line under construction stays explained while other threads run: the   *)
(* clock does not go back, stamps only grow, the history only grows.        *)
LEMMA LineKept ==
    ASSUME IInv, StatsLocals, LineSoFar, [Next]_vars, UNCHANGED stVars
    PROVE  StatsLocals' /\ LineSoFar'
<1>a. TypeOK /\ Counters /\ StampFresh /\ TypeOK'
  BY IInvStep DEF IInv
<1>b. clock' \in Int /\ clock \in Int /\ clock' >= clock
  <2>1. clock' = clock \/ clock' = clock + 1
    BY DEF Next, TunReader, UdpReader, Tick, SendStart, NextTicket, NextScan, SendPart,
           Recvmmsg, RecvMsg, vars
  <2>2. clock \in Int
    BY <1>a, TimeAssumption DEF TypeOK, SharedTypeOK
  <2> QED BY <2>1, <2>2
<1>c. stNow \in Int
  BY TimeAssumption DEF StatsLocals
<1>1. StatsLocals'
  BY <1>b, <1>c DEF StatsLocals, stVars
<1>2. ASSUME NEW s \in 0 .. stAt - 1
      PROVE  IF s \in stDead THEN Explained(s, stNow)' ELSE lastSeen'[s] + Timeout >= stNow
  <2>1. s \in Slots
    BY NAssumption DEF StatsLocals, Slots
  <2>2. CASE s \in stDead
    <3>1. Explained(s, stNow)
      BY <1>2, <2>2 DEF LineSoFar
    <3>2. \A now \in Int : Explained(s, now) => s \in everSilent' \/ lastSeen'[s] > now
      BY <1>a, <2>1, ExplainedStep DEF Explained
    <3>3. stNow' = stNow
      BY DEF stVars
    <3> QED BY <1>c, <2>2, <3>1, <3>2, <3>3 DEF Explained
  <2>3. CASE s \notin stDead
    <3>1. lastSeen[s] + Timeout >= stNow
      BY <1>2, <2>3 DEF LineSoFar
    <3>2. lastSeen'[s] >= lastSeen[s]
      BY <1>a, <2>1, StampStep
    <3>3. lastSeen[s] \in Int /\ lastSeen'[s] \in Int
      BY <1>a, <2>1, TimeAssumption DEF TypeOK, SharedTypeOK
    <3> QED BY <1>c, <2>3, <3>1, <3>2, <3>3, TimeAssumption
  <2> QED BY <2>2, <2>3
<1>3. LineSoFar'
  BY <1>2 DEF LineSoFar, stVars
<1> QED BY <1>1, <1>3

(* The stats thread's own steps: a slot it loads is alive, or explained by  *)
(* NotAliveExplained.                                                       *)
LEMMA LineGrown ==
    ASSUME IInv, StatsLocals, LineSoFar, StatsThread
    PROVE  StatsLocals' /\ LineSoFar'
<1>a. clock \in StartMs .. MaxClock
  BY DEF IInv, TypeOK, SharedTypeOK
<1>1. CASE StatsNow
  BY <1>1, <1>a, NAssumption, TimeAssumption DEF StatsNow, StatsLocals, LineSoFar, vars
<1>2. CASE StatsSlot
  <2>1. /\ stAt \in Slots /\ stNow \in StartMs .. MaxClock /\ stNow <= clock
        /\ stAt \in Nat
    BY <1>2, NAssumption DEF StatsSlot, StatsLocals, Slots
  <2>2. /\ UNCHANGED <<clock, lastSeen, everSilent, stNow>> /\ stAt' = stAt + 1
    BY <1>2 DEF StatsSlot, vars
  <2>3. StatsLocals'
    BY <1>2, <2>1, <2>2, NAssumption DEF StatsSlot, StatsLocals, Slots
  <2>4. stAt \notin stDead
    BY <2>1 DEF StatsLocals
  <2>5. ASSUME NEW s \in 0 .. stAt
        PROVE  IF s \in stDead' THEN Explained(s, stNow) ELSE lastSeen[s] + Timeout >= stNow
    <3>1. CASE s = stAt /\ Alive(stNow, lastSeen[stAt])
      <4>1. lastSeen[stAt] \in StartMs .. MaxClock
        BY <2>1 DEF IInv, TypeOK, SharedTypeOK
      <4>2. stNow <= lastSeen[stAt] + Timeout
        BY <3>1, <2>1, <4>1, AliveMeaning
      <4> QED BY <1>2, <2>1, <2>4, <3>1, <4>1, <4>2, TimeAssumption DEF StatsSlot
    <3>2. CASE s = stAt /\ ~Alive(stNow, lastSeen[stAt])
      <4>1. Explained(stAt, stNow)
        BY <2>1, <3>2, NotAliveExplained DEF IInv
      <4> QED BY <1>2, <3>2, <4>1 DEF StatsSlot
    <3>3. CASE s # stAt
      <4>1. s \in 0 .. stAt - 1
        BY <2>1, <3>3
      <4>2. s \in stDead' <=> s \in stDead
        BY <1>2, <3>3 DEF StatsSlot
      <4> QED BY <4>1, <4>2 DEF LineSoFar
    <3> QED BY <3>1, <3>2, <3>3
  <2>6. LineSoFar'
    BY <2>1, <2>2, <2>5 DEF LineSoFar, Explained
  <2> QED BY <2>3, <2>6
<1>3. CASE StatsPrint
  BY <1>3, <1>a, NAssumption, TimeAssumption DEF StatsPrint, StatsLocals, LineSoFar, vars
<1> QED BY <1>1, <1>2, <1>3 DEF StatsThread

LEMMA StatsInvStep == StatsInv /\ [StatsNext]_allVars => StatsInv'
<1> SUFFICES ASSUME StatsInv, [StatsNext]_allVars PROVE StatsInv'
  OBVIOUS
<1>1. CASE Next /\ UNCHANGED stVars
  BY <1>1, IInvStep, LineKept DEF StatsInv
<1>2. CASE StatsThread
  <2>1. UNCHANGED vars
    BY <1>2 DEF StatsThread, StatsNow, StatsSlot, StatsPrint
  <2> QED BY <1>2, <2>1, IInvStep, LineGrown DEF StatsInv
<1>3. CASE UNCHANGED allVars
  BY <1>3, IInvStep, LineKept DEF StatsInv, allVars
<1> QED BY <1>1, <1>2, <1>3 DEF StatsNext

(* The line of slotsStats never shows a slot alive that was not heard from  *)
(* within timeoutMs of its time; one it shows dead has been silent, or was  *)
(* stamped after the time of the line.                                      *)
THEOREM StatsLineExplained == StatsSpec => []StatsExplained
<1>1. StatsInv => StatsExplained
  BY NAssumption DEF StatsInv, StatsLocals, LineSoFar, StatsExplained, Explained, Slots
<1> QED BY <1>1, StatsInvInit, StatsInvStep, PTL DEF StatsSpec
=============================================================================
