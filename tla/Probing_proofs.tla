--------------------------- MODULE Probing_proofs ---------------------------
(***************************************************************************)
(* For any number of slots and any interval, timeout and delays: a path    *)
(* that works is not given up, one that does not is, and data goes over a  *)
(* path long down only when the stamps of all that work came too late.     *)
(***************************************************************************)
EXTENDS Probing, TLAPS

\* The longest time until the prober's next datagram over p.
DueIn(p) ==
    (IF at <= p THEN 0 ELSE Sleep + Late + N * Block) + (p + 1 - at) * Block - wait

\* Any time since the slot was heard and the path got well is no longer than a round
\* before the next evidence: a datagram on its way, or the probe to be sent.
Fed(p) ==
    Works(p) => \A y \in Nat :
        y <= age[p] /\ y <= good[p] =>
            y <= Gap - DueIn(p) \/ \E t \in net[p] : t < y /\ y <= Gap + t

\* Over a path that does not work all evidence is from before.
Starved(p) ==
    /\ \A t \in net[p] : bad[p] <= t
    /\ bad[p] <= age[p] + Delay

Counted(p) == IF Works(p) THEN bad[p] = 0 ELSE good[p] = 0

\* The walk has passed the slot by: it was stamped after now was read, or its path
\* did not work for long.
Passed(p) == age[p] < since \/ good[p] <= Gap + Delay + since

\* Slots already looked at were passed by, and so were all when a dead one is returned.
Walked ==
    TimeoutCovers =>
        /\ tx = "scan" => \A p \in Slots \ left : Passed(p)
        /\ tx = "send" => age[slot] <= Timeout + since \/ \A p \in Slots : Passed(p)

Inv ==
    /\ TypeOK
    /\ \A p \in Slots : Counted(p) /\ Fed(p) /\ Starved(p)
    /\ Walked

-----------------------------------------------------------------------------

\* Products with a bound.
LEMMA MulMono ==
    ASSUME NEW x \in Int, NEW y \in Int, x <= y
    PROVE  x * Block \in Int /\ y * Block \in Int /\ x * Block <= y * Block
<1>1. Block \in Nat
  BY ProbingAssumption
<1>2. PICK e \in Nat : y = x + e
  <2>1. y - x \in Nat /\ y = x + (y - x)
    OBVIOUS
  <2> QED
    BY <2>1
<1>3. y * Block = x * Block + e * Block
  BY <1>1, <1>2
<1>4. e * Block \in Nat /\ x * Block \in Int /\ y * Block \in Int
  BY <1>1
<1> QED
  BY <1>3, <1>4

\* The constants are natural numbers, and the wrap only shortens a sleep.
LEMMA Consts ==
    /\ N \in Nat /\ N >= 1 /\ IntervalMs \in Nat /\ Late \in Nat /\ Block \in Nat
    /\ Delay \in Nat /\ Timeout \in Nat /\ Walk \in Nat
    /\ Sleep \in Nat /\ Sleep <= IntervalMs
    /\ N * Block \in Nat /\ Gap = N * Block + IntervalMs + Late /\ Gap \in Nat
    /\ AgeCap = Timeout + Walk + 1 /\ BadCap = Timeout + Delay + Walk + 1
    /\ GoodCap = Gap + Delay + Walk + 1
    /\ \A p \in Slots : p \in Nat /\ p >= 1 /\ p <= N
    /\ AnySlot \in Slots
    /\ AgeCap \in Nat /\ BadCap \in Nat /\ GoodCap \in Nat
<1>1. Sleep \in Nat /\ Sleep <= IntervalMs
  BY ProbingAssumption DEF Sleep
<1>2. N * Block \in Nat
  BY ProbingAssumption
<1>3. Gap = N * Block + IntervalMs + Late /\ Gap \in Nat
  BY <1>2, ProbingAssumption DEF Gap
<1>4. N >= 1 /\ \A p \in Slots : p \in Nat /\ p >= 1 /\ p <= N
  <2>1. \A p \in Slots : p \in 1 .. N
    BY ProbingAssumption
  <2>2. PICK p \in Slots : TRUE
    BY ProbingAssumption
  <2> QED
    BY <2>1, <2>2, ProbingAssumption
<1>5. AnySlot \in Slots
  BY ProbingAssumption DEF AnySlot
<1> QED
  BY <1>1, <1>2, <1>3, <1>4, <1>5, ProbingAssumption DEF AgeCap, BadCap, GoodCap

\* A probe is due within a round (plane.cpp:308-322).
LEMMA DueBounded ==
    ASSUME TypeOK, NEW p \in Slots
    PROVE  DueIn(p) \in Nat /\ DueIn(p) <= Gap
<1>1. /\ p \in Nat /\ p >= 1 /\ p <= N /\ at \in Nat /\ at >= 1 /\ at <= N + 1
      /\ wait \in Nat /\ wait <= (IF at = N + 1 THEN Sleep + Late ELSE Block)
  BY Consts DEF TypeOK
<1> DEFINE k == p + 1 - at
<1>2. k \in Int
  BY <1>1
<1>3. CASE at <= p
  <2>1. 1 * Block <= k * Block /\ k * Block <= N * Block /\ k * Block \in Int
    BY <1>1, <1>2, <1>3, Consts, MulMono
  <2>2. wait <= Block
    BY <1>1, <1>3, Consts
  <2>3. DueIn(p) = k * Block - wait
    BY <1>1, <1>3, <2>1 DEF DueIn
  <2> HIDE DEF k
  <2> QED
    BY <1>1, <2>1, <2>2, <2>3, Consts
<1>4. CASE ~(at <= p)
  <2>1. DueIn(p) = Sleep + Late + N * Block + k * Block - wait
    BY <1>4 DEF DueIn
  <2>2. k * Block <= 0 * Block /\ k * Block \in Int
    BY <1>1, <1>2, <1>4, Consts, MulMono
  <2>3. N * Block + k * Block = (N + k) * Block
    BY <1>2, Consts
  <2>4. CASE at = N + 1
    <3>1. 0 * Block <= (N + k) * Block /\ (N + k) * Block \in Int
      BY <1>1, <2>4, Consts, MulMono
    <3>2. wait <= Sleep + Late
      BY <1>1, <2>4
    <3> HIDE DEF k
    <3> QED
      BY <1>1, <2>1, <2>2, <2>3, <3>1, <3>2, Consts
  <2>5. CASE at # N + 1
    <3>1. 1 * Block <= (N + k) * Block /\ (N + k) * Block \in Int
      BY <1>1, <2>5, Consts, MulMono
    <3>2. wait <= Block
      BY <1>1, <2>5
    <3> HIDE DEF k
    <3> QED
      BY <1>1, <2>1, <2>2, <2>3, <3>1, <3>2, Consts
  <2> QED
    BY <2>4, <2>5
<1> QED
  BY <1>3, <1>4

\* Every unit brings the next probe a unit nearer.
LEMMA DueTick ==
    ASSUME TypeOK, NEW p \in Slots, at' = at, wait' = wait + 1
    PROVE  DueIn(p)' = DueIn(p) - 1
<1>1. p \in Int /\ at \in Int /\ wait \in Int /\ (p + 1 - at) * Block \in Int
  BY Consts DEF TypeOK
<1>2. (IF at <= p THEN 0 ELSE Sleep + Late + N * Block) \in Int
  BY Consts
<1> DEFINE c == (IF at <= p THEN 0 ELSE Sleep + Late + N * Block)  d == (p + 1 - at) * Block
<1>3. DueIn(p) = c + d - wait /\ DueIn(p)' = c + d - (wait + 1)
  BY DEF DueIn
<1> HIDE DEF c, d
<1>4. c \in Int /\ d \in Int
  BY <1>1, <1>2 DEF c, d
<1> QED
  BY <1>1, <1>3, <1>4

\* A probe is due within a round again after the prober has sent one.
LEMMA DueSent ==
    ASSUME TypeOK, NEW p \in Slots, SendProbe
    PROVE  DueIn(p)' \in Int /\ DueIn(p)' <= Gap
<1>1. p \in Nat /\ p >= 1 /\ p <= N /\ at \in Nat /\ at >= 1
  BY Consts DEF TypeOK
<1>2. at <= N /\ at' = at + 1 /\ wait' = 0
  BY DEF SendProbe
<1> DEFINE c == (IF at + 1 <= p THEN 0 ELSE Sleep + Late + N * Block)
           k == p - at
<1>3. k \in Int /\ p + 1 - (at + 1) = k /\ (at + 1 <= p => k <= N) /\ (~(at + 1 <= p) => k <= 0)
  BY <1>1, Consts
<1>4. DueIn(p)' = c + k * Block - 0
  BY <1>2, <1>3 DEF DueIn
<1>5. k * Block \in Int /\ (k <= N => k * Block <= N * Block) /\ (k <= 0 => k * Block <= 0 * Block)
  BY <1>3, MulMono, Consts
<1>6. CASE at + 1 <= p
  <2>1. c = 0
    BY <1>6
  <2> HIDE DEF c, k
  <2> QED
    BY <1>3, <1>4, <1>5, <1>6, <2>1, Consts
<1>7. CASE ~(at + 1 <= p)
  <2>1. c = Sleep + Late + N * Block
    BY <1>7
  <2> HIDE DEF c, k
  <2> QED
    BY <1>3, <1>4, <1>5, <1>7, <2>1, Consts
<1> QED
  BY <1>6, <1>7

\* The prober's steps never put off a probe but the one just sent.
LEMMA DueStep ==
    ASSUME TypeOK, NEW p \in Slots, SendProbe \/ WakeUp, SendProbe => p # at
    PROVE  DueIn(p)' \in Int /\ DueIn(p)' <= DueIn(p)
<1>1. /\ p \in Nat /\ p >= 1 /\ p <= N /\ at \in Nat /\ at >= 1 /\ at <= N + 1
      /\ wait \in Nat /\ wait <= (IF at = N + 1 THEN Sleep + Late ELSE Block)
  BY Consts DEF TypeOK
<1>2. (p + 1 - at) * Block \in Int /\ (p - at) * Block \in Int /\ p * Block \in Int
  BY <1>1, Consts
<1>3. CASE SendProbe
  <2>1. at <= N /\ at' = at + 1 /\ wait' = 0 /\ p # at
    BY <1>3 DEF SendProbe
  <2>2. (p + 1 - at) * Block = (p - at) * Block + Block
    BY <1>1, Consts
  <2>3. p + 1 - (at + 1) = p - at /\ wait <= Block /\ (at <= p <=> at + 1 <= p)
    BY <1>1, <2>1, Consts
  <2> DEFINE c == (IF at <= p THEN 0 ELSE Sleep + Late + N * Block)
             d == (p - at) * Block
  <2>4. DueIn(p)' = c + d - 0
    BY <2>1, <2>3 DEF DueIn
  <2>5. DueIn(p) = c + (d + Block) - wait
    BY <2>2 DEF DueIn
  <2>6. c \in Int /\ d \in Int
    BY <1>2, Consts
  <2> HIDE DEF c, d
  <2> QED
    BY <1>1, <2>3, <2>4, <2>5, <2>6, Consts
<1>4. CASE WakeUp
  <2>1. at = N + 1 /\ at' = 1 /\ wait' = 0
    BY <1>4 DEF WakeUp, FirstSlot
  <2>2. N * Block + (p + 1 - at) * Block = p * Block
    BY <1>1, <2>1, Consts
  <2>3. DueIn(p)' = p * Block
    <3>1. 1 <= p /\ p + 1 - 1 = p
      BY <1>1
    <3>2. DueIn(p)' = 0 + p * Block - 0
      BY <2>1, <3>1 DEF DueIn
    <3> QED
      BY <1>2, <3>2
  <2>4. DueIn(p) = Sleep + Late + N * Block + (p + 1 - at) * Block - wait
    BY <1>1, <2>1, Consts DEF DueIn
  <2>5. wait <= Sleep + Late
    BY <1>1, <2>1
  <2> QED
    BY <1>1, <1>2, <2>2, <2>3, <2>4, <2>5, Consts
<1> QED
  BY <1>3, <1>4

-----------------------------------------------------------------------------
(* Types.                                                                  *)

\* What TypeOK says of a slot.
LEMMA Typed ==
    ASSUME TypeOK, NEW p \in Slots
    PROVE  /\ age[p] \in Nat /\ age[p] <= AgeCap
           /\ good[p] \in Nat /\ good[p] <= GoodCap
           /\ bad[p] \in Nat /\ bad[p] <= BadCap
           /\ \A t \in net[p] : t \in Nat /\ t <= Delay
           /\ since \in Nat /\ since <= Walk
<1>1. /\ age[p] \in 0 .. AgeCap /\ good[p] \in 0 .. GoodCap /\ bad[p] \in 0 .. BadCap
      /\ net[p] \in SUBSET (0 .. Delay) /\ since \in 0 .. Walk
  BY DEF TypeOK
<1> QED
  BY <1>1, Consts

\* A capped age is in range again.
LEMMA OlderIn ==
    ASSUME NEW c \in Nat, NEW x \in 0 .. c
    PROVE  Older(x, c) \in 0 .. c /\ Older(x, c) <= x + 1 /\ (x < c => Older(x, c) = x + 1)
BY DEF Older

LEMMA TypeTick == TypeOK /\ Tick => TypeOK'
<1> SUFFICES ASSUME TypeOK, Tick PROVE TypeOK'
  OBVIOUS
<1>1. peerUp' \in BOOLEAN /\ up' \in [Slots -> BOOLEAN] /\ at' \in 1 .. N + 1
      /\ tx' \in {"read", "scan", "send"} /\ base' \in Slots /\ left' \subseteq Slots /\ slot' \in Slots
  BY DEF TypeOK, Tick
<1>2. wait' \in 0 .. (IF at' = N + 1 THEN Sleep + Late ELSE Block)
  BY Consts DEF TypeOK, Tick, MayPass
<1>3. net' \in [Slots -> SUBSET (0 .. Delay)]
  <2>1. ASSUME NEW p \in Slots PROVE {t + 1 : t \in net[p]} \in SUBSET (0 .. Delay)
    <3>1. net[p] \in SUBSET (0 .. Delay) /\ Delay \notin net[p]
      BY DEF TypeOK, Tick, MayPass
    <3> QED
      BY <3>1, Consts
  <2> QED
    BY <2>1 DEF Tick
<1>4. age' \in [Slots -> 0 .. AgeCap]
  <2>1. ASSUME NEW p \in Slots PROVE Older(age[p], AgeCap) \in 0 .. AgeCap
    BY Consts, OlderIn DEF TypeOK
  <2> QED
    BY <2>1 DEF Tick
<1>5. good' \in [Slots -> 0 .. GoodCap]
  <2>1. ASSUME NEW p \in Slots PROVE Older(good[p], GoodCap) \in 0 .. GoodCap
    BY Consts, OlderIn DEF TypeOK
  <2>2. 0 \in 0 .. GoodCap
    BY Consts
  <2> QED
    BY <2>1, <2>2 DEF Tick
<1>6. bad' \in [Slots -> 0 .. BadCap]
  <2>1. ASSUME NEW p \in Slots PROVE Older(bad[p], BadCap) \in 0 .. BadCap
    BY Consts, OlderIn DEF TypeOK
  <2>2. 0 \in 0 .. BadCap
    BY Consts
  <2> QED
    BY <2>1, <2>2 DEF Tick
<1>7. since' \in 0 .. Walk
  <2>1. since \in 0 .. Walk /\ (tx # "read" => since < Walk)
    BY DEF TypeOK, Tick, MayPass
  <2> QED
    BY <2>1, Consts DEF Tick
<1> QED
  BY <1>1, <1>2, <1>3, <1>4, <1>5, <1>6, <1>7 DEF TypeOK

LEMMA TypeStep == TypeOK /\ [Next]_vars => TypeOK'
<1> SUFFICES ASSUME TypeOK, [Next]_vars PROVE TypeOK'
  OBVIOUS
<1>0. /\ 0 \in 0 .. Block /\ 0 \in 0 .. Sleep + Late /\ 0 \in 0 .. Delay /\ 0 \in 0 .. AgeCap
      /\ 0 \in 0 .. GoodCap /\ 0 \in 0 .. BadCap /\ 0 \in 0 .. Walk
      /\ 1 \in 1 .. N + 1 /\ 1 # N + 1 /\ AnySlot \in Slots
  BY Consts
<1>1. ASSUME NEW p PROVE Sent(p) \in [Slots -> SUBSET (0 .. Delay)]
  BY <1>0 DEF TypeOK, Sent
<1>2. CASE Tick
  BY <1>2, TypeTick
<1>3. CASE SendProbe
  <2>1. at' \in 1 .. N + 1 /\ wait' = 0
    BY <1>3, Consts DEF SendProbe, TypeOK
  <2> QED
    BY <1>0, <1>1, <1>3, <2>1 DEF SendProbe, TypeOK, nodeVars, txVars
<1>4. CASE WakeUp
  BY <1>0, <1>4 DEF WakeUp, FirstSlot, TypeOK, pathVars, nodeVars, txVars
<1>5. CASE PeerStops
  BY <1>0, <1>5 DEF PeerStops, TypeOK, nodeVars, txVars
<1>6. CASE PeerStarts
  BY <1>0, <1>6 DEF PeerStarts, TypeOK, nodeVars, txVars
<1>7. CASE NodeRestarts
  <2>1. bad' \in [Slots -> 0 .. BadCap]
    BY <1>7, Consts DEF NodeRestarts, TypeOK
  <2> QED
    BY <1>0, <1>7, <2>1 DEF NodeRestarts, ReadsNext, StartAge, TypeOK, proberVars
<1>8. ASSUME NEW p \in Slots, PeerSends(p) PROVE TypeOK'
  BY <1>1, <1>8 DEF PeerSends, TypeOK, proberVars, nodeVars, txVars
<1>9. ASSUME NEW p \in Slots, PathChanges(p) PROVE TypeOK'
  BY <1>0, <1>9 DEF PathChanges, TypeOK, proberVars, nodeVars, txVars
<1>10. CASE NodeSends
  BY <1>0, <1>10 DEF NodeSends, ReadsNext, AgeOnSend, TypeOK, proberVars, pathVars
<1>11. ASSUME NEW p \in Slots, NEW t, Lose(p, t) PROVE TypeOK'
  BY <1>11 DEF Lose, TypeOK, proberVars, nodeVars, txVars
<1>12. ASSUME NEW p \in Slots, NEW t, Arrive(p, t) PROVE TypeOK'
  <2>1. net' \in [Slots -> SUBSET (0 .. Delay)]
    BY <1>12 DEF Arrive, TypeOK
  <2>2. age' \in [Slots -> 0 .. AgeCap]
    <3>1. PICK a \in 0 .. t : a <= age[p] /\ age' = [age EXCEPT ![p] = a]
      BY <1>12 DEF Arrive
    <3>2. a \in 0 .. AgeCap
      <4>1. t \in 0 .. Delay /\ age[p] \in 0 .. AgeCap
        BY <1>12 DEF Arrive, TypeOK
      <4> QED
        BY <3>1, <4>1, Consts
    <3> QED
      BY <3>1, <3>2 DEF TypeOK
  <2> QED
    BY <1>12, <2>1, <2>2 DEF Arrive, TypeOK, proberVars, txVars
<1>13. ASSUME NEW p \in Slots, TakePacket(p) PROVE TypeOK'
  BY <1>0, <1>13 DEF TakePacket, TypeOK, proberVars, pathVars
<1>14. ASSUME NEW p \in Slots, Look(p) PROVE TypeOK'
  BY <1>0, <1>14 DEF Look, Returns, Picked, TypeOK, proberVars, pathVars
<1>15. CASE UNCHANGED vars
  BY <1>15 DEF vars, proberVars, pathVars, nodeVars, txVars, TypeOK
<1> QED
  BY <1>2, <1>3, <1>4, <1>5, <1>6, <1>7, <1>8, <1>9, <1>10, <1>11, <1>12, <1>13, <1>14, <1>15 DEF Next

-----------------------------------------------------------------------------
(* Evidence.                                                               *)

\* Datagrams that stay on the way and a probe that comes no later, or one just sent,
\* keep a slot fed.
LEMMA FedKept ==
    ASSUME TypeOK, NEW p \in Slots, Fed(p), Works(p),
           age[p]' = age[p], good[p]' = good[p],
           \/ net[p]' = net[p] /\ DueIn(p)' \in Int /\ DueIn(p)' <= DueIn(p)
           \/ net[p]' = net[p] \cup {0} /\ DueIn(p)' \in Int /\ DueIn(p)' <= Gap
    PROVE  Fed(p)'
<1>1. DueIn(p) \in Int /\ DueIn(p) >= 0 /\ Gap \in Nat /\ Gap' = Gap
  BY DueBounded, Consts DEF Gap
<1> SUFFICES ASSUME NEW y \in Nat, y <= age[p], y <= good[p]
             PROVE  y <= Gap - DueIn(p)' \/ \E t \in net[p]' : t < y /\ y <= Gap + t
  BY <1>1 DEF Fed
<1>2. CASE y <= Gap - DueIn(p)
  <2>1. CASE net[p]' = net[p] /\ DueIn(p)' \in Int /\ DueIn(p)' <= DueIn(p)
    BY <1>1, <1>2, <2>1
  <2>2. CASE /\ net[p]' = net[p] \cup {0} /\ DueIn(p)' \in Int /\ DueIn(p)' <= Gap
             /\ y = 0
    BY <1>1, <2>2
  <2>3. CASE net[p]' = net[p] \cup {0} /\ y # 0
    <3>1. 0 \in net[p]' /\ 0 < y /\ y <= Gap + 0
      BY <1>1, <1>2, <2>3
    <3> QED
      BY <3>1
  <2> QED
    BY <2>1, <2>2, <2>3
<1>3. CASE \E t \in net[p] : t < y /\ y <= Gap + t
  BY <1>3
<1> QED
  BY <1>2, <1>3 DEF Fed

\* A slot just started, or a path just got well, has a round to go.
LEMMA FedFresh ==
    ASSUME TypeOK, NEW p \in Slots, at' = at, wait' = wait, age[p]' = 0 \/ good[p]' = 0
    PROVE  Fed(p)'
<1>1. DueIn(p) \in Int /\ DueIn(p) <= Gap /\ Gap \in Nat
  BY DueBounded, Consts
<1>2. DueIn(p)' = DueIn(p) /\ Gap' = Gap
  BY DEF DueIn, Gap
<1>3. ASSUME NEW y \in Nat, y <= age[p]', y <= good[p]' PROVE y <= Gap - DueIn(p)'
  BY <1>1, <1>2, <1>3
<1> QED
  BY <1>2, <1>3 DEF Fed

\* No evidence but old one on a path that does not work.
LEMMA StarvedKept ==
    ASSUME TypeOK, NEW p \in Slots, Starved(p),
           bad[p]' = bad[p] \/ bad[p]' = 0, age[p]' = age[p],
           net[p]' \subseteq net[p] \/ (net[p]' \subseteq net[p] \cup {0} /\ bad[p]' = 0)
    PROVE  Starved(p)'
<1>1. age[p] \in Nat /\ bad[p] \in Nat /\ \A t \in net[p] : t \in Nat
  BY Typed
<1>2. \A t \in net[p] : bad[p] <= t
  BY DEF Starved
<1>3. \A t \in net[p]' : bad[p]' <= t
  BY <1>1, <1>2
<1>4. bad[p] <= age[p] + Delay
  BY DEF Starved
<1>5. bad[p]' <= age[p]' + Delay
  BY <1>1, <1>4, Consts
<1> QED
  BY <1>3, <1>5 DEF Starved

\* Nothing of a slot changes.
LEMMA Untouched ==
    ASSUME NEW p \in Slots, Counted(p) /\ Fed(p) /\ Starved(p), peerUp' = peerUp, up[p]' = up[p],
           at' = at, wait' = wait, net[p]' = net[p], age[p]' = age[p],
           good[p]' = good[p], bad[p]' = bad[p]
    PROVE  Counted(p)' /\ Fed(p)' /\ Starved(p)'
<1>1. Works(p)' = Works(p)
  BY DEF Works
<1>2. Counted(p)' /\ Starved(p)'
  BY <1>1 DEF Counted, Starved
<1>3. DueIn(p)' = DueIn(p)
  BY DEF DueIn
<1>4. Fed(p)'
  BY <1>1, <1>3 DEF Fed, Gap
<1> QED
  BY <1>2, <1>4

-----------------------------------------------------------------------------
(* The steps.                                                              *)

LEMMA TickKeeps == Inv /\ Tick => \A p \in Slots : Counted(p)' /\ Fed(p)' /\ Starved(p)'
<1> SUFFICES ASSUME Inv, Tick, NEW p \in Slots PROVE Counted(p)' /\ Fed(p)' /\ Starved(p)'
  OBVIOUS
<1>1. TypeOK /\ Counted(p) /\ Fed(p) /\ Starved(p)
  BY DEF Inv
<1>2. /\ age[p] \in 0 .. AgeCap /\ good[p] \in 0 .. GoodCap /\ bad[p] \in 0 .. BadCap
      /\ \A t \in net[p] : t \in Int
  BY <1>1, Consts, Typed DEF TypeOK
<1>3. /\ peerUp' = peerUp /\ up' = up /\ at' = at /\ (peerUp => wait' = wait + 1)
      /\ age[p]' = Older(age[p], AgeCap)
      /\ good[p]' = (IF Works(p) THEN Older(good[p], GoodCap) ELSE 0)
      /\ bad[p]' = (IF Works(p) THEN 0 ELSE Older(bad[p], BadCap))
      /\ net[p]' = {t + 1 : t \in net[p]}
  BY DEF Tick
<1>4. Works(p)' = Works(p)
  BY <1>3 DEF Works
<1>5. Counted(p)'
  BY <1>3, <1>4 DEF Counted
<1>6. /\ age[p]' \in Int /\ age[p]' <= age[p] + 1 /\ (age[p] < AgeCap => age[p]' = age[p] + 1)
      /\ (age[p] = AgeCap => age[p]' = AgeCap)
  BY <1>2, <1>3, OlderIn, Consts DEF Older
<1>7. Fed(p)'
  <2>1. Gap' = Gap
    BY DEF Gap
  <2> SUFFICES ASSUME Works(p), NEW y \in Nat, y <= age[p]', y <= good[p]'
               PROVE  y <= Gap - DueIn(p)' \/ \E t \in net[p]' : t < y /\ y <= Gap + t
    BY <1>4, <2>1 DEF Fed
  <2>2. good[p]' \in Int /\ good[p]' <= good[p] + 1
    <3>1. GoodCap \in Nat /\ good[p]' = Older(good[p], GoodCap)
      BY <1>3, Consts
    <3>2. Older(good[p], GoodCap) \in 0 .. GoodCap /\ Older(good[p], GoodCap) <= good[p] + 1
      BY <1>2, <3>1, OlderIn
    <3> QED
      BY <3>1, <3>2
  <2>3. DueIn(p)' = DueIn(p) - 1 /\ DueIn(p) \in Int /\ DueIn(p) <= Gap /\ Gap \in Int
    BY <1>1, <1>3, DueTick, DueBounded, Consts DEF Works
  <2>4. CASE y = 0
    BY <2>3, <2>4
  <2>5. CASE y # 0
    <3> DEFINE x == y - 1
    <3>1. x \in Nat /\ y = x + 1 /\ x <= age[p] /\ x <= good[p]
      BY <1>2, <1>6, <2>2, <2>5
    <3>2. x <= Gap - DueIn(p) \/ \E t \in net[p] : t < x /\ x <= Gap + t
      BY <1>1, <3>1 DEF Fed
    <3> HIDE DEF x
    <3>3. CASE x <= Gap - DueIn(p)
      BY <2>3, <3>1, <3>3
    <3>4. ASSUME NEW t \in net[p], t < x, x <= Gap + t
          PROVE  \E u \in net[p]' : u < y /\ y <= Gap + u
      <4>1. t + 1 \in net[p]' /\ t \in Int
        BY <1>2, <1>3
      <4>2. t + 1 < y /\ y <= Gap + (t + 1)
        BY <2>3, <3>1, <3>4, <4>1
      <4> QED
        BY <4>1, <4>2
    <3> QED
      BY <3>2, <3>3, <3>4
  <2> QED
    BY <2>4, <2>5
<1>8. Starved(p)'
  <2>1. bad[p]' \in 0 .. BadCap /\ bad[p]' <= bad[p] + 1
    <3>1. BadCap \in Nat
      BY Consts
    <3>2. Older(bad[p], BadCap) \in 0 .. BadCap /\ Older(bad[p], BadCap) <= bad[p] + 1
      BY <1>2, <3>1, OlderIn
    <3> QED
      BY <1>2, <1>3, <3>1, <3>2
  <2>2. \A t \in net[p]' : bad[p]' <= t
    BY <1>1, <1>2, <1>3, <2>1 DEF Starved
  <2>3. bad[p]' <= age[p]' + Delay
    <3>1. bad[p] <= age[p] + Delay
      BY <1>1 DEF Starved
    <3>2. CASE age[p] = AgeCap
      BY <1>6, <2>1, <3>2, Consts
    <3>3. CASE age[p] < AgeCap
      BY <1>2, <1>6, <2>1, <3>1, <3>3, Consts
    <3> QED
      BY <1>2, <3>2, <3>3, Consts
  <2> QED
    BY <2>2, <2>3 DEF Starved
<1> QED
  BY <1>5, <1>7, <1>8

\* A datagram leaves the peer over q: a probe, or data.
LEMMA SentKeeps ==
    ASSUME Inv, peerUp, NEW q, net' = Sent(q), NEW p \in Slots,
           UNCHANGED <<peerUp, up, good, bad, nodeVars>>,
           DueIn(p)' \in Int, DueIn(p)' <= DueIn(p) \/ (p = q /\ DueIn(p)' <= Gap)
    PROVE  Counted(p)' /\ Fed(p)' /\ Starved(p)'
<1>1. TypeOK /\ Counted(p) /\ Fed(p) /\ Starved(p)
  BY DEF Inv
<1>2. Works(p)' = Works(p) /\ age[p]' = age[p] /\ good[p]' = good[p] /\ bad[p]' = bad[p]
  BY DEF Works, nodeVars
<1>3. Counted(p)'
  BY <1>1, <1>2 DEF Counted
<1>4. net[p]' = IF p = q /\ up[p] THEN net[p] \cup {0} ELSE net[p]
  BY <1>1 DEF Sent, TypeOK
<1>5. CASE Works(p)
  <2>1. bad[p]' = 0 /\ up[p]
    BY <1>1, <1>2, <1>5 DEF Counted, Works
  <2>2. Starved(p)'
    BY <1>1, <1>2, <1>4, <2>1, StarvedKept
  <2>3. DueIn(p) \in Int /\ DueIn(p) <= Gap /\ Gap \in Int
    BY <1>1, DueBounded, Consts
  <2>4. Fed(p)'
    <3>1. CASE p = q
      <4>1. net[p]' = net[p] \cup {0} /\ DueIn(p)' <= Gap
        BY <1>4, <2>1, <2>3, <3>1
      <4> QED
        BY <1>1, <1>2, <1>5, <4>1, FedKept
    <3>2. CASE p # q
      BY <1>1, <1>2, <1>4, <1>5, <3>2, FedKept
    <3> QED
      BY <3>1, <3>2
  <2> QED
    BY <1>3, <2>2, <2>4
<1>6. CASE ~Works(p)
  <2>1. net[p]' = net[p]
    BY <1>4, <1>6 DEF Works
  <2>2. Starved(p)'
    BY <1>1, <1>2, <2>1, StarvedKept
  <2>3. Fed(p)'
    BY <1>2, <1>6 DEF Fed
  <2> QED
    BY <1>3, <2>2, <2>3
<1> QED
  BY <1>5, <1>6

LEMMA PeerKeeps ==
    Inv /\ (SendProbe \/ WakeUp \/ PeerStops \/ PeerStarts \/ \E q \in Slots : PeerSends(q))
      => \A p \in Slots : Counted(p)' /\ Fed(p)' /\ Starved(p)'
<1> SUFFICES ASSUME Inv, NEW p \in Slots,
                    SendProbe \/ WakeUp \/ PeerStops \/ PeerStarts \/ \E q \in Slots : PeerSends(q)
             PROVE  Counted(p)' /\ Fed(p)' /\ Starved(p)'
  OBVIOUS
<1>1. TypeOK /\ Counted(p) /\ Fed(p) /\ Starved(p)
  BY DEF Inv
<1>2. CASE SendProbe
  <2>1. peerUp /\ net' = Sent(at) /\ UNCHANGED <<peerUp, up, good, bad, nodeVars>>
    BY <1>2 DEF SendProbe
  <2>2. p # at => DueIn(p)' \in Int /\ DueIn(p)' <= DueIn(p)
    BY <1>1, <1>2, DueStep
  <2>3. DueIn(p)' \in Int /\ DueIn(p)' <= Gap
    BY <1>1, <1>2, DueSent
  <2> QED
    BY <2>1, <2>2, <2>3, SentKeeps
<1>3. CASE WakeUp
  <2>1. /\ peerUp' = peerUp /\ up[p]' = up[p] /\ net[p]' = net[p] /\ good[p]' = good[p]
        /\ bad[p]' = bad[p] /\ age[p]' = age[p] /\ at = N + 1
    BY <1>3 DEF WakeUp, pathVars, nodeVars
  <2>2. Works(p)' = Works(p)
    BY <2>1 DEF Works
  <2>3. DueIn(p)' \in Int /\ DueIn(p)' <= DueIn(p)
    <3>1. p # at
      BY <2>1, Consts
    <3> QED
      BY <1>1, <1>3, <3>1, DueStep
  <2>4. Counted(p)' /\ Starved(p)'
    BY <1>1, <2>1, <2>2 DEF Counted, Starved
  <2>5. CASE Works(p)
    BY <1>1, <2>1, <2>3, <2>4, <2>5, FedKept
  <2>6. CASE ~Works(p)
    BY <2>2, <2>4, <2>6 DEF Fed
  <2> QED
    BY <2>5, <2>6
<1>4. CASE PeerStops
  <2>1. ~Works(p)' /\ good[p]' = 0
    BY <1>4 DEF PeerStops, Works
  <2>2. net[p]' = net[p] /\ bad[p]' = bad[p] /\ age[p]' = age[p]
    BY <1>4 DEF PeerStops, nodeVars
  <2> QED
    BY <1>1, <2>1, <2>2 DEF Counted, Fed, Starved
<1>5. CASE PeerStarts
  <2>1. /\ ~peerUp /\ peerUp' /\ up[p]' = up[p] /\ at' = at /\ wait' = wait /\ net[p]' = net[p]
        /\ good[p]' = good[p] /\ age[p]' = age[p]
        /\ bad[p]' = IF up[p] THEN 0 ELSE bad[p]
    BY <1>5 DEF PeerStarts, nodeVars
  <2>2. good[p] = 0
    BY <1>1, <2>1 DEF Counted, Works
  <2>3. Counted(p)'
    BY <2>1, <2>2 DEF Counted, Works
  <2>4. Fed(p)'
    BY <1>1, <2>1, <2>2, FedFresh
  <2>5. Starved(p)'
    BY <1>1, <2>1, StarvedKept
  <2> QED
    BY <2>3, <2>4, <2>5
<1>6. ASSUME NEW q \in Slots, PeerSends(q) PROVE Counted(p)' /\ Fed(p)' /\ Starved(p)'
  <2>1. /\ peerUp /\ net' = Sent(q) /\ UNCHANGED <<peerUp, up, good, bad, nodeVars>>
        /\ at' = at /\ wait' = wait
    BY <1>6 DEF PeerSends, proberVars
  <2>2. DueIn(p)' \in Int /\ DueIn(p)' <= DueIn(p)
    <3>1. DueIn(p)' = DueIn(p)
      BY <2>1 DEF DueIn
    <3>2. DueIn(p) \in Int
      BY <1>1, DueBounded
    <3> QED
      BY <3>1, <3>2
  <2> QED
    BY <2>1, <2>2, SentKeeps
<1> QED
  BY <1>2, <1>3, <1>4, <1>5, <1>6

LEMMA PathKeeps ==
    ASSUME Inv, NEW q \in Slots, PathChanges(q) \/ \E t \in net[q] : Lose(q, t), NEW p \in Slots
    PROVE  Counted(p)' /\ Fed(p)' /\ Starved(p)'
<1>1. TypeOK /\ Counted(p) /\ Fed(p) /\ Starved(p)
  BY DEF Inv
<1>2. /\ peerUp' = peerUp /\ at' = at /\ wait' = wait /\ age[p]' = age[p]
  BY DEF PathChanges, Lose, proberVars, nodeVars
<1>3. CASE p # q
  <2>1. up[p]' = up[p] /\ net[p]' = net[p] /\ good[p]' = good[p] /\ bad[p]' = bad[p]
    BY <1>1, <1>3 DEF PathChanges, Lose, TypeOK
  <2> QED
    BY <1>1, <1>2, <2>1, Untouched
<1>4. CASE p = q /\ PathChanges(q)
  <2>1. /\ net[p]' = net[p] /\ good[p]' = 0 /\ up[p]' = ~up[p]
        /\ bad[p]' = IF ~up[p] /\ peerUp THEN 0 ELSE bad[p]
    BY <1>1, <1>4 DEF PathChanges, TypeOK
  <2>2. Counted(p)'
    BY <1>2, <2>1 DEF Counted, Works
  <2>4. Fed(p)'
    BY <1>1, <1>2, <2>1, FedFresh
  <2>5. Starved(p)'
    BY <1>1, <1>2, <2>1, StarvedKept
  <2> QED
    BY <2>2, <2>4, <2>5
<1>5. ASSUME NEW t \in net[q], p = q, Lose(q, t) PROVE Counted(p)' /\ Fed(p)' /\ Starved(p)'
  <2>1. /\ net[p]' \subseteq net[p] /\ good[p]' = good[p] /\ up[p]' = up[p] /\ ~up[p]
        /\ bad[p]' = bad[p]
    BY <1>1, <1>5 DEF Lose, TypeOK
  <2>2. ~Works(p) /\ ~Works(p)'
    BY <2>1 DEF Works
  <2>3. Counted(p)' /\ Fed(p)'
    BY <1>1, <2>1, <2>2 DEF Counted, Fed
  <2>4. Starved(p)'
    BY <1>1, <1>2, <2>1, StarvedKept
  <2> QED
    BY <2>3, <2>4
<1> QED
  BY <1>3, <1>4, <1>5

LEMMA ArriveKeeps ==
    ASSUME Inv, NEW q \in Slots, NEW t \in net[q], Arrive(q, t), NEW p \in Slots
    PROVE  Counted(p)' /\ Fed(p)' /\ Starved(p)'
<1>1. TypeOK /\ Counted(p) /\ Fed(p) /\ Starved(p)
  BY DEF Inv
<1>2. /\ peerUp' = peerUp /\ up[p]' = up[p] /\ at' = at /\ wait' = wait /\ good[p]' = good[p]
      /\ bad[p]' = bad[p]
  BY DEF Arrive, proberVars
<1>3. CASE p # q
  <2>1. net[p]' = net[p] /\ age[p]' = age[p]
    BY <1>1, <1>3 DEF Arrive, TypeOK
  <2> QED
    BY <1>1, <1>2, <2>1, Untouched
<1>4. CASE p = q
  <2>1. PICK a \in 0 .. t : a <= age[q] /\ age' = [age EXCEPT ![q] = a]
    BY DEF Arrive
  <2>2. /\ net[p]' = net[p] \ {t} /\ age[p]' = a /\ t \in net[p]
        /\ a \in Nat /\ a <= t /\ a <= age[p]
    <3>1. t \in Nat
      BY <1>1, Typed
    <3> QED
      BY <1>1, <1>4, <2>1, <3>1 DEF Arrive, TypeOK
  <2>3. Counted(p)'
    BY <1>1, <1>2 DEF Counted, Works
  <2>4. /\ bad[p] <= t /\ t <= Delay /\ t \in Nat /\ bad[p] \in Nat
        /\ age[p] \in Nat /\ good[p] \in Nat /\ \A u \in net[p] : u \in Nat
    BY <1>1, <2>2, Typed DEF Starved
  <2>5. Fed(p)'
    <3>1. DueIn(p)' = DueIn(p) /\ Gap' = Gap /\ Works(p)' = Works(p)
      BY <1>2 DEF DueIn, Gap, Works
    <3> SUFFICES ASSUME Works(p), NEW y \in Nat, y <= a, y <= good[p]
                 PROVE  y <= Gap - DueIn(p) \/ \E u \in net[p]' : u < y /\ y <= Gap + u
      BY <1>2, <2>2, <3>1 DEF Fed
    <3>2. y <= age[p]
      BY <2>2, <2>4
    <3>3. y <= Gap - DueIn(p) \/ \E u \in net[p] : u < y /\ y <= Gap + u
      BY <1>1, <3>2 DEF Fed
    <3>4. ASSUME NEW u \in net[p], u < y PROVE u \in net[p]'
      BY <2>2, <2>4, <3>4
    <3> QED
      BY <3>3, <3>4
  <2>6. Starved(p)'
    BY <1>1, <1>2, <2>2, <2>4, Consts DEF Starved
  <2> QED
    BY <2>3, <2>5, <2>6
<1> QED
  BY <1>3, <1>4

LEMMA RestartKeeps ==
    ASSUME Inv, NodeRestarts, NEW p \in Slots
    PROVE  Counted(p)' /\ Fed(p)' /\ Starved(p)'
<1>1. TypeOK /\ Counted(p) /\ Fed(p) /\ Starved(p)
  BY DEF Inv
<1>2. /\ peerUp' = peerUp /\ up[p]' = up[p] /\ at' = at /\ wait' = wait /\ good[p]' = good[p]
      /\ bad[p]' = (IF bad[p] < Delay THEN bad[p] ELSE Delay) /\ age[p]' = 0
      /\ net[p]' \subseteq net[p]
  BY DEF NodeRestarts, proberVars, StartAge
<1>3. bad[p] \in Nat /\ Delay \in Nat /\ \A u \in net[p] : u \in Nat /\ bad[p] <= u
  BY <1>1, Typed, Consts DEF Starved
<1>4. bad[p]' \in Nat /\ bad[p]' <= bad[p] /\ bad[p]' <= Delay
  BY <1>2, <1>3
<1>5. Counted(p)'
  BY <1>1, <1>2, <1>3 DEF Counted, Works
<1>6. Fed(p)'
  BY <1>1, <1>2, FedFresh
<1>7. Starved(p)'
  BY <1>2, <1>3, <1>4 DEF Starved
<1> QED
  BY <1>5, <1>6, <1>7

-----------------------------------------------------------------------------
(* The walk.                                                               *)

\* A slot that works is heard within a round and the way of a datagram.
LEMMA HeardWhenGood ==
    ASSUME Inv, NEW p \in Slots, good[p] > Gap + Delay
    PROVE  age[p] <= Gap + Delay
<1>1. /\ TypeOK /\ Counted(p) /\ Fed(p) /\ age[p] \in Nat /\ good[p] \in Nat
      /\ \A t \in net[p] : t \in Nat /\ t <= Delay
  BY Typed DEF Inv
<1>2. DueIn(p) \in Nat /\ Gap \in Nat /\ Delay \in Nat
  BY <1>1, DueBounded, Consts
<1>3. Works(p)
  BY <1>1, <1>2 DEF Counted
<1> DEFINE y == Gap + Delay + 1
<1>4. y \in Nat /\ y <= good[p]
  BY <1>1, <1>2
<1>5. ~(y <= Gap - DueIn(p)) /\ ~\E t \in net[p] : t < y /\ y <= Gap + t
  BY <1>1, <1>2
<1>6. ~(y <= age[p])
  <2> HIDE DEF y
  <2> QED
    BY <1>1, <1>3, <1>4, <1>5 DEF Fed
<1> QED
  BY <1>1, <1>2, <1>6

\* A slot passed by stays so as long as the packet has its time.
LEMMA PassedKept ==
    ASSUME TypeOK, NEW p \in Slots, Passed(p), age[p]' \in Int, good[p]' \in Int,
           \/ since' = since /\ age[p]' <= age[p] /\ good[p]' <= good[p]
           \/ since' = since + 1 /\ age[p]' <= age[p] + 1 /\ good[p]' <= good[p] + 1
    PROVE  Passed(p)'
<1>1. age[p] \in Nat /\ good[p] \in Nat /\ since \in Nat /\ Gap \in Nat /\ Delay \in Nat
  BY Typed, Consts
<1>2. Gap' = Gap
  BY DEF Gap
<1> QED
  BY <1>1, <1>2 DEF Passed

\* The steps of the others, and time, leave the walk what it has found.
LEMMA WalkedKept ==
    ASSUME TypeOK, Walked, UNCHANGED <<tx, left, slot>>,
           \A p \in Slots : age[p]' \in Int /\ good[p]' \in Int,
           tx # "read" =>
             \/ /\ since' = since
                /\ \A p \in Slots : age[p]' <= age[p] /\ good[p]' <= good[p]
             \/ /\ since' = since + 1
                /\ \A p \in Slots : age[p]' <= age[p] + 1 /\ good[p]' <= good[p] + 1
    PROVE  Walked'
<1>1. TimeoutCovers' = TimeoutCovers
  BY DEF TimeoutCovers, Gap
<1> SUFFICES ASSUME TimeoutCovers, tx # "read" PROVE Walked'
  BY <1>1 DEF Walked
<1>2. ASSUME NEW p \in Slots, Passed(p) PROVE Passed(p)'
  BY <1>2, PassedKept
<1>3. tx = "scan" => \A p \in Slots \ left : Passed(p)'
  BY <1>2 DEF Walked
<1>4. age[slot] <= Timeout + since => age[slot]' <= Timeout + since'
  <2>1. /\ slot \in Slots /\ age[slot] \in Int /\ since \in Int /\ Timeout \in Int
        /\ age[slot]' \in Int
    BY Typed, Consts DEF TypeOK
  <2> QED
    BY <2>1
<1>5. tx = "send" => age[slot]' <= Timeout + since' \/ \A p \in Slots : Passed(p)'
  BY <1>2, <1>4 DEF Walked
<1> QED
  BY <1>3, <1>5 DEF Walked

LEMMA LookKeeps ==
    ASSUME Inv, NEW p \in Slots, Look(p)
    PROVE  Walked'
<1>1. /\ TypeOK /\ age[p] \in Nat /\ good[p] \in Nat /\ since \in Nat /\ left \subseteq Slots
      /\ Gap \in Nat /\ Delay \in Nat /\ Timeout \in Nat
  BY Typed, Consts DEF Inv, TypeOK
<1>2. tx = "scan" /\ p \in left /\ since' = since /\ age' = age /\ good' = good
  BY DEF Look, MayLook, pathVars
<1>3. TimeoutCovers' = TimeoutCovers /\ \A q \in Slots : Passed(q)' = Passed(q)
  BY <1>2 DEF TimeoutCovers, Passed, Gap
<1> SUFFICES ASSUME TimeoutCovers PROVE Walked'
  BY <1>3 DEF Walked
<1>4. \A q \in Slots \ left : Passed(q)
  <2>1. Walked
    BY DEF Inv
  <2> QED
    BY <1>2, <2>1 DEF Walked
<1>5. ~AliveFor(p) => Passed(p)
  <2> SUFFICES ASSUME ~AliveFor(p), good[p] > Gap + Delay + since PROVE age[p] < since
    BY <1>1 DEF Passed
  <2>1. age[p] <= Gap + Delay
    BY <1>1, HeardWhenGood
  <2>2. age[p] - since <= Timeout
    BY <1>1, <2>1 DEF TimeoutCovers
  <2>3. ~(age[p] - since \in 0 .. Timeout)
    BY DEF AliveFor
  <2> QED
    BY <1>1, <2>2, <2>3
<1>6. CASE AliveFor(p) /\ Returns(Picked(p))
  <2>1. age[p] <= Timeout + since
    BY <1>1, <1>6 DEF AliveFor
  <2>2. tx' = "send" /\ slot' = p
    BY <1>6 DEF Returns, Picked
  <2> QED
    BY <1>2, <2>1, <2>2 DEF Walked
<1>7. CASE ~AliveFor(p) /\ left = {p} /\ Returns(base)
  <2>1. tx' = "send" /\ \A q \in Slots : Passed(q)'
    BY <1>3, <1>4, <1>5, <1>7 DEF Returns
  <2> QED
    BY <2>1 DEF Walked
<1>8. CASE ~AliveFor(p) /\ left' = left \ {p} /\ UNCHANGED <<tx, base, slot>>
  <2>1. tx' = "scan" /\ \A q \in Slots \ left' : Passed(q)'
    BY <1>2, <1>3, <1>4, <1>5, <1>8
  <2> QED
    BY <2>1 DEF Walked
<1> QED
  BY <1>6, <1>7, <1>8 DEF Look

LEMMA WalkedStep == Inv /\ [Next]_vars => Walked'
<1> SUFFICES ASSUME Inv, [Next]_vars PROVE Walked'
  OBVIOUS
<1>1. TypeOK /\ Walked /\ \A p \in Slots : age[p] \in Nat /\ good[p] \in Nat
  <2>1. TypeOK /\ Walked
    BY DEF Inv
  <2> QED
    BY <2>1, Typed
<1>2. TypeOK'
  BY <1>1, TypeStep
<1>3. \A p \in Slots : age[p]' \in Int /\ good[p]' \in Int
  BY <1>2, Consts DEF TypeOK, AgeCap, GoodCap, Gap
<1>4. CASE Tick
  <2>1. ASSUME NEW p \in Slots
        PROVE  age[p]' <= age[p] + 1 /\ good[p]' <= good[p] + 1
    <3>1. age[p] \in 0 .. AgeCap /\ good[p] \in 0 .. GoodCap
      BY <1>1 DEF TypeOK
    <3>2. Older(age[p], AgeCap) <= age[p] + 1 /\ Older(good[p], GoodCap) <= good[p] + 1
      BY <3>1, OlderIn, Consts
    <3>3. age[p]' = Older(age[p], AgeCap) /\ good[p]' \in {Older(good[p], GoodCap), 0}
      BY <1>4 DEF Tick
    <3> QED
      BY <1>1, <3>2, <3>3
  <2>2. UNCHANGED <<tx, left, slot>> /\ (tx # "read" => since' = since + 1)
    BY <1>4 DEF Tick
  <2> QED
    BY <1>1, <1>3, <2>1, <2>2, WalkedKept
<1>5. CASE SendProbe \/ WakeUp \/ PeerStops \/ PeerStarts \/ UNCHANGED vars
  <2>1. /\ UNCHANGED <<tx, left, slot, since, age>>
        /\ \A p \in Slots : good[p]' = good[p] \/ good[p]' = 0
    BY <1>5 DEF SendProbe, WakeUp, PeerStops, PeerStarts, vars, nodeVars, txVars, pathVars
  <2> QED
    BY <1>1, <1>3, <2>1, WalkedKept
<1>6. ASSUME NEW q \in Slots, PeerSends(q) \/ PathChanges(q) \/ \E t \in net[q] : Lose(q, t)
      PROVE  Walked'
  <2>1. /\ UNCHANGED <<tx, left, slot, since, age>>
        /\ \A p \in Slots : good[p]' = good[p] \/ good[p]' = 0
    BY <1>1, <1>6 DEF PeerSends, PathChanges, Lose, TypeOK, nodeVars, txVars
  <2> QED
    BY <1>1, <1>3, <2>1, WalkedKept
<1>7. ASSUME NEW q \in Slots, NEW t \in net[q], Arrive(q, t) PROVE Walked'
  <2>1. UNCHANGED <<tx, left, slot, since, good>>
    BY <1>7 DEF Arrive, txVars
  <2>2. \A p \in Slots : age[p]' <= age[p]
    <3>1. PICK a \in 0 .. t : a <= age[q] /\ age' = [age EXCEPT ![q] = a]
      BY <1>7 DEF Arrive
    <3> QED
      BY <1>1, <3>1 DEF TypeOK
  <2> QED
    BY <1>1, <1>3, <2>1, <2>2, WalkedKept
<1>8. ASSUME tx' = "read" \/ (tx' = "scan" /\ left' = Slots) PROVE Walked'
  BY <1>8 DEF Walked
<1>9. CASE NodeSends \/ NodeRestarts \/ \E q \in Slots : TakePacket(q)
  BY <1>8, <1>9 DEF NodeSends, NodeRestarts, TakePacket, ReadsNext
<1>10. ASSUME NEW q \in Slots, Look(q) PROVE Walked'
  BY <1>10, LookKeeps
<1> QED
  BY <1>4, <1>5, <1>6, <1>7, <1>9, <1>10 DEF Next

LEMMA InvStep == Inv /\ [Next]_vars => Inv'
<1> SUFFICES ASSUME Inv, [Next]_vars PROVE Inv'
  OBVIOUS
<1>1. TypeOK' /\ Walked'
  BY TypeStep, WalkedStep DEF Inv
<1> SUFFICES ASSUME NEW p \in Slots PROVE Counted(p)' /\ Fed(p)' /\ Starved(p)'
  BY <1>1 DEF Inv
<1>2. CASE Tick
  BY <1>2, TickKeeps
<1>3. CASE SendProbe \/ WakeUp \/ PeerStops \/ PeerStarts
  BY <1>3, PeerKeeps
<1>4. CASE NodeRestarts
  BY <1>4, RestartKeeps
<1>5. ASSUME NEW q \in Slots, PeerSends(q) PROVE Counted(p)' /\ Fed(p)' /\ Starved(p)'
  BY <1>5, PeerKeeps
<1>6. ASSUME NEW q \in Slots, PathChanges(q) PROVE Counted(p)' /\ Fed(p)' /\ Starved(p)'
  BY <1>6, PathKeeps
<1>7. ASSUME NEW q \in Slots, NEW t \in net[q], Lose(q, t)
      PROVE  Counted(p)' /\ Fed(p)' /\ Starved(p)'
  BY <1>7, PathKeeps
<1>8. ASSUME NEW q \in Slots, NEW t \in net[q], Arrive(q, t)
      PROVE  Counted(p)' /\ Fed(p)' /\ Starved(p)'
  BY <1>8, ArriveKeeps
<1>9. CASE UNCHANGED vars \/ NodeSends \/ \E q \in Slots : TakePacket(q) \/ Look(q)
  <2>1. /\ peerUp' = peerUp /\ up[p]' = up[p] /\ at' = at /\ wait' = wait /\ net[p]' = net[p]
        /\ age[p]' = age[p] /\ good[p]' = good[p] /\ bad[p]' = bad[p]
    BY <1>9 DEF vars, NodeSends, TakePacket, Look, AgeOnSend, proberVars, pathVars, nodeVars
  <2> QED
    BY <2>1, Untouched DEF Inv
<1> QED
  BY <1>2, <1>3, <1>4, <1>5, <1>6, <1>7, <1>8, <1>9 DEF Next

LEMMA InvInit == Init => Inv
<1> SUFFICES ASSUME Init PROVE Inv
  OBVIOUS
<1>1. TypeOK
  <2>1. /\ 0 \in 0 .. Block /\ 0 \in 0 .. Sleep + Late /\ 0 \in 0 .. AgeCap /\ 0 \in 0 .. Walk
        /\ 0 \in 0 .. GoodCap /\ 0 \in 0 .. BadCap /\ 1 \in 1 .. N + 1 /\ 1 # N + 1
        /\ AnySlot \in Slots
    BY Consts
  <2> QED
    BY <2>1 DEF Init, TypeOK
<1>2. ASSUME NEW p \in Slots PROVE Counted(p) /\ Fed(p) /\ Starved(p)
  <2>1. net[p] = {} /\ age[p] = 0 /\ bad[p] = 0 /\ Works(p)
    BY DEF Init, Works
  <2>2. DueIn(p) \in Nat /\ DueIn(p) <= Gap /\ Gap \in Nat
    BY <1>1, DueBounded, Consts
  <2>3. ASSUME NEW y \in Nat, y <= age[p] PROVE y <= Gap - DueIn(p)
    BY <2>1, <2>2, <2>3
  <2> QED
    BY <2>1, <2>3, Consts DEF Counted, Fed, Starved
<1>3. Walked
  BY DEF Init, Walked
<1> QED
  BY <1>1, <1>2, <1>3 DEF Inv

-----------------------------------------------------------------------------
(* What follows.                                                           *)

LEMMA AliveWhenGood == Inv => NoFlap
<1> SUFFICES ASSUME Inv, TimeoutCovers, NEW p \in Slots, LongGood(p, 0) PROVE Alive(p)
  BY DEF NoFlap
<1>1. age[p] \in Nat /\ good[p] \in Nat /\ Gap \in Nat /\ Delay \in Nat /\ Timeout \in Nat
  BY Typed, Consts DEF Inv
<1>2. good[p] > Gap + Delay
  BY <1>1 DEF LongGood
<1>3. age[p] <= Gap + Delay
  BY <1>2, HeardWhenGood
<1> QED
  BY <1>1, <1>3 DEF Alive, TimeoutCovers

LEMMA DeadWhenBad == Inv => GivenUp
<1> SUFFICES ASSUME Inv, NEW p \in Slots, LongBad(p, 0) PROVE ~Alive(p)
  BY DEF GivenUp
<1>1. age[p] \in Nat /\ bad[p] \in Nat
  BY Typed DEF Inv
<1>2. bad[p] <= age[p] + Delay
  BY DEF Inv, Starved
<1> QED
  BY <1>1, <1>2, Consts DEF LongBad, Alive

\* A slot heard in time for the packet is not one long down.
LEMMA PassedWhenBad == Inv => Failover
<1> SUFFICES ASSUME Inv, TimeoutCovers, tx = "send", LongBad(slot, since),
                    NEW q \in Slots, LongGood(q, since)
             PROVE  age[q] < since
  BY DEF Failover
<1>1. /\ slot \in Slots /\ since \in Nat /\ age[q] \in Nat /\ good[q] \in Nat
      /\ Timeout \in Nat /\ Delay \in Nat /\ Gap \in Nat
  BY Typed, Consts DEF Inv, TypeOK
<1>2. age[slot] \in Nat /\ bad[slot] \in Nat
  BY <1>1, Typed DEF Inv
<1>3. bad[slot] <= age[slot] + Delay
  BY <1>1 DEF Inv, Starved
<1>4. ~(age[slot] <= Timeout + since)
  BY <1>1, <1>2, <1>3 DEF LongBad
<1>5. Passed(q)
  <2>1. Walked
    BY DEF Inv
  <2> QED
    BY <1>4, <2>1 DEF Walked
<1> QED
  BY <1>1, <1>5 DEF Passed, LongGood

LEMMA InvHolds == Spec => []Inv
BY InvInit, InvStep, PTL DEF Spec

\* Calls and datagrams keep their deadlines, ages their range.
THEOREM ProbingTyped == Spec => []TypeOK
<1>1. Inv => TypeOK
  BY DEF Inv
<1> QED
  BY <1>1, InvHolds, PTL

\* A path that works is not given up, whatever the number of slots, the
\* interval and the delays, as long as the timeout covers them
\* (conn.cpp:75-92, plane.cpp:302-323).
THEOREM WorkingPathKept == Spec => []NoFlap
BY InvHolds, AliveWhenGood, PTL

\* A path that does not work is given up in time, node restarts or not
\* (conn.cpp:108-131).
THEOREM DeadPathGivenUp == Spec => []GivenUp
BY InvHolds, DeadWhenBad, PTL

\* Data goes over a path long down only when every path that has long been working
\* was stamped after the packet took its time, and so looks dead (conn.cpp:75-92).
THEOREM DataFailsOver == Spec => []Failover
BY InvHolds, PassedWhenBad, PTL

=============================================================================
