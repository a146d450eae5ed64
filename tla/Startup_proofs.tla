--------------------------- MODULE Startup_proofs ---------------------------
(***************************************************************************)
(* However many instances are started on a host, one at most serves, and   *)
(* it serves what is configured, without root's credentials.  Whatever the *)
(* file holds, parseConfig merges its sections as it says, and loadConfig  *)
(* refuses it for a cause or takes it for what it says.                    *)
(***************************************************************************)
EXTENDS Boot, FiniteSetTheorems, SequenceTheorems, WellFoundedInduction, TLAPS

\* Every variable keeps to its type.
TypeOK ==
    /\ pc \in [Procs -> RootSteps \cup {"off", "config", "spawn", "join"}]
    /\ queues \in [Procs -> Nat] /\ threads \in [Procs -> Nat]
    /\ cred \in [Procs -> [groups : {"root", "none"}, gid : {"root", "user"},
                           uid : {"root", "user"}]]
    /\ dev \in [mtu : BOOLEAN, addr : BOOLEAN, up : BOOLEAN]

\* The steps after addAddr.
PastAddr == {"up", "groups", "gid", "uid", "spawn", "join"}

\* Only one instance is past addAddr; its queues keep the device, and with it
\* the address that stops the others.
Exclusive ==
    /\ \A p \in Procs : pc[p] \in PastAddr => dev.addr
    /\ \A p \in Procs : pc[p] \in PastAddr \cup {"mtu", "addr"} => queues[p] > 0
    /\ \A p, q \in Procs : pc[p] \in PastAddr /\ pc[q] \in PastAddr => p = q
    /\ \A p \in Procs : threads[p] > 0 => pc[p] \in {"spawn", "join"}

\* What is left of root's credentials at each step of dropPrivs.
Dropping ==
    \A p \in Procs :
        /\ pc[p] \in RootSteps \cup {"off", "config"} => cred[p].uid = "root"
        /\ pc[p] \in {"gid", "uid"} => cred[p].groups = "none"
        /\ pc[p] = "uid" => cred[p].gid = "user"
        /\ pc[p] \in {"spawn", "join"} => cfg.user = NoUser \/ cred[p] = User

StartInv == TypeOK /\ Exclusive /\ Dropping

\* No instance is started in the beginning.
LEMMA StartInit == Init => StartInv
  BY DEF Init, StartInv, TypeOK, Exclusive, Dropping, PastAddr, RootSteps, Root, NewDevice

\* An instance that goes takes the device with it only if nobody else holds a
\* queue, so the address stays while another one is past addAddr.
LEMMA StartDie == ASSUME StartInv, NEW p \in Procs, Die(p) PROVE StartInv'
<1> USE DEF StartInv, RootSteps, PastAddr
<1>1. TypeOK'
  BY DEF Die, Gone, TypeOK, Root, NewDevice
<1>2. Exclusive'
  <2>1. CASE \A q \in Procs \ {p} : queues[q] = 0
    <3>1. \A q \in Procs \ {p} : pc[q] \notin PastAddr \cup {"mtu", "addr"}
      BY <2>1 DEF Exclusive, TypeOK
    <3> QED BY <3>1 DEF Die, Gone, TypeOK, Exclusive
  <2>2. CASE ~ \A q \in Procs \ {p} : queues[q] = 0
    <3>1. dev' = dev
      BY <2>2 DEF Die, Gone
    <3> QED BY <3>1 DEF Die, Gone, TypeOK, Exclusive
  <2> QED BY <2>1, <2>2
<1>3. Dropping'
  BY DEF Die, Gone, TypeOK, Dropping, Root
<1> QED BY <1>1, <1>2, <1>3

\* Every step of an instance keeps the invariant.
LEMMA StartStep == ASSUME StartInv, NEW p \in Procs, Step(p) PROVE StartInv'
<1> USE DEF StartInv, RootSteps, PastAddr, AsRoot
<1>1. CASE Start(p)
  <2>1. TypeOK'
    BY <1>1 DEF Start, TypeOK
  <2>2. Exclusive'
    BY <1>1 DEF Start, TypeOK, Exclusive
  <2>3. Dropping'
    BY <1>1 DEF Start, TypeOK, Dropping
  <2> QED BY <2>1, <2>2, <2>3
<1>2. CASE LoadConfig(p)
  <2>1. TypeOK'
    BY <1>2 DEF LoadConfig, TypeOK
  <2>2. Exclusive'
    BY <1>2 DEF LoadConfig, TypeOK, Exclusive
  <2>3. Dropping'
    BY <1>2 DEF LoadConfig, TypeOK, Dropping
  <2> QED BY <2>1, <2>2, <2>3
<1>3. CASE OpenUdpSocket(p)
  <2>1. TypeOK'
    BY <1>3 DEF OpenUdpSocket, TypeOK
  <2>2. Exclusive'
    BY <1>3 DEF OpenUdpSocket, TypeOK, Exclusive
  <2>3. Dropping'
    BY <1>3 DEF OpenUdpSocket, TypeOK, Dropping
  <2> QED BY <2>1, <2>2, <2>3
<1>4. CASE OpenTun(p)
  <2>1. TypeOK'
    BY <1>4 DEF OpenTun, TypeOK
  <2>2. Exclusive'
    BY <1>4 DEF OpenTun, TypeOK, Exclusive
  <2>3. Dropping'
    BY <1>4 DEF OpenTun, TypeOK, Dropping
  <2> QED BY <2>1, <2>2, <2>3
<1>5. CASE SetMtu(p)
  <2>1. TypeOK'
    BY <1>5 DEF SetMtu, NextStep, TypeOK
  <2>2. Exclusive'
    BY <1>5 DEF SetMtu, NextStep, TypeOK, Exclusive
  <2>3. Dropping'
    BY <1>5 DEF SetMtu, NextStep, TypeOK, Dropping
  <2> QED BY <2>1, <2>2, <2>3
<1>6. CASE AddAddr(p)
  <2>1. TypeOK'
    BY <1>6 DEF AddAddr, AddrNew, NextStep, TypeOK
  <2>2. Exclusive'
    BY <1>6 DEF AddAddr, AddrNew, NextStep, TypeOK, Exclusive
  <2>3. Dropping'
    BY <1>6 DEF AddAddr, AddrNew, NextStep, TypeOK, Dropping
  <2> QED BY <2>1, <2>2, <2>3
<1>7. CASE LinkUp(p)
  <2>1. TypeOK'
    BY <1>7 DEF LinkUp, NextStep, TypeOK
  <2>2. Exclusive'
    <3>1. dev'.addr = dev.addr /\ UNCHANGED <<queues, threads>>
      BY <1>7 DEF LinkUp, TypeOK
    <3>2. pc'[p] \in {"spawn", "groups"} /\ \A q \in Procs \ {p} : pc'[q] = pc[q]
      BY <1>7 DEF LinkUp, NextStep, TypeOK
    <3>3. pc[p] = "up"
      BY <1>7 DEF LinkUp
    <3> QED BY <3>1, <3>2, <3>3 DEF Exclusive, TypeOK
  <2>3. Dropping'
    BY <1>7 DEF LinkUp, NextStep, TypeOK, Dropping
  <2> QED BY <2>1, <2>2, <2>3
<1>8. CASE SetGroups(p)
  <2>1. TypeOK'
    BY <1>8 DEF SetGroups, NextStep, TypeOK
  <2>2. Exclusive'
    BY <1>8 DEF SetGroups, NextStep, TypeOK, Exclusive
  <2>3. Dropping'
    BY <1>8 DEF SetGroups, NextStep, TypeOK, Dropping
  <2> QED BY <2>1, <2>2, <2>3
<1>9. CASE SetGid(p)
  <2>1. TypeOK'
    BY <1>9 DEF SetGid, NextStep, TypeOK
  <2>2. Exclusive'
    BY <1>9 DEF SetGid, NextStep, TypeOK, Exclusive
  <2>3. Dropping'
    BY <1>9 DEF SetGid, NextStep, TypeOK, Dropping
  <2> QED BY <2>1, <2>2, <2>3
<1>10. CASE SetUid(p)
  <2>1. TypeOK'
    BY <1>10 DEF SetUid, UidDropped, NextStep, TypeOK
  <2>2. Exclusive'
    BY <1>10 DEF SetUid, UidDropped, NextStep, TypeOK, Exclusive
  <2>3. Dropping'
    <3>1. cred'[p] = User
      BY <1>10 DEF SetUid, UidDropped, TypeOK, Dropping, User
    <3>2. pc'[p] = "spawn"
      BY <1>10 DEF SetUid, NextStep, TypeOK
    <3>3. \A q \in Procs \ {p} : cred'[q] = cred[q] /\ pc'[q] = pc[q]
      BY <1>10 DEF SetUid, UidDropped, TypeOK
    <3>4. cfg' = cfg
      BY <1>10 DEF SetUid
    <3> QED BY <3>1, <3>2, <3>3, <3>4 DEF Dropping, User
  <2> QED BY <2>1, <2>2, <2>3
<1>11. CASE Spawn(p)
  <2>1. TypeOK'
    BY <1>11 DEF Spawn, TypeOK
  <2>2. Exclusive'
    BY <1>11 DEF Spawn, TypeOK, Exclusive
  <2>3. Dropping'
    BY <1>11 DEF Spawn, TypeOK, Dropping
  <2> QED BY <2>1, <2>2, <2>3
<1>12. CASE Die(p)
  BY <1>12, StartDie
<1> QED BY <1>1, <1>2, <1>3, <1>4, <1>5, <1>6, <1>7, <1>8, <1>9, <1>10, <1>11, <1>12 DEF Step

\* The invariant holds in every state.
THEOREM StartSafe == Spec => []StartInv
<1>1. Init => StartInv
  BY StartInit
<1>2. StartInv /\ [Next]_vars => StartInv'
  <2> SUFFICES ASSUME StartInv, [Next]_vars PROVE StartInv'
    OBVIOUS
  <2>1. CASE UNCHANGED vars
    BY <2>1 DEF vars, StartInv, TypeOK, Exclusive, Dropping
  <2>2. CASE Next
    BY <2>2, StartStep DEF Next
  <2> QED BY <2>1, <2>2
<1> QED BY <1>1, <1>2, PTL DEF Spec

\* At most one instance of gofra serves the overlay of a host, for any number
\* of instances, restarts and deaths.
THEOREM OneServes == Spec => []OneInstance
<1>1. StartInv => OneInstance
  BY DEF StartInv, Exclusive, OneInstance, PastAddr
<1> QED BY <1>1, StartSafe, PTL

\* When the configuration names a user, no thread has root's groups, gid or
\* uid, whichever call of dropPrivs fails.
THEOREM NoThreadIsRoot == Spec => []PrivsDropped
<1>1. StartInv => PrivsDropped
  BY DEF StartInv, Exclusive, Dropping, PrivsDropped
<1> QED BY <1>1, StartSafe, PTL

\* No step that takes root comes after the uid is given up.
THEOREM RootLastsLongEnough == Spec => []RootWhileNeeded
<1>1. StartInv => RootWhileNeeded
  BY DEF StartInv, Dropping, RootWhileNeeded, AsRoot
<1> QED BY <1>1, StartSafe, PTL

-----------------------------------------------------------------------------
(* What a serving instance stands on.                                      *)

\* The steps that come after an instance has all its sockets, all its queues,
\* has set the MTU, and has set the link up.
PastSockets == {"tun", "mtu", "addr"} \cup PastAddr
PastQueues == {"mtu", "addr"} \cup PastAddr
PastMtu == {"addr"} \cup PastAddr
PastLink == {"groups", "gid", "uid", "spawn", "join"}

Serving ==
    /\ socks \in [Procs -> Nat]
    /\ \A p \in Procs :
        /\ pc[p] \notin {"off", "config"} => ConfigOk(cfg)
        /\ pc[p] \in {"off", "config"} => socks[p] = 0
        /\ pc[p] \in {"off", "config", "sock"} => queues[p] = 0
        /\ pc[p] \in PastSockets => socks[p] = SrcCount
        /\ pc[p] \in PastQueues => queues[p] = SrcCount
        /\ pc[p] \in PastMtu => dev.mtu
        /\ pc[p] \in PastLink => dev.up

\* An instance that goes leaves the device as it is while another one holds a
\* queue of it.
LEMMA ServingDie == ASSUME StartInv, Serving, NEW p \in Procs, Die(p) PROVE Serving'
<1> USE DEF Die, Gone
<1>1. pc \in [Procs -> RootSteps \cup {"off", "config", "spawn", "join"}]
      /\ queues \in [Procs -> Nat] /\ socks \in [Procs -> Nat]
  BY DEF StartInv, TypeOK, Serving
<1>2. ASSUME NEW q \in Procs, q # p, pc[q] \in PastMtu \cup PastLink PROVE dev' = dev
  BY <1>1, <1>2 DEF StartInv, Exclusive, PastMtu, PastLink, PastAddr
<1>3. ASSUME NEW q \in Procs, q # p
      PROVE  pc'[q] = pc[q] /\ socks'[q] = socks[q] /\ queues'[q] = queues[q]
  BY <1>1, <1>3
<1>4. pc'[p] = "off" /\ socks'[p] = 0 /\ queues'[p] = 0 /\ cfg' = cfg
  BY <1>1
<1>5. socks' \in [Procs -> Nat]
  BY <1>1
<1> HIDE DEF Die, Gone
<1>6. SrcCount' = SrcCount /\ ConfigOk(cfg)' = ConfigOk(cfg)
  BY <1>4 DEF SrcCount
<1>7. ASSUME NEW q \in Procs
      PROVE  /\ pc'[q] \notin {"off", "config"} => ConfigOk(cfg)'
             /\ pc'[q] \in {"off", "config"} => socks'[q] = 0
             /\ pc'[q] \in {"off", "config", "sock"} => queues'[q] = 0
             /\ pc'[q] \in PastSockets => socks'[q] = SrcCount'
             /\ pc'[q] \in PastQueues => queues'[q] = SrcCount'
             /\ pc'[q] \in PastMtu => dev'.mtu
             /\ pc'[q] \in PastLink => dev'.up
  <2>1. CASE q = p
    BY <1>4, <2>1 DEF PastSockets, PastQueues, PastMtu, PastLink, PastAddr
  <2>2. CASE q # p
    BY <1>2, <1>3, <1>6, <2>2 DEF Serving
  <2> QED BY <2>1, <2>2
<1> QED BY <1>5, <1>7 DEF Serving

LEMMA ServingStep == ASSUME StartInv, Serving, NEW p \in Procs, Step(p) PROVE Serving'
<1> USE DEF AsRoot
<1>0. /\ pc \in [Procs -> RootSteps \cup {"off", "config", "spawn", "join"}]
      /\ queues \in [Procs -> Nat] /\ socks \in [Procs -> Nat]
      /\ dev \in [mtu : BOOLEAN, addr : BOOLEAN, up : BOOLEAN]
  BY DEF StartInv, TypeOK, Serving
\* A step that keeps the files and the device, and leaves p where its counters belong.
<1>a. ASSUME UNCHANGED cfg, socks' \in [Procs -> Nat], dev.mtu => dev'.mtu, dev.up => dev'.up,
             \A q \in Procs \ {p} :
                pc'[q] = pc[q] /\ socks'[q] = socks[q] /\ queues'[q] = queues[q],
             /\ pc'[p] \notin {"off", "config"} => ConfigOk(cfg)
             /\ pc'[p] \in {"off", "config"} => socks'[p] = 0
             /\ pc'[p] \in {"off", "config", "sock"} => queues'[p] = 0
             /\ pc'[p] \in PastSockets => socks'[p] = SrcCount
             /\ pc'[p] \in PastQueues => queues'[p] = SrcCount
             /\ pc'[p] \in PastMtu => dev'.mtu
             /\ pc'[p] \in PastLink => dev'.up
      PROVE  Serving'
  <2>1. SrcCount' = SrcCount /\ ConfigOk(cfg)' = ConfigOk(cfg)
    BY <1>a DEF SrcCount
  <2> QED BY <1>a, <2>1 DEF Serving
<1> USE DEF PastSockets, PastQueues, PastMtu, PastLink, PastAddr
<1>1. CASE Start(p)
  <2>1. pc'[p] = "config" /\ \A q \in Procs \ {p} : pc'[q] = pc[q]
    BY <1>0, <1>1 DEF Start
  <2> QED BY <1>0, <1>1, <1>a, <2>1 DEF Start, Serving
<1>2. CASE LoadConfig(p)
  <2>1. pc'[p] = "sock" /\ \A q \in Procs \ {p} : pc'[q] = pc[q]
    BY <1>0, <1>2 DEF LoadConfig
  <2> QED BY <1>0, <1>2, <1>a, <2>1 DEF LoadConfig, Serving
<1>3. CASE OpenUdpSocket(p)
  <2>1. /\ \A q \in Procs \ {p} : pc'[q] = pc[q] /\ socks'[q] = socks[q]
        /\ (pc'[p] = "tun" /\ socks'[p] = SrcCount) \/ pc'[p] = "sock"
        /\ socks' \in [Procs -> Nat]
    BY <1>0, <1>3 DEF OpenUdpSocket
  <2> QED BY <1>0, <1>3, <1>a, <2>1 DEF OpenUdpSocket, Serving
<1>4. CASE OpenTun(p)
  <2>1. /\ \A q \in Procs \ {p} : pc'[q] = pc[q] /\ queues'[q] = queues[q]
        /\ (pc'[p] = "mtu" /\ queues'[p] = SrcCount) \/ pc'[p] = "tun"
    BY <1>0, <1>4 DEF OpenTun, AllQueues
  <2> QED BY <1>0, <1>4, <1>a, <2>1 DEF OpenTun, Serving
<1>5. CASE SetMtu(p)
  <2>1. pc'[p] = "addr" /\ \A q \in Procs \ {p} : pc'[q] = pc[q]
    BY <1>0, <1>5 DEF SetMtu, NextStep
  <2>2. dev'.mtu /\ dev'.up = dev.up
    BY <1>0, <1>5 DEF SetMtu
  <2> QED BY <1>0, <1>5, <1>a, <2>1, <2>2 DEF SetMtu, Serving
<1>6. CASE AddAddr(p)
  <2>1. pc'[p] = "up" /\ \A q \in Procs \ {p} : pc'[q] = pc[q]
    BY <1>0, <1>6 DEF AddAddr, NextStep
  <2>2. dev'.mtu = dev.mtu /\ dev'.up = dev.up
    BY <1>0, <1>6 DEF AddAddr
  <2> QED BY <1>0, <1>6, <1>a, <2>1, <2>2 DEF AddAddr, Serving
<1>7. CASE LinkUp(p)
  <2>1. pc'[p] \in {"spawn", "groups"} /\ \A q \in Procs \ {p} : pc'[q] = pc[q]
    <3>1. NextStep("up") \in {"spawn", "groups"}
      BY DEF NextStep
    <3>2. pc' = [pc EXCEPT ![p] = NextStep("up")]
      BY <1>7 DEF LinkUp
    <3> QED BY ONLY <1>0, <3>1, <3>2
  <2>2. dev'.mtu = dev.mtu /\ dev'.up
    BY <1>0, <1>7 DEF LinkUp
  <2> QED BY <1>0, <1>7, <1>a, <2>1, <2>2 DEF LinkUp, Serving
<1>8. CASE SetGroups(p) \/ SetGid(p) \/ SetUid(p)
  <2>1. /\ pc[p] \in {"groups", "gid", "uid"} /\ pc'[p] \in {"gid", "uid", "spawn"}
        /\ \A q \in Procs \ {p} : pc'[q] = pc[q]
    BY <1>0, <1>8 DEF SetGroups, SetGid, SetUid, NextStep
  <2>2. UNCHANGED <<cfg, socks, queues, dev>>
    BY <1>8 DEF SetGroups, SetGid, SetUid
  <2> QED BY <1>0, <1>a, <2>1, <2>2 DEF Serving
<1>9. CASE Spawn(p)
  <2>1. pc[p] = "spawn" /\ pc'[p] \in {"spawn", "join"} /\ \A q \in Procs \ {p} : pc'[q] = pc[q]
    BY <1>0, <1>9 DEF Spawn
  <2> QED BY <1>0, <1>9, <1>a, <2>1 DEF Spawn, Serving
<1>10. CASE Die(p)
  BY <1>10, ServingDie
<1> QED BY <1>1, <1>2, <1>3, <1>4, <1>5, <1>6, <1>7, <1>8, <1>9, <1>10 DEF Step

\* The configuration and its counts are carried along by every step of every instance.
THEOREM ServingSafe == Spec => []Serving
<1>1. Init => Serving
  BY DEF Init, Serving, PastSockets, PastQueues, PastMtu, PastLink, PastAddr
<1>2. StartInv /\ Serving /\ [Next]_vars => Serving'
  <2> SUFFICES ASSUME StartInv, Serving, [Next]_vars PROVE Serving'
    OBVIOUS
  <2>1. CASE UNCHANGED vars
    BY <2>1 DEF vars, Serving, SrcCount
  <2>2. CASE Next
    BY <2>2, ServingStep DEF Next
  <2> QED BY <2>1, <2>2
<1> QED BY <1>1, <1>2, StartSafe, PTL DEF Spec

\* A thread runs only on a device that is set up and with a socket and a queue
\* for each of the node's addresses: what another instance does on its way up
\* or down does not take that away.
THEOREM ServesOnlyConfigured == Spec => []ServesConfigured
<1>1. StartInv /\ Serving => ServesConfigured
  <2> SUFFICES ASSUME StartInv, Serving, NEW p \in Procs, threads[p] > 0
               PROVE  /\ ConfigOk(cfg) /\ queues[p] = SrcCount /\ socks[p] = SrcCount
                      /\ dev = [mtu |-> TRUE, addr |-> TRUE, up |-> TRUE]
    BY DEF ServesConfigured
  <2>1. pc[p] \in {"spawn", "join"}
    BY DEF StartInv, Exclusive
  <2>2. ConfigOk(cfg) /\ queues[p] = SrcCount /\ socks[p] = SrcCount /\ dev.mtu /\ dev.up
    BY <2>1 DEF Serving, PastSockets, PastQueues, PastMtu, PastLink, PastAddr
  <2>3. dev.addr /\ dev \in [mtu : BOOLEAN, addr : BOOLEAN, up : BOOLEAN]
    BY <2>1 DEF StartInv, Exclusive, TypeOK, PastAddr
  <2> QED BY <2>2, <2>3
<1> QED BY <1>1, StartSafe, ServingSafe, PTL

-----------------------------------------------------------------------------
(* The configuration file.                                                 *)

\* The place of line x among the lines S.
Rank(S, x) == Cardinality({y \in S : y <= x})

\* Every line of S has a place of its own.
Ranked(S) ==
    /\ \A x \in S : Rank(S, x) \in 1 .. Cardinality(S)
    /\ \A p \in 1 .. Cardinality(S) : \E x \in S : Rank(S, x) = p
    /\ \A x, y \in S : Rank(S, x) = Rank(S, y) => x = y

LEMMA NthOfRank ==
    ASSUME NEW S, Ranked(S)
    PROVE  /\ \A p \in 1 .. Cardinality(S) : Nth(S, p) \in S /\ Rank(S, Nth(S, p)) = p
           /\ \A x \in S : Nth(S, Rank(S, x)) = x
<1>1. ASSUME NEW p \in 1 .. Cardinality(S) PROVE Nth(S, p) \in S /\ Rank(S, Nth(S, p)) = p
  <2>1. \E x \in S : Cardinality({y \in S : y <= x}) = p
    BY DEF Ranked, Rank
  <2> QED BY <2>1 DEF Nth, Rank
<1>2. ASSUME NEW x \in S PROVE Nth(S, Rank(S, x)) = x
  <2>1. Rank(S, x) \in 1 .. Cardinality(S)
    BY DEF Ranked
  <2> QED BY <1>1, <2>1 DEF Ranked
<1> QED BY <1>1, <1>2

\* A line that comes after all others is the last in place.
LEMMA RankedAppend ==
    ASSUME NEW n \in Nat \ {0}, NEW S, S \subseteq 1 .. n - 1, Ranked(S)
    PROVE  LET T == S \cup {n}
           IN  /\ Cardinality(S) \in Nat /\ Cardinality(T) = Cardinality(S) + 1
               /\ Ranked(T)
               /\ \A p \in 1 .. Cardinality(S) : Nth(T, p) = Nth(S, p)
               /\ Nth(T, Cardinality(S) + 1) = n
<1> DEFINE T == S \cup {n}
<1>0. \A x \in S : x \in Nat /\ x < n /\ ~(n <= x)
  OBVIOUS
<1>1. IsFiniteSet(S) /\ Cardinality(S) \in Nat /\ Cardinality(T) = Cardinality(S) + 1
  <2>1. IsFiniteSet(1 .. n - 1)
    BY FS_Interval
  <2>2. IsFiniteSet(S)
    BY <2>1, FS_Subset
  <2>3. n \notin S
    BY <1>0
  <2>4. Cardinality(S \cup {n}) = Cardinality(S) + 1
    BY <2>2, <2>3, FS_AddElement
  <2> QED BY <2>2, <2>4, FS_CardinalityType
<1>2. \A x \in S : Rank(T, x) = Rank(S, x)
  <2>1. ASSUME NEW x \in S PROVE {y \in T : y <= x} = {y \in S : y <= x}
    BY <1>0
  <2> QED BY <2>1 DEF Rank
<1>3. Rank(T, n) = Cardinality(S) + 1
  <2>a. \A y \in T : y <= n
    BY <1>0
  <2>1. {y \in T : y <= n} = T
    BY <2>a
  <2> QED BY <1>1, <2>1 DEF Rank
<1>4. \A x \in T : x \in S \/ x = n
  OBVIOUS
<1>5. S \subseteq T /\ n \in T
  OBVIOUS
<1> HIDE DEF T
<1>6. Ranked(T)
  <2>1. ASSUME NEW x \in T PROVE Rank(T, x) \in 1 .. Cardinality(T)
    <3>1. CASE x \in S
      <4>1. Rank(S, x) \in 1 .. Cardinality(S)
        BY <3>1 DEF Ranked
      <4> QED BY <1>1, <1>2, <3>1, <4>1
    <3>2. CASE x = n
      BY <1>1, <1>3, <3>2
    <3> QED BY <1>4, <3>1, <3>2
  <2>2. ASSUME NEW p \in 1 .. Cardinality(T) PROVE \E x \in T : Rank(T, x) = p
    <3>1. CASE p \in 1 .. Cardinality(S)
      BY <1>2, <1>5, <3>1 DEF Ranked
    <3>2. CASE p = Cardinality(S) + 1
      BY <1>3, <1>5, <3>2
    <3> QED BY <1>1, <3>1, <3>2
  <2>3. ASSUME NEW x \in T, NEW y \in T, Rank(T, x) = Rank(T, y) PROVE x = y
    <3>1. \A z \in S : Rank(T, z) # Cardinality(S) + 1
      BY <1>1, <1>2 DEF Ranked
    <3> QED BY <1>2, <1>3, <1>4, <2>3, <3>1 DEF Ranked
  <2> QED BY <2>1, <2>2, <2>3 DEF Ranked
<1>7. Nth(T, Cardinality(S) + 1) = n
  BY <1>3, <1>5, <1>6, NthOfRank
<1>8. ASSUME NEW p \in 1 .. Cardinality(S) PROVE Nth(T, p) = Nth(S, p)
  <2>1. Nth(S, p) \in S /\ Rank(S, Nth(S, p)) = p
    BY NthOfRank
  <2>2. Nth(S, p) \in T /\ Rank(T, Nth(S, p)) = p
    BY <1>2, <1>5, <2>1
  <2> QED BY <1>6, <2>2, NthOfRank
<1> QED BY <1>1, <1>6, <1>7, <1>8 DEF T

RangeOf(f) == {f[x] : x \in DOMAIN f}
KeysOf(n, s) == {file[x].key : x \in Entries(n, s)}

\* What the lines up to n say does not change with the rest of a step.
LEMMA SameFile ==
    ASSUME file' = file, NEW n, NEW s
    PROVE  /\ SectionAt(n)' = SectionAt(n) /\ Entries(n, s)' = Entries(n, s)
           /\ FirstLines(n, s)' = FirstLines(n, s) /\ KeysGiven(n, s)' = KeysGiven(n, s)
           /\ KeysOf(n, s)' = KeysOf(n, s)
           /\ \A key : Given(n, s, key)' = Given(n, s, key)
<1>1. \A x : SectionAt(x)' = SectionAt(x)
  BY DEF SectionAt
<1>2. \A x : Entries(x, s)' = Entries(x, s)
  BY <1>1 DEF Entries
<1>3. FirstLines(n, s)' = FirstLines(n, s)
  BY <1>2 DEF FirstLines
<1>4. KeysGiven(n, s)' = KeysGiven(n, s)
  BY <1>3 DEF KeysGiven
<1>5. \A key : Given(n, s, key)' = Given(n, s, key)
  BY <1>2 DEF Given
<1>6. KeysOf(n, s)' = KeysOf(n, s)
  BY <1>2 DEF KeysOf
<1> QED BY <1>1, <1>2, <1>3, <1>4, <1>5, <1>6

\* The section after a line is the one it opens, or the one before.
LEMMA SectionAfter ==
    ASSUME NEW n \in Nat \ {0}
    PROVE  SectionAt(n + 1) = IF file[n].is = "section" THEN file[n].name ELSE SectionAt(n)
<1> DEFINE Opened(x) == {y \in 1 .. x - 1 : file[y].is = "section"}
<1>1. \A x : SectionAt(x) = IF Opened(x) = {} THEN Empty ELSE file[Last(Opened(x))].name
  BY DEF SectionAt
<1>2. Opened(n + 1) = IF file[n].is = "section" THEN Opened(n) \cup {n} ELSE Opened(n)
  OBVIOUS
<1>3. \A y \in Opened(n) : y \in Nat /\ y < n
  OBVIOUS
<1> HIDE DEF Opened
<1>4. CASE file[n].is # "section"
  <2>1. Opened(n + 1) = Opened(n)
    BY <1>2, <1>4
  <2>2. SectionAt(n + 1) = SectionAt(n)
    BY <1>1, <2>1
  <2> QED BY <1>4, <2>2
<1>5. CASE file[n].is = "section"
  <2>1. n \in Opened(n + 1) /\ \A z \in Opened(n + 1) : z \in Nat /\ z <= n
    BY <1>2, <1>3, <1>5
  <2>2. Last(Opened(n + 1)) \in Opened(n + 1)
        /\ \A z \in Opened(n + 1) : z <= Last(Opened(n + 1))
    BY <2>1 DEF Last
  <2>3. Last(Opened(n + 1)) = n
    BY <2>1, <2>2
  <2> QED BY <1>1, <1>5, <2>1, <2>3
<1> QED BY <1>4, <1>5

\* One more line adds an entry to its section, and a key when it is new there.
LEMMA EntriesAfter ==
    ASSUME NEW n \in Nat \ {0}, NEW s
    PROVE  /\ file[n].is = "entry" /\ SectionAt(n) = s => Entries(n, s) = Entries(n - 1, s) \cup {n}
           /\ ~(file[n].is = "entry" /\ SectionAt(n) = s) => Entries(n, s) = Entries(n - 1, s)
           /\ Entries(n - 1, s) \subseteq 1 .. n - 1
<1>1. 1 .. n = (1 .. n - 1) \cup {n} /\ n \notin 1 .. n - 1
  OBVIOUS
<1> QED BY <1>1 DEF Entries

LEMMA FirstLinesAfter ==
    ASSUME NEW n \in Nat \ {0}, NEW s
    PROVE  /\ FirstLines(n - 1, s) \subseteq 1 .. n - 1
           /\ \/ ~(file[n].is = "entry" /\ SectionAt(n) = s)
              \/ \E y \in Entries(n - 1, s) : file[y].key = file[n].key
              => FirstLines(n, s) = FirstLines(n - 1, s)
           /\ file[n].is = "entry" /\ SectionAt(n) = s
                /\ (\A y \in Entries(n - 1, s) : file[y].key # file[n].key)
              => FirstLines(n, s) = FirstLines(n - 1, s) \cup {n}
<1>1. FirstLines(n - 1, s) \subseteq 1 .. n - 1
  BY EntriesAfter DEF FirstLines
<1>2. CASE ~(file[n].is = "entry" /\ SectionAt(n) = s)
  <2>1. Entries(n, s) = Entries(n - 1, s)
    BY <1>2, EntriesAfter
  <2> QED BY <1>1, <1>2, <2>1 DEF FirstLines
<1>3. CASE file[n].is = "entry" /\ SectionAt(n) = s
  <2>1. Entries(n, s) = Entries(n - 1, s) \cup {n}
    BY <1>3, EntriesAfter
  <2>2. ASSUME NEW x
        PROVE  x \in FirstLines(n, s) <=>
                 x \in FirstLines(n - 1, s)
                   \/ (x = n /\ \A y \in Entries(n - 1, s) : file[y].key # file[n].key)
    BY <2>1 DEF FirstLines
  <2> QED BY <1>1, <1>3, <2>2
<1> QED BY <1>2, <1>3

LEMMA KeysSame ==
    ASSUME NEW n, NEW m, NEW s, FirstLines(n, s) = FirstLines(m, s)
    PROVE  KeysGiven(n, s) = KeysGiven(m, s)
BY DEF KeysGiven

LEMMA KeysAppend ==
    ASSUME NEW n \in Nat \ {0}, NEW s, FirstLines(n, s) = FirstLines(n - 1, s) \cup {n},
           FirstLines(n - 1, s) \subseteq 1 .. n - 1, Ranked(FirstLines(n - 1, s))
    PROVE  /\ KeysGiven(n, s) = Append(KeysGiven(n - 1, s), file[n].key)
           /\ Ranked(FirstLines(n, s))
           /\ RangeOf(KeysGiven(n, s)) = RangeOf(KeysGiven(n - 1, s)) \cup {file[n].key}
<1> DEFINE S == FirstLines(n - 1, s)
           T == FirstLines(n, s)
           c == Cardinality(S)
<1>1. /\ c \in Nat /\ Cardinality(T) = c + 1 /\ Ranked(T)
      /\ \A p \in 1 .. c : Nth(T, p) = Nth(S, p)
      /\ Nth(T, c + 1) = n
  BY RankedAppend
<1>2. /\ KeysGiven(n, s) = [p \in 1 .. c + 1 |-> file[Nth(T, p)].key]
      /\ KeysGiven(n - 1, s) = [p \in 1 .. c |-> file[Nth(S, p)].key]
  BY <1>1 DEF KeysGiven
<1> DEFINE old == KeysGiven(n - 1, s)
           new == KeysGiven(n, s)
           k == file[n].key
<1> HIDE DEF S, T, c
<1>3. DOMAIN old = 1 .. c /\ DOMAIN new = 1 .. c + 1
      /\ (\A p \in 1 .. c : new[p] = old[p]) /\ new[c + 1] = k
  BY <1>1, <1>2
<1> DEFINE X == {old[p] : p \in 1 .. c} \cup {k}
<1>4. old \in [1 .. c -> X] /\ new \in [1 .. c + 1 -> X]
  <2>1. \A p \in 1 .. c + 1 : p \in 1 .. c \/ p = c + 1
    BY <1>1
  <2>2. old = [p \in 1 .. c |-> old[p]] /\ new = [p \in 1 .. c + 1 |-> new[p]]
    BY <1>2
  <2> HIDE DEF old, new, k
  <2> QED BY <1>1, <1>3, <2>1, <2>2
<1> HIDE DEF old, new, k, X
<1>5. new = Append(old, k)
  <2>1. old \in Seq(X) /\ Len(old) = c /\ new \in Seq(X) /\ Len(new) = c + 1 /\ k \in X
    <3>1. k \in X
      BY DEF X
    <3>2. old \in Seq(X) /\ Len(old) = c /\ new \in Seq(X) /\ Len(new) = c + 1
      BY ONLY <1>1, <1>4
    <3> QED BY <3>1, <3>2
  <2>2. /\ Append(old, k) \in Seq(X) /\ Len(Append(old, k)) = c + 1
        /\ \A p \in 1 .. c : Append(old, k)[p] = old[p]
        /\ Append(old, k)[c + 1] = k
    BY <2>1, AppendProperties
  <2>3. \A p \in 1 .. c + 1 : new[p] = Append(old, k)[p]
    BY <1>1, <1>3, <2>2
  <2> QED BY <2>1, <2>2, <2>3, SeqEqual
<1>6. 1 .. c + 1 = (1 .. c) \cup {c + 1}
  BY <1>1
<1>7. RangeOf(new) = RangeOf(old) \cup {k}
  BY <1>3, <1>6 DEF RangeOf
<1> QED BY <1>1, <1>5, <1>7 DEF old, new, k, T

\* Section s holds what the first n lines say of it.
SectionRead(s, n) ==
    /\ keys[s] = KeysGiven(n, s)
    /\ DOMAIN map[s] = RangeOf(keys[s])
    /\ DOMAIN map[s] = KeysOf(n, s)
    /\ \A key \in DOMAIN map[s] : map[s][key] \in Given(n, s, key)
    /\ Ranked(FirstLines(n, s))

Opened(n) == {Empty} \cup {file[x].name : x \in {y \in 1 .. n : file[y].is = "section"}}

ParseInv ==
    /\ file \in Files /\ line \in Nat \ {0} /\ line <= Len(file) + 1
    /\ load \notin {"parse", "raised"} => line = Len(file) + 1
    /\ section = SectionAt(line) /\ section \in DOMAIN keys /\ DOMAIN map = DOMAIN keys
    /\ DOMAIN keys = Opened(line - 1)
    /\ \A x \in 1 .. line - 1 : file[x].is = "entry" => SectionAt(x) \in DOMAIN keys
    /\ \A s \in DOMAIN keys : SectionRead(s, line - 1)

LEMMA FileTypes ==
    ASSUME file \in Files
    PROVE  /\ file \in Seq(Lines) /\ Len(file) \in Nat
           /\ \A x \in 1 .. Len(file) :
                /\ file[x] \in Lines
                /\ file[x].is \in {"skip", "badsection", "noeq", "section", "entry"}
                /\ file[x].is = "section" => file[x].name \in STRING
                /\ file[x].is = "entry" => file[x].key \in STRING /\ file[x].val \in Seq(STRING)
<1>1. file \in Seq(Lines)
  BY ConfigAssumption
<1>2. \A l \in Lines :
        /\ l.is \in {"skip", "badsection", "noeq", "section", "entry"}
        /\ l.is = "section" => l.name \in STRING
        /\ l.is = "entry" => l.key \in STRING /\ l.val \in Seq(STRING)
  BY DEF Lines
<1> QED BY <1>1, <1>2

\* A section that nothing is said of.
LEMMA NothingRead ==
    ASSUME NEW n \in Nat, NEW s, Entries(n, s) = {}
    PROVE  /\ KeysGiven(n, s) = <<>> /\ Ranked(FirstLines(n, s))
           /\ FirstLines(n, s) = {}
<1>1. FirstLines(n, s) = {}
  BY DEF FirstLines
<1>2. Cardinality({}) = 0
  BY FS_EmptySet
<1>3. KeysGiven(n, s) = <<>>
  BY <1>1, <1>2 DEF KeysGiven
<1>4. Ranked({})
  BY <1>2 DEF Ranked
<1> QED BY <1>1, <1>3, <1>4

\* A line that says nothing of section s leaves it as it is.
LEMMA SectionKept ==
    ASSUME NEW n \in Nat \ {0}, NEW s, SectionRead(s, n - 1), file' = file,
           keys'[s] = keys[s], map'[s] = map[s], ~(file[n].is = "entry" /\ SectionAt(n) = s)
    PROVE  SectionRead(s, n)'
<1>1. Entries(n, s) = Entries(n - 1, s) /\ FirstLines(n, s) = FirstLines(n - 1, s)
  BY EntriesAfter, FirstLinesAfter
<1>2. /\ KeysGiven(n, s) = KeysGiven(n - 1, s) /\ KeysOf(n, s) = KeysOf(n - 1, s)
      /\ \A key : Given(n, s, key) = Given(n - 1, s, key)
  BY <1>1, KeysSame DEF Given, KeysOf
<1>3. /\ Entries(n, s)' = Entries(n, s) /\ FirstLines(n, s)' = FirstLines(n, s)
      /\ KeysGiven(n, s)' = KeysGiven(n, s)
      /\ KeysOf(n, s)' = KeysOf(n, s) /\ \A key : Given(n, s, key)' = Given(n, s, key)
  BY SameFile
<1> QED BY <1>1, <1>2, <1>3 DEF SectionRead

LEMMA SectionSame ==
    ASSUME NEW n, NEW s, SectionRead(s, n), file' = file, keys'[s] = keys[s], map'[s] = map[s]
    PROVE  SectionRead(s, n)'
<1>1. /\ Entries(n, s)' = Entries(n, s) /\ FirstLines(n, s)' = FirstLines(n, s)
      /\ KeysGiven(n, s)' = KeysGiven(n, s)
      /\ KeysOf(n, s)' = KeysOf(n, s) /\ \A key : Given(n, s, key)' = Given(n, s, key)
  BY SameFile
<1> QED BY <1>1 DEF SectionRead

\* An entry goes to its section: a key that is new there is the last one.
LEMMA SectionTakes ==
    ASSUME NEW n \in Nat \ {0}, NEW s, SectionRead(s, n - 1), file' = file,
           file[n].is = "entry", SectionAt(n) = s,
           keys'[s] = IF file[n].key \in DOMAIN map[s] THEN keys[s] ELSE Append(keys[s], file[n].key),
           map'[s] \in Inserts(map[s], file[n].key, file[n].val)
    PROVE  SectionRead(s, n)'
<1> DEFINE k == file[n].key
<1>1. Entries(n, s) = Entries(n - 1, s) \cup {n}
  BY EntriesAfter
<1>2. /\ Entries(n, s)' = Entries(n, s) /\ FirstLines(n, s)' = FirstLines(n, s)
      /\ KeysGiven(n, s)' = KeysGiven(n, s)
      /\ KeysOf(n, s)' = KeysOf(n, s) /\ \A key : Given(n, s, key)' = Given(n, s, key)
  BY SameFile
<1>a. \/ map'[s] = map[s] /\ k \in DOMAIN map[s]
      \/ map'[s] = [x \in DOMAIN map[s] \cup {k} |-> IF x = k THEN file[n].val ELSE map[s][x]]
  BY DEF Inserts
<1>3. DOMAIN map'[s] = DOMAIN map[s] \cup {k}
  BY <1>a
<1>4. ASSUME NEW key \in DOMAIN map'[s]
      PROVE  \/ map'[s][key] = file[n].val /\ key = k
             \/ key \in DOMAIN map[s] /\ map'[s][key] = map[s][key]
  BY <1>a
<1>5. \A key : Given(n - 1, s, key) \subseteq Given(n, s, key)
  BY <1>1 DEF Given
<1>6. file[n].val \in Given(n, s, k)
  BY <1>1 DEF Given
<1>7. \A key \in DOMAIN map'[s] : map'[s][key] \in Given(n, s, key)
  BY <1>4, <1>5, <1>6 DEF SectionRead
<1>8. DOMAIN map'[s] = KeysOf(n, s)
  BY <1>1, <1>3 DEF SectionRead, KeysOf
<1> HIDE DEF k
<1>9. CASE k \in DOMAIN map[s]
  <2>1. \E y \in Entries(n - 1, s) : file[y].key = k
    BY <1>9 DEF SectionRead, KeysOf
  <2>2. FirstLines(n, s) = FirstLines(n - 1, s)
    BY <2>1, FirstLinesAfter DEF k
  <2>3. KeysGiven(n, s) = KeysGiven(n - 1, s)
    BY <2>2, KeysSame
  <2>4. keys'[s] = keys[s] /\ DOMAIN map'[s] = DOMAIN map[s]
    BY <1>3, <1>9 DEF k
  <2>5. /\ keys[s] = KeysGiven(n - 1, s) /\ Ranked(FirstLines(n - 1, s))
        /\ DOMAIN map[s] = RangeOf(keys[s])
    BY DEF SectionRead
  <2>6. keys'[s] = KeysGiven(n, s) /\ DOMAIN map'[s] = RangeOf(keys'[s])
    BY <2>3, <2>4, <2>5
  <2> QED BY <1>2, <1>7, <1>8, <2>2, <2>5, <2>6 DEF SectionRead
<1>10. CASE k \notin DOMAIN map[s]
  <2>1. \A y \in Entries(n - 1, s) : file[y].key # k
    BY <1>10 DEF SectionRead, k, KeysOf
  <2>2. /\ FirstLines(n, s) = FirstLines(n - 1, s) \cup {n}
        /\ FirstLines(n - 1, s) \subseteq 1 .. n - 1
    BY <2>1, FirstLinesAfter DEF k
  <2>3. /\ KeysGiven(n, s) = Append(KeysGiven(n - 1, s), k)
        /\ Ranked(FirstLines(n, s))
        /\ RangeOf(KeysGiven(n, s)) = RangeOf(KeysGiven(n - 1, s)) \cup {k}
    <3>1. Ranked(FirstLines(n - 1, s))
      BY DEF SectionRead
    <3> QED BY <2>2, <3>1, KeysAppend DEF k
  <2>4. keys'[s] = KeysGiven(n, s) /\ keys[s] = KeysGiven(n - 1, s)
    BY <1>10, <2>3 DEF SectionRead, k
  <2>5. DOMAIN map[s] = RangeOf(keys[s])
    BY DEF SectionRead
  <2>7. DOMAIN map'[s] = RangeOf(keys'[s])
    BY <1>3, <2>3, <2>4, <2>5
  <2> QED BY <1>2, <1>7, <1>8, <2>3, <2>4, <2>7 DEF SectionRead
<1> QED BY <1>9, <1>10
\* The next line is read.
NextLine(n) == n = line /\ n \in Nat \ {0} /\ n <= Len(file) /\ line' = n + 1 /\ file' = file

\* What a step that reads no line leaves alone.
LEMMA ParseSame ==
    ASSUME ParseInv, file' = file, UNCHANGED iniVars,
           load' \notin {"parse", "raised"} => line = Len(file) + 1
    PROVE  ParseInv'
<1>1. line' = line /\ section' = section /\ keys' = keys /\ map' = map
  BY DEF iniVars
<1>2. \A x : SectionAt(x)' = SectionAt(x)
  BY SameFile
<1>3. \A s \in DOMAIN keys : SectionRead(s, line - 1)'
  <2> TAKE s \in DOMAIN keys
  <2> DEFINE n == line - 1
  <2>1. SectionRead(s, n)
    BY DEF ParseInv
  <2>2. n' = n
    BY <1>1
  <2>3. keys'[s] = keys[s] /\ map'[s] = map[s]
    BY <1>1
  <2> HIDE DEF n
  <2>4. SectionRead(s, n)'
    BY <2>1, <2>2, <2>3, SectionSame
  <2> QED BY <2>4 DEF n
<1>4. Opened(line - 1)' = Opened(line - 1)
  BY <1>1 DEF Opened
<1> QED BY <1>1, <1>2, <1>3, <1>4 DEF ParseInv
Named(n) == IF file[n].is = "section" THEN {file[n].name} ELSE {}

\* It is enough that every section holds what is said up to the line read.
LEMMA ParseRead ==
    ASSUME ParseInv, NEW n, NextLine(n), load = "parse", load' = "parse",
           section' = SectionAt(n + 1), DOMAIN map' = DOMAIN keys',
           DOMAIN keys' = DOMAIN keys \cup Named(n),
           \A s \in DOMAIN keys' : SectionRead(s, n)'
    PROVE  ParseInv'
<1>1. /\ n \in Nat \ {0} /\ n = line /\ line' = n + 1 /\ file' = file /\ n <= Len(file)
      /\ line' - 1 = n /\ line' <= Len(file) + 1 /\ file \in Files /\ line' \in Nat \ {0}
  <2>1. n \in Nat \ {0} /\ n = line /\ line' = n + 1 /\ file' = file /\ n <= Len(file)
    BY DEF NextLine
  <2>2. file \in Files /\ Len(file) \in Nat
    BY FileTypes DEF ParseInv
  <2> QED BY <2>1, <2>2
<1>2. \A x : SectionAt(x)' = SectionAt(x)
  BY <1>1, SameFile
<1>3. SectionAt(n + 1)' = SectionAt(n + 1)
  BY <1>2
<1>4. SectionAt(n + 1) \in DOMAIN keys'
  <2>1. SectionAt(n + 1) = IF file[n].is = "section" THEN file[n].name ELSE SectionAt(n)
    BY <1>1, SectionAfter
  <2>2. SectionAt(n) \in DOMAIN keys
    BY <1>1 DEF ParseInv
  <2> QED BY <2>1, <2>2 DEF Named
<1>5. Opened(n)' = Opened(n)
  BY <1>1 DEF Opened
<1>6. Opened(n) = Opened(n - 1) \cup Named(n)
  <2>1. 1 .. n = (1 .. n - 1) \cup {n}
    BY <1>1
  <2> QED BY <2>1 DEF Opened, Named
<1>7. DOMAIN keys' = Opened(n)'
  <2>1. DOMAIN keys = Opened(n - 1)
    BY <1>1 DEF ParseInv
  <2> QED BY <1>5, <1>6, <2>1
<1>8. \A x \in 1 .. n : file[x].is = "entry" => SectionAt(x) \in DOMAIN keys'
  <2>1. \A x \in 1 .. n : x = n \/ x \in 1 .. n - 1
    BY <1>1
  <2> QED BY <1>1, <2>1 DEF ParseInv
<1>9. line' \in Nat \ {0} /\ line' <= Len(file') + 1 /\ file' \in Files
  BY <1>1
<1>10. section' = SectionAt(n + 1)' /\ section' \in DOMAIN keys'
  BY <1>3, <1>4
<1>11. \A x \in 1 .. n : file'[x].is = "entry" => SectionAt(x)' \in DOMAIN keys'
  BY <1>1, <1>2, <1>8
<1> QED BY <1>1, <1>7, <1>9, <1>10, <1>11 DEF ParseInv

LEMMA ReadsSkip == ASSUME ParseInv, SkipLine PROVE ParseInv'
<1>1. PICK n : n = line
  OBVIOUS
<1>2. NextLine(n) /\ file[n].is = "skip"
  BY <1>1 DEF SkipLine, Reading, ParseInv, NextLine
<1>3. /\ load = "parse" /\ load' = "parse" /\ section' = section /\ keys' = keys /\ map' = map
      /\ n \in Nat \ {0} /\ file' = file
  BY <1>2 DEF SkipLine, Reading, NextLine
<1>4. section' = SectionAt(n + 1)
  BY <1>1, <1>2, <1>3, SectionAfter DEF ParseInv
<1>5. ASSUME NEW s \in DOMAIN keys' PROVE SectionRead(s, n)'
  <2>1. SectionRead(s, n - 1)
    BY <1>1, <1>3 DEF ParseInv
  <2> QED BY <1>2, <1>3, <2>1, SectionKept
<1>6. DOMAIN map' = DOMAIN keys' /\ DOMAIN keys' = DOMAIN keys \cup Named(n)
  BY <1>2, <1>3 DEF ParseInv, Named
<1> QED BY <1>2, <1>3, <1>4, <1>5, <1>6, ParseRead

LEMMA ReadsSection == ASSUME ParseInv, OpenSection PROVE ParseInv'
<1>1. PICK n : n = line
  OBVIOUS
<1> DEFINE name == file[n].name
<1>2. NextLine(n) /\ file[n].is = "section"
  BY <1>1 DEF OpenSection, Reading, ParseInv, NextLine
<1>3. /\ load = "parse" /\ load' = "parse" /\ n \in Nat \ {0} /\ file' = file /\ section' = name
      /\ keys' = [s \in DOMAIN keys \cup {name} |-> IF s \in DOMAIN keys THEN keys[s] ELSE <<>>]
      /\ map' = [s \in DOMAIN map \cup {name} |-> IF s \in DOMAIN map THEN map[s] ELSE <<>>]
  <2>1. DOMAIN map = DOMAIN keys
    BY DEF ParseInv
  <2> QED BY <1>1, <1>2, <2>1 DEF OpenSection, Reading, NextLine, L, KeptSections
<1>4. section' = SectionAt(n + 1)
  BY <1>2, <1>3, SectionAfter
<1>5. ASSUME NEW s \in DOMAIN keys, s \in DOMAIN keys' PROVE SectionRead(s, n)'
  <2>1. SectionRead(s, n - 1)
    BY <1>1 DEF ParseInv
  <2>2. keys'[s] = keys[s] /\ map'[s] = map[s]
    BY <1>3 DEF ParseInv
  <2> QED BY <1>2, <1>3, <2>1, <2>2, SectionKept
<1>6. ASSUME NEW s, s = name, s \notin DOMAIN keys PROVE SectionRead(s, n)'
  <2>1. Entries(n, s) = {}
    <3>1. \A x \in 1 .. n - 1 : ~(file[x].is = "entry" /\ SectionAt(x) = s)
      BY <1>1, <1>6 DEF ParseInv
    <3>2. \A x \in 1 .. n : x = n \/ x \in 1 .. n - 1
      BY <1>3
    <3> QED BY <1>2, <3>1, <3>2 DEF Entries
  <2>2. KeysGiven(n, s) = <<>> /\ Ranked(FirstLines(n, s))
    BY <1>3, <2>1, NothingRead
  <2>3. KeysOf(n, s) = {}
    BY <2>1 DEF KeysOf
  <2>4. keys'[s] = <<>> /\ map'[s] = <<>>
    BY <1>3, <1>6 DEF ParseInv
  <2>5. DOMAIN map'[s] = {} /\ RangeOf(keys'[s]) = {}
    BY <2>4 DEF RangeOf
  <2>6. /\ FirstLines(n, s)' = FirstLines(n, s) /\ KeysGiven(n, s)' = KeysGiven(n, s)
        /\ KeysOf(n, s)' = KeysOf(n, s)
    BY <1>3, SameFile
  <2> QED BY <2>2, <2>3, <2>4, <2>5, <2>6 DEF SectionRead
<1>7. DOMAIN map' = DOMAIN keys' /\ DOMAIN keys' = DOMAIN keys \cup Named(n)
  BY <1>2, <1>3 DEF ParseInv, Named
<1>8. \A s \in DOMAIN keys' : SectionRead(s, n)'
  BY <1>3, <1>5, <1>6
<1> QED BY <1>2, <1>3, <1>4, <1>7, <1>8, ParseRead

LEMMA ReadsEntry == ASSUME ParseInv, SetKey PROVE ParseInv'
<1>1. PICK n : n = line
  OBVIOUS
<1> DEFINE k == file[n].key
<1>2. NextLine(n) /\ file[n].is = "entry"
  BY <1>1 DEF SetKey, Reading, ParseInv, NextLine
<1>3. PICK m : /\ m \in Inserts(map[section], k, file[n].val)
               /\ map' = [map EXCEPT ![section] = m]
  BY <1>1 DEF SetKey, L
<1>4. /\ load = "parse" /\ load' = "parse" /\ n \in Nat \ {0} /\ file' = file /\ section' = section
      /\ keys' = [keys EXCEPT ![section] = IF k \in DOMAIN map[section] THEN @ ELSE Append(@, k)]
  BY <1>1, <1>2 DEF SetKey, Reading, NextLine, L
<1>5. section \in DOMAIN keys /\ section = SectionAt(n) /\ DOMAIN map = DOMAIN keys
  BY <1>1 DEF ParseInv
<1>6. section' = SectionAt(n + 1)
  BY <1>2, <1>4, <1>5, SectionAfter
<1>7. ASSUME NEW s \in DOMAIN keys PROVE SectionRead(s, n)'
  <2>1. SectionRead(s, n - 1)
    BY <1>1 DEF ParseInv
  <2>2. CASE s = section
    <3>1. /\ keys'[s] = IF k \in DOMAIN map[s] THEN keys[s] ELSE Append(keys[s], k)
          /\ map'[s] \in Inserts(map[s], k, file[n].val)
      BY <1>3, <1>4, <1>5, <2>2
    <3> QED BY <1>2, <1>4, <1>5, <2>1, <2>2, <3>1, SectionTakes
  <2>3. CASE s # section
    <3>1. keys'[s] = keys[s] /\ map'[s] = map[s]
      BY <1>3, <1>4, <1>5, <2>3
    <3> QED BY <1>4, <1>5, <2>1, <2>3, <3>1, SectionKept
  <2> QED BY <2>2, <2>3
<1>8. DOMAIN map' = DOMAIN keys' /\ DOMAIN keys' = DOMAIN keys \cup Named(n)
  BY <1>2, <1>3, <1>4, <1>5 DEF Named
<1>9. \A s \in DOMAIN keys' : SectionRead(s, n)'
  BY <1>4, <1>7
<1> QED BY <1>2, <1>4, <1>6, <1>8, <1>9, ParseRead

LEMMA ParseInvInit == ConfigInit => ParseInv
<1> SUFFICES ASSUME ConfigInit PROVE ParseInv
  OBVIOUS
<1>1. /\ file \in Files /\ line = 1 /\ section = Empty /\ load = "parse"
      /\ keys = [s \in {Empty} |-> <<>>] /\ map = [s \in {Empty} |-> <<>>]
  BY DEF ConfigInit
<1>2. Len(file) \in Nat
  BY <1>1, FileTypes
<1>3. SectionAt(1) = Empty
  <2>1. {y \in 1 .. 1 - 1 : file[y].is = "section"} = {}
    OBVIOUS
  <2> QED BY <2>1 DEF SectionAt
<1>4. Opened(0) = {Empty}
  BY DEF Opened
<1>5. SectionRead(Empty, 0)
  <2>1. Entries(0, Empty) = {}
    BY DEF Entries
  <2>2. KeysGiven(0, Empty) = <<>> /\ Ranked(FirstLines(0, Empty))
    BY <2>1, NothingRead
  <2>3. KeysOf(0, Empty) = {}
    BY <2>1 DEF KeysOf
  <2>4. keys[Empty] = <<>> /\ map[Empty] = <<>>
    BY <1>1
  <2>5. DOMAIN map[Empty] = {} /\ RangeOf(keys[Empty]) = {}
    BY <2>4 DEF RangeOf
  <2> QED BY <2>2, <2>3, <2>4, <2>5 DEF SectionRead
<1>6. DOMAIN keys = {Empty} /\ DOMAIN map = {Empty} /\ line - 1 = 0
  BY <1>1
<1> QED BY <1>1, <1>2, <1>3, <1>4, <1>5, <1>6 DEF ParseInv

LEMMA ParseInvStep == ParseInv /\ [ConfigNext]_configVars => ParseInv'
<1> SUFFICES ASSUME ParseInv, [ConfigNext]_configVars PROVE ParseInv'
  OBVIOUS
<1>1. CASE SkipLine
  BY <1>1, ReadsSkip
<1>2. CASE OpenSection
  BY <1>2, ReadsSection
<1>3. CASE SetKey
  BY <1>3, ReadsEntry
<1>4. CASE EndOfFile
  <2>1. /\ load' = "me" /\ line > Len(file) /\ file' = file /\ UNCHANGED iniVars
    BY <1>4 DEF EndOfFile
  <2>2. line = Len(file) + 1
    BY <2>1, FileTypes DEF ParseInv
  <2> QED BY <2>1, <2>2, ParseSame
<1>5. ASSUME file' = file, UNCHANGED iniVars, load' = "raised" PROVE ParseInv'
  BY <1>5, ParseSame
<1>6. ASSUME file' = file, UNCHANGED iniVars, load \notin {"parse", "raised"} PROVE ParseInv'
  BY <1>6, ParseSame DEF ParseInv
<1>7. CASE BadLine \/ LoadMeRaises \/ LoadPeerRaises \/ NoPeersRaises \/ NoSelfRaises
  BY <1>5, <1>7 DEF BadLine, LoadMeRaises, LoadPeerRaises, NoPeersRaises, NoSelfRaises, Raise
<1>8. CASE LoadMe \/ LoadPeer \/ FindSelf \/ LoadUdp \/ LoadProbe
  BY <1>6, <1>8 DEF LoadMe, LoadPeer, FindSelf, LoadUdp, LoadProbe
<1>9. CASE UNCHANGED configVars
  <2>1. file' = file /\ UNCHANGED iniVars /\ load' = load
    BY <1>9 DEF configVars
  <2> QED BY <2>1, ParseSame DEF ParseInv
<1> QED BY <1>1, <1>2, <1>3, <1>4, <1>7, <1>8, <1>9 DEF ConfigNext

\* However often a section is opened and a key repeated, the sections hold what the
\* lines read so far say (parseConfig, ini.cpp:53-102).
THEOREM FileIsMerged == ConfigSpec => []Merged
<1>1. ParseInv => Merged
  BY DEF ParseInv, Merged, SectionRead, Opened, RangeOf, KeysOf
<1> QED BY <1>1, ParseInvInit, ParseInvStep, PTL DEF ConfigSpec
-----------------------------------------------------------------------------
(* The items of an entry (forEachItem).                                    *)

\* Every set of numbers has a least one: intervals of numbers are finite sets, and
\* the strict subset order of finite sets is well-founded.
LEMMA LeastOne ==
    ASSUME NEW T, T \subseteq Nat, T # {}
    PROVE  \E x \in T : \A y \in T : x <= y
<1> DEFINE U == {0 .. n : n \in T}
<1>1. ASSUME NEW n \in T PROVE 0 .. n \in FiniteSubsetsOf(Nat)
  <2>1. IsFiniteSet(0 .. n)
    BY FS_Interval
  <2> QED BY <2>1 DEF FiniteSubsetsOf
<1>2. U \subseteq FiniteSubsetsOf(Nat) /\ U # {}
  BY <1>1
<1> HIDE DEF U
<1>3. \E X \in U : \A Y \in U : ~(<<Y, X>> \in StrictSubsetOrdering(Nat))
  BY <1>2, FS_StrictSubsetOrderingWellFounded, WFMin
<1>4. PICK x \in T : \A y \in T : ~(<<0 .. y, 0 .. x>> \in StrictSubsetOrdering(Nat))
  BY <1>3 DEF U
<1>5. ASSUME NEW y \in T, ~(x <= y) PROVE FALSE
  <2>1. /\ 0 .. y \subseteq 0 .. x /\ x \in 0 .. x /\ x \notin 0 .. y
        /\ 0 .. y \in SUBSET Nat /\ 0 .. x \in SUBSET Nat
    BY <1>5
  <2>2. 0 .. y # 0 .. x
    BY <2>1
  <2>3. <<0 .. y, 0 .. x>> \in StrictSubsetOrdering(Nat)
    BY <2>1, <2>2 DEF StrictSubsetOrdering
  <2> QED BY <1>4, <2>3
<1> QED BY <1>5

\* Induction up to c.
LEMMA UpTo ==
    ASSUME NEW c \in Nat, NEW S, 0 \in S, \A n \in 1 .. c : n - 1 \in S => n \in S
    PROVE  0 .. c \subseteq S
<1> DEFINE T == {n \in 0 .. c : n \notin S}
<1> SUFFICES ASSUME T # {} PROVE FALSE
  OBVIOUS
<1>0. T \subseteq Nat
  OBVIOUS
<1> HIDE DEF T
<1>1. PICK x \in T : \A y \in T : x <= y
  BY <1>0, LeastOne
<1> USE DEF T
<1>2. x \in 1 .. c /\ x - 1 \in 0 .. c /\ ~(x <= x - 1)
  OBVIOUS
<1>3. x - 1 \in S
  BY <1>1, <1>2
<1> QED BY <1>2, <1>3

\* g[n] is what the first n items leave.
Taken(val, c, g) ==
    g = [n \in 0 .. c |->
           IF n = 0 THEN <<>>
           ELSE IF val[n] = Empty THEN g[n - 1] ELSE Append(g[n - 1], val[n])]

LEMMA ItemsTaken ==
    ASSUME NEW val
    PROVE  Items(val) = (CHOOSE g : Taken(val, Len(val), g))[Len(val)]
BY Zenon DEF Items, Taken

LEMMA TakenExists == ASSUME NEW val, NEW c \in Nat PROVE \E g : Taken(val, c, g)
<1> DEFINE S == {n \in 0 .. c : \E g : Taken(val, n, g)}
<1>1. 0 \in S
  <2>1. Taken(val, 0, [n \in 0 .. 0 |-> <<>>])
    BY DEF Taken
  <2> QED BY <2>1
<1>2. ASSUME NEW n \in 1 .. c, n - 1 \in S PROVE n \in S
  <2>1. PICK g : Taken(val, n - 1, g)
    BY <1>2
  <2> DEFINE last == IF val[n] = Empty THEN g[n - 1] ELSE Append(g[n - 1], val[n])
             h == [x \in 0 .. n |-> IF x = n THEN last ELSE g[x]]
  <2>2. \A x \in 0 .. n - 1 :
          g[x] = IF x = 0 THEN <<>>
                 ELSE IF val[x] = Empty THEN g[x - 1] ELSE Append(g[x - 1], val[x])
    BY <2>1 DEF Taken
  <2>3. \A x \in 0 .. n : x = n \/ x \in 0 .. n - 1
    OBVIOUS
  <2>4. \A x \in 0 .. n - 1 : h[x] = g[x]
    OBVIOUS
  <2>5. h[n] = last
    OBVIOUS
  <2>6. h = [x \in 0 .. n |-> h[x]]
    OBVIOUS
  <2> HIDE DEF h
  <2>7. \A x \in 0 .. n :
          h[x] = IF x = 0 THEN <<>>
                 ELSE IF val[x] = Empty THEN h[x - 1] ELSE Append(h[x - 1], val[x])
    <3> TAKE x \in 0 .. n
    <3>1. CASE x = n
      BY <2>4, <2>5, <3>1
    <3>2. CASE x \in 0 .. n - 1 /\ x # 0
      <4>1. h[x] = g[x] /\ h[x - 1] = g[x - 1]
        BY <2>4, <3>2
      <4> QED BY <2>2, <3>2, <4>1
    <3>3. CASE x = 0
      <4>1. h[0] = g[0] /\ 0 \in 0 .. n - 1
        BY <2>4
      <4> QED BY <2>2, <3>3, <4>1
    <3> QED BY <2>3, <3>1, <3>2, <3>3
  <2>8. Taken(val, n, h)
    BY <2>6, <2>7 DEF Taken
  <2> QED BY <2>8
<1> HIDE DEF S
<1>3. 0 .. c \subseteq S
  BY <1>1, <1>2, UpTo
<1> QED BY <1>3 DEF S

\* An item is one between commas that is not empty, and there is none only where
\* they all are.
ItemsRight(val, n, items) ==
    /\ items \in Seq(STRING)
    /\ \A x \in DOMAIN items : \E m \in 1 .. n : items[x] = val[m] /\ val[m] # Empty
    /\ items = <<>> => \A m \in 1 .. n : val[m] = Empty

LEMMA ItemsOf == ASSUME NEW val \in Seq(STRING) PROVE ItemsRight(val, Len(val), Items(val))
<1> DEFINE c == Len(val)
           g == CHOOSE f : Taken(val, c, f)
           S == {n \in 0 .. c : ItemsRight(val, n, g[n])}
<1>1. c \in Nat /\ \A n \in 1 .. c : val[n] \in STRING
  OBVIOUS
<1>2. Taken(val, c, g)
  BY <1>1, TakenExists
<1>3. Items(val) = g[c]
  BY ItemsTaken
<1> HIDE DEF g, c
<1>4. \A n \in 0 .. c :
        g[n] = IF n = 0 THEN <<>>
               ELSE IF val[n] = Empty THEN g[n - 1] ELSE Append(g[n - 1], val[n])
  BY <1>2 DEF Taken
<1>5. 0 \in S
  <2>1. g[0] = <<>>
    BY <1>1, <1>4
  <2>2. <<>> \in Seq(STRING) /\ DOMAIN <<>> = {} /\ 1 .. 0 = {} /\ 0 \in 0 .. c
    BY <1>1
  <2>3. ItemsRight(val, 0, <<>>)
    BY <2>2 DEF ItemsRight
  <2> QED BY <2>1, <2>2, <2>3
<1>6. ASSUME NEW n \in 1 .. c, n - 1 \in S PROVE n \in S
  <2>1. ItemsRight(val, n - 1, g[n - 1])
    BY <1>6
  <2>2. 1 .. n = (1 .. n - 1) \cup {n} /\ n \in 0 .. c /\ n # 0
    BY <1>1
  <2>3. CASE val[n] = Empty
    <3>1. g[n] = g[n - 1]
      BY <1>4, <2>2, <2>3
    <3> QED BY <2>1, <2>2, <2>3, <3>1 DEF ItemsRight
  <2>4. CASE val[n] # Empty
    <3>1. g[n] = Append(g[n - 1], val[n])
      BY <1>4, <2>2, <2>4
    <3>2. g[n - 1] \in Seq(STRING) /\ val[n] \in STRING
      BY <1>1, <2>1 DEF ItemsRight
    <3>3. /\ g[n] \in Seq(STRING) /\ Len(g[n]) = Len(g[n - 1]) + 1
          /\ \A x \in 1 .. Len(g[n - 1]) : g[n][x] = g[n - 1][x]
          /\ g[n][Len(g[n - 1]) + 1] = val[n]
      BY <3>1, <3>2, AppendProperties
    <3>4. Len(g[n - 1]) \in Nat /\ DOMAIN g[n - 1] = 1 .. Len(g[n - 1])
          /\ DOMAIN g[n] = 1 .. Len(g[n])
      BY <3>2, <3>3
    <3>5. \A x \in DOMAIN g[n] : x \in DOMAIN g[n - 1] \/ x = Len(g[n - 1]) + 1
      BY <3>3, <3>4
    <3>6. \A x \in DOMAIN g[n] : \E m \in 1 .. n : g[n][x] = val[m] /\ val[m] # Empty
      <4> TAKE x \in DOMAIN g[n]
      <4>1. CASE x = Len(g[n - 1]) + 1
        BY <2>2, <2>4, <3>3, <4>1
      <4>2. CASE x \in DOMAIN g[n - 1]
        <5>1. PICK m \in 1 .. n - 1 : g[n - 1][x] = val[m] /\ val[m] # Empty
          BY <2>1, <4>2 DEF ItemsRight
        <5> QED BY <2>2, <3>3, <3>4, <4>2, <5>1
      <4> QED BY <3>5, <4>1, <4>2
    <3>7. g[n] # <<>>
      BY <3>3, <3>4
    <3> QED BY <2>2, <3>3, <3>6, <3>7 DEF ItemsRight
  <2> QED BY <2>3, <2>4
<1> HIDE DEF S
<1>7. 0 .. c \subseteq S
  BY <1>1, <1>5, <1>6, UpTo
<1>8. c \in S
  BY <1>1, <1>7
<1> QED BY <1>3, <1>8 DEF S, c
-----------------------------------------------------------------------------
(* loadConfig: what is refused, and what is accepted.                      *)

\* Once the file is read, the sections are what is written.
LEMMA AsWritten ==
    ASSUME ParseInv, load \notin {"parse", "raised"}
    PROVE  /\ Len(file) \in Nat
           /\ \A s \in DOMAIN map : \A key \in DOMAIN map[s] : map[s][key] \in Written(s, key)
           /\ \A s, key : s \notin DOMAIN map \/ key \notin DOMAIN map[s] => Written(s, key) = {}
           /\ PeerKeys = KeysGiven(Len(file), "peers") /\ Len(PeerKeys) \in Nat
           /\ DOMAIN PeerKeys = 1 .. Len(PeerKeys)
           /\ RangeOf(PeerKeys) = KeysOf(Len(file), "peers")
           /\ \A x \in 1 .. Len(PeerKeys) :
                "peers" \in DOMAIN map /\ PeerKeys[x] \in DOMAIN map["peers"]
           /\ \A s, key : \A val \in Written(s, key) : val \in Seq(STRING)
<1>1. Len(file) \in Nat /\ line - 1 = Len(file)
  BY FileTypes DEF ParseInv
<1>2. /\ DOMAIN map = DOMAIN keys /\ \A s \in DOMAIN keys : SectionRead(s, Len(file))
      /\ \A x \in 1 .. Len(file) : file[x].is = "entry" => SectionAt(x) \in DOMAIN keys
  BY <1>1 DEF ParseInv
<1>3. \A s \in DOMAIN map : \A key \in DOMAIN map[s] : map[s][key] \in Written(s, key)
  BY <1>2 DEF SectionRead, Written
<1>4. ASSUME NEW s, NEW key, s \notin DOMAIN map \/ key \notin DOMAIN map[s]
      PROVE  Written(s, key) = {}
  <2>1. CASE s \notin DOMAIN map
    <3>1. Entries(Len(file), s) = {}
      BY <1>2, <2>1 DEF Entries
    <3> QED BY <3>1 DEF Written, Given
  <2>2. CASE s \in DOMAIN map
    <3>1. key \notin KeysOf(Len(file), s)
      BY <1>2, <1>4, <2>2 DEF SectionRead
    <3> QED BY <3>1 DEF KeysOf, Written, Given
  <2> QED BY <2>1, <2>2
<1>5. /\ PeerKeys = KeysGiven(Len(file), "peers")
      /\ RangeOf(PeerKeys) = KeysOf(Len(file), "peers") /\ Ranked(FirstLines(Len(file), "peers"))
      /\ PeerKeys # <<>> => "peers" \in DOMAIN map /\ DOMAIN map["peers"] = RangeOf(PeerKeys)
  <2>1. CASE "peers" \in DOMAIN keys
    <3>1. PeerKeys = keys["peers"] /\ SectionRead("peers", Len(file)) /\ "peers" \in DOMAIN map
      BY <1>2, <2>1 DEF PeerKeys
    <3> QED BY <3>1 DEF SectionRead
  <2>2. CASE "peers" \notin DOMAIN keys
    <3>1. Entries(Len(file), "peers") = {}
      BY <1>2, <2>2 DEF Entries
    <3>2. PeerKeys = <<>>
      BY <2>2 DEF PeerKeys
    <3>3. RangeOf(<<>>) = {}
      BY DEF RangeOf
    <3>4. KeysOf(Len(file), "peers") = {}
      BY <3>1 DEF KeysOf
    <3> QED BY <1>1, <3>1, <3>2, <3>3, <3>4, NothingRead
  <2> QED BY <2>1, <2>2
<1>6. Len(PeerKeys) \in Nat /\ DOMAIN PeerKeys = 1 .. Len(PeerKeys)
  <2> DEFINE c == Cardinality(FirstLines(Len(file), "peers"))
  <2>1. c \in Nat
    <3>1. FirstLines(Len(file), "peers") \subseteq 1 .. Len(file)
      BY DEF FirstLines, Entries
    <3>2. IsFiniteSet(1 .. Len(file))
      BY <1>1, FS_Interval
    <3> QED BY <3>1, <3>2, FS_Subset, FS_CardinalityType
  <2>2. PeerKeys = [p \in 1 .. c |-> PeerKeys[p]]
    BY <1>5 DEF KeysGiven
  <2> HIDE DEF c
  <2> DEFINE X == {PeerKeys[p] : p \in 1 .. c}
  <2>3. PeerKeys \in [1 .. c -> X]
    BY <2>2
  <2> HIDE DEF X
  <2>4. PeerKeys \in Seq(X)
    BY ONLY <2>1, <2>3
  <2> QED BY <2>4
<1>7. \A x \in 1 .. Len(PeerKeys) : "peers" \in DOMAIN map /\ PeerKeys[x] \in DOMAIN map["peers"]
  <2> TAKE x \in 1 .. Len(PeerKeys)
  <2>1. PeerKeys # <<>>
    BY <1>6
  <2>2. PeerKeys[x] \in RangeOf(PeerKeys)
    BY <1>6 DEF RangeOf
  <2> QED BY <1>5, <2>1, <2>2
<1>8. \A s, key : \A val \in Written(s, key) : val \in Seq(STRING)
  <2>1. file \in Files
    BY DEF ParseInv
  <2>2. \A x \in 1 .. Len(file) : file[x].is = "entry" => file[x].val \in Seq(STRING)
    BY <2>1, FileTypes
  <2> QED BY <2>2 DEF Written, Given, Entries
<1> QED BY <1>1, <1>3, <1>4, <1>5, <1>6, <1>7, <1>8

Past == load \in {"peers", "rest", "probe", "done"}
VipsOf(ps) == {ps[x].vip : x \in 1 .. Len(ps)}

\* byVip_ finds the peers there are, by their VIPs.
Table ==
    /\ peers \in Seq([vip : Nat, dsts : Seq(STRING)])
    /\ DOMAIN byVip = VipsOf(peers)
    /\ \A v \in DOMAIN byVip : byVip[v] \in 1 .. Len(peers) /\ peers[byVip[v]].vip = v

PeerRead(x) ==
    /\ PeerKeys[x] \in DOMAIN Cidrs
    /\ peers[x] = [vip |-> Cidrs[PeerKeys[x]], dsts |-> Items(map["peers"][PeerKeys[x]])]
    /\ HasDsts(peers[x].dsts)

\* The options of a section, before it is loaded and after.
OptionsOf(s, opts, loaded) ==
    \A o \in opts : options[o] = IF loaded /\ s \in DOMAIN map /\ o \in DOMAIN map[s]
                                 THEN map[s][o] ELSE Default

LoadInv ==
    /\ load \in {"parse", "me", "peers", "rest", "probe", "done", "raised"}
    /\ Table
    /\ load \in {"parse", "me"} => peers = <<>>
    /\ Past => MeOk /\ vip = Cidrs[map["me"]["vip"][1]]
    /\ Past => Len(peers) <= Len(PeerKeys) /\ \A x \in 1 .. Len(peers) : PeerRead(x)
    /\ load \in {"rest", "probe", "done"} =>
         Len(peers) = Len(PeerKeys) /\ self \in 1 .. Len(peers) /\ peers[self].vip = vip
    /\ load # "raised" =>
         /\ OptionsOf("me", MeOptions, Past)
         /\ OptionsOf("udp", UdpOptions, load \in {"probe", "done"})
         /\ OptionsOf("probe", ProbeOptions, load = "done")
    /\ RaisedForCause

\* The faults of a file.
Faulty ==
    \/ \E x \in DOMAIN file : Bad(x)
    \/ Written("me", "vip") = {} \/ \E val \in Written("me", "vip") : BadVip(val)
    \/ KeysGiven(Len(file), "peers") = <<>>
    \/ \E x \in Entries(Len(file), "peers") : BadPeer(file[x].key)
    \/ \E val \in Written("me", "vip") : \A x \in Entries(Len(file), "peers") :
         Cidrs[file[x].key] # Cidrs[val[1]]

LEMMA MeFaulty == ASSUME ParseInv, load = "me", ~MeOk PROVE Faulty
<1>1. CASE "me" \notin DOMAIN map \/ "vip" \notin DOMAIN map["me"]
  <2>1. Written("me", "vip") = {}
    BY <1>1, AsWritten
  <2> QED BY <2>1 DEF Faulty
<1>2. CASE "me" \in DOMAIN map /\ "vip" \in DOMAIN map["me"]
  <2>1. map["me"]["vip"] \in Written("me", "vip")
    BY <1>2, AsWritten
  <2>2. BadVip(map["me"]["vip"])
    BY <1>2 DEF MeOk, BadVip
  <2> QED BY <2>1, <2>2 DEF Faulty
<1> QED BY <1>1, <1>2

\* Each key of [peers] is one that an entry has.
LEMMA KeyOfEntry ==
    ASSUME ParseInv, load = "peers", NEW p \in 1 .. Len(PeerKeys)
    PROVE  \E x \in Entries(Len(file), "peers") : file[x].key = PeerKeys[p]
<1>1. PeerKeys[p] \in RangeOf(PeerKeys)
  BY AsWritten DEF RangeOf
<1>2. PeerKeys[p] \in KeysOf(Len(file), "peers")
  BY <1>1, AsWritten
<1> QED BY <1>2 DEF KeysOf

LEMMA PeerFaulty ==
    ASSUME ParseInv, LoadInv, LoadPeerRaises
    PROVE  Faulty
<1>1. load = "peers" /\ Len(peers) < Len(PeerKeys) /\ Len(peers) \in Nat
  BY DEF LoadPeerRaises, LoadInv, Table
<1> DEFINE p == Len(peers) + 1
           key == PeerKeys[p]
           val == map["peers"][key]
<1>2. p \in 1 .. Len(PeerKeys) /\ NextKey = key
  BY <1>1, AsWritten DEF NextKey
<1> HIDE DEF p
<1>3. PICK x \in Entries(Len(file), "peers") : file[x].key = key
  BY <1>1, <1>2, KeyOfEntry
<1>4. "peers" \in DOMAIN map /\ key \in DOMAIN map["peers"]
  BY <1>1, <1>2, AsWritten
<1>5. val \in Written("peers", key)
  BY <1>1, <1>4, AsWritten
<1>6. val \in Seq(STRING)
  BY <1>1, <1>5, AsWritten
<1>7. key \in DOMAIN Cidrs => ~DstsOk(Items(val))
  BY <1>2 DEF LoadPeerRaises
<1> HIDE DEF key, val
<1>8. CASE key \notin DOMAIN Cidrs
  BY <1>3, <1>8 DEF Faulty, BadPeer
<1>9. CASE ~DstsOk(Items(val))
  <2>1. ItemsRight(val, Len(val), Items(val))
    BY <1>6, ItemsOf
  <2>2. DOMAIN val = 1 .. Len(val)
    BY <1>6
  <2>3. BadDsts(val) \/ \A m \in DOMAIN val : val[m] = Empty
    BY <1>9, <2>1, <2>2 DEF DstsOk, HasDsts, ItemsRight, BadDsts
  <2>4. BadPeer(key)
    BY <1>5, <2>3 DEF BadPeer
  <2> QED BY <1>3, <2>4 DEF Faulty
<1> QED BY <1>7, <1>8, <1>9

LEMMA SelfFaulty ==
    ASSUME ParseInv, LoadInv, NoSelfRaises
    PROVE  Faulty
<1>1. /\ load = "peers" /\ Len(peers) = Len(PeerKeys) /\ vip \notin DOMAIN byVip /\ Past
  BY DEF NoSelfRaises, Past
<1>2. MeOk /\ vip = Cidrs[map["me"]["vip"][1]]
  BY <1>1 DEF LoadInv
<1>3. map["me"]["vip"] \in Written("me", "vip")
  BY <1>1, <1>2, AsWritten DEF MeOk
<1>4. ASSUME NEW x \in Entries(Len(file), "peers") PROVE Cidrs[file[x].key] # vip
  <2>1. file[x].key \in RangeOf(PeerKeys)
    BY <1>1, AsWritten DEF KeysOf
  <2>2. PICK p \in 1 .. Len(PeerKeys) : PeerKeys[p] = file[x].key
    BY <1>1, <2>1, AsWritten DEF RangeOf
  <2>3. p \in 1 .. Len(peers) /\ peers[p].vip = Cidrs[PeerKeys[p]]
    <3>1. p \in 1 .. Len(peers) /\ PeerRead(p)
      BY <1>1 DEF LoadInv
    <3> QED BY <3>1 DEF PeerRead
  <2>4. peers[p].vip \in DOMAIN byVip
    BY <2>3 DEF LoadInv, Table, VipsOf
  <2> QED BY <1>1, <2>2, <2>3, <2>4
<1> QED BY <1>2, <1>3, <1>4 DEF Faulty
\* A step that raises has a cause.
LEMMA RaiseKeeps == ASSUME LoadInv, Raise, Faulty PROVE LoadInv'
<1>1. /\ load' = "raised" /\ file' = file /\ UNCHANGED tableVars
  BY DEF Raise
<1>2. Table'
  BY <1>1 DEF LoadInv, Table, tableVars, VipsOf
<1>3. RaisedForCause'
  <2>1. \A s, key : Written(s, key)' = Written(s, key)
    BY <1>1, SameFile DEF Written
  <2>2. /\ KeysGiven(Len(file), "peers")' = KeysGiven(Len(file), "peers")
        /\ Entries(Len(file), "peers")' = Entries(Len(file), "peers")
    <3>1. PICK n : n = Len(file)
      OBVIOUS
    <3>2. KeysGiven(n, "peers")' = KeysGiven(n, "peers") /\ Entries(n, "peers")' = Entries(n, "peers")
      BY <1>1, SameFile
    <3>3. n = Len(file')
      BY <1>1, <3>1
    <3> QED BY <3>1, <3>2, <3>3
  <2>3. \A x : Bad(x)' = Bad(x)
    BY <1>1 DEF Bad
  <2>4. \A key : BadPeer(key)' = BadPeer(key)
    BY <2>1 DEF BadPeer
  <2> QED BY <1>1, <2>1, <2>2, <2>3, <2>4 DEF RaisedForCause, Faulty
<1>4. ~Past'
  BY <1>1 DEF Past
<1> QED BY <1>1, <1>2, <1>3, <1>4 DEF LoadInv

LEMMA TableSame == ASSUME Table, peers' = peers, byVip' = byVip PROVE Table'
BY DEF Table, VipsOf

LEMMA LoadInvInit == ConfigInit => LoadInv
<1> SUFFICES ASSUME ConfigInit PROVE LoadInv
  OBVIOUS
<1>1. /\ load = "parse" /\ peers = <<>> /\ byVip = <<>> /\ options = [o \in Options |-> Default]
  BY DEF ConfigInit
<1>2. Table
  <2>1. VipsOf(<<>>) = {}
    BY DEF VipsOf
  <2>2. peers \in Seq([vip : Nat, dsts : Seq(STRING)]) /\ DOMAIN byVip = {}
    BY <1>1
  <2> QED BY <1>1, <2>1, <2>2 DEF Table
<1>3. ~Past
  BY <1>1 DEF Past
<1>4. /\ OptionsOf("me", MeOptions, Past) /\ OptionsOf("udp", UdpOptions, load \in {"probe", "done"})
      /\ OptionsOf("probe", ProbeOptions, load = "done")
  BY <1>1, <1>3 DEF OptionsOf, Options
<1> QED BY <1>1, <1>2, <1>3, <1>4 DEF LoadInv, RaisedForCause

\* The table and the options are as they were while the file is read.
LEMMA ReadKeeps ==
    ASSUME LoadInv, load = "parse", load' \in {"parse", "me"}, UNCHANGED <<options, tableVars>>
    PROVE  LoadInv'
<1>1. peers' = peers /\ byVip' = byVip /\ options' = options
  BY DEF tableVars
<1>2. Table'
  BY <1>1 DEF LoadInv, Table, VipsOf
<1>3. ~Past /\ ~Past'
  BY DEF Past
<1>4. /\ OptionsOf("me", MeOptions, Past)' /\ OptionsOf("udp", UdpOptions, load \in {"probe", "done"})'
      /\ OptionsOf("probe", ProbeOptions, load = "done")'
  BY <1>1, <1>3 DEF LoadInv, OptionsOf
<1> QED BY <1>1, <1>2, <1>3, <1>4 DEF LoadInv, RaisedForCause

\* A section that is loaded sets its own options.
LEMMA SectionLoaded ==
    ASSUME NEW s, NEW opts, opts \subseteq Options, options' = WithSection(s, opts),
           map' = map
    PROVE  /\ OptionsOf(s, opts, FALSE) => OptionsOf(s, opts, TRUE)'
           /\ \A t, other, loaded :
                other \subseteq Options /\ other \cap opts = {} /\ OptionsOf(t, other, loaded)
                  => OptionsOf(t, other, loaded)'
BY DEF OptionsOf, WithSection

LEMMA MeLoads == ASSUME ParseInv, LoadInv, LoadMe PROVE LoadInv'
<1>1. /\ load = "me" /\ MeOk /\ vip' = Cidrs[map["me"]["vip"][1]]
      /\ options' = WithSection("me", MeOptions) /\ load' = "peers"
      /\ map' = map /\ peers' = peers /\ byVip' = byVip
  BY DEF LoadMe, iniVars, tableVars
<1>2. Table' /\ peers' = <<>>
  BY <1>1 DEF LoadInv, Table, VipsOf
<1>3. ~Past /\ Past'
  BY <1>1 DEF Past
<1>4. MeOk' /\ vip' = Cidrs[map'["me"]["vip"][1]]
  BY <1>1 DEF MeOk, IsCidr
<1>5. Len(peers') <= Len(PeerKeys') /\ \A x \in 1 .. Len(peers') : PeerRead(x)'
  <2>1. keys' = keys
    BY DEF LoadMe, iniVars
  <2>2. PeerKeys' = PeerKeys
    BY <2>1 DEF PeerKeys
  <2>3. Len(PeerKeys) \in Nat
    BY <1>1, AsWritten
  <2> QED BY <1>2, <2>2, <2>3
<1>6. /\ MeOptions \subseteq Options /\ UdpOptions \subseteq Options /\ ProbeOptions \subseteq Options
      /\ UdpOptions \cap MeOptions = {} /\ ProbeOptions \cap MeOptions = {}
  BY DEF Options, MeOptions, UdpOptions, ProbeOptions
<1>7. /\ OptionsOf("me", MeOptions, FALSE) /\ OptionsOf("udp", UdpOptions, FALSE)
      /\ OptionsOf("probe", ProbeOptions, FALSE)
  BY <1>1, <1>3 DEF LoadInv, OptionsOf
<1>8. /\ OptionsOf("me", MeOptions, TRUE)' /\ OptionsOf("udp", UdpOptions, FALSE)'
      /\ OptionsOf("probe", ProbeOptions, FALSE)'
  BY <1>1, <1>6, <1>7, SectionLoaded
<1>9. /\ OptionsOf("me", MeOptions, Past)' /\ OptionsOf("udp", UdpOptions, load \in {"probe", "done"})'
      /\ OptionsOf("probe", ProbeOptions, load = "done")'
  BY <1>1, <1>3, <1>8 DEF OptionsOf
<1> QED BY <1>1, <1>2, <1>3, <1>4, <1>5, <1>9 DEF LoadInv, RaisedForCause

\* One more peer, and the table still finds each by its VIP.
LEMMA TableTakes ==
    ASSUME Table, NEW e \in [vip : Nat, dsts : Seq(STRING)], peers' = Append(peers, e),
           byVip' \in Inserts(byVip, e.vip, Len(peers'))
    PROVE  Table'
<1> DEFINE n == Len(peers)
<1>1. peers \in Seq([vip : Nat, dsts : Seq(STRING)]) /\ n \in Nat
  BY DEF Table
<1>2. /\ peers' \in Seq([vip : Nat, dsts : Seq(STRING)]) /\ Len(peers') = n + 1
      /\ \A x \in 1 .. n : peers'[x] = peers[x]
      /\ peers'[n + 1] = e
  BY <1>1, AppendProperties
<1> HIDE DEF n
<1>3. 1 .. n + 1 = (1 .. n) \cup {n + 1}
  BY <1>1
<1>4. VipsOf(peers)' = VipsOf(peers) \cup {e.vip}
  <2>1. VipsOf(peers)' = {peers'[x].vip : x \in 1 .. n} \cup {peers'[n + 1].vip}
    BY <1>2, <1>3 DEF VipsOf
  <2>2. {peers'[x].vip : x \in 1 .. n} = {peers[x].vip : x \in 1 .. n}
    BY <1>2
  <2> QED BY <1>2, <2>1, <2>2 DEF VipsOf, n
<1>5. \/ byVip' = byVip /\ e.vip \in DOMAIN byVip
      \/ byVip' = [v \in DOMAIN byVip \cup {e.vip} |-> IF v = e.vip THEN n + 1 ELSE byVip[v]]
  BY <1>2 DEF Inserts
<1>6. DOMAIN byVip' = DOMAIN byVip \cup {e.vip}
  BY <1>5
<1>7. ASSUME NEW v \in DOMAIN byVip'
      PROVE  \/ byVip'[v] = n + 1 /\ v = e.vip
             \/ v \in DOMAIN byVip /\ byVip'[v] = byVip[v]
  BY <1>5
<1>8. \A v \in DOMAIN byVip : byVip[v] \in 1 .. n /\ peers[byVip[v]].vip = v
  BY DEF Table, n
<1>9. \A v \in DOMAIN byVip' : byVip'[v] \in 1 .. n + 1 /\ peers'[byVip'[v]].vip = v
  BY <1>1, <1>2, <1>3, <1>7, <1>8
<1> QED BY <1>2, <1>4, <1>6, <1>9 DEF Table
LEMMA PeerLoads == ASSUME ParseInv, LoadInv, LoadPeer PROVE LoadInv'
<1> DEFINE n == Len(peers)
           key == NextKey
           val == map["peers"][key]
           e == [vip |-> Cidrs[key], dsts |-> Items(val)]
<1>1. /\ load = "peers" /\ load' = "peers" /\ Past /\ Past' /\ n < Len(PeerKeys)
      /\ key \in DOMAIN Cidrs /\ HasDsts(Items(val)) /\ peers' = Append(peers, e)
      /\ byVip' \in Inserts(byVip, Cidrs[key], Len(peers'))
      /\ vip' = vip /\ options' = options /\ map' = map /\ keys' = keys
  BY DEF LoadPeer, Past, DstsOk, iniVars
<1>2. /\ Table /\ peers \in Seq([vip : Nat, dsts : Seq(STRING)]) /\ n \in Nat
      /\ MeOk /\ vip = Cidrs[map["me"]["vip"][1]] /\ \A x \in 1 .. n : PeerRead(x)
  BY <1>1 DEF LoadInv, Table
<1>3. n + 1 \in 1 .. Len(PeerKeys) /\ key = PeerKeys[n + 1]
  BY <1>1, <1>2, AsWritten DEF NextKey
<1> HIDE DEF n, key
<1>4. "peers" \in DOMAIN map /\ key \in DOMAIN map["peers"]
  BY <1>1, <1>3, AsWritten
<1>5. val \in Written("peers", key)
  BY <1>1, <1>4, AsWritten
<1>6. val \in Seq(STRING)
  BY <1>1, <1>5, AsWritten
<1> HIDE DEF val
<1>7. e \in [vip : Nat, dsts : Seq(STRING)]
  <2>1. Cidrs[key] \in Nat
    BY <1>1, ConfigAssumption
  <2>2. Items(val) \in Seq(STRING)
    BY <1>6, ItemsOf DEF ItemsRight
  <2> QED BY <2>1, <2>2
<1>8. Table'
  <2>1. e.vip = Cidrs[key]
    OBVIOUS
  <2> HIDE DEF e
  <2> QED BY <1>1, <1>2, <1>7, <2>1, TableTakes
<1>9. MeOk' /\ vip' = Cidrs[map'["me"]["vip"][1]]
  BY <1>1, <1>2 DEF MeOk, IsCidr
<1>10. PeerKeys' = PeerKeys
  BY <1>1 DEF PeerKeys
<1>11. /\ Len(peers') = n + 1 /\ (\A x \in 1 .. n : peers'[x] = peers[x]) /\ peers'[n + 1] = e
  <2> HIDE DEF e
  <2> QED BY <1>1, <1>2, <1>7, AppendProperties DEF n
<1>12. \A x \in 1 .. n + 1 : PeerRead(x)'
  <2> TAKE x \in 1 .. n + 1
  <2>1. CASE x = n + 1
    <3>1. /\ PeerKeys'[x] = key /\ peers'[x] = e /\ map' = map
      BY <1>1, <1>3, <1>10, <1>11, <2>1
    <3>2. e = [vip |-> Cidrs[key], dsts |-> Items(map["peers"][key])] /\ HasDsts(e.dsts)
      BY <1>1 DEF val
    <3> HIDE DEF e
    <3> QED BY <1>1, <3>1, <3>2 DEF PeerRead, HasDsts
  <2>2. CASE x \in 1 .. n
    BY <1>1, <1>2, <1>10, <1>11, <2>2 DEF PeerRead, HasDsts
  <2> QED BY <1>2, <2>1, <2>2
<1>13. Len(peers') <= Len(PeerKeys') /\ \A x \in 1 .. Len(peers') : PeerRead(x)'
  <2>1. n + 1 <= Len(PeerKeys)
    BY <1>3
  <2> QED BY <1>10, <1>11, <1>12, <2>1
<1>14. /\ OptionsOf("me", MeOptions, Past)' /\ OptionsOf("udp", UdpOptions, load \in {"probe", "done"})'
       /\ OptionsOf("probe", ProbeOptions, load = "done")'
  BY <1>1 DEF LoadInv, OptionsOf
<1> QED BY <1>1, <1>8, <1>9, <1>13, <1>14 DEF LoadInv, RaisedForCause

\* A step past [peers]: the table and the VIP stay.
LEMMA RestKeeps ==
    ASSUME ParseInv, LoadInv, Past, load' \in {"rest", "probe", "done"},
           UNCHANGED <<file, iniVars, vip, tableVars>>,
           /\ Len(peers) = Len(PeerKeys) /\ self' \in 1 .. Len(peers) /\ peers[self'].vip = vip,
           /\ OptionsOf("me", MeOptions, Past)'
           /\ OptionsOf("udp", UdpOptions, load \in {"probe", "done"})'
           /\ OptionsOf("probe", ProbeOptions, load = "done")'
    PROVE  LoadInv'
<1>1. /\ vip' = vip /\ peers' = peers /\ byVip' = byVip /\ map' = map /\ keys' = keys
  BY DEF iniVars, tableVars
<1>2. PeerKeys' = PeerKeys /\ Table'
  <2>1. PeerKeys' = PeerKeys
    BY <1>1 DEF PeerKeys
  <2>2. Table
    BY DEF LoadInv
  <2> QED BY <1>1, <2>1, <2>2, TableSame
<1>3. MeOk' /\ vip' = Cidrs[map'["me"]["vip"][1]]
  BY <1>1 DEF LoadInv, MeOk, IsCidr
<1>4. ASSUME NEW x \in 1 .. Len(peers) PROVE PeerRead(x)'
  <2>1. PeerRead(x)
    BY DEF LoadInv
  <2> QED BY <1>1, <1>2, <2>1 DEF PeerRead, HasDsts
<1>5. Len(peers') <= Len(PeerKeys') /\ \A x \in 1 .. Len(peers') : PeerRead(x)'
  BY <1>1, <1>2, <1>4 DEF LoadInv
<1> QED BY <1>1, <1>2, <1>3, <1>5 DEF LoadInv, RaisedForCause

LEMMA SelfFinds == ASSUME ParseInv, LoadInv, FindSelf PROVE LoadInv'
<1>1. /\ load = "peers" /\ load' = "rest" /\ Past /\ Past' /\ Len(peers) = Len(PeerKeys)
      /\ vip \in DOMAIN byVip /\ self' = byVip[vip] /\ options' = options /\ map' = map
      /\ UNCHANGED <<file, iniVars, vip, tableVars>>
  BY DEF FindSelf, Past, iniVars
<1>2. self' \in 1 .. Len(peers) /\ peers[self'].vip = vip
  BY <1>1 DEF LoadInv, Table
<1>3. /\ OptionsOf("me", MeOptions, Past)' /\ OptionsOf("udp", UdpOptions, load \in {"probe", "done"})'
      /\ OptionsOf("probe", ProbeOptions, load = "done")'
  BY <1>1 DEF LoadInv, OptionsOf
<1> QED BY <1>1, <1>2, <1>3, RestKeeps

LEMMA RestLoads == ASSUME ParseInv, LoadInv, LoadUdp \/ LoadProbe PROVE LoadInv'
<1>1. /\ Past /\ Past' /\ load \in {"rest", "probe"} /\ load' \in {"probe", "done"} /\ map' = map
      /\ UNCHANGED <<file, iniVars, vip, tableVars>> /\ self' = self
  BY DEF LoadUdp, LoadProbe, Past, iniVars
<1>2. Len(peers) = Len(PeerKeys) /\ self \in 1 .. Len(peers) /\ peers[self].vip = vip
  BY <1>1 DEF LoadInv
<1>3. /\ MeOptions \subseteq Options /\ UdpOptions \subseteq Options /\ ProbeOptions \subseteq Options
      /\ MeOptions \cap UdpOptions = {} /\ MeOptions \cap ProbeOptions = {}
      /\ UdpOptions \cap ProbeOptions = {} /\ ProbeOptions \cap UdpOptions = {}
  BY DEF Options, MeOptions, UdpOptions, ProbeOptions
<1>4. OptionsOf("me", MeOptions, TRUE) /\ OptionsOf("probe", ProbeOptions, FALSE)
  BY <1>1 DEF LoadInv, OptionsOf
<1>5. CASE LoadUdp
  <2>1. load = "rest" /\ load' = "probe" /\ options' = WithSection("udp", UdpOptions)
    BY <1>5 DEF LoadUdp
  <2>2. OptionsOf("udp", UdpOptions, FALSE)
    BY <2>1 DEF LoadInv, OptionsOf
  <2>3. /\ OptionsOf("me", MeOptions, TRUE)' /\ OptionsOf("udp", UdpOptions, TRUE)'
        /\ OptionsOf("probe", ProbeOptions, FALSE)'
    BY <1>1, <1>3, <1>4, <2>1, <2>2, SectionLoaded
  <2>4. /\ OptionsOf("me", MeOptions, Past)' /\ OptionsOf("udp", UdpOptions, load \in {"probe", "done"})'
        /\ OptionsOf("probe", ProbeOptions, load = "done")'
    BY <1>1, <2>1, <2>3 DEF OptionsOf
  <2> QED BY <1>1, <1>2, <2>4, RestKeeps
<1>6. CASE LoadProbe
  <2>1. load = "probe" /\ load' = "done" /\ options' = WithSection("probe", ProbeOptions)
    BY <1>6 DEF LoadProbe
  <2>2. OptionsOf("udp", UdpOptions, TRUE)
    BY <2>1 DEF LoadInv, OptionsOf
  <2>3. /\ OptionsOf("me", MeOptions, TRUE)' /\ OptionsOf("udp", UdpOptions, TRUE)'
        /\ OptionsOf("probe", ProbeOptions, TRUE)'
    BY <1>1, <1>3, <1>4, <2>1, <2>2, SectionLoaded
  <2>4. /\ OptionsOf("me", MeOptions, Past)' /\ OptionsOf("udp", UdpOptions, load \in {"probe", "done"})'
        /\ OptionsOf("probe", ProbeOptions, load = "done")'
    BY <1>1, <2>1, <2>3 DEF OptionsOf
  <2> QED BY <1>1, <1>2, <2>4, RestKeeps
<1> QED BY <1>5, <1>6

LEMMA LoadInvStep == ParseInv /\ LoadInv /\ [ConfigNext]_configVars => LoadInv'
<1> SUFFICES ASSUME ParseInv, LoadInv, [ConfigNext]_configVars PROVE LoadInv'
  OBVIOUS
<1>1. CASE SkipLine \/ OpenSection \/ SetKey \/ EndOfFile
  BY <1>1, ReadKeeps DEF SkipLine, OpenSection, SetKey, EndOfFile, Reading
<1>2. CASE BadLine
  <2>1. Raise /\ line <= Len(file) /\ Bad(line)
    BY <1>2 DEF BadLine, Reading, Bad
  <2>2. line \in DOMAIN file
    <3>1. line \in Nat \ {0} /\ file \in Seq(Lines) /\ Len(file) \in Nat
      BY FileTypes DEF ParseInv
    <3> QED BY <2>1, <3>1
  <2> QED BY <2>1, <2>2, RaiseKeeps DEF Faulty
<1>3. CASE LoadMe
  BY <1>3, MeLoads
<1>4. CASE LoadMeRaises
  BY <1>4, MeFaulty, RaiseKeeps DEF LoadMeRaises
<1>5. CASE LoadPeer
  BY <1>5, PeerLoads
<1>6. CASE LoadPeerRaises
  BY <1>6, PeerFaulty, RaiseKeeps DEF LoadPeerRaises
<1>7. CASE NoPeersRaises
  <2>1. KeysGiven(Len(file), "peers") = <<>> /\ Raise
    BY <1>7, AsWritten DEF NoPeersRaises
  <2> QED BY <2>1, RaiseKeeps DEF Faulty
<1>8. CASE FindSelf
  BY <1>8, SelfFinds
<1>9. CASE NoSelfRaises
  BY <1>9, SelfFaulty, RaiseKeeps DEF NoSelfRaises
<1>10. CASE LoadUdp \/ LoadProbe
  BY <1>10, RestLoads
<1>11. CASE UNCHANGED configVars
  <2>1. /\ file' = file /\ line' = line /\ section' = section /\ keys' = keys /\ map' = map
        /\ load' = load /\ options' = options /\ vip' = vip /\ peers' = peers /\ byVip' = byVip
        /\ self' = self
    BY <1>11 DEF configVars, iniVars, tableVars
  <2>2. /\ Past' = Past /\ MeOk' = MeOk /\ PeerKeys' = PeerKeys /\ Table' = Table
    BY <2>1 DEF Past, MeOk, IsCidr, PeerKeys, Table, VipsOf
  <2>3. \A x : PeerRead(x)' = PeerRead(x)
    BY <2>1, <2>2 DEF PeerRead, HasDsts
  <2>4. \A s, opts, loaded : OptionsOf(s, opts, loaded)' = OptionsOf(s, opts, loaded)
    BY <2>1 DEF OptionsOf
  <2>5. CASE load # "raised"
    <3>1. load' # "raised"
      BY <2>1, <2>5
    <3>2. RaisedForCause'
      BY <3>1 DEF RaisedForCause
    <3>3. /\ OptionsOf("me", MeOptions, Past)'
          /\ OptionsOf("udp", UdpOptions, load \in {"probe", "done"})'
          /\ OptionsOf("probe", ProbeOptions, load = "done")'
      BY <2>1, <2>2, <2>4, <2>5 DEF LoadInv, OptionsOf
    <3> QED BY <2>1, <2>2, <2>3, <3>2, <3>3 DEF LoadInv
  <2>6. CASE load = "raised"
    <3>1. Faulty
      BY <2>6 DEF LoadInv, RaisedForCause, Faulty
    <3>2. Raise
      BY <2>1, <2>6 DEF Raise, iniVars, tableVars
    <3> QED BY <3>1, <3>2, RaiseKeeps
  <2> QED BY <2>5, <2>6
<1> QED BY <1>1, <1>2, <1>3, <1>4, <1>5, <1>6, <1>7, <1>8, <1>9, <1>10, <1>11 DEF ConfigNext

\* What is read of a file, and what is made of it, at every step.
THEOREM LoadSafe == ConfigSpec => [](ParseInv /\ LoadInv)
  BY ParseInvInit, ParseInvStep, LoadInvInit, LoadInvStep, PTL DEF ConfigSpec

\* A file is refused only for a fault that it has (loadConfig, config.cpp:113-163).
THEOREM RefusedForCause == ConfigSpec => []RaisedForCause
<1>1. ParseInv /\ LoadInv => RaisedForCause
  BY DEF LoadInv
<1> QED BY <1>1, LoadSafe, PTL

LEMMA TableDone == ASSUME ParseInv, LoadInv, load = "done" PROVE TableReady
<1>1. /\ MeOk /\ vip = Cidrs[map["me"]["vip"][1]] /\ Len(peers) = Len(PeerKeys)
      /\ self \in 1 .. Len(peers) /\ peers[self].vip = vip
      /\ \A x \in 1 .. Len(peers) : PeerRead(x)
      /\ peers \in Seq([vip : Nat, dsts : Seq(STRING)])
  BY DEF LoadInv, Past, Table
<1>2. DOMAIN peers = 1 .. Len(peers) /\ DOMAIN PeerKeys = 1 .. Len(peers)
  BY <1>1, AsWritten
<1>3. ASSUME NEW x \in 1 .. Len(peers)
      PROVE  /\ PeerKeys[x] \in DOMAIN Cidrs /\ peers[x].vip = Cidrs[PeerKeys[x]]
             /\ \E val \in Written("peers", PeerKeys[x]) : peers[x].dsts = Items(val)
             /\ Len(peers[x].dsts) > 0
  <2>1. PeerRead(x)
    BY <1>1
  <2>2. "peers" \in DOMAIN map /\ PeerKeys[x] \in DOMAIN map["peers"]
    BY <1>1, AsWritten
  <2>3. map["peers"][PeerKeys[x]] \in Written("peers", PeerKeys[x])
    BY <2>2, AsWritten
  <2>4. peers[x].dsts \in Seq(STRING)
    <3>1. peers[x] \in [vip : Nat, dsts : Seq(STRING)]
      BY <1>1, ElementOfSeq
    <3> QED BY <3>1
  <2>5. Len(peers[x].dsts) > 0
    <3>1. peers[x].dsts # <<>>
      BY <2>1 DEF PeerRead, HasDsts
    <3> QED BY <2>4, <3>1
  <2> QED BY <2>1, <2>3, <2>5 DEF PeerRead
<1>4. vip # 0
  BY <1>1 DEF MeOk
<1>5. ASSUME OneSpelling, NEW x \in 1 .. Len(peers), NEW y \in 1 .. Len(peers),
             peers[x].vip = peers[y].vip
      PROVE  x = y
  BY <1>2, <1>3, <1>5 DEF OneSpelling
<1>6. ASSUME OneSpelling, NEW x \in 1 .. Len(peers) PROVE byVip[peers[x].vip] = x
  <2>1. peers[x].vip \in DOMAIN byVip
    BY DEF LoadInv, Table, VipsOf
  <2>2. byVip[peers[x].vip] \in 1 .. Len(peers) /\ peers[byVip[peers[x].vip]].vip = peers[x].vip
    BY <2>1 DEF LoadInv, Table
  <2> QED BY <1>5, <1>6, <2>2
<1>7. HasSelf(peers, vip) /\ AllHaveDsts(peers)
  BY <1>1, <1>3 DEF HasSelf, AllHaveDsts
<1>8. OneSpelling => SectionOk(peers, vip)
  BY <1>5, <1>7 DEF SectionOk, OneEntry
<1> QED BY <1>1, <1>2, <1>3, <1>4, <1>6, <1>7, <1>8 DEF TableReady

LEMMA OptionsDone == ASSUME ParseInv, LoadInv, load = "done" PROVE OptionsAsWritten
<1>1. /\ OptionsOf("me", MeOptions, TRUE) /\ OptionsOf("udp", UdpOptions, TRUE)
      /\ OptionsOf("probe", ProbeOptions, TRUE)
  BY DEF LoadInv, Past, OptionsOf
<1>2. ASSUME NEW s, NEW opts, OptionsOf(s, opts, TRUE), NEW o \in opts
      PROVE  options[o] \in IF Written(s, o) = {} THEN {Default} ELSE Written(s, o)
  <2>1. CASE s \in DOMAIN map /\ o \in DOMAIN map[s]
    <3>1. options[o] = map[s][o]
      BY <1>2, <2>1 DEF OptionsOf
    <3>2. map[s][o] \in Written(s, o)
      BY <2>1, AsWritten
    <3> QED BY <3>1, <3>2
  <2>2. CASE ~(s \in DOMAIN map /\ o \in DOMAIN map[s])
    <3>1. options[o] = Default
      BY <1>2, <2>2 DEF OptionsOf
    <3>2. Written(s, o) = {}
      BY <2>2, AsWritten
    <3> QED BY <3>1, <3>2
  <2> QED BY <2>1, <2>2
<1>3. ASSUME NEW o \in Options
      PROVE  \/ o \in MeOptions /\ SectionOf(o) = "me"
             \/ o \in UdpOptions /\ SectionOf(o) = "udp"
             \/ o \in ProbeOptions /\ SectionOf(o) = "probe"
  BY DEF Options, MeOptions, UdpOptions, ProbeOptions, SectionOf
<1>4. ASSUME NEW o \in Options
      PROVE  options[o] \in IF Written(SectionOf(o), o) = {} THEN {Default}
                            ELSE Written(SectionOf(o), o)
  BY <1>1, <1>2, <1>3
<1> QED BY <1>4 DEF OptionsAsWritten

\* A file that is accepted gives the table of peers and the options that it says:
\* our own entry is there, a peer for each key of [peers], and each option the one
\* given in its section or the default (config.cpp:58-163, peer.cpp:92-126).
THEOREM AcceptedAsItSays == ConfigSpec => []AcceptedAsWritten
<1>1. ParseInv /\ LoadInv => AcceptedAsWritten
  BY TableDone, OptionsDone DEF AcceptedAsWritten
<1> QED BY <1>1, LoadSafe, PTL

-----------------------------------------------------------------------------
(* What the file says as a whole.                                          *)

\* A file whose [peers] has no key has no entry there.
LEMMA NoKeysNoEntries ==
    ASSUME file \in Files, KeysGiven(Len(file), "peers") = <<>>
    PROVE  Entries(Len(file), "peers") = {}
<1> DEFINE S == Entries(Len(file), "peers")
           first == FirstLines(Len(file), "peers")
<1>1. Len(file) \in Nat
  BY FileTypes
<1>2. S \subseteq 1 .. Len(file) /\ first \subseteq S
  BY DEF Entries, FirstLines
<1>3. first = {}
  <2>1. IsFiniteSet(first) /\ Cardinality(first) \in Nat
    <3>1. IsFiniteSet(1 .. Len(file)) /\ first \subseteq 1 .. Len(file)
      BY <1>1, <1>2, FS_Interval
    <3> QED BY <3>1, FS_Subset, FS_CardinalityType
  <2>2. Cardinality(first) = 0
    BY <2>1 DEF KeysGiven
  <2> QED BY <2>1, <2>2, FS_EmptySet
<1>4. ASSUME NEW x \in S PROVE FALSE
  <2>1. PICK y \in S : \A z \in S : y <= z
    BY <1>1, <1>2, LeastOne
  <2>2. Entries(y - 1, "peers") = {}
    BY <1>1, <1>2, <2>1 DEF Entries
  <2>3. y \in first
    BY <2>1, <2>2 DEF FirstLines
  <2> QED BY <1>3, <2>3
<1> QED BY <1>4

\* A configuration that a faulty file says is not ok.
LEMMA FaultsAreSaid ==
    ASSUME file \in Files, NEW c \in Configs, Says(c), Faulty
    PROVE  ~ConfigOk(c)
<1> DEFINE entries == Entries(Len(file), "peers")
<1>1. SUFFICES ASSUME ConfigOk(c) PROVE FALSE
  OBVIOUS
<1>2. c.me /\ c.vip # 0 /\ c.vip \in DOMAIN c.peers /\ \A v \in DOMAIN c.peers : c.peers[v] > 0
  BY <1>1 DEF ConfigOk, PeersOk
<1>3. /\ \A x \in DOMAIN file : ~Bad(x)
      /\ Written("me", "vip") = {} => c.vip = 0
      /\ \A val \in Written("me", "vip") : IsCidr(val) /\ Cidrs[val[1]] = c.vip
      /\ \A x \in entries : file[x].key \in DOMAIN Cidrs /\ ~BadDsts(file[x].val)
      /\ DOMAIN c.peers = {Cidrs[file[x].key] : x \in entries}
      /\ \A x \in entries : c.peers[Cidrs[file[x].key]] = Len(Items(file[x].val))
  BY <1>2 DEF Says
<1> HIDE DEF entries
<1>4. \A val \in Written("me", "vip") : ~BadVip(val)
  BY <1>2, <1>3 DEF BadVip
<1>5. entries # {}
  BY <1>2, <1>3
<1>6. KeysGiven(Len(file), "peers") # <<>>
  BY <1>5, NoKeysNoEntries DEF entries
<1>7. ASSUME NEW x \in entries PROVE ~BadPeer(file[x].key)
  <2>1. \A y \in entries : file[y].val \in Seq(STRING)
    <3>1. \A y \in entries : y \in 1 .. Len(file) /\ file[y].is = "entry"
      BY DEF entries, Entries
    <3> QED BY <3>1, FileTypes
  <2>2. ASSUME NEW val \in Written("peers", file[x].key)
        PROVE  ~BadDsts(val) /\ ~ \A m \in DOMAIN val : val[m] = Empty
    <3>1. PICK y \in entries : val = file[y].val
      BY DEF Written, Given, entries
    <3>2. val \in Seq(STRING) /\ ~BadDsts(val) /\ Len(Items(val)) > 0
      BY <1>2, <1>3, <2>1, <3>1
    <3>3. ItemsRight(val, Len(val), Items(val)) /\ DOMAIN val = 1 .. Len(val)
      BY <3>2, ItemsOf
    <3>4. 1 \in DOMAIN Items(val)
      BY <3>2, <3>3 DEF ItemsRight
    <3> QED BY <3>2, <3>3, <3>4 DEF ItemsRight
  <2> QED BY <1>3, <2>2 DEF BadPeer
<1>8. ASSUME NEW val \in Written("me", "vip")
      PROVE  \E x \in entries : Cidrs[file[x].key] = Cidrs[val[1]]
  BY <1>2, <1>3
<1>9. Written("me", "vip") # {}
  BY <1>2, <1>3
<1> QED BY <1>3, <1>4, <1>6, <1>7, <1>8, <1>9 DEF Faulty, entries

\* The table and the options are those of every configuration that the file says.
LEMMA DoneIsSaid ==
    ASSUME ParseInv, LoadInv, load = "done", NEW c \in Configs, Says(c)
    PROVE  /\ ConfigOk(c) /\ Loaded = c
           /\ c.peers[c.vip] = Len(peers[self].dsts)
           /\ options["user"] # Default => c.user # NoUser
<1> DEFINE entries == Entries(Len(file), "peers")
<1>1. /\ MeOk /\ vip = Cidrs[map["me"]["vip"][1]] /\ Len(peers) = Len(PeerKeys)
      /\ self \in 1 .. Len(peers) /\ peers[self].vip = vip
      /\ \A x \in 1 .. Len(peers) : PeerRead(x)
      /\ peers \in Seq([vip : Nat, dsts : Seq(STRING)])
      /\ DOMAIN byVip = VipsOf(peers)
      /\ \A v \in DOMAIN byVip : byVip[v] \in 1 .. Len(peers) /\ peers[byVip[v]].vip = v
  BY DEF LoadInv, Past, Table
<1>2. c.me
  <2>1. /\ file \in Files /\ DOMAIN map = Opened(line - 1) /\ line = Len(file) + 1
    BY DEF ParseInv
  <2>2. Len(file) \in Nat /\ DOMAIN file = 1 .. Len(file)
    BY <2>1, FileTypes
  <2>3. "me" \in Opened(Len(file)) /\ "me" # Empty
    BY <1>1, <2>1, <2>2 DEF MeOk, Empty
  <2>4. \E x \in DOMAIN file : file[x].is = "section" /\ file[x].name = "me"
    BY <2>2, <2>3 DEF Opened
  <2> QED BY <2>4 DEF Says
<1>3. /\ \A val \in Written("me", "vip") : Cidrs[val[1]] = c.vip
      /\ Written("me", "user") = IF c.user = NoUser THEN {} ELSE {<<c.user>>}
      /\ DOMAIN c.peers = {Cidrs[file[x].key] : x \in entries}
      /\ \A x \in entries : c.peers[Cidrs[file[x].key]] = Len(Items(file[x].val))
  BY <1>2 DEF Says
<1> HIDE DEF entries
<1>4. c.vip = vip /\ vip # 0
  BY <1>1, <1>3, AsWritten DEF MeOk
<1>5. ASSUME NEW x \in 1 .. Len(peers)
      PROVE  /\ peers[x].vip \in DOMAIN c.peers /\ c.peers[peers[x].vip] = Len(peers[x].dsts)
             /\ Len(peers[x].dsts) > 0
  <2>1. PeerRead(x)
    BY <1>1
  <2>2. map["peers"][PeerKeys[x]] \in Written("peers", PeerKeys[x])
    BY <1>1, AsWritten
  <2>3. PICK y \in entries : file[y].key = PeerKeys[x] /\ file[y].val = map["peers"][PeerKeys[x]]
    BY <2>2 DEF Written, Given, entries
  <2>4. peers[x].dsts \in Seq(STRING)
    <3>1. peers[x] \in [vip : Nat, dsts : Seq(STRING)]
      BY <1>1, ElementOfSeq
    <3> QED BY <3>1
  <2>5. Len(peers[x].dsts) > 0
    <3>1. peers[x].dsts # <<>>
      BY <2>1 DEF PeerRead, HasDsts
    <3> QED BY <2>4, <3>1
  <2> QED BY <1>3, <2>1, <2>3, <2>5 DEF PeerRead
<1>6. DOMAIN c.peers = DOMAIN byVip
  <2>1. ASSUME NEW v \in DOMAIN c.peers PROVE v \in VipsOf(peers)
    <3>1. PICK y \in entries : v = Cidrs[file[y].key]
      BY <1>3
    <3>2. file[y].key \in RangeOf(PeerKeys)
      BY <3>1, AsWritten DEF KeysOf, entries
    <3>3. PICK p \in 1 .. Len(PeerKeys) : PeerKeys[p] = file[y].key
      BY <3>2, AsWritten DEF RangeOf
    <3>4. p \in 1 .. Len(peers) /\ PeerRead(p)
      BY <1>1, <3>3
    <3> QED BY <3>1, <3>3, <3>4 DEF PeerRead, VipsOf
  <2>2. VipsOf(peers) \subseteq DOMAIN c.peers
    BY <1>5 DEF VipsOf
  <2> QED BY <1>1, <2>1, <2>2
<1>7. c.peers = [v \in DOMAIN byVip |-> Len(peers[byVip[v]].dsts)]
  <2>1. c.peers \in [DOMAIN c.peers -> Nat]
    BY ConfigsAssumption
  <2>2. \A v \in DOMAIN byVip : c.peers[v] = Len(peers[byVip[v]].dsts)
    BY <1>1, <1>5
  <2> QED BY <1>6, <2>1, <2>2
<1>8. ConfigOk(c)
  <2>1. ASSUME NEW v \in DOMAIN c.peers PROVE c.peers[v] > 0
    <3>1. v \in DOMAIN byVip
      BY <1>6
    <3>2. byVip[v] \in 1 .. Len(peers) /\ peers[byVip[v]].vip = v
      BY <1>1, <3>1
    <3>3. c.peers[v] = Len(peers[byVip[v]].dsts) /\ Len(peers[byVip[v]].dsts) > 0
      BY <1>5, <3>2
    <3> QED BY <3>3
  <2>2. c.vip \in DOMAIN c.peers
    BY <1>1, <1>4, <1>5
  <2> QED BY <1>2, <1>4, <2>1, <2>2 DEF ConfigOk, PeersOk
<1>9. /\ c.user = IF options["user"] = Default THEN NoUser ELSE options["user"][1]
      /\ options["user"] # Default => c.user # NoUser
  <2>1. "user" \in Options /\ SectionOf("user") = "me"
    BY DEF Options, MeOptions, UdpOptions, ProbeOptions, SectionOf
  <2>2. options["user"] \in IF Written("me", "user") = {} THEN {Default} ELSE Written("me", "user")
    BY <2>1, OptionsDone DEF OptionsAsWritten
  <2>3. CASE c.user = NoUser
    BY <1>3, <2>2, <2>3
  <2>4. CASE c.user # NoUser
    <3>1. options["user"] = <<c.user>>
      BY <1>3, <2>2, <2>4
    <3>2. c.user \in {"known", "unknown"}
      BY <2>4, ConfigsAssumption
    <3>3. <<c.user>>[1] = c.user /\ <<c.user>> # Default
      BY <3>2 DEF Default
    <3> QED BY <2>4, <3>1, <3>3
  <2> QED BY <2>3, <2>4
<1>10. c = [me |-> c.me, vip |-> c.vip, peers |-> c.peers, user |-> c.user] /\ c.me = TRUE
  BY <1>2, ConfigsAssumption
<1>11. c.peers[c.vip] = Len(peers[self].dsts)
  BY <1>1, <1>4, <1>5
<1> QED BY <1>4, <1>7, <1>8, <1>9, <1>10, <1>11 DEF Loaded

\* loadConfig takes a file exactly when it says a configuration that is ok, and then
\* makes of it what it says (config.cpp:113-163).
THEOREM TakesWhatIsOk == ConfigSpec => []LoadAgrees
<1>1. ASSUME ParseInv, LoadInv PROVE LoadAgrees
  <2>1. AcceptedAsWritten
    BY <1>1, TableDone, OptionsDone DEF AcceptedAsWritten
  <2>2. ASSUME NEW c \in Configs, Says(c), load = "done" PROVE ConfigOk(c) /\ Loaded = c
    BY <1>1, <2>2, DoneIsSaid
  <2>3. ASSUME NEW c \in Configs, Says(c), load = "raised" PROVE ~ConfigOk(c)
    <3>1. file \in Files /\ Faulty
      BY <1>1, <2>3 DEF ParseInv, LoadInv, RaisedForCause, Faulty
    <3> QED BY <2>3, <3>1, FaultsAreSaid
  <2> QED BY <2>1, <2>2, <2>3 DEF LoadAgrees
<1> QED BY <1>1, LoadSafe, PTL

-----------------------------------------------------------------------------
(* run as a whole.                                                         *)

\* Each step of run is one of loadConfig or one of what comes after it.
LEMMA BootIsBoth == BootSpec => ConfigSpec /\ Spec
<1>1. BootInit => ConfigInit /\ Init
  BY DEF BootInit
<1>2. [BootNext]_<<vars, configVars>> => [ConfigNext]_configVars /\ [Next]_vars
  BY DEF BootNext
<1> QED BY <1>1, <1>2, PTL DEF BootSpec, ConfigSpec, Spec

\* Instances come up only once loadConfig is through with a file that says their
\* configuration.
Started ==
    /\ cfg \in Configs
    /\ \A p \in Procs : pc[p] # "off" => load \in {"done", "raised"} /\ Says(cfg)

LEMMA SaysSame == ASSUME file' = file, cfg' = cfg PROVE Says(cfg)' = Says(cfg)
<1>1. \A n, s : Entries(n, s)' = Entries(n, s)
  BY SameFile
<1>2. \A s, key : Written(s, key)' = Written(s, key)
  BY <1>1 DEF Written, Given
<1> QED BY <1>1, <1>2 DEF Says, Bad

\* An instance that serves has what the file gives it, and no more rights than the
\* file lets it have (main.cpp:72-147).
THEOREM ServesWhatIsWritten == BootSpec => []ServesAsWritten
<1>1. BootInit => Started
  BY DEF BootInit, Init, Started
<1>2. StartInv /\ Started /\ [BootNext]_<<vars, configVars>> => Started'
  <2> SUFFICES ASSUME StartInv, Started, [BootNext]_<<vars, configVars>> PROVE Started'
    OBVIOUS
  <2>1. CASE UNCHANGED <<vars, configVars>>
    BY <2>1, SaysSame DEF Started, vars, configVars
  <2>2. CASE ConfigNext /\ UNCHANGED vars
    <3>1. load \notin {"done", "raised"}
      BY <2>2 DEF ConfigNext, SkipLine, OpenSection, SetKey, BadLine, EndOfFile, Reading, LoadMe,
        LoadMeRaises, LoadPeer, LoadPeerRaises, NoPeersRaises, FindSelf, NoSelfRaises, LoadUdp,
        LoadProbe
    <3> QED BY <2>2, <3>1 DEF Started, vars
  <2>3. CASE load \in {"done", "raised"} /\ Says(cfg) /\ Next /\ UNCHANGED configVars
    <3>1. cfg' = cfg /\ file' = file /\ load' = load
      BY <2>3 DEF Next, Step, Start, LoadConfig, OpenUdpSocket, OpenTun, SetMtu, AddAddr, LinkUp,
        SetGroups, SetGid, SetUid, Spawn, Die, Gone, configVars
    <3> QED BY <2>3, <3>1, SaysSame DEF Started
  <2> QED BY <2>1, <2>2, <2>3 DEF BootNext
<1>3. ASSUME StartInv, Serving, ParseInv, LoadInv, Started, ServesConfigured
      PROVE  ServesAsWritten
  <2> SUFFICES ASSUME NEW p \in Procs, threads[p] > 0
               PROVE  /\ load = "done"
                      /\ socks[p] = Len(peers[self].dsts) /\ queues[p] = Len(peers[self].dsts)
                      /\ options["user"] # Default => cred[p] = User
    BY <1>3 DEF ServesAsWritten
  <2>1. pc[p] \in {"spawn", "join"}
    BY <1>3 DEF StartInv, Exclusive
  <2>2. ConfigOk(cfg) /\ queues[p] = SrcCount /\ socks[p] = SrcCount
    BY <1>3, <2>1 DEF Serving, PastSockets, PastQueues, PastAddr
  <2>3. cfg.user = NoUser \/ cred[p] = User
    BY <1>3, <2>1 DEF StartInv, Dropping
  <2>4. cfg \in Configs /\ load \in {"done", "raised"} /\ Says(cfg)
    BY <1>3, <2>1 DEF Started
  <2>5. load = "done"
    <3>1. CASE load = "raised"
      <4>1. file \in Files /\ Faulty
        BY <1>3, <3>1 DEF ParseInv, LoadInv, RaisedForCause, Faulty
      <4> QED BY <2>2, <2>4, <4>1, FaultsAreSaid
    <3> QED BY <2>4, <3>1
  <2>6. cfg.peers[cfg.vip] = Len(peers[self].dsts) /\ (options["user"] # Default => cfg.user # NoUser)
    BY <1>3, <2>4, <2>5, DoneIsSaid
  <2> QED BY <2>2, <2>3, <2>5, <2>6 DEF SrcCount
<1>4. BootSpec => [](StartInv /\ Serving /\ ParseInv /\ LoadInv)
  BY BootIsBoth, StartSafe, ServingSafe, LoadSafe, PTL
<1>5. BootSpec => []ServesConfigured
  BY BootIsBoth, ServesOnlyConfigured, PTL
<1> QED BY <1>1, <1>2, <1>3, <1>4, <1>5, PTL DEF BootSpec

=============================================================================
