--------------------------- MODULE DistHost_proofs ---------------------------
(***************************************************************************)
(* For any jobs, any blobs and any number of connections that break: no    *)
(* worker of a host waits for a reply that nobody will give it, the ledger *)
(* of sent blobs is honest, outputs arrive before their results, and the   *)
(* first connection carries each blob once and ahead of the jobs.          *)
(***************************************************************************)
EXTENDS DistHost, FiniteSetTheorems, TLAPS

\* While the reconnect thread is at work there is no current connection, so
\* nobody can be registered with one when the next is published.
Handover ==
    /\ conns \in Nat /\ connPc \in {"start", "have", "idle"}
    /\ connPc # "idle" => process = 0
    /\ connPc = "have" => conns # 0

WaitTypes ==
    /\ pending \subseteq Jobs
    /\ DOMAIN wPc = Jobs /\ DOMAIN wProc = Jobs
    /\ DOMAIN wReply = Jobs

\* A worker in execute has its reply or is registered with the current connection.
Registered ==
    \A j \in Jobs :
        /\ wPc[j] \in Engaged => j \in pending \/ wReply[j] # NoReply
        /\ j \in pending => process # 0 /\ wProc[j] = process /\ wReply[j] = NoReply

WaitInv == Handover /\ WaitTypes /\ Registered

waitVars == <<process, pending, wPc, wProc, wReply, conns, connPc>>

\* Nothing is left behind at the start.
LEMMA WaitInit == Init => WaitInv
  BY ConnsAssumption DEF Init, WaitInv, Handover, WaitTypes, Registered, Engaged

\* A step that leaves the state of the waiting alone keeps the invariant.
LEMMA WaitStutter == ASSUME WaitInv, UNCHANGED waitVars PROVE WaitInv'
  BY DEF WaitInv, Handover, WaitTypes, Registered, waitVars

\* _lost tells every worker that is registered, and registers nobody.
LEMMA WaitLost ==
  ASSUME WaitInv, NEW c, LostConn(c), UNCHANGED <<wPc, wProc, conns>>
  PROVE  WaitInv'
<1>1. CASE process = c
  BY <1>1 DEF LostConn, WaitInv, Handover, WaitTypes, Registered, Told, Lost, NoReply
<1>2. CASE process # c
  BY <1>2 DEF LostConn, WaitInv, Handover, WaitTypes, Registered
<1> QED BY <1>1, <1>2

\* Every step of a worker keeps the invariant.
LEMMA WaitWorker == ASSUME WaitInv, NEW j \in Jobs, Worker(j) PROVE WaitInv'
<1> USE DEF WaitInv, Handover, WaitTypes, Registered, Engaged, workerVars, hostVars
<1>1. CASE Dispatch(j)
  BY <1>1 DEF Dispatch
<1>2. CASE Begin(j)
  <2>1. CASE Connected
    BY <1>2, <2>1 DEF Begin, Connected
  <2>2. CASE ~Connected
    BY <1>2, <2>2 DEF Begin
  <2> QED BY <2>1, <2>2
<1>3. CASE Claim(j)
  BY <1>3 DEF Claim
<1>4. CASE WriteFail(j)
  BY <1>4 DEF WriteFail
<1>5. CASE WriteBlob(j)
  BY <1>5, WaitStutter DEF WriteBlob, waitVars
<1>6. CASE WriteJob(j)
  BY <1>6 DEF WriteJob
<1>7. CASE Rollback(j)
  BY <1>7 DEF Rollback
<1>8. CASE GiveUp(j)
  <2>1. LostConn(wProc[j])
    BY <1>8 DEF GiveUp
  <2>2. CASE process = wProc[j]
    BY <1>8, <2>1, <2>2 DEF GiveUp, LostConn, Told, Lost, NoReply
  <2>3. CASE process # wProc[j]
    BY <1>8, <2>1, <2>3 DEF GiveUp, LostConn
  <2> QED BY <2>2, <2>3
<1>9. CASE Replied(j)
  BY <1>9 DEF Replied
<1> QED BY <1>1, <1>2, <1>3, <1>4, <1>5, <1>6, <1>7, <1>8, <1>9 DEF Worker

\* So does every step of the reconnect thread.
LEMMA WaitConnecting == ASSUME WaitInv, Connecting PROVE WaitInv'
<1> USE DEF WaitInv, Handover, WaitTypes, Registered, workerVars, hostVars
<1>1. CASE ConnStart
  BY <1>1 DEF ConnStart
<1>2. CASE ConnUp
  BY <1>2 DEF ConnUp
<1>3. CASE ConnFail
  BY <1>3 DEF ConnFail, Retry
<1> QED BY <1>1, <1>2, <1>3 DEF Connecting

\* A frame of any connection, current or not, that finds an entry hands the
\* worker a reply.
LEMMA WaitReader == ASSUME WaitInv, NEW c \in Conns, Reader(c) PROVE WaitInv'
<1>1. CASE ReadFrame(c)
  <2> DEFINE f == Head(down[c])
  <2> HIDE DEF f
  <2>1. \/ UNCHANGED <<pending, wReply>>
        \/ /\ f.t \in {"result", "missing"} /\ f.j \in pending
           /\ pending' = pending \ {f.j}
           /\ wReply' = [wReply EXCEPT ![f.j] = f]
    BY <1>1 DEF ReadFrame, f
  <2>2. UNCHANGED <<process, wPc, wProc, conns, connPc>>
    BY <1>1 DEF ReadFrame
  <2>3. CASE UNCHANGED <<pending, wReply>>
    BY <2>2, <2>3, WaitStutter DEF waitVars
  <2>4. CASE /\ f.t \in {"result", "missing"} /\ f.j \in pending
             /\ pending' = pending \ {f.j}
             /\ wReply' = [wReply EXCEPT ![f.j] = f]
    <3>1. f # NoReply
      BY <2>4 DEF NoReply
    <3> QED BY <2>2, <2>4, <3>1 DEF WaitInv, Handover, WaitTypes, Registered
  <2> QED BY <2>1, <2>3, <2>4
<1>2. CASE ReadEnd(c)
  BY <1>2, WaitLost DEF ReadEnd
<1> QED BY <1>1, <1>2 DEF Reader

\* The host and the network do not touch the state of the waiting.
LEMMA WaitOther ==
  ASSUME WaitInv, \/ \E c \in Conns : Service(c) \/ Break(c)
                  \/ \E i \in insts : Running(i)
  PROVE  WaitInv'
<1>1. ASSUME NEW c \in Conns, Service(c) \/ Break(c) PROVE UNCHANGED waitVars
  BY <1>1 DEF Service, SvcRead, SvcEof, SvcGone, Break, waitVars, workerVars
<1>2. ASSUME NEW i \in insts, Running(i) PROVE UNCHANGED waitVars
  BY <1>2 DEF Running, JobStart, JobOk, JobFail, JobLeave, waitVars, workerVars
<1> QED BY <1>1, <1>2, WaitStutter

\* The invariant of the waiting holds in every state.
LEMMA WaitHolds == Spec => []WaitInv
<1>1. Init => WaitInv
  BY WaitInit
<1>2. WaitInv /\ [Next]_vars => WaitInv'
  <2> SUFFICES ASSUME WaitInv, [Next]_vars PROVE WaitInv'
    OBVIOUS
  <2>1. CASE UNCHANGED vars
    BY <2>1, WaitStutter DEF vars, workerVars, waitVars
  <2>2. CASE Next
    BY <2>2, WaitWorker, WaitConnecting, WaitReader, WaitOther DEF Next
  <2> QED BY <2>1, <2>2
<1> QED BY <1>1, <1>2, PTL DEF Spec

-----------------------------------------------------------------------------
(* The inductive invariant.                                                *)

\* Connections are made one after the other: one that is up is the last one
\* made, and so is the current one.  While the last one has not said hello to
\* anybody, only the ledger and its answer are on it.
Links ==
    /\ \A c \in Conns : alive[c] => c = conns /\ connPc # "start"
    /\ process # 0 => process = conns /\ connPc = "idle"
    /\ connPc = "have" => conns # 0
    /\ \A c \in Conns : c > conns => Len(up[c]) = 0 /\ Len(down[c]) = 0

Greeting ==
    /\ \A j \in Jobs : wProc[j] <= conns /\ (connPc = "have" => wProc[j] # conns)
    /\ \A i \in insts : i.c <= conns /\ (connPc = "have" => i.c # conns)
    /\ connPc = "have" =>
        /\ Len(up[conns]) + Len(down[conns]) <= 1
        /\ \A n \in 1 .. Len(up[conns]) : up[conns][n].t = "have"
        /\ \A n \in 1 .. Len(down[conns]) : down[conns][n].t = "have"

\* What the host has said is true.
TrueFrame(f) ==
    /\ f.t = "have" => f.ds \subseteq hostCas
    /\ f.t = "result" /\ f.rc = 0 => Output[f.j] \in hostCas

HostTruthful ==
    /\ \A c \in Conns : \A n \in 1 .. Len(down[c]) : TrueFrame(down[c][n])
    /\ \A j \in Jobs : /\ wReply[j].t = "result" => wReply[j].j = j
                       /\ TrueFrame(wReply[j])

\* The digests worker j has claimed and the current connection has not taken.
Owed(j) ==
    IF wPc[j] = "rollback" THEN wNeeded[j]
    ELSE IF wPc[j] # "write" THEN {}
    ELSE IF wProc[j] = process THEN wTodo[j] ELSE wNeeded[j]

Owes(d) == \E j \in Jobs : d \in Owed(j)

Covered ==
    process # 0 /\ alive[process] =>
        \A d \in sent : d \in hostCas \/ d \in BlobsOf(up[process]) \/ Owes(d)

\* An output comes before its result.
OutputComes(c, n) ==
    down[c][n].t = "result" /\ down[c][n].rc = 0 =>
        \/ Output[down[c][n].j] \in localCas
        \/ \E m \in 1 .. n - 1 : down[c][m] = Blob(Output[down[c][n].j])

OutputsFirst ==
    /\ \A c \in Conns : \A n \in 1 .. Len(down[c]) : OutputComes(c, n)
    /\ \A j \in Jobs : wReply[j].t = "result" /\ wReply[j].rc = 0 => Output[j] \in localCas

-----------------------------------------------------------------------------
(* Types.                                                                  *)

\* What a frame carries, by its kind.
LEMMA FrameFields ==
    ASSUME NEW f \in Frames
    PROVE  /\ f.t = "blob" => f.d \in Digests
           /\ f.t = "have" => f.ds \in SUBSET Digests
           /\ f.t = "job" => f.j \in Jobs
           /\ f.t \in {"result", "missing"} => f \in Replies /\ f.j \in Jobs
           /\ f.t = "missing" => f.ds \in SUBSET Digests
           /\ f.t = "result" => f.rc \in {0, 1} /\ f = Result(f.j, f.rc)
           /\ f.t = "blob" => f = Blob(f.d)
BY SMT DEF Frames, Replies, Blob, Job, Have, Missing, Result, Cut

LEMMA FrameMade ==
    /\ \A d \in Digests : Blob(d) \in Frames
    /\ \A j \in Jobs : Job(j) \in Frames
    /\ \A ds \in SUBSET Digests : Have(ds) \in Frames
    /\ \A j \in Jobs : \A ds \in SUBSET Digests : Missing(j, ds) \in Frames
    /\ \A j \in Jobs : \A rc \in {0, 1} : Result(j, rc) \in Frames
    /\ Cut \in Frames
BY DEF Frames

LEMMA ReplyFields ==
    ASSUME NEW r \in Replies
    PROVE  /\ r.t = "missing" => r.ds \in SUBSET Digests
           /\ r.t = "result" => r.rc \in {0, 1} /\ r.j \in Jobs /\ r = Result(r.j, r.rc)
           /\ r.t \in {"none", "lost", "missing", "result"}
           /\ NoReply \in Replies /\ Lost \in Replies
BY SMT DEF Replies, Missing, Result, NoReply, Lost

\* What an end still reads of a pipe is a part of what was there, or a cut blob.
LEMMA PrefixIsPart ==
    ASSUME NEW S, NEW s \in Seq(S), NEW p \in Prefixes(s)
    PROVE  /\ p \in Seq(S) /\ Len(p) <= Len(s)
           /\ \A n \in 1 .. Len(p) : p[n] = s[n]
<1>1. PICK m \in 0 .. Len(s) : p = SubSeq(s, 1, m)
  BY DEF Prefixes
<1> QED BY <1>1

LEMMA RemainsIsPart ==
    ASSUME NEW s \in Seq(Frames), NEW r \in Remains(s)
    PROVE  /\ r \in Seq(Frames) /\ Len(r) <= Len(s)
           /\ \A n \in 1 .. Len(r) : r[n] = s[n] \/ (r[n] = Cut /\ s[n].t = "blob")
<1>1. CASE r \in Prefixes(s)
  BY <1>1, PrefixIsPart
<1>2. CASE \E m \in 1 .. Len(s) : s[m].t = "blob" /\ r = Append(SubSeq(s, 1, m - 1), Cut)
  <2>1. PICK m \in 1 .. Len(s) : s[m].t = "blob" /\ r = Append(SubSeq(s, 1, m - 1), Cut)
    BY <1>2
  <2> DEFINE p == SubSeq(s, 1, m - 1)
  <2>2. p \in Seq(Frames) /\ Len(p) = m - 1 /\ \A n \in 1 .. m - 1 : p[n] = s[n]
    OBVIOUS
  <2> HIDE DEF p
  <2>3. r \in Seq(Frames) /\ Len(r) = m /\ r[m] = Cut /\ \A n \in 1 .. m - 1 : r[n] = p[n]
    BY <2>1, <2>2, FrameMade DEF p
  <2> QED BY <2>1, <2>2, <2>3
<1> QED BY <1>1, <1>2 DEF Remains

LEMMA TailIsRest ==
    ASSUME NEW S, NEW s \in Seq(S), s # <<>>
    PROVE  /\ Tail(s) \in Seq(S) /\ Len(Tail(s)) = Len(s) - 1 /\ Head(s) \in S
           /\ Head(s) = s[1] /\ Len(s) \in Nat \ {0}
           /\ \A n \in 1 .. Len(s) - 1 : Tail(s)[n] = s[n + 1]
OBVIOUS

\* The pool has a number for every job it takes.
LEMMA InstTyped ==
    ASSUME IsFiniteSet(insts), NEW c \in Conns, NEW j \in Jobs
    PROVE  /\ NewInst(c, j) \in Insts
           /\ NewInst(c, j).c = c /\ NewInst(c, j).j = j /\ NewInst(c, j).st = "queued"
<1> DEFINE used == {i.k : i \in {x \in insts : x.c = c /\ x.j = j}}
           n == Cardinality(used) + 1
<1>1. IsFiniteSet({x \in insts : x.c = c /\ x.j = j})
  BY FS_Subset
<1>2. IsFiniteSet(used)
  <2> DEFINE S == {x \in insts : x.c = c /\ x.j = j}
             f == [i \in S |-> i.k]
  <2>1. f \in Surjection(S, used)
    BY DEF Surjection
  <2> HIDE DEF S, f, used
  <2> QED BY <1>1, <2>1, FS_Surjection DEF S
<1>3. Cardinality(used) \in Nat
  BY <1>2, FS_CardinalityType
<1>4. IsFiniteSet(1 .. n) /\ Cardinality(1 .. n) = n
  <2>1. n \in Int /\ 1 <= n
    BY <1>3
  <2> HIDE DEF n
  <2> QED BY <2>1, FS_Interval
<1>5. ~(1 .. n \subseteq used)
  <2>1. 1 .. n \subseteq used => Cardinality(1 .. n) <= Cardinality(used)
    BY <1>2, FS_Subset
  <2> QED BY <2>1, <1>3, <1>4
<1>6. (CHOOSE k \in 1 .. n : k \notin used) \in Nat
  <2>1. \E k \in 1 .. n : k \notin used
    BY <1>5
  <2> HIDE DEF used, n
  <2> QED BY <2>1
<1> QED BY <1>6 DEF NewInst, Insts

\* What the end of connection c leaves on the pipes.
LEMMA EndedEffect ==
    ASSUME TypeOK, NEW c \in Conns, Ended(c)
    PROVE  /\ alive' \in [Conns -> BOOLEAN] /\ ~alive'[c]
           /\ up' \in [Conns -> Seq(Frames)] /\ down' \in [Conns -> Seq(Frames)]
           /\ \A x \in Conns : x # c => /\ alive'[x] = alive[x] /\ up'[x] = up[x]
                                        /\ down'[x] = down[x]
           /\ \A x \in Conns :
                /\ Len(up'[x]) <= Len(up[x])
                /\ \A n \in 1 .. Len(up'[x]) :
                    up'[x][n] = up[x][n] \/ (up'[x][n] = Cut /\ up[x][n].t = "blob")
                /\ Len(down'[x]) <= Len(down[x])
                /\ \A n \in 1 .. Len(down'[x]) : down'[x][n] = down[x][n]
<1>a. /\ alive \in [Conns -> BOOLEAN] /\ up \in [Conns -> Seq(Frames)]
      /\ down \in [Conns -> Seq(Frames)]
  BY DEF TypeOK
<1>b. \A x \in Conns : Len(up[x]) \in Nat /\ Len(down[x]) \in Nat
  BY <1>a
<1>1. CASE ~alive[c]
  <2>1. UNCHANGED <<alive, up, down>>
    BY <1>1 DEF Ended
  <2> QED BY <1>1, <1>a, <1>b, <2>1
<1>2. CASE alive[c]
  <2>1. /\ alive' = [alive EXCEPT ![c] = FALSE]
        /\ \E s \in Remains(up[c]) : up' = [up EXCEPT ![c] = s]
        /\ \E s \in Prefixes(down[c]) : down' = [down EXCEPT ![c] = s]
    BY <1>2 DEF Ended
  <2>2. PICK r \in Remains(up[c]) : up' = [up EXCEPT ![c] = r]
    BY <2>1
  <2>3. PICK p \in Prefixes(down[c]) : down' = [down EXCEPT ![c] = p]
    BY <2>1
  <2>4. /\ r \in Seq(Frames) /\ Len(r) <= Len(up[c])
        /\ \A n \in 1 .. Len(r) : r[n] = up[c][n] \/ (r[n] = Cut /\ up[c][n].t = "blob")
    BY <1>a, RemainsIsPart
  <2>5. /\ p \in Seq(Frames) /\ Len(p) <= Len(down[c])
        /\ \A n \in 1 .. Len(p) : p[n] = down[c][n]
    BY <1>a, PrefixIsPart
  <2>6. up'[c] = r /\ down'[c] = p /\ alive'[c] = FALSE
    BY <1>a, <2>1, <2>2, <2>3
  <2>7. \A x \in Conns \ {c} : alive'[x] = alive[x] /\ up'[x] = up[x] /\ down'[x] = down[x]
    BY <1>a, <2>1, <2>2, <2>3
  <2>8. /\ alive' \in [Conns -> BOOLEAN] /\ up' \in [Conns -> Seq(Frames)]
        /\ down' \in [Conns -> Seq(Frames)]
    BY <1>a, <2>1, <2>2, <2>3, <2>4, <2>5
  <2>9. ASSUME NEW x \in Conns
        PROVE  /\ Len(up'[x]) <= Len(up[x])
               /\ \A n \in 1 .. Len(up'[x]) :
                    up'[x][n] = up[x][n] \/ (up'[x][n] = Cut /\ up[x][n].t = "blob")
               /\ Len(down'[x]) <= Len(down[x])
               /\ \A n \in 1 .. Len(down'[x]) : down'[x][n] = down[x][n]
    <3>1. CASE x = c
      BY <2>4, <2>5, <2>6, <3>1
    <3>2. CASE x # c
      BY <1>b, <2>7, <3>2
    <3> QED BY <3>1, <3>2
  <2> QED BY <2>6, <2>7, <2>8, <2>9
<1> QED BY <1>1, <1>2

\* What the service of connection c writes comes after what is there.
LEMMA WrittenEffect ==
    ASSUME TypeOK, NEW c \in Conns, NEW fs \in Seq(Frames), Written(c, fs)
    PROVE  /\ down' \in [Conns -> Seq(Frames)]
           /\ \A x \in Conns :
                /\ Len(down[x]) <= Len(down'[x])
                /\ \A n \in 1 .. Len(down[x]) : down'[x][n] = down[x][n]
                /\ x # c \/ ~alive[c] => down'[x] = down[x]
                /\ x = c /\ alive[c] => down'[x] = down[x] \o fs
<1>a. down \in [Conns -> Seq(Frames)]
  BY DEF TypeOK
<1>1. CASE ~alive[c]
  BY <1>1, <1>a DEF Written
<1>2. CASE alive[c]
  <2>1. down' = [down EXCEPT ![c] = @ \o fs]
    BY <1>2 DEF Written
  <2>2. down'[c] = down[c] \o fs /\ \A x \in Conns \ {c} : down'[x] = down[x]
    BY <1>a, <2>1
  <2>3. /\ down[c] \o fs \in Seq(Frames) /\ Len(down[c]) <= Len(down[c] \o fs)
        /\ \A n \in 1 .. Len(down[c]) : (down[c] \o fs)[n] = down[c][n]
    BY <1>a
  <2>4. down' \in [Conns -> Seq(Frames)]
    BY <1>a, <2>1, <2>3
  <2>5. ASSUME NEW x \in Conns \ {c}
        PROVE  Len(down[x]) <= Len(down'[x]) /\ down'[x] = down[x]
    <3>1. Len(down[x]) \in Nat
      BY <1>a
    <3> QED BY <2>2, <3>1
  <2> QED BY <1>2, <2>2, <2>3, <2>4, <2>5
<1> QED BY <1>1, <1>2

Typed == TypeOK /\ IsFiniteSet(insts)

LEMMA TypedInit == Init => Typed
<1> SUFFICES ASSUME Init PROVE Typed
  OBVIOUS
<1>1. NoReply \in Replies /\ <<>> \in Seq(Frames)
  BY DEF Replies
<1>2. IsFiniteSet(insts)
  BY FS_EmptySet DEF Init
<1>3. TypeOK
  BY <1>1, ConnsAssumption DEF Init, TypeOK, WorkerStates, Engaged, Sources, Conns
<1> QED BY <1>2, <1>3 DEF Typed

LEMMA TypedLost ==
    ASSUME TypeOK, NEW c \in Conns, LostConn(c)
    PROVE  /\ process' \in 0 .. MaxConns /\ pending' \subseteq Jobs
           /\ connPc' \in {"start", "have", "idle"} /\ wReply' \in [Jobs -> Replies]
           /\ alive' \in [Conns -> BOOLEAN]
           /\ up' \in [Conns -> Seq(Frames)] /\ down' \in [Conns -> Seq(Frames)]
<1>1. Lost \in Replies
  BY DEF Replies
<1>2. Ended(c)
  BY DEF LostConn
<1>3. /\ alive' \in [Conns -> BOOLEAN]
      /\ up' \in [Conns -> Seq(Frames)] /\ down' \in [Conns -> Seq(Frames)]
  BY <1>2, EndedEffect
<1>4. Told \in [Jobs -> Replies]
  BY <1>1 DEF Told, TypeOK
<1>5. /\ process \in 0 .. MaxConns /\ pending \subseteq Jobs
      /\ connPc \in {"start", "have", "idle"} /\ wReply \in [Jobs -> Replies]
  BY DEF TypeOK
<1> QED BY <1>3, <1>4, <1>5, ConnsAssumption DEF LostConn

LEMMA TypedWorker ==
    ASSUME Typed, NEW j \in Jobs, Worker(j)
    PROVE  Typed'
<1> USE DEF Typed, workerVars, hostVars
<1>a. /\ up \in [Conns -> Seq(Frames)] /\ wProc \in [Jobs -> 0 .. MaxConns]
      /\ wPc \in [Jobs -> WorkerStates] /\ wTodo \in [Jobs -> SUBSET Digests]
  BY DEF TypeOK
<1>b. wPc[j] \in Engaged => wProc[j] \in Conns
  BY <1>a, ConnsAssumption DEF TypeOK, Conns
<1>1. CASE Dispatch(j)
  BY <1>1 DEF Dispatch, TypeOK, WorkerStates, Engaged
<1>2. CASE Begin(j)
  <2>1. NoReply \in Replies
    BY DEF Replies
  <2>2. CASE Connected
    <3>1. process \in 0 .. MaxConns /\ process # 0 /\ wReply \in [Jobs -> Replies]
      BY <2>2 DEF Connected, TypeOK
    <3>2. /\ wPc' = [wPc EXCEPT ![j] = "claim"] /\ wProc' = [wProc EXCEPT ![j] = process]
          /\ wReply' = [wReply EXCEPT ![j] = NoReply] /\ pending' = pending \cup {j}
      BY <1>2, <2>2 DEF Begin
    <3>3. /\ wPc' \in [Jobs -> WorkerStates] /\ wProc' \in [Jobs -> 0 .. MaxConns]
          /\ wReply' \in [Jobs -> Replies]
      BY <1>a, <2>1, <3>1, <3>2 DEF WorkerStates
    <3>4. \A k \in Jobs : wPc'[k] \in Engaged => wProc'[k] # 0
      BY <1>a, <3>1, <3>2 DEF TypeOK
    <3> QED BY <1>2, <3>2, <3>3, <3>4 DEF Begin, TypeOK
  <2>3. CASE ~Connected
    BY <1>2, <2>3 DEF Begin, TypeOK, WorkerStates, Engaged
  <2> QED BY <2>2, <2>3
<1>3. CASE Claim(j)
  BY <1>3, JobsAssumption DEF Claim, TypeOK, WorkerStates, Engaged, Claimed
<1>4. CASE WriteFail(j)
  BY <1>4 DEF WriteFail, TypeOK, WorkerStates, Engaged
<1>5. CASE WriteBlob(j)
  <2>1. PICK d \in wTodo[j] : /\ up' = [up EXCEPT ![wProc[j]] = Append(@, Blob(d))]
                              /\ wTodo' = [wTodo EXCEPT ![j] = @ \ {d}]
    BY <1>5 DEF WriteBlob
  <2>2. Blob(d) \in Frames /\ wProc[j] \in Conns
    BY <1>5, <1>a, <1>b, FrameMade DEF WriteBlob, Engaged
  <2>3. up' \in [Conns -> Seq(Frames)]
    BY <1>a, <2>1, <2>2
  <2>4. wTodo' \in [Jobs -> SUBSET Digests]
    BY <1>a, <2>1
  <2> QED BY <1>5, <2>3, <2>4 DEF WriteBlob, TypeOK
<1>6. CASE WriteJob(j)
  <2>1. Job(j) \in Frames /\ wProc[j] \in Conns
    BY <1>6, <1>b, FrameMade DEF WriteJob, Engaged
  <2>2. up' \in [Conns -> Seq(Frames)]
    BY <1>6, <1>a, <2>1 DEF WriteJob
  <2> QED BY <1>6, <2>2 DEF WriteJob, TypeOK, WorkerStates, Engaged
<1>7. CASE Rollback(j)
  BY <1>7 DEF Rollback, TypeOK, WorkerStates, Engaged, RolledBack
<1>8. CASE GiveUp(j)
  <2>1. LostConn(wProc[j]) /\ wProc[j] \in Conns
    BY <1>8, <1>b DEF GiveUp, Engaged
  <2>2. wPc' \in [Jobs -> WorkerStates]
    BY <1>8, <1>a DEF GiveUp, WorkerStates
  <2>3. \A k \in Jobs : wPc'[k] \in Engaged => wProc'[k] # 0
    BY <1>8, <1>a DEF GiveUp, Engaged, TypeOK
  <2> QED BY <1>8, <2>1, <2>2, <2>3, TypedLost DEF GiveUp, TypeOK
<1>9. CASE Replied(j)
  <2>1. wReply[j] \in Replies
    BY DEF TypeOK
  <2>2. sent' \subseteq Digests
    BY <1>9, JobsAssumption DEF Replied, NotSent, TypeOK
  <2>3. wPc' \in [Jobs -> WorkerStates]
    BY <1>9, <1>a DEF Replied, WorkerStates
  <2>4. \A k \in Jobs : wPc'[k] \in Engaged => wProc'[k] # 0
    BY <1>9, <1>a DEF Replied, Engaged, TypeOK
  <2> QED BY <1>9, <2>2, <2>3, <2>4 DEF Replied, TypeOK
<1> QED BY <1>1, <1>2, <1>3, <1>4, <1>5, <1>6, <1>7, <1>8, <1>9 DEF Worker

LEMMA TypedConnecting == ASSUME Typed, Links, Greeting, Connecting PROVE Typed'
<1> USE DEF Typed, workerVars, hostVars
<1>a. /\ up \in [Conns -> Seq(Frames)] /\ down \in [Conns -> Seq(Frames)]
      /\ conns \in 0 .. MaxConns /\ MaxConns \in Nat
      /\ \A ds \in SUBSET Digests : Have(ds) \in Frames
      /\ sent \in SUBSET Digests
  BY FrameMade, ConnsAssumption DEF TypeOK
<1>1. CASE ConnStart
  <2>1. conns' \in Conns /\ conns' \in 0 .. MaxConns
    BY <1>1, <1>a DEF ConnStart, Conns
  <2>2. Have({}) \in Frames /\ Have(sent) \in Frames
    BY <1>a
  <2>3. up' \in [Conns -> Seq(Frames)] /\ down' \in [Conns -> Seq(Frames)]
    BY <1>1, <1>a, <2>1, <2>2 DEF ConnStart
  <2>4. /\ alive' \in [Conns -> BOOLEAN]
        /\ svc' \in [Conns -> {"none", "running", "stopping", "crashed", "gone"}]
    BY <1>1, <2>1 DEF ConnStart, TypeOK
  <2> QED BY <1>1, <2>1, <2>3, <2>4 DEF ConnStart, TypeOK
<1>2. CASE ConnUp
  <2>1. conns \in Conns
    BY <1>2, <1>a DEF ConnUp, Links, Conns
  <2>2. Head(down[conns]) \in Frames /\ Head(down[conns]).t = "have"
    <3>1. down[conns] # <<>> /\ connPc = "have"
      BY <1>2 DEF ConnUp
    <3>2. Head(down[conns]) = down[conns][1] /\ 1 \in 1 .. Len(down[conns])
      BY <1>a, <2>1, <3>1, TailIsRest
    <3> QED BY <1>a, <2>1, <3>1, <3>2, TailIsRest DEF Greeting
  <2>3. sent' \in SUBSET Digests
    BY <1>2, <2>2, FrameFields DEF ConnUp, Kept
  <2>4. down' \in [Conns -> Seq(Frames)]
    BY <1>2, <1>a, <2>1, TailIsRest DEF ConnUp
  <2>5. process' \in 0 .. MaxConns /\ reader' \subseteq Conns
    BY <1>2, <1>a, <2>1 DEF ConnUp, TypeOK
  <2> QED BY <1>2, <2>3, <2>4, <2>5 DEF ConnUp, TypeOK
<1>3. CASE ConnFail
  BY <1>3 DEF ConnFail, TypeOK, Retry
<1> QED BY <1>1, <1>2, <1>3 DEF Connecting

LEMMA TypedReader == ASSUME Typed, NEW c \in Conns, Reader(c) PROVE Typed'
<1> USE DEF Typed, workerVars, hostVars
<1>a. down \in [Conns -> Seq(Frames)] /\ wReply \in [Jobs -> Replies]
  BY DEF TypeOK
<1>1. CASE ReadFrame(c)
  <2>1. Head(down[c]) \in Frames /\ down' \in [Conns -> Seq(Frames)]
    BY <1>1, <1>a, TailIsRest DEF ReadFrame
  <2>2. localCas' \subseteq Digests /\ pending' \subseteq Jobs /\ wReply' \in [Jobs -> Replies]
    BY <1>1, <1>a, <2>1, FrameFields DEF ReadFrame, TypeOK
  <2> QED BY <1>1, <2>1, <2>2 DEF ReadFrame, TypeOK
<1>2. CASE ReadEnd(c)
  <2>1. LostConn(c)
    BY <1>2 DEF ReadEnd
  <2> QED BY <1>2, <2>1, TypedLost DEF ReadEnd, TypeOK
<1> QED BY <1>1, <1>2 DEF Reader

LEMMA TypedService == ASSUME Typed, NEW c \in Conns, Service(c) PROVE Typed'
<1> USE DEF Typed, workerVars, hostVars
<1> DEFINE SvcStates == {"none", "running", "stopping", "crashed", "gone"}
<1>a. /\ up \in [Conns -> Seq(Frames)] /\ svc \in [Conns -> SvcStates]
      /\ hostCas \subseteq Digests /\ insts \subseteq Insts
      /\ work \in [Jobs -> {None} \cup (Conns \X Nat)] /\ down \in [Conns -> Seq(Frames)]
  BY DEF TypeOK
<1>1. CASE SvcRead(c)
  <2> DEFINE f == Head(up[c])
  <2>1. f \in Frames /\ up' \in [Conns -> Seq(Frames)]
    BY <1>1, <1>a, TailIsRest DEF SvcRead
  <2>2. CASE f.t = "blob" /\ hostCas' = hostCas \cup {f.d} /\ UNCHANGED <<svc, insts, down>>
    BY <1>1, <2>1, <2>2, FrameFields DEF SvcRead, TypeOK
  <2>3. CASE f.t = "have" /\ Written(c, <<Have(f.ds \cap hostCas)>>)
             /\ UNCHANGED <<svc, insts, hostCas>>
    <3>1. Have(f.ds \cap hostCas) \in Frames
      BY <1>a, FrameMade
    <3>2. <<Have(f.ds \cap hostCas)>> \in Seq(Frames)
      BY <3>1
    <3>3. down' \in [Conns -> Seq(Frames)]
      BY <2>3, <3>2, WrittenEffect
    <3> QED BY <1>1, <2>1, <2>3, <3>3 DEF SvcRead, TypeOK
  <2>4. CASE f.t = "job" /\ insts' = insts \cup {NewInst(c, f.j)}
             /\ UNCHANGED <<svc, hostCas, down>>
    <3>1. f.j \in Jobs
      BY <2>1, <2>4, FrameFields
    <3>2. NewInst(c, f.j) \in Insts
      BY <3>1, InstTyped
    <3>3. IsFiniteSet(insts') /\ insts' \subseteq Insts
      BY <1>a, <2>4, <3>2, FS_AddElement
    <3> QED BY <1>1, <2>1, <2>4, <3>3 DEF SvcRead, TypeOK
  <2>5. CASE svc' = [svc EXCEPT ![c] = "crashed"] /\ UNCHANGED <<insts, hostCas, down>>
    BY <1>1, <1>a, <2>1, <2>5 DEF SvcRead, TypeOK
  <2> HIDE DEF f
  <2> QED BY <1>1, <2>2, <2>3, <2>4, <2>5 DEF SvcRead, f
<1>2. CASE SvcEof(c)
  <2> DEFINE Rest == {x \in insts : x.c # c \/ x.st # "queued"}
  <2>1. PICK killed \in SUBSET insts :
            insts' = {IF i \in killed THEN [i EXCEPT !.st = "killed"] ELSE i : i \in Rest}
    BY <1>2 DEF SvcEof
  <2> DEFINE g == [i \in Rest |-> IF i \in killed THEN [i EXCEPT !.st = "killed"] ELSE i]
  <2>2. g \in Surjection(Rest, insts')
    BY <2>1 DEF Surjection
  <2>3. IsFiniteSet(Rest)
    BY FS_Subset
  <2>4. IsFiniteSet(insts')
    <3> HIDE DEF g, Rest
    <3> QED BY <2>2, <2>3, FS_Surjection
  <2>5. ASSUME NEW i \in insts' PROVE i \in Insts
    <3>1. PICK x \in Rest : i = IF x \in killed THEN [x EXCEPT !.st = "killed"] ELSE x
      BY <2>1
    <3>2. x \in Insts
      BY <1>a
    <3> QED BY <3>1, <3>2 DEF Insts
  <2>6. svc' \in [Conns -> SvcStates]
    BY <1>2, <1>a DEF SvcEof
  <2> QED BY <1>2, <2>4, <2>5, <2>6 DEF SvcEof, TypeOK
<1>3. CASE SvcGone(c)
  BY <1>3, <1>a DEF SvcGone, TypeOK
<1> QED BY <1>1, <1>2, <1>3 DEF Service

LEMMA TypedRunning == ASSUME Typed, NEW i \in insts, Running(i) PROVE Typed'
<1> USE DEF Typed, workerVars, hostVars
<1>a. /\ i \in Insts /\ insts \subseteq Insts
      /\ i.c \in Conns /\ i.j \in Jobs /\ i.k \in Nat
      /\ down \in [Conns -> Seq(Frames)] /\ hostCas \subseteq Digests
      /\ work \in [Jobs -> {None} \cup (Conns \X Nat)]
      /\ Inputs[i.j] \in SUBSET Digests /\ Output[i.j] \in Digests
  BY JobsAssumption DEF TypeOK, Insts
<1>b. Leaving(i) => insts' \subseteq Insts /\ IsFiniteSet(insts')
  <2> SUFFICES ASSUME Leaving(i) PROVE insts' \subseteq Insts /\ IsFiniteSet(insts')
    OBVIOUS
  <2>1. [i EXCEPT !.st = "leaving"] \in Insts
    BY <1>a DEF Insts
  <2>2. IsFiniteSet(insts \ {i})
    BY FS_Subset
  <2>3. insts' = (insts \ {i}) \cup {[i EXCEPT !.st = "leaving"]}
    BY DEF Leaving
  <2> QED BY <1>a, <2>1, <2>2, <2>3, FS_AddElement
<1>1. CASE JobStart(i)
  <2>1. work' \in [Jobs -> {None} \cup (Conns \X Nat)]
    BY <1>1, <1>a DEF JobStart
  <2>2. CASE Inputs[i.j] \ hostCas # {}
    <3>1. Written(i.c, <<Missing(i.j, Inputs[i.j] \ hostCas)>>) /\ Leaving(i)
      BY <1>1, <2>2 DEF JobStart
    <3>2. <<Missing(i.j, Inputs[i.j] \ hostCas)>> \in Seq(Frames)
      <4>1. Missing(i.j, Inputs[i.j] \ hostCas) \in Frames
        BY <1>a, FrameMade
      <4> QED BY <4>1
    <3>3. down' \in [Conns -> Seq(Frames)]
      BY <1>a, <3>1, <3>2, WrittenEffect
    <3>4. insts' \subseteq Insts /\ IsFiniteSet(insts')
      BY <1>b, <3>1
    <3> QED BY <1>1, <2>1, <3>3, <3>4 DEF JobStart, TypeOK
  <2>3. CASE Inputs[i.j] \ hostCas = {}
    <3>1. insts' = (insts \ {i}) \cup {[i EXCEPT !.st = "running"]} /\ down' = down
      BY <1>1, <2>3 DEF JobStart
    <3>2. [i EXCEPT !.st = "running"] \in Insts
      BY <1>a DEF Insts
    <3>3. IsFiniteSet(insts \ {i})
      BY FS_Subset
    <3>4. insts' \subseteq Insts /\ IsFiniteSet(insts')
      BY <1>a, <3>1, <3>2, <3>3, FS_AddElement
    <3> QED BY <1>1, <2>1, <3>1, <3>4 DEF JobStart, TypeOK
  <2> QED BY <2>2, <2>3
<1>2. CASE JobOk(i)
  <2>1. Written(i.c, Batch(i.j)) /\ Leaving(i) /\ hostCas' \subseteq Digests
    BY <1>2, <1>a DEF JobOk
  <2>2. Batch(i.j) \in Seq(Frames)
    BY <1>a, FrameMade DEF Batch
  <2>3. down' \in [Conns -> Seq(Frames)]
    BY <1>a, <2>1, <2>2, WrittenEffect
  <2> QED BY <1>2, <1>b, <2>1, <2>3 DEF JobOk, TypeOK
<1>3. CASE JobFail(i)
  <2>1. Written(i.c, <<Result(i.j, 1)>>) /\ Leaving(i)
    BY <1>3 DEF JobFail
  <2>2. <<Result(i.j, 1)>> \in Seq(Frames)
    BY <1>a, FrameMade
  <2>3. down' \in [Conns -> Seq(Frames)]
    BY <1>a, <2>1, <2>2, WrittenEffect
  <2> QED BY <1>3, <1>b, <2>1, <2>3 DEF JobFail, TypeOK
<1>4. CASE JobLeave(i)
  <2>1. insts' \subseteq Insts /\ IsFiniteSet(insts')
    BY <1>4, <1>a, FS_Subset DEF JobLeave
  <2>2. work' \in [Jobs -> {None} \cup (Conns \X Nat)]
    BY <1>4, <1>a DEF JobLeave
  <2> QED BY <1>4, <2>1, <2>2 DEF JobLeave, TypeOK
<1> QED BY <1>1, <1>2, <1>3, <1>4 DEF Running

LEMMA TypedStep ==
    ASSUME Typed, Links, Greeting, [Next]_vars
    PROVE  Typed'
<1>1. ASSUME NEW c \in Conns, Break(c) PROVE Typed'
  <2>1. Ended(c)
    BY <1>1 DEF Break
  <2> QED BY <1>1, <2>1, EndedEffect DEF Break, Typed, TypeOK, workerVars, hostVars
<1>2. CASE UNCHANGED vars
  BY <1>2 DEF vars, workerVars, hostVars, Typed, TypeOK
<1> QED BY <1>1, <1>2, TypedWorker, TypedConnecting, TypedReader, TypedService, TypedRunning
        DEF Next

-----------------------------------------------------------------------------
(* Connections.                                                            *)

\* Pipes that only lose frames keep Links and Greeting.
LinkFacts == Links /\ Greeting

LEMMA PipeTypes ==
    ASSUME Typed
    PROVE  /\ up \in [Conns -> Seq(Frames)] /\ down \in [Conns -> Seq(Frames)]
           /\ alive \in [Conns -> BOOLEAN]
           /\ \A c \in Conns : c \in Nat \ {0} /\ Len(up[c]) \in Nat /\ Len(down[c]) \in Nat
           /\ conns \in Nat /\ process \in Nat /\ (process # 0 => process \in Conns)
           /\ conns # 0 => conns \in Conns
           /\ wProc \in [Jobs -> Nat] /\ \A i \in insts : i.c \in Conns /\ i.j \in Jobs
           /\ \A j \in Jobs : wPc[j] \in Engaged => wProc[j] \in Conns
<1>1. /\ up \in [Conns -> Seq(Frames)] /\ down \in [Conns -> Seq(Frames)]
      /\ alive \in [Conns -> BOOLEAN] /\ conns \in 0 .. MaxConns /\ process \in 0 .. MaxConns
      /\ wProc \in [Jobs -> 0 .. MaxConns] /\ insts \subseteq Insts
      /\ \A j \in Jobs : wPc[j] \in Engaged => wProc[j] # 0
  BY DEF Typed, TypeOK
<1> QED BY <1>1, ConnsAssumption DEF Conns, Insts

LEMMA LinksInit == Init => LinkFacts
<1> SUFFICES ASSUME Init PROVE LinkFacts
  OBVIOUS
<1>1. \A c \in Conns : Len(up[c]) = 0 /\ Len(down[c]) = 0 /\ ~alive[c]
  BY DEF Init
<1> QED BY <1>1 DEF Init, LinkFacts, Links, Greeting

LEMMA LinksEnded ==
    ASSUME Typed, LinkFacts, NEW c \in Conns, Ended(c),
           UNCHANGED <<process, conns, connPc, wProc, insts>>
    PROVE  LinkFacts'
<1> USE PipeTypes
<1>0. TypeOK
  BY DEF Typed
<1>1. \A x \in Conns : /\ alive'[x] => alive[x]
                       /\ Len(up'[x]) <= Len(up[x]) /\ Len(down'[x]) <= Len(down[x])
                       /\ Len(up'[x]) \in Nat /\ Len(down'[x]) \in Nat
                       /\ Len(up[x]) \in Nat /\ Len(down[x]) \in Nat
  <2>1. up' \in [Conns -> Seq(Frames)] /\ down' \in [Conns -> Seq(Frames)]
    BY <1>0, EndedEffect
  <2> QED BY <1>0, <2>1, EndedEffect
<1>2. Links'
  BY <1>1 DEF LinkFacts, Links
<1>3. connPc = "have" =>
        /\ Len(up'[conns]) + Len(down'[conns]) <= 1
        /\ \A n \in 1 .. Len(up'[conns]) : up'[conns][n].t = "have"
        /\ \A n \in 1 .. Len(down'[conns]) : down'[conns][n].t = "have"
  <2> SUFFICES ASSUME connPc = "have"
               PROVE  /\ Len(up'[conns]) + Len(down'[conns]) <= 1
                      /\ \A n \in 1 .. Len(up'[conns]) : up'[conns][n].t = "have"
                      /\ \A n \in 1 .. Len(down'[conns]) : down'[conns][n].t = "have"
    OBVIOUS
  <2>1. conns \in Conns
    BY DEF LinkFacts, Links
  <2>2. /\ Len(up[conns]) + Len(down[conns]) <= 1
        /\ \A n \in 1 .. Len(up[conns]) : up[conns][n].t = "have"
        /\ \A n \in 1 .. Len(down[conns]) : down[conns][n].t = "have"
    BY DEF LinkFacts, Greeting
  <2>3. /\ \A n \in 1 .. Len(up'[conns]) : up'[conns][n] = up[conns][n] \/ up[conns][n].t = "blob"
        /\ \A n \in 1 .. Len(down'[conns]) : down'[conns][n] = down[conns][n]
    BY <1>0, <2>1, EndedEffect
  <2>4. /\ Len(up'[conns]) \in Nat /\ Len(down'[conns]) \in Nat
        /\ Len(up[conns]) \in Nat /\ Len(down[conns]) \in Nat
        /\ Len(up'[conns]) <= Len(up[conns]) /\ Len(down'[conns]) <= Len(down[conns])
    BY ONLY <1>1, <2>1
  <2>5. Len(up'[conns]) + Len(down'[conns]) <= 1
    <3>1. Len(up[conns]) + Len(down[conns]) <= 1
      BY <2>2
    <3>2. \A a, b, k, m \in Nat : a <= k /\ b <= m /\ k + m <= 1 => a + b <= 1
      OBVIOUS
    <3> QED BY ONLY <2>4, <3>1, <3>2
  <2>6. \A n \in 1 .. Len(up'[conns]) : up'[conns][n].t = "have"
    <3>1. ASSUME NEW n \in 1 .. Len(up'[conns]) PROVE n \in 1 .. Len(up[conns])
      BY ONLY <2>4, <3>1
    <3> QED BY ONLY <2>2, <2>3, <3>1
  <2>7. \A n \in 1 .. Len(down'[conns]) : down'[conns][n].t = "have"
    <3>1. ASSUME NEW n \in 1 .. Len(down'[conns]) PROVE n \in 1 .. Len(down[conns])
      BY ONLY <2>4, <3>1
    <3> QED BY ONLY <2>2, <2>3, <3>1
  <2> QED BY <2>5, <2>6, <2>7
<1>4. conns' = conns /\ connPc' = connPc /\ insts' = insts /\ wProc' = wProc
  OBVIOUS
<1>5. /\ \A j \in Jobs : wProc[j] <= conns /\ (connPc = "have" => wProc[j] # conns)
      /\ \A i \in insts : i.c <= conns /\ (connPc = "have" => i.c # conns)
  BY DEF LinkFacts, Greeting
<1>6. Greeting'
  BY ONLY <1>3, <1>4, <1>5 DEF Greeting
<1> QED BY <1>2, <1>6 DEF LinkFacts

LEMMA LinksLost ==
    ASSUME Typed, LinkFacts, NEW c \in Conns, LostConn(c), UNCHANGED <<conns, wProc, insts>>
    PROVE  LinkFacts'
<1> USE PipeTypes
<1>0. TypeOK /\ Ended(c)
  BY DEF Typed, LostConn
<1>1. CASE process # c
  BY <1>0, <1>1, LinksEnded DEF LostConn
<1>2. CASE process = c
  <2>1. process' = 0 /\ connPc' = "start" /\ c = conns
    BY <1>2 DEF LostConn, LinkFacts, Links
  <2>2. \A x \in Conns : /\ ~alive'[x]
                         /\ Len(up'[x]) <= Len(up[x]) /\ Len(down'[x]) <= Len(down[x])
                         /\ Len(up'[x]) \in Nat /\ Len(down'[x]) \in Nat
    <3>1. up' \in [Conns -> Seq(Frames)] /\ down' \in [Conns -> Seq(Frames)]
      BY <1>0, EndedEffect
    <3>2. \A x \in Conns : alive'[x] => x # c /\ alive[x]
      BY <1>0, EndedEffect
    <3> QED BY <1>0, <2>1, <3>1, <3>2, EndedEffect DEF LinkFacts, Links
  <2>3. Links'
    BY <2>1, <2>2 DEF LinkFacts, Links
  <2>4. Greeting'
    BY <2>1 DEF LinkFacts, Greeting
  <2> QED BY <2>3, <2>4 DEF LinkFacts
<1> QED BY <1>1, <1>2

\* Steps that change neither pipes nor connections.
LEMMA LinksStutter ==
    ASSUME LinkFacts, UNCHANGED <<process, conns, connPc, wProc, alive, up, down>>,
           \A i \in insts' : \E x \in insts : i.c = x.c
    PROVE  LinkFacts'
BY DEF LinkFacts, Links, Greeting

\* Frames go up on the connection of the writer, which is the current one.
LEMMA LinksUp ==
    ASSUME Typed, LinkFacts, NEW j \in Jobs, NEW f \in Frames, wProc[j] \in Conns, alive[wProc[j]],
           up' = [up EXCEPT ![wProc[j]] = Append(@, f)],
           UNCHANGED <<process, conns, connPc, wProc, alive, down, insts>>
    PROVE  LinkFacts'
<1> USE PipeTypes
<1>1. wProc[j] = conns /\ connPc = "idle"
  BY DEF LinkFacts, Links, Greeting, Typed, TypeOK
<1>2. \A c \in Conns : c > conns => up'[c] = up[c]
  BY <1>1
<1> QED BY <1>1, <1>2 DEF LinkFacts, Links, Greeting

LEMMA LinksWorker ==
    ASSUME Typed, LinkFacts, NEW j \in Jobs, Worker(j)
    PROVE  LinkFacts'
<1> USE DEF workerVars, hostVars
<1>1. CASE Dispatch(j) \/ Claim(j) \/ WriteFail(j) \/ Rollback(j) \/ Replied(j)
  BY <1>1, LinksStutter DEF Dispatch, Claim, WriteFail, Rollback, Replied
<1>2. CASE Begin(j)
  <2>1. CASE Connected
    <3>1. process # 0 /\ wProc' = [wProc EXCEPT ![j] = process]
      BY <1>2, <2>1 DEF Begin, Connected
    <3> QED BY <1>2, <3>1, PipeTypes DEF Begin, LinkFacts, Links, Greeting
  <2>2. CASE ~Connected
    BY <1>2, <2>2, LinksStutter DEF Begin
  <2> QED BY <2>1, <2>2
<1>3. CASE WriteBlob(j)
  <2>1. PICK d \in wTodo[j] : up' = [up EXCEPT ![wProc[j]] = Append(@, Blob(d))]
    BY <1>3 DEF WriteBlob
  <2>2. Blob(d) \in Frames /\ wProc[j] \in Conns
    BY <1>3, FrameMade, PipeTypes DEF WriteBlob, Engaged, Typed, TypeOK
  <2> QED BY <1>3, <2>1, <2>2, LinksUp DEF WriteBlob
<1>4. CASE WriteJob(j)
  <2>1. Job(j) \in Frames /\ wProc[j] \in Conns
    BY <1>4, FrameMade, PipeTypes DEF WriteJob, Engaged
  <2> QED BY <1>4, <2>1, LinksUp DEF WriteJob
<1>5. CASE GiveUp(j)
  <2>1. LostConn(wProc[j]) /\ wProc[j] \in Conns
    BY <1>5, PipeTypes DEF GiveUp, Engaged
  <2> QED BY <1>5, <2>1, LinksLost DEF GiveUp
<1> QED BY <1>1, <1>2, <1>3, <1>4, <1>5 DEF Worker

LEMMA LinksConnecting == ASSUME Typed, LinkFacts, Connecting PROVE LinkFacts'
<1> USE PipeTypes DEF workerVars, hostVars
<1>1. CASE ConnStart
  <2> DEFINE c == conns + 1
  <2>1. /\ c \in Conns /\ conns' = c /\ connPc' = "have" /\ process = 0 /\ process' = 0
        /\ \A x \in Conns : ~alive[x]
    <3>1. c \in Conns /\ conns' = c /\ connPc' = "have" /\ connPc = "start" /\ process' = process
      BY <1>1, ConnsAssumption DEF ConnStart, Conns
    <3> QED BY <3>1 DEF LinkFacts, Links
  <2>2. Len(up[c]) = 0 /\ Len(down[c]) = 0
    BY <2>1 DEF LinkFacts, Links
  <2>3. \A x \in Conns : x # c => up'[x] = up[x] /\ down'[x] = down[x] /\ alive'[x] = alive[x]
    BY <1>1, <2>1 DEF ConnStart
  <2>4. \/ up'[c] = <<Have(sent)>> /\ down'[c] = down[c]
        \/ up'[c] = up[c] /\ down'[c] = <<Have({})>>
    BY <1>1, <2>1 DEF ConnStart
  <2>5. Links'
    <3>1. \A x \in Conns : alive'[x] => x = c
      BY <2>1, <2>3
    <3>2. \A x \in Conns : x > c => Len(up'[x]) = 0 /\ Len(down'[x]) = 0
      BY <2>1, <2>3 DEF LinkFacts, Links
    <3> QED BY <2>1, <3>1, <3>2 DEF Links
  <2>6. /\ Len(up'[c]) + Len(down'[c]) <= 1
        /\ \A n \in 1 .. Len(up'[c]) : up'[c][n].t = "have"
        /\ \A n \in 1 .. Len(down'[c]) : down'[c][n].t = "have"
    <3>1. /\ \A ds : Len(<<Have(ds)>>) = 1
          /\ \A ds : \A n \in 1 .. 1 : <<Have(ds)>>[n].t = "have"
      BY DEF Have
    <3>2. CASE up'[c] = <<Have(sent)>> /\ down'[c] = down[c]
      BY <2>2, <3>1, <3>2
    <3>3. CASE up'[c] = up[c] /\ down'[c] = <<Have({})>>
      BY <2>2, <3>1, <3>3
    <3> QED BY <2>4, <3>2, <3>3
  <2>7. \A j \in Jobs : wProc'[j] = wProc[j] /\ wProc[j] <= conns
    BY <1>1 DEF ConnStart, LinkFacts, Greeting
  <2>8. insts' = insts /\ \A i \in insts : i.c <= conns
    BY <1>1 DEF ConnStart, LinkFacts, Greeting
  <2>9. Greeting'
    <3>1. \A j \in Jobs : wProc'[j] <= c /\ wProc'[j] # c
      BY <2>7
    <3>2. \A i \in insts' : i.c <= c /\ i.c # c
      <4>1. ASSUME NEW i \in insts' PROVE i.c <= c /\ i.c # c
        <5>1. i.c \in Nat /\ i.c <= conns
          BY <2>8
        <5> QED BY <5>1
      <4> QED BY <4>1
    <3> HIDE DEF c
    <3> QED BY <2>1, <2>6, <3>1, <3>2 DEF Greeting
  <2> QED BY <2>5, <2>9 DEF LinkFacts
<1>2. CASE ConnUp
  <2>1. conns \in Conns /\ process' = conns /\ connPc' = "idle" /\ conns' = conns
    BY <1>2 DEF ConnUp, LinkFacts, Links
  <2>2. \A x \in Conns : x # conns => down'[x] = down[x]
    BY <1>2 DEF ConnUp
  <2>3. Links'
    BY <1>2, <2>1, <2>2 DEF ConnUp, LinkFacts, Links
  <2>4. Greeting'
    BY <1>2, <2>1 DEF ConnUp, LinkFacts, Greeting
  <2> QED BY <2>3, <2>4 DEF LinkFacts
<1>3. CASE ConnFail
  BY <1>3 DEF ConnFail, Retry, LinkFacts, Links, Greeting
<1> QED BY <1>1, <1>2, <1>3 DEF Connecting

LEMMA LinksReader == ASSUME Typed, LinkFacts, NEW c \in Conns, Reader(c) PROVE LinkFacts'
<1> USE PipeTypes DEF workerVars, hostVars
<1>1. CASE ReadFrame(c)
  <2>1. /\ \A x \in Conns : x # c => down'[x] = down[x]
        /\ down'[c] = Tail(down[c]) /\ down[c] # <<>>
    BY <1>1 DEF ReadFrame
  <2>2. /\ Len(down'[c]) = Len(down[c]) - 1 /\ Len(down[c]) \in Nat \ {0}
        /\ \A n \in 1 .. Len(down[c]) - 1 : down'[c][n] = down[c][n + 1]
    BY <2>1, TailIsRest
  <2>3. UNCHANGED <<process, conns, connPc, wProc, alive, up, insts>>
    BY <1>1 DEF ReadFrame
  <2>4. c <= conns
    BY <2>2 DEF LinkFacts, Links
  <2>5. Links'
    BY <2>1, <2>3, <2>4 DEF LinkFacts, Links
  <2>6. CASE connPc = "have" /\ c = conns
    <3>1. Len(up[c]) = 0 /\ Len(down[c]) = 1
      <4>1. Len(up[c]) + Len(down[c]) <= 1
        BY <2>6 DEF LinkFacts, Greeting
      <4>2. \A a \in Nat : \A b \in Nat \ {0} : a + b <= 1 => a = 0 /\ b = 1
        OBVIOUS
      <4> QED BY <2>2, <4>1, <4>2
    <3>2. Len(down'[c]) = 0
      BY <2>2, <3>1
    <3> QED BY <2>3, <2>5, <2>6, <3>1, <3>2 DEF LinkFacts, Greeting
  <2>7. CASE ~(connPc = "have" /\ c = conns)
    <3>1. connPc = "have" => conns \in Conns /\ down'[conns] = down[conns]
      BY <2>1, <2>7 DEF LinkFacts, Links
    <3> QED BY <2>3, <2>5, <3>1 DEF LinkFacts, Greeting
  <2> QED BY <2>6, <2>7
<1>2. CASE ReadEnd(c)
  BY <1>2, LinksLost DEF ReadEnd
<1> QED BY <1>1, <1>2 DEF Reader

\* A service writes and its pool changes, but not while its connection is greeted.
LEMMA LinksDown ==
    ASSUME Typed, LinkFacts, NEW c \in Conns, NEW fs \in Seq(Frames), Written(c, fs),
           c <= conns, connPc = "have" => c # conns,
           UNCHANGED <<process, conns, connPc, wProc, alive, up>>,
           \A i \in insts' : \E x \in insts : i.c = x.c
    PROVE  LinkFacts'
<1> USE PipeTypes
<1>1. \A x \in Conns : x # c => down'[x] = down[x]
  BY WrittenEffect DEF Typed
<1>2. Links'
  BY <1>1 DEF LinkFacts, Links
<1>3. connPc = "have" => conns \in Conns /\ down'[conns] = down[conns]
  BY <1>1 DEF LinkFacts, Links
<1> QED BY <1>2, <1>3 DEF LinkFacts, Greeting

LEMMA LinksService == ASSUME Typed, LinkFacts, NEW c \in Conns, Service(c) PROVE LinkFacts'
<1> USE PipeTypes DEF workerVars, hostVars
<1>1. CASE SvcRead(c)
  <2> DEFINE f == Head(up[c])
  <2>1. /\ \A x \in Conns : x # c => up'[x] = up[x]
        /\ up'[c] = Tail(up[c]) /\ up[c] # <<>>
        /\ UNCHANGED <<process, conns, connPc, wProc, alive>>
    BY <1>1 DEF SvcRead
  <2>2. /\ Len(up'[c]) = Len(up[c]) - 1 /\ Len(up[c]) \in Nat \ {0}
        /\ f = up[c][1] /\ f \in Frames
        /\ \A n \in 1 .. Len(up[c]) - 1 : up'[c][n] = up[c][n + 1]
    BY <2>1, TailIsRest
  <2>3. c <= conns
    BY <2>2 DEF LinkFacts, Links
  <2>4. CASE connPc = "have" /\ c = conns
    <3>1. Len(up[c]) = 1 /\ Len(down[c]) = 0 /\ f.t = "have"
      <4>1. 1 \in 1 .. Len(up[c])
        BY <2>2
      <4>2. /\ Len(up[c]) + Len(down[c]) <= 1
            /\ \A n \in 1 .. Len(up[c]) : up[c][n].t = "have"
        BY <2>4 DEF LinkFacts, Greeting
      <4>3. \A a \in Nat \ {0} : \A b \in Nat : a + b <= 1 => a = 1 /\ b = 0
        OBVIOUS
      <4>4. Len(up[c]) = 1 /\ Len(down[c]) = 0
        BY <2>2, <4>2, <4>3
      <4> QED BY <2>2, <4>1, <4>2, <4>4
    <3>2. Written(c, <<Have(f.ds \cap hostCas)>>) /\ UNCHANGED insts
      BY <1>1, <3>1 DEF SvcRead, Cut
    <3>3. Have(f.ds \cap hostCas) \in Frames
      BY FrameMade DEF Typed, TypeOK
    <3>4. /\ \A x \in Conns : x # c => down'[x] = down[x]
          /\ alive[c] => down'[c] = down[c] \o <<Have(f.ds \cap hostCas)>>
          /\ ~alive[c] => down'[c] = down[c]
      <4>1. <<Have(f.ds \cap hostCas)>> \in Seq(Frames)
        BY <3>3
      <4>2. Written(c, <<Have(f.ds \cap hostCas)>>) /\ TypeOK
        BY <3>2 DEF Typed
      <4>3. \A fs \in Seq(Frames) : Written(c, fs) =>
                \A x \in Conns : /\ x # c \/ ~alive[c] => down'[x] = down[x]
                                 /\ x = c /\ alive[c] => down'[x] = down[x] \o fs
        BY ONLY <4>2, WrittenEffect, c \in Conns
      <4> QED BY ONLY <4>1, <4>2, <4>3, c \in Conns
    <3>5. Len(down'[c]) <= 1 /\ \A n \in 1 .. Len(down'[c]) : down'[c][n].t = "have"
      <4>1. down[c] = <<>>
        BY <3>1
      <4>2. <<Have(f.ds \cap hostCas)>> \in Seq(Frames)
        BY <3>3
      <4>3. alive[c] => down'[c] = <<Have(f.ds \cap hostCas)>>
        BY <3>4, <4>1, <4>2
      <4>4. CASE alive[c]
        <5>1. Len(<<Have(f.ds \cap hostCas)>>) = 1
          OBVIOUS
        <5>2. \A ds : Have(ds).t = "have"
          BY DEF Have
        <5>3. \A h : <<h>>[1] = h
          OBVIOUS
        <5>4. \A n \in 1 .. 1 : n = 1
          OBVIOUS
        <5>5. \A n \in 1 .. 1 : <<Have(f.ds \cap hostCas)>>[n].t = "have"
          BY ONLY <5>2, <5>3, <5>4
        <5>6. down'[c] = <<Have(f.ds \cap hostCas)>>
          BY <4>3, <4>4
        <5> QED BY ONLY <5>1, <5>5, <5>6
      <4>5. CASE ~alive[c]
        BY <3>1, <3>4, <4>5
      <4> QED BY <4>4, <4>5
    <3>6. Len(up'[c]) = 0
      BY <2>2, <3>1
    <3>7. Links'
      BY <2>1, <2>3, <3>4 DEF LinkFacts, Links
    <3>8. Len(up'[c]) + Len(down'[c]) <= 1
      <4>1. Len(down'[c]) \in Nat
        <5>1. <<Have(f.ds \cap hostCas)>> \in Seq(Frames)
          BY <3>3
        <5> HIDE DEF f
        <5>2. down' \in [Conns -> Seq(Frames)]
          BY <3>2, <5>1, WrittenEffect DEF Typed
        <5> QED BY <5>2
      <4> QED BY <3>5, <3>6, <4>1
    <3> QED BY <2>1, <2>4, <3>2, <3>5, <3>6, <3>7, <3>8 DEF LinkFacts, Greeting
  <2>5. CASE ~(connPc = "have" /\ c = conns)
    <3>1. \A x \in Conns : x # c => down'[x] = down[x]
      <4>1. Have(f.ds \cap hostCas) \in Frames
        BY FrameMade DEF Typed, TypeOK
      <4>2. UNCHANGED down \/ Written(c, <<Have(f.ds \cap hostCas)>>)
        BY <1>1 DEF SvcRead
      <4>3. <<Have(f.ds \cap hostCas)>> \in Seq(Frames)
        BY <4>1
      <4> HIDE DEF f
      <4> QED BY <4>2, <4>3, WrittenEffect DEF Typed
    <3>2. connPc = "have" => conns \in Conns /\ down'[conns] = down[conns] /\ up'[conns] = up[conns]
      BY <2>1, <2>5, <3>1 DEF LinkFacts, Links
    <3>3. \A i \in insts' : i.c <= conns /\ (connPc = "have" => i.c # conns)
      <4>1. PICK new : new = NewInst(c, f.j)
        OBVIOUS
      <4>2. new.c = c /\ (insts' = insts \/ insts' = insts \cup {new})
        BY <1>1, <4>1 DEF SvcRead, NewInst
      <4>3. \A i \in insts : i.c <= conns /\ (connPc = "have" => i.c # conns)
        BY DEF LinkFacts, Greeting
      <4>4. c <= conns /\ (connPc = "have" => c # conns)
        BY <2>3, <2>5
      <4> QED BY ONLY <4>2, <4>3, <4>4
    <3>4. Links'
      <4>1. \A x \in Conns : alive[x] => x = conns /\ connPc # "start"
        BY DEF LinkFacts, Links
      <4>2. \A x \in Conns : x > conns => Len(up[x]) = 0 /\ Len(down[x]) = 0
        BY DEF LinkFacts, Links
      <4>3. \A x \in Conns : x > conns => x # c
        BY <2>3
      <4>4. \A x \in Conns : x > conns => Len(up'[x]) = 0 /\ Len(down'[x]) = 0
        BY <2>1, <3>1, <4>2, <4>3
      <4>5. /\ process # 0 => process = conns /\ connPc = "idle"
            /\ connPc = "have" => conns # 0
        BY DEF LinkFacts, Links
      <4> QED BY <2>1, <4>1, <4>4, <4>5 DEF Links
    <3> QED BY <2>1, <3>2, <3>3, <3>4 DEF LinkFacts, Greeting
  <2> QED BY <2>4, <2>5
<1>2. CASE SvcEof(c)
  <2>1. \A i \in insts' : \E x \in insts : i.c = x.c
    BY <1>2 DEF SvcEof, Typed, TypeOK, Insts
  <2> QED BY <1>2, <2>1, LinksStutter DEF SvcEof
<1>3. CASE SvcGone(c)
  BY <1>3, LinksStutter DEF SvcGone
<1> QED BY <1>1, <1>2, <1>3 DEF Service

LEMMA LinksRunning == ASSUME Typed, LinkFacts, NEW i \in insts, Running(i) PROVE LinkFacts'
<1> USE PipeTypes DEF workerVars, hostVars
<1>a. /\ i.c \in Conns /\ i.c <= conns /\ (connPc = "have" => i.c # conns) /\ i \in Insts
  BY DEF LinkFacts, Greeting, Typed, TypeOK
<1>b. Leaving(i) => \A x \in insts' : \E y \in insts : x.c = y.c
  BY <1>a DEF Leaving, Insts
<1>1. ASSUME NEW fs \in Seq(Frames), Written(i.c, fs), Leaving(i),
             UNCHANGED <<process, conns, connPc, wProc, alive, up>>
      PROVE  LinkFacts'
  BY <1>a, <1>b, <1>1, LinksDown
<1>c. i.j \in Jobs /\ Output[i.j] \in Digests /\ hostCas \subseteq Digests /\ Inputs[i.j] \in SUBSET Digests
  BY JobsAssumption DEF Typed, TypeOK
<1>2. CASE JobStart(i)
  <2>1. CASE Inputs[i.j] \ hostCas # {}
    <3>1. <<Missing(i.j, Inputs[i.j] \ hostCas)>> \in Seq(Frames)
      <4>1. Missing(i.j, Inputs[i.j] \ hostCas) \in Frames
        BY <1>c, FrameMade
      <4> QED BY <4>1
    <3> QED BY <1>1, <1>2, <2>1, <3>1 DEF JobStart
  <2>2. CASE Inputs[i.j] \ hostCas = {}
    <3>1. \A x \in insts' : \E y \in insts : x.c = y.c
      BY <1>2, <1>a, <2>2 DEF JobStart, Insts
    <3> QED BY <1>2, <2>2, <3>1, LinksStutter DEF JobStart
  <2> QED BY <2>1, <2>2
<1>3. CASE JobOk(i)
  <2>1. Batch(i.j) \in Seq(Frames)
    BY <1>c, FrameMade DEF Batch
  <2> QED BY <1>1, <1>3, <2>1 DEF JobOk
<1>4. CASE JobFail(i)
  <2>1. <<Result(i.j, 1)>> \in Seq(Frames)
    BY <1>c, FrameMade
  <2> QED BY <1>1, <1>4, <2>1 DEF JobFail
<1>5. CASE JobLeave(i)
  BY <1>5, LinksStutter DEF JobLeave
<1> QED BY <1>2, <1>3, <1>4, <1>5 DEF Running

LEMMA LinksStep ==
    ASSUME Typed, LinkFacts, [Next]_vars
    PROVE  LinkFacts'
<1>1. ASSUME NEW c \in Conns, Break(c) PROVE LinkFacts'
  BY <1>1, LinksEnded DEF Break, workerVars, hostVars
<1>2. CASE UNCHANGED vars
  BY <1>2, LinksStutter DEF vars, workerVars, hostVars
<1> QED BY <1>1, <1>2, LinksWorker, LinksConnecting, LinksReader, LinksService, LinksRunning
        DEF Next

-----------------------------------------------------------------------------
(* What the host says.                                                     *)

\* Where the frames of the pipes to the controller come from.
OldFrame(x, n) == \E m \in 1 .. Len(down[x]) : down'[x][n] = down[x][m]

LEMMA WrittenFrames ==
    ASSUME Typed, NEW c \in Conns, NEW fs \in Seq(Frames), Written(c, fs),
           NEW x \in Conns, NEW n \in 1 .. Len(down'[x])
    PROVE  OldFrame(x, n) \/ \E k \in 1 .. Len(fs) : down'[x][n] = fs[k]
<1>0. /\ down[x] \in Seq(Frames) /\ TypeOK
      /\ x # c \/ ~alive[c] => down'[x] = down[x]
      /\ x = c /\ alive[c] => down'[x] = down[x] \o fs
  <2>1. TypeOK /\ down[x] \in Seq(Frames)
    BY PipeTypes DEF Typed
  <2> QED BY <2>1, WrittenEffect
<1>1. CASE x # c \/ ~alive[c]
  BY <1>0, <1>1 DEF OldFrame
<1>2. CASE x = c /\ alive[c]
  <2>1. down'[x] = down[x] \o fs
    BY <1>0, <1>2
  <2>2. CASE n <= Len(down[x])
    <3>1. n \in 1 .. Len(down[x]) /\ (down[x] \o fs)[n] = down[x][n]
      BY <1>0, <2>1, <2>2
    <3> QED BY <2>1, <3>1 DEF OldFrame
  <2>3. CASE n > Len(down[x])
    <3>1. n - Len(down[x]) \in 1 .. Len(fs) /\ (down[x] \o fs)[n] = fs[n - Len(down[x])]
      BY <1>0, <2>1, <2>3
    <3> QED BY <2>1, <3>1
  <2> QED BY <1>0, <2>1, <2>2, <2>3
<1> QED BY <1>1, <1>2

LEMMA EndedFrames ==
    ASSUME Typed, NEW c \in Conns, Ended(c), NEW x \in Conns, NEW n \in 1 .. Len(down'[x])
    PROVE  OldFrame(x, n)
<1>1. down'[x][n] = down[x][n] /\ Len(down'[x]) <= Len(down[x]) /\ Len(down[x]) \in Nat
      /\ Len(down'[x]) \in Nat
  <2>1. down' \in [Conns -> Seq(Frames)]
    BY EndedEffect DEF Typed
  <2> QED BY <2>1, EndedEffect, PipeTypes DEF Typed
<1>2. n \in 1 .. Len(down[x])
  BY <1>1
<1> QED BY <1>1, <1>2 DEF OldFrame

LEMMA TailFrames ==
    ASSUME Typed, NEW c \in Conns, down[c] # <<>>, down' = [down EXCEPT ![c] = Tail(@)],
           NEW x \in Conns, NEW n \in 1 .. Len(down'[x])
    PROVE  OldFrame(x, n)
<1>0. down \in [Conns -> Seq(Frames)]
  BY PipeTypes
<1>1. CASE x # c
  BY <1>0, <1>1 DEF OldFrame
<1>2. CASE x = c
  <2>1. /\ down'[x] = Tail(down[x]) /\ Len(Tail(down[x])) = Len(down[x]) - 1
        /\ Len(down[x]) \in Nat \ {0}
        /\ \A k \in 1 .. Len(down[x]) - 1 : Tail(down[x])[k] = down[x][k + 1]
    BY <1>0, <1>2, TailIsRest
  <2>2. n \in 1 .. Len(down[x]) - 1
    BY <2>1
  <2>3. n + 1 \in 1 .. Len(down[x])
    BY ONLY <2>1, <2>2
  <2>4. down'[x][n] = down[x][n + 1]
    BY <2>1, <2>2
  <2> QED BY <2>3, <2>4 DEF OldFrame
<1> QED BY <1>1, <1>2

\* The host keeps what it has.
LEMMA CasGrows == ASSUME [Next]_vars PROVE hostCas \subseteq hostCas'
<1> USE DEF workerVars, hostVars
<1>1. ASSUME NEW j \in Jobs, Worker(j) PROVE hostCas' = hostCas
  BY <1>1 DEF Worker, Dispatch, Begin, Claim, WriteFail, WriteBlob, WriteJob, Rollback, GiveUp,
              Replied
<1>2. ASSUME Connecting PROVE hostCas' = hostCas
  BY <1>2 DEF Connecting, ConnStart, ConnUp, ConnFail
<1>3. ASSUME NEW c \in Conns, Reader(c) \/ Break(c) PROVE hostCas' = hostCas
  BY <1>3 DEF Reader, ReadFrame, ReadEnd, Break
<1>4. ASSUME NEW c \in Conns, Service(c) PROVE hostCas \subseteq hostCas'
  BY <1>4 DEF Service, SvcRead, SvcEof, SvcGone
<1>5. ASSUME NEW i \in insts, Running(i) PROVE hostCas \subseteq hostCas'
  BY <1>5 DEF Running, JobStart, JobOk, JobFail, JobLeave
<1> QED BY <1>1, <1>2, <1>3, <1>4, <1>5 DEF Next, vars

\* What a step adds to the pipes to the controller is true.
LEMMA SpokenTrue ==
    ASSUME Typed, LinkFacts, HostTruthful, [Next]_vars,
           NEW x \in Conns, NEW n \in 1 .. Len(down'[x])
    PROVE  OldFrame(x, n) \/ \E f : f = down'[x][n] /\ TrueFrame(f)'
<1> USE DEF workerVars, hostVars
<1>0. UNCHANGED down => OldFrame(x, n)
  BY DEF OldFrame
<1>1. ASSUME NEW j \in Jobs, Worker(j) PROVE OldFrame(x, n)
  <2>1. CASE GiveUp(j)
    <3>1. wProc[j] \in Conns /\ Ended(wProc[j])
      BY <2>1, PipeTypes DEF GiveUp, LostConn, Engaged
    <3> QED BY <3>1, EndedFrames
  <2>2. CASE ~GiveUp(j)
    BY <1>0, <1>1, <2>2 DEF Worker, Dispatch, Begin, Claim, WriteFail, WriteBlob, WriteJob,
                            Rollback, Replied
  <2> QED BY <2>1, <2>2
<1>2. ASSUME Connecting PROVE OldFrame(x, n) \/ \E f : f = down'[x][n] /\ TrueFrame(f)'
  <2>1. CASE ConnStart /\ sent = {}
    <3>1. down' = [down EXCEPT ![conns + 1] = <<Have({})>>]
      BY <2>1 DEF ConnStart
    <3>2. CASE x = conns + 1
      <4>1. down'[x] = <<Have({})>>
        BY <3>1, <3>2, PipeTypes
      <4>2. down'[x][n] = Have({})
        BY <4>1
      <4> QED BY <4>2 DEF TrueFrame, Have
    <3>3. CASE x # conns + 1
      <4>1. down'[x] = down[x]
        BY <3>1, <3>3, PipeTypes
      <4> QED BY <4>1 DEF OldFrame
    <3> QED BY <3>2, <3>3
  <2>2. CASE ConnStart /\ sent # {}
    BY <1>0, <2>2 DEF ConnStart
  <2>3. CASE ConnUp
    <3>1. conns \in Conns /\ down[conns] # <<>> /\ down' = [down EXCEPT ![conns] = Tail(@)]
      BY <2>3, PipeTypes DEF ConnUp, LinkFacts, Links
    <3> QED BY <3>1, TailFrames
  <2>4. CASE ConnFail
    BY <1>0, <2>4 DEF ConnFail
  <2> QED BY <1>2, <2>1, <2>2, <2>3, <2>4 DEF Connecting
<1>3. ASSUME NEW c \in Conns, Reader(c) \/ Break(c) PROVE OldFrame(x, n)
  <2>1. CASE ReadFrame(c)
    BY <2>1, TailFrames DEF ReadFrame
  <2>2. CASE ReadEnd(c) \/ Break(c)
    BY <2>2, EndedFrames DEF ReadEnd, Break, LostConn
  <2> QED BY <1>3, <2>1, <2>2 DEF Reader
<1>4. ASSUME NEW c \in Conns, Service(c)
      PROVE  OldFrame(x, n) \/ \E f : f = down'[x][n] /\ TrueFrame(f)'
  <2> DEFINE h == Have(Head(up[c]).ds \cap hostCas)
  <2>1. UNCHANGED down \/ (Written(c, <<h>>) /\ hostCas' = hostCas)
    BY <1>4 DEF Service, SvcRead, SvcEof, SvcGone
  <2>2. h \in Frames
    BY FrameMade DEF Typed, TypeOK
  <2>3. h.t = "have" /\ h.ds \subseteq hostCas
    BY DEF Have
  <2> HIDE DEF h
  <2>4. CASE Written(c, <<h>>) /\ hostCas' = hostCas
    <3>1. <<h>> \in Seq(Frames)
      BY <2>2
    <3>2. OldFrame(x, n) \/ \E k \in 1 .. Len(<<h>>) : down'[x][n] = <<h>>[k]
      BY <2>4, <3>1, WrittenFrames
    <3>3. OldFrame(x, n) \/ down'[x][n] = h
      BY <3>2
    <3> QED BY <2>3, <2>4, <3>3 DEF TrueFrame
  <2> QED BY <1>0, <2>1, <2>4
<1>5. ASSUME NEW i \in insts, Running(i)
      PROVE  OldFrame(x, n) \/ \E f : f = down'[x][n] /\ TrueFrame(f)'
  <2>0. /\ i.c \in Conns /\ i.j \in Jobs /\ Output[i.j] \in Digests /\ hostCas \subseteq Digests
        /\ Inputs[i.j] \in SUBSET Digests
    BY PipeTypes, JobsAssumption DEF Typed, TypeOK
  <2> DEFINE m == Missing(i.j, Inputs[i.j] \ hostCas)
             b == Blob(Output[i.j])
             r == Result(i.j, 0)
             e == Result(i.j, 1)
  <2>1. \/ UNCHANGED down
        \/ Written(i.c, <<m>>) \/ Written(i.c, <<e>>)
        \/ Written(i.c, <<b, r>>) /\ Output[i.j] \in hostCas'
    BY <1>5 DEF Running, JobStart, JobOk, JobFail, JobLeave, Batch
  <2>2. m \in Frames /\ b \in Frames /\ r \in Frames /\ e \in Frames
    BY <2>0, FrameMade
  <2>3. /\ m.t = "missing" /\ b.t = "blob" /\ r.t = "result" /\ r.j = i.j
        /\ e.t = "result" /\ e.rc = 1
    BY DEF Missing, Blob, Result
  <2> HIDE DEF m, b, r, e
  <2>4. \A f \in {m, e} : Written(i.c, <<f>>) => OldFrame(x, n) \/ down'[x][n] = f
    <3>1. ASSUME NEW f \in {m, e}, Written(i.c, <<f>>), ~OldFrame(x, n) PROVE down'[x][n] = f
      <4>1. <<f>> \in Seq(Frames) /\ \A k \in 1 .. Len(<<f>>) : <<f>>[k] = f
        BY <2>2
      <4>2. \E k \in 1 .. Len(<<f>>) : down'[x][n] = <<f>>[k]
        BY <2>0, <3>1, <4>1, WrittenFrames
      <4> QED BY <4>1, <4>2
    <3> QED BY <3>1
  <2>5. Written(i.c, <<b, r>>) => OldFrame(x, n) \/ down'[x][n] \in {b, r}
    <3>1. <<b, r>> \in Seq(Frames)
      BY <2>2
    <3>2. Written(i.c, <<b, r>>) =>
            OldFrame(x, n) \/ \E k \in 1 .. Len(<<b, r>>) : down'[x][n] = <<b, r>>[k]
      BY <2>0, <3>1, WrittenFrames
    <3>3. \A k \in 1 .. Len(<<b, r>>) : <<b, r>>[k] \in {b, r}
      OBVIOUS
    <3>4. ASSUME Written(i.c, <<b, r>>), ~OldFrame(x, n) PROVE down'[x][n] \in {b, r}
      <4>1. PICK k \in 1 .. Len(<<b, r>>) : down'[x][n] = <<b, r>>[k]
        BY <3>2, <3>4
      <4> QED BY <3>3, <4>1
    <3> QED BY <3>4
  <2>6. CASE Written(i.c, <<m>>) \/ Written(i.c, <<e>>)
    BY <2>3, <2>4, <2>6 DEF TrueFrame
  <2>7. CASE Written(i.c, <<b, r>>) /\ Output[i.j] \in hostCas'
    BY <2>3, <2>5, <2>7 DEF TrueFrame
  <2> QED BY <1>0, <2>1, <2>6, <2>7
<1>6. CASE UNCHANGED vars
  BY <1>0, <1>6 DEF vars
<1> QED BY <1>1, <1>2, <1>3, <1>4, <1>5, <1>6 DEF Next

\* A reply changes to none, to the loss of the connection, or to a frame read.
LEMMA RepliesFrom ==
    ASSUME Typed, [Next]_vars, NEW j \in Jobs
    PROVE  \/ wReply'[j] = wReply[j] \/ wReply'[j] = NoReply \/ wReply'[j] = Lost
           \/ \E c \in Conns : /\ ReadFrame(c) /\ down[c] # <<>>
                               /\ wReply'[j] = Head(down[c])
                               /\ Head(down[c]).j = j /\ Head(down[c]).t \in {"result", "missing"}
<1> USE DEF workerVars, hostVars
<1>0. wReply \in [Jobs -> Replies]
  BY DEF Typed, TypeOK
<1>a. \A c : LostConn(c) => wReply'[j] = wReply[j] \/ wReply'[j] = Lost
  BY <1>0 DEF LostConn, Told
<1>1. ASSUME NEW k \in Jobs, Worker(k)
      PROVE  wReply'[j] = wReply[j] \/ wReply'[j] = NoReply \/ wReply'[j] = Lost
  BY <1>0, <1>1, <1>a DEF Worker, Dispatch, Begin, Claim, WriteFail, WriteBlob, WriteJob, Rollback,
                          GiveUp, Replied
<1>2. ASSUME Connecting PROVE wReply' = wReply
  BY <1>2 DEF Connecting, ConnStart, ConnUp, ConnFail
<1>3. ASSUME NEW c \in Conns, ReadFrame(c)
      PROVE  \/ wReply'[j] = wReply[j]
             \/ /\ down[c] # <<>> /\ wReply'[j] = Head(down[c])
                /\ Head(down[c]).j = j /\ Head(down[c]).t \in {"result", "missing"}
  BY <1>0, <1>3 DEF ReadFrame
<1>4. ASSUME NEW c \in Conns, ReadEnd(c) PROVE wReply'[j] = wReply[j] \/ wReply'[j] = Lost
  BY <1>4, <1>a DEF ReadEnd
<1>5. ASSUME NEW c \in Conns, Service(c) \/ Break(c) PROVE wReply' = wReply
  BY <1>5 DEF Service, SvcRead, SvcEof, SvcGone, Break
<1>6. ASSUME NEW i \in insts, Running(i) PROVE wReply' = wReply
  BY <1>6 DEF Running, JobStart, JobOk, JobFail, JobLeave
<1> QED BY <1>1, <1>2, <1>3, <1>4, <1>5, <1>6 DEF Next, Reader, vars

LEMMA TruthStep ==
    ASSUME Typed, LinkFacts, HostTruthful, [Next]_vars
    PROVE  HostTruthful'
<1>0. \A f : TrueFrame(f) => TrueFrame(f)'
  BY CasGrows DEF TrueFrame
<1>1. ASSUME NEW x \in Conns, NEW n \in 1 .. Len(down'[x])
      PROVE  \E f : f = down'[x][n] /\ TrueFrame(f)'
  <2>1. CASE OldFrame(x, n)
    BY <1>0, <2>1 DEF OldFrame, HostTruthful
  <2> QED BY <2>1, SpokenTrue
<1>2. ASSUME NEW j \in Jobs
      PROVE  /\ wReply'[j].t = "result" => wReply'[j].j = j
             /\ \E f : f = wReply'[j] /\ TrueFrame(f)'
  <2>1. CASE wReply'[j] = wReply[j]
    BY <1>0, <2>1 DEF HostTruthful
  <2>2. CASE wReply'[j] = NoReply \/ wReply'[j] = Lost
    BY <2>2 DEF NoReply, Lost, TrueFrame
  <2>3. CASE \E c \in Conns : /\ down[c] # <<>> /\ wReply'[j] = Head(down[c])
                              /\ Head(down[c]).j = j
    <3>1. PICK c \in Conns : /\ down[c] # <<>> /\ wReply'[j] = Head(down[c])
                             /\ Head(down[c]).j = j
      BY <2>3
    <3>2. Head(down[c]) = down[c][1] /\ Len(down[c]) \in Nat \ {0}
      BY <3>1, PipeTypes, TailIsRest
    <3>3. 1 \in 1 .. Len(down[c])
      BY <3>2
    <3> QED BY <1>0, <3>1, <3>2, <3>3 DEF HostTruthful
  <2> QED BY <2>1, <2>2, <2>3, RepliesFrom
<1> QED BY <1>1, <1>2 DEF HostTruthful, TrueFrame

LEMMA TruthInit == Init => HostTruthful
BY DEF Init, HostTruthful, TrueFrame, NoReply

-----------------------------------------------------------------------------
(* The ledger.                                                             *)

LEMMA BlobsTail ==
    ASSUME NEW s \in Seq(Frames), s # <<>>, NEW d \in BlobsOf(s)
    PROVE  d \in BlobsOf(Tail(s)) \/ (Head(s).t = "blob" /\ Head(s).d = d)
<1>1. PICK n \in 1 .. Len(s) : s[n].t = "blob" /\ s[n].d = d
  BY DEF BlobsOf
<1>2. /\ Len(Tail(s)) = Len(s) - 1 /\ Head(s) = s[1] /\ Len(s) \in Nat \ {0}
      /\ \A k \in 1 .. Len(s) - 1 : Tail(s)[k] = s[k + 1]
  BY TailIsRest
<1>3. CASE n = 1
  BY <1>1, <1>2, <1>3
<1>4. CASE n # 1
  <2>1. n - 1 \in 1 .. Len(s) - 1
    BY <1>2, <1>4
  <2>2. Tail(s)[n - 1] = s[n]
    BY <1>2, <2>1
  <2> QED BY <1>1, <1>2, <2>1, <2>2 DEF BlobsOf
<1> QED BY <1>3, <1>4

LEMMA BlobsAppend ==
    ASSUME NEW s \in Seq(Frames), NEW f \in Frames
    PROVE  /\ BlobsOf(s) \subseteq BlobsOf(Append(s, f))
           /\ f.t = "blob" => f.d \in BlobsOf(Append(s, f))
           /\ \A d \in BlobsOf(Append(s, f)) : d \in BlobsOf(s) \/ (f.t = "blob" /\ d = f.d)
<1> DEFINE r == Append(s, f)
<1>1. /\ Len(r) = Len(s) + 1 /\ Len(s) \in Nat /\ r[Len(s) + 1] = f
      /\ \A n \in 1 .. Len(s) : r[n] = s[n]
  OBVIOUS
<1> HIDE DEF r
<1>2. ASSUME NEW d \in BlobsOf(s) PROVE d \in BlobsOf(r)
  <2>1. PICK n \in 1 .. Len(s) : s[n].t = "blob" /\ s[n].d = d
    BY DEF BlobsOf
  <2>2. n \in 1 .. Len(r) /\ r[n] = s[n]
    BY <1>1
  <2> QED BY <2>1, <2>2 DEF BlobsOf
<1>3. f.t = "blob" => f.d \in BlobsOf(r)
  <2>1. Len(s) + 1 \in 1 .. Len(r)
    BY <1>1
  <2> QED BY <1>1, <2>1 DEF BlobsOf
<1>4. ASSUME NEW d \in BlobsOf(r) PROVE d \in BlobsOf(s) \/ (f.t = "blob" /\ d = f.d)
  <2>1. PICK n \in 1 .. Len(r) : r[n].t = "blob" /\ r[n].d = d
    BY DEF BlobsOf
  <2>2. n \in 1 .. Len(s) \/ n = Len(s) + 1
    BY <1>1
  <2> QED BY <1>1, <2>1, <2>2 DEF BlobsOf
<1> QED BY <1>2, <1>3, <1>4 DEF r

LEMMA CoveredInit == Init => Covered
BY DEF Init, Covered

LEMMA CoveredWorker ==
    ASSUME Typed, LinkFacts, HostTruthful, Covered, NEW j \in Jobs, Worker(j)
    PROVE  Covered'
<1> USE PipeTypes DEF workerVars, hostVars
<1>a. /\ wPc \in [Jobs -> WorkerStates] /\ wTodo \in [Jobs -> SUBSET Digests]
      /\ wNeeded \in [Jobs -> SUBSET Digests]
  BY DEF Typed, TypeOK
<1>b. CASE ~(process' # 0 /\ alive'[process'])
  BY <1>b DEF Covered
<1>c. CASE process' # 0 /\ alive'[process'] /\ ~GiveUp(j)
  <2>0. process' = process /\ alive' = alive /\ hostCas' = hostCas /\ process \in Conns
    BY <1>c DEF Worker, Dispatch, Begin, Claim, WriteFail, WriteBlob, WriteJob, Rollback, Replied
  <2>1. \A d \in sent : d \in hostCas \/ d \in BlobsOf(up[process]) \/ Owes(d)
    BY <1>c, <2>0 DEF Covered
  <2>2. SUFFICES \A d \in sent' : d \in hostCas \/ d \in BlobsOf(up'[process]) \/ Owes(d)'
    BY <2>0 DEF Covered
  <2>3. \A d : /\ Owes(d) => d \in Owed(j) \/ Owes(d)'
               /\ d \in Owed(j)' => Owes(d)'
    <3>1. ASSUME NEW k \in Jobs, k # j PROVE Owed(k)' = Owed(k)
      BY <1>a, <2>0, <3>1, <1>c DEF Worker, Dispatch, Begin, Claim, WriteFail, WriteBlob, WriteJob,
                                 Rollback, Replied, Owed
    <3> QED BY <3>1 DEF Owes
  <2>4. CASE Dispatch(j) \/ Begin(j)
    <3>1. Owed(j) = {}
      BY <2>4 DEF Dispatch, Begin, Owed
    <3>2. sent' = sent /\ up' = up
      BY <2>4 DEF Dispatch, Begin
    <3> QED BY <2>1, <2>3, <3>1, <3>2
  <2>5. CASE Claim(j)
    <3>1. Owed(j) = {} /\ up' = up /\ sent' = sent \cup (Inputs[j] \ sent)
      BY <2>5 DEF Claim, Owed, Claimed
    <3>2. Owed(j)' = Inputs[j] \ sent
      BY <1>a, <2>5 DEF Claim, Owed
    <3> QED BY <2>1, <2>3, <3>1, <3>2
  <2>6. CASE WriteFail(j)
    <3>1. wProc[j] # process /\ sent' = sent /\ up' = up
      BY <1>c, <2>0, <2>6 DEF WriteFail
    <3>2. Owed(j)' = Owed(j)
      BY <1>a, <2>0, <2>6, <3>1 DEF WriteFail, Owed
    <3> QED BY <2>1, <2>3, <3>1, <3>2
  <2>7. CASE WriteBlob(j)
    <3>1. PICK d \in wTodo[j] : /\ up' = [up EXCEPT ![wProc[j]] = Append(@, Blob(d))]
                                /\ wTodo' = [wTodo EXCEPT ![j] = @ \ {d}]
      BY <2>7 DEF WriteBlob
    <3>2. wProc[j] = process /\ sent' = sent
      <4>1. wProc[j] \in Conns /\ alive[wProc[j]]
        BY <2>7 DEF WriteBlob, Engaged
      <4> QED BY <1>c, <2>0, <2>7, <4>1 DEF WriteBlob, LinkFacts, Links
    <3>3. Owed(j) = wTodo[j] /\ Owed(j)' = wTodo[j] \ {d}
      BY <1>a, <2>0, <2>7, <3>1, <3>2 DEF WriteBlob, Owed
    <3>4. up'[process] = Append(up[process], Blob(d)) /\ Blob(d) \in Frames
      BY <1>a, <2>0, <3>1, <3>2, FrameMade
    <3>5. BlobsOf(up[process]) \subseteq BlobsOf(up'[process]) /\ d \in BlobsOf(up'[process])
      BY <2>0, <3>4, BlobsAppend DEF Blob
    <3> QED BY <2>1, <2>3, <3>2, <3>3, <3>5
  <2>8. CASE WriteJob(j)
    <3>1. wProc[j] = process /\ sent' = sent /\ wTodo[j] = {}
      <4>1. wProc[j] \in Conns /\ alive[wProc[j]]
        BY <2>8 DEF WriteJob, Engaged
      <4> QED BY <1>c, <2>0, <2>8, <4>1 DEF WriteJob, LinkFacts, Links
    <3>2. Owed(j) = {}
      BY <2>8, <3>1 DEF WriteJob, Owed
    <3>3. up'[process] = Append(up[process], Job(j)) /\ Job(j) \in Frames
      BY <2>0, <2>8, <3>1, FrameMade DEF WriteJob
    <3>4. BlobsOf(up[process]) \subseteq BlobsOf(up'[process])
      BY <2>0, <3>3, BlobsAppend
    <3> QED BY <2>1, <2>3, <3>1, <3>2, <3>4
  <2>9. CASE Rollback(j)
    <3>1. sent' = sent \ wNeeded[j] /\ up' = up /\ Owed(j) = wNeeded[j]
      BY <2>9 DEF Rollback, Owed, RolledBack
    <3> QED BY <2>1, <2>3, <3>1
  <2>10. CASE Replied(j)
    <3>1. Owed(j) = {} /\ up' = up
      BY <2>10 DEF Replied, Owed
    <3>2. \A d \in sent' : d \in sent \/ d \in hostCas
      <4>1. wReply[j] \in Replies /\ (wReply[j].t = "result" => wReply[j].j = j)
            /\ TrueFrame(wReply[j])
        BY DEF HostTruthful, Typed, TypeOK
      <4>2. \/ sent' = sent \/ sent' = sent \ wReply[j].ds
            \/ wReply[j].t = "result" /\ wReply[j].rc = 0 /\ sent' = sent \cup {Output[j]}
        BY <2>10 DEF Replied, NotSent
      <4> QED BY <4>1, <4>2 DEF TrueFrame
    <3> QED BY <2>1, <2>3, <3>1, <3>2
  <2> QED BY <1>c, <2>4, <2>5, <2>6, <2>7, <2>8, <2>9, <2>10 DEF Worker
<1>d. CASE process' # 0 /\ alive'[process'] /\ GiveUp(j)
  <2>1. wProc[j] \in Conns /\ LostConn(wProc[j])
    BY <1>d DEF GiveUp, Engaged
  <2>2. process' = process /\ wProc[j] # process
    BY <1>d, <2>1 DEF LostConn
  <2>3. alive[process] /\ up'[process] = up[process] /\ process \in Conns
    BY <1>d, <2>1, <2>2, EndedEffect DEF LostConn, Typed
  <2>4. ASSUME NEW k \in Jobs PROVE Owed(k)' = Owed(k)
    BY <1>a, <1>d, <2>2 DEF GiveUp, Owed
  <2>5. sent' = sent /\ hostCas' = hostCas
    BY <1>d DEF GiveUp
  <2> QED BY <1>d, <2>2, <2>3, <2>4, <2>5 DEF Covered, Owes
<1> QED BY <1>b, <1>c, <1>d

LEMMA CoveredStep ==
    ASSUME Typed, LinkFacts, HostTruthful, Covered, [Next]_vars
    PROVE  Covered'
<1> USE PipeTypes DEF workerVars, hostVars
\* The connection, the ledger and the claims stay; what was on the connection is
\* there still, or has been read.
<1>0. ASSUME UNCHANGED <<process, sent, wPc, wProc, wTodo, wNeeded>>,
             process # 0 /\ alive'[process] => alive[process],
             process # 0 /\ alive'[process] =>
                \A d \in BlobsOf(up[process]) : d \in BlobsOf(up'[process]) \/ d \in hostCas'
      PROVE  Covered'
  <2>1. \A d : Owes(d)' <=> Owes(d)
    BY <1>0 DEF Owes, Owed
  <2> QED BY <1>0, <2>1, CasGrows DEF Covered
<1>1. ASSUME Connecting PROVE Covered'
  <2>1. CASE ConnStart \/ ConnFail
    <3>1. process' = 0
      BY <2>1 DEF ConnStart, ConnFail, LinkFacts, Links
    <3> QED BY <3>1 DEF Covered
  <2>2. CASE ConnUp
    <3>1. conns \in Conns /\ down[conns] # <<>> /\ connPc = "have"
      BY <2>2 DEF ConnUp, LinkFacts, Links
    <3>2. /\ Head(down[conns]) = down[conns][1] /\ 1 \in 1 .. Len(down[conns])
      BY <3>1, TailIsRest
    <3>3. down[conns][1].t = "have" /\ TrueFrame(down[conns][1])
      BY <3>1, <3>2 DEF LinkFacts, Greeting, HostTruthful
    <3>4. sent' \subseteq hostCas /\ hostCas' = hostCas
      BY <2>2, <3>2, <3>3 DEF ConnUp, Kept, TrueFrame
    <3> QED BY <3>4 DEF Covered
  <2> QED BY <1>1, <2>1, <2>2 DEF Connecting
<1>2. ASSUME NEW c \in Conns, ReadEnd(c) PROVE Covered'
  <2>1. LostConn(c) /\ UNCHANGED <<sent, wPc, wProc, wTodo, wNeeded, hostCas>>
    BY <1>2 DEF ReadEnd
  <2>2. CASE process = c
    <3>1. process' = 0
      BY <2>1, <2>2 DEF LostConn
    <3> QED BY <3>1 DEF Covered
  <2>3. CASE process # c
    <3>1. process' = process /\ Ended(c)
      BY <2>1, <2>3 DEF LostConn
    <3>2. process # 0 => alive'[process] = alive[process] /\ up'[process] = up[process]
      BY <2>3, <3>1, EndedEffect DEF Typed
    <3> QED BY <1>0, <2>1, <3>1, <3>2
  <2> QED BY <2>2, <2>3
<1>3. ASSUME NEW c \in Conns, ReadFrame(c) PROVE Covered'
  BY <1>3, <1>0 DEF ReadFrame
<1>4. ASSUME NEW c \in Conns, Break(c) PROVE Covered'
  <2>1. Ended(c) /\ UNCHANGED <<process, sent, wPc, wProc, wTodo, wNeeded, hostCas>>
    BY <1>4 DEF Break
  <2>2. process # 0 /\ alive'[process] => alive[process] /\ up'[process] = up[process]
    BY <2>1, EndedEffect DEF Typed
  <2> QED BY <1>0, <2>1, <2>2
<1>5. ASSUME NEW c \in Conns, Service(c) PROVE Covered'
  <2>1. UNCHANGED <<process, sent, wPc, wProc, wTodo, wNeeded, alive>>
    BY <1>5 DEF Service, SvcRead, SvcEof, SvcGone
  <2>2. ASSUME process # 0, NEW d \in BlobsOf(up[process])
        PROVE  d \in BlobsOf(up'[process]) \/ d \in hostCas'
    <3>1. CASE SvcRead(c) /\ c = process
      <4>1. up[process] # <<>> /\ up'[process] = Tail(up[process])
        BY <3>1 DEF SvcRead
      <4>2. d \in BlobsOf(Tail(up[process])) \/ (Head(up[process]).t = "blob" /\ Head(up[process]).d = d)
        BY <2>2, <4>1, BlobsTail
      <4>3. Head(up[process]).t = "blob" => Head(up[process]).d \in hostCas'
        BY <3>1 DEF SvcRead, Cut
      <4> QED BY <4>1, <4>2, <4>3
    <3>2. CASE ~(SvcRead(c) /\ c = process)
      <4>1. up'[process] = up[process]
        BY <1>5, <2>2, <3>2 DEF Service, SvcRead, SvcEof, SvcGone
      <4> QED BY <2>2, <4>1
    <3> QED BY <3>1, <3>2
  <2> QED BY <1>0, <2>1, <2>2
<1>6. ASSUME NEW i \in insts, Running(i) PROVE Covered'
  BY <1>6, <1>0 DEF Running, JobStart, JobOk, JobFail, JobLeave
<1>7. CASE UNCHANGED vars
  BY <1>7, <1>0 DEF vars
<1> QED BY <1>1, <1>2, <1>3, <1>4, <1>5, <1>6, <1>7, CoveredWorker DEF Next, Reader

HostInv == Typed /\ LinkFacts /\ HostTruthful /\ Covered

LEMMA HostInvStep == HostInv /\ [Next]_vars => HostInv'
<1>1. LinkFacts => Links /\ Greeting
  BY DEF LinkFacts
<1> QED BY <1>1, TypedStep, LinksStep, TruthStep, CoveredStep DEF HostInv

LEMMA HostInvInit == Init => HostInv
BY TypedInit, LinksInit, TruthInit, CoveredInit DEF HostInv

(* The inductive invariant holds in every state.                            *)
THEOREM HostInvariant == Spec => []HostInv
BY HostInvInit, HostInvStep, PTL DEF Spec

(* Between writes RemoteHost.sent names only digests the host has or is     *)
(* about to read, whatever writes failed and connections were lost before:  *)
(* for any jobs, inputs and number of connections.                          *)
THEOREM LedgerIsHonest == Spec => []LedgerHonest
<1>1. HostInv => LedgerHonest
  <2>1. ASSUME \A j \in Jobs : wPc[j] \notin {"write", "rollback"} PROVE \A d : ~Owes(d)
    BY <2>1 DEF Owes, Owed
  <2> QED BY <2>1 DEF HostInv, Typed, Covered, LedgerHonest
<1> QED BY <1>1, HostInvariant, PTL

-----------------------------------------------------------------------------
(* Outputs come before results.                                            *)

\* On a pipe whose frames keep their places nothing changes but what is new.
LEMMA ComesKept ==
    ASSUME Typed, OutputsFirst, localCas \subseteq localCas', NEW x \in Conns,
           NEW n \in 1 .. Len(down[x]), \A m \in 1 .. n : down'[x][m] = down[x][m]
    PROVE  OutputComes(x, n)'
<1>1. /\ Len(down[x]) \in Nat /\ OutputComes(x, n) /\ n \in 1 .. n
      /\ \A m \in 1 .. n - 1 : m \in 1 .. n
  BY PipeTypes DEF OutputsFirst
<1>2. down'[x][n] = down[x][n] /\ \A m \in 1 .. n - 1 : down'[x][m] = down[x][m]
  BY <1>1
<1> QED BY <1>1, <1>2 DEF OutputComes

\* A frame read that is no blob, or a blob that is in the cache now, is not missed.
LEMMA ComesTail ==
    ASSUME Typed, OutputsFirst, localCas \subseteq localCas', NEW c \in Conns, down[c] # <<>>,
           down' = [down EXCEPT ![c] = Tail(@)],
           Head(down[c]).t = "blob" => Head(down[c]).d \in localCas',
           NEW x \in Conns, NEW n \in 1 .. Len(down'[x])
    PROVE  OutputComes(x, n)'
<1>1. CASE x # c
  <2>1. down'[x] = down[x] /\ Len(down[x]) \in Nat
    BY <1>1, PipeTypes
  <2> QED BY <2>1, ComesKept
<1>2. CASE x = c
  <2>1. /\ down'[x] = Tail(down[x]) /\ Len(Tail(down[x])) = Len(down[x]) - 1
        /\ Len(down[x]) \in Nat \ {0} /\ Head(down[x]) = down[x][1]
        /\ \A k \in 1 .. Len(down[x]) - 1 : Tail(down[x])[k] = down[x][k + 1]
    BY <1>2, PipeTypes, TailIsRest
  <2>2. n \in 1 .. Len(down[x]) - 1
    BY <2>1
  <2>3. n + 1 \in 1 .. Len(down[x]) /\ n \in Nat
    BY ONLY <2>1, <2>2
  <2>4. down'[x][n] = down[x][n + 1]
    BY <2>1, <2>2
  <2>5. OutputComes(x, n + 1)
    BY <2>3 DEF OutputsFirst
  <2>6. SUFFICES ASSUME down'[x][n].t = "result", down'[x][n].rc = 0,
                        Output[down'[x][n].j] \notin localCas'
                 PROVE  \E m \in 1 .. n - 1 : down'[x][m] = Blob(Output[down'[x][n].j])
    BY DEF OutputComes
  <2>7. PICK m \in 1 .. (n + 1) - 1 : down[x][m] = Blob(Output[down'[x][n].j])
    BY <2>4, <2>5, <2>6 DEF OutputComes
  <2>8. m # 1
    BY <1>2, <2>1, <2>6, <2>7 DEF Blob
  <2>9. m - 1 \in 1 .. n - 1 /\ m - 1 \in 1 .. Len(down[x]) - 1 /\ (m - 1) + 1 = m
    BY ONLY <2>1, <2>2, <2>7, <2>8
  <2>10. down'[x][m - 1] = down[x][m]
    BY <2>1, <2>9
  <2> QED BY <2>7, <2>9, <2>10
<1> QED BY <1>1, <1>2

\* What a service writes without a result of a command that succeeded.
LEMMA ComesWritten ==
    ASSUME Typed, OutputsFirst, localCas' = localCas, NEW c \in Conns,
           NEW f \in Frames, ~(f.t = "result" /\ f.rc = 0), Written(c, <<f>>),
           NEW x \in Conns, NEW n \in 1 .. Len(down'[x])
    PROVE  OutputComes(x, n)'
<1>0. /\ <<f>> \in Seq(Frames) /\ TypeOK /\ down[x] \in Seq(Frames)
  BY PipeTypes DEF Typed
<1>1. /\ Len(down[x]) <= Len(down'[x])
      /\ \A m \in 1 .. Len(down[x]) : down'[x][m] = down[x][m]
      /\ x # c \/ ~alive[c] => down'[x] = down[x]
      /\ x = c /\ alive[c] => down'[x] = down[x] \o <<f>>
  BY <1>0, WrittenEffect
<1>2. CASE n \in 1 .. Len(down[x])
  <2>1. \A m \in 1 .. n : m \in 1 .. Len(down[x])
    BY <1>0, <1>2
  <2> QED BY <1>1, <1>2, <2>1, ComesKept
<1>3. CASE n \notin 1 .. Len(down[x])
  <2>1. down'[x] = down[x] \o <<f>>
    BY <1>1, <1>3
  <2>2. Len(down'[x]) = Len(down[x]) + 1 /\ down'[x][Len(down[x]) + 1] = f /\ Len(down[x]) \in Nat
    BY <1>0, <2>1
  <2>3. n = Len(down[x]) + 1
    BY <1>3, <2>2
  <2> QED BY <2>2, <2>3 DEF OutputComes
<1> QED BY <1>2, <1>3

LEMMA ComesBatch ==
    ASSUME Typed, OutputsFirst, localCas' = localCas, NEW c \in Conns,
           NEW j \in Jobs, Written(c, Batch(j)),
           NEW x \in Conns, NEW n \in 1 .. Len(down'[x])
    PROVE  OutputComes(x, n)'
<1> DEFINE b == Blob(Output[j])
           r == Result(j, 0)
<1>0. /\ <<b, r>> \in Seq(Frames) /\ TypeOK /\ down[x] \in Seq(Frames)
  <2>1. b \in Frames /\ r \in Frames
    BY FrameMade, JobsAssumption
  <2> QED BY <2>1, PipeTypes DEF Typed
<1>a. r.j = j /\ b.t = "blob"
  BY DEF Result, Blob
<1>b. Written(c, <<b, r>>)
  BY DEF Batch
<1> HIDE DEF r
<1>1. /\ Len(down[x]) <= Len(down'[x])
      /\ \A m \in 1 .. Len(down[x]) : down'[x][m] = down[x][m]
      /\ x # c \/ ~alive[c] => down'[x] = down[x]
      /\ x = c /\ alive[c] => down'[x] = down[x] \o <<b, r>>
  <2> HIDE DEF b
  <2> QED BY <1>0, <1>b, WrittenEffect
<1>2. CASE n \in 1 .. Len(down[x])
  <2>1. \A m \in 1 .. n : m \in 1 .. Len(down[x])
    BY <1>0, <1>2
  <2> QED BY <1>1, <1>2, <2>1, ComesKept
<1>3. CASE n \notin 1 .. Len(down[x])
  <2>1. down'[x] = down[x] \o <<b, r>>
    BY <1>1, <1>3
  <2>2. /\ Len(down'[x]) = Len(down[x]) + 2 /\ down'[x][Len(down[x]) + 1] = b
        /\ down'[x][Len(down[x]) + 2] = r /\ Len(down[x]) \in Nat
    <3> HIDE DEF b
    <3> QED BY <1>0, <2>1
  <2>3. n = Len(down[x]) + 1 \/ n = Len(down[x]) + 2
    BY <1>3, <2>2
  <2>4. CASE n = Len(down[x]) + 1
    BY <1>a, <2>2, <2>4 DEF OutputComes
  <2>5. CASE n = Len(down[x]) + 2
    <3>1. Len(down[x]) + 1 \in 1 .. n - 1
      BY <2>2, <2>5
    <3> QED BY <1>a, <2>2, <2>5, <3>1 DEF OutputComes
  <2> QED BY <2>3, <2>4, <2>5
<1> QED BY <1>2, <1>3

LEMMA LocalGrows == ASSUME [Next]_vars PROVE localCas \subseteq localCas'
<1> USE DEF workerVars, hostVars
<1>1. ASSUME NEW j \in Jobs, Worker(j) PROVE localCas' = localCas
  BY <1>1 DEF Worker, Dispatch, Begin, Claim, WriteFail, WriteBlob, WriteJob, Rollback, GiveUp,
              Replied
<1>2. ASSUME Connecting PROVE localCas' = localCas
  BY <1>2 DEF Connecting, ConnStart, ConnUp, ConnFail
<1>3. ASSUME NEW c \in Conns, Reader(c) \/ Break(c) \/ Service(c) PROVE localCas \subseteq localCas'
  BY <1>3 DEF Reader, ReadFrame, ReadEnd, Break, Service, SvcRead, SvcEof, SvcGone
<1>4. ASSUME NEW i \in insts, Running(i) PROVE localCas' = localCas
  BY <1>4 DEF Running, JobStart, JobOk, JobFail, JobLeave
<1> QED BY <1>1, <1>2, <1>3, <1>4 DEF Next, vars

LEMMA ComesStep ==
    ASSUME HostInv, OutputsFirst, [Next]_vars, NEW x \in Conns, NEW n \in 1 .. Len(down'[x])
    PROVE  OutputComes(x, n)'
<1> USE DEF workerVars, hostVars
<1>0. Typed /\ LinkFacts /\ HostTruthful /\ localCas \subseteq localCas' /\ TypeOK
  BY LocalGrows DEF HostInv, Typed
<1>a. CASE UNCHANGED down
  <2>1. Len(down[x]) \in Nat
    BY <1>0, PipeTypes
  <2> QED BY <1>0, <1>a, <2>1, ComesKept
<1>b. ASSUME NEW c \in Conns, Ended(c) PROVE OutputComes(x, n)'
  <2>1. /\ Len(down'[x]) <= Len(down[x]) /\ Len(down[x]) \in Nat /\ Len(down'[x]) \in Nat
        /\ \A m \in 1 .. Len(down'[x]) : down'[x][m] = down[x][m]
    <3>1. down' \in [Conns -> Seq(Frames)]
      BY <1>0, <1>b, EndedEffect
    <3> QED BY <1>0, <1>b, <3>1, EndedEffect, PipeTypes
  <2>2. n \in 1 .. Len(down[x]) /\ \A m \in 1 .. n : m \in 1 .. Len(down'[x])
    BY <2>1
  <2> QED BY <1>0, <2>1, <2>2, ComesKept
<1>1. ASSUME NEW j \in Jobs, Worker(j) PROVE OutputComes(x, n)'
  <2>1. CASE GiveUp(j)
    <3>1. wProc[j] \in Conns /\ Ended(wProc[j])
      BY <1>0, <2>1, PipeTypes DEF GiveUp, LostConn, Engaged
    <3> QED BY <3>1, <1>b
  <2>2. CASE ~GiveUp(j)
    BY <1>a, <1>1, <2>2 DEF Worker, Dispatch, Begin, Claim, WriteFail, WriteBlob, WriteJob,
                            Rollback, Replied
  <2> QED BY <2>1, <2>2
<1>2. ASSUME Connecting PROVE OutputComes(x, n)'
  <2>1. CASE ConnStart /\ sent = {}
    <3>1. down' = [down EXCEPT ![conns + 1] = <<Have({})>>]
      BY <2>1 DEF ConnStart
    <3>2. CASE x = conns + 1
      <4>1. down'[x] = <<Have({})>>
        BY <1>0, <3>1, <3>2, PipeTypes
      <4>2. down'[x][n] = Have({})
        BY <4>1
      <4> QED BY <4>2 DEF OutputComes, Have
    <3>3. CASE x # conns + 1
      <4>1. down'[x] = down[x] /\ Len(down[x]) \in Nat
        BY <1>0, <3>1, <3>3, PipeTypes
      <4> QED BY <1>0, <4>1, ComesKept
    <3> QED BY <3>2, <3>3
  <2>2. CASE (ConnStart /\ sent # {}) \/ ConnFail
    BY <1>a, <2>2 DEF ConnStart, ConnFail
  <2>3. CASE ConnUp
    <3>1. /\ conns \in Conns /\ down[conns] # <<>> /\ down' = [down EXCEPT ![conns] = Tail(@)]
          /\ connPc = "have"
      BY <1>0, <2>3, PipeTypes DEF ConnUp, LinkFacts, Links
    <3>2. Head(down[conns]) = down[conns][1] /\ 1 \in 1 .. Len(down[conns])
      BY <1>0, <3>1, PipeTypes, TailIsRest
    <3>3. Head(down[conns]).t = "have"
      BY <1>0, <3>1, <3>2 DEF LinkFacts, Greeting
    <3> QED BY <1>0, <3>1, <3>3, ComesTail
  <2> QED BY <1>2, <2>1, <2>2, <2>3 DEF Connecting
<1>3. ASSUME NEW c \in Conns, Reader(c) \/ Break(c) PROVE OutputComes(x, n)'
  <2>1. CASE ReadFrame(c)
    <3>1. /\ down[c] # <<>> /\ down' = [down EXCEPT ![c] = Tail(@)]
          /\ Head(down[c]).t = "blob" => Head(down[c]).d \in localCas'
      BY <2>1 DEF ReadFrame
    <3> QED BY <1>0, <3>1, ComesTail
  <2>2. CASE ReadEnd(c) \/ Break(c)
    BY <1>b, <2>2 DEF ReadEnd, Break, LostConn
  <2> QED BY <1>3, <2>1, <2>2 DEF Reader
<1>4. ASSUME NEW c \in Conns, Service(c) PROVE OutputComes(x, n)'
  <2> DEFINE h == Have(Head(up[c]).ds \cap hostCas)
  <2>1. UNCHANGED down \/ (Written(c, <<h>>) /\ localCas' = localCas)
    BY <1>4 DEF Service, SvcRead, SvcEof, SvcGone
  <2>2. h \in Frames /\ h.t = "have"
    BY <1>0, FrameMade DEF Typed, TypeOK, Have
  <2> HIDE DEF h
  <2> QED BY <1>0, <1>a, <2>1, <2>2, ComesWritten
<1>5. ASSUME NEW i \in insts, Running(i) PROVE OutputComes(x, n)'
  <2>0. /\ i.c \in Conns /\ i.j \in Jobs /\ Output[i.j] \in Digests /\ hostCas \subseteq Digests
        /\ Inputs[i.j] \in SUBSET Digests
    BY <1>0, PipeTypes, JobsAssumption DEF Typed, TypeOK
  <2> DEFINE m == Missing(i.j, Inputs[i.j] \ hostCas)
             e == Result(i.j, 1)
  <2>1. /\ UNCHANGED localCas
        /\ \/ UNCHANGED down \/ Written(i.c, <<m>>) \/ Written(i.c, <<e>>)
           \/ Written(i.c, Batch(i.j))
    BY <1>5 DEF Running, JobStart, JobOk, JobFail, JobLeave
  <2>2. m \in Frames /\ e \in Frames
    BY <2>0, FrameMade
  <2>3. m.t = "missing" /\ e.rc = 1
    BY DEF Missing, Result
  <2> HIDE DEF m, e
  <2>4. CASE Written(i.c, <<m>>) \/ Written(i.c, <<e>>)
    BY <1>0, <2>0, <2>1, <2>2, <2>3, <2>4, ComesWritten
  <2>5. CASE Written(i.c, Batch(i.j))
    BY <1>0, <2>0, <2>1, <2>5, ComesBatch
  <2> QED BY <1>a, <2>1, <2>4, <2>5
<1>6. CASE UNCHANGED vars
  BY <1>a, <1>6 DEF vars
<1> QED BY <1>1, <1>2, <1>3, <1>4, <1>5, <1>6 DEF Next

LEMMA OutputsFirstStep ==
    ASSUME HostInv, OutputsFirst, [Next]_vars
    PROVE  OutputsFirst'
<1>0. Typed /\ HostTruthful /\ localCas \subseteq localCas'
  BY LocalGrows DEF HostInv
<1>1. ASSUME NEW j \in Jobs, wReply'[j].t = "result", wReply'[j].rc = 0
      PROVE  Output[j] \in localCas'
  <2>1. CASE wReply'[j] = wReply[j]
    BY <1>0, <1>1, <2>1 DEF OutputsFirst
  <2>2. CASE wReply'[j] = NoReply \/ wReply'[j] = Lost
    BY <1>1, <2>2 DEF NoReply, Lost
  <2>3. CASE \E c \in Conns : /\ down[c] # <<>> /\ wReply'[j] = Head(down[c])
                              /\ Head(down[c]).j = j
    <3>1. PICK c \in Conns : /\ down[c] # <<>> /\ wReply'[j] = Head(down[c])
                             /\ Head(down[c]).j = j
      BY <2>3
    <3>2. Head(down[c]) = down[c][1] /\ Len(down[c]) \in Nat \ {0}
      BY <1>0, <3>1, PipeTypes, TailIsRest
    <3>3. 1 \in 1 .. Len(down[c]) /\ \A m \in 1 .. 1 - 1 : FALSE
      BY <3>2
    <3>4. OutputComes(c, 1)
      BY <3>3 DEF OutputsFirst
    <3> QED BY <1>0, <1>1, <3>1, <3>2, <3>3, <3>4 DEF OutputComes
  <2> QED BY <1>0, <2>1, <2>2, <2>3, RepliesFrom
<1>2. \A c \in Conns : \A n \in 1 .. Len(down'[c]) : OutputComes(c, n)'
  BY ComesStep
<1> QED BY <1>1, <1>2 DEF OutputsFirst

(* A worker that holds a result without an error finds the output in the    *)
(* controller's cache, also when the result comes over a connection given   *)
(* up long ago: the host writes the output first and the reader keeps the   *)
(* order, whatever prefix of it arrives.                                    *)
THEOREM OutputsArrive == Spec => []OutputArrives
<1>1. Init => OutputsFirst
  BY DEF Init, OutputsFirst, NoReply
<1>2. HostInv /\ OutputsFirst /\ [Next]_vars => OutputsFirst'
  BY OutputsFirstStep
<1>3. OutputsFirst => OutputArrives
  BY DEF OutputsFirst, OutputArrives, Result
<1> QED BY <1>1, <1>2, <1>3, HostInvariant, PTL DEF Spec

-----------------------------------------------------------------------------
(* The first connection, while it lasts.                                   *)

\* Nothing has happened yet.
Fresh ==
    /\ sent = {} /\ hostCas = {} /\ lock = None /\ insts = {}
    /\ \A j \in Jobs : wPc[j] = "ready" /\ wReply[j].t # "missing"

FirstGreeting ==
    /\ connPc = "have" => Fresh /\ \A n \in 1 .. Len(down[1]) : down[1][n].ds = {}
    /\ connPc = "idle" => process = 1

\* Nobody gives up, the outputs of ended jobs are in the ledger, one worker at most
\* writes, and finds its inputs in the ledger.
FirstWorkers ==
    \A j \in Jobs :
        /\ wPc[j] \notin {"rollback", "lost"}
        /\ wPc[j] = "write" <=> lock = j
        /\ wPc[j] = "done" => Output[j] \in sent
        /\ wPc[j] # "ready" => \A k \in Deps(j) : wPc[k] = "done"
        /\ wPc[j] = "write" => Inputs[j] \subseteq sent /\ wTodo[j] \subseteq sent \cap Sources
        /\ wReply[j].t # "missing"

\* Nothing is handed back: the inputs of a job that waits in the pool are there.
FirstPool ==
    /\ \A i \in insts : i.st = "queued" => Inputs[i.j] \subseteq hostCas
    /\ \A n \in 1 .. Len(down[1]) : down[1][n].t # "missing"

\* A source that has gone over, or is on its way, is in the ledger and not about to
\* be written.
Gone(d) == d \in sent \cap Sources /\ (lock # None => d \notin wTodo[lock])

FirstLedger ==
    /\ \A d \in hostCas : d \in Sources => Gone(d)
    /\ \A d \in BlobsOf(up[1]) : Gone(d)

\* The inputs of a job go before it in s, or are in cas already.
GoFirst(s, cas) ==
    \A n \in 1 .. Len(s) : s[n].t = "job" =>
        \A d \in Inputs[s[n].j] : d \in cas \/ \E m \in 1 .. n - 1 : s[m] = Blob(d)

\* A blob in s is there once, and is not in cas.
Once(s, cas) ==
    \A m \in 1 .. Len(s) : s[m].t = "blob" =>
        /\ s[m].d \notin cas
        /\ \A n \in 1 .. Len(s) : s[n] = s[m] => m = n

First ==
    /\ FirstGreeting /\ FirstWorkers /\ FirstPool /\ FirstLedger
    /\ GoFirst(up[1], hostCas) /\ Once(up[1], hostCas)

FirstInv == (conns = 0 => Fresh) /\ (alive[1] => First)

LEMMA GoFirstTail ==
    ASSUME NEW s \in Seq(Frames), s # <<>>, NEW cas, NEW cas2, GoFirst(s, cas), cas \subseteq cas2,
           Head(s).t = "blob" => Head(s).d \in cas2
    PROVE  GoFirst(Tail(s), cas2)
<1>1. /\ Len(Tail(s)) = Len(s) - 1 /\ Head(s) = s[1] /\ Len(s) \in Nat \ {0}
      /\ \A k \in 1 .. Len(s) - 1 : Tail(s)[k] = s[k + 1]
  BY TailIsRest
<1>2. SUFFICES ASSUME NEW n \in 1 .. Len(s) - 1, s[n + 1].t = "job", NEW d \in Inputs[s[n + 1].j],
                      d \notin cas2
               PROVE  \E m \in 1 .. n - 1 : Tail(s)[m] = Blob(d)
  BY <1>1 DEF GoFirst
<1>3. n + 1 \in 1 .. Len(s)
  BY ONLY <1>1, n \in 1 .. Len(s) - 1
<1>4. PICK m \in 1 .. (n + 1) - 1 : s[m] = Blob(d)
  BY <1>2, <1>3 DEF GoFirst
<1>5. m # 1
  BY <1>1, <1>2, <1>4 DEF Blob
<1>6. m - 1 \in 1 .. n - 1 /\ m - 1 \in 1 .. Len(s) - 1 /\ (m - 1) + 1 = m
  BY ONLY <1>1, <1>4, <1>5, n \in 1 .. Len(s) - 1
<1>7. Tail(s)[m - 1] = s[m]
  BY <1>1, <1>6
<1> QED BY <1>4, <1>6, <1>7

LEMMA GoFirstAppend ==
    ASSUME NEW s \in Seq(Frames), NEW f \in Frames, NEW cas, GoFirst(s, cas),
           f.t = "job" => \A d \in Inputs[f.j] : d \in cas \/ d \in BlobsOf(s)
    PROVE  GoFirst(Append(s, f), cas)
<1> DEFINE r == Append(s, f)
<1>1. /\ Len(r) = Len(s) + 1 /\ Len(s) \in Nat /\ r[Len(s) + 1] = f
      /\ \A n \in 1 .. Len(s) : r[n] = s[n] /\ s[n] \in Frames
  OBVIOUS
<1> HIDE DEF r
<1>2. SUFFICES ASSUME NEW n \in 1 .. Len(r), r[n].t = "job", NEW d \in Inputs[r[n].j], d \notin cas
               PROVE  \E m \in 1 .. n - 1 : r[m] = Blob(d)
  BY DEF GoFirst, r
<1>3. CASE n \in 1 .. Len(s)
  <2>1. PICK m \in 1 .. n - 1 : s[m] = Blob(d)
    BY <1>1, <1>2, <1>3 DEF GoFirst
  <2>2. m \in 1 .. Len(s)
    BY ONLY <1>1, <1>3, <2>1
  <2> QED BY <1>1, <2>1, <2>2
<1>4. CASE n = Len(s) + 1
  <2>1. d \in BlobsOf(s)
    BY <1>1, <1>2, <1>4
  <2>2. PICK m \in 1 .. Len(s) : s[m].t = "blob" /\ s[m].d = d
    BY <2>1 DEF BlobsOf
  <2>3. s[m] = Blob(d) /\ m \in 1 .. n - 1
    BY <1>1, <1>4, <2>2, FrameFields
  <2> QED BY <1>1, <2>2, <2>3
<1> QED BY <1>1, <1>3, <1>4

LEMMA GoFirstGrow ==
    ASSUME NEW s, NEW cas, NEW cas2, GoFirst(s, cas), cas \subseteq cas2
    PROVE  GoFirst(s, cas2)
BY DEF GoFirst

LEMMA OnceTail ==
    ASSUME NEW s \in Seq(Frames), s # <<>>, NEW cas, NEW cas2, Once(s, cas),
           \A d \in cas2 : d \in cas \/ (Head(s).t = "blob" /\ Head(s).d = d)
    PROVE  Once(Tail(s), cas2)
<1>1. /\ Len(Tail(s)) = Len(s) - 1 /\ Head(s) = s[1] /\ Len(s) \in Nat \ {0}
      /\ \A k \in 1 .. Len(s) - 1 : Tail(s)[k] = s[k + 1]
      /\ \A k \in 1 .. Len(s) : s[k] \in Frames
  BY TailIsRest
<1>2. SUFFICES ASSUME NEW m \in 1 .. Len(s) - 1, s[m + 1].t = "blob"
               PROVE  /\ s[m + 1].d \notin cas2
                      /\ \A n \in 1 .. Len(s) - 1 : s[n + 1] = s[m + 1] => m = n
  BY <1>1 DEF Once
<1>3. m + 1 \in 1 .. Len(s) /\ 1 \in 1 .. Len(s) /\ m + 1 # 1 /\ m \in Int
  BY ONLY <1>1, m \in 1 .. Len(s) - 1
<1>4. s[m + 1].d \notin cas /\ \A n \in 1 .. Len(s) : s[n] = s[m + 1] => m + 1 = n
  BY <1>2, <1>3 DEF Once
<1>5. s[m + 1].d \notin cas2
  <2>1. ASSUME s[1].t = "blob", s[1].d = s[m + 1].d PROVE FALSE
    <3>1. s[1] = s[m + 1]
      BY <1>1, <1>2, <1>3, <2>1, FrameFields
    <3> QED BY <1>3, <1>4, <3>1
  <2> QED BY <1>1, <1>4, <2>1
<1>6. ASSUME NEW n \in 1 .. Len(s) - 1, s[n + 1] = s[m + 1] PROVE m = n
  <2>1. n + 1 \in 1 .. Len(s) /\ n \in Int
    BY ONLY <1>1, n \in 1 .. Len(s) - 1
  <2>2. m + 1 = n + 1
    BY <1>4, <1>6, <2>1
  <2> QED BY ONLY <1>3, <2>1, <2>2
<1> QED BY <1>5, <1>6

LEMMA OnceAppend ==
    ASSUME NEW s \in Seq(Frames), NEW f \in Frames, NEW cas, Once(s, cas),
           f.t = "blob" => f.d \notin cas /\ f.d \notin BlobsOf(s)
    PROVE  Once(Append(s, f), cas)
<1> DEFINE r == Append(s, f)
<1>1. /\ Len(r) = Len(s) + 1 /\ Len(s) \in Nat /\ r[Len(s) + 1] = f
      /\ \A n \in 1 .. Len(s) : r[n] = s[n] /\ s[n] \in Frames
  OBVIOUS
<1> HIDE DEF r
<1>2. \A n \in 1 .. Len(r) : n \in 1 .. Len(s) \/ n = Len(s) + 1
  BY <1>1
<1>3. f.t = "blob" => \A n \in 1 .. Len(s) : s[n] # f
  BY DEF BlobsOf
<1>4. ASSUME NEW m \in 1 .. Len(r), r[m].t = "blob"
      PROVE  r[m].d \notin cas /\ \A n \in 1 .. Len(r) : r[n] = r[m] => m = n
  <2>1. CASE m \in 1 .. Len(s)
    <3>1. s[m].d \notin cas /\ \A n \in 1 .. Len(s) : s[n] = s[m] => m = n
      BY <1>1, <1>4, <2>1 DEF Once
    <3>2. s[m] # f
      BY <1>1, <1>3, <1>4, <2>1
    <3> QED BY <1>1, <1>2, <2>1, <3>1, <3>2
  <2>2. CASE m = Len(s) + 1
    BY <1>1, <1>2, <1>3, <1>4, <2>2
  <2> QED BY <1>2, <2>1, <2>2
<1> QED BY <1>4 DEF Once, r

LEMMA CrossRight ==
    ASSUME Typed, 1 \in Conns, GoFirst(up[1], hostCas), Once(up[1], hostCas)
    PROVE  BlobsGoFirst /\ CrossesOnce
<1>1. up[1] \in Seq(Frames)
  BY PipeTypes
<1>2. CrossesOnce
  BY DEF Once, CrossesOnce
<1>3. ASSUME NEW n \in 1 .. Len(up[1]), up[1][n].t = "job", NEW d \in Inputs[up[1][n].j],
             d \notin hostCas
      PROVE  d \in BlobsOf(SubSeq(up[1], 1, n - 1))
  <2> DEFINE p == SubSeq(up[1], 1, n - 1)
  <2>1. Len(p) = n - 1 /\ \A m \in 1 .. n - 1 : p[m] = up[1][m]
    BY <1>1
  <2> HIDE DEF p
  <2>2. PICK m \in 1 .. n - 1 : up[1][m] = Blob(d)
    BY <1>3 DEF GoFirst
  <2>3. m \in 1 .. Len(p) /\ p[m].t = "blob" /\ p[m].d = d
    BY <2>1, <2>2 DEF Blob
  <2>4. d \in BlobsOf(p)
    BY <2>3 DEF BlobsOf
  <2> QED BY <2>4 DEF p
<1> QED BY <1>2, <1>3 DEF BlobsGoFirst

LEMMA FirstTypes ==
    ASSUME HostInv
    PROVE  /\ 1 \in Conns /\ up[1] \in Seq(Frames) /\ down[1] \in Seq(Frames)
           /\ alive[1] => conns = 1 /\ connPc # "start" /\ (process # 0 => process = 1)
           /\ \A j \in Jobs : wPc[j] \in Engaged /\ alive[1] => wProc[j] = 1
           /\ \A i \in insts : alive[1] => i.c = 1
           /\ wTodo \in [Jobs -> SUBSET Digests] /\ wPc \in [Jobs -> WorkerStates]
           /\ wReply \in [Jobs -> Replies] /\ lock \in Jobs \cup {None}
           /\ TypeOK /\ Typed /\ LinkFacts
<1>1. 1 \in Conns /\ TypeOK /\ Typed /\ LinkFacts
  BY ConnsAssumption DEF Conns, HostInv, Typed
<1>2. alive[1] => conns = 1 /\ connPc # "start" /\ (process # 0 => process = 1)
  BY <1>1 DEF LinkFacts, Links
<1>3. ASSUME NEW j \in Jobs, wPc[j] \in Engaged, alive[1] PROVE wProc[j] = 1
  <2>1. wProc[j] \in Nat \ {0} /\ wProc[j] <= 1
    BY <1>1, <1>2, <1>3, PipeTypes DEF LinkFacts, Greeting
  <2> QED BY <2>1
<1>4. ASSUME NEW i \in insts, alive[1] PROVE i.c = 1
  <2>1. i.c \in Nat \ {0} /\ i.c <= 1
    BY <1>1, <1>2, <1>4, PipeTypes DEF LinkFacts, Greeting
  <2> QED BY <2>1
<1> QED BY <1>1, <1>2, <1>3, <1>4, PipeTypes DEF TypeOK

\* A worker that does not begin or end a write.
LEMMA WorkersMove ==
    ASSUME Typed, FirstWorkers, NEW j \in Jobs, wPc[j] \notin {"ready", "write", "done"},
           NEW x, x \notin {"rollback", "lost", "write"}, wPc' = [wPc EXCEPT ![j] = x],
           x = "done" => Output[j] \in sent', sent \subseteq sent', UNCHANGED <<lock, wTodo>>,
           \A k \in Jobs : wReply'[k].t # "missing"
    PROVE  FirstWorkers'
<1>1. wPc \in [Jobs -> WorkerStates]
  BY DEF Typed, TypeOK
<1>2. wPc'[j] = x /\ \A k \in Jobs : k # j => wPc'[k] = wPc[k]
  BY <1>1
<1>3. ASSUME NEW k \in Jobs
      PROVE  /\ wPc'[k] \notin {"rollback", "lost"}
             /\ wPc'[k] = "write" <=> lock' = k
             /\ wPc'[k] = "done" => Output[k] \in sent'
             /\ wPc'[k] = "write" => Inputs[k] \subseteq sent' /\ wTodo'[k] \subseteq sent' \cap Sources
             /\ wReply'[k].t # "missing"
  BY <1>2 DEF FirstWorkers
<1>4. ASSUME NEW k \in Jobs, wPc'[k] # "ready", NEW m \in Deps(k) PROVE wPc'[m] = "done"
  <2>1. m \in Jobs /\ wPc[k] # "ready"
    BY <1>2, <1>4 DEF Deps
  <2>2. wPc[m] = "done"
    BY <1>4, <2>1 DEF FirstWorkers
  <2> QED BY <1>2, <2>1, <2>2
<1> QED BY <1>3, <1>4 DEF FirstWorkers

\* A step of a worker with the connection up: what it does to the ledger.
LEMMA FirstWorker ==
    ASSUME HostInv, First, alive[1], alive'[1], NEW j \in Jobs, Worker(j)
    PROVE  First'
<1> USE FirstTypes DEF workerVars, hostVars
<1>a. /\ FirstGreeting /\ FirstWorkers /\ FirstPool /\ FirstLedger
      /\ GoFirst(up[1], hostCas) /\ Once(up[1], hostCas)
  BY DEF First
<1>b. ~WriteFail(j) /\ ~Rollback(j) /\ ~GiveUp(j)
  <2>1. ~WriteFail(j)
    BY DEF WriteFail, Engaged
  <2>2. ~Rollback(j) /\ ~GiveUp(j)
    BY <1>a DEF Rollback, GiveUp, FirstWorkers
  <2> QED BY <2>1, <2>2
\* Steps that leave the connection alone.
<1>c. ASSUME UNCHANGED <<process, connPc, up, down, insts, hostCas>>,
             FirstWorkers', connPc # "have",
             sent \subseteq sent', UNCHANGED lock, UNCHANGED wTodo
      PROVE  First'
  <2>1. \A d : Gone(d) => Gone(d)'
    BY <1>c DEF Gone
  <2>2. FirstLedger' /\ FirstPool' /\ FirstGreeting'
    BY <1>a, <1>c, <2>1 DEF FirstLedger, FirstPool, FirstGreeting
  <2> QED BY <1>a, <1>c, <2>2 DEF First
<1>1. CASE Dispatch(j)
  <2>1. connPc # "have"
    BY <1>1 DEF Dispatch, LinkFacts, Links
  <2>2. FirstWorkers'
    BY <1>a, <1>1 DEF Dispatch, FirstWorkers
  <2> QED BY <1>1, <1>c, <2>1, <2>2 DEF Dispatch
<1>2. CASE Begin(j)
  <2>1. connPc # "have"
    BY <1>2, <1>a DEF Begin, FirstGreeting, Fresh
  <2>a. \A k \in Jobs : wReply'[k].t # "missing"
    <3>1. wReply' = wReply \/ wReply' = [wReply EXCEPT ![j] = NoReply]
      BY <1>2 DEF Begin
    <3> QED BY <1>a, <3>1 DEF FirstWorkers, NoReply
  <2>b. /\ wPc[j] = "begin" /\ UNCHANGED <<lock, wTodo, sent>>
        /\ wPc' = [wPc EXCEPT ![j] = "claim"] \/ wPc' = [wPc EXCEPT ![j] = "ready"]
    BY <1>2 DEF Begin
  <2>2. FirstWorkers'
    BY <1>a, <2>a, <2>b, WorkersMove
  <2> QED BY <1>2, <1>c, <2>1, <2>2 DEF Begin
<1>3. CASE Claim(j)
  <2>1. connPc # "have"
    BY <1>3, <1>a DEF Claim, FirstGreeting, Fresh
  <2>2. lock = None /\ lock' = j /\ None \notin Jobs
    BY <1>3, JobsAssumption DEF Claim, MayClaim
  <2>3. /\ sent' = sent \cup Inputs[j] /\ wTodo' = [wTodo EXCEPT ![j] = Inputs[j] \ sent]
        /\ wPc' = [wPc EXCEPT ![j] = "write"]
    BY <1>3 DEF Claim, Claimed
  <2>4. Inputs[j] \subseteq Digests
    BY JobsAssumption
  <2>5. Inputs[j] \ sent \subseteq Sources
    <3>1. ASSUME NEW d \in Inputs[j] \ sent, NEW k \in Jobs, d = Output[k] PROVE FALSE
      <4>1. wPc[k] = "done"
        BY <1>3, <1>a, <3>1 DEF Claim, FirstWorkers, Deps
      <4> QED BY <1>a, <3>1, <4>1 DEF FirstWorkers
    <3> QED BY <2>4, <3>1 DEF Sources
  <2>6. FirstWorkers'
    <3>1. ASSUME NEW k \in Jobs, k # j
          PROVE  /\ wPc'[k] = wPc[k] /\ wPc[k] # "write" /\ lock' # k
    BY <1>a, <2>2, <2>3, <3>1 DEF FirstWorkers
    <3>2. wPc'[j] = "write" /\ wTodo'[j] = Inputs[j] \ sent /\ wReply' = wReply /\ wPc[j] = "claim"
      BY <1>3, <2>3 DEF Claim
    <3>3. ASSUME NEW k \in Jobs
          PROVE  /\ wPc'[k] \notin {"rollback", "lost"}
                 /\ wPc'[k] = "write" <=> lock' = k
                 /\ wPc'[k] = "done" => Output[k] \in sent'
                 /\ wPc'[k] = "write" => Inputs[k] \subseteq sent' /\ wTodo'[k] \subseteq sent' \cap Sources
                 /\ wReply'[k].t # "missing"
      BY <1>a, <2>2, <2>3, <2>5, <3>1, <3>2 DEF FirstWorkers
    <3>4. ASSUME NEW k \in Jobs, wPc'[k] # "ready", NEW m \in Deps(k) PROVE wPc'[m] = "done"
      <4>1. m \in Jobs /\ wPc[k] # "ready"
        BY <3>1, <3>2, <3>4 DEF Deps
      <4>2. wPc[m] = "done"
        BY <1>a, <3>4, <4>1 DEF FirstWorkers
      <4> QED BY <3>1, <3>2, <4>1, <4>2
    <3> QED BY <3>3, <3>4 DEF FirstWorkers
  <2>7. UNCHANGED <<process, connPc, up, down, insts, hostCas>>
    BY <1>3 DEF Claim
  <2>8. \A d : Gone(d) => Gone(d)'
    BY <2>2, <2>3 DEF Gone
  <2>9. FirstLedger' /\ FirstPool' /\ FirstGreeting'
    BY <1>a, <2>1, <2>7, <2>8 DEF FirstLedger, FirstPool, FirstGreeting
  <2> QED BY <1>a, <2>6, <2>7, <2>9 DEF First
<1>4. CASE WriteBlob(j)
  <2>1. PICK d \in wTodo[j] : /\ up' = [up EXCEPT ![wProc[j]] = Append(@, Blob(d))]
                              /\ wTodo' = [wTodo EXCEPT ![j] = @ \ {d}]
    BY <1>4 DEF WriteBlob
  <2>2. wPc[j] = "write" /\ wProc[j] = 1 /\ lock = j /\ d \in sent \cap Sources /\ d \in Digests
    BY <1>4, <1>a DEF WriteBlob, Engaged, FirstWorkers
  <2>3. up'[1] = Append(up[1], Blob(d)) /\ Blob(d) \in Frames
    BY <2>1, <2>2, PipeTypes, FrameMade
  <2>4. Blob(d).t = "blob" /\ Blob(d).d = d
    BY DEF Blob
  <2>5. connPc # "have"
    BY <1>a, <2>2 DEF FirstGreeting, Fresh
  <2>6. UNCHANGED <<process, connPc, down, insts, hostCas, sent, lock, wPc, wReply>>
    BY <1>4 DEF WriteBlob
  <2>7. FirstWorkers'
    BY <1>a, <2>1, <2>6 DEF FirstWorkers
  <2>8. lock # None /\ d \notin hostCas /\ d \notin BlobsOf(up[1])
    BY <1>a, <2>1, <2>2, JobsAssumption DEF FirstLedger, Gone
  <2>9. GoFirst(up'[1], hostCas) /\ Once(up'[1], hostCas)
    BY <1>a, <2>3, <2>4, <2>8, GoFirstAppend, OnceAppend
  <2>10. wTodo'[j] = wTodo[j] \ {d}
    BY <2>1
  <2>11. \A e : (Gone(e) => Gone(e)') /\ Gone(d)'
    BY <2>2, <2>6, <2>10 DEF Gone
  <2>12. \A e \in BlobsOf(up'[1]) : e \in BlobsOf(up[1]) \/ e = d
    BY <2>3, <2>4, BlobsAppend
  <2>13. FirstLedger'
    BY <1>a, <2>6, <2>11, <2>12 DEF FirstLedger
  <2>14. FirstPool' /\ FirstGreeting'
    BY <1>a, <2>5, <2>6 DEF FirstPool, FirstGreeting
  <2> QED BY <2>6, <2>7, <2>9, <2>13, <2>14 DEF First
<1>5. CASE WriteJob(j)
  <2>1. /\ wPc[j] = "write" /\ wProc[j] = 1 /\ lock = j /\ Inputs[j] \subseteq sent
        /\ wTodo[j] = {} /\ lock' = None
    BY <1>5, <1>a DEF WriteJob, Engaged, FirstWorkers
  <2>2. connPc # "have" /\ process = 1
    <3>1. connPc # "have"
      BY <1>a, <2>1 DEF FirstGreeting, Fresh
    <3> QED BY <1>a, <3>1 DEF FirstGreeting, TypeOK
  <2>3. up'[1] = Append(up[1], Job(j)) /\ Job(j) \in Frames
    BY <1>5, <2>1, PipeTypes, FrameMade DEF WriteJob
  <2>4. Job(j).t = "job" /\ Job(j).j = j
    BY DEF Job
  <2>5. \A d : ~Owes(d)
    <3>1. ASSUME NEW k \in Jobs PROVE Owed(k) = {}
      BY <1>a, <2>1, <2>2 DEF Owed, FirstWorkers
    <3> QED BY <3>1 DEF Owes
  <2>6. \A d \in Inputs[j] : d \in hostCas \/ d \in BlobsOf(up[1])
    BY <2>1, <2>2, <2>5 DEF HostInv, Covered
  <2>7. UNCHANGED <<process, connPc, down, insts, hostCas, sent, wReply, wTodo>>
        /\ wPc' = [wPc EXCEPT ![j] = "wait"]
    BY <1>5 DEF WriteJob
  <2>8. GoFirst(up'[1], hostCas) /\ Once(up'[1], hostCas)
    BY <1>a, <2>3, <2>4, <2>6, GoFirstAppend, OnceAppend
  <2>9. FirstWorkers'
    BY <1>a, <2>1, <2>7, JobsAssumption DEF FirstWorkers
  <2>10. \A e : Gone(e) => Gone(e)'
    BY <2>1, <2>7 DEF Gone
  <2>11. \A e \in BlobsOf(up'[1]) : e \in BlobsOf(up[1])
    BY <2>3, <2>4, BlobsAppend
  <2>12. FirstLedger' /\ FirstPool' /\ FirstGreeting'
    BY <1>a, <2>2, <2>7, <2>10, <2>11 DEF FirstLedger, FirstPool, FirstGreeting
  <2> QED BY <2>7, <2>8, <2>9, <2>12 DEF First
<1>6. CASE Replied(j)
  <2>1. wPc[j] = "wait" /\ wReply[j].t # "missing"
    BY <1>6, <1>a DEF Replied, FirstWorkers
  <2>2. connPc # "have"
    BY <1>a, <2>1 DEF FirstGreeting, Fresh
  <2>3. /\ sent \subseteq sent'
        /\ \/ wPc' = [wPc EXCEPT ![j] = "ready"] \/ wPc' = [wPc EXCEPT ![j] = "failed"]
           \/ wPc' = [wPc EXCEPT ![j] = "done"] /\ Output[j] \in sent'
        /\ UNCHANGED <<lock, wTodo, wReply>>
    BY <1>6, <2>1 DEF Replied
  <2>a. \A k \in Jobs : wReply'[k].t # "missing"
    BY <1>a, <2>3 DEF FirstWorkers
  <2>4. FirstWorkers'
    BY <1>a, <2>1, <2>3, <2>a, WorkersMove
  <2> QED BY <1>6, <1>c, <2>2, <2>3, <2>4 DEF Replied
<1> QED BY <1>b, <1>1, <1>2, <1>3, <1>4, <1>5, <1>6 DEF Worker

\* What has to be shown of a step of the connection or the host.
LEMMA FirstKept ==
    ASSUME First, FirstGreeting', FirstPool', UNCHANGED <<wPc, lock, sent, wTodo>>,
           \A k \in Jobs : wReply'[k].t # "missing",
           GoFirst(up'[1], hostCas'), Once(up'[1], hostCas'),
           \A d \in hostCas' : d \in Sources => d \in hostCas \/ d \in BlobsOf(up[1]),
           \A d \in BlobsOf(up'[1]) : d \in BlobsOf(up[1])
    PROVE  First'
<1>1. \A d : Gone(d)' <=> Gone(d)
  BY DEF Gone
<1>2. FirstLedger'
  BY <1>1 DEF First, FirstLedger
<1>3. FirstWorkers'
  BY DEF First, FirstWorkers
<1> QED BY <1>2, <1>3 DEF First

\* Before the first connection nothing happens but that it is made.
LEMMA FreshStep ==
    ASSUME HostInv, Fresh, conns = 0, [Next]_vars, conns' = 0
    PROVE  Fresh'
<1> USE FirstTypes DEF workerVars, hostVars, Fresh
<1>1. /\ process = 0 /\ connPc # "have"
      /\ \A c \in Conns : /\ ~alive[c] /\ c # 0
                          /\ Len(up[c]) = 0 /\ Len(down[c]) = 0
                          /\ up[c] = <<>> /\ down[c] = <<>>
  <2>1. process = 0 /\ connPc # "have"
    BY DEF LinkFacts, Links
  <2>2. ASSUME NEW c \in Conns
        PROVE  ~alive[c] /\ c # 0 /\ Len(up[c]) = 0 /\ Len(down[c]) = 0
    <3>1. c \in Nat \ {0} /\ c > conns
      BY PipeTypes
    <3> QED BY <3>1 DEF LinkFacts, Links
  <2>3. ASSUME NEW c \in Conns PROVE up[c] = <<>> /\ down[c] = <<>>
    <3>1. up[c] \in Seq(Frames) /\ down[c] \in Seq(Frames)
      BY PipeTypes
    <3> QED BY <2>2, <3>1
  <2> QED BY <2>1, <2>2, <2>3
<1>2. ASSUME NEW j \in Jobs, Worker(j) PROVE FALSE
  BY <1>1, <1>2 DEF Worker, Dispatch, Begin, Claim, WriteFail, WriteBlob, WriteJob, Rollback,
                    GiveUp, Replied
<1>3. ASSUME Connecting PROVE FALSE
  BY <1>1, <1>3, PipeTypes DEF Connecting, ConnStart, ConnUp, ConnFail
<1>4. ASSUME NEW c \in Conns, Reader(c) PROVE Fresh'
  BY <1>1, <1>4 DEF Reader, ReadFrame, ReadEnd, LostConn
<1>5. ASSUME NEW c \in Conns, Service(c) PROVE Fresh'
  BY <1>1, <1>5 DEF Service, SvcRead, SvcEof, SvcGone
<1>6. ASSUME NEW c \in Conns, Break(c) PROVE Fresh'
  BY <1>1, <1>6 DEF Break
<1>7. ASSUME NEW i \in insts, Running(i) PROVE FALSE
  OBVIOUS
<1>8. CASE UNCHANGED vars
  BY <1>8 DEF vars
<1> QED BY <1>2, <1>3, <1>4, <1>5, <1>6, <1>7, <1>8 DEF Next

\* The first connection comes up once only.
LEMMA OnlyStarts ==
    ASSUME HostInv, [Next]_vars, alive'[1], ~alive[1]
    PROVE  ConnStart /\ conns = 0
<1> USE FirstTypes DEF workerVars, hostVars
<1>1. ASSUME NEW c \in Conns, Ended(c) PROVE FALSE
  BY <1>1, EndedEffect
<1>2. ASSUME NEW j \in Jobs, Worker(j) PROVE FALSE
  <2>1. CASE GiveUp(j)
    <3>1. wProc[j] \in Conns /\ Ended(wProc[j])
      BY <2>1, PipeTypes DEF GiveUp, LostConn, Engaged
    <3> QED BY <1>1, <3>1
  <2>2. CASE ~GiveUp(j)
    BY <1>2, <2>2 DEF Worker, Dispatch, Begin, Claim, WriteFail, WriteBlob, WriteJob, Rollback,
                      Replied
  <2> QED BY <2>1, <2>2
<1>3. ASSUME Connecting PROVE ConnStart /\ conns = 0
  <2>1. CASE ConnStart
    <3>1. alive' = [alive EXCEPT ![conns + 1] = TRUE] /\ conns \in Nat
      BY <2>1, PipeTypes DEF ConnStart
    <3>2. conns + 1 = 1
      BY <3>1, PipeTypes
    <3> QED BY <2>1, <3>1, <3>2
  <2> QED BY <1>3, <2>1 DEF Connecting, ConnUp, ConnFail
<1>4. ASSUME NEW c \in Conns, Reader(c) \/ Break(c) PROVE FALSE
  BY <1>1, <1>4 DEF Reader, ReadFrame, ReadEnd, LostConn, Break
<1>5. ASSUME NEW c \in Conns, Service(c) PROVE FALSE
  BY <1>5 DEF Service, SvcRead, SvcEof, SvcGone
<1>6. ASSUME NEW i \in insts, Running(i) PROVE FALSE
  BY <1>6 DEF Running, JobStart, JobOk, JobFail, JobLeave
<1> QED BY <1>2, <1>3, <1>4, <1>5, <1>6 DEF Next, vars

LEMMA FirstStart ==
    ASSUME HostInv, Fresh, conns = 0, ConnStart
    PROVE  First'
<1> USE FirstTypes DEF Fresh
<1>1. /\ conns' = 1 /\ connPc' = "have" /\ up' = up
      /\ down' = [down EXCEPT ![1] = <<Have({})>>]
      /\ UNCHANGED <<sent, lock, wPc, wTodo, wReply, insts, hostCas>>
  BY DEF ConnStart, workerVars
<1>2. down'[1] = <<Have({})>> /\ Len(up[1]) = 0
  <2>1. 1 > conns
    OBVIOUS
  <2> QED BY <1>1, <2>1, PipeTypes DEF LinkFacts, Links
<1>3. \A n \in 1 .. Len(down'[1]) : down'[1][n].t = "have" /\ down'[1][n].ds = {}
  BY <1>2 DEF Have
<1>4. FirstGreeting' /\ FirstPool'
  BY <1>1, <1>3 DEF FirstGreeting, FirstPool
<1>5. FirstWorkers'
  <2>1. \A k \in Jobs : lock # k
    BY JobsAssumption
  <2> QED BY <1>1, <2>1 DEF FirstWorkers
<1>6. FirstLedger' /\ GoFirst(up'[1], hostCas') /\ Once(up'[1], hostCas')
  <2>1. \A n : n \notin 1 .. Len(up'[1])
    BY <1>1, <1>2
  <2> QED BY <1>1, <2>1 DEF FirstLedger, BlobsOf, GoFirst, Once
<1> QED BY <1>4, <1>5, <1>6 DEF First

\* The answer to the ledger arrives: it is empty, as the ledger was.
LEMMA FirstUp ==
    ASSUME HostInv, First, alive[1], ConnUp
    PROVE  First'
<1> USE FirstTypes
<1>1. /\ connPc = "have" /\ conns = 1 /\ down[1] # <<>> /\ Fresh
      /\ FirstGreeting /\ FirstPool /\ FirstWorkers
      /\ GoFirst(up[1], hostCas) /\ Once(up[1], hostCas)
  BY DEF ConnUp, First, FirstGreeting
<1>2. /\ process' = 1 /\ connPc' = "idle" /\ sent' = Head(down[1]).ds
      /\ down' = [down EXCEPT ![1] = Tail(@)]
      /\ UNCHANGED <<lock, wPc, wTodo, wReply, up, insts, hostCas>>
  BY <1>1 DEF ConnUp, Kept, workerVars, hostVars
<1>3. Head(down[1]) = down[1][1] /\ 1 \in 1 .. Len(down[1])
  BY <1>1, TailIsRest
<1>4. sent' = {} /\ sent = {}
  BY <1>1, <1>2, <1>3 DEF FirstGreeting, Fresh
<1>5. FirstPool'
  <2>1. \A n \in 1 .. Len(down'[1]) : \E m \in 1 .. Len(down[1]) : down'[1][n] = down[1][m]
    BY <1>1, <1>2, TailFrames DEF OldFrame
  <2> QED BY <1>1, <1>2, <2>1 DEF FirstPool
<1>6. FirstGreeting'
  BY <1>2 DEF FirstGreeting
<1>7. UNCHANGED sent /\ \A k \in Jobs : wReply'[k].t # "missing"
  BY <1>1, <1>2, <1>4 DEF Fresh
<1>8. \A d \in hostCas' : d \in Sources => d \in hostCas \/ d \in BlobsOf(up[1])
  BY <1>2
<1>9. UNCHANGED <<wPc, lock, sent, wTodo>> /\ UNCHANGED <<up, hostCas>>
  BY <1>2, <1>7
<1> QED BY <1>1, <1>5, <1>6, <1>7, <1>8, <1>9, FirstKept

LEMMA FirstReader ==
    ASSUME HostInv, First, alive[1], alive'[1], NEW c \in Conns, Reader(c)
    PROVE  First'
<1> USE FirstTypes
<1>1. /\ FirstGreeting /\ FirstPool /\ FirstWorkers
      /\ GoFirst(up[1], hostCas) /\ Once(up[1], hostCas)
  BY DEF First
<1>2. CASE ReadFrame(c)
  <2>1. c = 1
    <3>1. down[c] # <<>> /\ down[c] \in Seq(Frames) /\ c \in Nat \ {0}
      BY <1>2, PipeTypes DEF ReadFrame
    <3>2. Len(down[c]) # 0
      BY <3>1
    <3>3. ~(c > conns)
      BY <3>2 DEF LinkFacts, Links
    <3> QED BY <3>1, <3>3
  <2> DEFINE f == Head(down[1])
  <2>2. f = down[1][1] /\ 1 \in 1 .. Len(down[1]) /\ down[1] # <<>>
    BY <1>2, <2>1, TailIsRest, PipeTypes DEF ReadFrame
  <2>3. f.t # "missing" /\ f.t # "have"
    BY <1>1, <1>2, <2>1, <2>2 DEF FirstPool, ReadFrame
  <2>4. connPc # "have"
    <3>1. ASSUME connPc = "have" PROVE FALSE
      <4>1. \A n \in 1 .. Len(down[1]) : down[1][n].t = "have"
        BY <3>1 DEF LinkFacts, Greeting
      <4>2. down[1][1].t = "have"
        BY ONLY <2>2, <4>1
      <4>3. down[1][1].t # "have"
        BY ONLY <2>2, <2>3
      <4> QED BY <4>2, <4>3
    <3> QED BY <3>1
  <2>5. /\ wReply' = wReply \/ wReply' = [wReply EXCEPT ![f.j] = f]
        /\ down' = [down EXCEPT ![1] = Tail(@)]
        /\ UNCHANGED <<process, sent, lock, wPc, wTodo, connPc, up, insts, hostCas>>
    BY <1>2, <2>1 DEF ReadFrame, hostVars
  <2> HIDE DEF f
  <2>6. \A k \in Jobs : wReply'[k].t # "missing"
    BY <1>1, <2>3, <2>5 DEF FirstWorkers
  <2>7. FirstPool'
    <3>1. \A n \in 1 .. Len(down'[1]) : \E m \in 1 .. Len(down[1]) : down'[1][n] = down[1][m]
      BY <2>2, <2>5, TailFrames DEF OldFrame
    <3> QED BY <1>1, <2>5, <3>1 DEF FirstPool
  <2>8. FirstGreeting'
    BY <1>1, <2>4, <2>5 DEF FirstGreeting
  <2> QED BY <1>1, <2>5, <2>6, <2>7, <2>8, FirstKept
<1>3. CASE ReadEnd(c)
  <2>1. c # 1 /\ ~alive[c] /\ process # c
    <3>1. c # 1 /\ ~alive[c]
      BY <1>3 DEF ReadEnd
    <3> QED BY <3>1, PipeTypes
  <2>2. UNCHANGED <<process, sent, lock, wPc, wTodo, wReply, connPc, up, down, insts, hostCas>>
    BY <1>3, <2>1 DEF ReadEnd, LostConn, Ended, hostVars
  <2>3. \A k \in Jobs : wReply'[k].t # "missing"
    BY <1>1, <2>2 DEF FirstWorkers
  <2>4. FirstPool' /\ FirstGreeting'
    <3>1. Fresh => Fresh'
      BY <2>2 DEF Fresh
    <3> QED BY <1>1, <2>2, <3>1 DEF FirstPool, FirstGreeting
  <2> QED BY <1>1, <2>2, <2>3, <2>4, FirstKept
<1> QED BY <1>2, <1>3 DEF Reader

\* Writing to the first connection: what is on it is old or written.
LEMMA FirstWrites ==
    ASSUME Typed, NEW fs \in Seq(Frames), Written(1, fs), 1 \in Conns, FirstPool,
           \A k \in 1 .. Len(fs) : fs[k].t # "missing"
    PROVE  \A n \in 1 .. Len(down'[1]) : down'[1][n].t # "missing"
<1>1. SUFFICES ASSUME NEW n \in 1 .. Len(down'[1]) PROVE down'[1][n].t # "missing"
  OBVIOUS
<1>2. OldFrame(1, n) \/ \E k \in 1 .. Len(fs) : down'[1][n] = fs[k]
  BY WrittenFrames
<1> QED BY <1>2 DEF OldFrame, FirstPool

LEMMA FirstService ==
    ASSUME HostInv, First, alive[1], NEW c \in Conns, Service(c)
    PROVE  First'
<1> USE FirstTypes
<1>1. /\ FirstGreeting /\ FirstPool /\ FirstWorkers
      /\ GoFirst(up[1], hostCas) /\ Once(up[1], hostCas)
  BY DEF First
<1>2. CASE SvcRead(c)
  <2>1. c = 1
    <3>1. up[c] # <<>> /\ up[c] \in Seq(Frames) /\ c \in Nat \ {0}
      BY <1>2, PipeTypes DEF SvcRead
    <3>2. Len(up[c]) # 0
      BY <3>1
    <3>3. ~(c > conns)
      BY <3>2 DEF LinkFacts, Links
    <3> QED BY <3>1, <3>3
  <2> DEFINE f == Head(up[1])
  <2>2. f = up[1][1] /\ 1 \in 1 .. Len(up[1]) /\ up[1] # <<>> /\ f \in Frames
    BY <1>2, <2>1, TailIsRest, PipeTypes DEF SvcRead
  <2>3. connPc = "have" => f.t = "have"
    BY <2>2 DEF LinkFacts, Greeting
  <2>4. /\ \/ f.t = "blob" /\ hostCas' = hostCas \cup {f.d} /\ UNCHANGED <<insts, down>>
           \/ f.t = "have" /\ Written(1, <<Have(f.ds \cap hostCas)>>) /\ UNCHANGED <<insts, hostCas>>
           \/ f.t = "job" /\ insts' = insts \cup {NewInst(1, f.j)} /\ UNCHANGED <<hostCas, down>>
           \/ f.t = "cut" /\ UNCHANGED <<insts, hostCas, down>>
        /\ up'[1] = Tail(up[1])
        /\ UNCHANGED <<process, sent, lock, wPc, wTodo, wReply, connPc>>
    <3>1. up' = [up EXCEPT ![1] = Tail(@)]
          /\ UNCHANGED <<process, sent, lock, wPc, wTodo, wReply, connPc>>
      BY <1>2, <2>1 DEF SvcRead, workerVars
    <3>2. up'[1] = Tail(up[1])
      BY <3>1, PipeTypes
    <3> QED BY <1>2, <2>1, <3>1, <3>2 DEF SvcRead, Cut
  <2> HIDE DEF f
  <2>5. \A k \in Jobs : wReply'[k].t # "missing"
    BY <1>1, <2>4 DEF FirstWorkers
  <2>6. /\ hostCas \subseteq hostCas' /\ (f.t = "blob" => f.d \in hostCas')
        /\ \A d \in hostCas' : d \in hostCas \/ (f.t = "blob" /\ f.d = d)
    BY <2>4
  <2>7. GoFirst(up'[1], hostCas') /\ Once(up'[1], hostCas')
    <3>1. PICK s \in Seq(Frames) : s = up[1]
      BY <2>2
    <3>2. f = Head(s) /\ s # <<>> /\ up'[1] = Tail(s)
      BY <2>2, <2>4, <3>1 DEF f
    <3>3. GoFirst(s, hostCas) /\ Once(s, hostCas)
      BY <1>1, <3>1
    <3>4. GoFirst(Tail(s), hostCas')
      BY <2>6, <3>2, <3>3, GoFirstTail
    <3>5. Once(Tail(s), hostCas')
      BY <2>6, <3>2, <3>3, OnceTail
    <3> QED BY <3>2, <3>4, <3>5
  <2>8. f.t = "blob" => f.d \in BlobsOf(up[1])
    BY <2>2 DEF BlobsOf
  <2>9. \A d \in hostCas' : d \in hostCas \/ d \in BlobsOf(up[1])
    BY <2>6, <2>8
  <2>10. \A d \in BlobsOf(up'[1]) : d \in BlobsOf(up[1])
    <3>1. SUFFICES ASSUME NEW n \in 1 .. Len(Tail(up[1])), Tail(up[1])[n].t = "blob"
                   PROVE  \E m \in 1 .. Len(up[1]) : up[1][m] = Tail(up[1])[n]
      BY <2>4 DEF BlobsOf
    <3>2. /\ Len(Tail(up[1])) = Len(up[1]) - 1 /\ Len(up[1]) \in Nat \ {0}
          /\ \A k \in 1 .. Len(up[1]) - 1 : Tail(up[1])[k] = up[1][k + 1]
      BY <2>2, TailIsRest
    <3>3. n \in 1 .. Len(up[1]) - 1
      BY <3>2
    <3>4. n + 1 \in 1 .. Len(up[1])
      BY ONLY <3>2, <3>3
    <3> QED BY <3>2, <3>3, <3>4
  <2>11. \A i \in insts' : i.st = "queued" => Inputs[i.j] \subseteq hostCas'
    <3>1. CASE insts' = insts
      BY <1>1, <2>6, <3>1 DEF FirstPool
    <3>2. CASE f.t = "job" /\ insts' = insts \cup {NewInst(1, f.j)}
      <4>1. f.j \in Jobs
        BY <2>2, <3>2, FrameFields
      <4>2. Inputs[f.j] \subseteq hostCas
        BY <1>1, <2>2, <3>2 DEF GoFirst
      <4>3. NewInst(1, f.j).j = f.j
        BY <4>1, InstTyped DEF Typed
      <4> QED BY <1>1, <2>6, <3>2, <4>2, <4>3 DEF FirstPool
    <3> QED BY <2>4, <3>1, <3>2
  <2> DEFINE h == Have(f.ds \cap hostCas)
  <2>12. h.t = "have" /\ h.ds \subseteq hostCas /\ (f.t = "have" => h \in Frames)
    BY <2>2, FrameMade, FrameFields DEF Have, TypeOK
  <2>13. f.t = "have" => Written(1, <<h>>) /\ UNCHANGED <<insts, hostCas>>
    BY <2>4
  <2> HIDE DEF h
  <2>14. FirstPool'
    <3>1. CASE UNCHANGED down
      BY <1>1, <2>11, <3>1 DEF FirstPool
    <3>2. CASE f.t = "have"
      <4>1. <<h>> \in Seq(Frames) /\ \A k \in 1 .. Len(<<h>>) : <<h>>[k].t # "missing"
        BY <2>12, <3>2
      <4>2. \A n \in 1 .. Len(down'[1]) : down'[1][n].t # "missing"
        BY <1>1, <2>13, <3>2, <4>1, FirstWrites
      <4> QED BY <2>11, <4>2 DEF FirstPool
    <3> QED BY <2>4, <3>1, <3>2
  <2>15. FirstGreeting'
    <3>1. CASE connPc = "have"
      <4>1. f.t = "have" /\ Fresh
        BY <1>1, <2>3, <3>1 DEF FirstGreeting
      <4>2. Fresh'
        BY <2>4, <2>13, <4>1 DEF Fresh
      <4>3. <<h>> \in Seq(Frames) /\ h.ds = {} /\ \A k \in 1 .. Len(<<h>>) : <<h>>[k] = h
        BY <2>12, <4>1 DEF Fresh
      <4>4. ASSUME NEW n \in 1 .. Len(down'[1]) PROVE down'[1][n].ds = {}
        <5>a. Written(1, <<h>>) /\ Typed /\ 1 \in Conns /\ <<h>> \in Seq(Frames)
          BY <2>13, <4>1, <4>3
        <5> HIDE FirstTypes
        <5>1. OldFrame(1, n) \/ \E k \in 1 .. Len(<<h>>) : down'[1][n] = <<h>>[k]
          BY <5>a, WrittenFrames
        <5>2. \A m \in 1 .. Len(down[1]) : down[1][m].ds = {}
          BY <1>1, <3>1 DEF FirstGreeting
        <5> QED BY <4>3, <5>1, <5>2 DEF OldFrame
      <4> QED BY <2>4, <3>1, <4>2, <4>4 DEF FirstGreeting
    <3>2. CASE connPc # "have"
      BY <1>1, <2>4, <3>2 DEF FirstGreeting
    <3> QED BY <3>1, <3>2
  <2>16. UNCHANGED <<wPc, lock, sent, wTodo>>
    BY <2>4
  <2> QED BY <2>5, <2>7, <2>9, <2>10, <2>14, <2>15, <2>16, FirstKept
<1>3. CASE SvcEof(c) \/ SvcGone(c)
  <2>1. /\ UNCHANGED <<process, sent, lock, wPc, wTodo, wReply, connPc, up, down, hostCas>>
        /\ \A i \in insts' : i.st = "queued" => i \in insts
    <3>1. CASE SvcGone(c)
      BY <3>1 DEF SvcGone, workerVars
    <3>2. CASE SvcEof(c)
      <4>1. PICK killed \in SUBSET {i \in insts : i.c = c /\ i.st = "running"} :
              insts' = {IF i \in killed THEN [i EXCEPT !.st = "killed"] ELSE i :
                        i \in {x \in insts : x.c # c \/ x.st # "queued"}}
        BY <3>2 DEF SvcEof
      <4>2. ASSUME NEW i \in insts PROVE [i EXCEPT !.st = "killed"].st = "killed"
        BY <4>2 DEF TypeOK, Insts
      <4> QED BY <3>2, <4>1, <4>2 DEF SvcEof, workerVars
    <3> QED BY <1>3, <3>1, <3>2
  <2>2. FirstPool'
    BY <1>1, <2>1 DEF FirstPool
  <2>3. FirstGreeting'
    <3>1. insts = {} => insts' = {}
      BY <1>3 DEF SvcEof, SvcGone
    <3>2. Fresh => Fresh'
      BY <2>1, <3>1 DEF Fresh
    <3> QED BY <1>1, <2>1, <3>2 DEF FirstGreeting
  <2>4. \A k \in Jobs : wReply'[k].t # "missing"
    BY <1>1, <2>1 DEF FirstWorkers
  <2> QED BY <1>1, <2>1, <2>2, <2>3, <2>4, FirstKept
<1> QED BY <1>2, <1>3 DEF Service

LEMMA FirstRunning ==
    ASSUME HostInv, First, alive[1], NEW i \in insts, Running(i)
    PROVE  First'
<1>0. i \in Insts /\ i.c = 1 /\ i.j \in Jobs /\ Typed /\ 1 \in Conns
      /\ up[1] \in Seq(Frames) /\ Inputs[i.j] \in SUBSET Digests /\ Output[i.j] \in Digests
      /\ hostCas \subseteq Digests
  BY FirstTypes, JobsAssumption DEF TypeOK, Insts
<1>1. /\ FirstGreeting /\ FirstPool /\ FirstWorkers /\ FirstLedger
      /\ GoFirst(up[1], hostCas) /\ Once(up[1], hostCas)
  BY DEF First
<1>2. connPc # "have"
  BY <1>1 DEF FirstGreeting, Fresh
<1>3. UNCHANGED <<process, sent, lock, wPc, wTodo, wReply, connPc, up>>
  BY DEF Running, JobStart, JobOk, JobFail, JobLeave, workerVars
<1>4. \A k \in Jobs : wReply'[k].t # "missing"
  BY <1>1, <1>3 DEF FirstWorkers
<1>5. FirstGreeting'
  BY <1>1, <1>2, <1>3 DEF FirstGreeting
\* What the host sends back, keeps, and has waiting.
<1>6. /\ \/ UNCHANGED down /\ UNCHANGED hostCas
         \/ Written(1, <<Result(i.j, 1)>>) /\ UNCHANGED hostCas
         \/ Written(1, <<Blob(Output[i.j]), Result(i.j, 0)>>)
              /\ hostCas' = hostCas \cup {Output[i.j]}
      /\ \A x \in insts' : x.st = "queued" => x \in insts
  <2>1. CASE JobStart(i)
    <3>1. Inputs[i.j] \ hostCas = {}
      BY <1>1, <2>1 DEF JobStart, FirstPool
    <3>2. down' = down /\ hostCas' = hostCas
          /\ insts' = (insts \ {i}) \cup {[i EXCEPT !.st = "running"]}
      BY <2>1, <3>1 DEF JobStart
    <3>3. [i EXCEPT !.st = "running"].st # "queued"
      BY <1>0 DEF Insts
    <3> QED BY <3>2, <3>3
  <2>2. ASSUME Leaving(i) PROVE \A x \in insts' : x.st = "queued" => x \in insts
    <3>1. [i EXCEPT !.st = "leaving"].st # "queued"
      BY <1>0 DEF Insts
    <3> QED BY <2>2, <3>1 DEF Leaving
  <2>3. CASE JobOk(i)
    BY <1>0, <2>2, <2>3 DEF JobOk, Batch
  <2>4. CASE JobFail(i)
    BY <1>0, <2>2, <2>4 DEF JobFail
  <2>5. CASE JobLeave(i)
    BY <2>5 DEF JobLeave
  <2> QED BY <2>1, <2>3, <2>4, <2>5 DEF Running
<1>7. FirstPool'
  <2>1. \A x \in insts' : x.st = "queued" => Inputs[x.j] \subseteq hostCas'
    BY <1>1, <1>6 DEF FirstPool
  <2> DEFINE b == Blob(Output[i.j])
             r == Result(i.j, 0)
             e == Result(i.j, 1)
  <2>2. b \in Frames /\ r \in Frames /\ e \in Frames
    BY <1>0, FrameMade
  <2>3. b.t # "missing" /\ r.t # "missing" /\ e.t # "missing"
    BY DEF Blob, Result
  <2>4. UNCHANGED down \/ Written(1, <<e>>) \/ Written(1, <<b, r>>)
    BY <1>6
  <2> HIDE DEF b, r, e
  <2>5. ASSUME Written(1, <<e>>) PROVE \A n \in 1 .. Len(down'[1]) : down'[1][n].t # "missing"
    <3>1. <<e>> \in Seq(Frames) /\ \A k \in 1 .. Len(<<e>>) : <<e>>[k].t # "missing"
      BY <2>2, <2>3
    <3> QED BY <1>0, <1>1, <2>5, <3>1, FirstWrites
  <2>6. ASSUME Written(1, <<b, r>>) PROVE \A n \in 1 .. Len(down'[1]) : down'[1][n].t # "missing"
    <3>1. <<b, r>> \in Seq(Frames) /\ \A k \in 1 .. Len(<<b, r>>) : <<b, r>>[k].t # "missing"
      BY <2>2, <2>3
    <3> QED BY <1>0, <1>1, <2>6, <3>1, FirstWrites
  <2>7. UNCHANGED down => \A n \in 1 .. Len(down'[1]) : down'[1][n].t # "missing"
    BY <1>1 DEF FirstPool
  <2> QED BY <2>1, <2>4, <2>5, <2>6, <2>7 DEF FirstPool
<1>8. /\ hostCas \subseteq hostCas'
      /\ \A d \in hostCas' : d \in hostCas \/ d = Output[i.j]
  BY <1>6
<1>9. GoFirst(up'[1], hostCas')
  BY <1>1, <1>3, <1>8, GoFirstGrow
\* An output is no source, and only sources are on their way.
<1>10. Output[i.j] \notin Sources /\ \A d \in BlobsOf(up[1]) : d \in Sources
  BY <1>0, <1>1 DEF Sources, FirstLedger, Gone
<1>11. Once(up'[1], hostCas')
  <2>1. ASSUME NEW n \in 1 .. Len(up[1]), up[1][n].t = "blob" PROVE up[1][n].d # Output[i.j]
    <3>1. up[1][n].d \in BlobsOf(up[1])
      BY <2>1 DEF BlobsOf
    <3> QED BY <1>10, <3>1
  <2> QED BY <1>1, <1>3, <1>8, <2>1 DEF Once
<1>12. \A d \in hostCas' : d \in Sources => d \in hostCas \/ d \in BlobsOf(up[1])
  BY <1>8, <1>10
<1> QED BY <1>3, <1>4, <1>5, <1>7, <1>9, <1>11, <1>12, FirstKept

\* Connections are counted.
LEMMA ConnsCount == ASSUME [Next]_vars PROVE conns' = conns \/ conns' = conns + 1
<1>1. ASSUME NEW j \in Jobs, Worker(j) PROVE conns' = conns
  BY <1>1 DEF Worker, Dispatch, Begin, Claim, WriteFail, WriteBlob, WriteJob, Rollback, GiveUp,
              Replied
<1>2. ASSUME Connecting PROVE conns' = conns \/ conns' = conns + 1
  BY <1>2 DEF Connecting, ConnStart, ConnUp, ConnFail
<1>3. ASSUME NEW c \in Conns, Reader(c) \/ Break(c) PROVE conns' = conns
  BY <1>3 DEF Reader, ReadFrame, ReadEnd, Break
<1>4. ASSUME NEW c \in Conns, Service(c) PROVE conns' = conns
  BY <1>4 DEF Service, SvcRead, SvcEof, SvcGone
<1>5. ASSUME NEW i \in insts, Running(i) PROVE conns' = conns
  BY <1>5 DEF Running, JobStart, JobOk, JobFail, JobLeave
<1> QED BY <1>1, <1>2, <1>3, <1>4, <1>5 DEF Next, vars

LEMMA FirstStep ==
    ASSUME HostInv, FirstInv, [Next]_vars
    PROVE  FirstInv'
<1> USE FirstTypes
<1>1. ASSUME conns' = 0 PROVE Fresh'
  <2>1. conns = 0
    BY <1>1, ConnsCount, PipeTypes
  <2> QED BY <1>1, <2>1, FreshStep DEF FirstInv
<1>2. ASSUME alive'[1], ~alive[1] PROVE First'
  BY <1>2, OnlyStarts, FirstStart DEF FirstInv
<1>3. ASSUME alive'[1], alive[1] PROVE First'
  <2>0. First
    BY <1>3 DEF FirstInv
  <2>1. ASSUME NEW j \in Jobs, Worker(j) PROVE First'
    BY <1>3, <2>0, <2>1, FirstWorker
  <2>2. ASSUME Connecting PROVE First'
    <3>1. ~ConnStart /\ ~ConnFail
      BY <1>3 DEF ConnStart, ConnFail
    <3> QED BY <1>3, <2>0, <2>2, <3>1, FirstUp DEF Connecting
  <2>3. ASSUME NEW c \in Conns, Reader(c) PROVE First'
    BY <1>3, <2>0, <2>3, FirstReader
  <2>4. ASSUME NEW c \in Conns, Service(c) PROVE First'
    BY <1>3, <2>0, <2>4, FirstService
  <2>5. ASSUME NEW c \in Conns, Break(c) PROVE FALSE
    <3>1. c = 1 /\ Ended(c)
      BY <1>3, <2>5 DEF Break, LinkFacts, Links
    <3> QED BY <1>3, <3>1, EndedEffect
  <2>6. ASSUME NEW i \in insts, Running(i) PROVE First'
    BY <1>3, <2>0, <2>6, FirstRunning
  <2>7. CASE UNCHANGED vars
    BY <2>0, <2>7 DEF vars, workerVars, hostVars, First, FirstGreeting, Fresh, FirstWorkers,
                      FirstPool, FirstLedger, Gone, GoFirst, Once, BlobsOf
  <2> QED BY <2>1, <2>2, <2>3, <2>4, <2>5, <2>6, <2>7 DEF Next
<1> QED BY <1>1, <1>2, <1>3 DEF FirstInv

(* Over the first connection a job goes after its inputs, and a blob goes   *)
(* once: workers write one at a time, each claims what the ledger does not  *)
(* have, and the ledger holds the outputs of the jobs that ended.           *)
THEOREM BlobsCrossOnce == Spec => []BlobsCrossRight
<1>1. Init => FirstInv
  <2> SUFFICES ASSUME Init PROVE FirstInv
    OBVIOUS
  <2>1. ~alive[1]
    BY ConnsAssumption DEF Init, Conns
  <2> QED BY <2>1 DEF Init, FirstInv, Fresh, NoReply
<1>2. HostInv /\ FirstInv /\ [Next]_vars => FirstInv'
  BY FirstStep
<1>3. HostInv /\ FirstInv => BlobsCrossRight
  BY FirstTypes, CrossRight DEF FirstInv, First, BlobsCrossRight
<1> QED BY <1>1, <1>2, <1>3, HostInvariant, PTL DEF Spec

-----------------------------------------------------------------------------
(* The answer comes.                                                       *)

\* The current connection has a reader.
Reading == process # 0 => process \in reader

\* While a connection lasts its service runs, and nothing on it is cut.
Whole ==
    \A c \in Conns : alive[c] =>
        /\ svc[c] = "running"
        /\ \A n \in 1 .. Len(up[c]) : up[c][n] # Cut

\* Who waits for the current connection is owed an answer there.
Answering ==
    \A j \in Jobs : wPc[j] = "wait" /\ j \in pending /\ alive[process] => UnderWay(process, j)

\* Sequences: what is read is the head, the rest is in the tail; what is written comes
\* on top.
LEMMA RestHas ==
    ASSUME NEW S, NEW s \in Seq(S), s # <<>>, NEW n \in 1 .. Len(s)
    PROVE  Head(s) = s[n] \/ \E m \in 1 .. Len(Tail(s)) : Tail(s)[m] = s[n]
<1>1. /\ Len(Tail(s)) = Len(s) - 1 /\ Head(s) = s[1] /\ Len(s) \in Nat
      /\ \A k \in 1 .. Len(s) - 1 : Tail(s)[k] = s[k + 1]
  BY TailIsRest
<1>2. CASE n = 1
  BY <1>1, <1>2
<1>3. CASE n # 1
  <2>1. n - 1 \in 1 .. Len(s) - 1 /\ n - 1 + 1 = n
    BY <1>1, <1>3
  <2>2. Tail(s)[n - 1] = s[n]
    BY <1>1, <2>1
  <2> QED BY <1>1, <2>1, <2>2
<1> QED BY <1>2, <1>3

LEMMA LongerHas ==
    ASSUME NEW S, NEW s \in Seq(S), NEW fs \in Seq(S)
    PROVE  /\ \A n \in 1 .. Len(s) : \E m \in 1 .. Len(s \o fs) : (s \o fs)[m] = s[n]
           /\ \A n \in 1 .. Len(fs) : \E m \in 1 .. Len(s \o fs) : (s \o fs)[m] = fs[n]
<1>1. ASSUME NEW n \in 1 .. Len(s) PROVE n \in 1 .. Len(s \o fs) /\ (s \o fs)[n] = s[n]
  OBVIOUS
<1>2. ASSUME NEW n \in 1 .. Len(fs)
      PROVE  /\ Len(s) + n \in 1 .. Len(s \o fs)
             /\ (s \o fs)[Len(s) + n] = fs[n]
  OBVIOUS
<1> QED BY <1>1, <1>2

LEMMA LongerFrames ==
    \A s, fs \in Seq(Frames) :
        /\ s \o fs \in Seq(Frames)
        /\ \A n \in 1 .. Len(s) : \E m \in 1 .. Len(s \o fs) : (s \o fs)[m] = s[n]
        /\ \A n \in 1 .. Len(fs) : \E m \in 1 .. Len(s \o fs) : (s \o fs)[m] = fs[n]
<1> TAKE s, fs \in Seq(Frames)
<1>1. s \o fs \in Seq(Frames)
  OBVIOUS
<1> QED BY <1>1, LongerHas

LEMMA WholeInit == Init => Whole
  BY DEF Init, Whole

\* A connection that ends is not whole any more; the others stay as they are.
LEMMA WholeEnded ==
    ASSUME Typed, Whole, NEW c \in Conns, Ended(c), UNCHANGED svc PROVE Whole'
<1>1. ~alive'[c] /\ \A x \in Conns : x # c => alive'[x] = alive[x] /\ up'[x] = up[x]
  BY EndedEffect DEF Typed
<1> QED BY <1>1 DEF Whole

LEMMA WholeStep ==
    ASSUME Typed, LinkFacts, Whole, [Next]_vars PROVE Whole'
<1> USE PipeTypes DEF workerVars, hostVars
<1>1. CASE UNCHANGED <<alive, up, svc>>
  BY <1>1 DEF Whole
<1>2. ASSUME NEW j \in Jobs, Worker(j) PROVE Whole'
  <2>1. ASSUME NEW f, f # Cut, wProc[j] \in Conns, UNCHANGED <<alive, svc>>,
               up' = [up EXCEPT ![wProc[j]] = Append(@, f)]
        PROVE  Whole'
    <3>1. ASSUME NEW c \in Conns, NEW n \in 1 .. Len(up'[c])
          PROVE  up'[c][n] = f \/ (n \in 1 .. Len(up[c]) /\ up'[c][n] = up[c][n])
      BY <2>1
    <3> QED BY <2>1, <3>1 DEF Whole
  <2>2. CASE WriteBlob(j)
    <3>1. PICK d \in wTodo[j] : up' = [up EXCEPT ![wProc[j]] = Append(@, Blob(d))]
      BY <2>2 DEF WriteBlob
    <3>2. Blob(d) # Cut
      BY DEF Blob, Cut
    <3> QED BY <2>1, <2>2, <3>1, <3>2 DEF WriteBlob, Engaged
  <2>3. CASE WriteJob(j)
    <3>1. Job(j) # Cut
      BY DEF Job, Cut
    <3> QED BY <2>1, <2>3, <3>1 DEF WriteJob, Engaged
  <2>4. CASE GiveUp(j)
    BY <2>4, WholeEnded DEF GiveUp, LostConn, Engaged
  <2>5. CASE ~(WriteBlob(j) \/ WriteJob(j) \/ GiveUp(j))
    BY <1>1, <1>2, <2>5 DEF Worker, Dispatch, Begin, Claim, WriteFail, Rollback, Replied
  <2> QED BY <2>2, <2>3, <2>4, <2>5
<1>3. CASE Connecting
  <2>1. CASE ConnStart
    <3>1. /\ conns + 1 \in Conns /\ Len(up[conns + 1]) = 0
          /\ alive' = [alive EXCEPT ![conns + 1] = TRUE]
          /\ svc' = [svc EXCEPT ![conns + 1] = "running"]
          /\ up' = up \/ up' = [up EXCEPT ![conns + 1] = <<Have(sent)>>]
          /\ svc \in [Conns -> {"none", "running", "stopping", "crashed", "gone"}]
      BY <2>1, ConnsAssumption DEF ConnStart, LinkFacts, Links, Conns, Typed, TypeOK
    <3>2. Have(sent) # Cut
      BY DEF Have, Cut
    <3>3. ASSUME NEW c \in Conns, c # conns + 1, alive'[c]
          PROVE  svc'[c] = "running" /\ up'[c] = up[c] /\ alive[c]
      <4>1. svc'[c] = svc[c] /\ up'[c] = up[c] /\ alive[c]
        BY <3>1, <3>3
      <4> QED BY <4>1 DEF Whole
    <3>4. svc'[conns + 1] = "running"
      BY <3>1
    <3>5. \A n \in 1 .. Len(up'[conns + 1]) : up'[conns + 1][n] # Cut
      BY <3>1, <3>2
    <3>6. ASSUME NEW c \in Conns, alive'[c]
          PROVE  svc'[c] = "running" /\ \A n \in 1 .. Len(up'[c]) : up'[c][n] # Cut
      BY <3>3, <3>4, <3>5, <3>6 DEF Whole
    <3> QED BY <3>6 DEF Whole
  <2>2. CASE ConnUp \/ ConnFail
    BY <1>1, <2>2 DEF ConnUp, ConnFail
  <2> QED BY <1>3, <2>1, <2>2 DEF Connecting
<1>4. ASSUME NEW c \in Conns, Reader(c) \/ Break(c) PROVE Whole'
  <2>1. CASE ReadFrame(c)
    BY <1>1, <2>1 DEF ReadFrame
  <2>2. CASE ReadEnd(c) \/ Break(c)
    BY <2>2, WholeEnded DEF ReadEnd, Break, LostConn
  <2> QED BY <1>4, <2>1, <2>2 DEF Reader
<1>5. ASSUME NEW c \in Conns, Service(c) PROVE Whole'
  <2>1. CASE SvcRead(c)
    <3>1. up[c] # <<>> /\ up' = [up EXCEPT ![c] = Tail(@)] /\ alive' = alive
      BY <2>1 DEF SvcRead
    <3>2. /\ Head(up[c]) = up[c][1] /\ 1 \in 1 .. Len(up[c])
          /\ Len(Tail(up[c])) = Len(up[c]) - 1
          /\ \A n \in 1 .. Len(up[c]) - 1 : Tail(up[c])[n] = up[c][n + 1]
      BY <3>1, TailIsRest
    <3>3. alive[c] => svc' = svc
      BY <2>1, <3>2 DEF SvcRead, Whole
    <3>4. ~alive[c] => \A x \in Conns \ {c} : svc'[x] = svc[x]
      BY <2>1 DEF SvcRead, Typed, TypeOK
    <3>5. ASSUME alive[c], NEW n \in 1 .. Len(up'[c]) PROVE up'[c][n] # Cut
      <4>1. n + 1 \in 1 .. Len(up[c]) /\ up'[c][n] = up[c][n + 1]
        BY <3>1, <3>2, <3>5
      <4> QED BY <3>5, <4>1 DEF Whole
    <3>6. ASSUME NEW x \in Conns, alive'[x]
          PROVE  svc'[x] = "running" /\ \A n \in 1 .. Len(up'[x]) : up'[x][n] # Cut
      <4>1. CASE x = c
        BY <3>1, <3>3, <3>5, <3>6, <4>1 DEF Whole
      <4>2. CASE x # c
        BY <3>1, <3>3, <3>4, <3>6, <4>2 DEF Whole
      <4> QED BY <4>1, <4>2
    <3> QED BY <3>6 DEF Whole
  <2>2. CASE SvcEof(c) \/ SvcGone(c)
    <3>1. /\ ~alive[c] /\ UNCHANGED <<alive, up>>
          /\ \A x \in Conns \ {c} : svc'[x] = svc[x]
      BY <2>2 DEF SvcEof, SvcGone, Whole, Typed, TypeOK
    <3> QED BY <3>1 DEF Whole
  <2> QED BY <1>5, <2>1, <2>2 DEF Service
<1>6. ASSUME NEW i \in insts, Running(i) PROVE Whole'
  BY <1>1, <1>6 DEF Running, JobStart, JobOk, JobFail, JobLeave
<1>7. CASE UNCHANGED vars
  BY <1>1, <1>7 DEF vars
<1> QED BY <1>2, <1>3, <1>4, <1>5, <1>6, <1>7 DEF Next

\* The reader of the current connection leaves only when it has given it up.
LEMMA ReadingStep ==
    ASSUME WaitInv, Typed, Reading, [Next]_vars PROVE Reading'
<1> USE DEF workerVars, hostVars
<1>1. CASE UNCHANGED <<process, reader>>
  BY <1>1 DEF Reading
<1>2. ASSUME NEW j \in Jobs, Worker(j) PROVE Reading'
  <2>1. reader' = reader /\ (process' = process \/ process' = 0)
    BY <1>2 DEF Worker, Dispatch, Begin, Claim, WriteFail, WriteBlob, WriteJob, Rollback, GiveUp,
                Replied, LostConn
  <2> QED BY <2>1 DEF Reading
<1>3. CASE Connecting
  BY <1>3 DEF Connecting, ConnStart, ConnUp, ConnFail, Reading
<1>4. ASSUME NEW c \in Conns, Reader(c) \/ Break(c) PROVE Reading'
  <2>1. CASE ReadEnd(c)
    BY <2>1 DEF ReadEnd, LostConn, Reading
  <2>2. CASE ReadFrame(c) \/ Break(c)
    BY <1>1, <2>2 DEF ReadFrame, Break
  <2> QED BY <1>4, <2>1, <2>2 DEF Reader
<1>5. ASSUME NEW c \in Conns, Service(c) PROVE Reading'
  BY <1>1, <1>5 DEF Service, SvcRead, SvcEof, SvcGone
<1>6. ASSUME NEW i \in insts, Running(i) PROVE Reading'
  BY <1>1, <1>6 DEF Running, JobStart, JobOk, JobFail, JobLeave
<1>7. CASE UNCHANGED vars
  BY <1>1, <1>7 DEF vars
<1> QED BY <1>2, <1>3, <1>4, <1>5, <1>6, <1>7 DEF Next

\* In the pool of service c and not over yet; answered on connection c.
Pooled(c, j) == \E i \in insts : i.c = c /\ i.j = j /\ i.st # "leaving"
Answered(c, j) ==
    \E n \in 1 .. Len(down[c]) : down[c][n].t \in {"result", "missing"} /\ down[c][n].j = j

LEMMA AnsweredKept ==
    ASSUME NEW c \in Conns, NEW j \in Jobs, down[c] \in Seq(Frames), Answered(c, j),
           down'[c] = down[c] \/ \E fs \in Seq(Frames) : down'[c] = down[c] \o fs
    PROVE  Answered(c, j)'
<1>1. CASE down'[c] = down[c]
  BY <1>1 DEF Answered
<1>2. ASSUME NEW fs \in Seq(Frames), down'[c] = down[c] \o fs PROVE Answered(c, j)'
  <2>1. PICK n \in 1 .. Len(down[c]) : down[c][n].t \in {"result", "missing"} /\ down[c][n].j = j
    BY DEF Answered
  <2>2. PICK m \in 1 .. Len(down[c] \o fs) : (down[c] \o fs)[m] = down[c][n]
    BY LongerFrames
  <2> QED BY <1>2, <2>1, <2>2 DEF Answered
<1> QED BY <1>1, <1>2

\* What is under way stays so when the pipes only get longer and the pool only lets go of
\* what it answers.
LEMMA UnderWayGrows ==
    ASSUME Typed, NEW c \in Conns, NEW j \in Jobs, UnderWay(c, j),
           up'[c] = up[c] \/ \E fs \in Seq(Frames) : up'[c] = up[c] \o fs,
           down'[c] = down[c] \/ \E fs \in Seq(Frames) : down'[c] = down[c] \o fs,
           Pooled(c, j) => Pooled(c, j)' \/ Answered(c, j)'
    PROVE  UnderWay(c, j)'
<1>1. up[c] \in Seq(Frames) /\ down[c] \in Seq(Frames)
  BY PipeTypes
<1>2. CASE \E n \in 1 .. Len(up[c]) : up[c][n] = Job(j)
  <2>1. CASE up'[c] = up[c]
    BY <1>2, <2>1 DEF UnderWay
  <2>2. ASSUME NEW fs \in Seq(Frames), up'[c] = up[c] \o fs PROVE UnderWay(c, j)'
    <3>1. \E m \in 1 .. Len(up[c] \o fs) : (up[c] \o fs)[m] = Job(j)
      BY <1>1, <1>2, LongerFrames
    <3> QED BY <2>2, <3>1 DEF UnderWay
  <2> QED BY <2>1, <2>2
<1>3. CASE Pooled(c, j)
  BY <1>3 DEF UnderWay, Pooled, Answered
<1>4. CASE Answered(c, j)
  <2>1. Answered(c, j)'
    BY <1>1, <1>4, AnsweredKept
  <2> QED BY <2>1 DEF UnderWay, Answered
<1> QED BY <1>2, <1>3, <1>4 DEF UnderWay, Pooled, Answered

\* What an answer is.
LEMMA AnswerMade ==
    /\ \A ds : \A j \in Jobs : Missing(j, ds).t = "missing" /\ Missing(j, ds).j = j
    /\ \A rc : \A j \in Jobs : Result(j, rc).t = "result" /\ Result(j, rc).j = j
  BY DEF Missing, Result

\* The service reads the frame of a job into its pool.
LEMMA UnderWayRead ==
    ASSUME Typed, NEW c \in Conns, NEW j \in Jobs, alive[c], UnderWay(c, j), SvcRead(c)
    PROVE  UnderWay(c, j)'
<1> DEFINE f == Head(up[c])
<1>1. /\ up[c] \in Seq(Frames) /\ down[c] \in Seq(Frames) /\ up[c] # <<>>
      /\ up'[c] = Tail(up[c])
  BY PipeTypes DEF SvcRead
<1>2. \/ f.t # "job" /\ insts' = insts
      \/ f.t = "job" /\ insts' = insts \cup {NewInst(c, f.j)}
  BY DEF SvcRead, Cut
<1>3. down'[c] = down[c] \/ \E fs \in Seq(Frames) : down'[c] = down[c] \o fs
  <2>1. CASE down' = down
    BY <2>1
  <2>2. CASE Written(c, <<Have(f.ds \cap hostCas)>>)
    <3>1. f \in Frames
      BY <1>1, TailIsRest
    <3>2. Have(f.ds \cap hostCas) \in Frames
      BY FrameMade DEF Typed, TypeOK
    <3>3. <<Have(f.ds \cap hostCas)>> \in Seq(Frames)
      BY <3>2
    <3> QED BY <2>2, <3>3, WrittenEffect DEF Typed
  <2> QED BY <2>1, <2>2 DEF SvcRead
<1> HIDE DEF f
<1>4. CASE \E n \in 1 .. Len(up[c]) : up[c][n] = Job(j)
  <2>1. f = Job(j) \/ \E m \in 1 .. Len(Tail(up[c])) : Tail(up[c])[m] = Job(j)
    BY <1>1, <1>4, RestHas DEF f
  <2>2. CASE f = Job(j)
    <3>1. f.t = "job" /\ f.j = j
      BY <2>2 DEF Job
    <3>2. NewInst(c, j) \in insts' /\ NewInst(c, j).c = c /\ NewInst(c, j).j = j
          /\ NewInst(c, j).st # "leaving"
      BY <1>2, <3>1, InstTyped DEF Typed
    <3> QED BY <3>2 DEF UnderWay
  <2>3. CASE \E m \in 1 .. Len(Tail(up[c])) : Tail(up[c])[m] = Job(j)
    BY <1>1, <2>3 DEF UnderWay
  <2> QED BY <2>1, <2>2, <2>3
<1>5. CASE Pooled(c, j)
  <2>1. Pooled(c, j)'
    BY <1>2, <1>5 DEF Pooled
  <2> QED BY <2>1 DEF UnderWay, Pooled
<1>6. CASE Answered(c, j)
  <2>1. Answered(c, j)'
    BY <1>1, <1>3, <1>6, AnsweredKept
  <2> QED BY <2>1 DEF UnderWay, Answered
<1> QED BY <1>4, <1>5, <1>6 DEF UnderWay, Pooled, Answered

\* A job leaves the pool with its answer.
LEMMA UnderWayRunning ==
    ASSUME Typed, NEW c \in Conns, NEW j \in Jobs, alive[c], UnderWay(c, j),
           NEW i \in insts, Running(i)
    PROVE  UnderWay(c, j)'
<1>1. i.c \in Conns /\ i.j \in Jobs /\ insts \subseteq Insts /\ down[c] \in Seq(Frames)
      /\ up' = up
  BY PipeTypes DEF Typed, TypeOK, Running, JobStart, JobOk, JobFail, JobLeave
<1>2. ASSUME NEW fs \in Seq(Frames), Written(i.c, fs), Leaving(i),
             \E n \in 1 .. Len(fs) : fs[n].t \in {"result", "missing"} /\ fs[n].j = i.j
      PROVE  UnderWay(c, j)'
  <2>1. down'[c] = down[c] \/ down'[c] = down[c] \o fs
    BY <1>1, <1>2, WrittenEffect DEF Typed
  <2>2. i.c = c => down'[c] = down[c] \o fs
    BY <1>1, <1>2, WrittenEffect DEF Typed
  <2>3. ASSUME i.c = c, i.j = j PROVE Answered(c, j)'
    <3>1. PICK n \in 1 .. Len(fs) : fs[n].t \in {"result", "missing"} /\ fs[n].j = j
      BY <1>2, <2>3
    <3>a. \A k \in 1 .. Len(fs) : \E m \in 1 .. Len(down[c] \o fs) : (down[c] \o fs)[m] = fs[k]
      BY <1>1, LongerFrames
    <3>2. PICK m \in 1 .. Len(down[c] \o fs) : (down[c] \o fs)[m] = fs[n]
      BY <3>a
    <3> QED BY <2>2, <2>3, <3>1, <3>2 DEF Answered
  <2>4. \A x \in insts \ {i} : x \in insts'
    BY <1>2 DEF Leaving
  <2>5. Pooled(c, j) => Pooled(c, j)' \/ Answered(c, j)'
    BY <2>3, <2>4 DEF Pooled
  <2> QED BY <1>1, <1>2, <2>1, <2>5, UnderWayGrows
<1>3. CASE JobStart(i)
  <2> DEFINE missing == Inputs[i.j] \ hostCas
  <2>1. CASE missing # {}
    <3>1. Missing(i.j, missing) \in Frames
      BY <1>1, FrameMade, JobsAssumption
    <3>2. <<Missing(i.j, missing)>> \in Seq(Frames) /\ Len(<<Missing(i.j, missing)>>) = 1
          /\ <<Missing(i.j, missing)>>[1] = Missing(i.j, missing)
      BY <3>1
    <3>3. Written(i.c, <<Missing(i.j, missing)>>) /\ Leaving(i)
      BY <1>3, <2>1 DEF JobStart
    <3> HIDE DEF missing
    <3>4. \E n \in 1 .. Len(<<Missing(i.j, missing)>>) :
            /\ <<Missing(i.j, missing)>>[n].t \in {"result", "missing"}
            /\ <<Missing(i.j, missing)>>[n].j = i.j
      BY <1>1, <3>2, AnswerMade
    <3> QED BY <1>2, <3>2, <3>3, <3>4
  <2>2. CASE missing = {}
    <3>1. insts' = (insts \ {i}) \cup {[i EXCEPT !.st = "running"]} /\ down' = down
      BY <1>3, <2>2 DEF JobStart
    <3>2. [i EXCEPT !.st = "running"].c = i.c /\ [i EXCEPT !.st = "running"].j = i.j
          /\ [i EXCEPT !.st = "running"].st = "running"
      BY <1>1 DEF Insts
    <3>3. Pooled(c, j) => Pooled(c, j)'
      BY <3>1, <3>2 DEF Pooled
    <3> QED BY <1>1, <3>1, <3>3, UnderWayGrows
  <2> QED BY <2>1, <2>2
<1>4. CASE JobOk(i)
  <2>1. Blob(Output[i.j]) \in Frames /\ Result(i.j, 0) \in Frames
    BY <1>1, FrameMade, JobsAssumption
  <2>2. Batch(i.j) \in Seq(Frames) /\ Len(Batch(i.j)) = 2 /\ Batch(i.j)[2] = Result(i.j, 0)
    BY <2>1 DEF Batch
  <2>3. Batch(i.j)[2].t \in {"result", "missing"} /\ Batch(i.j)[2].j = i.j /\ 2 \in 1 .. 2
    BY <1>1, <2>2, AnswerMade
  <2>4. Written(i.c, Batch(i.j)) /\ Leaving(i)
    BY <1>4 DEF JobOk
  <2> QED BY <1>2, <2>2, <2>3, <2>4
<1>5. CASE JobFail(i)
  <2>1. Result(i.j, 1) \in Frames
    BY <1>1, FrameMade
  <2>2. <<Result(i.j, 1)>> \in Seq(Frames) /\ Len(<<Result(i.j, 1)>>) = 1
        /\ <<Result(i.j, 1)>>[1] = Result(i.j, 1)
    BY <2>1
  <2>3. \E n \in 1 .. Len(<<Result(i.j, 1)>>) :
          /\ <<Result(i.j, 1)>>[n].t \in {"result", "missing"}
          /\ <<Result(i.j, 1)>>[n].j = i.j
    BY <1>1, <2>2, AnswerMade
  <2>4. Written(i.c, <<Result(i.j, 1)>>) /\ Leaving(i)
    BY <1>5 DEF JobFail
  <2> QED BY <1>2, <2>2, <2>3, <2>4
<1>6. CASE JobLeave(i)
  <2>1. down' = down /\ Pooled(c, j) => Pooled(c, j)'
    BY <1>6 DEF JobLeave, Pooled
  <2> QED BY <1>1, <1>6, <2>1, UnderWayGrows DEF JobLeave
<1> QED BY <1>3, <1>4, <1>5, <1>6 DEF Running

\* While a connection is the current one and lasts, what is under way on it for a worker
\* that is registered stays so: only the answer ends it.
LEMMA UnderWayKept ==
    ASSUME Typed, LinkFacts, NEW c \in Conns, NEW j \in Jobs, UnderWay(c, j), process = c,
           alive[c], alive'[c], j \in pending, j \in pending', [Next]_vars
    PROVE  UnderWay(c, j)'
<1> USE DEF workerVars, hostVars
<1>a. up \in [Conns -> Seq(Frames)] /\ down \in [Conns -> Seq(Frames)] /\ c # 0
  BY PipeTypes
<1>1. ASSUME up'[c] = up[c], down'[c] = down[c], Pooled(c, j) => Pooled(c, j)'
      PROVE  UnderWay(c, j)'
  BY <1>1, UnderWayGrows
<1>2. ASSUME NEW x \in Conns, Ended(x), insts' = insts PROVE UnderWay(c, j)'
  <2>1. x # c
    BY <1>2, EndedEffect DEF Typed
  <2>2. up'[c] = up[c] /\ down'[c] = down[c]
    BY <1>2, <2>1, EndedEffect DEF Typed
  <2> QED BY <1>1, <1>2, <2>2 DEF Pooled
<1>3. ASSUME NEW x \in Jobs, Worker(x) PROVE UnderWay(c, j)'
  <2>1. ASSUME NEW y \in Conns, NEW f \in Frames, up' = [up EXCEPT ![y] = Append(@, f)],
               down' = down, insts' = insts
        PROVE  UnderWay(c, j)'
    <3>1. up'[c] = up[c] \/ up'[c] = up[c] \o <<f>>
      BY <1>a, <2>1
    <3>2. <<f>> \in Seq(Frames)
      OBVIOUS
    <3> QED BY <2>1, <3>1, <3>2, UnderWayGrows DEF Pooled
  <2>2. CASE WriteBlob(x)
    <3>1. wProc[x] \in Conns /\ down' = down /\ insts' = insts
      BY <2>2, PipeTypes DEF WriteBlob, Engaged
    <3>2. PICK d \in wTodo[x] : up' = [up EXCEPT ![wProc[x]] = Append(@, Blob(d))]
      BY <2>2 DEF WriteBlob
    <3>3. Blob(d) \in Frames
      BY FrameMade DEF Typed, TypeOK
    <3> QED BY <2>1, <3>1, <3>2, <3>3
  <2>3. CASE WriteJob(x)
    <3>1. wProc[x] \in Conns /\ down' = down /\ insts' = insts
          /\ up' = [up EXCEPT ![wProc[x]] = Append(@, Job(x))]
      BY <2>3, PipeTypes DEF WriteJob, Engaged
    <3> QED BY <2>1, <3>1, FrameMade
  <2>4. CASE GiveUp(x)
    <3>1. wProc[x] \in Conns /\ Ended(wProc[x]) /\ insts' = insts
      BY <2>4, PipeTypes DEF GiveUp, LostConn, Engaged
    <3> QED BY <1>2, <3>1
  <2>5. CASE ~(WriteBlob(x) \/ WriteJob(x) \/ GiveUp(x))
    <3>1. UNCHANGED <<up, down, insts>>
      BY <1>3, <2>5 DEF Worker, Dispatch, Begin, Claim, WriteFail, Rollback, Replied
    <3> QED BY <1>1, <3>1 DEF Pooled
  <2> QED BY <2>2, <2>3, <2>4, <2>5
<1>4. ~Connecting
  BY <1>a DEF Connecting, ConnStart, ConnUp, ConnFail, LinkFacts, Links
<1>5. ASSUME NEW x \in Conns, Reader(x) \/ Break(x) PROVE UnderWay(c, j)'
  <2>1. CASE ReadFrame(x)
    <3>1. up' = up /\ insts' = insts /\ down' = [down EXCEPT ![x] = Tail(@)] /\ down[x] # <<>>
      BY <2>1 DEF ReadFrame
    <3>2. CASE x # c
      BY <1>a, <1>1, <3>1, <3>2 DEF Pooled
    <3>3. CASE x = c
      <4>1. down[c] \in Seq(Frames) /\ down[c] # <<>> /\ down'[c] = Tail(down[c])
        BY <1>a, <3>1, <3>3
      <4>2. ~(Head(down[c]).t \in {"result", "missing"} /\ Head(down[c]).j = j)
        BY <2>1, <3>3 DEF ReadFrame
      <4>3. Answered(c, j) => Answered(c, j)'
        <5>1. ASSUME NEW n \in 1 .. Len(down[c]), down[c][n].t \in {"result", "missing"},
                     down[c][n].j = j
              PROVE  Answered(c, j)'
          <6>1. Head(down[c]) = down[c][n]
                \/ \E m \in 1 .. Len(Tail(down[c])) : Tail(down[c])[m] = down[c][n]
            BY <4>1, RestHas
          <6>2. PICK m \in 1 .. Len(Tail(down[c])) : Tail(down[c])[m] = down[c][n]
            BY <4>2, <5>1, <6>1
          <6> QED BY <4>1, <5>1, <6>2 DEF Answered
        <5> QED BY <5>1 DEF Answered
      <4> QED BY <3>1, <4>3 DEF UnderWay, Answered
    <3> QED BY <3>2, <3>3
  <2>2. CASE ReadEnd(x) \/ Break(x)
    <3>1. Ended(x) /\ insts' = insts
      BY <2>2 DEF ReadEnd, Break, LostConn
    <3> QED BY <1>2, <3>1
  <2> QED BY <1>5, <2>1, <2>2 DEF Reader
<1>6. ASSUME NEW x \in Conns, Service(x) PROVE UnderWay(c, j)'
  <2>1. CASE SvcRead(x) /\ x = c
    BY <2>1, UnderWayRead
  <2>2. CASE SvcRead(x) /\ x # c
    <3>1. up'[c] = up[c]
      BY <1>a, <2>2 DEF SvcRead
    <3>2. down'[c] = down[c]
      BY <1>a, <2>2 DEF SvcRead, Written
    <3>3. insts \subseteq insts'
      BY <2>2 DEF SvcRead
    <3> QED BY <1>1, <3>1, <3>2, <3>3 DEF Pooled
  <2>3. CASE SvcEof(x)
    <3>1. x # c /\ up' = up /\ down' = down
      BY <2>3 DEF SvcEof
    <3>2. \A i \in insts : i.c = c => i \in insts'
      <4>1. PICK killed \in SUBSET {i \in insts : i.c = x /\ i.st = "running"} :
              insts' = {IF i \in killed THEN [i EXCEPT !.st = "killed"] ELSE i :
                        i \in {z \in insts : z.c # x \/ z.st # "queued"}}
        BY <2>3 DEF SvcEof
      <4> QED BY <3>1, <4>1
    <3> QED BY <1>1, <3>1, <3>2 DEF Pooled
  <2>4. CASE SvcGone(x)
    BY <1>1, <2>4 DEF SvcGone, Pooled
  <2> QED BY <1>6, <2>1, <2>2, <2>3, <2>4 DEF Service
<1>7. ASSUME NEW i \in insts, Running(i) PROVE UnderWay(c, j)'
  BY <1>7, UnderWayRunning
<1>8. CASE UNCHANGED vars
  BY <1>1, <1>8 DEF vars, Pooled
<1> QED BY <1>3, <1>4, <1>5, <1>6, <1>7, <1>8 DEF Next

\* A worker that waits for the current connection after a step did so before it, or has
\* just written its frame there.
LEMMA WaitsOn ==
    ASSUME Typed, LinkFacts, WaitInv, [Next]_vars, NEW j \in Jobs, wPc'[j] = "wait",
           j \in pending', process' # 0
    PROVE  /\ j \in pending /\ process \in Conns /\ wProc[j] = process /\ process' = process
           /\ alive'[process] => alive[process]
           /\ wPc[j] = "wait" \/ WriteJob(j)
<1> USE DEF workerVars, hostVars
<1>a. alive \in [Conns -> BOOLEAN] /\ wPc \in [Jobs -> WorkerStates]
  BY DEF Typed, TypeOK
<1>1. j \in pending /\ (wPc[j] = "wait" \/ WriteJob(j))
  <2>1. ASSUME NEW x \in Jobs, Worker(x) PROVE j \in pending /\ (wPc[j] = "wait" \/ WriteJob(j))
    <3>1. CASE Begin(x)
      BY <1>a, <3>1 DEF Begin, Connected
    <3>2. CASE WriteJob(x)
      BY <1>a, <3>2 DEF WriteJob
    <3>3. CASE GiveUp(x)
      BY <1>a, <3>3 DEF GiveUp, LostConn
    <3>4. CASE Replied(x)
      BY <1>a, <3>4 DEF Replied
    <3>5. CASE ~(Begin(x) \/ WriteJob(x) \/ GiveUp(x) \/ Replied(x))
      BY <1>a, <2>1, <3>5 DEF Worker, Dispatch, Claim, WriteFail, WriteBlob, Rollback
    <3> QED BY <3>1, <3>2, <3>3, <3>4, <3>5
  <2>2. CASE Connecting
    BY <2>2 DEF Connecting, ConnStart, ConnUp, ConnFail
  <2>3. ASSUME NEW c \in Conns, Reader(c) \/ Service(c) \/ Break(c)
        PROVE  wPc' = wPc /\ pending' \subseteq pending
    BY <2>3 DEF Reader, ReadFrame, ReadEnd, LostConn, Service, SvcRead, SvcEof, SvcGone, Break
  <2>4. ASSUME NEW i \in insts, Running(i) PROVE wPc' = wPc /\ pending' = pending
    BY <2>4 DEF Running, JobStart, JobOk, JobFail, JobLeave
  <2>5. CASE UNCHANGED vars
    BY <2>5 DEF vars
  <2> QED BY <2>1, <2>2, <2>3, <2>4, <2>5 DEF Next
<1>2. process # 0 /\ process \in Conns /\ wProc[j] = process /\ connPc = "idle"
  BY <1>1, PipeTypes DEF WaitInv, Registered, LinkFacts, Links
<1>3. process' = process /\ (alive'[process] => alive[process])
  <2>1. ASSUME NEW x \in Conns, Ended(x) PROVE alive'[process] => alive[process]
    BY <1>2, <2>1, EndedEffect DEF Typed
  <2>2. ASSUME NEW x \in Jobs, Worker(x)
        PROVE  process' = process /\ (alive'[process] => alive[process])
    <3>1. CASE GiveUp(x)
      <4>1. wProc[x] \in Conns /\ LostConn(wProc[x])
        BY <3>1, PipeTypes DEF GiveUp, Engaged
      <4> QED BY <2>1, <4>1 DEF LostConn
    <3>2. CASE ~GiveUp(x)
      BY <2>2, <3>2 DEF Worker, Dispatch, Begin, Claim, WriteFail, WriteBlob, WriteJob, Rollback,
                        Replied
    <3> QED BY <3>1, <3>2
  <2>3. ~Connecting
    BY <1>2 DEF Connecting, ConnStart, ConnUp, ConnFail
  <2>4. ASSUME NEW c \in Conns, Reader(c) \/ Service(c) \/ Break(c)
        PROVE  process' = process /\ (alive'[process] => alive[process])
    <3>1. CASE ReadEnd(c) \/ Break(c)
      BY <2>1, <3>1 DEF ReadEnd, Break, LostConn
    <3>2. CASE ReadFrame(c) \/ Service(c)
      BY <3>2 DEF ReadFrame, Service, SvcRead, SvcEof, SvcGone
    <3> QED BY <2>4, <3>1, <3>2 DEF Reader
  <2>5. ASSUME NEW i \in insts, Running(i)
        PROVE  process' = process /\ (alive'[process] => alive[process])
    BY <2>5 DEF Running, JobStart, JobOk, JobFail, JobLeave
  <2>6. CASE UNCHANGED vars
    BY <2>6 DEF vars
  <2> QED BY <2>2, <2>3, <2>4, <2>5, <2>6 DEF Next
<1> QED BY <1>1, <1>2, <1>3

LEMMA AnsweringStep ==
    ASSUME Typed, LinkFacts, WaitInv, WaitInv', Answering, [Next]_vars PROVE Answering'
<1> SUFFICES ASSUME NEW j \in Jobs, wPc'[j] = "wait", j \in pending', alive'[process']
             PROVE  UnderWay(process, j)'
  BY DEF Answering
<1>1. process' # 0
  BY DEF WaitInv, Registered
<1>2. /\ j \in pending /\ process \in Conns /\ wProc[j] = process /\ process' = process
      /\ alive[process] /\ (wPc[j] = "wait" \/ WriteJob(j))
  BY <1>1, WaitsOn
<1>3. CASE wPc[j] = "wait"
  <2>1. UnderWay(process, j)
    BY <1>2, <1>3 DEF Answering
  <2>2. ASSUME NEW c \in Conns, c = process PROVE UnderWay(c, j)'
    BY <1>2, <2>1, <2>2, UnderWayKept
  <2>3. ASSUME NEW c \in Conns, c = process' PROVE UnderWay(c, j)'
    BY <1>2, <2>2, <2>3
  <2> QED BY <1>2, <2>3 DEF UnderWay
<1>4. CASE WriteJob(j)
  <2>1. up'[process] = Append(up[process], Job(j)) /\ up[process] \in Seq(Frames)
    BY <1>2, <1>4, PipeTypes DEF WriteJob
  <2>2. Len(up'[process]) \in 1 .. Len(up'[process]) /\ up'[process][Len(up'[process])] = Job(j)
    BY <2>1
  <2> QED BY <1>2, <2>2 DEF UnderWay
<1> QED BY <1>2, <1>3, <1>4

\* A worker of RemoteHost.execute is never left behind: it has its reply, or it is
\* registered with the current connection, whose reader will find its end and whose
\* service, as long as it lasts, runs and owes the answer (build:2559-2587, 2213-2256).
THEOREM NoOneWaitsInVain == Spec => []NoWorkerForgotten
<1>1. Init => Reading /\ Whole /\ Answering
  BY WholeInit DEF Init, Reading, Answering
<1>2. HostInv /\ WaitInv /\ WaitInv' /\ Reading /\ Whole /\ Answering /\ [Next]_vars
      => Reading' /\ Whole' /\ Answering'
  BY ReadingStep, WholeStep, AnsweringStep DEF HostInv
<1>3. HostInv /\ WaitInv /\ Reading /\ Whole /\ Answering => NoWorkerForgotten
  BY PipeTypes DEF HostInv, WaitInv, Registered, Reading, Whole, Answering, NoWorkerForgotten
<1> QED BY <1>1, <1>2, <1>3, HostInvariant, WaitHolds, PTL DEF Spec

=============================================================================
