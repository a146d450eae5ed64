------------------------------ MODULE DistHost ------------------------------
(***************************************************************************)
(* One host of `build --dist`: the RemoteHost of the controller with its   *)
(* worker, reader and reconnect threads, the ssh connections to the host,  *)
(* and the ExecService that runs at the far end of each of them.           *)
(*                                                                         *)
(* A connection is a pair of pipes; when it breaks, each end still reads a *)
(* prefix of what was written.  All services of a build share one session  *)
(* directory: its cache, and one work directory per job.  A job runs with  *)
(* its inputs and yields one output; contents are known by their digests.  *)
(***************************************************************************)
EXTENDS Integers, Sequences, FiniteSets

CONSTANTS
    Jobs,       \* the nodes given to this host, by uid
    Digests,
    Inputs,     \* the digests of a job's inputs
    Output,     \* the digest of a job's output
    BadJobs,    \* the jobs whose command fails
    MaxConns,   \* bound: connections ever made; the last one does not break
    None

ASSUME JobsAssumption ==
    /\ Inputs \in [Jobs -> SUBSET Digests] /\ Output \in [Jobs -> Digests]
    /\ BadJobs \subseteq Jobs /\ None \notin Jobs
ASSUME ConnsAssumption == MaxConns \in Nat \ {0}

Conns == 1 .. MaxConns

\* The digests of files that no job makes.
Sources == Digests \ {Output[j] : j \in Jobs}

\* The jobs whose outputs job j takes in.
Deps(j) == {k \in Jobs : Output[k] \in Inputs[j]}

VARIABLES
    \* the controller
    process,    \* RemoteHost.process: a connection, 0 for None
    sent,       \* RemoteHost.sent
    pending,    \* jobs with an entry in RemoteHost.pending
    lock,       \* the worker that holds write_lock, or None
    wPc, wProc, wNeeded, wTodo, wReply, \* execute: one worker per job
    conns,      \* connections made so far
    connPc,     \* the reconnect thread
    reader,     \* the connections with a reader thread
    localCas,   \* the controller's cache
    \* the connections
    alive, up, down,
    \* the host
    svc,        \* the ExecService of a connection
    insts,      \* jobs in the pools of the services: [c, j, k, st]
    hostCas,    \* the cache of the session
    work        \* the job in a pool whose files the work directory of its uid holds

workerVars == <<wPc, wProc, wNeeded, wTodo, wReply>>
hostVars == <<svc, insts, hostCas, work>>
vars == <<process, sent, pending, lock, workerVars, conns, connPc, reader, localCas,
          alive, up, down, hostVars>>

Blob(d) == [t |-> "blob", d |-> d]
Job(j) == [t |-> "job", j |-> j]
Have(ds) == [t |-> "have", ds |-> ds]
Missing(j, ds) == [t |-> "missing", j |-> j, ds |-> ds]
Result(j, rc) == [t |-> "result", j |-> j, rc |-> rc]
NoReply == [t |-> "none"]
Lost == [t |-> "lost"]
Cut == [t |-> "cut"]        \* the payload of a blob ends too early

Init ==
    /\ process = 0 /\ sent = {} /\ pending = {} /\ lock = None
    /\ wPc = [j \in Jobs |-> "ready"]
    /\ wProc = [j \in Jobs |-> 0]
    /\ wNeeded = [j \in Jobs |-> {}]
    /\ wTodo = [j \in Jobs |-> {}]
    /\ wReply = [j \in Jobs |-> NoReply]
    /\ conns = 0 /\ connPc = "start" /\ reader = {}
    /\ localCas = Sources
    /\ alive = [c \in Conns |-> FALSE]
    /\ up = [c \in Conns |-> <<>>]
    /\ down = [c \in Conns |-> <<>>]
    /\ svc = [c \in Conns |-> "none"]
    /\ insts = {} /\ hostCas = {}
    /\ work = [j \in Jobs |-> None]

-----------------------------------------------------------------------------
(* The connections.                                                        *)

Prefixes(s) == {SubSeq(s, 1, n) : n \in 0 .. Len(s)}

\* What an end can still read of s: a prefix, the last blob of it cut or not.
Remains(s) ==
    Prefixes(s) \cup
    {Append(SubSeq(s, 1, n - 1), Cut) : n \in {m \in 1 .. Len(s) : s[m].t = "blob"}}

\* Connection c ends: the network, or the controller kills its ssh.
Ended(c) ==
    IF alive[c]
    THEN /\ alive' = [alive EXCEPT ![c] = FALSE]
         /\ \E s \in Remains(up[c]) : up' = [up EXCEPT ![c] = s]
         /\ \E s \in Prefixes(down[c]) : down' = [down EXCEPT ![c] = s]
    ELSE UNCHANGED <<alive, up, down>>

Break(c) ==
    /\ c < MaxConns /\ alive[c]
    /\ Ended(c)
    /\ UNCHANGED <<process, sent, pending, lock, workerVars, conns, connPc, reader, localCas,
                   hostVars>>

-----------------------------------------------------------------------------
(* RemoteHost: connecting.                                                 *)

\* _connect: ssh starts a service, which says hello; the ledger is sent for
\* the host to check, unless it is empty.
ConnStart ==
    /\ connPc = "start" /\ conns < MaxConns
    /\ conns' = conns + 1
    /\ alive' = [alive EXCEPT ![conns'] = TRUE]
    /\ svc' = [svc EXCEPT ![conns'] = "running"]
    /\ up' = IF sent = {} THEN up ELSE [up EXCEPT ![conns'] = <<Have(sent)>>]
    /\ down' = IF sent = {} THEN [down EXCEPT ![conns'] = <<Have({})>>] ELSE down
    /\ connPc' = "have"
    /\ UNCHANGED <<process, sent, pending, lock, workerVars, reader, localCas,
                   insts, hostCas, work>>

\* The ledger after the host has checked it.
Kept(frame) == frame.ds

\* The connection is published and gets its reader.
ConnUp ==
    /\ connPc = "have" /\ down[conns] # <<>>
    /\ process' = conns
    /\ sent' = Kept(Head(down[conns]))
    /\ down' = [down EXCEPT ![conns] = Tail(@)]
    /\ reader' = reader \cup {conns}
    /\ connPc' = "idle"
    /\ UNCHANGED <<pending, lock, workerVars, conns, localCas, alive, up, hostVars>>

\* Fault: the reconnect thread leaves when it cannot connect.
NoRetry == "idle"

\* The reconnect thread after a failure.
Retry == "start"

\* The connection ends before the host has answered: ssh is killed and the
\* loop tries again.
ConnFail ==
    /\ connPc = "have" /\ down[conns] = <<>> /\ ~alive[conns]
    /\ connPc' = Retry
    /\ UNCHANGED <<process, sent, pending, lock, workerVars, conns, reader, localCas,
                   alive, up, down, hostVars>>

\* Fault: the connection is dropped and nobody is told.
Untold == wReply

\* The replies when a connection is lost: everyone who waits is told.
Told == [j \in Jobs |-> IF j \in pending THEN Lost ELSE wReply[j]]

\* _lost(c): nothing if c is not the current connection any more, else every
\* worker that waits is told and the reconnect thread is started.
LostConn(c) ==
    /\ Ended(c)
    /\ IF process = c
       THEN /\ process' = 0 /\ pending' = {} /\ connPc' = "start"
            /\ wReply' = Told
       ELSE UNCHANGED <<process, pending, connPc, wReply>>

-----------------------------------------------------------------------------
(* RemoteHost.execute and _execute_remote: the worker of job j.            *)

\* _pick gives a job whose dependencies are done to the host, which has slots
\* while it is connected.
Dispatch(j) ==
    /\ wPc[j] = "ready" /\ process # 0
    /\ \A k \in Deps(j) : wPc[k] = "done"
    /\ wPc' = [wPc EXCEPT ![j] = "begin"]
    /\ UNCHANGED <<process, sent, pending, lock, wProc, wNeeded, wTodo, wReply, conns, connPc,
                   reader, localCas, alive, up, down, hostVars>>

\* Fault: the connection is taken to be there since the job was given out.
StillConnected == TRUE

Connected == process # 0

\* A reply is registered with the connection of this moment; without one the
\* job is requeued.
Begin(j) ==
    /\ wPc[j] = "begin"
    /\ \/ /\ Connected
          /\ pending' = pending \cup {j}
          /\ wProc' = [wProc EXCEPT ![j] = process]
          /\ wReply' = [wReply EXCEPT ![j] = NoReply]
          /\ wPc' = [wPc EXCEPT ![j] = "claim"]
       \/ /\ ~Connected
          /\ wPc' = [wPc EXCEPT ![j] = "ready"]
          /\ UNCHANGED <<pending, wProc, wReply>>
    /\ UNCHANGED <<process, sent, lock, wNeeded, wTodo, conns, connPc, reader, localCas,
                   alive, up, down, hostVars>>

\* Fault: blobs are claimed before the write lock is taken.
MayClaimEarly == TRUE

\* Blobs are claimed under the write lock.
MayClaim == lock = None

\* Fault: the ledger learns of a blob from the host's answer only.
Unclaimed(ds) == sent

\* The ledger with the blobs that are about to be written.
Claimed(ds) == sent \cup ds

\* The lock is taken and the blobs the ledger does not have are claimed.
Claim(j) ==
    /\ wPc[j] = "claim" /\ MayClaim
    /\ LET needed == Inputs[j] \ sent
       IN  /\ wNeeded' = [wNeeded EXCEPT ![j] = needed]
           /\ wTodo' = [wTodo EXCEPT ![j] = needed]
           /\ sent' = Claimed(needed)
    /\ lock' = IF lock = None THEN j ELSE lock
    /\ wPc' = [wPc EXCEPT ![j] = "write"]
    /\ UNCHANGED <<process, pending, wProc, wReply, conns, connPc, reader, localCas,
                   alive, up, down, hostVars>>

\* A write to a connection that has ended raises, and the lock is released.
WriteFail(j) ==
    /\ wPc[j] = "write" /\ ~alive[wProc[j]]
    /\ lock' = IF lock = j THEN None ELSE lock
    /\ wPc' = [wPc EXCEPT ![j] = "rollback"]
    /\ UNCHANGED <<process, sent, pending, wProc, wNeeded, wTodo, wReply, conns, connPc, reader,
                   localCas, alive, up, down, hostVars>>

WriteBlob(j) ==
    /\ wPc[j] = "write" /\ alive[wProc[j]]
    /\ \E d \in wTodo[j] :
        /\ up' = [up EXCEPT ![wProc[j]] = Append(@, Blob(d))]
        /\ wTodo' = [wTodo EXCEPT ![j] = @ \ {d}]
    /\ UNCHANGED <<process, sent, pending, lock, wPc, wProc, wNeeded, wReply, conns, connPc,
                   reader, localCas, alive, down, hostVars>>

WriteJob(j) ==
    /\ wPc[j] = "write" /\ alive[wProc[j]] /\ wTodo[j] = {}
    /\ up' = [up EXCEPT ![wProc[j]] = Append(@, Job(j))]
    /\ lock' = IF lock = j THEN None ELSE lock
    /\ wPc' = [wPc EXCEPT ![j] = "wait"]
    /\ UNCHANGED <<process, sent, pending, wProc, wNeeded, wTodo, wReply, conns, connPc, reader,
                   localCas, alive, down, hostVars>>

\* Fault: the claim is not taken back.
StillClaimed(j) == sent

\* The ledger without the blobs of a write that failed.
RolledBack(j) == sent \ wNeeded[j]

\* The claim is taken back, the connection is given up, the job is requeued.
Rollback(j) ==
    /\ wPc[j] = "rollback"
    /\ sent' = RolledBack(j)
    /\ wPc' = [wPc EXCEPT ![j] = "lost"]
    /\ UNCHANGED <<process, pending, lock, wProc, wNeeded, wTodo, wReply, conns, connPc, reader,
                   localCas, alive, up, down, hostVars>>

GiveUp(j) ==
    /\ wPc[j] = "lost"
    /\ LostConn(wProc[j])
    /\ wPc' = [wPc EXCEPT ![j] = "ready"]
    /\ UNCHANGED <<sent, lock, wProc, wNeeded, wTodo, conns, reader, localCas, hostVars>>

\* The ledger without the blobs the host says it misses.
NotSent(ds) == sent \ ds

\* The reply is there.  A job whose host was lost is requeued, one whose
\* host misses blobs is sent again; a result ends it.
Replied(j) ==
    /\ wPc[j] = "wait" /\ wReply[j] # NoReply
    /\ LET r == wReply[j]
       IN  \/ /\ r = Lost
              /\ wPc' = [wPc EXCEPT ![j] = "ready"]
              /\ sent' = sent
           \/ /\ r.t = "missing"
              /\ sent' = NotSent(r.ds)
              /\ wPc' = [wPc EXCEPT ![j] = "begin"]
           \/ /\ r.t = "result" /\ r.rc = 0
              /\ sent' = sent \cup {Output[j]}
              /\ wPc' = [wPc EXCEPT ![j] = IF Output[j] \in localCas THEN "done" ELSE "failed"]
           \/ /\ r.t = "result" /\ r.rc # 0
              /\ wPc' = [wPc EXCEPT ![j] = "failed"]
              /\ sent' = sent
    /\ UNCHANGED <<process, pending, lock, wProc, wNeeded, wTodo, wReply, conns, connPc, reader,
                   localCas, alive, up, down, hostVars>>

-----------------------------------------------------------------------------
(* RemoteHost._reader: the thread of connection c.                         *)

ReadFrame(c) ==
    /\ c \in reader /\ down[c] # <<>>
    /\ LET f == Head(down[c])
       IN  \/ /\ f.t = "blob"
              /\ localCas' = localCas \cup {f.d}
              /\ UNCHANGED <<pending, wReply>>
           \/ /\ f.t \in {"result", "missing"} /\ f.j \in pending
              /\ pending' = pending \ {f.j}
              /\ wReply' = [wReply EXCEPT ![f.j] = f]
              /\ UNCHANGED localCas
           \/ /\ f.t \in {"result", "missing"} /\ f.j \notin pending
              /\ UNCHANGED <<pending, wReply, localCas>>
    /\ down' = [down EXCEPT ![c] = Tail(@)]
    /\ UNCHANGED <<process, sent, lock, wPc, wProc, wNeeded, wTodo, conns, connPc, reader,
                   alive, up, hostVars>>

\* The end of the stream, or a blob that is cut.
ReadEnd(c) ==
    /\ c \in reader /\ down[c] = <<>> /\ ~alive[c]
    /\ LostConn(c)
    /\ reader' = reader \ {c}
    /\ UNCHANGED <<sent, lock, wPc, wProc, wNeeded, wTodo, conns, localCas, hostVars>>

-----------------------------------------------------------------------------
(* ExecService: the service of connection c.                               *)

\* What the service writes while the connection lasts.
Written(c, frames) == down' = IF alive[c] THEN [down EXCEPT ![c] = @ \o frames] ELSE down

\* The pool of the service takes a job; a uid may be in it more than once.
NewInst(c, j) ==
    LET used == {i.k : i \in {x \in insts : x.c = c /\ x.j = j}}
    IN  [c |-> c, j |-> j, st |-> "queued",
         k |-> CHOOSE k \in 1 .. Cardinality(used) + 1 : k \notin used]

SvcRead(c) ==
    /\ svc[c] = "running" /\ up[c] # <<>>
    /\ LET f == Head(up[c])
       IN  \/ /\ f.t = "blob"
              /\ hostCas' = hostCas \cup {f.d}
              /\ UNCHANGED <<svc, insts, down>>
           \/ /\ f.t = "have"
              /\ Written(c, <<Have(f.ds \cap hostCas)>>)
              /\ UNCHANGED <<svc, insts, hostCas>>
           \/ /\ f.t = "job"
              /\ insts' = insts \cup {NewInst(c, f.j)}
              /\ UNCHANGED <<svc, hostCas, down>>
           \/ /\ f = Cut
              /\ svc' = [svc EXCEPT ![c] = "crashed"]
              /\ UNCHANGED <<insts, hostCas, down>>
    /\ up' = [up EXCEPT ![c] = Tail(@)]
    /\ UNCHANGED <<process, sent, pending, lock, workerVars, conns, connPc, reader, localCas,
                   alive, work>>

\* The controller went away: jobs that wait for a thread of the pool are
\* cancelled and commands are killed, all but those that a thread is about to
\* start at this moment.
SvcEof(c) ==
    /\ svc[c] = "running" /\ up[c] = <<>> /\ ~alive[c]
    /\ svc' = [svc EXCEPT ![c] = "stopping"]
    /\ \E killed \in SUBSET {i \in insts : i.c = c /\ i.st = "running"} :
        insts' = {IF i \in killed THEN [i EXCEPT !.st = "killed"] ELSE i :
                  i \in {x \in insts : x.c # c \/ x.st # "queued"}}
    /\ UNCHANGED <<process, sent, pending, lock, workerVars, conns, connPc, reader, localCas,
                   alive, up, down, hostCas, work>>

\* When the pool is idle the service removes the tmp directory of the session,
\* that is the work directories of all its jobs, and leaves.
SvcGone(c) ==
    /\ svc[c] = "stopping" /\ \A i \in insts : i.c # c
    /\ svc' = [svc EXCEPT ![c] = "gone"]
    /\ work' = [j \in Jobs |-> None]
    /\ UNCHANGED <<process, sent, pending, lock, workerVars, conns, connPc, reader, localCas,
                   alive, up, down, insts, hostCas>>

\* The job is over but for its work directory.
Leaving(i) == insts' = (insts \ {i}) \cup {[i EXCEPT !.st = "leaving"]}

\* _job: the work directory is made anew; without all inputs the job is
\* handed back, else its files are put in place and the command starts.
JobStart(i) ==
    /\ i \in insts /\ i.st = "queued"
    /\ work' = [work EXCEPT ![i.j] = <<i.c, i.k>>]
    /\ LET missing == Inputs[i.j] \ hostCas
       IN  IF missing # {}
           THEN Written(i.c, <<Missing(i.j, missing)>>) /\ Leaving(i)
           ELSE /\ insts' = (insts \ {i}) \cup {[i EXCEPT !.st = "running"]}
                /\ down' = down
    /\ UNCHANGED <<process, sent, pending, lock, workerVars, conns, connPc, reader, localCas,
                   alive, up, svc, hostCas>>

\* Fault: the result is put before its output.
BatchResultFirst(j) == <<Result(j, 0), Blob(Output[j])>>

\* What a finished job sends: its output, then its result.
Batch(j) == <<Blob(Output[j]), Result(j, 0)>>

\* The commands succeed and the output is collected into the cache, which takes
\* a work directory.
JobOk(i) ==
    /\ i \in insts /\ i.st = "running" /\ i.j \notin BadJobs /\ work[i.j] # None
    /\ hostCas' = hostCas \cup {Output[i.j]}
    /\ Written(i.c, Batch(i.j))
    /\ Leaving(i)
    /\ UNCHANGED <<process, sent, pending, lock, workerVars, conns, connPc, reader, localCas,
                   alive, up, svc, work>>

\* A command fails: it is one that fails, it was killed, or its work directory
\* was removed or made anew under it.
JobFail(i) ==
    /\ i \in insts
    /\ i.st = "killed" \/ (i.st = "running" /\ (i.j \in BadJobs \/ work[i.j] # <<i.c, i.k>>))
    /\ Written(i.c, <<Result(i.j, 1)>>)
    /\ Leaving(i)
    /\ UNCHANGED <<process, sent, pending, lock, workerVars, conns, connPc, reader, localCas,
                   alive, up, svc, hostCas, work>>

\* The finally of _job: whatever is in the work directory of the uid goes.
JobLeave(i) ==
    /\ i \in insts /\ i.st = "leaving"
    /\ insts' = insts \ {i}
    /\ work' = [work EXCEPT ![i.j] = None]
    /\ UNCHANGED <<process, sent, pending, lock, workerVars, conns, connPc, reader, localCas,
                   alive, up, down, svc, hostCas>>

-----------------------------------------------------------------------------

Worker(j) ==
    \/ Dispatch(j) \/ Begin(j) \/ Claim(j) \/ WriteFail(j) \/ WriteBlob(j) \/ WriteJob(j)
    \/ Rollback(j) \/ GiveUp(j) \/ Replied(j)

Connecting == ConnStart \/ ConnUp \/ ConnFail
Reader(c) == ReadFrame(c) \/ ReadEnd(c)
Service(c) == SvcRead(c) \/ SvcEof(c) \/ SvcGone(c)
Running(i) == JobStart(i) \/ JobOk(i) \/ JobFail(i) \/ JobLeave(i)

Next ==
    \/ \E j \in Jobs : Worker(j)
    \/ Connecting
    \/ \E c \in Conns : Reader(c) \/ Service(c) \/ Break(c)
    \/ \E i \in insts : Running(i)

Spec == Init /\ [][Next]_vars

\* Every thread and every process that has something to do goes on; nothing
\* makes a connection break.
FairSpec ==
    /\ Spec
    /\ \A j \in Jobs : WF_vars(Worker(j))
    /\ WF_vars(Connecting)
    /\ \A c \in Conns : WF_vars(Reader(c)) /\ WF_vars(Service(c))
    /\ \A j \in Jobs : WF_vars(\E i \in insts : i.j = j /\ Running(i))

-----------------------------------------------------------------------------
(* Properties.                                                             *)

BlobsOf(s) == {s[n].d : n \in {m \in 1 .. Len(s) : s[m].t = "blob"}}

WorkerStates == {"ready", "begin", "claim", "write", "rollback", "lost", "wait", "done", "failed"}

\* A worker in execute, with its reply registered.
Engaged == {"claim", "write", "rollback", "lost", "wait"}

Frames ==
    {Blob(d) : d \in Digests} \cup {Job(j) : j \in Jobs} \cup {Have(ds) : ds \in SUBSET Digests}
    \cup {Missing(j, ds) : j \in Jobs, ds \in SUBSET Digests}
    \cup {Result(j, rc) : j \in Jobs, rc \in {0, 1}} \cup {Cut}
Replies ==
    {NoReply, Lost} \cup {Missing(j, ds) : j \in Jobs, ds \in SUBSET Digests}
    \cup {Result(j, rc) : j \in Jobs, rc \in {0, 1}}

\* A job in the pool of a service: the k-th of its uid there.
Insts == [c : Conns, j : Jobs, k : Nat, st : {"queued", "running", "killed", "leaving"}]

\* Every variable keeps to its type: a worker in execute has a connection (the
\* early return of build:2561), and a pipe holds only frames its reader knows.
TypeOK ==
    /\ process \in 0 .. MaxConns /\ sent \subseteq Digests /\ pending \subseteq Jobs
    /\ lock \in Jobs \cup {None}
    /\ wPc \in [Jobs -> WorkerStates] /\ wProc \in [Jobs -> 0 .. MaxConns]
    /\ \A j \in Jobs : wPc[j] \in Engaged => wProc[j] # 0
    /\ wNeeded \in [Jobs -> SUBSET Digests] /\ wTodo \in [Jobs -> SUBSET Digests]
    /\ wReply \in [Jobs -> Replies]
    /\ conns \in 0 .. MaxConns /\ connPc \in {"start", "have", "idle"}
    /\ reader \subseteq Conns /\ localCas \subseteq Digests
    /\ alive \in [Conns -> BOOLEAN]
    /\ up \in [Conns -> Seq(Frames)] /\ down \in [Conns -> Seq(Frames)]
    /\ svc \in [Conns -> {"none", "running", "stopping", "crashed", "gone"}]
    /\ insts \subseteq Insts
    /\ hostCas \subseteq Digests
    /\ work \in [Jobs -> {None} \cup (Conns \X Nat)]

\* What a worker that waits is about to get from connection c: its frame, its job in
\* the pool, or the answer is on the way.
UnderWay(c, j) ==
    \/ \E n \in 1 .. Len(up[c]) : up[c][n] = Job(j)
    \/ \E i \in insts : i.c = c /\ i.j = j /\ i.st # "leaving"
    \/ \E n \in 1 .. Len(down[c]) : down[c][n].t \in {"result", "missing"} /\ down[c][n].j = j

\* A worker that waits, or is about to, has its reply already or has an entry
\* in pending that belongs to the current connection: it is never left behind
\* by a connection that was lost between two of its steps (build:2559-2587).  That
\* connection has a reader that will find its end, and as long as it lasts a service
\* that runs and owes the answer: no job is dropped on the way or answered to
\* somebody else (build:2213-2256).
NoWorkerForgotten ==
    \A j \in Jobs :
        /\ wPc[j] \in Engaged => j \in pending \/ wReply[j] # NoReply
        /\ j \in pending => process # 0 /\ wProc[j] = process /\ wReply[j] = NoReply
        /\ wPc[j] = "wait" /\ j \in pending =>
              /\ process \in reader
              /\ alive[process] => svc[process] = "running" /\ UnderWay(process, j)

\* When a worker holds a result without an error, the output is in the cache of
\* the controller, so "output blob missing after transfer" (build:2943) is never
\* raised, also when the result comes from a connection given up long ago.
OutputArrives ==
    \A j \in Jobs : wReply[j] = Result(j, 0) => Output[j] \in localCas

\* Types are kept, and between writes the ledger names only what the host has or is about to read
\* from the connection (RemoteHost.sent, build:2420): blobs of a write that
\* failed or of a connection that was lost are not in it.
LedgerHonest ==
  /\ TypeOK
  /\ (process # 0 /\ alive[process] /\ \A j \in Jobs : wPc[j] \notin {"write", "rollback"}) =>
        sent \subseteq hostCas \cup BlobsOf(up[process])

\* A job that finds a digest in the ledger writes its frame only after that blob
\* has gone over (the comment at build:2568): a service that reads a job frame
\* finds the inputs in its cache.
BlobsGoFirst ==
    \A n \in 1 .. Len(up[1]) : up[1][n].t = "job" =>
        Inputs[up[1][n].j] \subseteq hostCas \cup BlobsOf(SubSeq(up[1], 1, n - 1))

\* Every dependency crosses the link at most once (build:2027): what is on its
\* way to the host is there once, and the host does not have it.
CrossesOnce ==
    \A m, n \in 1 .. Len(up[1]) : up[1][m].t = "blob" =>
        /\ up[1][m].d \notin hostCas
        /\ up[1][n] = up[1][m] => m = n

\* Blobs go first and once, on the first connection.  On a later one a worker that
\* still belongs to the one before may have claimed a blob it will not write, and
\* the host then answers missing; and a blob that was in transit when the first
\* one broke may go over again.
BlobsCrossRight == alive[1] => BlobsGoFirst /\ CrossesOnce

\* The controller went away: keep the cache for a reconnect (build:2212).  A job
\* is reported as failed only when its own command fails, not because
\* connections came and went.
FailsOnlyByCommand == \A j \in Jobs : wPc[j] = "failed" => j \in BadJobs

\* A job whose dependencies are done ends, however often the connection was
\* lost and the host asked for blobs again.
EveryJobEnds ==
    \A j \in Jobs :
        (\A k \in Deps(j) : wPc[k] = "done") ~> (wPc[j] \in {"done", "failed"})

=============================================================================
