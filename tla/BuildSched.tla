----------------------------- MODULE BuildSched -----------------------------
(***************************************************************************)
(* Executor._run of the build tool: the main thread gives nodes whose      *)
(* dependencies are settled to this machine and to the --dist hosts, each  *)
(* with so many slots, and settles what their threads have finished.       *)
(* What a thread does with a node is abstracted to its outcome; hosts come *)
(* and go, and hand back nodes they did not run.                           *)
(***************************************************************************)
EXTENDS Integers, FiniteSets

CONSTANTS
    Nodes,
    Deps,           \* node.deps
    Roots,          \* the requested targets
    LocalNodes,     \* nodes with node.local
    Jobs,           \* slots of this machine
    Hosts,
    MaxCores,       \* bound: cores of a host
    Here,           \* the worker None
    MaxRequeues     \* bound: nodes handed back by hosts

ASSUME GraphAssumption ==
    /\ IsFiniteSet(Nodes) /\ Deps \in [Nodes -> SUBSET Nodes]
    /\ Roots \subseteq Nodes /\ LocalNodes \subseteq Nodes
ASSUME SlotsAssumption ==
    /\ Jobs \in Nat \ {0} /\ MaxCores \in Nat /\ MaxRequeues \in Nat
    /\ IsFiniteSet(Hosts) /\ Here \notin Hosts

Workers == Hosts \cup {Here}

\* _closure: the least set with the roots and the dependencies of its members.
Closed(S) == Roots \subseteq S /\ \A n \in S : Deps[n] \subseteq S
Needed == {n \in Nodes : \A S \in SUBSET Nodes : Closed(S) => n \in S}

Consumers(n) == {m \in Needed : n \in Deps[m]}

VARIABLES
    keepGoing,  \* --keep-going
    pc,         \* the main thread: "pick", "wait", "raised", "ended"
    ready,      \* the ready queue, in any order
    remaining,  \* dependencies a node still waits for
    running,    \* futures: [n, w, st], st is "run" or an outcome
    batch,      \* futures of the last wait that are not settled yet
    used,       \* slots taken of each worker
    errors, blocked,
    done,       \* nodes whose future has a result
    cores,      \* RemoteHost.cores
    requeues    \* nodes handed back so far

vars == <<keepGoing, pc, ready, remaining, running, batch, used, errors, blocked, done, cores, requeues>>

Init ==
    /\ keepGoing \in BOOLEAN
    /\ pc = "pick"
    /\ ready = {n \in Needed : Deps[n] = {}}
    /\ remaining = [n \in Needed |-> Cardinality(Deps[n])]
    /\ running = {} /\ batch = {}
    /\ used = [w \in Workers |-> 0]
    /\ errors = {} /\ blocked = {} /\ done = {}
    /\ cores = [h \in Hosts |-> 0]
    /\ requeues = 0

-----------------------------------------------------------------------------

LocalFree == Jobs - used[Here]

\* A slot for each core, and as many again in the queue of the host.
FreeSlots(h) == 2 * cores[h] - used[h]

BestRemote == {h \in Hosts : \A g \in Hosts : FreeSlots(g) <= FreeSlots(h)}

\* _pick gives n to w: to the host with most room if it has more than there is
\* here and n may run there.
WorkerFor(n, w) ==
    LET here == n \in LocalNodes \/ \A h \in BestRemote : FreeSlots(h) <= 0
    IN  \/ here /\ LocalFree > 0 /\ w = Here
        \/ ~here /\ (\A h \in BestRemote : LocalFree >= FreeSlots(h)) /\ w = Here
        \/ ~here /\ w \in BestRemote /\ LocalFree < FreeSlots(w)

Pick ==
    /\ pc = "pick"
    /\ \E n \in ready, w \in Workers :
        /\ WorkerFor(n, w)
        /\ ready' = ready \ {n}
        /\ used' = [used EXCEPT ![w] = @ + 1]
        /\ running' = running \cup {[n |-> n, w |-> w, st |-> "run"]}
    /\ UNCHANGED <<keepGoing, pc, remaining, batch, errors, blocked, done, cores, requeues>>

NoPick == \A n \in ready, w \in Workers : ~WorkerFor(n, w)

\* Fault: with hosts the loop never ends by itself.
SleepOnAnyway == Hosts # {}

\* Nothing runs: nodes are left for a host that comes back.
SleepOn == ready # {} /\ Hosts # {}

\* Nothing more can be given out: wait, sleep until a host has slots, or end.
StopPicking ==
    /\ pc = "pick" /\ NoPick
    /\ pc' = IF running # {} THEN "wait"
             ELSE IF SleepOn THEN "pick" ELSE "ended"
    /\ UNCHANGED <<keepGoing, ready, remaining, running, batch, used, errors, blocked, done, cores,
                   requeues>>

\* wait returns with all futures that are finished; with hosts it may time out
\* and return none.
Wait ==
    /\ pc = "wait" /\ batch = {}
    /\ LET finished == {f \in running : f.st # "run"}
       IN  /\ finished # {} \/ Hosts # {}
           /\ batch' = finished
           /\ pc' = IF finished = {} THEN "pick" ELSE "wait"
    /\ UNCHANGED <<keepGoing, ready, remaining, running, used, errors, blocked, done, cores, requeues>>

-----------------------------------------------------------------------------
(* Settling one future of the batch.                                       *)

\* Fault: the slot of a node that is handed back is not released.
ReleasedUnlessRequeued(f) ==
    IF f.st = "requeue" THEN used ELSE [used EXCEPT ![f.w] = @ - 1]

\* The slots when f is settled, whatever its outcome.
Released(f) == [used EXCEPT ![f.w] = @ - 1]

\* Fault: the future is looked up and stays.
StillRunning(f) == running

\* The futures when f is popped.
NotRunning(f) == running \ {f}

Popped(f) ==
    /\ f \in batch
    /\ running' = NotRunning(f)
    /\ used' = Released(f)
    /\ UNCHANGED <<keepGoing, cores, requeues>>

BatchLeft(f) ==
    /\ batch' = batch \ {f}
    /\ pc' = IF batch = {f} THEN "pick" ELSE "wait"

\* Fault: consumers of a node that failed are not kept back.
BrokenNever(n, errs) == {}

\* Fault: after a failure everything is kept back.
BrokenAfterAny(n, errs) == IF errs # {} THEN Consumers(n) ELSE {}

\* The consumers that n breaks.
Broken(n, errs) == IF n \in errs \cup blocked THEN Consumers(n) ELSE {}

\* Fault: the count is looked at before it goes down.
LastDepLate(m) == remaining[m] = 0

\* n was the last dependency m waited for.
LastDep(m) == remaining[m] = 1

\* The consumers of n, which is settled, lose a dependency.  One that has none
\* left is ready or, if blocked, an error itself, which blocks its own consumers.
SettleConsumers(n, errs) ==
    LET blocked1 == blocked \cup Broken(n, errs)
        free == {m \in Consumers(n) : LastDep(m)}
        dead == free \cap blocked1
    IN  /\ remaining' = [m \in Needed |-> remaining[m] - (IF m \in Consumers(n) THEN 1 ELSE 0)]
        /\ errors' = errs \cup dead
        /\ blocked' = blocked1 \cup UNION {Consumers(m) : m \in dead}
        /\ ready' = ready \cup (free \ dead)

\* Requeue: the node did not run.
SettleRequeue(f) ==
    /\ f.st = "requeue" /\ Popped(f) /\ BatchLeft(f)
    /\ ready' = ready \cup {f.n}
    /\ UNCHANGED <<remaining, errors, blocked, done>>

SettleOk(f) ==
    /\ f.st = "ok" /\ Popped(f) /\ BatchLeft(f)
    /\ done' = done \cup {f.n}
    /\ SettleConsumers(f.n, errors)

\* A failure ends the build, or with --keep-going breaks what depends on it.
SettleFail(f) ==
    /\ f.st = "fail" /\ Popped(f)
    /\ \/ /\ keepGoing
          /\ BatchLeft(f)
          /\ SettleConsumers(f.n, errors \cup {f.n})
       \/ /\ ~keepGoing
          /\ errors' = errors \cup {f.n}
          /\ pc' = "raised" /\ batch' = {}
          /\ UNCHANGED <<ready, remaining, blocked>>
    /\ UNCHANGED done

Settle == \E f \in batch : SettleRequeue(f) \/ SettleOk(f) \/ SettleFail(f)

-----------------------------------------------------------------------------
(* The threads and the hosts.                                              *)

\* The thread of a node is through with it: it has run, or its host was lost.
Finish(f) ==
    /\ f \in running /\ f.st = "run" /\ pc \in {"pick", "wait"}
    /\ \E st \in {"ok", "fail", "requeue"} :
        /\ st = "requeue" => f.w # Here /\ requeues < MaxRequeues
        /\ running' = (running \ {f}) \cup {[f EXCEPT !.st = st]}
        /\ requeues' = requeues + (IF st = "requeue" THEN 1 ELSE 0)
    /\ UNCHANGED <<keepGoing, pc, ready, remaining, batch, used, errors, blocked, done, cores>>

\* A host is connected or lost.
HostChange(h) ==
    /\ pc \in {"pick", "wait"}
    /\ \E c \in 0 .. MaxCores : c # cores[h] /\ cores' = [cores EXCEPT ![h] = c]
    /\ UNCHANGED <<keepGoing, pc, ready, remaining, running, batch, used, errors, blocked, done, requeues>>

Main == Pick \/ StopPicking \/ Wait \/ Settle

Next ==
    \/ Main
    \/ \E f \in running : Finish(f)
    \/ \E h \in Hosts : HostChange(h)

Spec == Init /\ [][Next]_vars

\* The main thread runs on, and the thread of a node is through with it at
\* some time.
FairSpec ==
    /\ Spec /\ WF_vars(Main)
    /\ \A n \in Nodes : WF_vars(\E f \in running : f.n = n /\ Finish(f))

-----------------------------------------------------------------------------
(* Properties.                                                             *)

RunningNodes == {f.n : f \in running}

\* A node is given out, and has run, only after everything it depends on has
\* run without an error, in whatever order threads finish, hosts hand nodes
\* back and other nodes fail (build:2746-2756).
DepsFirst ==
    \A n \in RunningNodes \cup ready \cup done : Deps[n] \subseteq done

\* A node is in one place: it waits in the queue, it runs, it is done or it is
\* an error.  None is given out twice, also when a host hands it back.
OnePlace ==
    /\ \A f, g \in running : f.n = g.n => f = g
    /\ ready \cap (RunningNodes \cup done \cup errors) = {}
    /\ RunningNodes \cap (done \cup errors) = {}
    /\ done \cap errors = {}

\* The slots that count as used are the ones of the nodes that run, this
\* machine has no more of them than --jobs, and a local node runs here.
SlotsRight ==
    /\ \A w \in Workers : used[w] = Cardinality({f \in running : f.w = w})
    /\ used[Here] <= Jobs
    /\ \A f \in running : f.n \in LocalNodes => f.w = Here

\* A node waits in the queue only while every worker that may run it is full: the
\* head of the queue never keeps back what is behind it, and this machine is never
\* idle beside hosts with little room (_pick, build:2785-2797).  And everything
\* runs that does not depend on a failure: when the build ends, with --keep-going
\* or without an error, a node that is not done has failed itself (it is an error
\* and not blocked) or has a dependency that is not done.  So without an error all
\* have run: none was left behind with a count that never reached zero
\* (build:2703, 2747).
KeepsGoing ==
    /\ pc = "pick" /\ NoPick =>
         \A n \in ready :
            /\ Cardinality({f \in running : f.w = Here}) = Jobs
            /\ n \in LocalNodes \/ \A h \in Hosts : FreeSlots(h) <= 0
    /\ pc = "ended" =>
         \A n \in Needed \ done : n \in errors \ blocked \/ ~(Deps[n] \subseteq done)

\* What there is left to do: the nodes that were never given out weigh most, then
\* those that run, then those that wait to be settled.  A node that is handed back
\* is to be given out again, which a host can make happen MaxRequeues times.
Unstarted == Needed \ (done \cup errors \cup RunningNodes)
With(sts) == {f \in running : f.st \in sts}
WorkLeft ==
    3 * Cardinality(Unstarted) + 2 * Cardinality(With({"run"}))
      + Cardinality(With({"ok", "fail"})) + 4 * Cardinality(With({"requeue"}))
      + 3 * (MaxRequeues - requeues)

\* No step adds to what is left to do, and every node given out, finished or
\* settled takes something from it: the main thread cannot go round for ever
\* giving out, losing and settling (build:2703-2757).
WorkGoesDown ==
    [][/\ WorkLeft' <= WorkLeft
       /\ Pick \/ Settle \/ (\E f \in running : Finish(f)) => WorkLeft' < WorkLeft]_vars

\* The build ends, also with hosts that come and go.
SchedEnds == <>(pc \in {"ended", "raised"})

\* The requested targets that are reported as broken (roots_failed) are those
\* that were not built (the message at build:2759).
BrokenTargetsReported ==
    pc = "ended" /\ errors # {} => {r \in Roots : r \in errors \cup blocked} = Roots \ done

=============================================================================
