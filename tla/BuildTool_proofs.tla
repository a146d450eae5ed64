-------------------------- MODULE BuildTool_proofs --------------------------
(***************************************************************************)
(* The scheduler and the result cache of the build tool.                   *)
(*                                                                         *)
(* For any graph, any number of slots and hosts, and any order in which    *)
(* threads finish and hosts hand nodes back: nodes run after what they     *)
(* depend on, once at a time, on slots that are counted, and all run that  *)
(* no failure keeps back.  For any builds on one cache and whichever of    *)
(* them are killed: what the manifests, the work directories and the locks *)
(* promise.                                                                *)
(***************************************************************************)
EXTENDS BuildSched, ResultCache, FiniteSetTheorems, WellFoundedInduction, TLAPS

-----------------------------------------------------------------------------
(* The scheduler.                                                          *)

Outcomes == {"ok", "fail", "requeue"}

Future == [n : Needed, w : Workers, st : Outcomes \cup {"run"}]

\* The nodes whose consumers have lost a dependency: those that have run, and
\* those that failed themselves.  One that is an error because it was blocked
\* is not among them.
Settled == done \cup (errors \ blocked)

Typed ==
    /\ keepGoing \in BOOLEAN /\ pc \in {"pick", "wait", "raised", "ended"}
    /\ ready \subseteq Needed /\ done \subseteq Needed
    /\ errors \subseteq Needed /\ blocked \subseteq Needed
    /\ running \subseteq Future /\ IsFiniteSet(running)
    /\ batch \subseteq running /\ \A f \in batch : f.st # "run"
    /\ pc = "raised" => batch = {}
    /\ used \in [Workers -> Int] /\ cores \in [Hosts -> Int]
    /\ remaining \in [Needed -> Int]

\* The count of a node is that of its dependencies that are not settled, until a
\* failure ends the build.
CountsRight ==
    pc # "raised" => \A m \in Needed : remaining[m] = Cardinality(Deps[m] \ Settled)

\* Whoever waits for an error is blocked, and only they are.
BlockedRight ==
    /\ pc # "raised" => \A d \in errors : Consumers(d) \subseteq blocked
    /\ \A m \in blocked : Deps[m] \cap errors # {}

\* A node with an error had all its dependencies settled.
ErrorsLast == pc # "raised" => \A m \in errors : Deps[m] \subseteq Settled

\* A node whose count is zero is somewhere.
Somewhere ==
    pc # "raised" => \A m \in Needed :
        Deps[m] \subseteq Settled => m \in ready \cup RunningNodes \cup done \cup errors

\* Nothing waits and nothing runs when the build has ended.
EndedIdle == pc = "ended" => running = {} /\ ready = {}

SchedInv ==
    /\ Typed /\ CountsRight /\ BlockedRight /\ ErrorsLast /\ Somewhere /\ EndedIdle
    /\ DepsFirst /\ OnePlace /\ SlotsRight

-----------------------------------------------------------------------------
(* Facts about the graph and about counting.                               *)

\* What the roots need are nodes, and dependencies can be counted.
LEMMA GraphFacts ==
    /\ Needed \subseteq Nodes
    /\ \A m \in Needed : \A T : IsFiniteSet(Deps[m] \ T)
<1>1. Needed \subseteq Nodes
  BY DEF Needed
<1>2. \A m \in Needed : Deps[m] \in SUBSET Nodes
  BY <1>1, GraphAssumption
<1>3. ASSUME NEW m \in Needed, NEW T PROVE IsFiniteSet(Deps[m] \ T)
  <2>1. Deps[m] \ T \in SUBSET Nodes
    BY <1>2
  <2> QED BY <2>1, GraphAssumption, FS_Subset
<1> QED BY <1>1, <1>3

\* The count of what is left goes down by one with each member that is settled,
\* and is zero when nothing is left.
LEMMA CountDown ==
    ASSUME NEW m \in Needed, NEW T, NEW n, n \notin T
    PROVE  /\ Cardinality(Deps[m] \ (T \cup {n})) =
                IF n \in Deps[m] THEN Cardinality(Deps[m] \ T) - 1 ELSE Cardinality(Deps[m] \ T)
           /\ Cardinality(Deps[m] \ T) \in Nat
           /\ Cardinality(Deps[m] \ T) = 0 <=> Deps[m] \subseteq T
           /\ (Cardinality(Deps[m] \ T) = 1 /\ n \in Deps[m]) => Deps[m] \subseteq T \cup {n}
<1> DEFINE D == Deps[m] \ T
<1>1. IsFiniteSet(D) /\ Deps[m] \ (T \cup {n}) = D \ {n}
  BY GraphFacts
<1>2. n \in D <=> n \in Deps[m]
  OBVIOUS
<1>3. Cardinality(D) \in Nat
  BY <1>1, FS_CardinalityType
<1>4. Cardinality(D \ {n}) = IF n \in D THEN Cardinality(D) - 1 ELSE Cardinality(D)
  BY <1>1, FS_RemoveElement
<1>5. IsFiniteSet(D \ {n})
  BY <1>1, FS_RemoveElement
<1>6. /\ Cardinality(D) = 0 <=> D = {}
      /\ Cardinality(D \ {n}) = 0 <=> D \ {n} = {}
  BY <1>1, <1>5, FS_EmptySet
<1>7. (Cardinality(D) = 1 /\ n \in Deps[m]) => Deps[m] \subseteq T \cup {n}
  BY <1>2, <1>4, <1>6
<1>8. Cardinality(D) = 0 <=> Deps[m] \subseteq T
  BY <1>6
<1>9. Cardinality(Deps[m] \ (T \cup {n})) =
        IF n \in Deps[m] THEN Cardinality(D) - 1 ELSE Cardinality(D)
  BY <1>1, <1>2, <1>4
<1> QED BY <1>3, <1>7, <1>8, <1>9

\* The futures of worker w.
Of(w, fs) == {f \in fs : f.w = w}

\* A future that is added or removed counts for its own worker.
LEMMA CountFutures ==
    ASSUME NEW fs, IsFiniteSet(fs), NEW f, NEW w
    PROVE  /\ f \notin fs => Cardinality(Of(w, fs \cup {f})) =
                IF f.w = w THEN Cardinality(Of(w, fs)) + 1 ELSE Cardinality(Of(w, fs))
           /\ f \in fs => Cardinality(Of(w, fs \ {f})) =
                IF f.w = w THEN Cardinality(Of(w, fs)) - 1 ELSE Cardinality(Of(w, fs))
           /\ Cardinality(Of(w, fs)) \in Nat
<1>1. IsFiniteSet(Of(w, fs))
  BY FS_Subset DEF Of
<1>2. Cardinality(Of(w, fs)) \in Nat
  BY <1>1, FS_CardinalityType
<1>3. ASSUME f \notin fs
      PROVE  Cardinality(Of(w, fs \cup {f})) =
                IF f.w = w THEN Cardinality(Of(w, fs)) + 1 ELSE Cardinality(Of(w, fs))
  <2>1. CASE f.w = w
    <3>1. Of(w, fs \cup {f}) = Of(w, fs) \cup {f} /\ f \notin Of(w, fs)
      BY <1>3, <2>1 DEF Of
    <3> QED BY <1>1, <1>2, <2>1, <3>1, FS_AddElement
  <2>2. CASE f.w # w
    <3>1. Of(w, fs \cup {f}) = Of(w, fs)
      BY <2>2 DEF Of
    <3> QED BY <1>2, <2>2, <3>1
  <2> QED BY <2>1, <2>2
<1>4. ASSUME f \in fs
      PROVE  Cardinality(Of(w, fs \ {f})) =
                IF f.w = w THEN Cardinality(Of(w, fs)) - 1 ELSE Cardinality(Of(w, fs))
  <2>1. CASE f.w = w
    <3>1. Of(w, fs \ {f}) = Of(w, fs) \ {f} /\ f \in Of(w, fs)
      BY <1>4, <2>1 DEF Of
    <3> QED BY <1>1, <1>2, <2>1, <3>1, FS_RemoveElement
  <2>2. CASE f.w # w
    <3>1. Of(w, fs \ {f}) = Of(w, fs)
      BY <2>2 DEF Of
    <3> QED BY <1>2, <2>2, <3>1
  <2> QED BY <2>1, <2>2
<1> QED BY <1>2, <1>3, <1>4

-----------------------------------------------------------------------------
(* The steps of the main thread.                                           *)

\* In the beginning nothing is settled and the nodes without dependencies are
\* ready.
LEMMA SchedInit == Init => SchedInv
<1> SUFFICES ASSUME Init PROVE SchedInv
  OBVIOUS
<1>1. Settled = {} /\ RunningNodes = {}
  BY DEF Init, Settled, RunningNodes
<1>2. ASSUME NEW m \in Needed
      PROVE  /\ Cardinality(Deps[m]) = Cardinality(Deps[m] \ {})
             /\ Cardinality(Deps[m]) \in Int
  <2>1. Deps[m] \ {} = Deps[m]
    OBVIOUS
  <2>2. IsFiniteSet(Deps[m])
    BY <2>1, GraphFacts
  <2> QED BY <2>1, <2>2, FS_CardinalityType
<1>3. Typed
  BY <1>2, FS_EmptySet DEF Init, Typed
<1>4. CountsRight /\ BlockedRight /\ ErrorsLast /\ EndedIdle
  BY <1>1, <1>2 DEF Init, CountsRight, BlockedRight, ErrorsLast, EndedIdle
<1>5. Somewhere /\ DepsFirst /\ OnePlace
  BY <1>1 DEF Init, Somewhere, DepsFirst, OnePlace
<1>6. SlotsRight
  <2>1. \A w \in Workers : {f \in running : f.w = w} = {}
    BY DEF Init
  <2> QED BY <2>1, FS_EmptySet, SlotsAssumption DEF Init, SlotsRight, Workers
<1> QED BY <1>3, <1>4, <1>5, <1>6 DEF SchedInv

\* _pick gives this machine only nodes it has a slot for, and the hosts none
\* that must run here.
LEMMA PickRight ==
    ASSUME Typed, NEW n \in ready, NEW w \in Workers, WorkerFor(n, w)
    PROVE  /\ w = Here => used[Here] + 1 <= Jobs
           /\ n \in LocalNodes => w = Here
<1>1. Here \in Workers /\ used[Here] \in Int /\ Jobs \in Int
  BY SlotsAssumption DEF Typed, Workers
<1>2. \A h \in BestRemote : h \in Hosts /\ h # Here /\ FreeSlots(h) \in Int
  BY SlotsAssumption DEF Typed, BestRemote, FreeSlots, Workers
<1> DEFINE here == n \in LocalNodes \/ \A h \in BestRemote : FreeSlots(h) <= 0
<1>3. \/ here /\ LocalFree > 0 /\ w = Here
      \/ ~here /\ (\A h \in BestRemote : LocalFree >= FreeSlots(h)) /\ w = Here
      \/ ~here /\ w \in BestRemote /\ LocalFree < FreeSlots(w)
  BY DEF WorkerFor
<1>4. LocalFree = Jobs - used[Here] /\ LocalFree \in Int
  BY <1>1 DEF LocalFree
<1>5. w = Here => LocalFree > 0
  BY <1>2, <1>3, <1>4
<1>6. n \in LocalNodes => w = Here
  BY <1>3
<1> QED BY <1>1, <1>4, <1>5, <1>6

\* A node that is given out takes a slot and leaves the queue.
LEMMA SchedPick == ASSUME SchedInv, Pick PROVE SchedInv'
<1>1. PICK n \in ready, w \in Workers :
        /\ WorkerFor(n, w)
        /\ ready' = ready \ {n}
        /\ used' = [used EXCEPT ![w] = @ + 1]
        /\ running' = running \cup {[n |-> n, w |-> w, st |-> "run"]}
  BY DEF Pick
<1> DEFINE f == [n |-> n, w |-> w, st |-> "run"]
<1>2. /\ pc = "pick"
      /\ UNCHANGED <<keepGoing, pc, remaining, batch, errors, blocked, done, cores, requeues>>
  BY DEF Pick
<1>3. n \in Needed /\ f \in Future /\ f.n = n /\ f.w = w /\ f.st = "run"
  BY DEF SchedInv, Typed, Future
<1>4. n \notin RunningNodes \cup done \cup errors /\ f \notin running
  BY DEF SchedInv, OnePlace, RunningNodes
<1>5. RunningNodes' = RunningNodes \cup {n}
  <2>1. \A g \in running' : g \in running \/ g = f
    BY <1>1
  <2>2. running \subseteq running' /\ f \in running'
    BY <1>1
  <2> HIDE DEF f
  <2> QED BY <1>3, <2>1, <2>2 DEF RunningNodes
<1>6. Typed'
  <2>1. IsFiniteSet(running')
    BY <1>1, FS_AddElement DEF SchedInv, Typed
  <2>2. running' \subseteq Future /\ ready' \subseteq Needed /\ batch' \subseteq running'
    BY <1>1, <1>2, <1>3 DEF SchedInv, Typed
  <2>3. used' \in [Workers -> Int]
    BY <1>1 DEF SchedInv, Typed
  <2> QED BY <1>2, <2>1, <2>2, <2>3 DEF SchedInv, Typed
<1>7. Settled' = Settled
  BY <1>2 DEF Settled
<1>8. CountsRight' /\ BlockedRight' /\ ErrorsLast' /\ EndedIdle'
  BY <1>2, <1>7 DEF SchedInv, CountsRight, BlockedRight, ErrorsLast, EndedIdle, Consumers
<1>9. Somewhere' /\ DepsFirst' /\ OnePlace'
  <2>1. Somewhere'
    BY <1>1, <1>2, <1>5, <1>7 DEF SchedInv, Somewhere
  <2>2. DepsFirst'
    BY <1>1, <1>2, <1>5 DEF SchedInv, DepsFirst
  <2>3. \A g \in running : g.n # n
    BY <1>4 DEF RunningNodes
  <2>4. \A g, h \in running' : g.n = h.n => g = h
    BY <1>1, <1>3, <2>3 DEF SchedInv, OnePlace
  <2>5. OnePlace'
    BY <1>1, <1>2, <1>4, <1>5, <2>4 DEF SchedInv, OnePlace
  <2> QED BY <2>1, <2>2, <2>5
<1>10. SlotsRight'
  <2>1. IsFiniteSet(running)
    BY DEF SchedInv, Typed
  <2>2. ASSUME NEW v \in Workers PROVE used'[v] = Cardinality({g \in running' : g.w = v})
    <3>1. used[v] = Cardinality(Of(v, running))
      BY DEF SchedInv, SlotsRight, Of
    <3>2. Cardinality(Of(v, running')) =
            IF w = v THEN Cardinality(Of(v, running)) + 1 ELSE Cardinality(Of(v, running))
      BY <1>1, <1>3, <1>4, <2>1, CountFutures
    <3>3. used'[v] = IF w = v THEN used[v] + 1 ELSE used[v]
      BY <1>1 DEF SchedInv, Typed
    <3>4. used'[v] = Cardinality(Of(v, running'))
      BY <3>1, <3>2, <3>3
    <3> QED BY <3>4 DEF Of
  <2>3. used'[Here] <= Jobs
    BY <1>1, PickRight DEF SchedInv, Typed, SlotsRight, Workers
  <2>4. \A g \in running' : g.n \in LocalNodes => g.w = Here
    BY <1>1, <1>3, PickRight DEF SchedInv, SlotsRight
  <2> QED BY <2>2, <2>3, <2>4 DEF SlotsRight
<1> QED BY <1>6, <1>8, <1>9, <1>10 DEF SchedInv

\* The build ends only when nothing runs and nothing waits: with an empty queue,
\* or with hosts the main thread sleeps, and without hosts a free slot here takes
\* any node.
LEMMA SchedStop == ASSUME SchedInv, StopPicking PROVE SchedInv'
<1>1. /\ NoPick /\ pc = "pick"
      /\ pc' = IF running # {} THEN "wait" ELSE IF SleepOn THEN "pick" ELSE "ended"
      /\ UNCHANGED <<keepGoing, ready, remaining, running, batch, used, errors, blocked, done,
                     cores, requeues>>
  BY DEF StopPicking
<1>2. (running = {} /\ ~SleepOn) => ready = {}
  <2> SUFFICES ASSUME running = {}, ~SleepOn, NEW n \in ready PROVE FALSE
    OBVIOUS
  <2>1. Hosts = {} /\ BestRemote = {}
    BY DEF SleepOn, BestRemote
  <2>2. used[Here] = 0
    <3>1. {f \in running : f.w = Here} = {}
      OBVIOUS
    <3> QED BY <3>1, FS_EmptySet DEF SchedInv, SlotsRight, Workers
  <2>3. WorkerFor(n, Here)
    BY <2>1, <2>2, SlotsAssumption DEF WorkerFor, LocalFree
  <2> QED BY <1>1, <2>3 DEF NoPick, Workers
<1>3. Typed' /\ EndedIdle'
  BY <1>1, <1>2 DEF SchedInv, Typed, EndedIdle
<1>4. CountsRight' /\ BlockedRight' /\ ErrorsLast' /\ Somewhere'
  BY <1>1 DEF SchedInv, CountsRight, BlockedRight, ErrorsLast, Somewhere, Settled, Consumers,
       RunningNodes
<1>5. DepsFirst' /\ OnePlace' /\ SlotsRight'
  BY <1>1 DEF SchedInv, DepsFirst, OnePlace, SlotsRight, RunningNodes
<1> QED BY <1>3, <1>4, <1>5 DEF SchedInv

\* wait takes futures that are finished.
LEMMA SchedWait == ASSUME SchedInv, Wait PROVE SchedInv'
<1>1. /\ pc = "wait" /\ pc' \in {"pick", "wait"}
      /\ batch' = {f \in running : f.st # "run"}
      /\ UNCHANGED <<keepGoing, ready, remaining, running, used, errors, blocked, done, cores,
                     requeues>>
  BY DEF Wait
<1>2. Typed' /\ EndedIdle'
  BY <1>1 DEF SchedInv, Typed, EndedIdle
<1>3. CountsRight' /\ BlockedRight' /\ ErrorsLast' /\ Somewhere'
  BY <1>1 DEF SchedInv, CountsRight, BlockedRight, ErrorsLast, Somewhere, Settled, Consumers,
       RunningNodes
<1>4. DepsFirst' /\ OnePlace' /\ SlotsRight'
  BY <1>1 DEF SchedInv, DepsFirst, OnePlace, SlotsRight, RunningNodes
<1> QED BY <1>2, <1>3, <1>4 DEF SchedInv

-----------------------------------------------------------------------------
(* Settling a future.                                                      *)

\* The node of a future in the batch has its dependencies done and is nowhere
\* else; when it is popped its slot is free.
LEMMA PoppedFacts ==
    ASSUME SchedInv, NEW f \in batch, Popped(f)
    PROVE  /\ f.n \in Needed /\ f.n \notin ready \cup done \cup errors \cup blocked
           /\ Deps[f.n] \subseteq done /\ f.n \notin Deps[f.n]
           /\ pc # "raised"
           /\ RunningNodes' = RunningNodes \ {f.n}
           /\ running' \subseteq Future /\ IsFiniteSet(running') /\ running' = running \ {f}
           /\ \A g, h \in running' : g.n = h.n => g = h
           /\ used' \in [Workers -> Int] /\ SlotsRight'
<1>1. /\ f \in running /\ f \in Future /\ running' = running \ {f}
      /\ used' = [used EXCEPT ![f.w] = @ - 1]
  BY DEF SchedInv, Typed, Popped, NotRunning, Released
<1>2. f.n \in Needed /\ f.w \in Workers /\ f.n \in RunningNodes
  BY <1>1 DEF Future, RunningNodes
<1>3. /\ f.n \notin ready \cup done \cup errors /\ Deps[f.n] \subseteq done
      /\ pc # "raised"
  BY <1>2 DEF SchedInv, Typed, OnePlace, DepsFirst
<1>4. f.n \notin blocked
  BY <1>3 DEF SchedInv, BlockedRight, OnePlace
<1>5. \A g, h \in running : g.n = h.n => g = h
  BY DEF SchedInv, OnePlace
<1>6. RunningNodes' = RunningNodes \ {f.n}
  BY <1>1, <1>5 DEF RunningNodes
<1>7. IsFiniteSet(running) /\ IsFiniteSet(running') /\ running' \subseteq Future
  BY <1>1, FS_RemoveElement DEF SchedInv, Typed
<1>8. used' \in [Workers -> Int]
  BY <1>1, <1>2 DEF SchedInv, Typed
<1>9. SlotsRight'
  <2>1. ASSUME NEW v \in Workers PROVE used'[v] = Cardinality({g \in running' : g.w = v})
    <3>1. used[v] = Cardinality(Of(v, running))
      BY DEF SchedInv, SlotsRight, Of
    <3>2. Cardinality(Of(v, running')) =
            IF f.w = v THEN Cardinality(Of(v, running)) - 1 ELSE Cardinality(Of(v, running))
      BY <1>1, <1>7, CountFutures
    <3>3. used'[v] = IF f.w = v THEN used[v] - 1 ELSE used[v]
      BY <1>1 DEF SchedInv, Typed
    <3>4. used'[v] = Cardinality(Of(v, running'))
      BY <3>1, <3>2, <3>3
    <3> QED BY <3>4 DEF Of
  <2>2. Here \in Workers /\ Jobs \in Int /\ used[Here] \in Int
    BY SlotsAssumption DEF SchedInv, Typed, Workers
  <2>3. used'[Here] <= used[Here]
    BY <1>1, <2>2 DEF SchedInv, Typed
  <2>4. used'[Here] <= Jobs
    BY <1>8, <2>2, <2>3 DEF SchedInv, SlotsRight
  <2> QED BY <1>1, <2>1, <2>4 DEF SchedInv, SlotsRight
<1> QED BY <1>1, <1>2, <1>3, <1>4, <1>5, <1>6, <1>7, <1>8, <1>9

\* The batch that is left, and where the main thread is.
LEMMA BatchFacts ==
    ASSUME SchedInv, NEW f \in batch, Popped(f), BatchLeft(f)
    PROVE  /\ batch' \subseteq running' /\ \A g \in batch' : g.st # "run"
           /\ pc' \in {"pick", "wait"}
  BY PoppedFacts DEF SchedInv, Typed, BatchLeft

\* A node that is handed back waits again.
LEMMA SchedRequeue ==
    ASSUME SchedInv, NEW f \in batch, SettleRequeue(f)
    PROVE  SchedInv'
<1>1. /\ Popped(f) /\ BatchLeft(f) /\ ready' = ready \cup {f.n}
      /\ UNCHANGED <<remaining, errors, blocked, done, keepGoing, cores>>
  BY DEF SettleRequeue, Popped
<1>2. Typed' /\ EndedIdle'
  BY <1>1, PoppedFacts, BatchFacts DEF SchedInv, Typed, EndedIdle
<1>3. Settled' = Settled
  BY <1>1 DEF Settled
<1>4. CountsRight' /\ BlockedRight' /\ ErrorsLast'
  BY <1>1, <1>3, PoppedFacts DEF SchedInv, CountsRight, BlockedRight, ErrorsLast, Consumers
<1>5. Somewhere' /\ DepsFirst' /\ OnePlace'
  <2>1. Somewhere'
    BY <1>1, <1>3, PoppedFacts DEF SchedInv, Somewhere
  <2>2. DepsFirst'
    BY <1>1, PoppedFacts DEF SchedInv, DepsFirst
  <2>3. OnePlace'
    BY <1>1, PoppedFacts DEF SchedInv, OnePlace
  <2> QED BY <2>1, <2>2, <2>3
<1>6. SlotsRight'
  BY <1>1, PoppedFacts
<1> QED BY <1>2, <1>4, <1>5, <1>6 DEF SchedInv

\* The consumers of n that wait for nothing else, and those of them that are
\* blocked.
FreeOf(n) == {m \in Consumers(n) : Deps[m] \subseteq Settled \cup {n}}
DeadOf(n, errs) == FreeOf(n) \cap (blocked \cup Broken(n, errs))

\* What settling node n, which was done or failed, means for the others.  Nothing
\* that depends on n has been anywhere yet, so what n blocks, and what those
\* block, has not been settled.
LEMMA SettleFacts ==
    ASSUME SchedInv, NEW f \in batch, Popped(f), NEW errs,
           \/ errs = errors /\ done' = done \cup {f.n}
           \/ errs = errors \cup {f.n} /\ done' = done,
           SettleConsumers(f.n, errs)
    PROVE  /\ \A m \in Consumers(f.n) : m \notin ready \cup RunningNodes \cup done \cup errors
           /\ Settled' = Settled \cup {f.n} /\ f.n \notin Settled
           /\ f.n \notin Consumers(f.n)
           /\ errors' = errs \cup DeadOf(f.n, errs)
           /\ blocked' = blocked \cup Broken(f.n, errs)
                            \cup UNION {Consumers(m) : m \in DeadOf(f.n, errs)}
           /\ ready' = ready \cup (FreeOf(f.n) \ DeadOf(f.n, errs))
           /\ CountsRight' /\ remaining' \in [Needed -> Int]
<1> DEFINE n == f.n
           blocked1 == blocked \cup Broken(n, errs)
           free == {m \in Consumers(n) : LastDep(m)}
           dead == free \cap blocked1
<1>1. /\ n \in Needed /\ n \notin ready \cup done \cup errors \cup blocked
      /\ Deps[n] \subseteq done /\ n \notin Deps[n] /\ pc # "raised"
      /\ n \notin Settled
  BY PoppedFacts DEF Settled
<1>2. /\ remaining' = [m \in Needed |-> remaining[m] - (IF m \in Consumers(n) THEN 1 ELSE 0)]
      /\ errors' = errs \cup dead
      /\ blocked' = blocked1 \cup UNION {Consumers(m) : m \in dead}
      /\ ready' = ready \cup (free \ dead)
  BY DEF SettleConsumers
<1>3. ASSUME NEW m \in Consumers(n)
      PROVE  m \in Needed /\ n \in Deps[m] /\ m \notin ready \cup RunningNodes \cup done \cup errors
  <2>1. m \in Needed /\ n \in Deps[m]
    BY DEF Consumers
  <2>2. m \notin ready \cup RunningNodes \cup done
    BY <1>1, <2>1 DEF SchedInv, DepsFirst
  <2>3. m \notin errors
    BY <1>1, <2>1 DEF SchedInv, ErrorsLast
  <2> QED BY <2>1, <2>2, <2>3
<1>4. n \notin Consumers(n)
  BY <1>1 DEF Consumers
<1>5. ASSUME NEW d \in dead, NEW m \in Consumers(d)
      PROVE  m \notin errors /\ m # n
  <2>1. d \in Consumers(n) /\ d \in Deps[m]
    BY DEF Consumers
  <2>2. d \notin done \cup errors
    BY <1>3, <2>1
  <2>3. m \notin errors
    BY <1>1, <2>1, <2>2 DEF SchedInv, ErrorsLast, Settled
  <2>4. m # n
    BY <1>1, <2>1, <2>2
  <2> QED BY <2>3, <2>4
<1>6. Settled' = Settled \cup {n}
  <2>1. errors \cap blocked' \subseteq blocked
    BY <1>2, <1>3, <1>5 DEF Broken
  <2>2. n \notin blocked'
    BY <1>1, <1>2, <1>4, <1>5 DEF Broken
  <2>3. dead \subseteq blocked' /\ blocked \subseteq blocked'
    BY <1>2
  <2>4. errors' = errs \cup dead
    BY <1>2
  <2> HIDE DEF dead
  <2> QED BY <2>1, <2>2, <2>3, <2>4 DEF Settled
<1>7. ASSUME NEW m \in Needed
      PROVE  /\ remaining'[m] = Cardinality(Deps[m] \ Settled') /\ remaining'[m] \in Int
             /\ m \in Consumers(n) => (LastDep(m) <=> Deps[m] \subseteq Settled')
  <2> DEFINE S == Settled
             c == Cardinality(Deps[m] \ S)
             c1 == Cardinality(Deps[m] \ (S \cup {n}))
  <2>1. remaining[m] = c
    BY <1>1 DEF SchedInv, CountsRight
  <2>2. /\ c1 = IF n \in Deps[m] THEN c - 1 ELSE c
        /\ c \in Nat
    BY <1>1, CountDown
  <2>3. m \in Consumers(n) <=> n \in Deps[m]
    BY DEF Consumers
  <2>4. remaining'[m] = IF m \in Consumers(n) THEN remaining[m] - 1 ELSE remaining[m]
    <3>1. CASE m \in Consumers(n)
      BY <1>2, <3>1
    <3>2. CASE m \notin Consumers(n)
      BY <1>2, <2>1, <2>2, <3>2
    <3> QED BY <3>1, <3>2
  <2>5. Deps[m] \ Settled' = Deps[m] \ (S \cup {n})
    BY <1>6
  <2>6. remaining'[m] = Cardinality(Deps[m] \ Settled') /\ remaining'[m] \in Int
    BY <2>1, <2>2, <2>3, <2>4, <2>5
  <2>7. ASSUME m \in Consumers(n) PROVE LastDep(m) <=> Deps[m] \subseteq Settled'
    <3>1. IsFiniteSet(Deps[m] \ Settled')
      BY GraphFacts
    <3>2. c1 = 0 <=> Deps[m] \ Settled' = {}
      BY <2>5, <3>1, FS_EmptySet
    <3>3. LastDep(m) <=> c1 = 0
      BY <2>1, <2>2, <2>3, <2>7 DEF LastDep
    <3> QED BY <3>2, <3>3
  <2> QED BY <2>6, <2>7
<1>8. free = FreeOf(n) /\ dead = DeadOf(n, errs)
  <2>1. free = FreeOf(n)
    BY <1>3, <1>6, <1>7 DEF FreeOf
  <2> QED BY <2>1 DEF DeadOf
<1>9. CountsRight' /\ remaining' \in [Needed -> Int]
  <2>1. remaining' = [m \in Needed |-> remaining'[m]]
    BY <1>2
  <2> QED BY <1>7, <2>1 DEF CountsRight
<1> HIDE DEF free, dead
<1> QED BY <1>1, <1>2, <1>3, <1>4, <1>6, <1>8, <1>9

\* A node that is done or has failed itself is settled, and what waits for it
\* alone is ready, or an error if it is blocked.
LEMMA SchedSettle ==
    ASSUME SchedInv, NEW f \in batch, Popped(f), BatchLeft(f), NEW errs,
           \/ errs = errors /\ done' = done \cup {f.n}
           \/ errs = errors \cup {f.n} /\ done' = done,
           SettleConsumers(f.n, errs)
    PROVE  SchedInv'
<1> DEFINE n == f.n
           blocked1 == blocked \cup Broken(n, errs)
           free == FreeOf(n)
           dead == DeadOf(n, errs)
<1>1. /\ n \in Needed /\ n \notin ready \cup done \cup errors \cup blocked
      /\ Deps[n] \subseteq done /\ n \notin Deps[n] /\ pc # "raised"
      /\ RunningNodes' = RunningNodes \ {n} /\ running' = running \ {f}
      /\ \A g, h \in running' : g.n = h.n => g = h
  BY PoppedFacts
<1>2. /\ \A m \in Consumers(n) : m \notin ready \cup RunningNodes \cup done \cup errors
      /\ Settled' = Settled \cup {n} /\ n \notin Settled /\ n \notin Consumers(n)
      /\ CountsRight' /\ remaining' \in [Needed -> Int]
  BY SettleFacts
<1>3. /\ free = {m \in Consumers(n) : Deps[m] \subseteq Settled'}
      /\ dead = free \cap blocked1
      /\ errors' = errs \cup dead
      /\ blocked' = blocked1 \cup UNION {Consumers(m) : m \in dead}
      /\ ready' = ready \cup (free \ dead)
  BY <1>2, SettleFacts DEF FreeOf, DeadOf
<1> HIDE DEF free, dead
<1>4. pc' \in {"pick", "wait"} /\ batch' \subseteq running' /\ \A g \in batch' : g.st # "run"
  BY BatchFacts
<1>5. \A m : Consumers(m) \subseteq Needed
  BY DEF Consumers
<1>6. Broken(n, errs) = IF n \in errs THEN Consumers(n) ELSE {}
  BY <1>1 DEF Broken
<1>7. Typed'
  <2>1. blocked' \subseteq Needed /\ errors' \subseteq Needed /\ ready' \subseteq Needed
        /\ done' \subseteq Needed
    BY <1>1, <1>3, <1>5, <1>6 DEF SchedInv, Typed
  <2>2. /\ running' \subseteq Future /\ IsFiniteSet(running') /\ used' \in [Workers -> Int]
        /\ UNCHANGED <<keepGoing, cores>>
    BY PoppedFacts DEF Popped
  <2> QED BY <1>2, <1>4, <2>1, <2>2 DEF SchedInv, Typed
<1>8. BlockedRight'
  <2>1. ASSUME NEW d \in errors' PROVE Consumers(d) \subseteq blocked'
    <3>1. CASE d \in errors
      BY <1>1, <1>3, <3>1 DEF SchedInv, BlockedRight
    <3>2. CASE d \in dead
      BY <1>3, <3>2
    <3>3. CASE d = n /\ n \in errs
      BY <1>3, <1>6, <3>3
    <3> QED BY <1>3, <3>1, <3>2, <3>3
  <2>2. ASSUME NEW m \in blocked' PROVE Deps[m] \cap errors' # {}
    <3>1. errors \subseteq errors' /\ errs \subseteq errors' /\ dead \subseteq errors'
      BY <1>3
    <3>2. CASE m \in blocked
      BY <3>1, <3>2 DEF SchedInv, BlockedRight
    <3>3. CASE m \in Broken(n, errs)
      BY <1>6, <3>1, <3>3 DEF Consumers
    <3>4. CASE \E d \in dead : m \in Consumers(d)
      BY <3>1, <3>4 DEF Consumers
    <3> QED BY <1>3, <3>2, <3>3, <3>4
  <2> QED BY <2>1, <2>2 DEF BlockedRight, Consumers
<1>9. ErrorsLast'
  <2>1. ASSUME NEW m \in errors' PROVE Deps[m] \subseteq Settled'
    <3>1. CASE m \in errors
      BY <1>1, <1>2, <3>1 DEF SchedInv, ErrorsLast
    <3>2. CASE m \in dead
      BY <1>3, <3>2
    <3>3. CASE m = n
      BY <1>1, <1>2, <3>3 DEF Settled
    <3> QED BY <1>3, <3>1, <3>2, <3>3
  <2> QED BY <2>1 DEF ErrorsLast
<1>10. Somewhere'
  <2>1. ASSUME NEW m \in Needed, Deps[m] \subseteq Settled'
        PROVE  m \in (ready \cup RunningNodes \cup done \cup errors)'
    <3>1. CASE m = n
      BY <1>3, <3>1
    <3>2. CASE m # n /\ n \notin Deps[m]
      <4>1. m \in ready \cup RunningNodes \cup done \cup errors
        BY <1>1, <1>2, <2>1, <3>2 DEF SchedInv, Somewhere
      <4> QED BY <1>1, <1>3, <3>2, <4>1
    <3>3. CASE n \in Deps[m]
      <4>1. m \in free
        BY <1>3, <2>1, <3>3 DEF Consumers
      <4> QED BY <1>3, <4>1
    <3> QED BY <3>1, <3>2, <3>3
  <2> QED BY <2>1 DEF Somewhere
<1>11. DepsFirst'
  <2>1. done \subseteq done'
    OBVIOUS
  <2>2. ASSUME NEW m \in free \ dead PROVE Deps[m] \subseteq done'
    <3> SUFFICES ASSUME NEW d \in Deps[m], d \notin done' PROVE FALSE
      OBVIOUS
    <3>1. m \notin blocked1 /\ m \in Needed /\ d \in Settled'
      BY <1>3, <1>5
    <3>2. CASE d = n
      BY <1>3, <1>6, <3>1, <3>2
    <3>3. CASE d # n
      <4>1. d \in errors
        BY <1>2, <2>1, <3>1, <3>3 DEF Settled
      <4>2. m \in Consumers(d)
        BY <3>1 DEF Consumers
      <4> QED BY <1>1, <3>1, <4>1, <4>2 DEF SchedInv, BlockedRight
    <3> QED BY <3>2, <3>3
  <2>3. ASSUME NEW m \in (RunningNodes \cup ready \cup done)' PROVE Deps[m] \subseteq done'
    <3>1. CASE m \in RunningNodes \cup ready \cup done
      BY <2>1, <3>1 DEF SchedInv, DepsFirst
    <3>2. CASE m = n
      BY <1>1, <2>1, <3>2
    <3>3. CASE m \in free \ dead
      BY <2>2, <3>3
    <3> QED BY <1>1, <1>3, <3>1, <3>2, <3>3
  <2> QED BY <2>3 DEF DepsFirst
<1>12. OnePlace'
  <2>1. /\ ready \cap (RunningNodes \cup done \cup errors) = {}
        /\ RunningNodes \cap (done \cup errors) = {}
        /\ done \cap errors = {}
    BY DEF SchedInv, OnePlace
  <2>2. /\ errors' \subseteq errors \cup {n} \cup dead /\ done' \subseteq done \cup {n}
        /\ dead \subseteq Consumers(n) /\ free \subseteq Consumers(n)
        /\ ready' = ready \cup (free \ dead)
    BY <1>3
  <2>3. ready' \cap (RunningNodes \cup done \cup errors)' = {}
    BY <1>1, <1>2, <2>1, <2>2
  <2>4. (RunningNodes \cap (done \cup errors))' = {}
    BY <1>1, <1>2, <2>1, <2>2
  <2>5. (done \cap errors)' = {}
    BY <1>1, <1>2, <1>3, <2>1
  <2> QED BY <1>1, <2>3, <2>4, <2>5 DEF OnePlace
<1>13. SlotsRight' /\ EndedIdle'
  BY <1>4, PoppedFacts DEF EndedIdle
<1> QED BY <1>2, <1>7, <1>8, <1>9, <1>10, <1>11, <1>12, <1>13 DEF SchedInv

\* A failure that ends the build leaves everything else where it is.
LEMMA SchedRaise ==
    ASSUME SchedInv, NEW f \in batch, Popped(f), errors' = errors \cup {f.n},
           pc' = "raised", batch' = {}, UNCHANGED <<ready, remaining, blocked, done>>
    PROVE  SchedInv'
<1>1. Typed'
  BY PoppedFacts DEF SchedInv, Typed, Popped
<1>2. CountsRight' /\ ErrorsLast' /\ Somewhere' /\ EndedIdle'
  BY DEF CountsRight, ErrorsLast, Somewhere, EndedIdle
<1>3. BlockedRight' /\ DepsFirst' /\ OnePlace'
  <2>1. BlockedRight'
    BY DEF SchedInv, BlockedRight
  <2>2. DepsFirst'
    BY PoppedFacts DEF SchedInv, DepsFirst
  <2>3. OnePlace'
    BY PoppedFacts DEF SchedInv, OnePlace
  <2> QED BY <2>1, <2>2, <2>3
<1> QED BY <1>1, <1>2, <1>3, PoppedFacts DEF SchedInv

\* Whatever the outcome of a future, settling it keeps the invariant.
LEMMA SchedSettled == ASSUME SchedInv, Settle PROVE SchedInv'
<1>1. PICK f \in batch : SettleRequeue(f) \/ SettleOk(f) \/ SettleFail(f)
  BY DEF Settle
<1>2. CASE SettleRequeue(f)
  BY <1>2, SchedRequeue
<1>3. CASE SettleOk(f)
  <2>1. /\ Popped(f) /\ BatchLeft(f) /\ done' = done \cup {f.n}
        /\ SettleConsumers(f.n, errors)
    BY <1>3 DEF SettleOk
  <2> QED BY <2>1, SchedSettle
<1>4. CASE SettleFail(f)
  <2>1. Popped(f) /\ done' = done
    BY <1>4 DEF SettleFail
  <2>2. CASE BatchLeft(f) /\ SettleConsumers(f.n, errors \cup {f.n})
    BY <2>1, <2>2, SchedSettle
  <2>3. CASE /\ errors' = errors \cup {f.n} /\ pc' = "raised" /\ batch' = {}
             /\ UNCHANGED <<ready, remaining, blocked>>
    BY <2>1, <2>3, SchedRaise
  <2> QED BY <1>4, <2>2, <2>3 DEF SettleFail
<1> QED BY <1>1, <1>2, <1>3, <1>4

-----------------------------------------------------------------------------
(* The threads, the hosts, and the theorems.                               *)

\* The thread of a node is through: the future stays, with an outcome.
LEMMA SchedFinish == ASSUME SchedInv, NEW f \in running, Finish(f) PROVE SchedInv'
<1>1. PICK st \in Outcomes : running' = (running \ {f}) \cup {[f EXCEPT !.st = st]}
  BY DEF Finish, Outcomes
<1> DEFINE g == [f EXCEPT !.st = st]
<1>2. /\ f.st = "run" /\ pc \in {"pick", "wait"} /\ f \in Future
      /\ UNCHANGED <<keepGoing, pc, ready, remaining, batch, used, errors, blocked, done, cores>>
  BY DEF Finish, SchedInv, Typed
<1>3. g \in Future /\ g.n = f.n /\ g.w = f.w /\ g.st = st
  BY <1>2 DEF Future
<1>4. \A h, k \in running : h.n = k.n => h = k
  BY DEF SchedInv, OnePlace
<1>5. g \notin running \ {f}
  BY <1>3, <1>4
<1> HIDE DEF g
<1>6. RunningNodes' = RunningNodes
  <2>1. running' = (running \ {f}) \cup {g}
    BY <1>1 DEF g
  <2> QED BY <1>3, <2>1 DEF RunningNodes
<1>7. IsFiniteSet(running) /\ IsFiniteSet(running \ {f}) /\ IsFiniteSet(running')
  BY <1>1, FS_RemoveElement, FS_AddElement DEF SchedInv, Typed, g
<1>8. Typed'
  <2>1. running' \subseteq Future /\ batch' \subseteq running'
    BY <1>1, <1>2, <1>3 DEF SchedInv, Typed, g
  <2> QED BY <1>2, <1>7, <2>1 DEF SchedInv, Typed
<1>9. CountsRight' /\ BlockedRight' /\ ErrorsLast' /\ Somewhere' /\ EndedIdle'
  BY <1>2, <1>6 DEF SchedInv, CountsRight, BlockedRight, ErrorsLast, Somewhere, EndedIdle,
       Settled, Consumers
<1>10. DepsFirst' /\ OnePlace'
  <2>1. running' = (running \ {f}) \cup {g}
    BY <1>1 DEF g
  <2>2. \A h, k \in running' : h.n = k.n => h = k
    BY <1>3, <1>4, <2>1
  <2> QED BY <1>2, <1>6, <2>2 DEF SchedInv, DepsFirst, OnePlace
<1>11. SlotsRight'
  <2>1. ASSUME NEW v \in Workers PROVE used'[v] = Cardinality({h \in running' : h.w = v})
    <3>1. used[v] = Cardinality(Of(v, running))
      BY DEF SchedInv, SlotsRight, Of
    <3> DEFINE c == Cardinality(Of(v, running))
               c1 == Cardinality(Of(v, running \ {f}))
               c2 == Cardinality(Of(v, running'))
    <3>2. c1 = (IF f.w = v THEN c - 1 ELSE c) /\ c \in Nat
      BY <1>7, CountFutures
    <3>3. c2 = IF g.w = v THEN c1 + 1 ELSE c1
      <4>1. PICK rest : rest = running \ {f}
        OBVIOUS
      <4>2. running' = rest \cup {g} /\ g \notin rest /\ IsFiniteSet(rest)
        BY <1>1, <1>5, <1>7, <4>1 DEF g
      <4> QED BY ONLY <4>1, <4>2, CountFutures
    <3>4. c2 = c
      BY <1>3, <3>2, <3>3
    <3> QED BY <1>2, <3>1, <3>4 DEF Of
  <2>2. \A h \in running' : h.n \in LocalNodes => h.w = Here
    BY <1>1, <1>3 DEF SchedInv, SlotsRight, g
  <2> QED BY <1>2, <2>1, <2>2 DEF SchedInv, SlotsRight
<1> QED BY <1>8, <1>9, <1>10, <1>11 DEF SchedInv

\* Hosts that come and go change only how many slots there are to give out.
LEMMA SchedHost == ASSUME SchedInv, NEW h \in Hosts, HostChange(h) PROVE SchedInv'
<1>1. /\ cores' \in [Hosts -> Int]
      /\ UNCHANGED <<keepGoing, pc, ready, remaining, running, batch, used, errors, blocked, done>>
  BY SlotsAssumption DEF HostChange, SchedInv, Typed
<1>2. Typed' /\ EndedIdle'
  BY <1>1 DEF SchedInv, Typed, EndedIdle
<1>3. CountsRight' /\ BlockedRight' /\ ErrorsLast' /\ Somewhere'
  BY <1>1 DEF SchedInv, CountsRight, BlockedRight, ErrorsLast, Somewhere, Settled, Consumers,
       RunningNodes
<1>4. DepsFirst' /\ OnePlace' /\ SlotsRight'
  BY <1>1 DEF SchedInv, DepsFirst, OnePlace, SlotsRight, RunningNodes
<1> QED BY <1>2, <1>3, <1>4 DEF SchedInv

\* The invariant holds in every state.
THEOREM SchedSafe == Spec => []SchedInv
<1>1. SchedInv /\ [Next]_vars => SchedInv'
  <2> SUFFICES ASSUME SchedInv, [Next]_vars PROVE SchedInv'
    OBVIOUS
  <2>1. CASE UNCHANGED vars
    BY <2>1 DEF vars, SchedInv, Typed, CountsRight, BlockedRight, ErrorsLast, Somewhere,
         EndedIdle, DepsFirst, OnePlace, SlotsRight, Settled, Consumers, RunningNodes
  <2>2. CASE Main
    BY <2>2, SchedPick, SchedStop, SchedWait, SchedSettled DEF Main
  <2>3. CASE Next
    BY <2>2, <2>3, SchedFinish, SchedHost DEF Next
  <2> QED BY <2>1, <2>3
<1> QED BY <1>1, SchedInit, PTL DEF Spec

\* A node is given out only after everything it depends on has run without an
\* error, for any graph and any hosts.
THEOREM DepsRunFirst == Spec => []DepsFirst
<1>1. SchedInv => DepsFirst
  BY DEF SchedInv
<1> QED BY <1>1, SchedSafe, PTL

\* No node is in two places, or given out twice, whatever hosts hand back.
THEOREM NodesInOnePlace == Spec => []OnePlace
<1>1. SchedInv => OnePlace
  BY DEF SchedInv
<1> QED BY <1>1, SchedSafe, PTL

\* No slot is lost or taken twice, and --jobs holds.
THEOREM SlotsAddUp == Spec => []SlotsRight
<1>1. SchedInv => SlotsRight
  BY DEF SchedInv
<1> QED BY <1>1, SchedSafe, PTL

\* Among finitely many with a number each, somebody has the greatest.
LEMMA GreatestOne ==
    ASSUME NEW S, IsFiniteSet(S), S # {}, NEW f, \A h \in S : f[h] \in Int
    PROVE  \E h \in S : \A g \in S : f[g] <= f[h]
<1> DEFINE Great(X) == \E h \in X : \A g \in X : f[g] <= f[h]
           T == {X \in SUBSET S : X # {} /\ ~Great(X)}
<1> SUFFICES ASSUME T # {} PROVE FALSE
  OBVIOUS
<1>1. T \subseteq FiniteSubsetsOf(S)
  <2>1. \A X \in T : X \in SUBSET S /\ IsFiniteSet(X)
    BY FS_Subset
  <2> QED BY <2>1 DEF FiniteSubsetsOf
<1>2. PICK X \in T : \A Y \in T : ~(<<Y, X>> \in StrictSubsetOrdering(S))
  <2> HIDE DEF T
  <2> QED BY <1>1, FS_StrictSubsetOrderingWellFounded, WFMin
<1>3. PICK x : x \in X
  OBVIOUS
<1> DEFINE Y == X \ {x}
<1>4. X \in SUBSET S /\ f[x] \in Int /\ \A g \in Y : f[g] \in Int
  BY <1>3
<1>5. Y # {}
  <2> SUFFICES ASSUME Y = {} PROVE FALSE
    OBVIOUS
  <2>1. \A g \in X : g = x
    OBVIOUS
  <2> QED BY <1>3, <1>4, <2>1
<1>6. Great(Y)
  <2> SUFFICES ASSUME ~Great(Y) PROVE FALSE
    OBVIOUS
  <2>1. Y \in T
    BY <1>4, <1>5
  <2>2. <<Y, X>> \in StrictSubsetOrdering(S)
    BY <1>3, <1>4 DEF StrictSubsetOrdering
  <2> QED BY <1>2, <2>1, <2>2
<1>7. PICK m \in Y : \A g \in Y : f[g] <= f[m]
  BY <1>6
<1>8. \/ \A g \in X : f[g] <= f[m]
      \/ \A g \in X : f[g] <= f[x]
  <2>1. f[m] \in Int
    BY <1>4
  <2>2. CASE f[x] <= f[m]
    BY <1>7, <2>2
  <2>3. CASE ~(f[x] <= f[m])
    BY <1>4, <1>7, <2>1, <2>3
  <2> QED BY <2>2, <2>3
<1> QED BY <1>3, <1>8

\* With hosts there is one with most room.
LEMMA SomeBest == ASSUME Typed, Hosts # {} PROVE BestRemote # {}
<1> DEFINE room == [h \in Hosts |-> FreeSlots(h)]
<1>1. \A h \in Hosts : FreeSlots(h) \in Int
  BY DEF Typed, FreeSlots, Workers
<1>2. \E h \in Hosts : \A g \in Hosts : room[g] <= room[h]
  <2>1. \A h \in Hosts : room[h] \in Int
    BY <1>1
  <2> HIDE DEF room
  <2> QED BY <2>1, GreatestOne, SlotsAssumption
<1> QED BY <1>2 DEF BestRemote

\* A node that nobody is given finds every slot here taken, and unless it must
\* run here those of the hosts too.
LEMMA NoRoom ==
    ASSUME SchedInv, NoPick, NEW n \in ready
    PROVE  /\ Cardinality({f \in running : f.w = Here}) = Jobs
           /\ n \in LocalNodes \/ \A h \in Hosts : FreeSlots(h) <= 0
<1> DEFINE here == n \in LocalNodes \/ \A h \in BestRemote : FreeSlots(h) <= 0
<1>1. /\ Here \in Workers /\ used[Here] \in Int /\ Jobs \in Int /\ LocalFree = Jobs - used[Here]
      /\ used[Here] = Cardinality({f \in running : f.w = Here}) /\ used[Here] <= Jobs
  BY SlotsAssumption DEF SchedInv, Typed, SlotsRight, Workers, LocalFree
<1>2. /\ BestRemote \subseteq Hosts /\ Hosts \subseteq Workers
      /\ \A h \in Hosts : FreeSlots(h) \in Int
      /\ \A h \in BestRemote : \A g \in Hosts : FreeSlots(g) <= FreeSlots(h)
  BY DEF SchedInv, Typed, BestRemote, FreeSlots, Workers
<1>3. ~WorkerFor(n, Here) /\ \A h \in BestRemote : ~WorkerFor(n, h)
  BY <1>1, <1>2 DEF NoPick
<1>4. here
  <2> SUFFICES ASSUME ~here PROVE FALSE
    OBVIOUS
  <2>1. ~(\A h \in BestRemote : LocalFree >= FreeSlots(h))
    BY <1>3 DEF WorkerFor
  <2>2. PICK h \in BestRemote : LocalFree < FreeSlots(h)
    <3>1. LocalFree \in Int /\ \A h \in BestRemote : FreeSlots(h) \in Int
      BY <1>1, <1>2
    <3>2. PICK h \in BestRemote : ~(LocalFree >= FreeSlots(h))
      BY <2>1
    <3> QED BY <3>1, <3>2
  <2> QED BY <1>3, <2>2 DEF WorkerFor
<1>5. LocalFree <= 0
  BY <1>1, <1>3, <1>4 DEF WorkerFor
<1>6. ASSUME n \notin LocalNodes, NEW h \in Hosts PROVE FreeSlots(h) <= 0
  <2>1. PICK b : b \in BestRemote
    BY SomeBest DEF SchedInv
  <2>2. FreeSlots(b) <= 0 /\ FreeSlots(h) <= FreeSlots(b)
    BY <1>2, <1>4, <1>6, <2>1
  <2> QED BY <1>2, <2>1, <2>2
<1> QED BY <1>1, <1>5, <1>6

\* While a node waits in the queue nobody has a slot for it, for any number of
\* slots and hosts; when a build ends, what is not done has failed itself or waits
\* for something that is not done: no count is left above zero by mistake.
THEOREM NothingForgotten == Spec => []KeepsGoing
<1>1. SchedInv => KeepsGoing
  <2>1. ASSUME SchedInv, pc = "ended", NEW n \in Needed \ done, Deps[n] \subseteq done
        PROVE  n \in errors \ blocked
    <3>1. n \in errors
      <4>1. ready = {} /\ RunningNodes = {}
        BY <2>1 DEF SchedInv, EndedIdle, RunningNodes
      <4> QED BY <2>1, <4>1 DEF SchedInv, Somewhere, Settled
    <3>2. n \notin blocked
      BY <2>1 DEF SchedInv, BlockedRight, OnePlace
    <3> QED BY <3>1, <3>2
  <2> QED BY <2>1, NoRoom DEF KeepsGoing
<1> QED BY <1>1, SchedSafe, PTL

-----------------------------------------------------------------------------
(* The build comes nearer to its end.                                      *)

Having(sts, fs) == {f \in fs : f.st \in sts}

\* A future that is added or removed counts for its own state.
LEMMA HavingFinite ==
    ASSUME NEW fs, IsFiniteSet(fs), NEW sts
    PROVE  IsFiniteSet(Having(sts, fs)) /\ Cardinality(Having(sts, fs)) \in Nat
<1>1. IsFiniteSet(Having(sts, fs))
  BY FS_Subset DEF Having
<1> QED BY <1>1, FS_CardinalityType

LEMMA HavingMore ==
    ASSUME NEW fs, IsFiniteSet(fs), NEW f, f \notin fs, NEW sts
    PROVE  Cardinality(Having(sts, fs \cup {f})) =
                Cardinality(Having(sts, fs)) + (IF f.st \in sts THEN 1 ELSE 0)
<1>1. CASE f.st \in sts
  <2>1. Having(sts, fs \cup {f}) = Having(sts, fs) \cup {f} /\ f \notin Having(sts, fs)
    BY <1>1 DEF Having
  <2> QED BY <1>1, <2>1, HavingFinite, FS_AddElement
<1>2. CASE f.st \notin sts
  <2>1. Having(sts, fs \cup {f}) = Having(sts, fs)
    BY <1>2 DEF Having
  <2> QED BY <1>2, <2>1, HavingFinite
<1> QED BY <1>1, <1>2

LEMMA HavingLess ==
    ASSUME NEW fs, IsFiniteSet(fs), NEW f \in fs, NEW sts
    PROVE  Cardinality(Having(sts, fs \ {f})) =
                Cardinality(Having(sts, fs)) - (IF f.st \in sts THEN 1 ELSE 0)
<1>1. CASE f.st \in sts
  <2>1. Having(sts, fs \ {f}) = Having(sts, fs) \ {f} /\ f \in Having(sts, fs)
    BY <1>1 DEF Having
  <2> QED BY <1>1, <2>1, HavingFinite, FS_RemoveElement
<1>2. CASE f.st \notin sts
  <2>1. Having(sts, fs \ {f}) = Having(sts, fs)
    BY <1>2 DEF Having
  <2> QED BY <1>2, <2>1, HavingFinite
<1> QED BY <1>1, <1>2

\* The weight of the futures.
Weight(fs) ==
    2 * Cardinality(Having({"run"}, fs)) + Cardinality(Having({"ok", "fail"}, fs))
      + 4 * Cardinality(Having({"requeue"}, fs))

WeightOf(f) == IF f.st = "run" THEN 2 ELSE IF f.st = "requeue" THEN 4 ELSE 1

LEMMA Weighs ==
    ASSUME NEW fs, IsFiniteSet(fs), NEW f \in Future
    PROVE  /\ f \notin fs => Weight(fs \cup {f}) = Weight(fs) + WeightOf(f)
           /\ f \in fs => Weight(fs \ {f}) = Weight(fs) - WeightOf(f)
           /\ Weight(fs) \in Nat
<1> DEFINE R == {"run"}
           O == {"ok", "fail"}
           Q == {"requeue"}
<1>1. /\ WeightOf(f) = 2 * (IF f.st \in R THEN 1 ELSE 0) + (IF f.st \in O THEN 1 ELSE 0)
                        + 4 * (IF f.st \in Q THEN 1 ELSE 0)
      /\ \A s : Weight(s) = 2 * Cardinality(Having(R, s)) + Cardinality(Having(O, s))
                              + 4 * Cardinality(Having(Q, s))
  BY DEF Future, Outcomes, WeightOf, Weight
<1> HIDE DEF R, O, Q
<1>2. /\ Cardinality(Having(R, fs)) \in Nat /\ Cardinality(Having(O, fs)) \in Nat
      /\ Cardinality(Having(Q, fs)) \in Nat
  BY HavingFinite
<1>3. ASSUME f \notin fs PROVE Weight(fs \cup {f}) = Weight(fs) + WeightOf(f)
  <2>1. /\ Cardinality(Having(R, fs \cup {f})) =
             Cardinality(Having(R, fs)) + (IF f.st \in R THEN 1 ELSE 0)
        /\ Cardinality(Having(O, fs \cup {f})) =
             Cardinality(Having(O, fs)) + (IF f.st \in O THEN 1 ELSE 0)
        /\ Cardinality(Having(Q, fs \cup {f})) =
             Cardinality(Having(Q, fs)) + (IF f.st \in Q THEN 1 ELSE 0)
    BY <1>3, HavingMore
  <2> QED BY <1>1, <1>2, <2>1
<1>4. ASSUME f \in fs PROVE Weight(fs \ {f}) = Weight(fs) - WeightOf(f)
  <2>1. /\ Cardinality(Having(R, fs \ {f})) =
             Cardinality(Having(R, fs)) - (IF f.st \in R THEN 1 ELSE 0)
        /\ Cardinality(Having(O, fs \ {f})) =
             Cardinality(Having(O, fs)) - (IF f.st \in O THEN 1 ELSE 0)
        /\ Cardinality(Having(Q, fs \ {f})) =
             Cardinality(Having(Q, fs)) - (IF f.st \in Q THEN 1 ELSE 0)
    BY <1>4, HavingLess
  <2> QED BY <1>1, <1>2, <2>1
<1>5. Weight(fs) \in Nat
  BY <1>1, <1>2
<1> QED BY <1>3, <1>4, <1>5

\* What is handed back is within the bound.
Handed == requeues \in 0 .. MaxRequeues

\* What is left to do is a number, the weight of the futures and of what was never
\* given out.
WorkFacts ==
    /\ IsFiniteSet(Unstarted) /\ Cardinality(Unstarted) \in Nat
    /\ Weight(running) \in Nat /\ MaxRequeues - requeues \in Nat
    /\ WorkLeft \in Nat
    /\ WorkLeft = 3 * Cardinality(Unstarted) + Weight(running) + 3 * (MaxRequeues - requeues)

LEMMA WorkIs == SchedInv /\ Handed => WorkFacts
<1> SUFFICES ASSUME SchedInv, Handed PROVE WorkFacts
  OBVIOUS
<1>1. IsFiniteSet(Unstarted) /\ Cardinality(Unstarted) \in Nat
  <2>1. Unstarted \in SUBSET Nodes
    BY GraphFacts DEF Unstarted
  <2> QED BY <2>1, GraphAssumption, FS_Subset, FS_CardinalityType
<1>2. /\ Cardinality(Having({"run"}, running)) \in Nat
      /\ Cardinality(Having({"ok", "fail"}, running)) \in Nat
      /\ Cardinality(Having({"requeue"}, running)) \in Nat
  BY HavingFinite DEF SchedInv, Typed
<1>3. Weight(running) \in Nat
  BY <1>2 DEF Weight
<1>4. MaxRequeues - requeues \in Nat
  BY SlotsAssumption DEF Handed
<1>5. WorkLeft = 3 * Cardinality(Unstarted) + Weight(running) + 3 * (MaxRequeues - requeues)
  BY <1>1, <1>2, <1>4 DEF WorkLeft, Weight, With, Having
<1>6. WorkLeft \in Nat
  BY <1>1, <1>3, <1>4, <1>5
<1> QED BY <1>1, <1>3, <1>4, <1>5, <1>6 DEF WorkFacts

LEMMA WorkIsNext == (SchedInv /\ Handed)' => WorkFacts'
  BY WorkIs, PTL

\* A step that changes nothing that counts.
LEMMA WorkSame ==
    ASSUME UNCHANGED <<running, errors, done, requeues>> PROVE WorkLeft' = WorkLeft
  BY DEF WorkLeft, Unstarted, With, RunningNodes

\* A node that is given out was in the queue, and counted as never given out.
LEMMA WorkPick ==
    ASSUME SchedInv, SchedInv', Handed, Handed', Pick PROVE WorkLeft' < WorkLeft
<1>1. PICK n \in ready, w \in Workers :
        running' = running \cup {[n |-> n, w |-> w, st |-> "run"]}
  BY DEF Pick
<1> DEFINE f == [n |-> n, w |-> w, st |-> "run"]
<1>2. UNCHANGED <<errors, done, requeues>>
  BY DEF Pick
<1>3. /\ f \in Future /\ WeightOf(f) = 2 /\ f.n = n
      /\ n \in Unstarted /\ f \notin running
  BY DEF SchedInv, Typed, Future, OnePlace, Unstarted, RunningNodes, WeightOf
<1>4. Unstarted' = Unstarted \ {n}
  <2>1. RunningNodes' = RunningNodes \cup {n}
    <3>1. \A g \in running' : g \in running \/ g = f
      BY <1>1
    <3>2. running \subseteq running' /\ f \in running'
      BY <1>1
    <3> HIDE DEF f
    <3> QED BY <1>3, <3>1, <3>2 DEF RunningNodes
  <2> QED BY <1>2, <2>1 DEF Unstarted
<1>5. Weight(running') = Weight(running) + 2
  <2>1. running' = running \cup {f} /\ IsFiniteSet(running)
    BY <1>1 DEF SchedInv, Typed
  <2> HIDE DEF f
  <2> QED BY <1>3, <2>1, Weighs
<1>6. Cardinality(Unstarted') = Cardinality(Unstarted) - 1
  BY <1>3, <1>4, WorkIs, FS_RemoveElement DEF WorkFacts
<1>7. WorkLeft = 3 * Cardinality(Unstarted) + Weight(running) + 3 * (MaxRequeues - requeues)
  BY WorkIs DEF WorkFacts
<1>8. /\ WorkLeft' = 3 * Cardinality(Unstarted') + Weight(running') + 3 * (MaxRequeues - requeues')
      /\ Cardinality(Unstarted') \in Nat
  BY WorkIsNext DEF WorkFacts
<1> HIDE DEF f
<1> QED BY <1>2, <1>5, <1>6, <1>7, <1>8, WorkIs DEF WorkFacts

\* A thread that is through leaves less to do, also when its host hands the node
\* back.
LEMMA WorkFinish ==
    ASSUME SchedInv, SchedInv', Handed, Handed', NEW f \in running, Finish(f)
    PROVE  WorkLeft' < WorkLeft
<1>1. PICK st \in Outcomes :
        /\ running' = (running \ {f}) \cup {[f EXCEPT !.st = st]}
        /\ requeues' = requeues + (IF st = "requeue" THEN 1 ELSE 0)
  BY DEF Finish, Outcomes
<1> DEFINE g == [f EXCEPT !.st = st]
<1>2. /\ f.st = "run" /\ f \in Future /\ UNCHANGED <<errors, done>>
      /\ IsFiniteSet(running) /\ IsFiniteSet(running \ {f})
  BY FS_RemoveElement DEF Finish, SchedInv, Typed
<1>3. g \in Future /\ g.n = f.n /\ g.st = st
  BY <1>2 DEF Future
<1>4. g \notin running \ {f}
  BY <1>3 DEF SchedInv, OnePlace
<1>5. /\ WeightOf(f) = 2
      /\ WeightOf(g) = IF st = "requeue" THEN 4 ELSE 1
  BY <1>2, <1>3 DEF WeightOf, Outcomes
<1>6. running' = (running \ {f}) \cup {g}
  BY <1>1
<1> HIDE DEF g
<1>7. Unstarted' = Unstarted
  <2>1. RunningNodes' = RunningNodes
    BY <1>3, <1>6 DEF RunningNodes
  <2> QED BY <1>2, <2>1 DEF Unstarted
<1>8. Weight(running') = Weight(running) - 2 + WeightOf(g)
  <2>1. Weight(running \ {f}) = Weight(running) - 2 /\ Weight(running) \in Nat
    BY <1>2, <1>5, Weighs
  <2>2. Weight((running \ {f}) \cup {g}) = Weight(running \ {f}) + WeightOf(g)
    BY <1>2, <1>3, <1>4, Weighs
  <2> QED BY <1>6, <2>1, <2>2
<1>9. WorkLeft = 3 * Cardinality(Unstarted) + Weight(running) + 3 * (MaxRequeues - requeues)
  BY WorkIs DEF WorkFacts
<1>10. /\ WorkLeft' = 3 * Cardinality(Unstarted') + Weight(running') + 3 * (MaxRequeues - requeues')
      /\ Cardinality(Unstarted') \in Nat
  BY WorkIsNext DEF WorkFacts
<1>11. requeues \in Int /\ requeues' \in Int /\ MaxRequeues \in Int
  BY SlotsAssumption DEF Handed
<1>12. CASE st = "requeue"
  <2>1. requeues' = requeues + 1 /\ WeightOf(g) = 4
    BY <1>1, <1>5, <1>12
  <2> QED BY <1>7, <1>8, <1>9, <1>10, <1>11, <2>1, WorkIs DEF WorkFacts
<1>13. CASE st # "requeue"
  <2>1. requeues' = requeues /\ WeightOf(g) = 1
    BY <1>1, <1>5, <1>11, <1>13
  <2> QED BY <1>7, <1>8, <1>9, <1>10, <1>11, <2>1, WorkIs DEF WorkFacts
<1> QED BY <1>12, <1>13

\* What is settled counts no more; only a node that is handed back counts again
\* as one to give out, which is less than its future counted.
LEMMA WorkSettle ==
    ASSUME SchedInv, SchedInv', Handed, Handed', Settle PROVE WorkLeft' < WorkLeft
<1>1. PICK f \in batch : SettleRequeue(f) \/ SettleOk(f) \/ SettleFail(f)
  BY DEF Settle
<1>2. Popped(f) /\ requeues' = requeues
  BY <1>1 DEF SettleRequeue, SettleOk, SettleFail, Popped
<1>3. /\ f \in running /\ f \in Future /\ f.n \in RunningNodes /\ IsFiniteSet(running)
      /\ running' = running \ {f} /\ RunningNodes' = RunningNodes \ {f.n}
  BY <1>2, PoppedFacts DEF SchedInv, Typed, RunningNodes
<1>4. Weight(running') = Weight(running) - WeightOf(f)
  BY <1>3, Weighs
<1>5. WorkLeft = 3 * Cardinality(Unstarted) + Weight(running) + 3 * (MaxRequeues - requeues)
  BY WorkIs DEF WorkFacts
<1>6. /\ WorkLeft' = 3 * Cardinality(Unstarted') + Weight(running') + 3 * (MaxRequeues - requeues')
      /\ Cardinality(Unstarted') \in Nat
  BY WorkIsNext DEF WorkFacts
<1>7. CASE SettleRequeue(f)
  <2>1. f.st = "requeue" /\ UNCHANGED <<errors, done>>
    BY <1>7 DEF SettleRequeue
  <2>2. Unstarted' = Unstarted \cup {f.n} /\ f.n \notin Unstarted
    <3>1. f.n \in Needed /\ f.n \notin done \cup errors
      BY <1>2, PoppedFacts
    <3> QED BY <1>3, <2>1, <3>1 DEF Unstarted
  <2>3. Cardinality(Unstarted') = Cardinality(Unstarted) + 1
    BY <2>2, WorkIs, FS_AddElement DEF WorkFacts
  <2>4. WeightOf(f) = 4
    BY <2>1 DEF WeightOf
  <2> QED BY <1>2, <1>4, <1>5, <1>6, <2>3, <2>4, WorkIs DEF WorkFacts
<1>8. CASE SettleOk(f) \/ SettleFail(f)
  <2>1. /\ f.n \in done' \cup errors' /\ done \subseteq done' /\ errors \subseteq errors'
        /\ f.st \in {"ok", "fail"}
    BY <1>8 DEF SettleOk, SettleFail, SettleConsumers
  <2>2. Unstarted' \subseteq Unstarted
    BY <1>3, <2>1 DEF Unstarted
  <2>3. Cardinality(Unstarted') <= Cardinality(Unstarted)
    BY <2>2, WorkIs, FS_Subset DEF WorkFacts
  <2>4. Cardinality(Unstarted') \in Nat
    BY <1>6
  <2>5. WeightOf(f) = 1
    BY <2>1 DEF WeightOf
  <2> QED BY <1>2, <1>4, <1>5, <1>6, <2>3, <2>4, <2>5, WorkIs DEF WorkFacts
<1> QED BY <1>1, <1>7, <1>8

\* The invariant with the bound on what is handed back.
LEMMA SchedBounded == Spec => [](SchedInv /\ Handed)
<1>1. Init => Handed
  BY SlotsAssumption DEF Init, Handed
<1>2. ASSUME Handed, [Next]_vars PROVE Handed'
  <2>1. CASE requeues' = requeues
    BY <1>2, <2>1 DEF Handed
  <2>2. CASE \E f \in running : Finish(f)
    <3>1. PICK st \in Outcomes :
            /\ st = "requeue" => requeues < MaxRequeues
            /\ requeues' = requeues + (IF st = "requeue" THEN 1 ELSE 0)
      BY <2>2 DEF Finish, Outcomes
    <3> QED BY <1>2, <3>1, SlotsAssumption DEF Handed
  <2>3. requeues' = requeues \/ \E f \in running : Finish(f)
    BY <1>2 DEF Next, Main, Pick, StopPicking, Wait, Settle, SettleRequeue, SettleOk, SettleFail,
         Popped, HostChange, vars
  <2> QED BY <2>1, <2>2, <2>3
<1>3. Spec => []Handed
  BY <1>1, <1>2, PTL DEF Spec
<1> QED BY <1>3, SchedSafe, PTL

\* For any graph, slots and hosts: what is left to do is a natural number that no
\* step makes greater, and that every node given out, finished or settled makes
\* less.  So those are finitely many in a build, however often hosts hand nodes
\* back within the bound.
THEOREM BuildNearsEnd == Spec => [](WorkLeft \in Nat) /\ WorkGoesDown
<1> DEFINE A == /\ WorkLeft' <= WorkLeft
                /\ Pick \/ Settle \/ (\E f \in running : Finish(f)) => WorkLeft' < WorkLeft
<1>1. ASSUME SchedInv, Handed, SchedInv', Handed', [Next]_vars PROVE A
  <2>1. WorkLeft \in Nat /\ WorkLeft' \in Nat
    <3>1. WorkLeft \in Nat
      BY <1>1, WorkIs DEF WorkFacts
    <3>2. WorkLeft' \in Nat
      BY <1>1, WorkIsNext DEF WorkFacts
    <3> QED BY <3>1, <3>2
  <2>2. Pick \/ Settle \/ (\E f \in running : Finish(f)) => WorkLeft' < WorkLeft
    BY <1>1, WorkPick, WorkSettle, WorkFinish
  <2>3. CASE UNCHANGED <<running, errors, done, requeues>>
    BY <2>1, <2>2, <2>3, WorkSame
  <2>4. \/ UNCHANGED <<running, errors, done, requeues>>
        \/ Pick \/ Settle \/ (\E f \in running : Finish(f))
    BY <1>1 DEF Next, Main, StopPicking, Wait, HostChange, vars
  <2> QED BY <2>1, <2>2, <2>3, <2>4
<1>2. SchedInv /\ Handed => WorkLeft \in Nat
  BY WorkIs DEF WorkFacts
<1>3. (SchedInv /\ Handed) /\ (SchedInv /\ Handed)' /\ [Next]_vars => [A]_vars
  BY <1>1
<1> HIDE DEF A
<1>4. Spec => [](WorkLeft \in Nat)
  BY <1>2, SchedBounded, PTL
<1>5. Spec => [][A]_vars
  BY <1>3, SchedBounded, PTL DEF Spec
<1> QED BY <1>4, <1>5 DEF A, WorkGoesDown

\* The main thread waits only for threads that run, and when it gives out nothing
\* more although nodes are ready, some thread runs: it never waits for nothing, and
\* never sleeps beside an idle machine for a host that may not come back
\* (build:2722-2728).
WaitsForThread ==
    /\ pc = "wait" => running # {}
    /\ pc = "pick" /\ NoPick /\ ready # {} => running # {}

\* Together with BuildNearsEnd this leaves a build that has not ended a node to give
\* out, a future to settle, or a thread to wait for, and only finitely many of each.
THEOREM NeverWaitsForNothing == Spec => []WaitsForThread
<1> DEFINE Waiting == pc = "wait" => running # {}
<1>1. Init => Waiting
  BY DEF Init
<1>2. ASSUME SchedInv, Waiting, [Next]_vars PROVE Waiting'
  <2>1. CASE Settle
    <3>1. PICK f \in batch : SettleRequeue(f) \/ SettleOk(f) \/ SettleFail(f)
      BY <2>1 DEF Settle
    <3>2. Popped(f) /\ batch \subseteq running
      BY <1>2, <3>1 DEF SettleRequeue, SettleOk, SettleFail, SchedInv, Typed
    <3>3. BatchLeft(f) \/ pc' = "raised"
      BY <3>1 DEF SettleRequeue, SettleOk, SettleFail
    <3>4. CASE BatchLeft(f)
      <4>1. pc' = "wait" => \E g \in batch : g # f
        BY <3>1, <3>4 DEF BatchLeft
      <4> QED BY <3>2, <4>1 DEF Popped, NotRunning
    <3> QED BY <3>3, <3>4
  <2>2. CASE Pick
    BY <2>2 DEF Pick
  <2>3. CASE StopPicking
    BY <2>3 DEF StopPicking
  <2>4. CASE Wait
    BY <1>2, <2>4 DEF Wait
  <2>5. CASE \E f \in running : Finish(f)
    BY <2>5 DEF Finish
  <2>6. CASE \E h \in Hosts : HostChange(h)
    BY <1>2, <2>6 DEF HostChange
  <2>7. CASE UNCHANGED vars
    BY <1>2, <2>7 DEF vars
  <2> QED BY <1>2, <2>1, <2>2, <2>3, <2>4, <2>5, <2>6, <2>7 DEF Next, Main
<1>3. SchedInv /\ Waiting => WaitsForThread
  <2> SUFFICES ASSUME SchedInv, pc = "pick", NoPick, NEW n \in ready, running = {} PROVE FALSE
    BY DEF WaitsForThread
  <2>1. {f \in running : f.w = Here} = {}
    OBVIOUS
  <2>2. Cardinality({f \in running : f.w = Here}) = 0
    BY <2>1, FS_EmptySet
  <2> QED BY <2>2, NoRoom, SlotsAssumption
<1> HIDE DEF Waiting
<1> QED BY <1>1, <1>2, <1>3, SchedSafe, PTL DEF Spec

-----------------------------------------------------------------------------
(* The result cache.                                                       *)

\* A thread has a work directory until it has moved it away.
HasDir(b, u) ==
    /\ at[b][u] \in Locked \ {"leave"} => work[u] # NoDir
    /\ at[b][u] = "leave" => work[u] = NoDir

\* What a thread has stored is there.
HasStored(b, u) ==
    at[b][u] = "store" /\ ~pruned => \A o \in OutputsOf[u] \ todo[b][u] : o \in cas

\* What a thread has restored is in its work directory, and nothing else is.
HasRestored(b, u) ==
    /\ at[b][u] \in {"restore", "run"} => work[u] \subseteq Inputs(u)
    /\ at[b][u] = "restore" => todo[b][u] \subseteq DepsOf[u]
    /\ at[b][u] = "restore" /\ ~pruned =>
         \A d \in DepsOf[u] \ todo[b][u] : OutputsOf[d] \subseteq work[u]
    /\ at[b][u] = "run" /\ ~pruned => Inputs(u) \subseteq work[u]

\* Nothing of a build is under way before it starts and after it has left.
OffIdle(b) == status[b] = "off" => \A u \in Uids : at[b][u] = "wait"

CacheInv ==
    /\ CacheTypeOK
    /\ ManifestBacked /\ RunsOnlyMissing /\ NothingLeftBehind
    /\ \A b \in Builds : OffIdle(b)
    /\ \A b \in Builds, u \in Uids : HasDir(b, u) /\ HasStored(b, u) /\ HasRestored(b, u)

-----------------------------------------------------------------------------

\* A table of threads with one entry replaced.
LEMMA EntryReplaced ==
    ASSUME NEW S, NEW f \in [Builds -> [Uids -> S]], NEW b \in Builds, NEW u \in Uids, NEW x \in S
    PROVE  LET g == [f EXCEPT ![b][u] = x]
           IN  /\ g \in [Builds -> [Uids -> S]] /\ g[b][u] = x
               /\ \A c \in Builds, v \in Uids : c # b \/ v # u => g[c][v] = f[c][v]
  OBVIOUS

\* What a step of the thread of u in b leaves alone: the other threads, the
\* directories and locks of other nodes, and its own as long as another thread
\* has the lock.
Local(b, u) ==
    /\ \A c \in Builds, v \in Uids : c # b \/ v # u => at'[c][v] = at[c][v] /\ todo'[c][v] = todo[c][v]
    /\ \A v \in Uids \ {u} : holder'[v] = holder[v] /\ work'[v] = work[v]
    /\ \A c \in Builds \ {b} : at[c][u] \in Locked => work'[u] = work[u] /\ holder'[u] = holder[u]
    /\ pruned' = pruned

\* Two threads do not have the lock of a node both (build:2816).
LEMMA OneHolder ==
    ASSUME CacheTypeOK, NEW b \in Builds, NEW c \in Builds, NEW u \in Uids,
           at[b][u] \in Locked, at[c][u] \in Locked
    PROVE  b = c
  BY DEF CacheTypeOK, LockHeld

LEMMA GoesTo ==
    ASSUME CacheTypeOK, NEW b \in Builds, NEW u \in Uids, NEW s \in Steps, Goes(b, u, s)
    PROVE  /\ at' \in [Builds -> [Uids -> Steps]] /\ at'[b][u] = s
           /\ \A c \in Builds, v \in Uids : c # b \/ v # u => at'[c][v] = at[c][v]
  BY EntryReplaced DEF Goes, CacheTypeOK

LEMMA Answers ==
    ASSUME NEW s \in Askers
    PROVE  /\ Hit(s) \in Steps /\ Miss(s) \in Steps /\ Unlinking(s) \in Steps /\ s \in Steps
           /\ \A t \in {Hit(s), Miss(s), Unlinking(s)} : t \in Locked <=> s \in Locked
<1>1. CASE s = "scan"
  BY <1>1 DEF Hit, Miss, Unlinking, Steps, Locked
<1>2. CASE s = "enter"
  BY <1>2 DEF Hit, Miss, Unlinking, Steps, Locked
<1>3. CASE s = "recheck"
  BY <1>3 DEF Hit, Miss, Unlinking, Steps, Locked
<1> QED
  BY <1>1, <1>2, <1>3 DEF Askers

\* The thread goes on and its lock stays as it is.
LEMMA SameLock ==
    ASSUME CacheTypeOK, NEW b \in Builds, NEW u \in Uids, NEW s \in Steps, Goes(b, u, s),
           s \in Locked <=> at[b][u] \in Locked, UNCHANGED holder
    PROVE  LockHeld'
<1>1. at'[b][u] = s /\ \A c \in Builds, v \in Uids : c # b \/ v # u => at'[c][v] = at[c][v]
  BY GoesTo
<1>2. LockHeld
  BY DEF CacheTypeOK
<1> QED
  BY <1>1, <1>2 DEF LockHeld

LEMMA LookStep ==
    ASSUME CacheTypeOK, NEW b \in Builds, NEW u \in Uids, Look(b, u)
    PROVE  CacheTypeOK' /\ Local(b, u)
<1>1. PICK s \in Askers : at[b][u] = s /\ Goes(b, u, IF Backed(u) THEN Hit(s) ELSE Unlinking(s))
  BY DEF Look
<1>2. PICK t \in {Hit(s), Miss(s), Unlinking(s)} : Goes(b, u, t)
  BY <1>1
<1>3. t \in Steps /\ (t \in Locked <=> at[b][u] \in Locked)
  BY <1>1, <1>2, Answers
<1>4. UNCHANGED <<status, raised, todo, dirVars, storeVars, historyVars>>
  BY DEF Look
<1>5. LockHeld'
  BY <1>2, <1>3, <1>4, SameLock DEF dirVars
<1> QED
  BY <1>2, <1>3, <1>4, <1>5, GoesTo
     DEF CacheTypeOK, Local, dirVars, storeVars, historyVars

LEMMA TodoSet ==
    ASSUME CacheTypeOK, NEW b \in Builds, NEW u \in Uids, NEW x \in SUBSET (Uids \cup Blobs),
           todo' = [todo EXCEPT ![b][u] = x]
    PROVE  /\ todo' \in [Builds -> [Uids -> SUBSET (Uids \cup Blobs)]] /\ todo'[b][u] = x
           /\ \A c \in Builds, v \in Uids : c # b \/ v # u => todo'[c][v] = todo[c][v]
<1>1. todo \in [Builds -> [Uids -> SUBSET (Uids \cup Blobs)]]
  BY DEF CacheTypeOK
<1> QED
  BY <1>1, EntryReplaced

\* The same, for steps where what is put there does not matter.
PutTodo(b, u, x) == todo' = [todo EXCEPT ![b][u] = x]

LEMMA TodoPut ==
    ASSUME CacheTypeOK, NEW b \in Builds, NEW u \in Uids, NEW x \in SUBSET (Uids \cup Blobs),
           PutTodo(b, u, x)
    PROVE  /\ todo' \in [Builds -> [Uids -> SUBSET (Uids \cup Blobs)]]
           /\ \A c \in Builds, v \in Uids : c # b \/ v # u => todo'[c][v] = todo[c][v]
<1>1. todo' = [todo EXCEPT ![b][u] = x]
  BY DEF PutTodo
<1>2. todo \in [Builds -> [Uids -> SUBSET (Uids \cup Blobs)]]
  BY DEF CacheTypeOK
<1> QED
  BY ONLY <1>1, <1>2, b \in Builds, u \in Uids, x \in SUBSET (Uids \cup Blobs), EntryReplaced

\* A directory that is there holds blobs, also with more of them.
LEMMA WorkSet ==
    ASSUME CacheTypeOK, NEW u \in Uids, NEW x, x = NoDir \/ x \subseteq Blobs,
           work' = [work EXCEPT ![u] = x]
    PROVE  /\ work' \in [Uids -> (SUBSET Blobs) \cup {NoDir}] /\ work'[u] = x
           /\ \A v \in Uids \ {u} : work'[v] = work[v]
<1>1. work \in [Uids -> (SUBSET Blobs) \cup {NoDir}] /\ x \in (SUBSET Blobs) \cup {NoDir}
  BY DEF CacheTypeOK
<1> QED
  BY <1>1

\* Types when a thread goes on under the same lock, and what it changes is typed.
LEMMA TypeKept ==
    ASSUME CacheTypeOK, NEW b \in Builds, NEW u \in Uids, NEW s \in Steps, Goes(b, u, s),
           s \in Locked <=> at[b][u] \in Locked, UNCHANGED <<status, holder>>,
           raised' \in [Builds -> SUBSET Uids], grb' \in BOOLEAN,
           todo' \in [Builds -> [Uids -> SUBSET (Uids \cup Blobs)]],
           work' \in [Uids -> (SUBSET Blobs) \cup {NoDir}],
           cas' \subseteq Blobs, manifests' \subseteq Uids
    PROVE  CacheTypeOK'
  BY SameLock, GoesTo DEF CacheTypeOK

\* A thread that has the lock is the only one that has it.
LEMMA Sole ==
    ASSUME CacheTypeOK, NEW b \in Builds, NEW u \in Uids, at[b][u] \in Locked
    PROVE  \A c \in Builds \ {b} : at[c][u] \notin Locked
  BY OneHolder

\* Steps that change no lock (build:2798-2833).
LEMMA InsideStep ==
    ASSUME CacheTypeOK, NEW b \in Builds, NEW u \in Uids, HasDir(b, u),
           \/ Unlink(b, u) \/ Execute(b, u) \/ Clear(b, u) \/ RestoreUnlinks(b, u)
           \/ \E d \in Uids : Restore(b, u, d) \/ RestoreFails(b, u, d)
           \/ RunCommand(b, u) \/ CommandEnds(b, u) \/ CommandFails(b, u)
           \/ \E o \in Blobs : StoreBlob(b, u, o)
           \/ WriteManifest(b, u) \/ MakeGrb(b, u) \/ RenameFails(b, u) \/ Rename(b, u)
    PROVE  CacheTypeOK' /\ Local(b, u)
<1> DEFINE T == SUBSET (Uids \cup Blobs)
<1>1. /\ raised \in [Builds -> SUBSET Uids] /\ grb \in BOOLEAN /\ cas \subseteq Blobs
      /\ manifests \subseteq Uids /\ todo \in [Builds -> [Uids -> T]]
      /\ work \in [Uids -> (SUBSET Blobs) \cup {NoDir}]
  BY DEF CacheTypeOK
<1>2. /\ at[b][u] \in Locked \ {"leave"} => work[u] \subseteq Blobs
      /\ todo[b][u] \subseteq Uids \cup Blobs
  BY <1>1 DEF HasDir
<1>3. DepsOf[u] \subseteq Uids /\ OutputsOf[u] \subseteq Blobs
  BY CacheAssumption DEF Blobs
<1> HIDE DEF T
<1>3a. DepsOf[u] \in T /\ OutputsOf[u] \in T /\ \A d : todo[b][u] \ {d} \in T
  BY <1>2, <1>3 DEF T
<1>3b. ASSUME NEW x \in T, todo' = [todo EXCEPT ![b][u] = x]
       PROVE  /\ todo' \in [Builds -> [Uids -> T]]
              /\ \A c \in Builds, v \in Uids : c # b \/ v # u => todo'[c][v] = todo[c][v]
  <2>1. x \in SUBSET (Uids \cup Blobs)
    BY DEF T
  <2>2. PutTodo(b, u, x)
    BY <1>3b DEF PutTodo
  <2>3. /\ todo' \in [Builds -> [Uids -> SUBSET (Uids \cup Blobs)]]
        /\ \A c \in Builds, v \in Uids : c # b \/ v # u => todo'[c][v] = todo[c][v]
    BY <2>1, <2>2, TodoPut
  <2> QED
    BY <2>3 DEF T
<1>4. at[b][u] \in Locked => \A c \in Builds \ {b} : at[c][u] \notin Locked
  BY Sole
<1>5. CASE Unlink(b, u)
  <2>1. PICK s \in Askers : at[b][u] = Unlinking(s) /\ Goes(b, u, Miss(s))
    BY <1>5 DEF Unlink
  <2>2. Miss(s) \in Steps /\ (Miss(s) \in Locked <=> at[b][u] \in Locked)
    BY <2>1, Answers
  <2>3. manifests' \subseteq Uids /\ UNCHANGED <<status, raised, todo, dirVars, cas, historyVars>>
    BY <1>1, <1>5 DEF Unlink
  <2>4. CacheTypeOK'
    BY <1>1, <2>1, <2>2, <2>3, TypeKept DEF T, dirVars
  <2> QED
    BY <2>1, <2>2, <2>3, <2>4, GoesTo DEF Local, dirVars, historyVars
<1>6. CASE Execute(b, u)
  <2>1. /\ at[b][u] = "wait" /\ Goes(b, u, "enter")
        /\ UNCHANGED <<status, raised, todo, dirVars, storeVars, historyVars>>
    BY <1>6 DEF Execute
  <2>2. "enter" \in Steps /\ "enter" \notin Locked /\ "wait" \notin Locked
    BY DEF Steps, Locked
  <2>3. CacheTypeOK'
    BY <1>1, <2>1, <2>2, TypeKept DEF T, dirVars, storeVars
  <2> QED
    BY <2>1, <2>2, <2>3, GoesTo DEF Local, dirVars, historyVars
<1>7. CASE Clear(b, u)
  <2>1. /\ at[b][u] = "clear" /\ Goes(b, u, "restore")
        /\ work' = [work EXCEPT ![u] = {}] /\ todo' = [todo EXCEPT ![b][u] = DepsOf[u]]
        /\ UNCHANGED <<status, raised, holder, grb, storeVars, historyVars>>
    BY <1>7 DEF Clear, Emptied
  <2>2. "clear" \in Locked /\ "restore" \in Locked /\ "restore" \in Steps
    BY DEF Steps, Locked
  <2>3. /\ work' \in [Uids -> (SUBSET Blobs) \cup {NoDir}]
        /\ \A v \in Uids \ {u} : work'[v] = work[v]
    BY <2>1, WorkSet
  <2>4. /\ todo' \in [Builds -> [Uids -> T]]
        /\ \A c \in Builds, v \in Uids : c # b \/ v # u => todo'[c][v] = todo[c][v]
    BY <1>3a, <1>3b, <2>1
  <2>5. CacheTypeOK'
    BY <1>1, <2>1, <2>2, <2>3, <2>4, TypeKept DEF T, storeVars
  <2> QED
    BY <1>4, <2>1, <2>2, <2>3, <2>4, <2>5, GoesTo DEF Local, historyVars
<1>8. CASE RestoreUnlinks(b, u)
  <2>1. /\ at[b][u] = "restoreUnlink" /\ Goes(b, u, "discard") /\ manifests' \subseteq manifests
        /\ raised' = [raised EXCEPT ![b] = @ \cup {u}]
        /\ UNCHANGED <<status, todo, dirVars, cas, historyVars>>
    BY <1>8 DEF RestoreUnlinks, Raises
  <2>2. "restoreUnlink" \in Locked /\ "discard" \in Locked /\ "discard" \in Steps
    BY DEF Steps, Locked
  <2>3. raised' \in [Builds -> SUBSET Uids]
    BY <1>1, <2>1
  <2>4. CacheTypeOK'
    BY <1>1, <2>1, <2>2, <2>3, TypeKept DEF T, dirVars
  <2> QED
    BY <2>1, <2>2, <2>4, GoesTo DEF Local, dirVars, historyVars
<1>9. ASSUME NEW d \in Uids, Restore(b, u, d)
      PROVE  CacheTypeOK' /\ Local(b, u)
  <2>1. /\ at[b][u] = "restore" /\ work' = [work EXCEPT ![u] = work[u] \cup (OutputsOf[d] \cap cas)]
        /\ todo' = [todo EXCEPT ![b][u] = todo[b][u] \ {d}]
        /\ UNCHANGED <<status, raised, at, holder, grb, storeVars, historyVars>>
    BY <1>1, <1>9 DEF Restore
  <2>2. "restore" \in Locked \ {"leave"}
    BY DEF Locked
  <2>3. work[u] \cup (OutputsOf[d] \cap cas) \subseteq Blobs
    BY <1>1, <1>2, <2>1, <2>2
  <2>4. /\ work' \in [Uids -> (SUBSET Blobs) \cup {NoDir}]
        /\ \A v \in Uids \ {u} : work'[v] = work[v]
    BY <2>1, <2>3, WorkSet
  <2>5. /\ todo' \in [Builds -> [Uids -> T]]
        /\ \A c \in Builds, v \in Uids : c # b \/ v # u => todo'[c][v] = todo[c][v]
    BY <1>3a, <1>3b, <2>1
  <2>6. CacheTypeOK'
    BY <1>1, <2>1, <2>4, <2>5 DEF CacheTypeOK, LockHeld, storeVars
  <2> QED
    BY <1>4, <2>1, <2>2, <2>4, <2>5, <2>6 DEF Local, historyVars
<1>10. ASSUME NEW d \in Uids, RestoreFails(b, u, d)
       PROVE  CacheTypeOK' /\ Local(b, u)
  <2>1. /\ at[b][u] = "restore" /\ Goes(b, u, "restoreUnlink")
        /\ todo' = [todo EXCEPT ![b][u] = {d}]
        /\ UNCHANGED <<status, raised, dirVars, storeVars, historyVars>>
    BY <1>10 DEF RestoreFails
  <2>2. "restore" \in Locked /\ "restoreUnlink" \in Locked /\ "restoreUnlink" \in Steps /\ {d} \in T
    BY DEF T, Steps, Locked
  <2>3. /\ todo' \in [Builds -> [Uids -> T]]
        /\ \A c \in Builds, v \in Uids : c # b \/ v # u => todo'[c][v] = todo[c][v]
    BY <1>3b, <2>1, <2>2
  <2>4. CacheTypeOK'
    BY <1>1, <2>1, <2>2, <2>3, TypeKept DEF T, dirVars, storeVars
  <2> QED
    BY <2>1, <2>2, <2>3, <2>4, GoesTo DEF Local, dirVars, historyVars
<1>11. CASE RunCommand(b, u)
  <2>1. /\ at[b][u] = "restore" /\ Goes(b, u, "run")
        /\ UNCHANGED <<status, raised, todo, dirVars, storeVars, historyVars>>
    BY <1>11 DEF RunCommand
  <2>2. "restore" \in Locked /\ "run" \in Locked /\ "run" \in Steps
    BY DEF Steps, Locked
  <2>3. CacheTypeOK'
    BY <1>1, <2>1, <2>2, TypeKept DEF T, dirVars, storeVars
  <2> QED
    BY <2>1, <2>2, <2>3, GoesTo DEF Local, dirVars, historyVars
<1>12. CASE CommandEnds(b, u)
  <2>1. /\ at[b][u] = "run" /\ Goes(b, u, "store")
        /\ work' = [work EXCEPT ![u] = work[u] \cup OutputsOf[u]]
        /\ todo' = [todo EXCEPT ![b][u] = OutputsOf[u]]
        /\ UNCHANGED <<status, raised, holder, grb, storeVars, historyVars>>
    BY <1>1, <1>12 DEF CommandEnds
  <2>2. "run" \in Locked \ {"leave"} /\ "store" \in Locked /\ "store" \in Steps
    BY DEF Steps, Locked
  <2>3. work[u] \cup OutputsOf[u] \subseteq Blobs
    BY <1>2, <1>3, <2>1, <2>2
  <2>4. /\ work' \in [Uids -> (SUBSET Blobs) \cup {NoDir}]
        /\ \A v \in Uids \ {u} : work'[v] = work[v]
    BY <2>1, <2>3, WorkSet
  <2>5. /\ todo' \in [Builds -> [Uids -> T]]
        /\ \A c \in Builds, v \in Uids : c # b \/ v # u => todo'[c][v] = todo[c][v]
    BY <1>3a, <1>3b, <2>1
  <2>6. CacheTypeOK'
    BY <1>1, <2>1, <2>2, <2>4, <2>5, TypeKept DEF T, storeVars
  <2> QED
    BY <1>4, <2>1, <2>2, <2>4, <2>5, <2>6, GoesTo DEF Local, historyVars
<1>13. CASE CommandFails(b, u)
  <2>1. /\ at[b][u] = "run" /\ Goes(b, u, "discard")
        /\ raised' = [raised EXCEPT ![b] = @ \cup {u}]
        /\ UNCHANGED <<status, todo, dirVars, storeVars, pruned, orphaned, overlapped>>
    BY <1>13 DEF CommandFails, Raises
  <2>2. "run" \in Locked /\ "discard" \in Locked /\ "discard" \in Steps
    BY DEF Steps, Locked
  <2>3. raised' \in [Builds -> SUBSET Uids]
    BY <1>1, <2>1
  <2>4. CacheTypeOK'
    BY <1>1, <2>1, <2>2, <2>3, TypeKept DEF T, dirVars, storeVars
  <2> QED
    BY <2>1, <2>2, <2>4, GoesTo DEF Local, dirVars
<1>14. ASSUME NEW o \in Blobs, StoreBlob(b, u, o)
       PROVE  CacheTypeOK' /\ Local(b, u)
  <2>1. /\ cas' = cas \cup {o} /\ todo' = [todo EXCEPT ![b][u] = todo[b][u] \ {o}]
        /\ UNCHANGED <<status, raised, at, dirVars, manifests, historyVars>>
    BY <1>1, <1>14 DEF StoreBlob
  <2>2. /\ todo' \in [Builds -> [Uids -> T]]
        /\ \A c \in Builds, v \in Uids : c # b \/ v # u => todo'[c][v] = todo[c][v]
    BY <1>3a, <1>3b, <2>1
  <2>3. CacheTypeOK'
    BY <1>1, <2>1, <2>2 DEF CacheTypeOK, LockHeld, dirVars
  <2> QED
    BY <2>1, <2>2, <2>3 DEF Local, dirVars, historyVars
<1>15. CASE WriteManifest(b, u)
  <2>1. /\ at[b][u] = "store" /\ Goes(b, u, "discard") /\ manifests' \subseteq Uids
        /\ UNCHANGED <<status, raised, todo, dirVars, cas, historyVars>>
    BY <1>1, <1>15 DEF WriteManifest
  <2>2. "store" \in Locked /\ "discard" \in Locked /\ "discard" \in Steps
    BY DEF Steps, Locked
  <2>3. CacheTypeOK'
    BY <1>1, <2>1, <2>2, TypeKept DEF T, dirVars
  <2> QED
    BY <2>1, <2>2, <2>3, GoesTo DEF Local, dirVars, historyVars
<1>16. CASE MakeGrb(b, u) \/ RenameFails(b, u)
  <2>1. PICK s \in {"rename", "discard"} :
          /\ at[b][u] \in {"rename", "discard"} /\ Goes(b, u, s) /\ grb' \in BOOLEAN
          /\ UNCHANGED <<status, raised, todo, holder, work, storeVars, historyVars>>
    BY <1>1, <1>16 DEF MakeGrb, RenameFails, Again, dirVars
  <2>2. {"rename", "discard"} \subseteq Locked /\ Locked \subseteq Steps
    BY DEF Steps, Locked
  <2>3. CacheTypeOK'
    BY <1>1, <2>1, <2>2, TypeKept DEF T, storeVars
  <2> QED
    BY <2>1, <2>2, <2>3, GoesTo DEF Local, historyVars
<1>17. CASE Rename(b, u)
  <2>1. /\ at[b][u] = "rename" /\ Goes(b, u, "leave") /\ work' = [work EXCEPT ![u] = NoDir]
        /\ UNCHANGED <<status, raised, todo, holder, grb, storeVars, pruned>>
    BY <1>17 DEF Rename
  <2>2. "rename" \in Locked /\ "leave" \in Locked /\ "leave" \in Steps
    BY DEF Steps, Locked
  <2>3. /\ work' \in [Uids -> (SUBSET Blobs) \cup {NoDir}]
        /\ \A v \in Uids \ {u} : work'[v] = work[v]
    BY <2>1, WorkSet
  <2>4. CacheTypeOK'
    BY <1>1, <2>1, <2>2, <2>3, TypeKept DEF T, storeVars
  <2> QED
    BY <1>4, <2>1, <2>2, <2>3, <2>4, GoesTo DEF Local
<1> QED
  BY <1>5, <1>6, <1>7, <1>8, <1>9, <1>10, <1>11, <1>12, <1>13, <1>14, <1>15, <1>16, <1>17

LEMMA LockStep ==
    ASSUME CacheTypeOK, NEW b \in Builds, NEW u \in Uids, Lock(b, u)
    PROVE  CacheTypeOK' /\ Local(b, u)
<1>1. /\ at[b][u] = "lock" /\ holder[u] = NoBuild /\ holder' = [holder EXCEPT ![u] = b]
      /\ work' = [work EXCEPT ![u] = IF work[u] = NoDir THEN {} ELSE work[u]]
      /\ Goes(b, u, "recheck") /\ UNCHANGED <<status, raised, todo, grb, storeVars, historyVars>>
  BY DEF Lock, Free, Recheck, CacheTypeOK
<1>2. "recheck" \in Locked /\ "recheck" \in Steps
  BY DEF Steps, Locked
<1>3. \A c \in Builds : at[c][u] \notin Locked
  BY <1>1, CacheAssumption DEF CacheTypeOK, LockHeld
<1>4. holder' \in [Uids -> Builds \cup {NoBuild}] /\ holder'[u] = b
      /\ \A v \in Uids \ {u} : holder'[v] = holder[v]
  BY <1>1 DEF CacheTypeOK
<1>5. LockHeld'
  <2>1. LockHeld
    BY DEF CacheTypeOK
  <2> QED
    BY <1>1, <1>2, <1>3, <1>4, <2>1, GoesTo DEF LockHeld
<1>6. /\ work' \in [Uids -> (SUBSET Blobs) \cup {NoDir}]
      /\ \A v \in Uids \ {u} : work'[v] = work[v]
  <2>1. work[u] = NoDir \/ work[u] \subseteq Blobs
    BY DEF CacheTypeOK
  <2> QED
    BY <1>1, <2>1, WorkSet
<1>7. CacheTypeOK'
  BY <1>1, <1>2, <1>4, <1>5, <1>6, GoesTo DEF CacheTypeOK, storeVars
<1> QED
  BY <1>1, <1>2, <1>3, <1>4, <1>6, <1>7, GoesTo DEF Local, historyVars

LEMMA LeaveStep ==
    ASSUME CacheTypeOK, NEW b \in Builds, NEW u \in Uids, Leave(b, u)
    PROVE  CacheTypeOK' /\ Local(b, u)
<1>1. /\ at[b][u] = "leave" /\ holder' = [holder EXCEPT ![u] = NoBuild]
      /\ todo' = [todo EXCEPT ![b][u] = {}] /\ Goes(b, u, "done")
      /\ UNCHANGED <<status, raised, work, grb, storeVars, historyVars>>
  BY DEF Leave
<1>2. "done" \notin Locked /\ "done" \in Steps /\ "leave" \in Locked
  BY DEF Steps, Locked
<1>3. \A c \in Builds \ {b} : at[c][u] \notin Locked
  BY <1>1, <1>2, Sole
<1>4. holder' \in [Uids -> Builds \cup {NoBuild}] /\ holder'[u] = NoBuild
      /\ \A v \in Uids \ {u} : holder'[v] = holder[v]
  BY <1>1 DEF CacheTypeOK
<1>5. LockHeld'
  <2>1. LockHeld
    BY DEF CacheTypeOK
  <2> QED
    BY <1>1, <1>2, <1>3, <1>4, <2>1, GoesTo, CacheAssumption DEF LockHeld
<1>6. /\ todo' \in [Builds -> [Uids -> SUBSET (Uids \cup Blobs)]]
      /\ \A c \in Builds, v \in Uids : c # b \/ v # u => todo'[c][v] = todo[c][v]
  <2>1. {} \in SUBSET (Uids \cup Blobs)
    OBVIOUS
  <2> QED
    <3>1. PutTodo(b, u, {})
      BY <1>1 DEF PutTodo
    <3> QED
      BY <2>1, <3>1, TodoPut
<1>7. CacheTypeOK'
  BY <1>1, <1>2, <1>4, <1>5, <1>6, GoesTo DEF CacheTypeOK, storeVars
<1> QED
  BY <1>1, <1>2, <1>3, <1>4, <1>6, <1>7, GoesTo DEF Local, historyVars

LEMMA ThreadStep ==
    ASSUME CacheTypeOK, NEW b \in Builds, NEW u \in Uids, HasDir(b, u), Thread(b, u)
    PROVE  CacheTypeOK' /\ Local(b, u)
  BY LookStep, InsideStep, LockStep, LeaveStep DEF Thread

\* A process that goes frees the locks it has, and no other.
LEMMA LeavesStep ==
    ASSUME CacheTypeOK, NEW b \in Builds, Leaves(b)
    PROVE  /\ CacheTypeOK'
           /\ \A c \in Builds \ {b}, u \in Uids : at'[c][u] = at[c][u] /\ todo'[c][u] = todo[c][u]
           /\ \A u \in Uids : at'[b][u] = "wait"
           /\ \A u \in Uids : holder[u] # b => holder'[u] = holder[u]
<1>1. /\ status' = [status EXCEPT ![b] = "off"] /\ raised' = [raised EXCEPT ![b] = {}]
      /\ at' = [at EXCEPT ![b] = [u \in Uids |-> "wait"]]
      /\ todo' = [todo EXCEPT ![b] = [u \in Uids |-> {}]]
      /\ holder' = [u \in Uids |-> IF holder[u] = b THEN NoBuild ELSE holder[u]]
      /\ UNCHANGED <<work, grb, storeVars>>
  BY DEF Leaves
<1>2. "wait" \in Steps /\ "wait" \notin Locked
  BY DEF Steps, Locked
<1>3. /\ at' \in [Builds -> [Uids -> Steps]] /\ \A u \in Uids : at'[b][u] = "wait"
      /\ \A c \in Builds \ {b} : at'[c] = at[c]
  BY <1>1, <1>2 DEF CacheTypeOK
<1>4. /\ todo' \in [Builds -> [Uids -> SUBSET (Uids \cup Blobs)]]
      /\ \A c \in Builds \ {b} : todo'[c] = todo[c]
  BY <1>1 DEF CacheTypeOK
<1>5. holder' \in [Uids -> Builds \cup {NoBuild}]
  BY <1>1 DEF CacheTypeOK
<1>6. LockHeld'
  <2>1. LockHeld
    BY DEF CacheTypeOK
  <2>2. ASSUME NEW c \in Builds, NEW u \in Uids
        PROVE  at'[c][u] \in Locked <=> holder'[u] = c
    <3>1. CASE c = b
      BY <1>1, <1>2, <1>3, <3>1, CacheAssumption
    <3>2. CASE c # b
      BY <1>1, <1>3, <2>1, <3>2, CacheAssumption DEF LockHeld
    <3> QED
      BY <3>1, <3>2
  <2> QED
    BY <2>2 DEF LockHeld
<1>7. status' \in [Builds -> {"off", "up", "failed", "unlink"}] /\ raised' \in [Builds -> SUBSET Uids]
  BY <1>1 DEF CacheTypeOK
<1> QED
  BY <1>1, <1>3, <1>4, <1>5, <1>6, <1>7 DEF CacheTypeOK, storeVars

-----------------------------------------------------------------------------

\* What the step of a thread does to what is shared: blobs stay, and a manifest
\* is written at the end of storing only.
LEMMA ThreadFrame ==
    ASSUME NEW b \in Builds, NEW u \in Uids, Thread(b, u)
    PROVE  /\ cas \subseteq cas' /\ status' = status /\ pruned' = pruned
           /\ manifests' \subseteq manifests \/ WriteManifest(b, u)
           /\ orphaned' = orphaned \/ Rename(b, u)
<1> USE DEF storeVars, historyVars, dirVars
<1>1. CASE Look(b, u) \/ Unlink(b, u) \/ Execute(b, u) \/ Lock(b, u) \/ Clear(b, u)
  BY <1>1 DEF Look, Unlink, Execute, Lock, Clear
<1>2. ASSUME NEW d \in Uids, Restore(b, u, d) \/ RestoreFails(b, u, d)
      PROVE  /\ cas \subseteq cas' /\ status' = status /\ pruned' = pruned
             /\ manifests' \subseteq manifests /\ orphaned' = orphaned
  BY <1>2 DEF Restore, RestoreFails
<1>3. CASE RestoreUnlinks(b, u) \/ RunCommand(b, u) \/ CommandEnds(b, u) \/ CommandFails(b, u)
  BY <1>3 DEF RestoreUnlinks, RunCommand, CommandEnds, CommandFails
<1>4. ASSUME NEW o \in Blobs, StoreBlob(b, u, o)
      PROVE  /\ cas \subseteq cas' /\ status' = status /\ pruned' = pruned
             /\ manifests' \subseteq manifests /\ orphaned' = orphaned
  BY <1>4 DEF StoreBlob
<1>5. CASE WriteManifest(b, u)
  BY <1>5 DEF WriteManifest
<1>6. CASE MakeGrb(b, u) \/ RenameFails(b, u) \/ Rename(b, u) \/ Leave(b, u)
  BY <1>6 DEF MakeGrb, RenameFails, Rename, Leave
<1> QED
  BY <1>1, <1>2, <1>3, <1>4, <1>5, <1>6 DEF Thread

\* What holds of the other threads goes on to hold.
LEMMA OthersKept ==
    ASSUME CacheInv, NEW b \in Builds, NEW u \in Uids, Thread(b, u), Local(b, u),
           NEW c \in Builds, NEW v \in Uids, c # b \/ v # u
    PROVE  HasDir(c, v)' /\ HasStored(c, v)' /\ HasRestored(c, v)'
<1>1. at'[c][v] = at[c][v] /\ todo'[c][v] = todo[c][v] /\ pruned' = pruned
  BY DEF Local
<1>2. at[c][v] \in Locked => work'[v] = work[v]
  BY DEF Local
<1>3. "leave" \in Locked /\ "restore" \in Locked /\ "run" \in Locked
  BY DEF Locked
<1>4. HasDir(c, v) /\ HasStored(c, v) /\ HasRestored(c, v)
  BY DEF CacheInv
<1>5. cas \subseteq cas'
  BY ThreadFrame
<1>6. HasDir(c, v)'
  BY <1>1, <1>2, <1>3, <1>4 DEF HasDir
<1>7. HasStored(c, v)'
  BY <1>1, <1>4, <1>5 DEF HasStored
<1>8. HasRestored(c, v)'
  BY <1>1, <1>2, <1>3, <1>4 DEF HasRestored
<1> QED
  BY <1>6, <1>7, <1>8

\* The directory of the thread itself.
LEMMA OwnDir ==
    ASSUME CacheInv, NEW b \in Builds, NEW u \in Uids, Thread(b, u)
    PROVE  HasDir(b, u)'
<1> USE DEF dirVars
<1>1. CacheTypeOK /\ HasDir(b, u)
  BY DEF CacheInv
<1>2. /\ work \in [Uids -> (SUBSET Blobs) \cup {NoDir}] /\ NoDir \notin SUBSET Blobs
      /\ OutputsOf[u] \subseteq Blobs
  BY <1>1, CacheAssumption DEF CacheTypeOK, Blobs
<1>3. ASSUME NEW s \in Steps, Goes(b, u, s), work' = work,
             s \in Locked => at[b][u] \in Locked \ {"leave"}, s # "leave"
      PROVE  HasDir(b, u)'
  BY <1>1, <1>3, GoesTo DEF HasDir
<1>4. CASE Look(b, u)
  <2>1. PICK s \in Askers : at[b][u] = s /\ Goes(b, u, IF Backed(u) THEN Hit(s) ELSE Unlinking(s))
    BY <1>4 DEF Look
  <2>2. PICK t \in {Hit(s), Miss(s), Unlinking(s)} : Goes(b, u, t)
    BY <2>1
  <2>3. t \in Steps /\ (t \in Locked <=> s \in Locked) /\ t # "leave" /\ s # "leave"
    BY <2>2, Answers DEF Askers, Hit, Miss, Unlinking
  <2>4. work' = work
    BY <1>4 DEF Look
  <2> QED
    BY <1>3, <2>1, <2>2, <2>3, <2>4
<1>5. CASE Unlink(b, u)
  <2>1. PICK s \in Askers : at[b][u] = Unlinking(s) /\ Goes(b, u, Miss(s))
    BY <1>5 DEF Unlink
  <2>2. /\ Miss(s) \in Steps /\ (Miss(s) \in Locked <=> Unlinking(s) \in Locked)
        /\ Miss(s) # "leave" /\ Unlinking(s) # "leave"
    BY <2>1, Answers DEF Askers, Miss, Unlinking
  <2>3. work' = work
    BY <1>5 DEF Unlink
  <2> QED
    BY <1>3, <2>1, <2>2, <2>3
<1>6. CASE Execute(b, u)
  BY <1>3, <1>6 DEF Execute, Steps, Locked
<1>7. CASE Lock(b, u)
  <2>1. /\ work' = [work EXCEPT ![u] = IF work[u] = NoDir THEN {} ELSE work[u]]
        /\ Goes(b, u, "recheck")
    BY <1>2, <1>7 DEF Lock, Recheck
  <2>2. work'[u] # NoDir
    BY <1>2, <2>1
  <2> QED
    BY <1>1, <2>1, <2>2, GoesTo DEF HasDir, Steps, Locked
<1>8. CASE Clear(b, u)
  <2>1. work'[u] # NoDir /\ Goes(b, u, "restore")
    BY <1>2, <1>8 DEF Clear, Emptied
  <2> QED
    BY <1>1, <2>1, GoesTo DEF HasDir, Steps, Locked
<1>9. CASE \E d \in Uids : Restore(b, u, d)
  <2>1. PICK d \in Uids : Restore(b, u, d)
    BY <1>9
  <2>2. work'[u] = work[u] \cup (OutputsOf[d] \cap cas) /\ at' = at /\ at[b][u] = "restore"
    BY <1>2, <2>1 DEF Restore
  <2>3. work[u] \subseteq Blobs /\ cas \subseteq Blobs
    BY <1>1, <1>2, <2>2 DEF HasDir, Locked, CacheTypeOK
  <2> QED
    BY <1>2, <2>2, <2>3 DEF HasDir
<1>10. CASE \/ \E d \in Uids : RestoreFails(b, u, d)
            \/ RestoreUnlinks(b, u) \/ RunCommand(b, u) \/ CommandFails(b, u)
  BY <1>3, <1>10 DEF RestoreFails, RestoreUnlinks, RunCommand, CommandFails, Raises, Steps, Locked
<1>11. CASE CommandEnds(b, u)
  <2>1. work'[u] = work[u] \cup OutputsOf[u] /\ Goes(b, u, "store") /\ at[b][u] = "run"
    BY <1>2, <1>11 DEF CommandEnds
  <2>2. work[u] \subseteq Blobs
    BY <1>1, <1>2, <2>1 DEF HasDir, Locked
  <2> QED
    BY <1>1, <1>2, <2>1, <2>2, GoesTo DEF HasDir, Steps, Locked
<1>12. CASE \E o \in Blobs : StoreBlob(b, u, o)
  BY <1>1, <1>12 DEF StoreBlob, HasDir
<1>13. CASE WriteManifest(b, u) \/ MakeGrb(b, u) \/ RenameFails(b, u)
  BY <1>3, <1>13 DEF WriteManifest, MakeGrb, RenameFails, Again, Steps, Locked
<1>14. CASE Rename(b, u)
  <2>1. work'[u] = NoDir /\ Goes(b, u, "leave")
    BY <1>2, <1>14 DEF Rename
  <2> QED
    BY <1>1, <2>1, GoesTo DEF HasDir, Steps, Locked
<1>15. CASE Leave(b, u)
  BY <1>3, <1>15 DEF Leave, Steps, Locked
<1> QED
  BY <1>4, <1>5, <1>6, <1>7, <1>8, <1>9, <1>10, <1>11, <1>12, <1>13, <1>14, <1>15 DEF Thread

\* The step that a thread enters: what the steps of the code can be.
LEMMA Enters ==
    ASSUME CacheTypeOK, NEW b \in Builds, NEW u \in Uids, Thread(b, u)
    PROVE  /\ at'[b][u] = "store" => CommandEnds(b, u) \/ \E o \in Blobs : StoreBlob(b, u, o)
           /\ at'[b][u] = "restore" => Clear(b, u) \/ \E d \in Uids : Restore(b, u, d)
           /\ at'[b][u] = "run" => RunCommand(b, u)
<1> DEFINE Kept == {"store", "restore", "run"}
<1>1. ASSUME NEW s \in Steps, Goes(b, u, s), s \notin Kept
      PROVE  at'[b][u] \notin Kept
  BY <1>1, GoesTo
<1>2. CASE Look(b, u)
  <2>1. PICK s \in Askers : Goes(b, u, IF Backed(u) THEN Hit(s) ELSE Unlinking(s))
    BY <1>2 DEF Look
  <2>2. PICK t \in {Hit(s), Miss(s), Unlinking(s)} : Goes(b, u, t)
    BY <2>1
  <2>3. t \in Steps /\ t \notin Kept
    BY <2>2, Answers DEF Askers, Hit, Miss, Unlinking
  <2> QED
    BY <1>1, <2>2, <2>3
<1>3. CASE Unlink(b, u)
  <2>1. PICK s \in Askers : Goes(b, u, Miss(s))
    BY <1>3 DEF Unlink
  <2>2. Miss(s) \in Steps /\ Miss(s) \notin Kept
    BY Answers DEF Askers, Miss
  <2> QED
    BY <1>1, <2>1, <2>2
<1>4. CASE Execute(b, u) \/ Lock(b, u) \/ RestoreUnlinks(b, u) \/ CommandFails(b, u)
           \/ \E d \in Uids : RestoreFails(b, u, d)
  BY <1>1, <1>4 DEF Execute, Lock, Recheck, RestoreUnlinks, CommandFails, RestoreFails, Raises, Steps, Locked
<1>5. CASE WriteManifest(b, u) \/ MakeGrb(b, u) \/ RenameFails(b, u) \/ Rename(b, u) \/ Leave(b, u)
  BY <1>1, <1>5 DEF WriteManifest, MakeGrb, RenameFails, Again, Rename, Leave, Steps, Locked
<1>6. CASE CommandEnds(b, u)
  BY <1>6, GoesTo DEF CommandEnds, Steps, Locked
<1>7. CASE RunCommand(b, u)
  BY <1>7, GoesTo DEF RunCommand, Steps, Locked
<1>8. CASE Clear(b, u)
  BY <1>8, GoesTo DEF Clear, Steps, Locked
<1>9. CASE \E d \in Uids : Restore(b, u, d)
  BY <1>9 DEF Restore
<1>10. CASE \E o \in Blobs : StoreBlob(b, u, o)
  BY <1>10 DEF StoreBlob
<1> QED
  BY <1>2, <1>3, <1>4, <1>5, <1>6, <1>7, <1>8, <1>9, <1>10 DEF Thread

LEMMA OwnStored ==
    ASSUME CacheInv, NEW b \in Builds, NEW u \in Uids, Thread(b, u)
    PROVE  HasStored(b, u)'
<1>1. CacheTypeOK /\ HasStored(b, u) /\ OutputsOf[u] \in SUBSET (Uids \cup Blobs)
  BY CacheAssumption DEF CacheInv, Blobs
<1>2. CASE CommandEnds(b, u)
  <2>1. todo'[b][u] = OutputsOf[u]
    BY <1>1, <1>2, TodoSet DEF CommandEnds
  <2> QED
    BY <2>1 DEF HasStored
<1>3. CASE \E o \in Blobs : StoreBlob(b, u, o)
  <2>1. PICK o \in Blobs : StoreBlob(b, u, o)
    BY <1>3
  <2>2. todo[b][u] \subseteq Uids \cup Blobs /\ todo' = [todo EXCEPT ![b][u] = todo[b][u] \ {o}]
    BY <1>1, <2>1 DEF StoreBlob, CacheTypeOK
  <2>3. todo'[b][u] = todo[b][u] \ {o}
    BY <1>1, <2>2, TodoSet, Zenon
  <2>4. cas' = cas \cup {o} /\ at' = at /\ pruned' = pruned
    BY <2>1 DEF StoreBlob, historyVars
  <2> QED
    BY <1>1, <2>3, <2>4 DEF HasStored
<1> QED
  BY <1>1, <1>2, <1>3, Enters DEF HasStored

LEMMA OwnRestored ==
    ASSUME CacheInv, NEW b \in Builds, NEW u \in Uids, Thread(b, u)
    PROVE  HasRestored(b, u)'
<1>1. CacheTypeOK /\ HasRestored(b, u) /\ HasDir(b, u) /\ ManifestBacked
  BY DEF CacheInv
<1>2. /\ DepsOf[u] \in SUBSET (Uids \cup Blobs)
      /\ \A d \in DepsOf[u] : d \in Uids /\ OutputsOf[d] \subseteq Inputs(u)
  BY CacheAssumption DEF Inputs
<1>3. work \in [Uids -> (SUBSET Blobs) \cup {NoDir}] /\ pruned' = pruned
  BY <1>1, ThreadFrame DEF CacheTypeOK
<1>4. CASE Clear(b, u)
  <2>1. todo'[b][u] = DepsOf[u]
    BY <1>1, <1>2, <1>4, TodoSet DEF Clear
  <2>2. work'[u] = {} /\ at'[b][u] = "restore"
    BY <1>1, <1>3, <1>4, GoesTo DEF Clear, Emptied, Steps, Locked
  <2> QED
    BY <2>1, <2>2 DEF HasRestored
<1>5. CASE \E d \in Uids : Restore(b, u, d)
  <2>1. PICK d \in Uids : Restore(b, u, d)
    BY <1>5
  <2>2. /\ at' = at /\ at[b][u] = "restore" /\ d \in todo[b][u] /\ d \in manifests
        /\ work' = [work EXCEPT ![u] = work[u] \cup (OutputsOf[d] \cap cas)]
        /\ todo' = [todo EXCEPT ![b][u] = todo[b][u] \ {d}]
    BY <1>3, <2>1 DEF Restore
  <2>3. todo[b][u] \ {d} \in SUBSET (Uids \cup Blobs)
    BY <1>1 DEF CacheTypeOK
  <2>4. todo'[b][u] = todo[b][u] \ {d}
    BY <1>1, <2>2, <2>3, TodoSet, Zenon
  <2>5. work'[u] = work[u] \cup (OutputsOf[d] \cap cas)
    BY <1>3, <2>2
  <2>6. ~pruned => OutputsOf[d] \subseteq cas
    BY <1>1, <2>2 DEF ManifestBacked
  <2>7. d \in DepsOf[u]
    BY <1>1, <2>2 DEF HasRestored
  <2>8. work'[u] \subseteq Inputs(u)
    BY <1>1, <1>2, <2>2, <2>5, <2>7 DEF HasRestored
  <2>9. ~pruned' => \A e \in DepsOf[u] \ todo'[b][u] : OutputsOf[e] \subseteq work'[u]
    BY <1>1, <1>3, <2>2, <2>4, <2>5, <2>6 DEF HasRestored
  <2>10. todo'[b][u] \subseteq DepsOf[u]
    BY <1>1, <2>2, <2>4 DEF HasRestored
  <2> QED
    BY <2>2, <2>8, <2>9, <2>10 DEF HasRestored
<1>6. CASE RunCommand(b, u)
  <2>1. /\ at[b][u] = "restore" /\ todo[b][u] = {} /\ work' = work /\ at'[b][u] = "run"
    BY <1>1, <1>6, GoesTo DEF RunCommand, dirVars, Steps, Locked
  <2>2. work[u] \subseteq Inputs(u) /\ (~pruned => Inputs(u) \subseteq work[u])
    BY <1>1, <2>1 DEF HasRestored, Inputs
  <2> QED
    BY <1>3, <2>1, <2>2 DEF HasRestored
<1> QED
  BY <1>1, <1>4, <1>5, <1>6, Enters DEF HasRestored

\* The steps in which a node is known to have no manifest.
Missing == {"clear", "restore", "restoreUnlink", "run", "store"}

\* A step of a thread leads there only from there, or from the second look.
LEMMA EntersMissing ==
    ASSUME CacheTypeOK, NEW b \in Builds, NEW u \in Uids, Thread(b, u), at'[b][u] \in Missing
    PROVE  \/ at[b][u] \in Missing /\ manifests' \subseteq manifests
           \/ u \notin manifests'
<1>1. ASSUME NEW s \in Steps, Goes(b, u, s)
      PROVE  s \in Missing
  BY <1>1, GoesTo
<1>2. CASE Look(b, u)
  <2>1. PICK s \in Askers : Goes(b, u, IF Backed(u) THEN Hit(s) ELSE Unlinking(s))
    BY <1>2 DEF Look
  <2>2. PICK t \in {Hit(s), Unlinking(s)} : Goes(b, u, t)
    BY <2>1
  <2>3. t \in Steps /\ t \notin Missing
    BY <2>2, Answers DEF Askers, Hit, Miss, Unlinking, Missing
  <2> QED
    BY <1>1, <2>2, <2>3
<1>3. CASE Unlink(b, u)
  BY <1>3 DEF Unlink
<1>4. CASE Execute(b, u) \/ Lock(b, u) \/ RestoreUnlinks(b, u) \/ CommandFails(b, u)
           \/ WriteManifest(b, u) \/ MakeGrb(b, u) \/ RenameFails(b, u) \/ Rename(b, u) \/ Leave(b, u)
  BY <1>1, <1>4 DEF Execute, Lock, Recheck, RestoreUnlinks, CommandFails, Raises, WriteManifest,
                    MakeGrb, RenameFails, Again, Rename, Leave, Steps, Locked, Missing
<1>5. CASE Clear(b, u) \/ RunCommand(b, u) \/ CommandEnds(b, u)
  BY <1>5 DEF Clear, RunCommand, CommandEnds, Missing, storeVars
<1>6. CASE \E d \in Uids : Restore(b, u, d) \/ RestoreFails(b, u, d)
  BY <1>6 DEF Restore, RestoreFails, Missing, storeVars
<1>7. CASE \E o \in Blobs : StoreBlob(b, u, o)
  BY <1>7 DEF StoreBlob, Missing
<1> QED
  BY <1>2, <1>3, <1>4, <1>5, <1>6, <1>7 DEF Thread

LEMMA MissingKept ==
    ASSUME CacheInv, NEW b \in Builds, NEW u \in Uids, Thread(b, u), Local(b, u)
    PROVE  RunsOnlyMissing'
<1>1. CacheTypeOK /\ RunsOnlyMissing
  BY DEF CacheInv
<1>2. manifests' \subseteq manifests \/
        (manifests' = manifests \cup {u} /\ at[b][u] = "store" /\ at'[b][u] = "discard")
  BY <1>1, ThreadFrame, GoesTo DEF WriteManifest, Steps, Locked
<1>3. Missing \subseteq Locked /\ "store" \in Locked /\ "discard" \notin Missing
  BY DEF Missing, Locked
<1>4. ASSUME NEW c \in Builds, NEW v \in Uids, at'[c][v] \in Missing
      PROVE  v \notin manifests'
  <2>1. CASE c = b /\ v = u
    <3>1. \/ at[b][u] \in Missing /\ manifests' \subseteq manifests
          \/ u \notin manifests'
      BY <1>1, <1>4, <2>1, EntersMissing
    <3> QED
      BY <1>1, <2>1, <3>1 DEF RunsOnlyMissing, Missing
  <2>2. CASE c # b \/ v # u
    <3>1. at[c][v] \in Missing
      BY <1>4, <2>2 DEF Local
    <3>2. v \notin manifests
      BY <1>1, <3>1 DEF RunsOnlyMissing, Missing
    <3>3. v = u => at[b][u] # "store"
      BY <1>1, <1>3, <2>2, <3>1, OneHolder
    <3> QED
      BY <1>2, <3>2, <3>3
  <2> QED
    BY <2>1, <2>2
<1> QED
  BY <1>4 DEF RunsOnlyMissing, Missing

LEMMA BackedKept ==
    ASSUME CacheInv, NEW b \in Builds, NEW u \in Uids, Thread(b, u)
    PROVE  ManifestBacked'
<1>1. ManifestBacked /\ HasStored(b, u)
  BY DEF CacheInv
<1>2. cas \subseteq cas' /\ pruned' = pruned
  BY ThreadFrame
<1>3. CASE manifests' \subseteq manifests
  BY <1>1, <1>2, <1>3 DEF ManifestBacked
<1>4. CASE WriteManifest(b, u)
  <2>1. manifests' = manifests \cup {u} /\ at[b][u] = "store" /\ todo[b][u] = {}
    BY <1>4 DEF WriteManifest, AllStored
  <2>2. ~pruned => OutputsOf[u] \subseteq cas
    BY <1>1, <2>1 DEF HasStored
  <2> QED
    BY <1>1, <1>2, <2>1, <2>2 DEF ManifestBacked
<1> QED
  BY <1>3, <1>4, ThreadFrame

LEMMA NothingLeftKept ==
    ASSUME CacheInv, NEW b \in Builds, NEW u \in Uids, Thread(b, u), Local(b, u), CacheTypeOK'
    PROVE  NothingLeftBehind'
<1>1. CacheTypeOK /\ NothingLeftBehind /\ HasDir(b, u)
  BY DEF CacheInv
<1>2. orphaned \ {u} \subseteq orphaned'
  BY ThreadFrame DEF Rename
<1>3. ASSUME NEW v \in Uids \ {u}, holder'[v] = NoBuild, work'[v] # NoDir
      PROVE  v \in orphaned'
  BY <1>1, <1>2, <1>3 DEF NothingLeftBehind, Local
<1>4. ASSUME holder'[u] = NoBuild, work'[u] # NoDir
      PROVE  u \in orphaned'
  <2>1. at'[b][u] \notin Locked
    BY <1>4, CacheAssumption DEF CacheTypeOK, LockHeld
  <2>2. CASE Leave(b, u)
    BY <1>1, <1>4, <2>2 DEF Leave, HasDir
  <2>3. ASSUME ~Leave(b, u)
        PROVE  holder' = holder /\ work' = work /\ orphaned' = orphaned
    <3>1. CASE Look(b, u) \/ Unlink(b, u) \/ Execute(b, u)
      BY <3>1 DEF Look, Unlink, Execute, dirVars, historyVars
    <3>2. ASSUME NEW s \in Locked, Goes(b, u, s)
          PROVE  FALSE
      BY <1>1, <2>1, <3>2, GoesTo DEF Steps
    <3>3. CASE Lock(b, u) \/ Clear(b, u) \/ RestoreUnlinks(b, u) \/ CommandFails(b, u)
               \/ WriteManifest(b, u) \/ MakeGrb(b, u) \/ RenameFails(b, u) \/ Rename(b, u)
               \/ RunCommand(b, u) \/ CommandEnds(b, u) \/ \E d \in Uids : RestoreFails(b, u, d)
      BY <3>2, <3>3 DEF Lock, Recheck, Clear, RestoreUnlinks, CommandFails, Raises, WriteManifest,
                        MakeGrb, RenameFails, Again, Rename, RunCommand, CommandEnds, RestoreFails,
                        Locked
    <3>4. CASE (\E d \in Uids : Restore(b, u, d)) \/ (\E o \in Blobs : StoreBlob(b, u, o))
      BY <2>1, <3>4 DEF Restore, StoreBlob, Locked
    <3> QED
      BY <2>3, <3>1, <3>3, <3>4 DEF Thread
  <2> QED
    BY <1>1, <1>4, <2>2, <2>3 DEF NothingLeftBehind
<1> QED
  BY <1>3, <1>4 DEF NothingLeftBehind

\* A build that is off has no thread that could do something.
LEMMA OffKept ==
    ASSUME CacheInv, NEW b \in Builds, NEW u \in Uids, Thread(b, u), Local(b, u),
           NEW c \in Builds
    PROVE  OffIdle(c)'
<1>1. OffIdle(c) /\ status' = status
  BY ThreadFrame DEF CacheInv
<1>2. CASE c # b
  BY <1>1, <1>2 DEF OffIdle, Local
<1>3. CASE c = b
  <2>1. at[b][u] # "wait" \/ status[b] = "up"
    BY DEF Thread, Look, Unlink, Unlinking, Askers, Execute, Lock, Clear, Restore, RestoreFails,
           RestoreUnlinks, RunCommand, CommandEnds, CommandFails, StoreBlob, WriteManifest,
           MakeGrb, RenameFails, Rename, Leave
  <2> QED
    BY <1>1, <1>3, <2>1 DEF OffIdle
<1> QED
  BY <1>2, <1>3

LEMMA ThreadKeeps ==
    ASSUME CacheInv, NEW b \in Builds, NEW u \in Uids, Thread(b, u)
    PROVE  CacheInv'
<1>1. CacheTypeOK' /\ Local(b, u)
  BY ThreadStep DEF CacheInv
<1>2. ASSUME NEW c \in Builds, NEW v \in Uids
      PROVE  HasDir(c, v)' /\ HasStored(c, v)' /\ HasRestored(c, v)'
  BY <1>1, OthersKept, OwnDir, OwnStored, OwnRestored
<1>3. RunsOnlyMissing' /\ ManifestBacked' /\ NothingLeftBehind'
  BY <1>1, MissingKept, BackedKept, NothingLeftKept
<1>4. \A c \in Builds : OffIdle(c)'
  BY <1>1, OffKept
<1> QED
  BY <1>1, <1>2, <1>3, <1>4 DEF CacheInv

-----------------------------------------------------------------------------

\* Steps that no thread takes part in: where it stands, what it holds and what
\* it works on stay, and no manifest appears.
LEMMA ApartKeeps ==
    ASSUME CacheInv, CacheTypeOK', at' = at, UNCHANGED <<holder, work>>, manifests' \subseteq manifests,
           orphaned' = orphaned,
           \A b \in Builds, u \in Uids : at[b][u] # "done" => todo'[b][u] = todo[b][u],
           (cas' = cas /\ pruned' = pruned) \/ pruned',
           \A b \in Builds : status'[b] = "off" => status[b] = "off"
    PROVE  CacheInv'
<1>1. /\ ManifestBacked /\ RunsOnlyMissing /\ NothingLeftBehind
      /\ \A b \in Builds : OffIdle(b)
      /\ \A b \in Builds, u \in Uids : HasDir(b, u) /\ HasStored(b, u) /\ HasRestored(b, u)
  BY DEF CacheInv
<1>2. ManifestBacked' /\ RunsOnlyMissing' /\ NothingLeftBehind'
  BY <1>1 DEF ManifestBacked, RunsOnlyMissing, NothingLeftBehind
<1>3. \A b \in Builds : OffIdle(b)'
  BY <1>1 DEF OffIdle
<1>4. ASSUME NEW b \in Builds, NEW u \in Uids
      PROVE  HasDir(b, u)' /\ HasStored(b, u)' /\ HasRestored(b, u)'
  <2>1. HasDir(b, u) /\ HasStored(b, u) /\ HasRestored(b, u)
    BY <1>1
  <2>2. at[b][u] # "done" => todo'[b][u] = todo[b][u]
    BY <1>4
  <2>3. HasDir(b, u)'
    BY <2>1 DEF HasDir
  <2>4. HasStored(b, u)'
    BY <2>1, <2>2 DEF HasStored
  <2>5. HasRestored(b, u)'
    BY <2>1, <2>2 DEF HasRestored
  <2> QED
    BY <2>3, <2>4, <2>5
<1> QED
  BY <1>2, <1>3, <1>4 DEF CacheInv

LEMMA LeavesKeeps ==
    ASSUME CacheInv, NEW b \in Builds, Leaves(b),
           orphaned' = orphaned \cup {u \in Uids : holder[u] = b /\ work[u] # NoDir}
             \/ (orphaned' = orphaned /\ Idle(b))
    PROVE  CacheInv'
<1>1. /\ CacheTypeOK /\ ManifestBacked /\ RunsOnlyMissing /\ NothingLeftBehind
      /\ \A c \in Builds : OffIdle(c)
      /\ \A c \in Builds, u \in Uids : HasDir(c, u) /\ HasStored(c, u) /\ HasRestored(c, u)
  BY DEF CacheInv
<1>2. /\ CacheTypeOK'
      /\ \A c \in Builds \ {b}, u \in Uids : at'[c][u] = at[c][u] /\ todo'[c][u] = todo[c][u]
      /\ \A u \in Uids : at'[b][u] = "wait"
      /\ \A u \in Uids : holder[u] # b => holder'[u] = holder[u]
  BY <1>1, LeavesStep
<1>3. /\ UNCHANGED <<work, cas, manifests, pruned>>
      /\ \A c \in Builds \ {b} : status'[c] = status[c]
  BY <1>1 DEF Leaves, storeVars, CacheTypeOK
<1>4. ASSUME NEW c \in Builds, NEW u \in Uids
      PROVE  HasDir(c, u)' /\ HasStored(c, u)' /\ HasRestored(c, u)'
  <2>1. CASE c = b
    BY <1>2, <2>1 DEF HasDir, HasStored, HasRestored, Locked
  <2>2. CASE c # b
    BY <1>1, <1>2, <1>3, <2>2 DEF HasDir, HasStored, HasRestored
  <2> QED
    BY <2>1, <2>2
<1>5. ManifestBacked'
  BY <1>1, <1>3 DEF ManifestBacked
<1>6. RunsOnlyMissing'
  BY <1>1, <1>2, <1>3 DEF RunsOnlyMissing
<1>7. NothingLeftBehind'
  <2>1. ASSUME NEW u \in Uids, holder'[u] = NoBuild, work'[u] # NoDir
        PROVE  u \in orphaned'
    <3>1. CASE holder[u] = b
      <4>1. at[b][u] \in Locked
        BY <1>1, <3>1 DEF CacheTypeOK, LockHeld
      <4>2. ~Idle(b)
        BY <4>1 DEF Idle, Locked
      <4> QED
        BY <1>3, <2>1, <3>1, <4>2
    <3>2. CASE holder[u] # b
      BY <1>1, <1>2, <1>3, <2>1, <3>2 DEF NothingLeftBehind
    <3> QED
      BY <3>1, <3>2
  <2> QED
    BY <2>1 DEF NothingLeftBehind
<1>8. \A c \in Builds : OffIdle(c)'
  BY <1>1, <1>2, <1>3 DEF OffIdle
<1> QED
  BY <1>2, <1>4, <1>5, <1>6, <1>7, <1>8 DEF CacheInv

LEMMA StartKeeps ==
    ASSUME CacheInv, NEW b \in Builds, Start(b)
    PROVE  CacheInv'
<1>1. /\ CacheTypeOK /\ ManifestBacked /\ RunsOnlyMissing /\ NothingLeftBehind
      /\ \A c \in Builds : OffIdle(c)
      /\ \A c \in Builds, u \in Uids : HasDir(c, u) /\ HasStored(c, u) /\ HasRestored(c, u)
  BY DEF CacheInv
<1>2. /\ status[b] = "off" /\ status' = [status EXCEPT ![b] = "up"]
      /\ at' = [at EXCEPT ![b] = [u \in Uids |-> "scan"]]
      /\ UNCHANGED <<raised, todo, dirVars, storeVars, pruned, orphaned>>
  BY DEF Start, Up
<1>3. "scan" \in Steps /\ "scan" \notin Locked /\ "wait" \notin Locked
  BY DEF Steps, Locked
<1>4. /\ at' \in [Builds -> [Uids -> Steps]] /\ \A u \in Uids : at'[b][u] = "scan"
      /\ \A c \in Builds \ {b} : at'[c] = at[c]
  BY <1>1, <1>2, <1>3 DEF CacheTypeOK
<1>5. /\ status' \in [Builds -> {"off", "up", "failed", "unlink"}]
      /\ status'[b] = "up" /\ \A c \in Builds \ {b} : status'[c] = status[c]
  BY <1>1, <1>2 DEF CacheTypeOK
<1>6. \A u \in Uids : at[b][u] = "wait"
  BY <1>1, <1>2 DEF OffIdle
<1>7. LockHeld'
  <2>1. LockHeld
    BY <1>1 DEF CacheTypeOK
  <2> QED
    BY <1>2, <1>3, <1>4, <1>6, <2>1 DEF LockHeld, dirVars
<1>8. CacheTypeOK'
  BY <1>1, <1>2, <1>4, <1>5, <1>7 DEF CacheTypeOK, dirVars, storeVars
<1>9. ASSUME NEW c \in Builds, NEW u \in Uids
      PROVE  HasDir(c, u)' /\ HasStored(c, u)' /\ HasRestored(c, u)'
  <2>1. CASE c = b
    BY <1>4, <2>1 DEF HasDir, HasStored, HasRestored, Locked
  <2>2. CASE c # b
    BY <1>1, <1>2, <1>4, <2>2 DEF HasDir, HasStored, HasRestored, dirVars, storeVars
  <2> QED
    BY <2>1, <2>2
<1>10. ManifestBacked' /\ NothingLeftBehind'
  BY <1>1, <1>2 DEF ManifestBacked, NothingLeftBehind, dirVars, storeVars
<1>11. RunsOnlyMissing'
  BY <1>1, <1>2, <1>4 DEF RunsOnlyMissing, storeVars
<1>12. \A c \in Builds : OffIdle(c)'
  BY <1>1, <1>4, <1>5 DEF OffIdle
<1> QED
  BY <1>8, <1>9, <1>10, <1>11, <1>12 DEF CacheInv

\* Steps of the main thread of a build, and of others.
LEMMA MainKeeps ==
    ASSUME CacheInv, NEW b \in Builds,
           SeesFailure(b) \/ PublishFails(b) \/ PublishUnlinks(b) \/ Collect
           \/ \E o \in Blobs : Prune(o)
    PROVE  CacheInv'
<1>1. /\ status \in [Builds -> {"off", "up", "failed", "unlink"}]
      /\ todo \in [Builds -> [Uids -> SUBSET (Uids \cup Blobs)]]
      /\ CacheTypeOK
  BY DEF CacheInv, CacheTypeOK
<1> USE DEF threadVars, dirVars, storeVars, historyVars
<1>2. CASE SeesFailure(b)
  <2>1. /\ status[b] = "up" /\ status' = [status EXCEPT ![b] = "failed"]
        /\ UNCHANGED <<threadVars, dirVars, storeVars, historyVars>>
    BY <1>2 DEF SeesFailure
  <2>2. CacheTypeOK'
    BY <1>1, <2>1 DEF CacheTypeOK, LockHeld
  <2> QED
    BY <1>1, <2>1, <2>2, ApartKeeps
<1>3. CASE PublishFails(b)
  <2>1. PICK u \in Uids : todo' = [todo EXCEPT ![b][u] = {u}]
    BY <1>3, CacheAssumption DEF PublishFails
  <2>2. /\ Publishing(b) /\ status' = [status EXCEPT ![b] = "unlink"]
        /\ UNCHANGED <<raised, at, dirVars, storeVars, historyVars>>
    BY <1>3 DEF PublishFails
  <2>3. at[b][u] = "done" /\ status[b] = "up" /\ {u} \in SUBSET (Uids \cup Blobs)
    BY <2>2 DEF Publishing
  <2>4. /\ todo' \in [Builds -> [Uids -> SUBSET (Uids \cup Blobs)]]
        /\ \A c \in Builds, v \in Uids : c # b \/ v # u => todo'[c][v] = todo[c][v]
    BY <1>1, <2>1, <2>3, TodoSet
  <2>5. CacheTypeOK'
    BY <1>1, <2>2, <2>4 DEF CacheTypeOK, LockHeld
  <2>6. \A c \in Builds, v \in Uids : at[c][v] # "done" => todo'[c][v] = todo[c][v]
    BY <2>3, <2>4
  <2>7. \A c \in Builds : status'[c] = "off" => status[c] = "off"
    BY <1>1, <2>2
  <2> QED
    BY <2>2, <2>5, <2>6, <2>7, ApartKeeps
<1>4. CASE PublishUnlinks(b)
  <2>1. /\ status' = [status EXCEPT ![b] = "failed"] /\ manifests' \subseteq manifests
        /\ UNCHANGED <<threadVars, dirVars, cas, historyVars>>
    BY <1>4 DEF PublishUnlinks
  <2>2. CacheTypeOK'
    BY <1>1, <2>1 DEF CacheTypeOK, LockHeld
  <2> QED
    BY <1>1, <2>1, <2>2, ApartKeeps
<1>5. CASE Collect
  <2>1. grb' = FALSE /\ UNCHANGED <<status, threadVars, holder, work, storeVars, historyVars>>
    BY <1>5 DEF Collect
  <2>2. CacheTypeOK'
    BY <1>1, <2>1 DEF CacheTypeOK, LockHeld
  <2> QED
    BY <2>1, <2>2, ApartKeeps
<1>6. CASE \E o \in Blobs : Prune(o)
  <2>1. /\ cas' \subseteq cas /\ pruned'
        /\ UNCHANGED <<status, threadVars, dirVars, manifests, orphaned>>
    BY <1>6 DEF Prune
  <2>2. CacheTypeOK'
    BY <1>1, <2>1 DEF CacheTypeOK, LockHeld
  <2> QED
    BY <2>1, <2>2, ApartKeeps
<1> QED
  BY <1>2, <1>3, <1>4, <1>5, <1>6

LEMMA CacheInvInit ==
    ASSUME CacheInit
    PROVE  CacheInv
<1>1. CacheTypeOK
  BY CacheAssumption DEF CacheInit, CacheTypeOK, LockHeld, Steps, Locked
<1>2. ManifestBacked /\ RunsOnlyMissing /\ NothingLeftBehind /\ \A b \in Builds : OffIdle(b)
  BY DEF CacheInit, ManifestBacked, RunsOnlyMissing, NothingLeftBehind, OffIdle
<1>3. \A b \in Builds, u \in Uids : HasDir(b, u) /\ HasStored(b, u) /\ HasRestored(b, u)
  BY DEF CacheInit, HasDir, HasStored, HasRestored, Locked
<1> QED
  BY <1>1, <1>2, <1>3 DEF CacheInv

LEMMA CacheInvStep ==
    ASSUME CacheInv, [CacheNext]_cacheVars
    PROVE  CacheInv'
<1>1. ASSUME NEW b \in Builds, Killed(b) \/ LeaveFailed(b) \/ Publish(b)
      PROVE  CacheInv'
  <2>1. Leaves(b)
    BY <1>1 DEF Killed, LeaveFailed, Publish
  <2>2. orphaned' = orphaned \cup {u \in Uids : holder[u] = b /\ work[u] # NoDir}
          \/ (orphaned' = orphaned /\ Idle(b))
    BY <1>1 DEF Killed, LeaveFailed, Publish, Publishing, Idle
  <2> QED
    BY <2>1, <2>2, LeavesKeeps
<1>2. CASE Collect \/ \E o \in Blobs : Prune(o)
  <2>1. CASE Builds # {}
    BY <1>2, <2>1, MainKeeps
  <2>2. CASE Builds = {}
    <3>1. CacheTypeOK'
      BY <1>2, <2>2 DEF CacheInv, CacheTypeOK, LockHeld, Collect, Prune, threadVars, dirVars, storeVars
    <3> QED
      BY <1>2, <2>2, <3>1, ApartKeeps DEF Collect, Prune, threadVars, dirVars, storeVars, historyVars
  <2> QED
    BY <2>1, <2>2
<1>3. CASE UNCHANGED cacheVars
  <2>1. UNCHANGED <<status, raised, at, todo, holder, work, cas, manifests, grb, pruned, orphaned>>
    BY <1>3 DEF cacheVars, threadVars, dirVars, storeVars, historyVars
  <2>2. CacheTypeOK'
    BY <2>1 DEF CacheInv, CacheTypeOK, LockHeld
  <2> QED
    BY <2>1, <2>2, ApartKeeps
<1> QED
  BY <1>1, <1>2, <1>3, StartKeeps, MainKeeps, ThreadKeeps DEF CacheNext

-----------------------------------------------------------------------------
(* Causes of failure.                                                      *)

\* Nobody has removed a blob, and no other build was up since b is.
Calm(b) == ~pruned /\ ~overlapped[b] /\ status[b] # "off"

Ended == {"done", "discard", "rename", "leave"}
NotBegun == {"scan", "scanUnlink", "wait"}

\* Then b is the only build; what it has run has a manifest, and what it runs has
\* deps with one.
Undisturbed(b) ==
    Calm(b) =>
        /\ \A c \in Builds \ {b} : status[c] = "off"
        /\ status[b] # "unlink"
        /\ raised[b] # {} => cmdFailed[b]
        /\ \A u \in Uids :
             /\ at[b][u] # "restoreUnlink"
             /\ at[b][u] \in Ended /\ u \notin raised[b] => u \in manifests
             /\ at[b][u] \notin NotBegun => Ready(b, u)

CauseInv ==
    /\ CacheInv
    /\ overlapped \in [Builds -> BOOLEAN] /\ cmdFailed \in [Builds -> BOOLEAN]
    /\ \A b \in Builds : Undisturbed(b) /\ (status[b] = "off" => raised[b] = {})

\* A step of a thread of a build that is alone.
LEMMA CalmThread ==
    ASSUME CauseInv, NEW b \in Builds, NEW u \in Uids, Thread(b, u), Calm(b)
    PROVE  /\ at[b][u] # "done" /\ at'[b][u] # "restoreUnlink"
           /\ at'[b][u] \in Ended /\ u \notin raised'[b] => u \in manifests'
           /\ at'[b][u] \notin NotBegun => at[b][u] \notin NotBegun \/ Ready(b, u)
           /\ manifests \ {u} \subseteq manifests'
           /\ raised' = raised \/ (raised' = [raised EXCEPT ![b] = @ \cup {u}] /\ cmdFailed'[b])
           /\ cmdFailed' = cmdFailed \/ cmdFailed' = [cmdFailed EXCEPT ![b] = TRUE]
<1> USE DEF storeVars, historyVars, dirVars
<1>1. /\ CacheTypeOK /\ HasRestored(b, u) /\ cmdFailed \in [Builds -> BOOLEAN]
      /\ raised \in [Builds -> SUBSET Uids]
  BY DEF CauseInv, CacheInv, CacheTypeOK
<1>2. /\ at[b][u] # "restoreUnlink" /\ (at[b][u] \notin NotBegun => Ready(b, u))
      /\ at[b][u] \in Ended /\ u \notin raised[b] => u \in manifests
      /\ \A d \in Uids : at[b][d] = "done" /\ d \notin raised[b] => d \in manifests
  BY DEF CauseInv, Undisturbed, Ended
<1> USE DEF Ended, NotBegun
<1>3. CASE Look(b, u)
  <2>1. PICK s \in Askers : at[b][u] = s /\ Goes(b, u, IF Backed(u) THEN Hit(s) ELSE Unlinking(s))
    BY <1>3 DEF Look
  <2>2. UNCHANGED <<raised, manifests, cmdFailed>>
    BY <1>3 DEF Look
  <2>3. CASE Backed(u)
    <3>1. Hit(s) \in Steps /\ at'[b][u] = Hit(s) /\ u \in manifests
      BY <1>1, <2>1, <2>3, Answers, GoesTo DEF Backed
    <3> QED
      BY <2>1, <2>2, <3>1 DEF Askers, Hit
  <2>4. CASE ~Backed(u)
    <3>1. Unlinking(s) \in Steps /\ at'[b][u] = Unlinking(s)
      BY <1>1, <2>1, <2>4, Answers, GoesTo
    <3> QED
      BY <2>1, <2>2, <3>1 DEF Askers, Unlinking
  <2> QED
    BY <2>3, <2>4
<1>4. CASE Unlink(b, u)
  <2>1. PICK s \in Askers : at[b][u] = Unlinking(s) /\ Goes(b, u, Miss(s))
    BY <1>4 DEF Unlink
  <2>2. Miss(s) \in Steps /\ at'[b][u] = Miss(s)
    BY <1>1, <2>1, Answers, GoesTo
  <2>3. manifests' = manifests \ {u} /\ UNCHANGED <<raised, cmdFailed>>
    BY <1>4 DEF Unlink
  <2> QED
    BY <2>1, <2>2, <2>3 DEF Askers, Miss, Unlinking
<1>5. CASE Execute(b, u)
  BY <1>1, <1>5, GoesTo DEF Execute, Steps, Locked
<1>6. CASE Lock(b, u) \/ Clear(b, u) \/ RunCommand(b, u)
  BY <1>1, <1>6, GoesTo DEF Lock, Recheck, Clear, RunCommand, Steps, Locked
<1>7. CASE CommandEnds(b, u)
  BY <1>1, <1>7, GoesTo DEF CommandEnds, Steps, Locked
<1>8. CASE \E d \in Uids : Restore(b, u, d)
  BY <1>8 DEF Restore
<1>9. CASE \E o \in Blobs : StoreBlob(b, u, o)
  BY <1>9 DEF StoreBlob
<1>10. CASE \E d \in Uids : RestoreFails(b, u, d)
  <2>1. PICK d \in Uids : at[b][u] = "restore" /\ d \in todo[b][u] /\ d \notin manifests
    BY <1>10 DEF RestoreFails
  <2>2. d \in DepsOf[u] /\ Ready(b, u)
    BY <1>1, <1>2, <2>1 DEF HasRestored
  <2> QED
    BY <1>2, <2>1, <2>2 DEF Ready
<1>11. CASE RestoreUnlinks(b, u)
  BY <1>2, <1>11 DEF RestoreUnlinks
<1>12. CASE CommandFails(b, u)
  <2>1. Inputs(u) \subseteq work[u]
    BY <1>1, <1>12 DEF CommandFails, HasRestored, Calm
  <2>2. cmdFailed' = [cmdFailed EXCEPT ![b] = TRUE] /\ cmdFailed'[b]
    BY <1>1, <1>12, <2>1 DEF CommandFails
  <2>3. /\ raised' = [raised EXCEPT ![b] = @ \cup {u}] /\ u \in raised'[b] /\ manifests' = manifests
        /\ at[b][u] = "run" /\ at'[b][u] = "discard"
    BY <1>1, <1>12, GoesTo DEF CommandFails, Raises, Steps, Locked
  <2> QED
    BY <2>2, <2>3
<1>13. CASE WriteManifest(b, u)
  BY <1>1, <1>13, GoesTo DEF WriteManifest, Steps, Locked
<1>14. CASE MakeGrb(b, u) \/ RenameFails(b, u) \/ Rename(b, u) \/ Leave(b, u)
  BY <1>1, <1>2, <1>14, GoesTo DEF MakeGrb, RenameFails, Again, Rename, Leave, Steps, Locked
<1> QED
  BY <1>3, <1>4, <1>5, <1>6, <1>7, <1>8, <1>9, <1>10, <1>11, <1>12, <1>13, <1>14 DEF Thread

\* A thread steps: its build goes on undisturbed, and no other build is on.
LEMMA CauseThread ==
    ASSUME CauseInv, NEW b \in Builds, NEW u \in Uids, Thread(b, u)
    PROVE  CauseInv'
<1> USE DEF historyVars
<1>1. /\ CacheTypeOK /\ overlapped \in [Builds -> BOOLEAN] /\ cmdFailed \in [Builds -> BOOLEAN]
      /\ raised \in [Builds -> SUBSET Uids]
      /\ \A c \in Builds : Undisturbed(c) /\ OffIdle(c) /\ (status[c] = "off" => raised[c] = {})
  BY DEF CauseInv, CacheInv, CacheTypeOK
<1>2. CacheInv' /\ CacheTypeOK' /\ Local(b, u) /\ status' = status /\ pruned' = pruned
  BY ThreadKeeps, ThreadStep, ThreadFrame DEF CauseInv, CacheInv
<1>3. status[b] # "off"
  <2>1. at[b][u] # "wait" \/ status[b] = "up"
    BY DEF Thread, Look, Unlink, Unlinking, Askers, Execute, Lock, Clear, Restore, RestoreFails,
           RestoreUnlinks, RunCommand, CommandEnds, CommandFails, StoreBlob, WriteManifest,
           MakeGrb, RenameFails, Rename, Leave
  <2> QED
    BY <1>1, <2>1 DEF OffIdle
<1>4. /\ overlapped' = overlapped
      /\ raised' = raised \/ raised' = [raised EXCEPT ![b] = @ \cup {u}]
      /\ cmdFailed' = cmdFailed \/ \E x \in BOOLEAN : cmdFailed' = [cmdFailed EXCEPT ![b] = x]
  <2>1. CASE CommandFails(b, u)
    <3>1. (cmdFailed[b] \/ Inputs(u) \subseteq work[u]) \in BOOLEAN
      BY <1>1
    <3> QED
      BY <2>1, <3>1 DEF CommandFails, Raises
  <2>2. CASE ~CommandFails(b, u)
    BY <2>2 DEF Thread, Look, Unlink, Execute, Lock, Clear, Restore, RestoreFails,
           RestoreUnlinks, Raises, RunCommand, CommandEnds, StoreBlob, WriteManifest,
           MakeGrb, RenameFails, Rename, Leave
  <2> QED
    BY <2>1, <2>2
<1>5. cmdFailed' \in [Builds -> BOOLEAN] /\ overlapped' \in [Builds -> BOOLEAN]
  BY <1>1, <1>4
<1>6. \A c \in Builds : status'[c] = "off" => raised'[c] = {}
  BY <1>1, <1>2, <1>3, <1>4
<1>7. Undisturbed(b)'
  <2> SUFFICES ASSUME Calm(b)'
               PROVE  /\ \A c \in Builds \ {b} : status'[c] = "off"
                      /\ status'[b] # "unlink"
                      /\ raised'[b] # {} => cmdFailed'[b]
                      /\ \A v \in Uids :
                           /\ at'[b][v] # "restoreUnlink"
                           /\ at'[b][v] \in Ended /\ v \notin raised'[b] => v \in manifests'
                           /\ at'[b][v] \notin NotBegun => Ready(b, v)'
    BY DEF Undisturbed
  <2>1. Calm(b)
    BY <1>2, <1>4 DEF Calm
  <2>2. /\ at[b][u] # "done" /\ at'[b][u] # "restoreUnlink"
        /\ at'[b][u] \in Ended /\ u \notin raised'[b] => u \in manifests'
        /\ at'[b][u] \notin NotBegun => at[b][u] \notin NotBegun \/ Ready(b, u)
        /\ manifests \ {u} \subseteq manifests'
        /\ raised' = raised \/ (raised' = [raised EXCEPT ![b] = @ \cup {u}] /\ cmdFailed'[b])
        /\ cmdFailed' = cmdFailed \/ cmdFailed' = [cmdFailed EXCEPT ![b] = TRUE]
    BY <2>1, CalmThread
  <2>3. /\ \A c \in Builds \ {b} : status[c] = "off"
        /\ status[b] # "unlink"
        /\ raised[b] # {} => cmdFailed[b]
        /\ \A v \in Uids :
             /\ at[b][v] # "restoreUnlink"
             /\ at[b][v] \in Ended /\ v \notin raised[b] => v \in manifests
             /\ at[b][v] \notin NotBegun => Ready(b, v)
    BY <1>1, <2>1 DEF Undisturbed
  <2>4. cmdFailed[b] => cmdFailed'[b]
    BY <1>1, <2>2
  <2>5. raised'[b] # {} => cmdFailed'[b]
    BY <2>2, <2>3, <2>4
  <2>6. raised[b] \subseteq raised'[b] /\ raised'[b] \subseteq raised[b] \cup {u}
    BY <1>1, <2>2
  <2>7. ASSUME NEW v \in Uids
        PROVE  /\ at'[b][v] # "restoreUnlink"
               /\ at'[b][v] \in Ended /\ v \notin raised'[b] => v \in manifests'
    <3>1. CASE v = u
      BY <2>2, <3>1
    <3>2. CASE v # u
      BY <1>2, <2>2, <2>3, <2>6, <3>2 DEF Local
    <3> QED
      BY <3>1, <3>2
  <2>8. ASSUME NEW v \in Uids, Ready(b, v)
        PROVE  Ready(b, v)'
    <3>1. ASSUME NEW d \in DepsOf[v]
          PROVE  at'[b][d] = "done" /\ d \notin raised'[b]
      <4>1. d \in Uids /\ at[b][d] = "done" /\ d \notin raised[b]
        BY <2>8, CacheAssumption DEF Ready
      <4>2. d # u
        BY <2>2, <4>1
      <4> QED
        BY <1>2, <2>6, <4>1, <4>2 DEF Local
    <3> QED
      BY <3>1 DEF Ready
  <2>9. ASSUME NEW v \in Uids, at'[b][v] \notin NotBegun
        PROVE  Ready(b, v)
    <3>1. CASE v = u
      BY <2>2, <2>3, <2>9, <3>1
    <3>2. CASE v # u
      BY <1>2, <2>3, <2>9, <3>2 DEF Local
    <3> QED
      BY <3>1, <3>2
  <2> QED
    BY <1>2, <2>3, <2>5, <2>7, <2>8, <2>9
<1>8. ASSUME NEW c \in Builds \ {b}
      PROVE  Undisturbed(c)'
  <2>1. ~Calm(c)
    BY <1>1, <1>3 DEF Undisturbed
  <2> QED
    BY <1>2, <1>4, <2>1 DEF Undisturbed, Calm
<1> QED
  BY <1>2, <1>5, <1>6, <1>7, <1>8 DEF CauseInv

\* A build comes up, alone or not.
LEMMA CauseStart ==
    ASSUME CauseInv, NEW b \in Builds, Start(b)
    PROVE  CauseInv'
<1>1. /\ CacheTypeOK /\ overlapped \in [Builds -> BOOLEAN] /\ cmdFailed \in [Builds -> BOOLEAN]
      /\ \A c \in Builds : Undisturbed(c) /\ (status[c] = "off" => raised[c] = {})
  BY DEF CauseInv, CacheInv
<1>2. /\ status[b] = "off" /\ status' = [status EXCEPT ![b] = "up"]
      /\ at' = [at EXCEPT ![b] = [u \in Uids |-> "scan"]]
      /\ overlapped' = [c \in Builds |-> IF c = b THEN \E d \in Builds : Up(d)
                                         ELSE overlapped[c] \/ Up(c)]
      /\ cmdFailed' = [cmdFailed EXCEPT ![b] = FALSE]
      /\ UNCHANGED <<raised, manifests, pruned>>
  BY DEF Start, Up, storeVars
<1>3. overlapped' \in [Builds -> BOOLEAN] /\ cmdFailed' \in [Builds -> BOOLEAN]
  BY <1>1, <1>2 DEF Up
<1>4. status'[b] = "up" /\ \A c \in Builds \ {b} : status'[c] = status[c]
  BY <1>1, <1>2 DEF CacheTypeOK
<1>5. CacheInv'
  BY StartKeeps DEF CauseInv
<1>6. ASSUME NEW c \in Builds \ {b}
      PROVE  ~Calm(c)' \/ status[c] = "off"
  BY <1>1, <1>2, <1>4, <1>6 DEF Calm, Up
<1>7. \A c \in Builds \ {b} : ~Calm(c)'
  BY <1>4, <1>6 DEF Calm
<1>8. Undisturbed(b)'
  <2>1. Calm(b)' => \A c \in Builds \ {b} : status'[c] = "off"
    BY <1>1, <1>2, <1>4 DEF Calm, Up
  <2>2. \A u \in Uids : at'[b][u] = "scan"
    BY <1>1, <1>2 DEF CacheTypeOK
  <2>3. raised'[b] = {} /\ status'[b] # "unlink"
    BY <1>1, <1>2, <1>4
  <2> QED
    BY <2>1, <2>2, <2>3 DEF Undisturbed, Ended, NotBegun
<1> QED
  BY <1>1, <1>2, <1>3, <1>4, <1>5, <1>7, <1>8 DEF CauseInv, Undisturbed

LEMMA CauseLeaves ==
    ASSUME CauseInv, CacheInv', NEW b \in Builds, Leaves(b)
    PROVE  CauseInv'
<1>1. /\ CacheTypeOK /\ overlapped \in [Builds -> BOOLEAN] /\ cmdFailed \in [Builds -> BOOLEAN]
      /\ \A c \in Builds : Undisturbed(c) /\ (status[c] = "off" => raised[c] = {})
  BY DEF CauseInv, CacheInv
<1>2. /\ status' = [status EXCEPT ![b] = "off"] /\ raised' = [raised EXCEPT ![b] = {}]
      /\ overlapped' = [overlapped EXCEPT ![b] = FALSE]
      /\ cmdFailed' = [cmdFailed EXCEPT ![b] = FALSE]
      /\ UNCHANGED <<manifests, pruned>>
  BY DEF Leaves, storeVars
<1>3. overlapped' \in [Builds -> BOOLEAN] /\ cmdFailed' \in [Builds -> BOOLEAN]
  BY <1>1, <1>2
<1>4. status'[b] = "off" /\ raised'[b] = {}
  BY <1>1, <1>2 DEF CacheTypeOK
<1>5. ASSUME NEW c \in Builds \ {b}
      PROVE  Undisturbed(c)' /\ (status'[c] = "off" => raised'[c] = {})
  <2>1. /\ status'[c] = status[c] /\ raised'[c] = raised[c] /\ overlapped'[c] = overlapped[c]
        /\ cmdFailed'[c] = cmdFailed[c]
    BY <1>1, <1>2 DEF CacheTypeOK
  <2>2. \A u \in Uids : at'[c][u] = at[c][u]
    BY <1>1, LeavesStep
  <2>3. \A d \in Builds : status[d] = "off" => status'[d] = "off"
    BY <1>1, <1>2 DEF CacheTypeOK
  <2>4. \A u \in Uids : Ready(c, u) => Ready(c, u)'
    BY <2>1, <2>2, CacheAssumption DEF Ready
  <2> QED
    BY <1>1, <1>2, <2>1, <2>2, <2>3, <2>4 DEF Undisturbed, Calm
<1>6. Undisturbed(b)'
  BY <1>4 DEF Undisturbed, Calm
<1> QED
  BY <1>3, <1>4, <1>5, <1>6 DEF CauseInv

\* Steps of the main thread: alone, it always finds the manifests of its targets.
LEMMA CauseMain ==
    ASSUME CauseInv, CacheInv', NEW b \in Builds,
           SeesFailure(b) \/ PublishFails(b) \/ PublishUnlinks(b)
    PROVE  CauseInv'
<1>1. /\ CacheTypeOK /\ overlapped \in [Builds -> BOOLEAN] /\ cmdFailed \in [Builds -> BOOLEAN]
      /\ \A c \in Builds : Undisturbed(c) /\ (status[c] = "off" => raised[c] = {})
  BY DEF CauseInv, CacheInv
<1>2. UNCHANGED <<raised, at, historyVars>>
  BY DEF SeesFailure, PublishFails, PublishUnlinks, threadVars
<1>3. /\ status[b] # "off" /\ status'[b] # "off"
      /\ \A c \in Builds \ {b} : status'[c] = status[c]
  BY <1>1 DEF SeesFailure, PublishFails, PublishUnlinks, Publishing, CacheTypeOK
<1>4. ASSUME NEW c \in Builds \ {b}
      PROVE  Undisturbed(c)'
  BY <1>1, <1>2, <1>3 DEF Undisturbed, Calm, historyVars
<1>5. Undisturbed(b)'
  <2> SUFFICES ASSUME Calm(b)'
               PROVE  Undisturbed(b)'
    BY DEF Undisturbed
  <2>1. Calm(b)
    BY <1>2, <1>3 DEF Calm, historyVars
  <2>2. /\ \A c \in Builds \ {b} : status[c] = "off"
        /\ status[b] # "unlink"
        /\ raised[b] # {} => cmdFailed[b]
        /\ \A u \in Uids :
             /\ at[b][u] # "restoreUnlink"
             /\ at[b][u] \in Ended /\ u \notin raised[b] => u \in manifests
             /\ at[b][u] \notin NotBegun => Ready(b, u)
    BY <1>1, <2>1 DEF Undisturbed
  <2>3. ~PublishFails(b)
    BY <2>2, CacheAssumption DEF PublishFails, Publishing, Ended
  <2>4. SeesFailure(b)
    BY <2>2, <2>3 DEF PublishUnlinks
  <2>5. manifests' = manifests /\ status'[b] = "failed"
    BY <1>1, <2>4 DEF SeesFailure, storeVars, CacheTypeOK
  <2>6. \A u \in Uids : Ready(b, u) => Ready(b, u)'
    BY <1>2 DEF Ready
  <2> QED
    BY <1>2, <1>3, <2>2, <2>5, <2>6 DEF Undisturbed, historyVars
<1> QED
  BY <1>1, <1>2, <1>3, <1>4, <1>5 DEF CauseInv, historyVars

LEMMA CauseStep ==
    ASSUME CauseInv, [CacheNext]_cacheVars
    PROVE  CauseInv'
<1>1. CacheInv'
  BY CacheInvStep DEF CauseInv
<1>2. ASSUME NEW b \in Builds, Killed(b) \/ LeaveFailed(b) \/ Publish(b)
      PROVE  CauseInv'
  BY <1>1, <1>2, CauseLeaves DEF Killed, LeaveFailed, Publish
<1>3. CASE Collect \/ (\E o \in Blobs : Prune(o)) \/ UNCHANGED cacheVars
  <2>1. /\ UNCHANGED <<status, raised, at, manifests, overlapped, cmdFailed>>
        /\ pruned => pruned'
    BY <1>3 DEF Collect, Prune, cacheVars, threadVars, storeVars, historyVars
  <2>2. \A b \in Builds : Undisturbed(b) => Undisturbed(b)'
    BY <2>1 DEF Undisturbed, Calm, Ready
  <2> QED
    BY <1>1, <2>1, <2>2 DEF CauseInv
<1> QED
  BY <1>1, <1>2, <1>3, CauseStart, CauseMain, CauseThread DEF CacheNext

LEMMA CauseInit ==
    ASSUME CacheInit
    PROVE  CauseInv
<1>1. CacheInv
  BY CacheInvInit
<1>2. /\ overlapped \in [Builds -> BOOLEAN] /\ cmdFailed \in [Builds -> BOOLEAN]
      /\ \A b \in Builds : status[b] = "off" /\ raised[b] = {}
  BY DEF CacheInit
<1> QED
  BY <1>1, <1>2 DEF CauseInv, Undisturbed, Calm

-----------------------------------------------------------------------------

LEMMA CauseHolds == CacheSpec => []CauseInv
<1>1. CacheInit => CauseInv
  BY CauseInit
<1>2. CauseInv /\ [CacheNext]_cacheVars => CauseInv'
  BY CauseStep
<1> QED
  BY <1>1, <1>2, PTL DEF CacheSpec

\* Types, and a thread has the lock of its node exactly from flock to close
\* (build:2816).
THEOREM CacheTyped == CacheSpec => []CacheTypeOK
<1>1. CauseInv => CacheTypeOK
  BY DEF CauseInv, CacheInv
<1> QED
  BY <1>1, CauseHolds, PTL

\* A manifest names only blobs that are there (build:3078).
THEOREM ManifestsBacked == CacheSpec => []ManifestBacked
<1>1. CauseInv => ManifestBacked
  BY DEF CauseInv, CacheInv
<1> QED
  BY <1>1, CauseHolds, PTL

\* A command sees the outputs of its deps and nothing else (build:2813-2826).
THEOREM CommandsHermetic == CacheSpec => []Hermetic
<1>1. CauseInv => Hermetic
  <2> SUFFICES ASSUME CauseInv, NEW b \in Builds, NEW u \in Uids, at[b][u] = "run"
               PROVE  /\ work[u] \subseteq Inputs(u)
                      /\ ~pruned => work[u] = Inputs(u)
                      /\ \A c \in Builds \ {b} : at[c][u] # "run"
    BY DEF Hermetic
  <2>1. CacheTypeOK /\ HasRestored(b, u)
    BY DEF CauseInv, CacheInv
  <2>2. "run" \in Locked
    BY DEF Locked
  <2>3. \A c \in Builds \ {b} : at[c][u] # "run"
    BY <2>1, <2>2, Sole
  <2> QED
    BY <2>1, <2>3 DEF HasRestored
<1> QED
  BY <1>1, CauseHolds, PTL

\* What has a manifest is not run again (build:2816).
THEOREM NoRunTwice == CacheSpec => []RunsOnlyMissing
<1>1. CauseInv => RunsOnlyMissing
  BY DEF CauseInv, CacheInv
<1> QED
  BY <1>1, CauseHolds, PTL

\* Only a build that is killed leaves a work directory behind (build:3187-3199).
THEOREM LeavesNothing == CacheSpec => []NothingLeftBehind
<1>1. CauseInv => NothingLeftBehind
  BY DEF CauseInv, CacheInv
<1> QED
  BY <1>1, CauseHolds, PTL

\* What a killed build leaves behind makes no later build fail (build:2798-2833).
THEOREM FailuresHaveCause == CacheSpec => []FailsForCause
<1>1. CauseInv => FailsForCause
  <2> SUFFICES ASSUME CauseInv, NEW b \in Builds, raised[b] # {} \/ status[b] = "unlink"
               PROVE  cmdFailed[b] \/ pruned \/ overlapped[b]
    BY DEF FailsForCause
  <2>1. Undisturbed(b) /\ status[b] # "off"
    BY DEF CauseInv
  <2> QED
    BY <2>1 DEF Undisturbed, Calm
<1> QED
  BY <1>1, CauseHolds, PTL

=============================================================================
