---------------------------- MODULE ResultCache ----------------------------
(***************************************************************************)
(* The cache of the build tool, shared by builds that run at the same time *)
(* and by builds that come after one that was killed: blobs (cas), a       *)
(* manifest for each node that has run (uid), the work directories with    *)
(* their locks (tmp), and the directory that discarded work directories    *)
(* are moved to (grb).                                                     *)
(*                                                                         *)
(* A thread of a build looks after a node (_execute).  Commands give the   *)
(* same outputs each time, and an output is named by its digest.  Nodes    *)
(* that run on a host are the business of DistHost, --keep-going and the   *)
(* slots that of BuildSched.                                               *)
(***************************************************************************)
EXTENDS Integers, FiniteSets

CONSTANTS
    Builds,     \* processes
    Uids,       \* nodes, by uid
    DepsOf,     \* uid -> the uids it depends on
    OutputsOf,  \* uid -> digests of its outputs
    Targets,    \* the nodes that are asked for
    NoBuild,    \* holds a lock that is free
    NoDir       \* a work directory that is not there

Blobs == UNION {OutputsOf[u] : u \in Uids}

ASSUME CacheAssumption ==
    /\ DepsOf \in [Uids -> SUBSET Uids]
    /\ DOMAIN OutputsOf = Uids
    /\ Targets \subseteq Uids
    /\ NoBuild \notin Builds /\ \A B \in SUBSET Blobs : NoDir # B

VARIABLES
    status,     \* of a build: "off", "up", "failed" (threads still run),
                \* "unlink" (a target has no manifest)
    raised,     \* nodes of a build whose thread has raised
    at,         \* the next step of the thread of a node
    todo,       \* deps it has to restore, or outputs it has to store
    holder,     \* of the flock of a uid
    work,       \* files in the work directory of a uid, by digest
    cas,        \* blobs
    manifests,  \* uids that have a manifest
    grb,        \* the directory of discarded ones is there
    pruned,     \* history: somebody has removed a blob
    orphaned,   \* history: uids whose holder was killed, while the directory stays
    overlapped, \* history: another build was up at the same time
    cmdFailed   \* history: a command of the build has failed

threadVars == <<raised, at, todo>>
dirVars == <<holder, work, grb>>
storeVars == <<cas, manifests>>
historyVars == <<pruned, orphaned, overlapped, cmdFailed>>
cacheVars == <<status, threadVars, dirVars, storeVars, historyVars>>

Inputs(u) == UNION {OutputsOf[d] : d \in DepsOf[u]}

CacheInit ==
    /\ status = [b \in Builds |-> "off"]
    /\ raised = [b \in Builds |-> {}]
    /\ at = [b \in Builds |-> [u \in Uids |-> "wait"]]
    /\ todo = [b \in Builds |-> [u \in Uids |-> {}]]
    /\ holder = [u \in Uids |-> NoBuild]
    /\ work = [u \in Uids |-> NoDir]
    /\ cas = {} /\ manifests = {}
    /\ grb = FALSE
    /\ pruned = FALSE /\ orphaned = {}
    /\ overlapped = [b \in Builds |-> FALSE]
    /\ cmdFailed = [b \in Builds |-> FALSE]

Goes(b, u, step) == at' = [at EXCEPT ![b][u] = step]

\* The thread raises: _execute discards the directory on its way out.
Raises(b, u) ==
    /\ raised' = [raised EXCEPT ![b] = @ \cup {u}]
    /\ Goes(b, u, "discard")

-----------------------------------------------------------------------------
(* Builds.                                                                 *)

Up(b) == status[b] # "off"

Start(b) ==
    /\ ~Up(b)
    /\ status' = [status EXCEPT ![b] = "up"]
    /\ at' = [at EXCEPT ![b] = [u \in Uids |-> "scan"]]
    /\ overlapped' = [c \in Builds |-> IF c = b THEN \E d \in Builds : Up(d)
                                       ELSE overlapped[c] \/ Up(c)]
    /\ cmdFailed' = [cmdFailed EXCEPT ![b] = FALSE]
    /\ UNCHANGED <<raised, todo, dirVars, storeVars, pruned, orphaned>>

Idle(b) == \A u \in Uids : at[b][u] \in {"wait", "done"}

\* The process is gone: its locks are free.
Leaves(b) ==
    /\ status' = [status EXCEPT ![b] = "off"]
    /\ raised' = [raised EXCEPT ![b] = {}]
    /\ at' = [at EXCEPT ![b] = [u \in Uids |-> "wait"]]
    /\ todo' = [todo EXCEPT ![b] = [u \in Uids |-> {}]]
    /\ holder' = [u \in Uids |-> IF holder[u] = b THEN NoBuild ELSE holder[u]]
    /\ overlapped' = [overlapped EXCEPT ![b] = FALSE]
    /\ cmdFailed' = [cmdFailed EXCEPT ![b] = FALSE]
    /\ UNCHANGED <<work, grb, storeVars, pruned>>

\* The process group is killed at any time.
Killed(b) ==
    /\ Up(b) /\ Leaves(b)
    /\ orphaned' = orphaned \cup {u \in Uids : holder[u] = b /\ work[u] # NoDir}

\* _run sees the result of a thread that has raised, and raises.
SeesFailure(b) ==
    /\ status[b] = "up"
    /\ \E u \in raised[b] : at[b][u] = "done"
    /\ status' = [status EXCEPT ![b] = "failed"]
    /\ UNCHANGED <<threadVars, dirVars, storeVars, historyVars>>

\* Threads that run finish first.
LeaveFailed(b) == status[b] = "failed" /\ Idle(b) /\ Leaves(b) /\ UNCHANGED orphaned

Publishing(b) ==
    status[b] = "up" /\ raised[b] = {} /\ \A u \in Uids : at[b][u] = "done"

\* The targets are linked into the build directory.
Publish(b) ==
    Publishing(b) /\ Targets \subseteq manifests /\ Leaves(b) /\ UNCHANGED orphaned

\* _restore cannot read the manifest of a target.
PublishFails(b) ==
    /\ Publishing(b)
    /\ \E u \in Targets \ manifests : todo' = [todo EXCEPT ![b][u] = {u}]
    /\ status' = [status EXCEPT ![b] = "unlink"]
    /\ UNCHANGED <<raised, at, dirVars, storeVars, historyVars>>

\* It raises, and unlinks the path whatever is there by now.
PublishUnlinks(b) ==
    /\ status[b] = "unlink"
    /\ manifests' = manifests \ {u \in Uids : todo[b][u] # {}}
    /\ status' = [status EXCEPT ![b] = "failed"]
    /\ UNCHANGED <<threadVars, dirVars, cas, historyVars>>

-----------------------------------------------------------------------------
(* _cached.                                                                *)

\* Where each of the callers goes with the answer: _run, which looks at every
\* node first; _execute; _execute under the lock.
Askers == {"scan", "enter", "recheck"}
Hit(s) == CASE s = "scan" -> "wait" [] s = "enter" -> "done" [] s = "recheck" -> "discard"
Miss(s) == CASE s = "scan" -> "wait" [] s = "enter" -> "lock" [] s = "recheck" -> "clear"
Unlinking(s) ==
    CASE s = "scan" -> "scanUnlink" [] s = "enter" -> "enterUnlink"
      [] s = "recheck" -> "recheckUnlink"

\* There is a manifest and all its blobs are files.
Backed(u) == u \in manifests /\ OutputsOf[u] \subseteq cas

Look(b, u) ==
    /\ at[b][u] \in Askers
    /\ at[b][u] = "scan" => \A v \in Uids : at[b][v] # Unlinking("scan")
    /\ LET s == at[b][u]
       IN  Goes(b, u, IF Backed(u) THEN Hit(s) ELSE Unlinking(s))
    /\ UNCHANGED <<status, raised, todo, dirVars, storeVars, historyVars>>

\* What was read was no manifest with all its blobs; the path is unlinked
\* whatever is there by now.
Unlink(b, u) ==
    /\ \E s \in Askers : at[b][u] = Unlinking(s) /\ Goes(b, u, Miss(s))
    /\ manifests' = manifests \ {u}
    /\ UNCHANGED <<status, raised, todo, dirVars, cas, historyVars>>

-----------------------------------------------------------------------------
(* _execute.                                                               *)

\* Fault: a node is ready when its deps have been given out.
ReadyEarly(b, u) == \A d \in DepsOf[u] : at[b][d] # "wait" /\ d \notin raised[b]

\* A node is ready when its deps have run or were there.
Ready(b, u) == \A d \in DepsOf[u] : at[b][d] = "done" /\ d \notin raised[b]

Execute(b, u) ==
    /\ status[b] = "up" /\ at[b][u] = "wait" /\ Ready(b, u)
    /\ \A v \in Uids : at[b][v] \notin {"scan", Unlinking("scan")}
    /\ Goes(b, u, "enter")
    /\ UNCHANGED <<status, raised, todo, dirVars, storeVars, historyVars>>

\* Fault: the lock is a shared one.
SharedLock(u) == TRUE

\* flock with LOCK_EX returns.
Free(u) == holder[u] = NoBuild

\* Fault: the miss of before counts.
NoRecheck == "clear"

\* Under the lock the cache is asked again.
Recheck == "recheck"

Lock(b, u) ==
    /\ at[b][u] = "lock" /\ Free(u)
    /\ holder' = [holder EXCEPT ![u] = b]
    /\ work' = [work EXCEPT ![u] = IF @ = NoDir THEN {} ELSE @]
    /\ Goes(b, u, Recheck)
    /\ UNCHANGED <<status, raised, todo, grb, storeVars, historyVars>>

\* Fault: what is in the directory stays there.
EmptiedNot(u) == work[u]

\* _remove_contents: what a killed build has left goes.
Emptied(u) == {}

Clear(b, u) ==
    /\ at[b][u] = "clear"
    /\ work' = [work EXCEPT ![u] = Emptied(u)]
    /\ todo' = [todo EXCEPT ![b][u] = DepsOf[u]]
    /\ Goes(b, u, "restore")
    /\ UNCHANGED <<status, raised, holder, grb, storeVars, historyVars>>

\* _restore of a dep: a blob that is missing leaves a dangling link.
Restore(b, u, d) ==
    /\ at[b][u] = "restore" /\ d \in todo[b][u] /\ d \in manifests
    /\ work' = [work EXCEPT ![u] = @ \cup (OutputsOf[d] \cap cas)]
    /\ todo' = [todo EXCEPT ![b][u] = @ \ {d}]
    /\ UNCHANGED <<status, raised, at, holder, grb, storeVars, historyVars>>

RestoreFails(b, u, d) ==
    /\ at[b][u] = "restore" /\ d \in todo[b][u] /\ d \notin manifests
    /\ todo' = [todo EXCEPT ![b][u] = {d}]
    /\ Goes(b, u, "restoreUnlink")
    /\ UNCHANGED <<status, raised, dirVars, storeVars, historyVars>>

RestoreUnlinks(b, u) ==
    /\ at[b][u] = "restoreUnlink"
    /\ manifests' = manifests \ todo[b][u]
    /\ Raises(b, u)
    /\ UNCHANGED <<status, todo, dirVars, cas, historyVars>>

RunCommand(b, u) ==
    /\ at[b][u] = "restore" /\ todo[b][u] = {}
    /\ Goes(b, u, "run")
    /\ UNCHANGED <<status, raised, todo, dirVars, storeVars, historyVars>>

CommandEnds(b, u) ==
    /\ at[b][u] = "run" /\ Inputs(u) \subseteq work[u]
    /\ work' = [work EXCEPT ![u] = @ \cup OutputsOf[u]]
    /\ todo' = [todo EXCEPT ![b][u] = OutputsOf[u]]
    /\ Goes(b, u, "store")
    /\ UNCHANGED <<status, raised, holder, grb, storeVars, historyVars>>

\* A command fails; it always does without its inputs.
CommandFails(b, u) ==
    /\ at[b][u] = "run"
    /\ cmdFailed' = [cmdFailed EXCEPT ![b] = @ \/ Inputs(u) \subseteq work[u]]
    /\ Raises(b, u)
    /\ UNCHANGED <<status, todo, dirVars, storeVars, pruned, orphaned, overlapped>>

\* _store_path of an output: a link, for a blob that is not there yet.
StoreBlob(b, u, o) ==
    /\ at[b][u] = "store" /\ o \in todo[b][u] /\ o \in work[u]
    /\ cas' = cas \cup {o}
    /\ todo' = [todo EXCEPT ![b][u] = @ \ {o}]
    /\ UNCHANGED <<status, raised, at, dirVars, manifests, historyVars>>

\* Fault: the manifest may come before its blobs.
AllStoredAnyway(b, u) == TRUE

AllStored(b, u) == todo[b][u] = {}

\* A new file, renamed over what is there.
WriteManifest(b, u) ==
    /\ at[b][u] = "store" /\ AllStored(b, u)
    /\ manifests' = manifests \cup {u}
    /\ Goes(b, u, "discard")
    /\ UNCHANGED <<status, raised, todo, dirVars, cas, historyVars>>

-----------------------------------------------------------------------------
(* Garbage.                                                                *)

\* _discard_contents makes the directory to move to.
MakeGrb(b, u) ==
    /\ at[b][u] = "discard"
    /\ grb' = TRUE
    /\ Goes(b, u, "rename")
    /\ UNCHANGED <<status, raised, todo, holder, work, storeVars, historyVars>>

\* Fault: the rename is tried once.
GiveUp == "leave"

\* It goes round again.
Again == "discard"

\* A collector was faster.
RenameFails(b, u) ==
    /\ at[b][u] = "rename" /\ ~grb
    /\ Goes(b, u, Again)
    /\ UNCHANGED <<status, raised, todo, dirVars, storeVars, historyVars>>

Rename(b, u) ==
    /\ at[b][u] = "rename" /\ grb
    /\ work' = [work EXCEPT ![u] = NoDir]
    /\ orphaned' = orphaned \ {u}
    /\ Goes(b, u, "leave")
    /\ UNCHANGED <<status, raised, todo, holder, grb, storeVars, pruned, overlapped, cmdFailed>>

\* The lock file is closed.
Leave(b, u) ==
    /\ at[b][u] = "leave"
    /\ holder' = [holder EXCEPT ![u] = NoBuild]
    /\ todo' = [todo EXCEPT ![b][u] = {}]
    /\ Goes(b, u, "done")
    /\ UNCHANGED <<status, raised, work, grb, storeVars, historyVars>>

\* rm -rf of a collector, one of any build (garbage_lock is for the threads of
\* a build) or one that has outlived its build, is through.
Collect ==
    /\ grb
    /\ grb' = FALSE
    /\ UNCHANGED <<status, threadVars, holder, work, storeVars, historyVars>>

\* Somebody makes room on the disk.
Prune(o) ==
    /\ o \in cas
    /\ cas' = cas \ {o}
    /\ pruned' = TRUE
    /\ UNCHANGED <<status, threadVars, dirVars, manifests, orphaned, overlapped, cmdFailed>>

-----------------------------------------------------------------------------

Thread(b, u) ==
    \/ Look(b, u) \/ Unlink(b, u)
    \/ Execute(b, u) \/ Lock(b, u) \/ Clear(b, u)
    \/ \E d \in Uids : Restore(b, u, d) \/ RestoreFails(b, u, d)
    \/ RestoreUnlinks(b, u)
    \/ RunCommand(b, u) \/ CommandEnds(b, u) \/ CommandFails(b, u)
    \/ \E o \in Blobs : StoreBlob(b, u, o)
    \/ WriteManifest(b, u)
    \/ MakeGrb(b, u) \/ RenameFails(b, u) \/ Rename(b, u) \/ Leave(b, u)

CacheNext ==
    \/ \E b \in Builds :
         \/ Start(b) \/ Killed(b) \/ SeesFailure(b) \/ LeaveFailed(b)
         \/ Publish(b) \/ PublishFails(b) \/ PublishUnlinks(b)
         \/ \E u \in Uids : Thread(b, u)
    \/ Collect
    \/ \E o \in Blobs : Prune(o)

CacheSpec == CacheInit /\ [][CacheNext]_cacheVars

-----------------------------------------------------------------------------
(* Properties.                                                             *)

Locked == {"recheck", "recheckUnlink", "clear", "restore", "restoreUnlink", "run", "store",
           "discard", "rename", "leave"}
Steps == Locked \cup {"wait", "done", "lock", "scan", "scanUnlink", "enter", "enterUnlink"}

\* A thread inside _execute has the lock of its node, alone.
LockHeld == \A b \in Builds, u \in Uids : at[b][u] \in Locked <=> holder[u] = b

\* Types, and LockHeld (build:2816).
CacheTypeOK ==
    /\ status \in [Builds -> {"off", "up", "failed", "unlink"}]
    /\ raised \in [Builds -> SUBSET Uids]
    /\ at \in [Builds -> [Uids -> Steps]]
    /\ todo \in [Builds -> [Uids -> SUBSET (Uids \cup Blobs)]]
    /\ holder \in [Uids -> Builds \cup {NoBuild}]
    /\ work \in [Uids -> (SUBSET Blobs) \cup {NoDir}]
    /\ cas \subseteq Blobs /\ manifests \subseteq Uids
    /\ grb \in BOOLEAN
    /\ LockHeld

\* A manifest names only blobs that are there, whichever builds write and unlink
\* it and wherever one is killed, until somebody removes a blob (build:3078).
ManifestBacked == ~pruned => \A u \in manifests : OutputsOf[u] \subseteq cas

\* A command runs in a directory of its own with the outputs of its deps and
\* nothing else: nothing of a killed build, nothing of one that looks after the
\* same node (build:2813-2826).
Hermetic ==
    \A b \in Builds, u \in Uids : at[b][u] = "run" =>
        /\ work[u] \subseteq Inputs(u)
        /\ ~pruned => work[u] = Inputs(u)
        /\ \A c \in Builds \ {b} : at[c][u] # "run"

\* Work is not done twice: when a node runs there is no manifest of it, also
\* when another build has run it while this one waited for the lock (build:2816).
RunsOnlyMissing ==
    \A b \in Builds, u \in Uids :
        at[b][u] \in {"clear", "restore", "restoreUnlink", "run", "store"} => u \notin manifests

\* A build that was not killed leaves no work directory behind, however the
\* command ended and whatever collectors remove at the same time (build:3187-3199).
NothingLeftBehind ==
    \A u \in Uids : holder[u] = NoBuild /\ work[u] # NoDir => u \in orphaned

\* A build fails only by a command that fails, by a blob that somebody removed,
\* or by a build that runs at the same time: what a killed build leaves behind is
\* never in the way (build:2798-2833).
FailsForCause ==
    \A b \in Builds :
        raised[b] # {} \/ status[b] = "unlink" => cmdFailed[b] \/ pruned \/ overlapped[b]

=============================================================================
