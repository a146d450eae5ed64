----------------------------- MODULE MCBuildTool -----------------------------
(***************************************************************************)
(* Small instances of the scheduler of the build tool and of its cache,    *)
(* side by side: a behaviour is one of a build that hands out nodes, or    *)
(* one of two builds that share a cache, where a program depends on a      *)
(* library.  One output of the program has the contents of the library's,  *)
(* so that the two share a blob.                                           *)
(***************************************************************************)
EXTENDS MCBuildSched, ResultCache

MCUids == {"lib", "prog"}
MCDepsOf == [u \in MCUids |-> IF u = "lib" THEN {} ELSE {"lib"}]
MCOutputsOf == [u \in MCUids |-> IF u = "lib" THEN {"o1"} ELSE {"o1", "o2"}]

VARIABLE side

MCInit ==
    /\ side \in {"sched", "cache"} /\ Init /\ CacheInit
    /\ side = "cache" => ~keepGoing

Sched(A) == side = "sched" /\ A /\ UNCHANGED <<side, cacheVars>>

MCNext ==
    \/ Sched(Next)
    \/ side = "cache" /\ CacheNext /\ UNCHANGED <<side, vars>>

\* The fairness of BuildSched!FairSpec.
MCSpec ==
    /\ MCInit /\ [][MCNext]_<<side, vars, cacheVars>>
    /\ WF_vars(Sched(Main))
    /\ \A n \in Nodes : WF_vars(Sched(\E f \in running : f.n = n /\ Finish(f)))

\* The build ends, also with hosts that come and go: no order of results,
\* requeues and lost hosts leaves it waiting (build:2703-2757), and no step takes
\* it further from its end.
BuildEnds == (side = "sched" => SchedEnds) /\ WorkGoesDown

=============================================================================
