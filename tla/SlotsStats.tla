----------------------------- MODULE SlotsStats -----------------------------
(***************************************************************************)
(* The slotsStats thread beside the threads of Striping: one reading of    *)
(* the clock, one relaxed load of lastSeen per slot, one line on stderr.   *)
(* It writes nothing the other threads read.                               *)
(***************************************************************************)
EXTENDS Striping

VARIABLES
    stPc,
    stNow,      \* `now` of the line being built
    stAt,       \* `i` of the loop over the slots
    stDead      \* the slots the line shows with alive = 0, deadCount of them

stVars == <<stPc, stNow, stAt, stDead>>
allVars == <<vars, stVars>>

StatsInit ==
    /\ Init
    /\ stPc = "now" /\ stNow = StartMs /\ stAt = 0 /\ stDead = {}

StatsNow ==
    /\ stPc = "now"
    /\ stNow' = clock
    /\ stPc' = "slots"
    /\ UNCHANGED <<vars, stAt, stDead>>

\* Fault: the clock is read again for every slot, not once for the line.
StatsSlotFreshNow ==
    /\ stPc = "slots"
    /\ stNow' = clock
    /\ stDead' = IF Alive(clock, lastSeen[stAt]) THEN stDead ELSE stDead \cup {stAt}
    /\ stAt' = stAt + 1
    /\ stPc' = IF stAt + 1 = N THEN "print" ELSE "slots"
    /\ UNCHANGED vars

StatsSlot ==
    /\ stPc = "slots"
    /\ stDead' = IF Alive(stNow, lastSeen[stAt]) THEN stDead ELSE stDead \cup {stAt}
    /\ stAt' = stAt + 1
    /\ stPc' = IF stAt + 1 = N THEN "print" ELSE "slots"
    /\ UNCHANGED <<vars, stNow>>

\* The line is written and the thread sleeps; its locals go out of scope.
StatsPrint ==
    /\ stPc = "print"
    /\ stPc' = "now"
    /\ stNow' = StartMs /\ stAt' = 0 /\ stDead' = {}
    /\ UNCHANGED vars

StatsThread == StatsNow \/ StatsSlot \/ StatsPrint

StatsNext == (Next /\ UNCHANGED stVars) \/ StatsThread

StatsSpec == StatsInit /\ [][StatsNext]_allVars

StatsFairSpec == StatsSpec /\ TxFairness

-----------------------------------------------------------------------------
(* Properties.                                                             *)

(* The line slotsStats prints: a slot shown alive was heard from within    *)
(* timeoutMs of the time of the line; a slot shown dead was silent at some *)
(* time or has been stamped after the time of the line (now - ls wraps).   *)
StatsExplained ==
    stPc = "print" =>
        \A s \in Slots :
            IF s \in stDead THEN s \in everSilent \/ lastSeen[s] > stNow
            ELSE lastSeen[s] + Timeout >= stNow

=============================================================================
