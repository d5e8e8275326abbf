---------------------------- MODULE LiveSchedule ----------------------------
(***************************************************************************)
(* The hub's schedule (live/schedule.go): (time, topic) pairs by the wall  *)
(* clock, and one timer of the runtime's, which runs by the monotonic      *)
(* clock, armed for the earliest.  What holds the hub's lock is one step;  *)
(* the runtime starts a fire before it has the lock, and a Reset may come  *)
(* between.  The counters a raise moves are LiveCounters'.                 *)
(***************************************************************************)
EXTENDS Integers, FiniteSets, FiniteSetsExt

CONSTANTS
    Topics,
    Moments,     \* bound: readings of the wall clock
    MaxPending,  \* pairs that wait
    MaxForward,  \* bound: how far the wall clock is set forward, in all
    MaxFires     \* bound: fires that wait for the lock at once

ASSUME ScheduleAssumption ==
    /\ Moments \subseteq Nat /\ 0 \in Moments /\ IsFiniteSet(Moments)
    /\ MaxPending \in Nat \ {0} /\ MaxForward \in Nat /\ MaxFires \in Nat \ {0}

VARIABLES
    wall,     \* the wall clock
    pending,  \* Hub.pending, and Hub.scheduled with it
    timer,    \* until the timer runs out, or Off
    firing,   \* fires that wait for the lock
    forward   \* history: how far the wall clock was set forward, in all

scheduleVars == <<wall, pending, timer, firing, forward>>

Off == -1

ScheduleTypeOK ==
    /\ wall \in Moments /\ pending \subseteq [at : Moments, topic : Topics]
    /\ timer \in Nat \cup {Off} /\ firing \in 0..MaxFires
    /\ forward \in 0..MaxForward

ScheduleInit ==
    /\ wall = 0 /\ pending = {} /\ timer = Off /\ firing = 0
    /\ forward = 0

Earliest(P) == Min({p.at : p \in P})
Latest(P) == Max({p.at : p \in P})
Wait(at) == IF at > wall THEN at - wall ELSE 0

\* A mutant of Armed: a timer that runs is left alone.
ArmedOnce(P) == IF P = {} THEN Off ELSE IF timer # Off THEN timer ELSE Wait(Earliest(P))

\* armLocked: the timer for the pairs P.
Armed(P) == IF P = {} THEN Off ELSE Wait(Earliest(P))

\* scheduleLocked: the pending pairs with one more, of which there may be one
\* too many; then one that is due last goes, the new one if it is.
Scheduled(p) ==
    IF p \in pending \/ Cardinality(pending) < MaxPending THEN {pending \cup {p}}
    ELSE IF p.at >= Latest(pending) THEN {pending}
    ELSE {(pending \ {q}) \cup {p} : q \in {r \in pending : r.at = Latest(pending)}}

\* A time that is not ahead is raised at once.
NotifyAt(at, t) ==
    /\ at > wall
    /\ \E P \in Scheduled([at |-> at, topic |-> t]) : pending' = P /\ timer' = Armed(P)
    /\ UNCHANGED <<wall, firing, forward>>

\* The runtime starts fire on a goroutine of its own.
TimerRunsOut ==
    /\ timer = 0 /\ firing < MaxFires
    /\ timer' = Off /\ firing' = firing + 1
    /\ UNCHANGED <<wall, pending, forward>>

\* fire: what is due is raised, and the timer armed again.
FireDue ==
    LET left == {p \in pending : p.at > wall} IN
    /\ firing > 0 /\ firing' = firing - 1
    /\ pending' = left /\ timer' = Armed(left)
    /\ UNCHANGED <<wall, forward>>

\* Both clocks go on.
Elapse ==
    /\ wall + 1 \in Moments
    /\ wall' = wall + 1
    /\ timer' = IF timer > 0 THEN timer - 1 ELSE timer
    /\ UNCHANGED <<pending, firing, forward>>

\* The wall clock is set.
SetWall(to) ==
    /\ wall' = to /\ to # wall
    /\ forward' = IF to > wall THEN forward + to - wall ELSE forward
    /\ forward' <= MaxForward
    /\ UNCHANGED <<pending, timer, firing>>

\* stopScheduleLocked.
StopSchedule ==
    /\ pending' = {} /\ timer' = Off
    /\ UNCHANGED <<wall, firing, forward>>

\* fire, on a closed hub.
FireClosed ==
    /\ firing > 0 /\ firing' = firing - 1
    /\ UNCHANGED <<wall, pending, timer, forward>>

ScheduleStep ==
    \/ \E at \in Moments, t \in Topics : NotifyAt(at, t)
    \/ TimerRunsOut \/ FireDue \/ Elapse
    \/ \E to \in Moments : SetWall(to)

-----------------------------------------------------------------------------
\* Whatever waits is raised no later than it is due and than the wall clock
\* has been set forward: a fire is on its way, or the timer runs out by then.
RaisedInTime ==
    pending # {} => \/ firing > 0
                    \/ timer # Off /\ timer <= Wait(Earliest(pending)) + forward
=============================================================================
