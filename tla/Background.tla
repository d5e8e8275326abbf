----------------------------- MODULE Background -----------------------------
(***************************************************************************)
(* background.Group: an app's background work, and the Stop that ends it  *)
(* (background/background.go).                                             *)
(*                                                                         *)
(* Each locked section of the Group is one step.  Between them run the Go *)
(* runtime, which fires a timer on a goroutine of its own before that     *)
(* goroutine has asked for the lock, and the two halves of Timer.Stop,    *)
(* which forgets the timer under the lock and disarms it after.  Work,    *)
(* Timers and Loops are one-shot: each is one call of Go, After or Loop.  *)
(***************************************************************************)
EXTENDS Integers, FiniteSets

CONSTANTS
    Work,      \* calls of Go
    Timers,    \* calls of After
    Loops,     \* calls of Loop
    Stoppers   \* callers of Group.Stop

Tasks == Work \cup Timers \cup Loops

ASSUME BackgroundAssumption ==
    /\ IsFiniteSet(Tasks)
    /\ Work \cap Timers = {} /\ Work \cap Loops = {} /\ Timers \cap Loops = {}

VARIABLES
    stopped,    \* Group.stopped, and Group.done closed with it
    held,       \* Group.timers
    wg,         \* the count of Group.wg
    task,       \* per task, how far it has come
    forgotten,  \* timers Timer.Stop has dropped and not yet disarmed
    stop        \* per stopper, where its call of Stop is

groupVars == <<stopped, held, wg, task, forgotten, stop>>

\* "armed": the runtime's timer has not fired.  "fired": its goroutine has
\* not had the lock yet.  "running": fn, or a pass of a loop.  "waiting": a
\* loop between passes.
Places == {"none", "armed", "fired", "running", "waiting", "over"}

\* A WaitGroup below zero panics.
GroupTypeOK ==
    /\ stopped \in BOOLEAN
    /\ held \subseteq Timers
    /\ wg \in Nat
    /\ task \in [Tasks -> Places]
    /\ forgotten \subseteq Timers
    /\ stop \in [Stoppers -> {"out", "waiting", "returned"}]

GroupInit ==
    /\ stopped = FALSE
    /\ held = {}
    /\ wg = 0
    /\ task = [x \in Tasks |-> "none"]
    /\ forgotten = {}
    /\ stop = [s \in Stoppers |-> "out"]

Running == {x \in Tasks : task[x] \in {"running", "waiting"}}

Become(x, place) == task' = [task EXCEPT ![x] = place]

-----------------------------------------------------------------------------

\* Go, and Loop by way of it, whose first pass runs at once.  A stopped
\* Group starts nothing.
Go(x) ==
    /\ x \in Work \cup Loops
    /\ task[x] = "none"
    /\ ~stopped
    /\ wg' = wg + 1
    /\ Become(x, "running")
    /\ UNCHANGED <<stopped, held, forgotten, stop>>

\* fn returns, or a loop leaves: the deferred wg.Done.
Finished(x) ==
    /\ wg' = wg - 1
    /\ Become(x, "over")
    /\ UNCHANGED <<stopped, held, forgotten, stop>>

Return(x) == x \notin Loops /\ task[x] = "running" /\ Finished(x)

\* A pass ends and the loop waits for its next tick.
PassEnds(l) ==
    /\ l \in Loops
    /\ task[l] = "running"
    /\ Become(l, "waiting")
    /\ UNCHANGED <<stopped, held, wg, forgotten, stop>>

\* The select's cases.  The ticker's may be ready beside the others, and is
\* then as likely: a tick is taken whether or not the Group has stopped.
NextPass(l) ==
    /\ l \in Loops
    /\ task[l] = "waiting"
    /\ Become(l, "running")
    /\ UNCHANGED <<stopped, held, wg, forgotten, stop>>

SeesDone(l) == l \in Loops /\ task[l] = "waiting" /\ stopped /\ Finished(l)

\* The loop's own context is cancelled.
SeesCancel(l) == l \in Loops /\ task[l] = "waiting" /\ Finished(l)

-----------------------------------------------------------------------------
(* Timers.                                                                 *)

After(t) ==
    /\ t \in Timers
    /\ task[t] = "none"
    /\ ~stopped
    /\ held' = held \cup {t}
    /\ Become(t, "armed")
    /\ UNCHANGED <<stopped, wg, forgotten, stop>>

\* The runtime fires the timer.
Fire(t) ==
    /\ t \in Timers
    /\ task[t] = "armed"
    /\ Become(t, "fired")
    /\ UNCHANGED <<stopped, held, wg, forgotten, stop>>

\* The callback has the lock: after Stop it does nothing.
Callback(t) ==
    /\ t \in Timers
    /\ task[t] = "fired"
    /\ held' = held \ {t}
    /\ IF stopped THEN Become(t, "over") /\ UNCHANGED wg
                  ELSE Become(t, "running") /\ wg' = wg + 1
    /\ UNCHANGED <<stopped, forgotten, stop>>

\* Timer.Stop drops the timer from the Group, then disarms it.
Forget(t) ==
    /\ t \in Timers
    /\ task[t] # "none"
    /\ held' = held \ {t}
    /\ forgotten' = forgotten \cup {t}
    /\ UNCHANGED <<stopped, wg, task, stop>>

Disarm(t) ==
    /\ t \in forgotten
    /\ forgotten' = forgotten \ {t}
    /\ task' = IF task[t] = "armed" THEN [task EXCEPT ![t] = "over"] ELSE task
    /\ UNCHANGED <<stopped, held, wg, stop>>

-----------------------------------------------------------------------------

\* Stop, under the lock: the first disarms what is held, and every caller
\* then waits.
Stop(s) ==
    /\ stop[s] = "out"
    /\ stop' = [stop EXCEPT ![s] = "waiting"]
    /\ stopped' = TRUE
    /\ task' = IF stopped THEN task
               ELSE [x \in Tasks |-> IF x \in held /\ task[x] = "armed" THEN "over" ELSE task[x]]
    /\ held' = IF stopped THEN held ELSE {}
    /\ UNCHANGED <<wg, forgotten>>

\* Mutant: Stop gives up waiting.
StopAbandons(s) ==
    /\ stop[s] = "waiting"
    /\ stop' = [stop EXCEPT ![s] = "returned"]
    /\ UNCHANGED <<stopped, held, wg, task, forgotten>>

\* wg.Wait returns.
StopReturns(s) ==
    /\ stop[s] = "waiting"
    /\ wg = 0
    /\ stop' = [stop EXCEPT ![s] = "returned"]
    /\ UNCHANGED <<stopped, held, wg, task, forgotten>>

\* What the Group, and the work it runs, does without being asked.
TaskStep(x) ==
    \/ Return(x) \/ PassEnds(x) \/ NextPass(x) \/ SeesDone(x) \/ SeesCancel(x)
    \/ Fire(x) \/ Callback(x)

GroupNext ==
    \/ \E x \in Tasks : Go(x) \/ After(x) \/ Forget(x) \/ Disarm(x) \/ TaskStep(x)
    \/ \E s \in Stoppers : Stop(s) \/ StopReturns(s)

-----------------------------------------------------------------------------

\* The WaitGroup counts exactly the work that runs, whichever of Stop, a
\* firing timer and a finishing goroutine has the lock first (Go, After).
CountsRunning == wg = Cardinality(Running)

\* Once a Stop has returned, nothing runs any more: the caller may close
\* what the work uses (Stop).
StopOutlastsWork == (\E s \in Stoppers : stop[s] = "returned") => Running = {}

\* A stopped Group starts nothing: not a late request's Go, not a timer
\* that fired as Stop disarmed it, nor one Timer.Stop had half stopped.
NothingStartsLate == [][stopped => Running' \subseteq Running]_groupVars

=============================================================================
