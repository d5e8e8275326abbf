----------------------------- MODULE ServeProofs -----------------------------
(***************************************************************************)
(* Serve and its Background Group, for any number of pieces of work,      *)
(* timers, loops, requests and callers of Stop: the WaitGroup counts what *)
(* runs, Stop outlasts it and starts nothing, and the database outlives it.*)
(* At the end Process: its schedule, and that what is proved of Serve      *)
(* holds of it.                                                            *)
(***************************************************************************)
EXTENDS Process, FiniteSetTheorems, WellFoundedInduction, TLAPS

\* A step does one of three things to what runs, and no step undoes a Stop.
\* The proofs about the count need no more of the Group than this.
Kept == Running' = Running /\ wg' = wg /\ (stopped => stopped')

Entered(x) ==
    /\ x \in Tasks \ Running
    /\ ~stopped /\ ~stopped'
    /\ Running' = Running \cup {x}
    /\ wg' = wg + 1

Left(x) ==
    /\ x \in Running
    /\ stopped' = stopped
    /\ Running' = Running \ {x}
    /\ wg' = wg - 1

Effect == Kept \/ \E x \in Tasks : Entered(x) \/ Left(x)

\* A Stop that has begun has stopped the Group, and one that has returned
\* saw the count at zero; nothing has started since, so it is zero still.
StopInv ==
    \A s \in Stoppers :
        /\ stop[s] # "out" => stopped
        /\ stop[s] = "returned" => Running = {}

\* GroupTypeOK without the count, whose type rests on what it counts.
Shape ==
    /\ stopped \in BOOLEAN
    /\ held \subseteq Timers
    /\ task \in [Tasks -> Places]
    /\ forgotten \subseteq Timers
    /\ stop \in [Stoppers -> {"out", "waiting", "returned"}]

GroupInv == GroupTypeOK /\ CountsRunning /\ StopInv

MainInv == ~DatabaseOpen => stop[Main] = "returned"

ServeInv == ServeTypeOK /\ GroupInv /\ MainInv

-----------------------------------------------------------------------------

LEMMA RunningFinite == IsFiniteSet(Running) /\ Cardinality(Running) \in Nat
<1>1. Running \subseteq Tasks
  BY DEF Running
<1> QED
  BY <1>1, BackgroundAssumption, FS_Subset, FS_CardinalityType

\* Moving one task moves the set of running tasks by that task at most.
LEMMA MoveTask ==
    ASSUME Shape, NEW x \in Tasks, NEW place \in Places, Become(x, place)
    PROVE  /\ task' \in [Tasks -> Places]
           /\ Running' = IF place \in {"running", "waiting"} THEN Running \cup {x}
                                                             ELSE Running \ {x}
BY DEF Shape, Become, Running

\* The steps of one task.
LEMMA TaskEffect ==
    ASSUME Shape, wg \in Nat, NEW x \in Tasks,
           Go(x) \/ After(x) \/ Forget(x) \/ Disarm(x) \/ TaskStep(x)
    PROVE  Shape' /\ Effect /\ stop' = stop
<1> USE DEF Effect
<1> "running" \in Places /\ "waiting" \in Places /\ "over" \in Places
      /\ "armed" \in Places /\ "fired" \in Places
  BY DEF Places
<1>1. CASE Go(x)
  <2>1. Become(x, "running") /\ task[x] = "none"
    BY <1>1 DEF Go
  <2>2. Running' = Running \cup {x} /\ task' \in [Tasks -> Places] /\ x \notin Running
    BY <2>1, MoveTask DEF Running
  <2> QED
    BY <1>1, <2>2 DEF Go, Shape, Entered
<1>2. CASE After(x)
  <2>1. Become(x, "armed") /\ task[x] = "none"
    BY <1>2 DEF After
  <2>2. Running' = Running /\ task' \in [Tasks -> Places]
    BY <2>1, MoveTask DEF Running
  <2> QED
    BY <1>2, <2>2 DEF After, Shape, Kept
<1>3. CASE Forget(x)
  BY <1>3 DEF Forget, Shape, Kept, Running
<1>4. CASE Disarm(x)
  <2>1. CASE task[x] = "armed"
    <3>1. Become(x, "over")
      BY <1>4, <2>1 DEF Disarm, Become
    <3>2. Running' = Running /\ task' \in [Tasks -> Places]
      BY <2>1, <3>1, MoveTask DEF Running
    <3> QED
      BY <1>4, <3>2 DEF Disarm, Shape, Kept
  <2>2. CASE task[x] # "armed"
    BY <1>4, <2>2 DEF Disarm, Shape, Kept, Running
  <2> QED
    BY <2>1, <2>2
<1>5. CASE Return(x) \/ SeesDone(x) \/ SeesCancel(x)
  <2>1. Become(x, "over") /\ x \in Running /\ Finished(x)
    BY <1>5 DEF Return, SeesDone, SeesCancel, Finished, Running
  <2>2. Running' = Running \ {x} /\ task' \in [Tasks -> Places]
    BY <2>1, MoveTask
  <2> QED
    BY <2>1, <2>2 DEF Finished, Shape, Left
<1>6. CASE PassEnds(x) \/ NextPass(x)
  <2>1. x \in Running /\ (Become(x, "waiting") \/ Become(x, "running"))
    BY <1>6 DEF PassEnds, NextPass, Running
  <2>2. Running' = Running /\ task' \in [Tasks -> Places]
    BY <2>1, MoveTask
  <2> QED
    BY <1>6, <2>2 DEF PassEnds, NextPass, Shape, Kept
<1>7. CASE Fire(x)
  <2>1. Become(x, "fired") /\ task[x] = "armed"
    BY <1>7 DEF Fire
  <2>2. Running' = Running /\ task' \in [Tasks -> Places]
    BY <2>1, MoveTask DEF Running
  <2> QED
    BY <1>7, <2>2 DEF Fire, Shape, Kept
<1>8. CASE Callback(x)
  <2>1. x \notin Running
    BY <1>8 DEF Callback, Running
  <2>2. CASE stopped
    <3>1. Become(x, "over")
      BY <1>8, <2>2 DEF Callback
    <3>2. Running' = Running /\ task' \in [Tasks -> Places]
      BY <2>1, <3>1, MoveTask
    <3> QED
      BY <1>8, <2>2, <3>2 DEF Callback, Shape, Kept
  <2>3. CASE ~stopped
    <3>1. Become(x, "running")
      BY <1>8, <2>3 DEF Callback
    <3>2. Running' = Running \cup {x} /\ task' \in [Tasks -> Places]
      BY <3>1, MoveTask
    <3> QED
      BY <1>8, <2>1, <2>3, <3>2 DEF Callback, Shape, Entered
  <2> QED
    BY <2>2, <2>3
<1> QED
  BY <1>1, <1>2, <1>3, <1>4, <1>5, <1>6, <1>7, <1>8 DEF TaskStep

\* The steps of one caller of Stop.
LEMMA StopEffect ==
    ASSUME Shape, wg \in Nat, NEW s \in Stoppers, Stop(s)
    PROVE  Shape' /\ Kept /\ stopped' /\ stop' = [stop EXCEPT ![s] = "waiting"]
<1>1. task' \in [Tasks -> Places] /\ Running' = Running
  BY DEF Stop, Shape, Running, Places
<1> QED
  BY <1>1 DEF Stop, Shape, Kept

LEMMA StopReturnsEffect ==
    ASSUME Shape, wg \in Nat, NEW s \in Stoppers, StopReturns(s)
    PROVE  Shape' /\ Kept /\ stopped' = stopped /\ stop' = [stop EXCEPT ![s] = "returned"]
BY DEF StopReturns, Shape, Kept, Running

\* Whatever a step does to what runs, the WaitGroup counts it.
LEMMA CountStep ==
    ASSUME CountsRunning, wg \in Nat, Effect
    PROVE  CountsRunning' /\ wg' \in Nat
<1>1. CASE Kept
  BY <1>1 DEF Kept, CountsRunning
<1>2. ASSUME NEW x \in Tasks, Entered(x)
      PROVE  CountsRunning' /\ wg' \in Nat
  BY <1>2, RunningFinite, FS_AddElement DEF Entered, CountsRunning
<1>3. ASSUME NEW x \in Tasks, Left(x)
      PROVE  CountsRunning' /\ wg' \in Nat
  <2>1. Cardinality(Running \ {x}) = Cardinality(Running) - 1
    BY <1>3, RunningFinite, FS_RemoveElement DEF Left
  <2>2. Cardinality(Running \ {x}) \in Nat
    BY RunningFinite, FS_Subset, FS_CardinalityType
  <2> QED
    BY <1>3, <2>1, <2>2 DEF Left, CountsRunning
<1> QED
  BY <1>1, <1>2, <1>3 DEF Effect

\* A stopped Group's running tasks only ever become fewer.
LEMMA EffectShrinks ==
    ASSUME Effect, stopped
    PROVE  Running' \subseteq Running /\ stopped'
BY DEF Effect, Kept, Entered, Left

-----------------------------------------------------------------------------

\* Every step of the Group, whoever takes it.
LEMMA GroupPreserved ==
    ASSUME GroupInv, GroupNext
    PROVE  GroupInv' /\ Effect /\ (\A s \in Stoppers : stop[s] = "returned" => stop'[s] = "returned")
<1> Shape /\ wg \in Nat /\ CountsRunning /\ StopInv
  BY DEF GroupInv, GroupTypeOK, Shape
<1>1. ASSUME NEW x \in Tasks, Go(x) \/ After(x) \/ Forget(x) \/ Disarm(x) \/ TaskStep(x)
      PROVE  GroupInv' /\ Effect /\ (\A s \in Stoppers : stop[s] = "returned" => stop'[s] = "returned")
  <2>1. Shape' /\ Effect /\ stop' = stop
    BY <1>1, TaskEffect
  <2>2. CountsRunning' /\ wg' \in Nat
    BY <2>1, CountStep
  <2>3. StopInv'
    BY <2>1, EffectShrinks DEF StopInv
  <2> QED
    BY <2>1, <2>2, <2>3 DEF GroupInv, GroupTypeOK, Shape
<1>2. ASSUME NEW s \in Stoppers, Stop(s)
      PROVE  GroupInv' /\ Effect /\ (\A u \in Stoppers : stop[u] = "returned" => stop'[u] = "returned")
  <2>1. Shape' /\ Kept /\ stopped' /\ stop' = [stop EXCEPT ![s] = "waiting"] /\ stop[s] = "out"
    BY <1>2, StopEffect DEF Stop
  <2>2. CountsRunning' /\ wg' \in Nat
    BY <2>1, CountStep DEF Effect
  <2>3. StopInv'
    BY <2>1 DEF StopInv, Kept, Shape
  <2> QED
    BY <2>1, <2>2, <2>3 DEF GroupInv, GroupTypeOK, Shape, Effect
<1>3. ASSUME NEW s \in Stoppers, StopReturns(s)
      PROVE  GroupInv' /\ Effect /\ (\A u \in Stoppers : stop[u] = "returned" => stop'[u] = "returned")
  <2>1. /\ Shape' /\ Kept /\ stopped' = stopped /\ stop' = [stop EXCEPT ![s] = "returned"]
        /\ stop[s] = "waiting" /\ wg = 0
    BY <1>3, StopReturnsEffect DEF StopReturns
  <2>2. CountsRunning' /\ wg' \in Nat
    BY <2>1, CountStep DEF Effect
  <2>3. Running = {}
    BY <2>1, RunningFinite, FS_EmptySet DEF CountsRunning
  <2>4. StopInv'
    BY <2>1, <2>3 DEF StopInv, Kept, Shape
  <2> QED
    BY <2>1, <2>2, <2>4 DEF GroupInv, GroupTypeOK, Shape, Effect
<1> QED
  BY <1>1, <1>2, <1>3 DEF GroupNext

LEMMA ServeInitial == ServeInit => ServeInv
<1> SUFFICES ASSUME ServeInit PROVE ServeInv
  OBVIOUS
<1>1. Running = {}
  BY DEF ServeInit, GroupInit, Running
<1>2. CountsRunning
  BY <1>1, FS_EmptySet DEF CountsRunning, ServeInit, GroupInit
<1>3. ServeTypeOK /\ StopInv /\ MainInv
  BY DEF ServeInit, GroupInit, ServeTypeOK, GroupTypeOK, StopInv, MainInv, DatabaseOpen, Places
<1> QED
  BY <1>2, <1>3 DEF ServeInv, GroupInv, ServeTypeOK

\* A step that leaves the Group alone leaves what is known of it.
LEMMA GroupUnchanged ==
    ASSUME GroupInv, UNCHANGED groupVars
    PROVE  GroupInv' /\ Running' = Running /\ stopped' = stopped /\ stop' = stop
BY DEF groupVars, GroupInv, GroupTypeOK, CountsRunning, StopInv, Running

\* The main goroutine's steps, other than its Stop.
MainStep ==
    \/ Serves \/ Fails \/ Signal \/ Drained \/ DrainTimeout \/ CloseLive \/ CloseDB \/ Exit
    \/ OnShutdown \/ \E c \in Connections : Arrive(c) \/ Answer(c)

LEMMA MainPreserved ==
    ASSUME ServeInv, MainStep
    PROVE  ServeInv' /\ UNCHANGED groupVars /\ (CloseDB \/ DatabaseOpen' = DatabaseOpen)
<1> USE DEF MainGoes
<1>1. UNCHANGED groupVars
  BY DEF MainStep, Serves, Fails, Signal, Drained, DrainTimeout, CloseLive, CloseDB, Exit,
         OnShutdown, Arrive, Answer
<1>2. GroupInv' /\ stop' = stop
  BY <1>1, GroupUnchanged DEF ServeInv
<1>3. ServeTypeOK'
  BY <1>2 DEF ServeInv, GroupInv, ServeTypeOK, MainStep, Serves, Fails, Signal, Drained,
              DrainTimeout, CloseLive, CloseDB, Exit, OnShutdown, Arrive, Answer
<1>4. MainInv'
  BY <1>2 DEF ServeInv, MainInv, DatabaseOpen, MainStep, Serves, Fails, Signal, Drained, DrainTimeout,
              CloseLive, CloseDB, Exit, OnShutdown, Arrive, Answer
<1>5. CloseDB \/ DatabaseOpen' = DatabaseOpen
  BY DEF DatabaseOpen, MainStep, Serves, Fails, Signal, Drained, DrainTimeout, CloseLive, CloseDB,
         Exit, OnShutdown, Arrive, Answer
<1> QED
  BY <1>1, <1>2, <1>3, <1>4, <1>5 DEF ServeInv

\* The steps of the Group: the app's, and the main goroutine's Stop.
LEMMA AppPreserved ==
    ASSUME ServeInv, AppStep \/ StopBackground
    PROVE  /\ ServeInv' /\ Effect
           /\ main' = main \/ (main = "stopping" /\ main' = "waiting")
<1>1. GroupNext
  BY ServeAssumption DEF AppStep, StopBackground, GroupNext
<1>2. GroupInv' /\ Effect /\ (\A s \in Stoppers : stop[s] = "returned" => stop'[s] = "returned")
  BY <1>1, GroupPreserved DEF ServeInv
<1>3. /\ main' = main \/ (main = "stopping" /\ main' = "waiting")
      /\ UNCHANGED <<hubClosed, request, failed>>
  BY DEF AppStep, StopBackground, serveVars, MainGoes
<1>4. ServeTypeOK'
  BY <1>2, <1>3 DEF ServeInv, GroupInv, ServeTypeOK
<1>5. MainInv'
  BY <1>2, <1>3, ServeAssumption DEF ServeInv, MainInv, DatabaseOpen
<1> QED
  BY <1>2, <1>3, <1>4, <1>5 DEF ServeInv

LEMMA ServeStep == ServeInv /\ [ServeNext]_allVars => ServeInv'
<1> SUFFICES ASSUME ServeInv, [ServeNext]_allVars PROVE ServeInv'
  OBVIOUS
<1>1. CASE MainStep
  BY <1>1, MainPreserved
<1>2. CASE AppStep \/ StopBackground
  BY <1>2, AppPreserved
<1>3. CASE UNCHANGED allVars
  <2>1. UNCHANGED groupVars /\ UNCHANGED serveVars
    BY <1>3 DEF allVars
  <2>2. GroupInv' /\ stop' = stop
    BY <2>1, GroupUnchanged DEF ServeInv
  <2> QED
    BY <2>1, <2>2 DEF serveVars, ServeInv, GroupInv, ServeTypeOK, MainInv, DatabaseOpen
<1> QED
  BY <1>1, <1>2, <1>3 DEF ServeNext, MainStep

LEMMA ServeInvariant == ServeSpec => []ServeInv
BY ServeInitial, ServeStep, PTL DEF ServeSpec

-----------------------------------------------------------------------------

\* Every variable has its type; above all the WaitGroup never falls below
\* zero, which would panic (background.Group, Serve).
THEOREM ServeTypeCorrect == ServeSpec => []ServeTypeOK
<1>1. ServeInv => ServeTypeOK
  BY DEF ServeInv
<1> QED
  BY <1>1, ServeInvariant, PTL

\* The WaitGroup counts exactly the work that runs (Go, After, Loop).
THEOREM WorkIsCounted == ServeSpec => []CountsRunning
<1>1. ServeInv => CountsRunning
  BY DEF ServeInv, GroupInv
<1> QED
  BY <1>1, ServeInvariant, PTL

\* When any call of Stop has returned, nothing runs (Stop).
THEOREM StopWaits == ServeSpec => []StopOutlastsWork
<1>1. ServeInv => StopOutlastsWork
  BY DEF ServeInv, GroupInv, StopInv, StopOutlastsWork
<1> QED
  BY <1>1, ServeInvariant, PTL

\* What a step of the server does to the work that runs.
LEMMA ServeEffect ==
    ASSUME ServeInv, [ServeNext]_allVars
    PROVE  \/ Effect /\ (main' = main \/ (main = "stopping" /\ main' = "waiting"))
           \/ /\ UNCHANGED groupVars
              /\ CloseDB \/ DatabaseOpen' = DatabaseOpen
<1>1. CASE MainStep
  BY <1>1, MainPreserved
<1>2. CASE AppStep \/ StopBackground
  BY <1>2, AppPreserved
<1>3. CASE UNCHANGED allVars
  BY <1>3 DEF allVars, serveVars, DatabaseOpen
<1> QED
  BY <1>1, <1>2, <1>3 DEF ServeNext, MainStep

\* A stopped Group starts nothing (Go, After, Loop).
THEOREM StartsNothing == ServeSpec => NothingStartsLate
<1>1. ServeInv /\ [ServeNext]_allVars => [stopped => Running' \subseteq Running]_groupVars
  <2> SUFFICES ASSUME ServeInv, [ServeNext]_allVars, stopped
               PROVE  Running' \subseteq Running
    OBVIOUS
  <2>1. CASE Effect
    BY <2>1, EffectShrinks
  <2>2. CASE UNCHANGED groupVars
    BY <2>2 DEF groupVars, Running
  <2> QED
    BY <2>1, <2>2, ServeEffect
<1> QED
  BY <1>1, ServeInvariant, PTL DEF ServeSpec, NothingStartsLate

\* The way out implements Teardown: whatever order Stop, timers, finishing
\* work and the main goroutine come in, the database is open while
\* background work runs (Handler's close func, Stop).
THEOREM TeardownKept == ServeSpec => DatabaseOutlivesWork
<1> USE DEF Promise!TeardownInit, Promise!TeardownNext, Promise!Enter, Promise!Leave,
            Promise!TurnAway, Promise!CloseDatabase, Promise!teardownVars
<1>1. ServeInit => Promise!TeardownInit
  BY DEF ServeInit, GroupInit, Running, DatabaseOpen
<1>2. ServeInv /\ [ServeNext]_allVars => [Promise!TeardownNext]_Promise!teardownVars
  <2> SUFFICES ASSUME ServeInv, [ServeNext]_allVars
               PROVE  [Promise!TeardownNext]_Promise!teardownVars
    OBVIOUS
  <2>0. stopped \in BOOLEAN /\ stopped' \in BOOLEAN
    BY ServeStep DEF ServeInv, ServeTypeOK, GroupTypeOK
  <2>1. CASE Effect /\ (main' = main \/ (main = "stopping" /\ main' = "waiting"))
    <3>1. DatabaseOpen' = DatabaseOpen
      BY <2>1 DEF DatabaseOpen
    <3>2. CASE Kept
      BY <2>0, <3>1, <3>2 DEF Kept
    <3>3. ASSUME NEW x \in Tasks, Entered(x) PROVE Promise!TeardownNext
      BY <3>1, <3>3 DEF Entered
    <3>4. ASSUME NEW x \in Tasks, Left(x) PROVE Promise!TeardownNext
      BY <3>1, <3>4 DEF Left
    <3> QED
      BY <2>1, <3>2, <3>3, <3>4 DEF Effect
  <2>2. CASE UNCHANGED groupVars /\ CloseDB
    <3>1. Running' = Running /\ stopped' = stopped
      BY <2>2 DEF groupVars, Running
    <3>2. Running = {} /\ stopped
      BY <2>2, ServeAssumption DEF CloseDB, ServeInv, GroupInv, StopInv
    <3>3. DatabaseOpen' = FALSE
      BY <2>2 DEF CloseDB, MainGoes, DatabaseOpen
    <3> QED
      BY <3>1, <3>2, <3>3
  <2>3. CASE UNCHANGED groupVars /\ DatabaseOpen' = DatabaseOpen
    <3>1. Running' = Running /\ stopped' = stopped
      BY <2>3 DEF groupVars, Running
    <3> QED
      BY <2>3, <3>1
  <2> QED
    BY <2>1, <2>2, <2>3, ServeEffect
<1> QED
  BY <1>1, <1>2, ServeInvariant, PTL DEF ServeSpec, DatabaseOutlivesWork, Promise!TeardownSpec

-----------------------------------------------------------------------------
(* The schedule of the hub *)

\* A closed hub has nothing pending: a late fire that does nothing leaves
\* nothing unraised.
ScheduleInv ==
    /\ ScheduleTypeOK
    /\ RaisedInTime
    /\ hubClosed \in BOOLEAN /\ (hubClosed => pending = {})

-----------------------------------------------------------------------------

\* The heap's first is one of its times.
LEMMA EarliestIsTime ==
    ASSUME NEW P, P \subseteq [at : Moments, topic : Topics], P # {}
    PROVE  Earliest(P) \in Nat
<1> DEFINE S == {p.at : p \in P}
           R == {ss \in Nat \X Nat : ss[1] < ss[2]}
<1>1. S \subseteq Nat /\ S # {}
  BY ScheduleAssumption
<1>2. IsWellFoundedOn(R, Nat)
  BY NatLessThanWellFounded DEF OpToRel
<1>3. PICK n \in S : \A k \in S : <<k, n>> \notin R
  <2> HIDE DEF S, R
  <2> QED
    BY <1>1, <1>2, WFMin
<1>4. ASSUME NEW k \in S PROVE n <= k
  <2>1. n \in Nat /\ k \in Nat
    BY <1>1
  <2>2. <<k, n>> \notin R
    BY <1>3
  <2> QED
    BY <2>1, <2>2
<1>5. Earliest(P) \in S
  BY <1>3, <1>4 DEF Earliest, Min
<1> QED
  BY <1>1, <1>5

\* armLocked: a timer for what is pending runs out when the first is due.
LEMMA ArmedInTime ==
    ASSUME ScheduleTypeOK, NEW P, P \subseteq [at : Moments, topic : Topics]
    PROVE  /\ Armed(P) \in Nat \cup {Off}
           /\ P # {} => Armed(P) = Wait(Earliest(P)) /\ Wait(Earliest(P)) \in Nat
BY EarliestIsTime, ScheduleAssumption DEF Armed, Wait, Off, ScheduleTypeOK

LEMMA ScheduleInitial == ProcessInit => ScheduleInv
<1> SUFFICES ASSUME ProcessInit PROVE ScheduleInv
  OBVIOUS
<1>1. ScheduleTypeOK
  BY ScheduleAssumption DEF ProcessInit, ScheduleInit, ScheduleTypeOK, Off
<1>2. pending = {} /\ hubClosed = FALSE
  BY DEF ProcessInit, ServeInit, ScheduleInit
<1> QED
  BY <1>1, <1>2 DEF ScheduleInv, RaisedInTime

\* What has just been armed is in time.
LEMMA ArmedRaises ==
    ASSUME ScheduleTypeOK, NEW P, P \subseteq [at : Moments, topic : Topics],
           pending' = P, timer' = Armed(P), UNCHANGED <<wall, forward>>,
           firing' \in 0..MaxFires
    PROVE  ScheduleTypeOK' /\ RaisedInTime'
<1>1. Wait(Earliest(pending))' = Wait(Earliest(P))
  BY DEF Wait, Earliest, Min
<1>2. forward' \in Nat
  BY ScheduleAssumption DEF ScheduleTypeOK
<1>3. P # {} => timer' # Off /\ timer' <= Wait(Earliest(P)) + forward'
  BY <1>2, ArmedInTime DEF Off
<1>4. ScheduleTypeOK'
  BY ArmedInTime DEF ScheduleTypeOK
<1> QED
  BY <1>1, <1>3, <1>4 DEF RaisedInTime

\* One step of an open hub: the clocks, the timer, and what has the lock.
LEMMA OpenPreserves ==
    ASSUME ScheduleTypeOK, RaisedInTime, ScheduleStep
    PROVE  ScheduleTypeOK' /\ RaisedInTime'
<1>1. ASSUME NEW at \in Moments, NEW t \in Topics, NotifyAt(at, t)
      PROVE  ScheduleTypeOK' /\ RaisedInTime'
  <2>1. PICK P \in Scheduled([at |-> at, topic |-> t]) : pending' = P /\ timer' = Armed(P)
    BY <1>1 DEF NotifyAt
  <2>2. P \subseteq [at : Moments, topic : Topics]
    BY <2>1 DEF Scheduled, ScheduleTypeOK
  <2>3. UNCHANGED <<wall, forward>> /\ firing' \in 0..MaxFires
    BY <1>1 DEF NotifyAt, ScheduleTypeOK
  <2> QED
    BY <2>1, <2>2, <2>3, ArmedRaises
<1>2. ASSUME TimerRunsOut PROVE ScheduleTypeOK' /\ RaisedInTime'
  BY <1>2, ScheduleAssumption DEF TimerRunsOut, ScheduleTypeOK, RaisedInTime, Off
<1>3. ASSUME FireDue PROVE ScheduleTypeOK' /\ RaisedInTime'
  <2>1. PICK P : P = {p \in pending : p.at > wall}
    OBVIOUS
  <2>2. P \subseteq [at : Moments, topic : Topics]
    BY <2>1 DEF ScheduleTypeOK
  <2>3. pending' = P /\ timer' = Armed(P) /\ UNCHANGED <<wall, forward>>
    BY <1>3, <2>1 DEF FireDue
  <2>4. firing' \in 0..MaxFires
    BY <1>3, ScheduleAssumption DEF FireDue, ScheduleTypeOK
  <2> QED
    BY <2>2, <2>3, <2>4, ArmedRaises
<1>4. Earliest(pending)' = Earliest(pending') /\ (pending # {} => Earliest(pending) \in Nat)
  BY EarliestIsTime DEF ScheduleTypeOK, Earliest, Min
<1>5. ASSUME Elapse PROVE ScheduleTypeOK' /\ RaisedInTime'
  <2>1. ScheduleTypeOK'
    BY <1>5, ScheduleAssumption DEF Elapse, ScheduleTypeOK, Off
  <2>2. wall \in Nat /\ forward \in Nat /\ timer \in Nat \cup {Off}
    BY ScheduleAssumption DEF ScheduleTypeOK
  <2>3. pending # {} => Wait(Earliest(pending))' \in {Wait(Earliest(pending)), Wait(Earliest(pending)) - 1}
    BY <1>4, <1>5, <2>2 DEF Elapse, Wait
  <2> QED
    BY <1>4, <1>5, <2>1, <2>2, <2>3 DEF Elapse, RaisedInTime, Off, Wait
<1>6. ASSUME NEW to \in Moments, SetWall(to)
      PROVE  ScheduleTypeOK' /\ RaisedInTime'
  <2>1. wall \in Nat /\ to \in Nat /\ forward \in Nat /\ timer \in Nat \cup {Off}
    BY ScheduleAssumption DEF ScheduleTypeOK
  <2>2. ScheduleTypeOK'
    BY <1>6, <2>1, ScheduleAssumption DEF SetWall, ScheduleTypeOK
  <2> QED
    BY <1>4, <1>6, <2>1, <2>2 DEF SetWall, RaisedInTime, Off, Wait
<1> QED
  BY <1>1, <1>2, <1>3, <1>5, <1>6 DEF ScheduleStep

LEMMA HubPreserves == ScheduleInv /\ HubStep => ScheduleInv'
<1> SUFFICES ASSUME ScheduleInv, HubStep PROVE ScheduleInv'
  OBVIOUS
<1>1. hubClosed' = hubClosed
  BY DEF HubStep, allVars, serveVars
<1>2. CASE hubClosed
  <2>1. FireClosed /\ pending = {} /\ ScheduleTypeOK
    BY <1>2 DEF ScheduleInv, HubStep
  <2>2. ScheduleTypeOK'
    BY <2>1, ScheduleAssumption DEF FireClosed, ScheduleTypeOK
  <2>3. pending' = {}
    BY <2>1 DEF FireClosed
  <2> QED
    BY <1>1, <2>2, <2>3 DEF ScheduleInv, RaisedInTime
<1>3. CASE ~hubClosed
  <2>1. ScheduleTypeOK' /\ RaisedInTime'
    BY <1>3, OpenPreserves DEF ScheduleInv, HubStep
  <2> QED
    BY <1>1, <1>3, <2>1 DEF ScheduleInv
<1> QED
  BY <1>2, <1>3

\* A step of Serve leaves the schedule alone, or closes the hub and stops it.
LEMMA ServePreserves == ScheduleInv /\ ServeNext /\ WithSchedule => ScheduleInv'
<1> SUFFICES ASSUME ScheduleInv, ServeNext, WithSchedule PROVE ScheduleInv'
  OBVIOUS
<1>1. CASE hubClosed' = hubClosed
  <2>1. UNCHANGED scheduleVars
    BY <1>1 DEF WithSchedule
  <2> QED
    BY <1>1, <2>1
    DEF ScheduleInv, scheduleVars, ScheduleTypeOK, RaisedInTime, Earliest, Min, Wait
<1>2. CASE hubClosed' # hubClosed
  <2>1. hubClosed' = TRUE
    BY <1>2 DEF ServeNext, Serves, Fails, Signal, Drained, DrainTimeout, CloseLive,
        StopBackground, CloseDB, Exit, OnShutdown, Arrive, Answer, AppStep, allVars, serveVars
  <2>2. StopSchedule
    BY <1>2 DEF WithSchedule
  <2> QED
    BY <2>1, <2>2 DEF ScheduleInv, StopSchedule, ScheduleTypeOK, RaisedInTime
<1> QED
  BY <1>1, <1>2

\* What waits is raised by the time it is due, late by no more than the wall
\* clock was set forward, however calls of NotifyAt, resets, late fires, set
\* clocks and the shutdown interleave (NotifyAt, armLocked, fire, Close).
THEOREM ScheduleInTime == ProcessSpec => []RaisedInTime
<1>1. ScheduleInv /\ UNCHANGED processVars => ScheduleInv'
  BY DEF ScheduleInv, processVars, allVars, serveVars, scheduleVars, ScheduleTypeOK,
         RaisedInTime, Earliest, Min, Wait
<1>2. ScheduleInv /\ [ProcessNext]_processVars => ScheduleInv'
  BY <1>1, HubPreserves, ServePreserves DEF ProcessNext
<1>3. ScheduleInv => RaisedInTime
  BY DEF ScheduleInv
<1> QED
  BY <1>2, <1>3, ScheduleInitial, PTL DEF ProcessSpec

\* A process with a schedule is a process of Serve: what is proved of Serve
\* holds of it.
THEOREM ProcessServes == ProcessSpec => ServeSpec
<1>1. ProcessInit => ServeInit
  BY DEF ProcessInit
<1>2. [ProcessNext]_processVars => [ServeNext]_allVars
  BY DEF ProcessNext, HubStep, processVars
<1> QED
  BY <1>1, <1>2, PTL DEF ProcessSpec, ServeSpec
=============================================================================
