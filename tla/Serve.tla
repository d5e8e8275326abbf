------------------------------- MODULE Serve -------------------------------
(***************************************************************************)
(* An app's process, from Handler's building to its exit (serve.go,       *)
(* serve_stop.go): requests, live streams, background work, and the order *)
(* in which the way out ends them before the database closes.             *)
(*                                                                         *)
(* net/http is external.  Of it is modelled that Shutdown closes the      *)
(* listener, runs the registered hub's Close on a goroutine of its own,   *)
(* and returns when no request is left or its context is over; a request  *)
(* on a connection that was accepted before may still start until then.   *)
(* A listener that fails drains nothing: connections that are open go on. *)
(***************************************************************************)
EXTENDS Background

CONSTANTS
    Requests,  \* requests of handlers that answer and return
    Streams,   \* requests held open by the live hub
    Main       \* the Stop of Handler's close func

ASSUME ServeAssumption == Main \in Stoppers /\ Requests \cap Streams = {}

VARIABLES
    main,       \* the main goroutine: building the handler, serving,
                \* draining, or in the close func, before Live.Close, before
                \* Background.Stop, in it, past it; "closed" when the
                \* database is, "exited" when Serve has returned
    hubClosed,  \* Hub.closed
    request,    \* per request: "none", "open" or "over"
    failed      \* the handler was not built, or the listener failed

serveVars == <<main, hubClosed, request, failed>>
allVars == <<groupVars, serveVars>>

Connections == Requests \cup Streams

ServeTypeOK ==
    /\ GroupTypeOK
    /\ main \in {"building", "serving", "draining", "closing", "stopping", "waiting", "closed", "exited"}
    /\ hubClosed \in BOOLEAN
    /\ request \in [Connections -> {"none", "open", "over"}]
    /\ failed \in BOOLEAN

ServeInit ==
    /\ GroupInit
    /\ main = "building"
    /\ hubClosed = FALSE
    /\ request = [c \in Connections |-> "none"]
    /\ failed = FALSE

\* From opening it to closeDB's Close.
DatabaseOpen == main \notin {"closed", "exited"}

InFlight == {c \in Connections : request[c] = "open"}

MainGoes(from, to) == main = from /\ main' = to

-----------------------------------------------------------------------------
(* The main goroutine.                                                     *)

\* The handler is built, on a database that is open by now, and serves; or
\* it is not, or cannot listen, or the listener fails later.
Serves ==
    /\ MainGoes("building", "serving")
    /\ UNCHANGED <<groupVars, hubClosed, request, failed>>

Fails ==
    /\ MainGoes("building", "closing") \/ MainGoes("serving", "closing")
    /\ failed' = TRUE
    /\ UNCHANGED <<groupVars, hubClosed, request>>

\* SIGTERM or SIGINT: Shutdown starts to wait.
Signal ==
    /\ MainGoes("serving", "draining")
    /\ UNCHANGED <<groupVars, hubClosed, request, failed>>

Drained ==
    /\ MainGoes("draining", "closing")
    /\ InFlight = {}
    /\ UNCHANGED <<groupVars, hubClosed, request, failed>>

\* Shutdown returns the deadline's error, and the requests go on.
DrainTimeout ==
    /\ MainGoes("draining", "closing")
    /\ UNCHANGED <<groupVars, hubClosed, request, failed>>

\* closeDB: Live.Close.
CloseLive ==
    /\ MainGoes("closing", "stopping")
    /\ hubClosed' = TRUE
    /\ UNCHANGED <<groupVars, request, failed>>

\* closeDB: Background.Stop, up to its wait.
StopBackground ==
    /\ MainGoes("stopping", "waiting")
    /\ Stop(Main)
    /\ UNCHANGED <<hubClosed, request, failed>>

\* Mutant: the database is closed while Stop still waits.
CloseAtOnce ==
    /\ MainGoes("waiting", "closed")
    /\ UNCHANGED <<groupVars, hubClosed, request, failed>>

\* closeDB: Stop has returned, and the database is closed.
CloseDB ==
    /\ stop[Main] = "returned"
    /\ MainGoes("waiting", "closed")
    /\ UNCHANGED <<groupVars, hubClosed, request, failed>>

\* Serve returns, and the process ends with whatever still runs.
Exit ==
    /\ MainGoes("closed", "exited")
    /\ UNCHANGED <<groupVars, hubClosed, request, failed>>

-----------------------------------------------------------------------------
(* The other goroutines.                                                   *)

\* Mutant: the hub's Close is not registered with the server.
NeverRegistered == FALSE /\ UNCHANGED allVars

\* Shutdown's goroutine for the hub's Close.
OnShutdown ==
    /\ main \in {"draining", "closing", "stopping", "waiting", "closed"}
    /\ ~failed
    /\ ~hubClosed
    /\ hubClosed' = TRUE
    /\ UNCHANGED <<groupVars, main, request, failed>>

\* A request comes in.  A closed hub refuses a stream, which is an answer.
Arrive(c) ==
    /\ \/ main \in {"serving", "draining"}
       \/ failed /\ main \in {"closing", "stopping", "waiting", "closed"}
    /\ request[c] = "none"
    /\ request' = [request EXCEPT ![c] = IF c \in Streams /\ hubClosed THEN "over" ELSE "open"]
    /\ UNCHANGED <<groupVars, main, hubClosed, failed>>

\* A handler answers; a stream ends when the hub closes, or before, by its
\* lifetime or its client.
Answer(c) ==
    /\ request[c] = "open"
    /\ request' = [request EXCEPT ![c] = "over"]
    /\ UNCHANGED <<groupVars, main, hubClosed, failed>>

\* The app starts and cancels work from its building, its requests and its
\* own work, and may stop its Group as well.
AppStep ==
    /\ \/ \E x \in Tasks : Go(x) \/ After(x) \/ Forget(x) \/ Disarm(x) \/ TaskStep(x)
       \/ \E s \in Stoppers \ {Main} : Stop(s)
       \/ \E s \in Stoppers : StopReturns(s)
    /\ UNCHANGED serveVars

ServeNext ==
    \/ /\ main # "exited"
       /\ \/ Serves \/ Fails \/ Signal \/ Drained \/ DrainTimeout
          \/ CloseLive \/ StopBackground \/ CloseDB \/ Exit \/ OnShutdown
          \/ \E c \in Connections : Arrive(c) \/ Answer(c)
          \/ AppStep
    \/ main = "exited" /\ UNCHANGED allVars

ServeSpec == ServeInit /\ [][ServeNext]_allVars

\* Goroutines that can run do, a handler answers, and a stream of a closed
\* hub ends.  A loop's select is fair in the strong sense, since it picks at
\* random.  Nothing owes a failure, a signal, a new request, a cancel, or
\* the drain's deadline: a drain must end without it.
Alive(A) == main # "exited" /\ A

ServeFairness ==
    /\ WF_allVars(Serves \/ Fails) /\ WF_allVars(Drained) /\ WF_allVars(CloseLive)
    /\ WF_allVars(StopBackground) /\ WF_allVars(CloseDB) /\ WF_allVars(Exit)
    /\ WF_allVars(OnShutdown)
    /\ \A c \in Requests : WF_allVars(Alive(Answer(c)))
    /\ \A c \in Streams : WF_allVars(Alive(hubClosed /\ Answer(c)))
    /\ \A x \in Tasks :
         /\ WF_allVars(Alive((Return(x) \/ PassEnds(x) \/ Callback(x)) /\ UNCHANGED serveVars))
         /\ SF_allVars(Alive(SeesDone(x) /\ UNCHANGED serveVars))
    /\ \A s \in Stoppers : WF_allVars(Alive(StopReturns(s) /\ UNCHANGED serveVars))

FairServeSpec == ServeSpec /\ ServeFairness

-----------------------------------------------------------------------------

\* The way out implements Teardown: the database outlives the background
\* work, and the work that Stop turned away stays away.
Promise == INSTANCE Teardown WITH
    open <- DatabaseOpen, accepting <- ~stopped, users <- Running

DatabaseOutlivesWork == Promise!TeardownSpec

\* A signal ends the process, with no help from the drain's deadline: open
\* streams end when the shutdown starts, loops when the Group stops.
ShutdownEnds == main = "draining" ~> main = "exited"

=============================================================================
