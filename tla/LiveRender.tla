----------------------------- MODULE LiveRender -----------------------------
(***************************************************************************)
(* Rendering a live region while others write (live/live.go,              *)
(* live/view.go).                                                          *)
(*                                                                         *)
(* A writer commits to the database and only then calls Notify.  A request *)
(* records the hub's sequence in Middleware, queries the data, and renders *)
(* each topic with the version Attrs reads from the hub.  None of these    *)
(* steps holds a lock across another, so a write may commit, and its       *)
(* Notify may run, between any two of them.  The version on the page is    *)
(* the only thing the stream later has to decide whether the page is out   *)
(* of date: a page that claims the newest version without holding the      *)
(* newest data is never told again.                                        *)
(*                                                                         *)
(* The database is external: committed[t] counts the writes to the data of *)
(* topic t, and what a page shows of t is how many of them it has seen.    *)
(***************************************************************************)
EXTENDS LiveCounters

CONSTANTS
    Requests,    \* request slots; each holds one request, or its answer
    MaxCommits   \* bound: writes committed to one topic

ASSUME RenderAssumption == MaxCommits \in Nat

VARIABLES
    committed,   \* per topic, writes the database holds
    owed,        \* per topic, writes committed whose Notify has not run yet
    announced,   \* per topic, writes committed by the last change of this
                 \* process, or by its start: what the counter stands for
    req          \* per slot, the request and what it has read so far

renderVars == <<boot, seq, counter, changedAt, committed, owed, announced, req>>

\* A topic's data or version the request has not read.
Unread == -1

Values == Nat \cup {Unread}

Blank == [t \in Topics |-> Unread]

\* phase: "idle" no request; "running" in its handler; "done" answered, and
\* then boot, v and seen are the data-live-boot, data-live and content of
\* the region it rendered; "failed" cut off by the end of the process.
Request == [phase : {"idle", "running", "done", "failed"}, boot : Nat,
            start : Nat, seen : [Topics -> Values], v : [Topics -> Values]]

IdleRequest == [phase |-> "idle", boot |-> 0, start |-> 0, seen |-> Blank, v |-> Blank]

RenderTypeOK ==
    /\ CountersTypeOK
    /\ committed \in [Topics -> Nat]
    /\ owed \in [Topics -> Nat]
    /\ announced \in [Topics -> Nat]
    /\ req \in [Requests -> Request]

RenderInit ==
    /\ CountersInit
    /\ committed = [t \in Topics |-> 0]
    /\ owed = [t \in Topics |-> 0]
    /\ announced = [t \in Topics |-> 0]
    /\ req = [q \in Requests |-> IdleRequest]

-----------------------------------------------------------------------------
(* Writers. *)

\* A writer's transaction on the data of t commits; its Notify is still to
\* come.  (The app's own code.)
Commit(t) ==
    /\ committed[t] < MaxCommits
    /\ committed' = [committed EXCEPT ![t] = @ + 1]
    /\ owed' = [owed EXCEPT ![t] = @ + 1]
    /\ UNCHANGED <<boot, seq, counter, changedAt, announced, req>>

\* Hub.Notify(T...) by a writer that committed to every topic of T.  Another
\* writer's commit to the same topic may already be in the data.
Notify(T) ==
    /\ T # {}
    /\ \A t \in T : owed[t] > 0
    /\ RaiseLocked(T)
    /\ owed' = [t \in Topics |-> IF t \in T THEN owed[t] - 1 ELSE owed[t]]
    /\ announced' = [t \in Topics |-> IF t \in T THEN committed[t] ELSE announced[t]]
    /\ UNCHANGED <<committed, req>>

-----------------------------------------------------------------------------
(* Requests. *)

\* Middleware: the sequence is recorded before any handler queries.  A
\* route mounted without Middleware reads its start as 0 (Hub.View).
Begin(q) ==
    /\ req[q].phase = "idle"
    /\ \E start \in {seq, 0} :
         req' = [req EXCEPT ![q] = [phase |-> "running", boot |-> boot,
                                    start |-> start, seen |-> Blank, v |-> Blank]]
    /\ UNCHANGED <<boot, seq, counter, changedAt, committed, owed, announced>>

\* The handler's query for the data of t.
Query(q, t) ==
    /\ req[q].phase = "running"
    /\ req[q].seen[t] = Unread
    /\ req' = [req EXCEPT ![q].seen[t] = committed[t]]
    /\ UNCHANGED <<boot, seq, counter, changedAt, committed, owed, announced>>

\* View.Attrs: the template renders the version of t.  It may run before the
\* handler's query for t as well as after it: some apps query as they render.
Attrs(q, t) ==
    /\ req[q].phase = "running"
    /\ req[q].v[t] = Unread
    /\ req' = [req EXCEPT ![q].v[t] = Version(t, req[q].start)]
    /\ UNCHANGED <<boot, seq, counter, changedAt, committed, owed, announced>>

\* The region is complete and the response is written.
Answer(q) ==
    /\ req[q].phase = "running"
    /\ \A t \in Topics : req[q].seen[t] # Unread /\ req[q].v[t] # Unread
    /\ req' = [req EXCEPT ![q].phase = "done"]
    /\ UNCHANGED <<boot, seq, counter, changedAt, committed, owed, announced>>

\* The client has taken the answer or the failure, or has gone: what the
\* handler still does changes nothing.
Drop(q) ==
    /\ req[q].phase # "idle"
    /\ req' = [req EXCEPT ![q] = IdleRequest]
    /\ UNCHANGED <<boot, seq, counter, changedAt, committed, owed, announced>>

\* The process ends, between a commit and its Notify or inside a request,
\* and another starts on the same database.
Restart ==
    /\ NewProcess
    /\ owed' = [t \in Topics |-> 0]
    /\ announced' = committed
    /\ req' = [q \in Requests |->
                 IF req[q].phase = "running" THEN [req[q] EXCEPT !.phase = "failed"]
                 ELSE req[q]]
    /\ UNCHANGED committed

-----------------------------------------------------------------------------

RenderNext ==
    \/ \E t \in Topics : Commit(t)
    \/ \E T \in SUBSET Topics : Notify(T)
    \/ \E q \in Requests : Begin(q) \/ Answer(q) \/ Drop(q)
    \/ \E q \in Requests, t \in Topics : Query(q, t) \/ Attrs(q, t)
    \/ Restart

RenderSpec == RenderInit /\ [][RenderNext]_renderVars

-----------------------------------------------------------------------------
(* Properties. *)

\* A page that claims the newest version of a topic shows every write the
\* newest change announced: Hub.version's promise that a write landing
\* between a request's start and its queries is never missed.  Were it to
\* fail, the stream would compare versions, find the page current, and
\* leave it stale for good.
CurrentMeansComplete ==
    \A q \in Requests, t \in Topics :
        /\ req[q].phase = "done"
        /\ req[q].boot = boot
        /\ req[q].v[t] >= counter[t]
        => req[q].seen[t] >= announced[t]

\* The other half of the bargain: a page whose request began after the last
\* change of a topic claims that change.  Were it to claim less, every
\* stream it opened would send it back to fetch what it already shows.
FreshMeansCurrent ==
    \A q \in Requests, t \in Topics :
        /\ req[q].phase = "done"
        /\ req[q].boot = boot
        /\ changedAt[t] <= req[q].start
        => req[q].v[t] = counter[t]

=============================================================================
