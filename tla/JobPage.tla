------------------------------ MODULE JobPage -------------------------------
(***************************************************************************)
(* The status page of one job: jobs.Handlers (handlers.go, events.go) and *)
(* the script that keeps the page current (ui/rastrillo.js, poll).        *)
(*                                                                         *)
(* The script has an event stream (src) or a timer, and at most one fetch *)
(* of the fragment.  A task of JavaScript is one step.  The job has a     *)
(* Location; one that has none shows its end as a failed job does.  The   *)
(* owner stays signed in.  When the browser closes its stream the handler *)
(* is gone at once: what it did until it noticed went nowhere.            *)
(***************************************************************************)
EXTENDS Jobs, Sequences

CONSTANTS
    Watched,   \* the job the page is about
    MaxFaults  \* bound: failed fetches and broken streams

ASSUME PageAssumption == Watched \in Ids /\ MaxFaults \in Nat

VARIABLES
    page,     \* "none", "watching", or "left" for the job's Location
    shown,    \* the snapshot the page shows
    src,      \* the script has an EventSource
    handler,  \* "none", "dialing", "open" or "ended": Events on the server
    last,     \* Events' last
    wire,     \* events sent and not handled, "error" where the stream ends
    timers,   \* timeouts pending
    fetch,    \* "none", "asked" or "answered"
    reply,    \* what the fetch brings back
    queued,   \* an update came in mid-fetch
    faults

scriptVars == <<src, handler, wire, timers, fetch, queued>>
pageVars == <<page, shown, last, reply, faults, scriptVars>>
vars == <<jobVars, pageVars>>

Snapshot == [status : {"none", "running", "done", "failed"}, progress : 0..MaxProgress]

Snap == [status |-> job[Watched].status, progress |-> job[Watched].progress]

Nowhere == [status |-> "none", progress |-> 0]

NoReply == [kind |-> "failed", snap |-> Nowhere]

PageTypeOK ==
    /\ JobsTypeOK
    /\ page \in {"none", "watching", "left"}
    /\ shown \in Snapshot /\ last \in Snapshot
    /\ src \in BOOLEAN /\ queued \in BOOLEAN
    /\ handler \in {"none", "dialing", "open", "ended"}
    /\ wire \in Seq({"update", "done", "gone", "error"})
    /\ timers \in 0..2
    /\ fetch \in {"none", "asked", "answered"}
    /\ reply \in [kind : {"fragment", "away", "refused", "failed"}, snap : Snapshot]
    /\ faults \in 0..MaxFaults

Init ==
    /\ JobsInit
    /\ page = "none" /\ shown = Nowhere /\ last = Nowhere
    /\ src = FALSE /\ handler = "none" /\ wire = <<>>
    /\ timers = 0 /\ fetch = "none" /\ queued = FALSE
    /\ reply = NoReply
    /\ faults = 0

\* The element carries data-poll: a template emits it while Running.
Polls == shown.status = "running"

Get == known' = Swept /\ UNCHANGED <<job, fn, waiting, expired, old>>

-----------------------------------------------------------------------------
(* The server *)

\* GET /jobs/{id}, and the script that starts on the page.  A browser with
\* no EventSource starts the timer.
StatusPage ==
    /\ page = "none"
    /\ Get
    /\ Watched \in Swept /\ job[Watched].status \in {"running", "failed"}
    /\ page' = "watching"
    /\ shown' = Snap
    /\ IF job[Watched].status # "running" THEN UNCHANGED <<src, handler, timers>>
       ELSE \/ src' = TRUE /\ handler' = "dialing" /\ UNCHANGED timers
            \/ timers' = 1 /\ UNCHANGED <<src, handler>>
    /\ UNCHANGED <<last, reply, faults, wire, fetch, queued>>

Ends(events) == handler' = "ended" /\ wire' = wire \o events \o <<"error">> /\ last' = Nowhere

\* Events looks the job up; a 404 is an error to the EventSource.
Dial ==
    /\ handler = "dialing"
    /\ Get
    /\ IF Watched \in Swept
       THEN handler' = "open" /\ last' = Snap /\ UNCHANGED wire
       ELSE Ends(<<>>)
    /\ UNCHANGED <<page, shown, reply, faults, src, timers, fetch, queued>>

\* One round of Events' loop.
Pass ==
    /\ handler = "open"
    /\ Get
    /\ IF Watched \notin Swept THEN Ends(<<"gone">>)
       ELSE IF job[Watched].status # "running" THEN Ends(<<"done">>)
       ELSE /\ last' = Snap
            /\ wire' = IF Snap # last THEN Append(wire, "update") ELSE wire
            /\ UNCHANGED handler
    /\ UNCHANGED <<page, shown, reply, faults, src, timers, fetch, queued>>

\* A stream's TTL.
StreamEnds ==
    /\ handler = "open"
    /\ Ends(<<>>)
    /\ UNCHANGED <<jobVars, page, shown, reply, faults, src, timers, fetch, queued>>

\* The connection breaks, and a suffix of the events with it.
Break ==
    /\ handler \in {"dialing", "open"} /\ faults < MaxFaults
    /\ faults' = faults + 1
    /\ \E n \in 0..Len(wire) : wire' = Append(SubSeq(wire, 1, n), "error")
    /\ handler' = "ended" /\ last' = Nowhere
    /\ UNCHANGED <<jobVars, page, shown, reply, src, timers, fetch, queued>>

\* GET /jobs/{id}/fragment.  An element with no data-poll has the script
\* fetch "null", which is no job.
Fragment ==
    /\ fetch = "asked"
    /\ Get
    /\ fetch' = "answered"
    /\ reply' = [kind |-> IF ~Polls \/ Watched \notin Swept THEN "refused"
                          ELSE IF job[Watched].status = "done" THEN "away" ELSE "fragment",
                 snap |-> Snap]
    /\ UNCHANGED <<page, shown, last, faults, src, handler, wire, timers, queued>>

FetchFails ==
    /\ fetch \in {"asked", "answered"} /\ faults < MaxFaults
    /\ faults' = faults + 1
    /\ fetch' = "answered" /\ reply' = NoReply
    /\ UNCHANGED <<jobVars, page, shown, last, src, handler, wire, timers, queued>>

-----------------------------------------------------------------------------
(* The script *)

Close ==
    /\ src' = FALSE /\ wire' = <<>>
    /\ handler' = (IF src THEN "ended" ELSE handler) /\ last' = Nowhere

KeepStream == UNCHANGED <<src, handler, wire, last>>

Tick == IF fetch # "none" THEN queued' = TRUE /\ UNCHANGED fetch
                          ELSE fetch' = "asked" /\ UNCHANGED queued

\* A mutant of Fallback: it only closes the stream.
FallbackCloses == Close /\ UNCHANGED <<timers, fetch, queued>>

\* One downgrade, never back.
Fallback == Close /\ timers' = timers + 1 /\ UNCHANGED <<fetch, queued>>

HandleEvent ==
    /\ src /\ wire # <<>>
    /\ CASE Head(wire) = "update" -> Tick /\ wire' = Tail(wire) /\ UNCHANGED <<src, handler, last, timers>>
         [] Head(wire) = "done" -> Close /\ Tick /\ UNCHANGED timers
         [] Head(wire) = "gone" -> Close /\ UNCHANGED <<timers, fetch, queued>>
         [] Head(wire) = "error" -> Fallback
    /\ UNCHANGED <<jobVars, page, shown, reply, faults>>

TimerFires ==
    /\ timers > 0
    /\ timers' = timers - 1
    /\ Tick
    /\ KeepStream
    /\ UNCHANGED <<jobVars, page, shown, reply, faults>>

\* The fetch's own next step once a fragment that polls is in place.
GoOn ==
    IF ~src THEN timers' = timers + 1 /\ fetch' = "none" /\ UNCHANGED queued
    ELSE /\ queued' = FALSE
         /\ fetch' = IF queued THEN "asked" ELSE "none"
         /\ UNCHANGED timers

\* A mutant of Retry: a failed fetch is not tried again.
RetryNever == UNCHANGED timers

\* The stream's next event retries; without one the timer does.
Retry == timers' = IF src THEN timers ELSE timers + 1

\* Leaving ends the page's script with the page.
Leave == page' = "left" /\ Close /\ timers' = 0 /\ queued' = FALSE /\ fetch' = "none"

HandleReply ==
    /\ fetch = "answered"
    /\ shown' = IF reply.kind = "fragment" THEN reply.snap ELSE shown
    /\ IF reply.kind = "away" THEN Leave
       ELSE /\ CASE reply.kind = "failed" -> Retry /\ fetch' = "none" /\ KeepStream /\ UNCHANGED queued
                  [] reply.kind = "fragment" /\ reply.snap.status = "running" -> GoOn /\ KeepStream
                  [] OTHER -> Close /\ fetch' = "none" /\ UNCHANGED <<timers, queued>>
            /\ UNCHANGED page
    /\ reply' = NoReply
    /\ UNCHANGED <<jobVars, faults>>

\* The process ends and another comes up: no jobs, and no streams.
Restart ==
    /\ known # {} /\ faults < MaxFaults
    /\ faults' = faults + 1
    /\ Forget
    /\ IF handler \in {"dialing", "open"} THEN Ends(<<>>) ELSE UNCHANGED <<handler, wire, last>>
    /\ UNCHANGED <<page, shown, reply, src, timers, fetch, queued>>

Serving == Dial \/ Pass \/ StreamEnds \/ Fragment
Script == HandleEvent \/ TimerFires \/ HandleReply

Next ==
    \/ (\E i \in Ids : JobStep(i)) /\ UNCHANGED pageVars
    \/ StatusPage \/ Serving \/ Script
    \/ Break \/ FetchFails \/ Restart

Fairness ==
    /\ JobFairness
    /\ WF_vars(Dial) /\ WF_vars(Pass) /\ WF_vars(Fragment)
    /\ WF_vars(HandleEvent) /\ WF_vars(TimerFires) /\ WF_vars(HandleReply)

Spec == Init /\ [][Next]_vars /\ Fairness

-----------------------------------------------------------------------------
Silent == ~src /\ timers = 0 /\ fetch = "none"

\* A page that shows a running job and has stopped looking is right to:
\* the job is gone from the registry.  Streams that break or end, fetches
\* that fail and updates in the middle of one never strand it.
NeverStranded == (page = "watching" /\ Polls /\ Silent) => Watched \notin known

\* A page that is open when its job ends comes to show the end, or leaves
\* for its Location, unless the job is forgotten first.
PageLearnsEnd ==
    (page = "watching" /\ job[Watched].status \in {"done", "failed"})
        ~> (page = "left" \/ ~Polls \/ Watched \notin known)

=============================================================================
