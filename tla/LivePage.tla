------------------------------ MODULE LivePage ------------------------------
(***************************************************************************)
(* An open page with live regions (ui/live.js), over LiveRender's server.  *)
(*                                                                         *)
(* The page follows one stream.  A change event sends each region that     *)
(* shows an older version to fetch itself; a form of the page is sent with *)
(* a fetch of its own, whose answer may carry any region.  Every fetch is  *)
(* a request of LiveRender, so writes land between its queries and its     *)
(* versions.  Answers come in any order, fetches fail, the stream drops,   *)
(* the tab hides, and the browser freezes the page and brings it back.     *)
(*                                                                         *)
(* JavaScript runs one task at a time: an action is a task with the        *)
(* microtasks it leaves.  The stream's server side is LiveStream's, seen   *)
(* from its end: what it takes the page to know, and the events on the way *)
(* (SkipsNothing is what makes that view sound).  A region's fetch goes to *)
(* the request slot of its name, a form's to the form's.  A page that      *)
(* navigates away is gone, and is not modelled.                            *)
(***************************************************************************)
EXTENDS LiveRender, Sequences, FiniteSets, FiniteSetsExt

CONSTANTS
    Regions,    \* the page's live regions, each of every topic
    Forms,      \* the page's swapping forms, each naming every region
    Outcomes,   \* the form outcomes to consider: "regions", an answer that
                \* brings some of them; "unknown", no answer, a 5xx or one
                \* that names none; "stay", a 204 that neither navigates
                \* nor brings a region
    MaxTries,   \* failures of a region's fetch before it gives up: 3
    MaxFaults   \* bound: fetches and forms failed, streams lost, tabs hidden,
                \* pages frozen and edits begun

ASSUME PageAssumption ==
    /\ Requests = Regions \cup Forms
    /\ Regions \cap Forms = {}
    /\ Regions # {}            \* a page without regions opens no stream
    /\ IsFiniteSet(Forms)
    /\ Outcomes \subseteq {"regions", "unknown", "stay"}
    /\ MaxTries \in Nat
    /\ MaxFaults \in Nat

VARIABLES
    page,     \* per region, what is on the page: its boot, versions, content
    st,       \* per region, live.js's state(name)
    form,     \* per form: "idle", "out", or "abandoned" by a pagehide
    running,  \* ctl is not null
    view,     \* "shown", "hidden", or "quiet": hidden for a minute
    editing,  \* per region, someone is editing it
    conn,     \* the stream: "down", "up", or "eof" (its process ended)
    known,    \* per topic, the version the stream takes the page to have
    kstale,   \* per topic, that version is another boot's
    wire,     \* change events on the way
    left,     \* history: the regions that the answer of the form which had
              \* overtaken their fetches did not bring
    faults    \* faults so far

pageVars == <<page, st, form, running, view, editing>>
connVars == <<conn, known, kstale, wire>>
serverVars == <<boot, seq, counter, changedAt, committed, owed, announced>>
liveVars == <<renderVars, pageVars, connVars, left, faults>>

Contents == [boot : Nat, v : [Topics -> Nat], seen : [Topics -> Nat]]

\* No fetch of the region was ever started.
NoFetch == "none"

RegionState ==
    [last : Requests \cup {NoFetch}, busy : BOOLEAN, queued : BOOLEAN, stale : BOOLEAN,
     tries : 0..MaxTries, retry : BOOLEAN, failed : BOOLEAN, forms : 0..Cardinality(Forms)]

PageTypeOK ==
    /\ RenderTypeOK
    /\ page \in [Regions -> Contents]
    /\ st \in [Regions -> RegionState]
    /\ form \in [Forms -> {"idle", "out", "abandoned"}]
    /\ running \in BOOLEAN
    /\ view \in {"shown", "hidden", "quiet"}
    /\ editing \in [Regions -> BOOLEAN]
    /\ conn \in {"down", "up", "eof"}
    /\ known \in [Topics -> Nat]
    /\ kstale \in [Topics -> BOOLEAN]
    /\ wire \in Seq([topic : Topics, v : Nat, boot : Nat])
    /\ left \subseteq Regions
    /\ faults \in Nat

\* The page as the first process rendered it, before anything was written.
PageInit ==
    /\ RenderInit
    /\ page = [r \in Regions |-> [boot |-> 1, v |-> [t \in Topics |-> 0],
                                  seen |-> [t \in Topics |-> 0]]]
    /\ st = [r \in Regions |-> [last |-> NoFetch, busy |-> FALSE, queued |-> FALSE,
                                stale |-> FALSE, tries |-> 0, retry |-> FALSE,
                                failed |-> FALSE, forms |-> 0]]
    /\ form = [f \in Forms |-> "idle"]
    /\ running = TRUE
    /\ view = "shown"
    /\ editing = [r \in Regions |-> FALSE]
    /\ conn = "down"
    /\ known = [t \in Topics |-> 0]
    /\ kstale = [t \in Topics |-> FALSE]
    /\ wire = <<>>
    /\ left = {}
    /\ faults = 0

Fault == faults < MaxFaults /\ faults' = faults + 1

-----------------------------------------------------------------------------
(* What the handlers below share.  Each takes the regions' state S and     *)
(* returns the next, given which regions are being edited by then.         *)

\* Mutant of Refreshed: a change that comes during a fetch is taken to be in
\* its answer.
RefreshedOnce(s, r, edited) ==
    IF s.busy THEN s
    ELSE IF s.forms > 0 THEN [s EXCEPT !.queued = TRUE]
    ELSE IF edited THEN [s EXCEPT !.stale = TRUE]
    ELSE [s EXCEPT !.busy = TRUE, !.retry = FALSE, !.last = r]

\* refresh(name), while the page runs: behind a fetch or a form it queues,
\* in a region being edited it waits, and else a fetch starts.
Refreshed(s, r, edited) ==
    IF s.busy \/ s.forms > 0 THEN [s EXCEPT !.queued = TRUE]
    ELSE IF edited THEN [s EXCEPT !.stale = TRUE]
    ELSE [s EXCEPT !.busy = TRUE, !.retry = FALSE, !.last = r]

Refresh(S, R, edits) ==
    [r \in Regions |-> IF running /\ r \in R THEN Refreshed(S[r], r, edits[r]) ELSE S[r]]

\* edited(): the regions whose editing has ended catch up.
Edited(S, edits) ==
    LET R == {r \in Regions : S[r].stale /\ ~edits[r]} IN
    Refresh([r \in Regions |-> IF r \in R THEN [S[r] EXCEPT !.stale = FALSE] ELSE S[r]], R, edits)

\* Mutant of Settle: the queued fetches are left queued.
SettleOnly(S, edits) == Edited([r \in Regions |-> [S[r] EXCEPT !.forms = @ - 1]], edits)

\* settle(): a form's answer is in, and its regions' queued fetches go.
Settle(S, edits) ==
    LET R == {r \in Regions : S[r].forms = 1 /\ S[r].queued}
        down == [r \in Regions |-> [S[r] EXCEPT !.forms = @ - 1,
                                                !.queued = @ /\ r \notin R]]
    IN  Edited(Refresh(down, R, edits), edits)

\* revive(): the regions that gave up start afresh.
Revive(S, edits) ==
    LET R == {r \in Regions : S[r].failed}
        fresh == [r \in Regions |-> IF r \in R THEN [S[r] EXCEPT !.failed = FALSE, !.tries = 0]
                                    ELSE S[r]]
    IN  [r \in Regions |-> IF r \in R THEN Refreshed(fresh[r], r, edits[r]) ELSE fresh[r]]

\* The answer of request q, as a region shows it.
Answered(q) == [boot |-> req[q].boot, v |-> req[q].v, seen |-> req[q].seen]

\* Mutant of Applies: an answer applies whichever fetch came last.
AppliesAny(q, r) == TRUE

\* apply: an answer is for r only if r started no fetch after it.
Applies(q, r) == st[r].last = q

-----------------------------------------------------------------------------
(* The server, and what the page sent it. *)

InFlight(q) == IF q \in Forms THEN form[q] = "out" ELSE st[q].busy

ServerStep ==
    /\ \/ \E t \in Topics : Commit(t)
       \/ \E T \in SUBSET Topics : Notify(T)
       \/ \E q \in Requests : InFlight(q) /\ Begin(q)
       \/ \E q \in Requests : Answer(q)
       \/ \E q \in Requests, t \in Topics : Query(q, t) \/ Attrs(q, t)
    /\ UNCHANGED <<pageVars, connVars, left, faults>>

\* The process restarts, and its end of the stream with it; an event sent
\* before may still arrive.
ServerRestart ==
    /\ Restart
    /\ conn' = IF conn = "up" THEN "eof" ELSE conn
    /\ UNCHANGED <<pageVars, known, kstale, wire, left, faults>>

-----------------------------------------------------------------------------
(* The stream. *)

\* subscription(): each topic at the lowest version a region holds, and the
\* boot only if the regions share one.
SubBoot == IF \A r, p \in Regions : page[r].boot = page[p].boot
           THEN page[CHOOSE r \in Regions : TRUE].boot ELSE 0

Lowest(t) == Min({page[r].v[t] : r \in Regions})

\* open(): at the start, after the reconnect delay, or shown again.  The
\* server compares at once with what the page says it has.
OpenStream ==
    /\ running
    /\ view # "quiet"
    /\ conn = "down"
    /\ conn' = "up"
    /\ known' = [t \in Topics |-> Lowest(t)]
    /\ kstale' = [t \in Topics |-> SubBoot # boot]
    /\ wire' = <<>>
    /\ UNCHANGED <<renderVars, pageVars, left, faults>>

\* The server's stream: an event for a topic that moved (LiveStream).
SendEvent(t) ==
    /\ conn = "up"
    /\ kstale[t] \/ counter[t] > known[t]
    /\ wire' = Append(wire, [topic |-> t, v |-> counter[t], boot |-> boot])
    /\ known' = [known EXCEPT ![t] = counter[t]]
    /\ kstale' = [kstale EXCEPT ![t] = FALSE]
    /\ UNCHANGED <<renderVars, pageVars, conn, left, faults>>

\* changed(e)'s test: the region already shows this version.
Shows(r, e) == page[r].boot = e.boot /\ page[r].v[e.topic] >= e.v

\* changed(e): each region that shows an older version fetches itself.
Deliver ==
    /\ conn # "down"
    /\ wire # <<>>
    /\ st' = Refresh(st, {r \in Regions : ~Shows(r, Head(wire))}, editing)
    /\ wire' = Tail(wire)
    /\ UNCHANGED <<renderVars, page, form, running, view, editing, conn, known, kstale, left, faults>>

Disconnect ==
    /\ conn' = "down"
    /\ wire' = <<>>
    /\ UNCHANGED <<known, kstale>>

\* The error event: the stream dropped or ended, with what was on its way.
StreamLost ==
    /\ \/ conn = "up" /\ Fault
       \/ conn = "eof" /\ UNCHANGED faults
    /\ Disconnect
    /\ UNCHANGED <<renderVars, pageVars, left>>

-----------------------------------------------------------------------------
(* A region's own fetch. *)

\* The client is done with the request in q's slot.
Taken(q) == Drop(q) /\ req[q].phase \in {"done", "failed"}

\* An answer is in: it is swapped in or, kept out by an edit, leaves the
\* region stale; one that is not the region's last does neither.
Landed(s, applies, swaps) == [s EXCEPT !.stale = ~swaps /\ (@ \/ applies)]

\* The region's own fetch is over, with an answer.
Over(s) == [s EXCEPT !.busy = FALSE, !.failed = FALSE, !.tries = 0, !.queued = FALSE]

\* The answer: swapped in if it is the region's last and the region is not
\* being edited; then a change that came meanwhile is fetched.
FetchAnswered(r) ==
    /\ st[r].busy
    /\ req[r].phase = "done"
    /\ Taken(r)
    /\ LET swaps == Applies(r, r) /\ ~editing[r]
           S == [st EXCEPT ![r] = Over(Landed(@, Applies(r, r), swaps))]
       IN  /\ page' = IF swaps THEN [page EXCEPT ![r] = Answered(r)] ELSE page
           /\ st' = IF st[r].queued THEN Refresh(S, {r}, editing) ELSE S
    /\ UNCHANGED <<form, running, view, editing, connVars, left, faults>>

\* No answer, or not a region answer: retried after a delay, MaxTries times.
Failing(s) ==
    LET gaveUp == s.tries + 1 > MaxTries IN
    [s EXCEPT !.busy = FALSE, !.queued = FALSE, !.tries = IF gaveUp THEN @ ELSE @ + 1,
              !.failed = @ \/ gaveUp, !.retry = ~gaveUp]

FetchFailed(r) ==
    /\ st[r].busy
    /\ \/ req[r].phase = "failed" /\ Taken(r) /\ UNCHANGED faults
       \/ Fault /\ IF req[r].phase = "idle" THEN UNCHANGED renderVars ELSE Drop(r)
    /\ st' = [st EXCEPT ![r] = Failing(@)]
    /\ UNCHANGED <<page, form, running, view, editing, connVars, left>>

Retry(r) ==
    /\ running
    /\ st[r].retry
    /\ st' = Refresh([st EXCEPT ![r] = [@ EXCEPT !.retry = FALSE]], {r}, editing)
    /\ UNCHANGED <<renderVars, page, form, running, view, editing, connVars, left, faults>>

-----------------------------------------------------------------------------
(* Forms. *)

\* A form is sent: its fetch is now the last of every region it names.
Submit(f) ==
    /\ running
    /\ form[f] = "idle"
    /\ form' = [form EXCEPT ![f] = "out"]
    /\ st' = [r \in Regions |-> [st[r] EXCEPT !.last = f, !.forms = @ + 1]]
    /\ UNCHANGED <<renderVars, page, running, view, editing, connVars, left, faults>>

\* The regions a form fetched last: nothing else is on its way to them.
LastTo(f) == {r \in Regions : Applies(f, r)}

\* The regions the answer lists swap in: the form's own region, if it is in
\* one, even while it is being edited, since it holds what was sent; what was
\* being edited in it may be gone after that.  A region the answer leaves out
\* only settles.
FormSwaps(f) ==
    /\ "regions" \in Outcomes
    /\ form[f] = "out"
    /\ req[f].phase = "done"
    /\ Taken(f)
    /\ \E brought \in SUBSET Regions, own \in Regions \cup {NoFetch}, still \in BOOLEAN :
         LET lands == LastTo(f) \cap brought
             swaps == {r \in lands : r = own \/ ~editing[r]}
             S == [r \in Regions |-> Landed(st[r], r \in lands, r \in swaps)]
         IN  /\ page' = [r \in Regions |-> IF r \in swaps THEN Answered(f) ELSE page[r]]
             /\ editing' = [r \in Regions |-> editing[r] /\ (r \in swaps => still)]
             /\ st' = Settle(S, editing')
             /\ left' = left \cup (LastTo(f) \ brought)
    /\ form' = [form EXCEPT ![f] = "idle"]
    /\ UNCHANGED <<running, view, connVars, faults>>

\* unknown(): no answer, a 5xx, or one that names no region.  Nothing is
\* resent; the regions fetch.
FormUnknown(f) ==
    /\ "unknown" \in Outcomes
    /\ form[f] = "out"
    /\ \/ req[f].phase = "failed" /\ Taken(f) /\ UNCHANGED faults
       \/ Fault /\ IF req[f].phase = "idle" THEN UNCHANGED renderVars ELSE Drop(f)
    /\ st' = Settle([r \in Regions |-> [st[r] EXCEPT !.queued = TRUE]], editing)
    /\ form' = [form EXCEPT ![f] = "idle"]
    /\ UNCHANGED <<page, running, view, editing, connVars, left>>

\* A 204 that stays put, or one that names a page to go to and lost to a
\* later form: the form is handed back, and brings no region.
FormStays(f) ==
    /\ "stay" \in Outcomes
    /\ form[f] = "out"
    /\ req[f].phase = "done"
    /\ Taken(f)
    /\ st' = Settle(st, editing)
    /\ form' = [form EXCEPT ![f] = "idle"]
    /\ left' = left \cup LastTo(f)
    /\ UNCHANGED <<page, running, view, editing, connVars, faults>>

\* A form a pagehide aborted settles, at once or when the page is back; it
\* had perhaps read its 5xx by then.
FormAbandoned(f) ==
    /\ form[f] = "abandoned"
    /\ \E failed \in BOOLEAN :
         st' = Settle([r \in Regions |-> [st[r] EXCEPT !.queued = @ \/ failed]], editing)
    /\ form' = [form EXCEPT ![f] = "idle"]
    /\ UNCHANGED <<renderVars, page, running, view, editing, connVars, left, faults>>

-----------------------------------------------------------------------------
(* The person, the tab and the browser. *)

Edit(r) ==
    /\ running
    /\ ~editing[r]
    /\ Fault
    /\ editing' = [editing EXCEPT ![r] = TRUE]
    /\ UNCHANGED <<renderVars, page, st, form, running, view, connVars, left>>

\* The focus has left, and nothing typed is left unsent.
EndEdit(r) ==
    /\ running
    /\ editing[r]
    /\ editing' = [editing EXCEPT ![r] = FALSE]
    /\ st' = Edited(st, editing')
    /\ UNCHANGED <<renderVars, page, form, running, view, connVars, left, faults>>

Hide ==
    /\ running
    /\ view = "shown"
    /\ Fault
    /\ view' = "hidden"
    /\ UNCHANGED <<renderVars, page, st, form, running, editing, connVars, left>>

\* Hidden for a minute: quiet() closes the stream until the tab is shown.
Quiet ==
    /\ running
    /\ view = "hidden"
    /\ view' = "quiet"
    /\ Disconnect
    /\ UNCHANGED <<renderVars, page, st, form, running, editing, left, faults>>

Show ==
    /\ running
    /\ view # "shown"
    /\ view' = "shown"
    /\ st' = Revive(st, editing)
    /\ UNCHANGED <<renderVars, page, form, running, editing, connVars, left, faults>>

\* stop(): pagehide aborts every fetch and drops what was queued.
PageHide ==
    /\ running
    /\ Fault
    /\ running' = FALSE
    /\ Disconnect
    /\ st' = [r \in Regions |-> [st[r] EXCEPT !.busy = FALSE, !.queued = FALSE, !.retry = FALSE]]
    /\ form' = [f \in Forms |-> IF form[f] = "out" THEN "abandoned" ELSE form[f]]
    /\ req' = [q \in Requests |-> IF InFlight(q) THEN IdleRequest ELSE req[q]]
    /\ UNCHANGED <<serverVars, page, view, editing, left>>

\* run(): the browser brings the page back from its cache.
PageShow ==
    /\ ~running
    /\ running' = TRUE
    /\ view' = "shown"
    /\ st' = Revive(st, editing)
    /\ UNCHANGED <<renderVars, page, form, editing, connVars, left, faults>>

-----------------------------------------------------------------------------

PageNext ==
    \/ ServerStep \/ ServerRestart
    \/ OpenStream \/ Deliver \/ StreamLost
    \/ \E t \in Topics : SendEvent(t)
    \/ \E r \in Regions : FetchAnswered(r) \/ FetchFailed(r) \/ Retry(r) \/ Edit(r) \/ EndEdit(r)
    \/ \E f \in Forms : Submit(f) \/ FormSwaps(f) \/ FormUnknown(f) \/ FormStays(f) \/ FormAbandoned(f)
    \/ Hide \/ Quiet \/ Show \/ PageHide \/ PageShow

PageSpec == PageInit /\ [][PageNext]_liveVars

\* The server answers, timers fire, an answer that is in is handled, and
\* whoever hides the tab or edits a region is done some time.  No fault, no
\* submit, no change and no end of a stream's lifetime is owed.
PageFairness ==
    /\ \A q \in Requests :
         /\ WF_liveVars(ServerStep /\ req'[q] # req[q])
         /\ q \in Regions => /\ WF_liveVars(FetchAnswered(q))
                             /\ WF_liveVars(FetchFailed(q) /\ UNCHANGED faults)
                             /\ WF_liveVars(Retry(q))
                             /\ WF_liveVars(EndEdit(q))
         /\ q \in Forms => /\ WF_liveVars(FormSwaps(q) \/ FormStays(q))
                           /\ WF_liveVars(FormUnknown(q) /\ UNCHANGED faults)
                           /\ WF_liveVars(FormAbandoned(q))
    /\ \A t \in Topics : WF_liveVars(SendEvent(t))
    /\ WF_liveVars(OpenStream) /\ WF_liveVars(Deliver)
    /\ WF_liveVars(StreamLost /\ UNCHANGED faults)
    /\ WF_liveVars(Show) /\ WF_liveVars(PageShow)

FairPageSpec == PageSpec /\ PageFairness

-----------------------------------------------------------------------------
(* Properties. *)

UpToDate(r, t) == page[r].seen[t] >= announced[t]

\* Nothing more will happen to the region unless an event comes.
Settled(r) ==
    /\ ~st[r].busy /\ ~st[r].queued /\ ~st[r].stale /\ ~st[r].retry /\ ~st[r].failed
    /\ st[r].forms = 0

\* Once an open stream has said all it had to of t, a region with nothing
\* left to do shows every announced write to it.
NotMissed(r, t) ==
    (/\ running /\ conn = "up" /\ wire = <<>>
     /\ Settled(r) /\ ~kstale[t] /\ known[t] >= counter[t])
    => UpToDate(r, t)

\* No update is missed: while the stream is open and everything it had to
\* say has been heard, a region with nothing left to do shows every
\* announced write ("each region showing an older version is fetched with
\* Rastrillo-Fragment: <id>, and replaced by the answer's element").
NothingMissed ==
    \A r \in Regions, t \in Topics : NotMissed(r, t)

\* The same of each region, until a form's answer leaves it out: the fetch
\* that form overtook was the region's only one, and nothing fetches it again.
NothingMissedBySwaps ==
    \A r \in Regions \ left, t \in Topics : NotMissed(r, t)

\* The page implements LiveView: each region shows what the database held
\* at some moment, and no late, overtaken or abandoned answer takes it
\* back to an older one.
View == INSTANCE LiveView WITH shown <- [r \in Regions |-> page[r].seen]

NeverBackwards == View!ViewSpec

\* An open page catches up: a region behind an announced write shows it in
\* time, or its fetches have failed so often that the page says so.  A form
\* whose answer left it out may keep it from it, as NothingMissed has it.
CatchesUp ==
    \A r \in Regions, t \in Topics :
        ~UpToDate(r, t) ~> (UpToDate(r, t) \/ st[r].failed \/ r \in left)

=============================================================================
