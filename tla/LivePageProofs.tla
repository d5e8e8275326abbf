--------------------------- MODULE LivePageProofs ---------------------------
(***************************************************************************)
(* LiveRender's invariants, LivePage's and its refinement of LiveView, for *)
(* any topics, regions and forms and any bounds.  The server's part of the *)
(* page's invariant is LiveRender's.                                       *)
(***************************************************************************)
EXTENDS LivePage, FiniteSetTheorems, SequenceTheorems, WellFoundedInduction, TLAPS

-----------------------------------------------------------------------------
(* LiveRender. *)

\* What a change is worth: a topic's last change is in the sequence, a topic
\* that changed has a version to step back from, and the writes a change
\* announced are in the database.
CountersInv ==
    \A t \in Topics :
        /\ changedAt[t] <= seq
        /\ changedAt[t] > 0 => counter[t] > 0
        /\ announced[t] <= committed[t]

\* What one request of the running process knows of topic t.  The start it
\* recorded decides both halves: data read with no change since holds every
\* announced write, and a version equals the counter exactly when no change
\* came since.
Knows(q, t) ==
    /\ req[q].start <= seq
    /\ req[q].seen[t] # Unread /\ changedAt[t] <= req[q].start
         => req[q].seen[t] >= announced[t]
    /\ req[q].v[t] # Unread
         => /\ req[q].v[t] <= counter[t]
            /\ req[q].v[t] = counter[t] <=> changedAt[t] <= req[q].start
    /\ req[q].phase = "done" => req[q].seen[t] # Unread /\ req[q].v[t] # Unread

RequestsInv ==
    \A q \in Requests :
        /\ req[q].boot <= boot
        /\ req[q].phase = "running" => req[q].boot = boot
        /\ req[q].phase \in {"running", "done"} /\ req[q].boot = boot
             => \A t \in Topics : Knows(q, t)

RenderInv == RenderTypeOK /\ CountersInv /\ RequestsInv

-----------------------------------------------------------------------------

LEMMA RenderInitial == RenderInit => RenderInv
BY CountersAssumption, RenderAssumption
DEF RenderInit, CountersInit, FreshHub, RenderInv, RenderTypeOK, CountersTypeOK,
    CountersInv, RequestsInv, IdleRequest, Request, Blank, Values, Unread

\* The version a request renders lies in the hub's range and equals the
\* counter exactly when the topic did not change after the request began.
LEMMA VersionLemma ==
    ASSUME CountersTypeOK, CountersInv, NEW t \in Topics, NEW start \in Nat
    PROVE  /\ Version(t, start) \in Nat
           /\ Version(t, start) <= counter[t]
           /\ Version(t, start) = counter[t] <=> changedAt[t] <= start
BY DEF CountersTypeOK, CountersInv, Version

LEMMA RenderStep == RenderInv /\ [RenderNext]_renderVars => RenderInv'
<1> SUFFICES ASSUME RenderInv, [RenderNext]_renderVars
             PROVE  RenderInv'
  OBVIOUS
<1> USE DEF RenderInv
<1>1. ASSUME NEW t \in Topics, Commit(t)
      PROVE  RenderInv'
  BY <1>1 DEF Commit, RenderTypeOK, CountersTypeOK, CountersInv, RequestsInv, Knows
<1>2. ASSUME NEW T \in SUBSET Topics, Notify(T)
      PROVE  RenderInv'
  <2>1. RenderTypeOK'
    BY <1>2 DEF Notify, RaiseLocked, RenderTypeOK, CountersTypeOK
  <2>2. CountersInv'
    BY <1>2 DEF Notify, RaiseLocked, RenderTypeOK, CountersTypeOK, CountersInv
  <2>3. RequestsInv'
    <3>1. ASSUME NEW q \in Requests, req[q].phase \in {"running", "done"},
                 req[q].boot = boot, NEW t \in Topics
          PROVE  Knows(q, t)'
      <4>1. Knows(q, t)
        BY <3>1 DEF RequestsInv
      <4>2. /\ req[q].start \in Nat
            /\ req[q].v[t] \in Int
            /\ req[q].seen[t] \in Int
            /\ seq \in Nat
            /\ counter[t] \in Nat
            /\ changedAt[t] \in Nat
        BY DEF RenderTypeOK, CountersTypeOK, Request, Values, Unread
      <4>3. req' = req /\ seq' = seq + 1
        BY <1>2 DEF Notify, RaiseLocked
      <4>4. CASE t \in T
        BY <1>2, <4>1, <4>2, <4>3, <4>4 DEF Notify, RaiseLocked, Knows
      <4>5. CASE t \notin T
        BY <1>2, <4>1, <4>2, <4>3, <4>5 DEF Notify, RaiseLocked, Knows
      <4> QED BY <4>4, <4>5
    <3> QED BY <1>2, <3>1 DEF Notify, RaiseLocked, RequestsInv
  <2> QED BY <2>1, <2>2, <2>3
<1>3. ASSUME NEW q \in Requests, Begin(q)
      PROVE  RenderInv'
  <2>1. PICK start \in {seq, 0} :
          req' = [req EXCEPT ![q] = [phase |-> "running", boot |-> boot,
                                     start |-> start, seen |-> Blank, v |-> Blank]]
    BY <1>3 DEF Begin
  <2>2. start \in Nat /\ start <= seq
    BY DEF RenderTypeOK, CountersTypeOK
  <2>3. RenderTypeOK' /\ CountersInv'
    BY <1>3, <2>1, <2>2
    DEF Begin, RenderTypeOK, CountersTypeOK, CountersInv, Request, Blank, Values, Unread
  <2>4. RequestsInv'
    BY <1>3, <2>1, <2>2
    DEF Begin, RenderTypeOK, CountersTypeOK, RequestsInv, Knows, Blank, Unread, Request
  <2> QED BY <2>3, <2>4
<1>4. ASSUME NEW q \in Requests, NEW t \in Topics, Query(q, t)
      PROVE  RenderInv'
  <2>1. committed[t] \in Nat /\ announced[t] <= committed[t] /\ committed[t] # Unread
    BY DEF RenderTypeOK, CountersInv, Unread
  <2>2. RenderTypeOK' /\ CountersInv'
    <3>1. req' \in [Requests -> Request]
      <4>1. req[q].seen \in [Topics -> Values] /\ req[q] \in Request
        BY DEF RenderTypeOK, Request
      <4>2. [req[q].seen EXCEPT ![t] = committed[t]] \in [Topics -> Values]
        BY <2>1, <4>1 DEF Values
      <4>3. [req[q] EXCEPT !.seen[t] = committed[t]] \in Request
        BY <4>1, <4>2 DEF Request
      <4> QED BY <1>4, <4>3 DEF Query, RenderTypeOK
    <3> QED BY <1>4, <3>1 DEF Query, RenderTypeOK, CountersTypeOK, CountersInv
  <2>3. RequestsInv'
    BY <1>4, <2>1 DEF Query, RenderTypeOK, CountersTypeOK, RequestsInv, Knows, Request, Values
  <2> QED BY <2>2, <2>3
<1>5. ASSUME NEW q \in Requests, NEW t \in Topics, Attrs(q, t)
      PROVE  RenderInv'
  <2> DEFINE w == Version(t, req[q].start)
  <2>1. /\ w \in Nat
        /\ w <= counter[t]
        /\ w = counter[t] <=> changedAt[t] <= req[q].start
    BY VersionLemma DEF RenderTypeOK, Request
  <2>2. req' = [req EXCEPT ![q].v[t] = w]
    BY <1>5 DEF Attrs
  <2> HIDE DEF w
  <2>3. RenderTypeOK' /\ CountersInv'
    <3>1. req' \in [Requests -> Request]
      <4>1. req[q].v \in [Topics -> Values] /\ req[q] \in Request
        BY DEF RenderTypeOK, Request
      <4>2. [req[q].v EXCEPT ![t] = w] \in [Topics -> Values]
        BY <2>1, <4>1 DEF Values
      <4>3. [req[q] EXCEPT !.v[t] = w] \in Request
        BY <4>1, <4>2 DEF Request
      <4> QED BY <2>2, <4>3 DEF RenderTypeOK
    <3> QED BY <1>5, <3>1 DEF Attrs, RenderTypeOK, CountersTypeOK, CountersInv
  <2>4. RequestsInv'
    <3>1. /\ \A p \in Requests \ {q} : req'[p] = req[p]
          /\ req'[q].phase = "running" /\ req[q].phase = "running"
          /\ req'[q].boot = req[q].boot /\ req'[q].start = req[q].start
          /\ req'[q].seen = req[q].seen
          /\ \A u \in Topics : req'[q].v[u] = IF u = t THEN w ELSE req[q].v[u]
      BY <1>5, <2>2 DEF Attrs, RenderTypeOK, Request
    <3>2. UNCHANGED <<boot, seq, counter, changedAt, announced>>
      BY <1>5 DEF Attrs
    <3>3. ASSUME NEW u \in Topics, req[q].boot = boot
          PROVE  Knows(q, u)'
      <4>1. Knows(q, u)
        BY <1>5, <3>3 DEF Attrs, RequestsInv
      <4> QED BY <2>1, <3>1, <3>2, <4>1 DEF Knows
    <3>4. \A p \in Requests \ {q}, u \in Topics : Knows(p, u)' <=> Knows(p, u)
      BY <3>1, <3>2 DEF Knows
    <3> QED BY <3>1, <3>2, <3>3, <3>4 DEF RequestsInv
  <2> QED BY <2>3, <2>4
<1>6. ASSUME NEW q \in Requests, Answer(q)
      PROVE  RenderInv'
  <2>1. RenderTypeOK' /\ CountersInv'
    BY <1>6 DEF Answer, RenderTypeOK, CountersTypeOK, CountersInv, Request
  <2>2. RequestsInv'
    <3>1. /\ \A p \in Requests \ {q} : req'[p] = req[p]
          /\ req[q].phase = "running" /\ req'[q].phase = "done"
          /\ req'[q].boot = req[q].boot /\ req'[q].start = req[q].start
          /\ req'[q].seen = req[q].seen /\ req'[q].v = req[q].v
          /\ \A u \in Topics : req[q].seen[u] # Unread /\ req[q].v[u] # Unread
      BY <1>6 DEF Answer, RenderTypeOK, Request
    <3>2. UNCHANGED <<boot, seq, counter, changedAt, announced>>
      BY <1>6 DEF Answer
    <3>3. \A p \in Requests \ {q}, u \in Topics : Knows(p, u)' <=> Knows(p, u)
      BY <3>1, <3>2 DEF Knows
    <3>4. \A u \in Topics : Knows(q, u) => Knows(q, u)'
      BY <3>1, <3>2 DEF Knows
    <3>5. ASSUME NEW p \in Requests, p # q
          PROVE  /\ req[p].boot <= boot' /\ req'[p] = req[p]
                 /\ req[p].phase = "running" => req[p].boot = boot'
                 /\ req[p].phase \in {"running", "done"} /\ req[p].boot = boot'
                      => \A u \in Topics : Knows(p, u)'
      BY <3>1, <3>2, <3>3, <3>5 DEF RequestsInv
    <3>6. /\ req'[q].boot <= boot'
          /\ req[q].boot = boot' => \A u \in Topics : Knows(q, u)'
      BY <3>1, <3>2, <3>4 DEF RequestsInv
    <3> QED
      <4> SUFFICES ASSUME NEW p \in Requests
                   PROVE  /\ req'[p].boot <= boot'
                          /\ req'[p].phase = "running" => req'[p].boot = boot'
                          /\ req'[p].phase \in {"running", "done"} /\ req'[p].boot = boot'
                               => \A u \in Topics : Knows(p, u)'
        BY DEF RequestsInv
      <4>1. CASE p = q
        BY <3>1, <3>6, <4>1
      <4>2. CASE p # q
        BY <3>5, <4>2
      <4> QED BY <4>1, <4>2
  <2> QED BY <2>1, <2>2
<1>7. ASSUME NEW q \in Requests, Drop(q)
      PROVE  RenderInv'
  BY <1>7
  DEF Drop, RenderTypeOK, CountersTypeOK, CountersInv, RequestsInv, Knows, IdleRequest,
      Request, Blank, Values, Unread
<1>8. CASE Restart
  <2>1. RenderTypeOK'
    <3>1. \A q \in Requests : [req[q] EXCEPT !.phase = "failed"] \in Request
      BY DEF RenderTypeOK, Request
    <3>2. req' \in [Requests -> Request]
      BY <1>8, <3>1 DEF Restart, RenderTypeOK
    <3> QED BY <1>8, <3>2 DEF Restart, NewProcess, RenderTypeOK, CountersTypeOK
  <2>2. CountersInv'
    BY <1>8 DEF Restart, NewProcess, RenderTypeOK, CountersInv
  <2>3. RequestsInv'
    BY <1>8 DEF Restart, NewProcess, RenderTypeOK, CountersTypeOK, RequestsInv, Request
  <2> QED BY <2>1, <2>2, <2>3
<1>9. CASE UNCHANGED renderVars
  BY <1>9
  DEF renderVars, RenderTypeOK, CountersTypeOK, CountersInv, RequestsInv, Knows
<1> QED
  BY <1>1, <1>2, <1>3, <1>4, <1>5, <1>6, <1>7, <1>8, <1>9 DEF RenderNext

LEMMA RenderInvariance == RenderSpec => []RenderInv
BY RenderInitial, RenderStep, PTL DEF RenderSpec

-----------------------------------------------------------------------------

\* Every state of the rendering model has its type: the counters never run
\* below zero, and a version on a page is a natural number.
THEOREM RenderTypeCorrect == RenderSpec => []RenderTypeOK
BY RenderInvariance, PTL DEF RenderInv

\* Hub.version hides no write: however commits, notifies, queries and
\* renders interleave, a page at the newest version of a topic shows
\* everything the newest change announced.
THEOREM RenderComplete == RenderSpec => []CurrentMeansComplete
<1>1. RenderInv => CurrentMeansComplete
  <2> SUFFICES ASSUME RenderInv, NEW q \in Requests, NEW t \in Topics,
                      req[q].phase = "done", req[q].boot = boot,
                      req[q].v[t] >= counter[t]
               PROVE  req[q].seen[t] >= announced[t]
    BY DEF CurrentMeansComplete
  <2>1. Knows(q, t)
    BY DEF RenderInv, RequestsInv
  <2>2. req[q].v[t] \in Int /\ counter[t] \in Nat
    BY DEF RenderInv, RenderTypeOK, CountersTypeOK, Request, Values, Unread
  <2> QED BY <2>1, <2>2 DEF Knows
<1> QED BY <1>1, RenderInvariance, PTL

\* Hub.version asks for no needless fetch: a page whose request began after
\* the last change of a topic is at its newest version.
THEOREM RenderSettles == RenderSpec => []FreshMeansCurrent
<1>1. RenderInv => FreshMeansCurrent
  BY DEF RenderInv, RequestsInv, Knows, FreshMeansCurrent
<1> QED BY <1>1, RenderInvariance, PTL

-----------------------------------------------------------------------------
(* LivePage. *)

\* What is read of the database is in it; an answer is complete; and a slot
\* without a request holds nothing of an earlier one.
SlotsInv ==
    \A q \in Requests :
        /\ req[q].phase = "idle" \/ ~InFlight(q) => req[q] = IdleRequest
        /\ \A t \in Topics :
             /\ req[q].seen[t] <= committed[t]
             /\ req[q].phase = "done" => req[q].seen[t] # Unread /\ req[q].v[t] # Unread

\* What is on the page: nothing from a process still to come, and of the
\* running one no newer version than the hub's; a region at the newest one
\* shows every announced write.
ContentsInv ==
    \A r \in Regions, t \in Topics :
        /\ page[r].boot <= boot
        /\ page[r].seen[t] <= committed[t]
        /\ page[r].boot = boot
             => /\ page[r].v[t] <= counter[t]
                /\ page[r].v[t] = counter[t] => page[r].seen[t] >= announced[t]

\* The forms that are out or abandoned.
Open(fm) == {f \in Forms : fm[f] # "idle"}

\* What holds of region r's state s, given the forms fm, the requests rq and
\* the content shown: s counts the open forms; only r or a form is its last
\* fetch; without a fetch of its own its slot is empty; and what its last
\* fetch has read is no older than what is shown.
Sound(s, r, fm, rq, shown) ==
    /\ s \in RegionState
    /\ s.forms = Cardinality(Open(fm))
    /\ s.last \in {r, NoFetch} \cup Forms
    /\ ~s.busy => rq[r] = IdleRequest
    /\ s.last \in {r} \cup Forms =>
         \A t \in Topics : rq[s.last].seen[t] # Unread => shown[t] <= rq[s.last].seen[t]

RegionsInv == \A r \in Regions : Sound(st[r], r, form, req, page[r].seen)

\* Only a running page fetches, sends forms or has a stream.
RunningInv ==
    /\ conn # "down" => running
    /\ \A r \in Regions : st[r].busy => running
    /\ \A f \in Forms : form[f] = "out" => running

\* The region's last fetch is under way.
Out(s, r, fm) == (s.last = r /\ s.busy) \/ (s.last \in Forms /\ fm[s.last] = "out")

\* The region will show the writes to t announced so far, a: its last fetch
\* brings them, or another fetch is still to come after it.
Due(s, r, fm, rq, t, a) ==
    \/ s.queued
    \/ s.retry
    \/ (s.failed /\ ~s.busy)
    \/ /\ s.stale \/ Out(s, r, fm)
       /\ Out(s, r, fm) => rq[s.last].seen[t] = Unread \/ rq[s.last].seen[t] >= a

\* An event for the newest version of t is on its way.
OnWire(t) == \E i \in DOMAIN wire : wire[i].topic = t /\ wire[i].v >= counter[t]

\* A region an open stream has nothing more to say to is up to date, will
\* be, or is about to hear.
HeardInv ==
    /\ conn = "up" => \A i \in DOMAIN wire : wire[i].boot = boot
    /\ conn = "up" => \A t \in Topics : ~kstale[t] => known[t] <= counter[t]
    /\ conn = "up" =>
         \A r \in Regions \ left, t \in Topics :
            ~kstale[t] /\ known[t] >= counter[t] =>
                UpToDate(r, t) \/ OnWire(t) \/ Due(st[r], r, form, req, t, announced[t])

PageInv ==
    /\ boot > 0
    /\ PageTypeOK
    /\ SlotsInv
    /\ ContentsInv
    /\ RegionsInv
    /\ RunningInv
    /\ HeardInv

FullInv == RenderInv /\ PageInv
-----------------------------------------------------------------------------
(* What the shared handlers do to one region's state. *)

\* The lowest of some versions is one of them, and no higher than any.
LEMMA LowestOf ==
    ASSUME NEW S \in SUBSET Nat, S # {}
    PROVE  Min(S) \in S /\ \A n \in S : Min(S) <= n
<1>1. PICK x \in S : \A y \in S : ~ (<<y, x>> \in OpToRel(<, Nat))
  BY WFMin, NatLessThanWellFounded
<1>2. \A y \in S : ~ (y < x)
  BY <1>1 DEF OpToRel
<1>3. \A y \in S : x <= y
  BY <1>2
<1> QED BY <1>3 DEF Min

FormStates == {"idle", "out", "abandoned"}

LEMMA OpenFinite ==
    ASSUME NEW fm
    PROVE  /\ IsFiniteSet(Open(fm))
           /\ Cardinality(Open(fm)) \in 0..Cardinality(Forms)
           /\ Cardinality(Forms) \in Nat
           /\ Cardinality(Open(fm)) = 0 <=> Open(fm) = {}
<1>1. Open(fm) \in SUBSET Forms
  BY DEF Open
<1>2. /\ IsFiniteSet(Open(fm))
      /\ Cardinality(Open(fm)) <= Cardinality(Forms)
  BY <1>1, FS_Subset, PageAssumption
<1> QED BY <1>2, FS_CardinalityType, FS_EmptySet, PageAssumption

\* A form that closes takes one from the count, and one that opens adds one.
LEMMA OpenCloses ==
    ASSUME NEW fm \in [Forms -> FormStates], NEW f \in Forms, fm[f] # "idle"
    PROVE  Cardinality(Open([fm EXCEPT ![f] = "idle"])) = Cardinality(Open(fm)) - 1
<1>1. Open([fm EXCEPT ![f] = "idle"]) = Open(fm) \ {f}
  BY DEF Open
<1>2. f \in Open(fm)
  BY DEF Open
<1> QED BY <1>1, <1>2, OpenFinite, FS_RemoveElement

LEMMA OpenOpens ==
    ASSUME NEW fm \in [Forms -> FormStates], NEW f \in Forms, fm[f] = "idle"
    PROVE  Cardinality(Open([fm EXCEPT ![f] = "out"])) = Cardinality(Open(fm)) + 1
<1>1. Open([fm EXCEPT ![f] = "out"]) = Open(fm) \cup {f}
  BY DEF Open
<1>2. f \notin Open(fm)
  BY DEF Open
<1> QED BY <1>1, <1>2, OpenFinite, FS_AddElement

\* refresh queues, waits for an edit, or starts a fetch.
LEMMA RefreshedIs ==
    ASSUME NEW s \in RegionState, NEW r \in Regions, NEW e \in BOOLEAN
    PROVE  /\ Refreshed(s, r, e) \in RegionState
           /\ Refreshed(s, r, e).forms = s.forms
           /\ Refreshed(s, r, e).failed = s.failed
           /\ \/ /\ s.busy \/ s.forms > 0
                 /\ Refreshed(s, r, e).queued
                 /\ Refreshed(s, r, e).last = s.last
                 /\ Refreshed(s, r, e).busy = s.busy
              \/ /\ ~s.busy /\ ~(s.forms > 0)
                 /\ Refreshed(s, r, e).stale
                 /\ ~Refreshed(s, r, e).busy
                 /\ Refreshed(s, r, e).last = s.last
              \/ /\ ~s.busy /\ ~(s.forms > 0)
                 /\ Refreshed(s, r, e).busy
                 /\ Refreshed(s, r, e).last = r
<1>1. r \in Requests
  BY PageAssumption
<1>2. /\ [s EXCEPT !.queued = TRUE] \in RegionState
      /\ [s EXCEPT !.stale = TRUE] \in RegionState
      /\ [s EXCEPT !.busy = TRUE, !.retry = FALSE, !.last = r] \in RegionState
  BY <1>1 DEF RegionState
<1>3. CASE s.busy \/ s.forms > 0
  BY <1>2, <1>3 DEF Refreshed, RegionState
<1>4. CASE ~(s.busy \/ s.forms > 0) /\ e
  BY <1>2, <1>4 DEF Refreshed, RegionState
<1>5. CASE ~(s.busy \/ s.forms > 0) /\ ~e
  BY <1>2, <1>5 DEF Refreshed, RegionState
<1> QED BY <1>3, <1>4, <1>5

\* A region refreshed while its state is sound has a fetch to come that
\* reads whatever is announced by now.
LEMMA RefreshedSound ==
    ASSUME NEW s, NEW r \in Regions, NEW e \in BOOLEAN, NEW fm, NEW rq, NEW shown,
           Sound(s, r, fm, rq, shown)
    PROVE  /\ Sound(Refreshed(s, r, e), r, fm, rq, shown)
           /\ \A a : \A t \in Topics : Due(Refreshed(s, r, e), r, fm, rq, t, a)
<1> DEFINE n == Refreshed(s, r, e)
<1>1. s \in RegionState /\ s.forms \in Nat /\ s.busy \in BOOLEAN
  BY OpenFinite DEF Sound, RegionState
<1>2. /\ n \in RegionState /\ n.forms = s.forms /\ n.failed = s.failed
      /\ \/ /\ s.busy \/ s.forms > 0
            /\ n.queued /\ n.last = s.last /\ n.busy = s.busy
         \/ /\ ~s.busy /\ ~(s.forms > 0)
            /\ n.stale /\ ~n.busy /\ n.last = s.last
         \/ /\ ~s.busy /\ ~(s.forms > 0)
            /\ n.busy /\ n.last = r
  BY <1>1, RefreshedIs
<1> HIDE DEF n
<1> SUFFICES /\ Sound(n, r, fm, rq, shown)
             /\ \A a : \A t \in Topics : Due(n, r, fm, rq, t, a)
  BY DEF n
<1>3. CASE s.busy \/ s.forms > 0
  <2>1. n.queued /\ n.last = s.last /\ n.busy = s.busy
    BY <1>2, <1>3
  <2> QED BY <1>2, <2>1 DEF Sound, Due
<1>4. CASE ~(s.busy \/ s.forms > 0)
  <2>1. s.forms = 0
    BY <1>1, <1>4
  <2>2. \A f \in Forms : fm[f] # "out"
    BY <2>1, OpenFinite DEF Sound, Open
  <2>3. rq[r] = IdleRequest /\ \A t \in Topics : rq[r].seen[t] = Unread
    BY <1>4 DEF Sound, IdleRequest, Blank
  <2>4. CASE n.stale /\ ~n.busy /\ n.last = s.last
    <3>1. ~Out(n, r, fm)
      BY <2>2, <2>4 DEF Out
    <3> QED BY <1>2, <1>4, <2>4, <3>1 DEF Sound, Due
  <2>5. CASE n.busy /\ n.last = r
    <3>1. Out(n, r, fm)
      BY <2>5 DEF Out
    <3>2. Sound(n, r, fm, rq, shown)
      BY <1>2, <2>3, <2>5 DEF Sound
    <3> QED BY <2>3, <2>5, <3>1, <3>2 DEF Due
  <2> QED BY <1>2, <1>4, <2>4, <2>5
<1> QED BY <1>3, <1>4

\* What Sound says depends on a region's fetches and forms only.
LEMMA SoundSame ==
    ASSUME NEW s, NEW n \in RegionState, NEW r, NEW fm, NEW rq, NEW shown,
           Sound(s, r, fm, rq, shown), n.forms = s.forms, n.last = s.last, n.busy = s.busy
    PROVE  Sound(n, r, fm, rq, shown)
BY DEF Sound

\* edited keeps what is due: a stale region is refreshed.
LEMMA EditedSound ==
    ASSUME NEW S, NEW edits \in [Regions -> BOOLEAN], NEW r \in Regions, NEW fm, NEW rq,
           NEW shown, Sound(S[r], r, fm, rq, shown)
    PROVE  /\ Sound(Edited(S, edits)[r], r, fm, rq, shown)
           /\ running => \A a : \A t \in Topics : Due(S[r], r, fm, rq, t, a)
                                                => Due(Edited(S, edits)[r], r, fm, rq, t, a)
           /\ Edited(S, edits)[r].busy => S[r].busy \/ running
<1> DEFINE m == [S[r] EXCEPT !.stale = FALSE]
           n == Edited(S, edits)[r]
<1>1. S[r] \in RegionState /\ edits[r] \in BOOLEAN
  BY DEF Sound
<1>2. /\ m \in RegionState
      /\ m.forms = S[r].forms /\ m.last = S[r].last /\ m.busy = S[r].busy
  BY <1>1 DEF RegionState
<1>3. n = IF S[r].stale /\ ~edits[r]
          THEN IF running THEN Refreshed(m, r, edits[r]) ELSE m
          ELSE S[r]
  BY DEF Edited, Refresh
<1> HIDE DEF m, n
<1>4. Sound(m, r, fm, rq, shown)
  BY <1>2, SoundSame
<1>5. /\ Sound(Refreshed(m, r, edits[r]), r, fm, rq, shown)
      /\ \A a : \A t \in Topics : Due(Refreshed(m, r, edits[r]), r, fm, rq, t, a)
  BY <1>1, <1>4, RefreshedSound
<1>6. CASE S[r].stale /\ ~edits[r] /\ running
  BY <1>3, <1>5, <1>6 DEF n
<1>7. CASE S[r].stale /\ ~edits[r] /\ ~running
  BY <1>2, <1>3, <1>4, <1>7 DEF n
<1>8. CASE ~(S[r].stale /\ ~edits[r])
  BY <1>3, <1>8 DEF n
<1> QED BY <1>6, <1>7, <1>8

\* settle keeps what is due once its form is closed: what was queued behind
\* the last of the forms is fetched, and else stays queued.
LEMMA SettleSound ==
    ASSUME NEW S, NEW edits \in [Regions -> BOOLEAN], NEW r \in Regions,
           NEW fm \in [Forms -> FormStates], NEW f \in Forms, fm[f] # "idle", NEW rq, NEW shown,
           NEW fm2, fm2 = [fm EXCEPT ![f] = "idle"], Sound(S[r], r, fm, rq, shown)
    PROVE  /\ Sound(Settle(S, edits)[r], r, fm2, rq, shown)
           /\ running => \A a : \A t \in Topics : Due(S[r], r, fm2, rq, t, a)
                                                => Due(Settle(S, edits)[r], r, fm2, rq, t, a)
           /\ Settle(S, edits)[r].busy => S[r].busy \/ running
<1> DEFINE R == {p \in Regions : S[p].forms = 1 /\ S[p].queued}
           down == [p \in Regions |-> [S[p] EXCEPT !.forms = @ - 1, !.queued = @ /\ p \notin R]]
           s == S[r]
           d == down[r]
           T == Refresh(down, R, edits)
<1>1. s \in RegionState /\ s.forms = Cardinality(Open(fm)) /\ edits[r] \in BOOLEAN
  BY DEF Sound
<1>2. /\ s.forms \in Nat /\ s.forms > 0 /\ s.forms <= Cardinality(Forms)
      /\ Cardinality(Open(fm2)) = s.forms - 1
  <2>1. Open(fm) # {}
    BY DEF Open
  <2>2. Cardinality(Open(fm)) \in 0..Cardinality(Forms) /\ Cardinality(Open(fm)) # 0
        /\ Cardinality(Forms) \in Nat
    BY <2>1, OpenFinite
  <2>3. Cardinality(Open(fm2)) = Cardinality(Open(fm)) - 1
    BY OpenCloses
  <2> QED BY <1>1, <2>2, <2>3
<1>3. d = [s EXCEPT !.forms = s.forms - 1, !.queued = s.queued /\ r \notin R]
  OBVIOUS
<1>4. r \in R <=> s.forms = 1 /\ s.queued
  OBVIOUS
<1>5. T[r] = IF running /\ r \in R THEN Refreshed(d, r, edits[r]) ELSE d
  BY DEF Refresh
<1>6. Settle(S, edits) = Edited(T, edits)
  BY DEF Settle
<1> HIDE DEF R, down, s, d, T
<1>7. s.forms - 1 \in 0..Cardinality(Forms)
  BY <1>1, <1>2, OpenFinite
<1>8. (s.queued /\ r \notin R) \in BOOLEAN
  OBVIOUS
<1>9. /\ d \in RegionState
      /\ d.forms = s.forms - 1
      /\ d.queued = (s.queued /\ r \notin R)
      /\ d.last = s.last /\ d.busy = s.busy /\ d.stale = s.stale
      /\ d.retry = s.retry /\ d.failed = s.failed
  BY <1>1, <1>3, <1>7, <1>8, Zenon DEF RegionState
<1>10. Sound(d, r, fm2, rq, shown)
  BY <1>1, <1>2, <1>9 DEF Sound, s
<1>11. \A a : \A t \in Topics : Due(s, r, fm2, rq, t, a) /\ r \notin R => Due(d, r, fm2, rq, t, a)
  BY <1>9 DEF Due, Out
<1>12. /\ Sound(Refreshed(d, r, edits[r]), r, fm2, rq, shown)
       /\ \A a : \A t \in Topics : Due(Refreshed(d, r, edits[r]), r, fm2, rq, t, a)
  BY <1>1, <1>10, RefreshedSound
<1>13. /\ Sound(T[r], r, fm2, rq, shown)
       /\ running => \A a : \A t \in Topics : Due(s, r, fm2, rq, t, a) => Due(T[r], r, fm2, rq, t, a)
       /\ T[r].busy => s.busy \/ running
  <2>1. CASE running /\ r \in R
    BY <1>5, <1>12, <2>1
  <2>2. CASE ~(running /\ r \in R)
    BY <1>5, <1>9, <1>10, <1>11, <2>2
  <2> QED BY <2>1, <2>2
<1>14. /\ Sound(Edited(T, edits)[r], r, fm2, rq, shown)
       /\ running => \A a : \A t \in Topics : Due(T[r], r, fm2, rq, t, a)
                                            => Due(Edited(T, edits)[r], r, fm2, rq, t, a)
       /\ Edited(T, edits)[r].busy => T[r].busy \/ running
  BY <1>13, EditedSound
<1> QED BY <1>6, <1>13, <1>14 DEF s

\* revive keeps what is due: a region that gave up is fetched again.
LEMMA ReviveSound ==
    ASSUME NEW S, NEW edits \in [Regions -> BOOLEAN], NEW r \in Regions, NEW fm, NEW rq,
           NEW shown, Sound(S[r], r, fm, rq, shown)
    PROVE  /\ Sound(Revive(S, edits)[r], r, fm, rq, shown)
           /\ \A a : \A t \in Topics : Due(S[r], r, fm, rq, t, a)
                                     => Due(Revive(S, edits)[r], r, fm, rq, t, a)
<1> DEFINE m == [S[r] EXCEPT !.failed = FALSE, !.tries = 0]
           n == Revive(S, edits)[r]
<1>1. S[r] \in RegionState /\ edits[r] \in BOOLEAN /\ 0 \in 0..MaxTries
  BY PageAssumption DEF Sound
<1>2. /\ m \in RegionState
      /\ m.forms = S[r].forms /\ m.last = S[r].last /\ m.busy = S[r].busy
  BY <1>1, Zenon DEF RegionState
<1>3. n = IF S[r].failed THEN Refreshed(m, r, edits[r]) ELSE S[r]
  BY DEF Revive
<1> HIDE DEF m, n
<1>4. Sound(m, r, fm, rq, shown)
  BY <1>2, SoundSame
<1>5. /\ Sound(Refreshed(m, r, edits[r]), r, fm, rq, shown)
      /\ \A a : \A t \in Topics : Due(Refreshed(m, r, edits[r]), r, fm, rq, t, a)
  BY <1>1, <1>4, RefreshedSound
<1>6. CASE S[r].failed
  BY <1>3, <1>5, <1>6 DEF n
<1>7. CASE ~S[r].failed
  BY <1>3, <1>7 DEF n
<1> QED BY <1>6, <1>7

-----------------------------------------------------------------------------
(* The server's part: a step of the page is a step of LiveRender, or a     *)
(* pagehide, which drops several requests at once.                         *)

LEMMA PageIsRender ==
    ASSUME [PageNext]_liveVars
    PROVE  [RenderNext]_renderVars \/ PageHide
<1> USE DEF renderVars
<1>1. ASSUME NEW q \in Requests, Taken(q)
      PROVE  RenderNext
  BY <1>1 DEF Taken, RenderNext
<1>2. ASSUME NEW q \in Requests, Drop(q)
      PROVE  RenderNext
  BY <1>2 DEF RenderNext
<1>3. CASE ServerStep
  BY <1>3 DEF ServerStep, RenderNext
<1>4. CASE ServerRestart
  BY <1>4 DEF ServerRestart, RenderNext
<1>5. CASE OpenStream \/ Deliver \/ StreamLost \/ Hide \/ Quiet \/ Show \/ PageShow
  BY <1>5 DEF OpenStream, Deliver, StreamLost, Hide, Quiet, Show, PageShow
<1>6. CASE \E t \in Topics : SendEvent(t)
  BY <1>6 DEF SendEvent
<1>7. ASSUME NEW r \in Regions,
             FetchAnswered(r) \/ FetchFailed(r) \/ Retry(r) \/ Edit(r) \/ EndEdit(r)
      PROVE  [RenderNext]_renderVars
  <2> r \in Requests
    BY PageAssumption
  <2> QED BY <1>1, <1>2, <1>7 DEF FetchAnswered, FetchFailed, Retry, Edit, EndEdit
<1>8. ASSUME NEW f \in Forms,
             Submit(f) \/ FormSwaps(f) \/ FormUnknown(f) \/ FormStays(f) \/ FormAbandoned(f)
      PROVE  [RenderNext]_renderVars
  <2> f \in Requests
    BY PageAssumption
  <2> QED BY <1>1, <1>2, <1>8 DEF Submit, FormSwaps, FormUnknown, FormStays, FormAbandoned
<1>9. CASE UNCHANGED liveVars
  BY <1>9 DEF liveVars
<1> QED BY <1>3, <1>4, <1>5, <1>6, <1>7, <1>8, <1>9, Zenon DEF PageNext

LEMMA RenderKept ==
    ASSUME RenderInv, [PageNext]_liveVars
    PROVE  RenderInv'
<1>1. CASE [RenderNext]_renderVars
  BY <1>1, RenderStep
<1>2. CASE PageHide
  <2>1. /\ req' = [q \in Requests |-> IF InFlight(q) THEN IdleRequest ELSE req[q]]
        /\ UNCHANGED serverVars
    BY <1>2 DEF PageHide
  <2>2. IdleRequest \in Request /\ IdleRequest.phase = "idle" /\ IdleRequest.boot = 0
    BY DEF IdleRequest, Request, Blank, Values, Unread
  <2>3. RenderTypeOK' /\ CountersInv'
    BY <2>1, <2>2 DEF RenderInv, RenderTypeOK, CountersTypeOK, CountersInv, serverVars
  <2>4. ASSUME NEW q \in Requests
        PROVE  /\ req'[q].boot <= boot
               /\ req'[q].phase = "running" => req'[q].boot = boot
               /\ req'[q].phase \in {"running", "done"} /\ req'[q].boot = boot
                    => \A t \in Topics : Knows(q, t)'
    <3>1. CASE InFlight(q)
      BY <2>1, <2>2, <3>1 DEF RenderInv, RenderTypeOK, CountersTypeOK
    <3>2. CASE ~InFlight(q)
      BY <2>1, <3>2 DEF RenderInv, RequestsInv, Knows, serverVars
    <3> QED BY <3>1, <3>2
  <2> QED BY <2>1, <2>3, <2>4 DEF RenderInv, RequestsInv, serverVars
<1> QED BY <1>1, <1>2, PageIsRender

LEMMA IdleUnread ==
    /\ IdleRequest \in Request
    /\ IdleRequest.phase = "idle"
    /\ \A t \in Topics : IdleRequest.seen[t] = Unread /\ IdleRequest.v[t] = Unread
BY DEF IdleRequest, Request, Blank, Values, Unread

LEMMA NumbersLemma ==
    ASSUME RenderTypeOK, PageTypeOK
    PROVE  /\ boot \in Nat
           /\ \A t \in Topics : /\ counter[t] \in Nat /\ announced[t] \in Nat
                                /\ committed[t] \in Nat /\ known[t] \in Nat
           /\ \A r \in Regions : /\ page[r].boot \in Nat
                                 /\ \A t \in Topics : page[r].v[t] \in Nat /\ page[r].seen[t] \in Nat
           /\ \A q \in Requests : /\ req[q].boot \in Nat
                                  /\ req[q].phase \in {"idle", "running", "done", "failed"}
                                  /\ \A t \in Topics : /\ req[q].seen[t] \in Nat \cup {-1}
                                                       /\ req[q].v[t] \in Nat \cup {-1}
BY DEF RenderTypeOK, CountersTypeOK, PageTypeOK, Contents, Request, Values, Unread

LEMMA PageInitial == PageInit => FullInv
<1> SUFFICES ASSUME PageInit
             PROVE  FullInv
  OBVIOUS
<1>1. RenderInv
  BY RenderInitial DEF PageInit
<1>2. Cardinality(Open(form)) = 0
  <2>1. \A f \in Forms : form[f] = "idle"
    BY DEF PageInit
  <2>2. Open(form) = {}
    BY <2>1 DEF Open
  <2> QED BY <2>2, OpenFinite
<1>3. PageTypeOK
  <2>1. page \in [Regions -> Contents]
    BY DEF PageInit, Contents
  <2>2. st \in [Regions -> RegionState]
    <3>1. 0 \in 0..Cardinality(Forms) /\ 0 \in 0..MaxTries
      BY OpenFinite, PageAssumption
    <3> QED BY <3>1 DEF PageInit, RegionState
  <2>3. wire \in Seq([topic : Topics, v : Nat, boot : Nat])
    BY DEF PageInit
  <2>4. form \in [Forms -> {"idle", "out", "abandoned"}] /\ editing \in [Regions -> BOOLEAN]
    BY DEF PageInit
  <2>5. known \in [Topics -> Nat] /\ kstale \in [Topics -> BOOLEAN]
    BY DEF PageInit
  <2> QED BY <1>1, <2>1, <2>2, <2>3, <2>4, <2>5 DEF PageInit, PageTypeOK, RenderInv
<1>4. boot > 0 /\ SlotsInv /\ ContentsInv
  BY IdleUnread DEF PageInit, RenderInit, CountersInit, FreshHub, SlotsInv, ContentsInv, Unread
<1>5. RegionsInv
  <2> SUFFICES ASSUME NEW r \in Regions
               PROVE  Sound(st[r], r, form, req, page[r].seen)
    BY DEF RegionsInv
  <2>1. \A q \in Requests : req[q] = IdleRequest
    BY DEF PageInit, RenderInit
  <2>2. /\ st[r] \in RegionState
        /\ st[r].forms = 0 /\ st[r].last = NoFetch
    BY <1>3 DEF PageInit, PageTypeOK
  <2> QED BY <1>2, <2>1, <2>2, IdleUnread, PageAssumption DEF Sound
<1>6. RunningInv /\ HeardInv
  BY DEF PageInit, RunningInv, HeardInv
<1> QED BY <1>1, <1>3, <1>4, <1>5, <1>6 DEF FullInv, PageInv

-----------------------------------------------------------------------------
(* The server's steps. *)

\* A request that begins, reads or answers: the slots of fetches that are
\* not under way stay empty, and what is read now is at least as new as
\* everything shown and announced.
LEMMA SlotsMove ==
    ASSUME FullInv, RenderInv', UNCHANGED <<boot, counter, announced, committed>>,
           UNCHANGED <<pageVars, connVars, left, faults>>,
           \A q \in Requests :
              /\ req'[q].phase = "idle" \/ ~InFlight(q) => req'[q] = IdleRequest
              /\ \A t \in Topics :
                    /\ req'[q].seen[t] \in {req[q].seen[t], committed[t], Unread}
                    /\ req'[q].phase = "done" => req'[q].seen[t] # Unread /\ req'[q].v[t] # Unread
    PROVE  PageInv'
<1> USE DEF FullInv, PageInv
<1>1. RenderTypeOK
  BY DEF RenderInv
<1>2. PageTypeOK' /\ (boot > 0)'
  BY DEF RenderInv, PageTypeOK, pageVars, connVars
<1>3. SlotsInv'
  <2>1. \A q \in Requests : InFlight(q)' <=> InFlight(q)
    BY DEF InFlight, pageVars
  <2>2. \A q \in Requests, t \in Topics : req'[q].seen[t] <= committed[t]
    BY <1>1, NumbersLemma DEF SlotsInv, Unread
  <2> QED BY <2>1, <2>2 DEF SlotsInv
<1>4. ContentsInv' /\ RunningInv'
  BY DEF ContentsInv, RunningInv, pageVars, connVars
<1>5. RegionsInv'
  <2> SUFFICES ASSUME NEW r \in Regions
               PROVE  Sound(st[r], r, form, req', page[r].seen)
    BY DEF RegionsInv, pageVars
  <2>1. Sound(st[r], r, form, req, page[r].seen) /\ r \in Requests
    BY PageAssumption DEF RegionsInv
  <2>2. ~st[r].busy => req'[r] = IdleRequest
    BY <2>1, PageAssumption DEF InFlight
  <2>3. ASSUME st[r].last \in {r} \cup Forms, NEW t \in Topics, req'[st[r].last].seen[t] # Unread
        PROVE  page[r].seen[t] <= req'[st[r].last].seen[t]
    <3>1. st[r].last \in Requests
      BY <2>3, PageAssumption
    <3>2. page[r].seen[t] <= committed[t]
      BY DEF ContentsInv
    <3> QED BY <2>1, <2>3, <3>1, <3>2 DEF Sound
  <2> QED BY <2>1, <2>2, <2>3 DEF Sound
<1>6. HeardInv'
  <2>1. (/\ conn = "up" => \A i \in DOMAIN wire : wire[i].boot = boot
         /\ conn = "up" => \A t \in Topics : ~kstale[t] => known[t] <= counter[t])'
    BY DEF HeardInv, connVars
  <2>2. ASSUME NEW r \in Regions, NEW t \in Topics, Due(st[r], r, form, req, t, announced[t])
        PROVE  Due(st[r], r, form, req', t, announced[t])
    <3>1. ASSUME Out(st[r], r, form)
          PROVE  /\ st[r].last \in Requests
                 /\ req[st[r].last].seen[t] = Unread \/ req[st[r].last].seen[t] >= announced[t]
                      => req'[st[r].last].seen[t] = Unread \/ req'[st[r].last].seen[t] >= announced[t]
      <4>1. st[r].last \in Requests
        BY <3>1, PageAssumption DEF Out
      <4>2. announced[t] <= committed[t] /\ announced[t] \in Nat /\ committed[t] \in Nat
        BY <1>1, NumbersLemma DEF RenderInv, CountersInv
      <4> QED BY <4>1, <4>2
    <3> QED BY <2>2, <3>1 DEF Due
  <2>3. \A r \in Regions, t \in Topics : /\ UpToDate(r, t)' <=> UpToDate(r, t)
                                         /\ OnWire(t)' <=> OnWire(t)
    BY DEF UpToDate, OnWire, pageVars, connVars
  <2> QED BY <2>1, <2>2, <2>3 DEF HeardInv, pageVars, connVars
<1> QED BY <1>2, <1>3, <1>4, <1>5, <1>6

LEMMA CommitKeeps ==
    ASSUME FullInv, RenderInv', NEW t \in Topics, Commit(t),
           UNCHANGED <<pageVars, connVars, left, faults>>
    PROVE  PageInv'
<1> USE DEF FullInv, PageInv
<1>1. RenderTypeOK
  BY DEF RenderInv
<1>2. UNCHANGED <<boot, seq, counter, changedAt, announced, req>>
  BY DEF Commit
<1>3. \A u \in Topics : committed[u] <= committed'[u] /\ committed'[u] \in Nat
  BY <1>1 DEF Commit, RenderTypeOK
<1>4. PageTypeOK' /\ (boot > 0)' /\ RegionsInv' /\ RunningInv' /\ HeardInv'
  BY <1>2 DEF RenderInv, PageTypeOK, RegionsInv, RunningInv, HeardInv, UpToDate, OnWire,
              pageVars, connVars
<1>5. SlotsInv'
  <2>1. \A q \in Requests : InFlight(q)' <=> InFlight(q)
    BY DEF InFlight, pageVars
  <2>2. \A q \in Requests, u \in Topics : req[q].seen[u] <= committed'[u]
    BY <1>1, <1>3, NumbersLemma DEF SlotsInv
  <2> QED BY <1>2, <2>1, <2>2 DEF SlotsInv
<1>6. ContentsInv'
  <2>1. \A r \in Regions, u \in Topics : page[r].seen[u] <= committed'[u]
    BY <1>1, <1>3, NumbersLemma DEF ContentsInv
  <2> QED BY <1>2, <2>1 DEF ContentsInv, pageVars
<1> QED BY <1>4, <1>5, <1>6

\* A change makes every page older than its topics' newest versions, and
\* leaves an open stream something to say.
LEMMA NotifyKeeps ==
    ASSUME FullInv, RenderInv', NEW T \in SUBSET Topics, Notify(T),
           UNCHANGED <<pageVars, connVars, left, faults>>
    PROVE  PageInv'
<1> USE DEF FullInv, PageInv
<1>1. RenderTypeOK
  BY DEF RenderInv
<1>2. /\ UNCHANGED <<boot, committed, req>>
      /\ \A t \in Topics : IF t \in T THEN counter'[t] = counter[t] + 1
                           ELSE counter'[t] = counter[t] /\ announced'[t] = announced[t]
  BY DEF Notify, RaiseLocked
<1>3. PageTypeOK' /\ (boot > 0)' /\ RegionsInv' /\ RunningInv'
  BY <1>2 DEF RenderInv, PageTypeOK, RegionsInv, RunningInv, pageVars, connVars
<1>4. SlotsInv'
  BY <1>2 DEF SlotsInv, InFlight, pageVars
<1>5. ContentsInv'
  <2> SUFFICES ASSUME NEW r \in Regions, NEW t \in Topics
               PROVE  /\ page[r].boot <= boot
                      /\ page[r].seen[t] <= committed[t]
                      /\ page[r].boot = boot
                           => /\ page[r].v[t] <= counter'[t]
                              /\ page[r].v[t] = counter'[t] => page[r].seen[t] >= announced'[t]
    BY <1>2 DEF ContentsInv, pageVars
  <2>1. page[r].v[t] \in Nat /\ counter[t] \in Nat
    BY <1>1, NumbersLemma
  <2>2. CASE t \in T
    BY <1>2, <2>1, <2>2 DEF ContentsInv
  <2>3. CASE t \notin T
    BY <1>2, <2>3 DEF ContentsInv
  <2> QED BY <2>2, <2>3
<1>6. HeardInv'
  <2>0. conn = "up" => \A t \in Topics : ~kstale[t] => known[t] <= counter'[t]
    BY <1>1, <1>2, NumbersLemma DEF HeardInv
  <2> SUFFICES ASSUME conn = "up", NEW r \in Regions \ left, NEW t \in Topics,
                      ~kstale[t], known[t] >= counter'[t]
               PROVE  (UpToDate(r, t) \/ OnWire(t) \/ Due(st[r], r, form, req, t, announced[t]))'
    BY <1>2, <2>0 DEF HeardInv, pageVars, connVars
  <2>1. CASE t \in T
    <3>1. known[t] >= counter[t] /\ known[t] # counter[t]
      BY <1>1, <1>2, <2>1, NumbersLemma
    <3>2. known[t] <= counter[t]
      BY DEF HeardInv
    <3> QED BY <1>1, <3>1, <3>2, NumbersLemma
  <2>2. CASE t \notin T
    <3>1. counter'[t] = counter[t] /\ announced'[t] = announced[t]
      BY <1>2, <2>2
    <3>2. UpToDate(r, t) \/ OnWire(t) \/ Due(st[r], r, form, req, t, announced[t])
      BY <3>1 DEF HeardInv
    <3> QED BY <1>2, <3>1, <3>2 DEF UpToDate, OnWire, pageVars, connVars
  <2> QED BY <2>1, <2>2
<1> QED BY <1>3, <1>4, <1>5, <1>6

LEMMA ServerKeeps ==
    ASSUME FullInv, RenderInv', ServerStep
    PROVE  PageInv'
<1> USE DEF FullInv, PageInv
<1>1. RenderTypeOK /\ RenderTypeOK' /\ SlotsInv
  BY DEF RenderInv
<1>2. UNCHANGED <<pageVars, connVars, left, faults>>
  BY DEF ServerStep
<1>3. ASSUME NEW t \in Topics, Commit(t)
      PROVE  PageInv'
  BY <1>2, <1>3, CommitKeeps
<1>4. ASSUME NEW T \in SUBSET Topics, Notify(T)
      PROVE  PageInv'
  BY <1>2, <1>4, NotifyKeeps
<1>5. ASSUME NEW q \in Requests, InFlight(q), Begin(q)
      PROVE  PageInv'
  <2>1. PICK start \in {seq, 0} :
          req' = [req EXCEPT ![q] = [phase |-> "running", boot |-> boot,
                                     start |-> start, seen |-> Blank, v |-> Blank]]
    BY <1>5 DEF Begin
  <2>2. \A p \in Requests \ {q} : req'[p] = req[p]
    BY <1>1, <2>1 DEF RenderTypeOK
  <2>3. req'[q].phase = "running" /\ \A t \in Topics : req'[q].seen[t] = Unread
    BY <1>1, <2>1 DEF RenderTypeOK, Blank
  <2> QED BY <1>2, <1>5, <2>2, <2>3, SlotsMove DEF Begin, SlotsInv
<1>6. ASSUME NEW q \in Requests, Answer(q)
      PROVE  PageInv'
  <2>1. \A p \in Requests \ {q} : req'[p] = req[p]
    BY <1>6 DEF Answer
  <2>2. /\ req[q].phase = "running" /\ req'[q].phase = "done"
        /\ req'[q].seen = req[q].seen /\ req'[q].v = req[q].v
        /\ \A t \in Topics : req[q].seen[t] # Unread /\ req[q].v[t] # Unread
    BY <1>1, <1>6 DEF Answer, RenderTypeOK, Request
  <2>3. InFlight(q)
    BY <2>2, IdleUnread DEF SlotsInv
  <2> QED BY <1>2, <1>6, <2>1, <2>2, <2>3, SlotsMove DEF Answer, SlotsInv
<1>7. ASSUME NEW q \in Requests, NEW t \in Topics, Query(q, t) \/ Attrs(q, t)
      PROVE  PageInv'
  <2>1. /\ \A p \in Requests \ {q} : req'[p] = req[p]
        /\ req[q].phase = "running"
        /\ UNCHANGED <<boot, counter, announced, committed>>
    <3>1. CASE Query(q, t)
      BY <1>1, <3>1 DEF Query, RenderTypeOK
    <3>2. CASE Attrs(q, t)
      BY <1>1, <3>2 DEF Attrs, RenderTypeOK
    <3> QED BY <1>7, <3>1, <3>2
  <2>2. /\ req'[q].phase = "running"
        /\ \A u \in Topics : req'[q].seen[u] \in {req[q].seen[u], committed[u]}
    <3>1. CASE Query(q, t)
      BY <1>1, <3>1 DEF Query, RenderTypeOK, Request
    <3>2. CASE Attrs(q, t)
      BY <1>1, <3>2 DEF Attrs, RenderTypeOK, Request
    <3> QED BY <1>7, <3>1, <3>2
  <2>3. InFlight(q)
    BY <2>1, IdleUnread DEF SlotsInv
  <2> QED BY <1>2, <2>1, <2>2, <2>3, SlotsMove DEF SlotsInv
<1> QED BY <1>3, <1>4, <1>5, <1>6, <1>7 DEF ServerStep

\* A new process: no page is its own yet, and the stream is over.
LEMMA RestartKeeps ==
    ASSUME FullInv, RenderInv', ServerRestart
    PROVE  PageInv'
<1> USE DEF FullInv, PageInv
<1>1. RenderTypeOK /\ RenderTypeOK'
  BY DEF RenderInv
<1>2. /\ boot' = boot + 1 /\ UNCHANGED <<committed, page, st, form, running, view, editing>>
      /\ UNCHANGED <<known, kstale, wire, left, faults>>
      /\ conn' = IF conn = "up" THEN "eof" ELSE conn
  BY DEF ServerRestart, Restart, NewProcess, pageVars
<1>3. \A q \in Requests : IF req[q].phase = "running"
                          THEN req'[q].phase = "failed" /\ req'[q].seen = req[q].seen
                          ELSE req'[q] = req[q]
  BY <1>1 DEF ServerRestart, Restart, RenderTypeOK, Request
<1>4. PageTypeOK' /\ (boot > 0)' /\ RunningInv'
  BY <1>1, <1>2, NumbersLemma DEF PageTypeOK, RunningInv
<1>5. SlotsInv'
  <2>1. \A q \in Requests : InFlight(q)' <=> InFlight(q)
    BY <1>2 DEF InFlight
  <2> QED BY <1>2, <1>3, <2>1, IdleUnread DEF SlotsInv
<1>6. ContentsInv'
  <2>1. \A r \in Regions, t \in Topics : page[r].boot <= boot' /\ page[r].boot # boot'
    BY <1>1, <1>2, NumbersLemma DEF ContentsInv
  <2> QED BY <1>2, <2>1 DEF ContentsInv
<1>7. RegionsInv'
  <2>1. \A q \in Requests : /\ req'[q].seen = req[q].seen
                            /\ req[q] = IdleRequest => req'[q] = IdleRequest
    BY <1>3, IdleUnread
  <2> SUFFICES ASSUME NEW r \in Regions
               PROVE  Sound(st[r], r, form, req', page[r].seen)
    BY <1>2 DEF RegionsInv
  <2>2. Sound(st[r], r, form, req, page[r].seen) /\ r \in Requests /\ Forms \subseteq Requests
    BY PageAssumption DEF RegionsInv
  <2> QED BY <2>1, <2>2 DEF Sound
<1>8. HeardInv'
  BY <1>2 DEF HeardInv, PageTypeOK
<1> QED BY <1>4, <1>5, <1>6, <1>7, <1>8

-----------------------------------------------------------------------------
(* The page's steps. *)

\* A step of the page keeps the invariant if it empties the slots of the
\* fetches it ends, shows nothing unfounded, leaves each region sound, and
\* loses nothing that was due while a stream is open.
LEMMA ShownMove ==
    ASSUME FullInv, RenderInv', UNCHANGED <<serverVars, known, kstale, wire, conn>>,
           page' \in [Regions -> Contents], ContentsInv',
           st' = [r \in Regions |-> st'[r]], form' \in [Forms -> FormStates],
           running' \in BOOLEAN, view' \in {"shown", "hidden", "quiet"},
           editing' \in [Regions -> BOOLEAN], left' \subseteq Regions, faults' \in Nat,
           running => running', left \subseteq left',
           \A q \in Requests : req'[q] \in {req[q], IdleRequest},
           \A f \in Forms : IF form'[f] = "out" THEN running' ELSE req'[f] = IdleRequest,
           \A r \in Regions : /\ Sound(st'[r], r, form', req', page'[r].seen)
                              /\ st'[r].busy => running',
           conn = "up" =>
              \A r \in Regions \ left', t \in Topics :
                 UpToDate(r, t) \/ Due(st[r], r, form, req, t, announced[t])
                    => UpToDate(r, t)' \/ Due(st'[r], r, form', req', t, announced[t])
    PROVE  PageInv'
<1> USE DEF FullInv, PageInv
<1>1. RenderTypeOK /\ RenderTypeOK'
  BY DEF RenderInv
<1>2. st' \in [Regions -> RegionState]
  BY DEF Sound
<1>3. PageTypeOK' /\ (boot > 0)'
  BY <1>1, <1>2 DEF PageTypeOK, FormStates, serverVars
<1>4. SlotsInv'
  <2> SUFFICES ASSUME NEW q \in Requests
               PROVE  /\ req'[q].phase = "idle" \/ ~InFlight(q)' => req'[q] = IdleRequest
                      /\ \A t \in Topics :
                           /\ req'[q].seen[t] <= committed[t]
                           /\ req'[q].phase = "done"
                                => req'[q].seen[t] # Unread /\ req'[q].v[t] # Unread
    BY DEF SlotsInv, serverVars
  <2>1. \A t \in Topics : committed[t] \in Nat
    BY <1>1, NumbersLemma
  <2>2. ~InFlight(q)' => req'[q] = IdleRequest
    <3>1. CASE q \in Forms
      BY <3>1 DEF InFlight
    <3>2. CASE q \notin Forms
      BY <3>2, PageAssumption DEF InFlight, Sound
    <3> QED BY <3>1, <3>2
  <2>3. CASE req'[q] = req[q]
    BY <2>2, <2>3 DEF SlotsInv
  <2>4. CASE req'[q] = IdleRequest
    BY <2>1, <2>4, IdleUnread DEF Unread
  <2> QED BY <2>3, <2>4
<1>5. RegionsInv' /\ RunningInv'
  BY DEF RegionsInv, RunningInv
<1>6. HeardInv'
  <2>1. \A t \in Topics : OnWire(t)' <=> OnWire(t)
    BY DEF OnWire, serverVars
  <2>2. announced' = announced /\ counter' = counter /\ boot' = boot
    BY DEF serverVars
  <2> QED BY <2>1, <2>2 DEF HeardInv, PageTypeOK
<1> QED BY <1>3, <1>4, <1>5, <1>6

\* The same for a step that leaves the regions' contents alone.
LEMMA StatesMove ==
    ASSUME FullInv, RenderInv', UNCHANGED <<serverVars, page, known, kstale, wire, conn>>,
           st' = [r \in Regions |-> st'[r]], form' \in [Forms -> FormStates],
           running' \in BOOLEAN, view' \in {"shown", "hidden", "quiet"},
           editing' \in [Regions -> BOOLEAN], left' \subseteq Regions, faults' \in Nat,
           running => running', left \subseteq left',
           \A q \in Requests : req'[q] \in {req[q], IdleRequest},
           \A f \in Forms : IF form'[f] = "out" THEN running' ELSE req'[f] = IdleRequest,
           \A r \in Regions : /\ Sound(st'[r], r, form', req', page[r].seen)
                              /\ st'[r].busy => running',
           conn = "up" =>
              \A r \in Regions \ left', t \in Topics :
                 Due(st[r], r, form, req, t, announced[t])
                    => Due(st'[r], r, form', req', t, announced[t])
    PROVE  PageInv'
<1>1. page' \in [Regions -> Contents]
  BY DEF FullInv, PageInv, PageTypeOK
<1>2. ContentsInv'
  BY DEF FullInv, PageInv, ContentsInv, serverVars
<1>3. \A r \in Regions, t \in Topics : UpToDate(r, t)' <=> UpToDate(r, t)
  BY DEF UpToDate, serverVars
<1> QED BY <1>1, <1>2, <1>3, ShownMove

\* What the page knows of its state before a step.
LEMMA PageFacts ==
    ASSUME FullInv
    PROVE  /\ st = [r \in Regions |-> st[r]]
           /\ form \in [Forms -> FormStates] /\ editing \in [Regions -> BOOLEAN]
           /\ running \in BOOLEAN /\ view \in {"shown", "hidden", "quiet"}
           /\ left \subseteq Regions /\ faults \in Nat
           /\ Regions \cup Forms \subseteq Requests
           /\ \A f \in Forms : IF form[f] = "out" THEN running ELSE req[f] = IdleRequest
           /\ \A r \in Regions : /\ Sound(st[r], r, form, req, page[r].seen)
                                 /\ st[r] \in RegionState
                                 /\ st[r].busy => running
           /\ conn = "up" => running
           /\ req = [q \in Requests |-> req[q]]
BY PageAssumption
DEF FullInv, PageInv, PageTypeOK, FormStates, SlotsInv, InFlight, RegionsInv, RunningInv,
    RenderInv, RenderTypeOK

LEMMA RetryKeeps ==
    ASSUME FullInv, RenderInv', NEW p \in Regions, Retry(p)
    PROVE  PageInv'
<1> DEFINE n == [st[p] EXCEPT !.retry = FALSE]
<1>1. UNCHANGED <<serverVars, page, known, kstale, wire, conn, req, form, running, view,
                  editing, left, faults>>
  BY DEF Retry, renderVars, connVars, serverVars
<1>2. /\ st' = [r \in Regions |-> st'[r]]
      /\ \A r \in Regions : st'[r] = IF r = p THEN Refreshed(n, p, editing[p]) ELSE st[r]
  BY PageFacts DEF Retry, Refresh
<1>3. /\ n \in RegionState /\ n.forms = st[p].forms /\ n.last = st[p].last
      /\ n.busy = st[p].busy
  BY PageFacts DEF RegionState
<1> HIDE DEF n
<1>4. editing[p] \in BOOLEAN /\ Sound(n, p, form, req, page[p].seen)
  BY <1>3, PageFacts, SoundSame
<1>5. /\ Sound(Refreshed(n, p, editing[p]), p, form, req, page[p].seen)
      /\ \A a : \A t \in Topics : Due(Refreshed(n, p, editing[p]), p, form, req, t, a)
  BY <1>4, RefreshedSound
<1>6. \A r \in Regions : /\ Sound(st'[r], r, form', req', page[r].seen)
                         /\ st'[r].busy => running'
  <2>1. running'
    BY <1>1 DEF Retry
  <2>2. \A r \in Regions : Sound(st[r], r, form, req, page[r].seen)
    BY PageFacts
  <2> QED BY <1>1, <1>2, <1>5, <2>1, <2>2
<1>7. \A r \in Regions, t \in Topics :
        Due(st[r], r, form, req, t, announced[t]) => Due(st'[r], r, form', req', t, announced[t])
  BY <1>1, <1>2, <1>5
<1> QED BY <1>1, <1>2, <1>6, <1>7, PageFacts, StatesMove

LEMMA SubmitKeeps ==
    ASSUME FullInv, RenderInv', NEW f \in Forms, Submit(f)
    PROVE  PageInv'
<1>1. /\ UNCHANGED <<serverVars, page, known, kstale, wire, conn, req, running, view,
                     editing, left, faults>>
      /\ form[f] = "idle" /\ form' = [form EXCEPT ![f] = "out"] /\ running
  BY DEF Submit, renderVars, connVars, serverVars
<1>2. form' \in [Forms -> FormStates]
  BY <1>1, PageFacts DEF FormStates
<1>3. \A g \in Forms : IF form'[g] = "out" THEN running' ELSE req'[g] = IdleRequest
  BY <1>1, PageFacts
<1>4. req[f] = IdleRequest
  BY <1>1, PageFacts
<1>5. ASSUME NEW r \in Regions
      PROVE  /\ Sound(st'[r], r, form', req', page[r].seen)
             /\ st'[r].busy = st[r].busy
             /\ \A t \in Topics : Due(st'[r], r, form', req', t, announced[t])
  <2>1. Sound(st[r], r, form, req, page[r].seen) /\ st[r] \in RegionState
    BY PageFacts
  <2>2. /\ Cardinality(Open(form')) = st[r].forms + 1
        /\ st[r].forms + 1 \in 0..Cardinality(Forms)
    BY <1>1, <2>1, OpenOpens, OpenFinite, PageFacts DEF Sound
  <2>3. f \in Requests /\ f \in Requests \cup {NoFetch}
    BY PageFacts
  <2>4. st'[r] = [st[r] EXCEPT !.last = f, !.forms = st[r].forms + 1]
    BY DEF Submit
  <2>5. /\ st'[r] \in RegionState /\ st'[r].last = f /\ st'[r].forms = st[r].forms + 1
        /\ st'[r].busy = st[r].busy
    BY <2>1, <2>2, <2>3, <2>4, Zenon DEF RegionState
  <2>6. Sound(st'[r], r, form', req', page[r].seen)
    BY <1>1, <1>4, <2>1, <2>2, <2>5, IdleUnread DEF Sound
  <2>7. form'[f] = "out" /\ Out(st'[r], r, form')
    BY <1>1, <2>5, PageFacts DEF Out
  <2> QED BY <1>1, <1>4, <2>5, <2>6, <2>7, IdleUnread DEF Due
<1>6. st' = [r \in Regions |-> st'[r]]
  BY DEF Submit
<1> QED BY <1>1, <1>2, <1>3, <1>5, <1>6, PageFacts, StatesMove

LEMMA FailingIs ==
    ASSUME NEW s \in RegionState
    PROVE  /\ Failing(s) \in RegionState
           /\ Failing(s).forms = s.forms /\ Failing(s).last = s.last
           /\ ~Failing(s).busy
           /\ Failing(s).retry \/ Failing(s).failed
<1> DEFINE gaveUp == s.tries + 1 > MaxTries
           k == IF gaveUp THEN s.tries ELSE s.tries + 1
           b == s.failed \/ gaveUp
           c == ~gaveUp
           n == [s EXCEPT !.busy = FALSE, !.queued = FALSE, !.tries = k, !.failed = b, !.retry = c]
<1>1. Failing(s) = n
  BY DEF Failing
<1>2. k \in 0..MaxTries
  BY PageAssumption DEF RegionState
<1>3. b \in BOOLEAN /\ c \in BOOLEAN /\ (b \/ c)
  OBVIOUS
<1> HIDE DEF k, b, c
<1>4. /\ n \in RegionState /\ n.forms = s.forms /\ n.last = s.last /\ n.busy = FALSE
      /\ n.retry = c /\ n.failed = b
  BY <1>2, <1>3, Zenon DEF RegionState
<1> QED BY <1>1, <1>3, <1>4

\* The end of a request in one slot, by its answer, its failure or its loss.
LEMMA SlotEmptied ==
    ASSUME FullInv, NEW q \in Requests,
           Drop(q) \/ (req[q].phase = "idle" /\ UNCHANGED renderVars)
    PROVE  /\ UNCHANGED serverVars
           /\ \A p \in Requests : req'[p] = IF p = q THEN IdleRequest ELSE req[p]
<1>1. CASE Drop(q)
  BY <1>1, PageFacts DEF Drop, serverVars
<1>2. CASE req[q].phase = "idle" /\ UNCHANGED renderVars
  BY <1>2 DEF renderVars, serverVars, FullInv, PageInv, SlotsInv
<1> QED BY <1>1, <1>2

\* What a slot of another region's holds makes no difference to a region.
LEMMA OtherSlot ==
    ASSUME NEW s, NEW r \in Regions, NEW fm, NEW rq, NEW shown, NEW p \in Regions \ {r},
           NEW rq2, \A q \in Requests : rq2[q] = IF q = p THEN IdleRequest ELSE rq[q],
           Sound(s, r, fm, rq, shown)
    PROVE  /\ Sound(s, r, fm, rq2, shown)
           /\ \A t, a : Due(s, r, fm, rq, t, a) => Due(s, r, fm, rq2, t, a)
<1>1. \A q \in {r} \cup Forms : rq2[q] = rq[q]
  BY PageAssumption
<1> QED BY <1>1 DEF Sound, Due, Out

LEMMA FetchFailedKeeps ==
    ASSUME FullInv, RenderInv', NEW p \in Regions, FetchFailed(p)
    PROVE  PageInv'
<1>1. /\ UNCHANGED <<page, known, kstale, wire, conn, form, running, view, editing, left>>
      /\ st[p].busy /\ faults' \in Nat
      /\ \/ Drop(p)
         \/ req[p].phase = "idle" /\ UNCHANGED renderVars
      /\ st' = [st EXCEPT ![p] = Failing(st[p])]
  BY PageFacts DEF FetchFailed, Taken, Fault, connVars
<1>2. UNCHANGED serverVars /\ \A q \in Requests : req'[q] = IF q = p THEN IdleRequest ELSE req[q]
  BY <1>1, PageFacts, SlotEmptied
<1>3. \A f \in Forms : IF form'[f] = "out" THEN running' ELSE req'[f] = IdleRequest
  BY <1>1, <1>2, PageFacts
<1>4. /\ st' = [r \in Regions |-> st'[r]]
      /\ \A r \in Regions : st'[r] = IF r = p THEN Failing(st[p]) ELSE st[r]
  BY <1>1, PageFacts
<1>5. ASSUME NEW r \in Regions
      PROVE  /\ Sound(st'[r], r, form', req', page[r].seen)
             /\ st'[r].busy => running'
             /\ \A t \in Topics : Due(st[r], r, form, req, t, announced[t])
                                    => Due(st'[r], r, form', req', t, announced[t])
  <2>1. Sound(st[r], r, form, req, page[r].seen) /\ st[r] \in RegionState
    BY PageFacts
  <2>2. CASE r = p
    <3>1. /\ st'[r] \in RegionState /\ st'[r].forms = st[r].forms /\ st'[r].last = st[r].last
          /\ ~st'[r].busy /\ (st'[r].retry \/ st'[r].failed)
      BY <1>4, <2>1, <2>2, FailingIs
    <3>2. \A q \in {r} \cup Forms : req'[q] \in {req[q], IdleRequest}
      BY <1>2, PageFacts
    <3>3. Sound(st'[r], r, form', req', page[r].seen)
      BY <1>1, <1>2, <2>1, <2>2, <3>1, <3>2, IdleUnread, PageFacts DEF Sound
    <3> QED BY <3>1, <3>3 DEF Due
  <2>3. CASE r # p
    <3>1. /\ Sound(st[r], r, form, req', page[r].seen)
          /\ \A t, a : Due(st[r], r, form, req, t, a) => Due(st[r], r, form, req', t, a)
      BY <1>2, <2>1, <2>3, OtherSlot
    <3> QED BY <1>1, <1>4, <2>3, <3>1, PageFacts
  <2> QED BY <2>2, <2>3
<1>6. \A q \in Requests : req'[q] \in {req[q], IdleRequest}
  BY <1>2
<1> QED BY <1>1, <1>2, <1>3, <1>4, <1>5, <1>6, PageFacts, StatesMove

LEMMA EndEditKeeps ==
    ASSUME FullInv, RenderInv', NEW p \in Regions, EndEdit(p)
    PROVE  PageInv'
<1>1. /\ UNCHANGED <<serverVars, page, known, kstale, wire, conn, req, form, running, view,
                     left, faults>>
      /\ running /\ editing' = [editing EXCEPT ![p] = FALSE] /\ st' = Edited(st, editing')
  BY DEF EndEdit, renderVars, connVars, serverVars
<1>2. editing' \in [Regions -> BOOLEAN]
  BY <1>1, PageFacts
<1>3. st' = [r \in Regions |-> st'[r]]
  BY <1>1 DEF Edited, Refresh
<1>4. ASSUME NEW r \in Regions
      PROVE  /\ Sound(st'[r], r, form', req', page[r].seen)
             /\ \A t \in Topics : Due(st[r], r, form, req, t, announced[t])
                                    => Due(st'[r], r, form', req', t, announced[t])
  <2>1. Sound(st[r], r, form, req, page[r].seen)
    BY PageFacts
  <2> QED BY <1>1, <1>2, <2>1, EditedSound
<1> QED BY <1>1, <1>2, <1>3, <1>4, PageFacts, StatesMove

\* Shown again, or back from the browser's cache.
LEMMA ReviveKeeps ==
    ASSUME FullInv, RenderInv', Show \/ PageShow
    PROVE  PageInv'
<1>1. /\ UNCHANGED <<serverVars, page, known, kstale, wire, conn, req, form, editing,
                     left, faults>>
      /\ running' = TRUE /\ view' = "shown" /\ st' = Revive(st, editing)
  BY PageFacts DEF Show, PageShow, renderVars, connVars, serverVars
<1>2. st' = [r \in Regions |-> st'[r]]
  BY <1>1 DEF Revive
<1>3. ASSUME NEW r \in Regions
      PROVE  /\ Sound(st'[r], r, form', req', page[r].seen)
             /\ \A t \in Topics : Due(st[r], r, form, req, t, announced[t])
                                    => Due(st'[r], r, form', req', t, announced[t])
  <2>1. Sound(st[r], r, form, req, page[r].seen) /\ editing \in [Regions -> BOOLEAN]
    BY PageFacts
  <2> QED BY <1>1, <2>1, ReviveSound
<1> QED BY <1>1, <1>2, <1>3, PageFacts, StatesMove

\* A region stays sound when slots are emptied.
LEMMA SoundEmptied ==
    ASSUME NEW s, NEW r \in Regions, NEW fm, NEW rq, NEW rq2, NEW shown,
           \A q \in Requests : rq2[q] \in {rq[q], IdleRequest}, Sound(s, r, fm, rq, shown)
    PROVE  Sound(s, r, fm, rq2, shown)
<1>1. \A q \in {r} \cup Forms : rq2[q] \in {rq[q], IdleRequest}
  BY PageAssumption
<1> QED BY <1>1, IdleUnread DEF Sound

\* SettleSound for a step that closes form f.
LEMMA FormSettles ==
    ASSUME NEW S, NEW r \in Regions, NEW f \in Forms, form[f] # "idle",
           form \in [Forms -> FormStates], form' = [form EXCEPT ![f] = "idle"],
           NEW edits \in [Regions -> BOOLEAN], NEW shown, Sound(S[r], r, form, req', shown)
    PROVE  /\ Sound(Settle(S, edits)[r], r, form', req', shown)
           /\ running => \A a : \A t \in Topics : Due(S[r], r, form', req', t, a)
                                                => Due(Settle(S, edits)[r], r, form', req', t, a)
           /\ Settle(S, edits)[r].busy => S[r].busy \/ running
BY SettleSound

\* A form that ends without an answer on the page: what is due before it
\* settles is due after it.
LEMMA FormEndKeeps ==
    ASSUME FullInv, RenderInv', NEW f \in Forms, form[f] # "idle",
           form' = [form EXCEPT ![f] = "idle"], NEW S, st' = Settle(S, editing),
           UNCHANGED <<serverVars, page, known, kstale, wire, conn, running, view, editing>>,
           left' \subseteq Regions, left \subseteq left', faults' \in Nat,
           \A q \in Requests : req'[q] \in {req[q], IdleRequest},
           req'[f] = IdleRequest,
           \A r \in Regions : /\ S[r] \in RegionState /\ S[r].forms = st[r].forms
                              /\ S[r].last = st[r].last /\ S[r].busy = st[r].busy,
           \A r \in Regions \ left', t \in Topics :
              Due(st[r], r, form, req, t, announced[t])
                => Due(S[r], r, form', req', t, announced[t])
    PROVE  PageInv'
<1>1. form' \in [Forms -> FormStates]
  BY PageFacts DEF FormStates
<1>2. \A g \in Forms : IF form'[g] = "out" THEN running' ELSE req'[g] = IdleRequest
  <2> SUFFICES ASSUME NEW g \in Forms
               PROVE  IF form'[g] = "out" THEN running' ELSE req'[g] = IdleRequest
    OBVIOUS
  <2>1. CASE g = f
    BY <2>1, PageFacts
  <2>2. CASE g # f
    BY <2>2, PageFacts
  <2> QED BY <2>1, <2>2
<1>3. st' = [r \in Regions |-> st'[r]]
  BY DEF Settle, Edited, Refresh
<1>4. ASSUME NEW r \in Regions
      PROVE  /\ Sound(st'[r], r, form', req', page[r].seen)
             /\ running => \A a : \A t \in Topics : Due(S[r], r, form', req', t, a)
                                                  => Due(st'[r], r, form', req', t, a)
             /\ st'[r].busy => running'
  <2>1. Sound(S[r], r, form, req, page[r].seen) /\ (S[r].busy => running)
    BY PageFacts, SoundSame
  <2>2. Sound(S[r], r, form, req', page[r].seen)
    BY <2>1, SoundEmptied
  <2>3. form \in [Forms -> FormStates] /\ editing \in [Regions -> BOOLEAN]
    BY PageFacts
  <2>4. /\ Sound(Settle(S, editing)[r], r, form', req', page[r].seen)
        /\ running => \A a : \A t \in Topics : Due(S[r], r, form', req', t, a)
                                            => Due(Settle(S, editing)[r], r, form', req', t, a)
        /\ Settle(S, editing)[r].busy => S[r].busy \/ running
    BY <2>2, <2>3, FormSettles
  <2> QED BY <2>1, <2>4
<1>5. conn = "up" =>
        \A r \in Regions \ left', t \in Topics :
           Due(st[r], r, form, req, t, announced[t])
             => Due(st'[r], r, form', req', t, announced[t])
  BY <1>4, PageFacts
<1> QED BY <1>1, <1>2, <1>3, <1>4, <1>5, PageFacts, StatesMove

LEMMA FormUnknownKeeps ==
    ASSUME FullInv, RenderInv', NEW f \in Forms, FormUnknown(f)
    PROVE  PageInv'
<1> DEFINE S == [r \in Regions |-> [st[r] EXCEPT !.queued = TRUE]]
<1>1. /\ UNCHANGED <<page, known, kstale, wire, conn, running, view, editing, left>>
      /\ form[f] # "idle" /\ form' = [form EXCEPT ![f] = "idle"] /\ faults' \in Nat
      /\ Drop(f) \/ (req[f].phase = "idle" /\ UNCHANGED renderVars)
      /\ st' = Settle(S, editing)
  BY PageFacts DEF FormUnknown, Taken, Fault, connVars
<1>2. UNCHANGED serverVars /\ \A q \in Requests : req'[q] = IF q = f THEN IdleRequest ELSE req[q]
  BY <1>1, PageFacts, SlotEmptied
<1>3. \A r \in Regions : /\ S[r] \in RegionState /\ S[r].forms = st[r].forms /\ S[r].queued
                         /\ S[r].last = st[r].last /\ S[r].busy = st[r].busy
  BY PageFacts DEF RegionState
<1>4. \A r \in Regions, t \in Topics : Due(S[r], r, form', req', t, announced[t])
  BY <1>3 DEF Due
<1> HIDE DEF S
<1>5. /\ \A r \in Regions : /\ S[r] \in RegionState /\ S[r].forms = st[r].forms
                            /\ S[r].last = st[r].last /\ S[r].busy = st[r].busy
      /\ \A r \in Regions, t \in Topics : Due(st[r], r, form, req, t, announced[t])
                                             => Due(S[r], r, form', req', t, announced[t])
  BY <1>3, <1>4
<1>6. /\ req'[f] = IdleRequest /\ \A q \in Requests : req'[q] \in {req[q], IdleRequest}
      /\ left' \subseteq Regions /\ left \subseteq left'
  BY <1>1, <1>2, PageFacts
<1> QED BY <1>1, <1>2, <1>5, <1>6, FormEndKeeps, ZenonT(30)

LEMMA FormStaysKeeps ==
    ASSUME FullInv, RenderInv', NEW f \in Forms, FormStays(f)
    PROVE  PageInv'
<1>1. /\ UNCHANGED <<page, known, kstale, wire, conn, running, view, editing, faults>>
      /\ form[f] # "idle" /\ form' = [form EXCEPT ![f] = "idle"]
      /\ left' = left \cup LastTo(f) /\ form[f] = "out" /\ req[f].phase = "done" /\ Drop(f) /\ st' = Settle(st, editing)
  BY DEF FormStays, Taken, connVars
<1>2. UNCHANGED serverVars /\ \A q \in Requests : req'[q] = IF q = f THEN IdleRequest ELSE req[q]
  BY <1>1, PageFacts, SlotEmptied
<1>3. \A g \in Forms \ {f} : req'[g] = req[g] /\ form'[g] = form[g]
  BY <1>1, <1>2, PageFacts
<1>4. ASSUME NEW r \in Regions \ left', NEW t \in Topics,
             Due(st[r], r, form, req, t, announced[t])
      PROVE  Due(st[r], r, form', req', t, announced[t])
  <2>1. st[r].last # f /\ r # f /\ r \in Requests /\ req'[r] = req[r]
    BY <1>1, <1>2, PageFacts, PageAssumption DEF LastTo, Applies
  <2>2. Out(st[r], r, form') <=> Out(st[r], r, form)
    BY <1>3, <2>1 DEF Out
  <2>3. Out(st[r], r, form) => req'[st[r].last] = req[st[r].last]
    BY <1>3, <2>1 DEF Out
  <2> QED BY <1>4, <2>2, <2>3 DEF Due
<1>5. left' \subseteq Regions /\ left \subseteq left'
  BY <1>1, PageFacts DEF LastTo
<1> QED BY <1>1, <1>2, <1>4, <1>5, PageFacts, FormEndKeeps

LEMMA FormAbandonedKeeps ==
    ASSUME FullInv, RenderInv', NEW f \in Forms, FormAbandoned(f)
    PROVE  PageInv'
<1>1. PICK failed \in BOOLEAN :
        st' = Settle([r \in Regions |-> [st[r] EXCEPT !.queued = @ \/ failed]], editing)
  BY DEF FormAbandoned
<1> DEFINE S == [r \in Regions |-> [st[r] EXCEPT !.queued = @ \/ failed]]
<1>2. /\ UNCHANGED <<serverVars, page, known, kstale, wire, conn, req, running, view, editing,
                     left, faults>>
      /\ form[f] = "abandoned" /\ form' = [form EXCEPT ![f] = "idle"]
  BY DEF FormAbandoned, renderVars, connVars, serverVars
<1>3. \A r \in Regions : /\ S[r] \in RegionState /\ S[r].forms = st[r].forms
                         /\ S[r].queued = (st[r].queued \/ failed)
                         /\ S[r].last = st[r].last /\ S[r].busy = st[r].busy
                         /\ S[r].retry = st[r].retry /\ S[r].failed = st[r].failed
                         /\ S[r].stale = st[r].stale
  <2> SUFFICES ASSUME NEW r \in Regions, NEW b, b = (st[r].queued \/ failed)
               PROVE  LET n == [st[r] EXCEPT !.queued = b]
                      IN  /\ n \in RegionState /\ n.forms = st[r].forms /\ n.queued = b
                          /\ n.last = st[r].last /\ n.busy = st[r].busy
                          /\ n.retry = st[r].retry /\ n.failed = st[r].failed
                          /\ n.stale = st[r].stale
    BY ZenonT(30)
  <2>1. b \in BOOLEAN /\ st[r] \in RegionState
    BY PageFacts
  <2> QED BY <2>1, Zenon DEF RegionState
<1>4. \A g \in Forms : form'[g] = "out" <=> form[g] = "out"
  BY <1>2, PageFacts
<1> HIDE DEF S
<1>5. \A r \in Regions, t \in Topics : Due(st[r], r, form, req, t, announced[t])
                                         => Due(S[r], r, form', req', t, announced[t])
  <2> SUFFICES ASSUME NEW r \in Regions, NEW t \in Topics, Due(st[r], r, form, req, t, announced[t])
               PROVE  Due(S[r], r, form', req', t, announced[t])
    OBVIOUS
  <2>1. Out(S[r], r, form') <=> Out(st[r], r, form)
    BY <1>3, <1>4 DEF Out
  <2>2. /\ st[r].queued => S[r].queued
        /\ S[r].retry = st[r].retry /\ S[r].failed = st[r].failed /\ S[r].busy = st[r].busy
        /\ S[r].stale = st[r].stale /\ S[r].last = st[r].last
    BY <1>3
  <2> QED BY <1>2, <2>1, <2>2 DEF Due
<1>6. st' = Settle(S, editing)
  BY <1>1 DEF S
<1>7. /\ req'[f] = IdleRequest /\ \A q \in Requests : req'[q] \in {req[q], IdleRequest}
      /\ left' \subseteq Regions /\ left \subseteq left' /\ faults' \in Nat
  BY <1>2, PageFacts
<1>8. \A r \in Regions : /\ S[r] \in RegionState /\ S[r].forms = st[r].forms
                         /\ S[r].last = st[r].last /\ S[r].busy = st[r].busy
  BY <1>3
<1> QED BY <1>2, <1>5, <1>6, <1>7, <1>8, FormEndKeeps

LEMMA EditHideKeeps ==
    ASSUME FullInv, RenderInv', Hide \/ \E r \in Regions : Edit(r)
    PROVE  PageInv'
<1>1. /\ UNCHANGED <<serverVars, page, known, kstale, wire, conn, req, st, form, running, left>>
      /\ faults' \in Nat
  BY PageFacts DEF Hide, Edit, Fault, renderVars, connVars, serverVars
<1>2. view' \in {"shown", "hidden", "quiet"} /\ editing' \in [Regions -> BOOLEAN]
  BY PageFacts DEF Hide, Edit
<1>3. /\ st' = [r \in Regions |-> st'[r]]
      /\ \A r \in Regions : /\ Sound(st'[r], r, form', req', page[r].seen)
                            /\ st'[r].busy => running'
      /\ \A f \in Forms : IF form'[f] = "out" THEN running' ELSE req'[f] = IdleRequest
      /\ form' \in [Forms -> FormStates] /\ running' \in BOOLEAN /\ left' \subseteq Regions
  BY <1>1, PageFacts
<1> QED BY <1>1, <1>2, <1>3, StatesMove

\* A stream that is closed owes nothing: the next is opened from the page.
LEMMA DisconnectKeeps ==
    ASSUME FullInv, RenderInv', StreamLost \/ Quiet
    PROVE  PageInv'
<1> USE DEF FullInv, PageInv
<1>1. /\ UNCHANGED <<renderVars, page, st, form, running, editing, known, kstale, left>>
      /\ conn' = "down" /\ wire' = <<>> /\ faults' \in Nat
      /\ view' \in {"shown", "hidden", "quiet"}
  BY PageFacts DEF StreamLost, Quiet, Disconnect, Fault, pageVars
<1>2. wire' \in Seq([topic : Topics, v : Nat, boot : Nat])
  BY <1>1
<1>3. PageTypeOK' /\ (boot > 0)'
  BY <1>1, <1>2 DEF RenderInv, PageTypeOK, renderVars
<1>4. SlotsInv' /\ ContentsInv' /\ RegionsInv' /\ RunningInv' /\ HeardInv'
  BY <1>1 DEF SlotsInv, InFlight, ContentsInv, RegionsInv, RunningInv, HeardInv, renderVars
<1> QED BY <1>3, <1>4

LEMMA PageHideKeeps ==
    ASSUME FullInv, RenderInv', PageHide
    PROVE  PageInv'
<1> USE DEF FullInv, PageInv
<1>1. /\ UNCHANGED <<serverVars, page, view, editing, known, kstale, left>>
      /\ conn' = "down" /\ wire' = <<>> /\ faults' \in Nat /\ running' = FALSE
      /\ st' = [r \in Regions |-> [st[r] EXCEPT !.busy = FALSE, !.queued = FALSE, !.retry = FALSE]]
      /\ form' = [f \in Forms |-> IF form[f] = "out" THEN "abandoned" ELSE form[f]]
      /\ req' = [q \in Requests |-> IF InFlight(q) THEN IdleRequest ELSE req[q]]
  <2>1. faults' \in Nat
    <3>1. faults' = faults + 1
      BY Zenon DEF PageHide, Fault
    <3> QED BY <3>1, PageFacts
  <2> QED BY <2>1, Zenon DEF PageHide, Disconnect, Fault
<1>2. \A q \in Requests : req'[q] = IdleRequest
  BY <1>1 DEF SlotsInv
<1>3. form' \in [Forms -> FormStates] /\ Open(form') = Open(form)
      /\ \A f \in Forms : form'[f] # "out"
  BY <1>1, PageFacts DEF FormStates, Open
<1>4. \A r \in Regions : /\ st'[r] \in RegionState /\ st'[r].forms = st[r].forms
                         /\ st'[r].last = st[r].last /\ st'[r].busy = FALSE
  BY <1>1, PageFacts DEF RegionState
<1>5. wire' \in Seq([topic : Topics, v : Nat, boot : Nat]) /\ st' \in [Regions -> RegionState]
  <2>1. st' = [r \in Regions |-> st'[r]]
    BY <1>1, Zenon
  <2>2. st' \in [Regions -> RegionState]
    BY <1>4, <2>1
  <2>3. wire' = <<>>
    BY <1>1
  <2> QED BY <2>2, <2>3
<1>6. PageTypeOK' /\ (boot > 0)'
  BY <1>1, <1>3, <1>5 DEF RenderInv, PageTypeOK, FormStates, serverVars
<1>7. RegionsInv'
  <2> SUFFICES ASSUME NEW r \in Regions
               PROVE  Sound(st'[r], r, form', req', page[r].seen)
    BY <1>1 DEF RegionsInv
  <2>1. Sound(st[r], r, form, req, page[r].seen) /\ \A q \in {r} \cup Forms : req'[q] = IdleRequest
    BY <1>2, PageFacts
  <2> QED BY <1>3, <1>4, <2>1, IdleUnread DEF Sound
<1>8. SlotsInv'
  <2>1. \A t \in Topics : committed[t] \in Nat
    BY NumbersLemma DEF RenderInv
  <2>2. \A t \in Topics : Unread <= committed[t]
    BY <2>1 DEF Unread
  <2>3. IdleRequest.phase # "done"
    BY IdleUnread
  <2>4. \A q \in Requests, t \in Topics : req'[q].seen[t] = Unread
    BY <1>2, IdleUnread
  <2> QED BY <1>1, <1>2, <2>2, <2>3, <2>4 DEF SlotsInv, serverVars
<1>9. ContentsInv' /\ RunningInv' /\ HeardInv'
  BY <1>1, <1>3, <1>4 DEF ContentsInv, RunningInv, HeardInv, serverVars
<1> QED BY <1>6, <1>7, <1>8, <1>9

\* A stream is opened at the lowest versions of the page: a topic the server
\* then has nothing to say of is up to date in every region.
LEMMA OpenStreamKeeps ==
    ASSUME FullInv, RenderInv', OpenStream
    PROVE  PageInv'
<1> USE DEF FullInv, PageInv
<1>1. /\ UNCHANGED <<renderVars, page, st, form, running, view, editing, left, faults>>
      /\ running /\ conn' = "up" /\ wire' = <<>>
      /\ known' = [t \in Topics |-> Lowest(t)]
      /\ kstale' = [t \in Topics |-> SubBoot # boot]
  BY DEF OpenStream, pageVars
<1>2. RenderTypeOK
  BY DEF RenderInv
<1>3. ASSUME NEW t \in Topics
      PROVE  Lowest(t) \in Nat /\ \A r \in Regions : Lowest(t) <= page[r].v[t]
  <2> DEFINE V == {page[r].v[t] : r \in Regions}
  <2>1. V \in SUBSET Nat /\ V # {}
    BY <1>2, NumbersLemma, PageAssumption
  <2> QED BY <2>1, LowestOf DEF Lowest
<1>4. known' \in [Topics -> Nat] /\ kstale' \in [Topics -> BOOLEAN]
      /\ wire' \in Seq([topic : Topics, v : Nat, boot : Nat])
  BY <1>1, <1>3
<1>5. PageTypeOK' /\ (boot > 0)'
  BY <1>1, <1>4 DEF RenderInv, PageTypeOK, renderVars
<1>6. SlotsInv' /\ ContentsInv' /\ RegionsInv' /\ RunningInv'
  BY <1>1 DEF SlotsInv, InFlight, ContentsInv, RegionsInv, RunningInv, renderVars
<1>7. ASSUME NEW r \in Regions, NEW t \in Topics, ~kstale'[t]
      PROVE  known'[t] <= counter[t] /\ (known'[t] >= counter[t] => page[r].seen[t] >= announced[t])
  <2>1. SubBoot = boot /\ boot # 0
    <3>1. SubBoot = boot
      BY <1>1, <1>7, Zenon
    <3>2. boot # 0
      BY <1>2, NumbersLemma
    <3> QED BY <3>1, <3>2
  <2>2. \A p, q \in Regions : page[p].boot = page[q].boot
    BY <2>1 DEF SubBoot
  <2>3. (CHOOSE p \in Regions : TRUE) \in Regions
    BY PageAssumption
  <2>4. page[r].boot = boot
    BY <2>1, <2>2, <2>3 DEF SubBoot
  <2>5. page[r].v[t] <= counter[t] /\ (page[r].v[t] = counter[t] => page[r].seen[t] >= announced[t])
    BY <2>4 DEF ContentsInv
  <2>6. known'[t] <= page[r].v[t] /\ known'[t] \in Nat /\ page[r].v[t] \in Nat /\ counter[t] \in Nat
    BY <1>1, <1>2, <1>3, NumbersLemma
  <2> QED BY <2>5, <2>6
<1>8. HeardInv'
  BY <1>1, <1>7, PageAssumption DEF HeardInv, UpToDate, renderVars
<1> QED BY <1>5, <1>6, <1>8

LEMMA SendEventKeeps ==
    ASSUME FullInv, RenderInv', NEW u \in Topics, SendEvent(u)
    PROVE  PageInv'
<1> USE DEF FullInv, PageInv
<1> DEFINE e == [topic |-> u, v |-> counter[u], boot |-> boot]
<1>1. /\ UNCHANGED <<renderVars, page, st, form, running, view, editing, conn, left, faults>>
      /\ conn = "up" /\ wire' = Append(wire, e)
      /\ known' = [known EXCEPT ![u] = counter[u]] /\ kstale' = [kstale EXCEPT ![u] = FALSE]
  BY DEF SendEvent, pageVars
<1>2. RenderTypeOK /\ wire \in Seq([topic : Topics, v : Nat, boot : Nat])
  BY DEF RenderInv, PageTypeOK
<1>3. e \in [topic : Topics, v : Nat, boot : Nat]
  BY <1>2, NumbersLemma
<1>4. /\ DOMAIN wire' = 1 .. Len(wire) + 1 /\ DOMAIN wire = 1 .. Len(wire)
      /\ \A i \in 1 .. Len(wire) : wire'[i] = wire[i]
      /\ wire'[Len(wire) + 1] = e /\ Len(wire) \in Nat
  BY <1>1, <1>2, <1>3
<1>5. known' \in [Topics -> Nat] /\ kstale' \in [Topics -> BOOLEAN]
      /\ wire' \in Seq([topic : Topics, v : Nat, boot : Nat])
  <2>1. counter[u] \in Nat
    BY <1>2, NumbersLemma
  <2>2. wire' \in Seq([topic : Topics, v : Nat, boot : Nat])
    BY <1>1, <1>2, <1>3
  <2> QED BY <1>1, <2>1, <2>2 DEF PageTypeOK
<1>6. PageTypeOK' /\ (boot > 0)'
  BY <1>1, <1>5 DEF RenderInv, PageTypeOK, renderVars
<1>7. SlotsInv' /\ ContentsInv' /\ RegionsInv' /\ RunningInv'
  BY <1>1 DEF SlotsInv, InFlight, ContentsInv, RegionsInv, RunningInv, renderVars
<1>8. /\ \A t \in Topics \ {u} : known'[t] = known[t] /\ kstale'[t] = kstale[t]
      /\ known'[u] = counter[u] /\ counter[u] \in Nat
  BY <1>1, <1>2, NumbersLemma DEF PageTypeOK
<1> HIDE DEF e
<1>9. \A t \in Topics : OnWire(t) \/ t = u => OnWire(t)'
  <2>1. e.topic = u /\ e.v = counter[u]
    BY DEF e
  <2>2. OnWire(u)'
    BY <1>1, <1>4, <1>8, <2>1 DEF OnWire, renderVars
  <2>3. ASSUME NEW t \in Topics, OnWire(t)
        PROVE  OnWire(t)'
    BY <1>1, <1>4, <2>3 DEF OnWire, renderVars
  <2> QED BY <2>2, <2>3
<1>10. \A i \in DOMAIN wire' : wire'[i].boot = boot
  BY <1>1, <1>4 DEF HeardInv, e
<1>11. \A t \in Topics : ~kstale'[t] => known'[t] <= counter[t]
  BY <1>1, <1>8 DEF HeardInv
<1>12. ASSUME NEW r \in Regions \ left, NEW t \in Topics, ~kstale'[t], known'[t] >= counter[t]
       PROVE  UpToDate(r, t) \/ OnWire(t)' \/ Due(st[r], r, form, req, t, announced[t])
  BY <1>1, <1>8, <1>9, <1>12 DEF HeardInv
<1>13. HeardInv'
  BY <1>1, <1>10, <1>11, <1>12 DEF HeardInv, UpToDate, renderVars
<1> QED BY <1>6, <1>7, <1>13

\* An event sends every region that does not show its version to fetch.
LEMMA DeliverKeeps ==
    ASSUME FullInv, RenderInv', Deliver
    PROVE  PageInv'
<1> USE DEF FullInv, PageInv
<1> DEFINE e == Head(wire)
           R == {r \in Regions : ~Shows(r, e)}
<1>1. /\ UNCHANGED <<renderVars, page, form, running, view, editing, conn, known, kstale,
                     left, faults>>
      /\ conn # "down" /\ running /\ wire # <<>> /\ wire' = Tail(wire)
      /\ st' = Refresh(st, R, editing)
  BY DEF Deliver, RunningInv
<1>2. RenderTypeOK /\ wire \in Seq([topic : Topics, v : Nat, boot : Nat])
  BY DEF RenderInv, PageTypeOK
<1>3. /\ st' = [r \in Regions |-> st'[r]]
      /\ \A r \in Regions : st'[r] = IF ~Shows(r, e) THEN Refreshed(st[r], r, editing[r]) ELSE st[r]
  BY <1>1 DEF Refresh
<1>4. /\ wire' \in Seq([topic : Topics, v : Nat, boot : Nat])
      /\ DOMAIN wire = 1 .. Len(wire) /\ DOMAIN wire' = 1 .. Len(wire) - 1
      /\ \A i \in DOMAIN wire' : i + 1 \in DOMAIN wire /\ wire'[i] = wire[i + 1]
      /\ \A i \in DOMAIN wire : i = 1 \/ (i - 1 \in DOMAIN wire' /\ wire'[i - 1] = wire[i])
      /\ e = wire[1] /\ 1 \in DOMAIN wire
  BY <1>1, <1>2, SMTT(30)
<1> HIDE DEF e, R
<1>5. ASSUME NEW r \in Regions
      PROVE  /\ Sound(st'[r], r, form, req, page[r].seen)
             /\ ~Shows(r, e) => \A a : \A t \in Topics : Due(st'[r], r, form, req, t, a)
             /\ Shows(r, e) => st'[r] = st[r]
  <2>1. Sound(st[r], r, form, req, page[r].seen) /\ editing[r] \in BOOLEAN
    BY PageFacts
  <2>2. /\ Sound(Refreshed(st[r], r, editing[r]), r, form, req, page[r].seen)
        /\ \A a : \A t \in Topics : Due(Refreshed(st[r], r, editing[r]), r, form, req, t, a)
    BY <2>1, RefreshedSound
  <2> QED BY <1>3, <2>1, <2>2
<1>6. st' \in [Regions -> RegionState]
  BY <1>3, <1>5 DEF Sound
<1>7. PageTypeOK' /\ (boot > 0)'
  BY <1>1, <1>4, <1>6 DEF RenderInv, PageTypeOK, renderVars
<1>8. SlotsInv'
  <2>1. \A q \in Requests : ~InFlight(q)' => req[q] = IdleRequest
    <3> SUFFICES ASSUME NEW q \in Requests, ~InFlight(q)'
                 PROVE  req[q] = IdleRequest
      OBVIOUS
    <3>1. CASE q \in Forms
      BY <1>1, <3>1 DEF InFlight, SlotsInv
    <3>2. CASE q \notin Forms
      BY <1>5, <3>2, PageAssumption DEF InFlight, Sound
    <3> QED BY <3>1, <3>2
  <2> QED BY <1>1, <2>1 DEF SlotsInv, renderVars
<1>9. ContentsInv' /\ RegionsInv' /\ RunningInv'
  BY <1>1, <1>5 DEF ContentsInv, RegionsInv, RunningInv, renderVars
<1>10. ASSUME conn = "up", NEW r \in Regions, NEW t \in Topics, OnWire(t)
       PROVE  OnWire(t)' \/ UpToDate(r, t) \/ Due(st'[r], r, form, req, t, announced[t])
  <2>1. PICK i \in DOMAIN wire : wire[i].topic = t /\ wire[i].v >= counter[t]
    BY <1>10 DEF OnWire
  <2>2. CASE i = 1 /\ Shows(r, e)
    <3>1. page[r].boot = boot /\ page[r].v[t] >= counter[t]
      <4>1. e.boot = boot /\ e.topic = t /\ e.v >= counter[t] /\ e.v \in Nat
        <5>1. wire[1].boot = boot
          BY <1>4, <1>10 DEF HeardInv
        <5>2. wire[1] \in [topic : Topics, v : Nat, boot : Nat]
          <6>1. 1 \in 1 .. Len(wire)
            BY <1>4
          <6> QED BY <1>2, <1>4, <6>1, ElementOfSeq
        <5> QED BY <1>4, <2>1, <2>2, <5>1, <5>2
      <4>2. page[r].v[t] \in Nat /\ counter[t] \in Nat
        BY <1>2, NumbersLemma
      <4>3. page[r].boot = e.boot /\ page[r].v[t] >= e.v
        BY <2>2, <4>1 DEF Shows
      <4> QED BY <4>1, <4>2, <4>3
    <3>2. page[r].v[t] = counter[t]
      BY <1>2, <3>1, NumbersLemma DEF ContentsInv
    <3> QED BY <3>1, <3>2 DEF ContentsInv, UpToDate
  <2>3. CASE i = 1 /\ ~Shows(r, e)
    BY <1>5, <2>3
  <2>4. CASE i # 1
    <3>1. i - 1 \in DOMAIN wire' /\ wire'[i - 1] = wire[i]
      BY <1>4, <2>4
    <3> QED BY <1>1, <2>1, <3>1 DEF OnWire, renderVars
  <2> QED BY <2>2, <2>3, <2>4
<1>11. ASSUME conn = "up", NEW r \in Regions \ left, NEW t \in Topics,
              ~kstale[t], known[t] >= counter[t]
       PROVE  UpToDate(r, t) \/ OnWire(t)' \/ Due(st'[r], r, form, req, t, announced[t])
  <2>1. UpToDate(r, t) \/ OnWire(t) \/ Due(st[r], r, form, req, t, announced[t])
    BY <1>11 DEF HeardInv
  <2>2. CASE OnWire(t)
    BY <1>10, <1>11, <2>2
  <2>3. CASE Due(st[r], r, form, req, t, announced[t])
    BY <1>5, <2>3
  <2> QED BY <2>1, <2>2, <2>3
<1>12. HeardInv'
  <2>1. conn = "up" => \A i \in DOMAIN wire' : wire'[i].boot = boot
    BY <1>4 DEF HeardInv
  <2> QED BY <1>1, <1>11, <2>1 DEF HeardInv, UpToDate, renderVars
<1> QED BY <1>7, <1>8, <1>9, <1>12

-----------------------------------------------------------------------------
(* Answers. *)

\* What a complete answer says: nothing the database does not hold, no newer
\* version than the hub's, and at the newest one every announced write.
LEMMA AnsweredIs ==
    ASSUME FullInv, NEW q \in Requests, req[q].phase = "done"
    PROVE  /\ Answered(q) \in Contents
           /\ Answered(q).seen = req[q].seen
           /\ Answered(q).boot <= boot
           /\ \A t \in Topics :
                /\ Answered(q).seen[t] <= committed[t]
                /\ req[q].seen[t] \in Nat
                /\ Answered(q).boot = boot
                     => /\ Answered(q).v[t] <= counter[t]
                        /\ Answered(q).v[t] = counter[t] => Answered(q).seen[t] >= announced[t]
<1> USE DEF FullInv, PageInv
<1>1. RenderTypeOK /\ RequestsInv /\ SlotsInv
  BY DEF RenderInv
<1>2. \A t \in Topics : req[q].seen[t] \in Nat /\ req[q].v[t] \in Nat
  BY <1>1, NumbersLemma DEF SlotsInv, Unread
<1>3. req[q].seen \in [Topics -> Nat] /\ req[q].v \in [Topics -> Nat] /\ req[q].boot \in Nat
  BY <1>1, <1>2 DEF RenderTypeOK, Request
<1>4. Answered(q) \in Contents
  BY <1>3 DEF Answered, Contents
<1>5. ASSUME NEW t \in Topics, req[q].boot = boot
      PROVE  /\ req[q].v[t] <= counter[t]
             /\ req[q].v[t] = counter[t] => req[q].seen[t] >= announced[t]
  <2>1. Knows(q, t)
    BY <1>1, <1>5 DEF RequestsInv
  <2> QED BY <1>2, <2>1 DEF Knows, Unread
<1> QED BY <1>1, <1>2, <1>4, <1>5 DEF Answered, RequestsInv, SlotsInv

LEMMA LandedIs ==
    ASSUME NEW s \in RegionState, NEW applies \in BOOLEAN, NEW swaps \in BOOLEAN
    PROVE  LET n == Landed(s, applies, swaps)
           IN  /\ n \in RegionState
               /\ n.stale <=> ~swaps /\ (s.stale \/ applies)
               /\ n.forms = s.forms /\ n.last = s.last /\ n.busy = s.busy
               /\ n.queued = s.queued /\ n.retry = s.retry /\ n.failed = s.failed
<1> DEFINE b == ~swaps /\ (s.stale \/ applies)
<1>1. Landed(s, applies, swaps) = [s EXCEPT !.stale = b]
  BY DEF Landed
<1>2. b \in BOOLEAN
  OBVIOUS
<1> HIDE DEF b
<1>3. LET n == [s EXCEPT !.stale = b]
      IN  /\ n \in RegionState /\ n.stale = b
          /\ n.forms = s.forms /\ n.last = s.last /\ n.busy = s.busy
          /\ n.queued = s.queued /\ n.retry = s.retry /\ n.failed = s.failed
  BY <1>2, Zenon DEF RegionState
<1> QED BY <1>1, <1>3 DEF b

LEMMA StaleIs ==
    ASSUME NEW s \in RegionState, NEW c \in BOOLEAN, NEW n, n = [s EXCEPT !.stale = c]
    PROVE  /\ n \in RegionState /\ (n.stale <=> c)
           /\ n.forms = s.forms /\ n.last = s.last /\ n.busy = s.busy
           /\ n.queued = s.queued /\ n.retry = s.retry /\ n.failed = s.failed
  BY Zenon DEF RegionState

LEMMA OverIs ==
    ASSUME NEW s \in RegionState
    PROVE  LET n == Over(s)
           IN  /\ n \in RegionState
               /\ ~n.busy /\ ~n.failed /\ ~n.queued
               /\ n.stale = s.stale /\ n.forms = s.forms /\ n.last = s.last /\ n.retry = s.retry
<1>1. 0 \in 0..MaxTries
  BY PageAssumption
<1> QED BY <1>1, Zenon DEF RegionState, Over

LEMMA FetchAnsweredKeeps ==
    ASSUME FullInv, RenderInv', NEW p \in Regions, FetchAnswered(p)
    PROVE  PageInv'
<1> USE DEF FullInv, PageInv
<1> DEFINE ap == Applies(p, p)
           sw == ap /\ ~editing[p]
           n == Over(Landed(st[p], ap, sw))
<1>1. /\ UNCHANGED <<form, running, view, editing, conn, known, kstale, wire, left, faults>>
      /\ st[p].busy /\ req[p].phase = "done" /\ Drop(p)
      /\ page' = IF sw THEN [page EXCEPT ![p] = Answered(p)] ELSE page
      /\ st' = IF st[p].queued THEN Refresh([st EXCEPT ![p] = n], {p}, editing)
               ELSE [st EXCEPT ![p] = n]
  BY DEF FetchAnswered, Taken, connVars
<1>2. UNCHANGED serverVars /\ \A q \in Requests : req'[q] = IF q = p THEN IdleRequest ELSE req[q]
  BY <1>1, PageFacts, SlotEmptied
<1>3. /\ Sound(st[p], p, form, req, page[p].seen) /\ st[p] \in RegionState
      /\ editing[p] \in BOOLEAN /\ running /\ p \in Requests /\ p \notin Forms
  BY <1>1, PageFacts, PageAssumption
<1>4. ap = (st[p].last = p) /\ ap \in BOOLEAN /\ sw \in BOOLEAN
  BY <1>3 DEF Applies
<1>5. /\ n \in RegionState
      /\ ~n.busy /\ ~n.failed /\ ~n.queued /\ n.retry = st[p].retry
      /\ (n.stale <=> ~sw /\ (st[p].stale \/ ap)) /\ n.forms = st[p].forms /\ n.last = st[p].last
  <2> DEFINE m == Landed(st[p], ap, sw)
  <2> HIDE DEF ap, sw
  <2>0. st[p] \in RegionState /\ ap \in BOOLEAN /\ sw \in BOOLEAN
    BY <1>3, <1>4
  <2>1. /\ m \in RegionState
        /\ m.stale <=> ~sw /\ (st[p].stale \/ ap)
        /\ m.forms = st[p].forms /\ m.last = st[p].last /\ m.retry = st[p].retry
    BY <2>0, LandedIs
  <2>2. n = Over(m)
    BY DEF n
  <2> HIDE DEF m, n
  <2> QED BY <2>1, <2>2, OverIs
<1>6. /\ st' = [r \in Regions |-> st'[r]]
      /\ \A r \in Regions \ {p} : st'[r] = st[r]
      /\ st'[p] = IF st[p].queued THEN Refreshed(n, p, editing[p]) ELSE n
  BY <1>1, <1>3, PageFacts DEF Refresh
<1>7. page' = [r \in Regions |-> IF r = p /\ sw THEN Answered(p) ELSE page[r]]
  BY <1>1 DEF PageTypeOK
<1>8. /\ Answered(p) \in Contents /\ Answered(p).seen = req[p].seen /\ Answered(p).boot <= boot
      /\ \A t \in Topics :
           /\ Answered(p).seen[t] <= committed[t] /\ req[p].seen[t] \in Nat
           /\ Answered(p).boot = boot
                => /\ Answered(p).v[t] <= counter[t]
                   /\ Answered(p).v[t] = counter[t] => Answered(p).seen[t] >= announced[t]
  BY <1>1, <1>3, AnsweredIs
<1> HIDE DEF ap, sw, n
<1>9. page' \in [Regions -> Contents] /\ ContentsInv'
  <2>1. page' \in [Regions -> Contents]
    BY <1>7, <1>8 DEF PageTypeOK
  <2>2. UNCHANGED <<boot, counter, announced, committed>>
    BY <1>2 DEF serverVars
  <2>3. ASSUME NEW r \in Regions, NEW t \in Topics
        PROVE  /\ page'[r].boot <= boot
               /\ page'[r].seen[t] <= committed[t]
               /\ page'[r].boot = boot
                    => /\ page'[r].v[t] <= counter[t]
                       /\ page'[r].v[t] = counter[t] => page'[r].seen[t] >= announced[t]
    <3>1. CASE r = p /\ sw
      BY <1>7, <1>8, <3>1
    <3>2. CASE ~(r = p /\ sw)
      BY <1>7, <3>2 DEF ContentsInv
    <3> QED BY <3>1, <3>2
  <2> QED BY <2>1, <2>2, <2>3 DEF ContentsInv
<1>10. Sound(n, p, form, req', page'[p].seen)
  <2>1. CASE st[p].last = p
    BY <1>2, <1>3, <1>5, <2>1, IdleUnread DEF Sound
  <2>2. CASE st[p].last # p
    <3>1. page'[p] = page[p]
      BY <1>4, <1>7, <2>2 DEF sw
    <3>2. \A f \in Forms : req'[f] = req[f]
      BY <1>2, <1>3, PageFacts
    <3> QED BY <1>2, <1>3, <1>5, <2>2, <3>1, <3>2 DEF Sound
  <2> QED BY <2>1, <2>2
<1>11. /\ Sound(Refreshed(n, p, editing[p]), p, form, req', page'[p].seen)
       /\ \A a : \A t \in Topics : Due(Refreshed(n, p, editing[p]), p, form, req', t, a)
  BY <1>3, <1>10, RefreshedSound
<1>12. ASSUME NEW t \in Topics, Due(st[p], p, form, req, t, announced[t]), ~st[p].queued
       PROVE  UpToDate(p, t)' \/ Due(n, p, form, req', t, announced[t])
  <2>1. CASE st[p].retry
    BY <1>5, <2>1 DEF Due
  <2>2. CASE ~st[p].retry /\ st[p].last = p
    <3>1. Out(st[p], p, form) /\ st[p].last = p
      BY <1>1, <2>2 DEF Out
    <3>2. req[p].seen[t] = Unread \/ req[p].seen[t] >= announced[t]
      BY <1>1, <1>12, <2>2, <3>1 DEF Due
    <3>3. req[p].seen[t] >= announced[t]
      BY <1>8, <3>2 DEF Unread
    <3>4. CASE sw
      BY <1>2, <1>7, <1>8, <3>3, <3>4 DEF UpToDate, serverVars
    <3>5. CASE ~sw
      <4>1. ~Out(n, p, form)
        BY <1>3, <1>5, <2>2 DEF Out
      <4> QED BY <1>4, <1>5, <2>2, <3>5, <4>1 DEF Due
    <3> QED BY <3>4, <3>5
  <2>3. CASE ~st[p].retry /\ st[p].last # p
    <3>1. Out(n, p, form) <=> Out(st[p], p, form)
      BY <1>5, <2>3 DEF Out
    <3>2. n.stale = st[p].stale /\ n.last = st[p].last
      BY <1>3, <1>4, <1>5, <2>3 DEF sw, RegionState
    <3>3. \A f \in Forms : req'[f] = req[f]
      BY <1>2, <1>3, PageFacts
    <3>4. Out(st[p], p, form) => st[p].last \in Forms
      BY <2>3 DEF Out
    <3>5. /\ st[p].stale \/ Out(st[p], p, form)
          /\ Out(st[p], p, form) => \/ req[st[p].last].seen[t] = Unread
                                    \/ req[st[p].last].seen[t] >= announced[t]
      BY <1>1, <1>12, <2>3 DEF Due
    <3> QED BY <3>1, <3>2, <3>3, <3>4, <3>5 DEF Due
  <2> QED BY <2>1, <2>2, <2>3
<1>13. ASSUME NEW t \in Topics, UpToDate(p, t)
       PROVE  UpToDate(p, t)'
  <2>1. CASE sw
    <3>1. st[p].last = p /\ req[p].seen[t] # Unread
      <4>1. ap
        BY <2>1 DEF sw
      <4>2. req[p].seen[t] \in Nat
        BY <1>8
      <4>3. req[p].seen[t] # Unread
        BY <4>2 DEF Unread
      <4> QED BY <1>4, <4>1, <4>3
    <3>2. page[p].seen[t] <= req[p].seen[t] /\ page'[p].seen = req[p].seen
      BY <1>3, <1>7, <1>8, <2>1, <3>1 DEF Sound
    <3>3. page[p].seen[t] \in Nat /\ announced[t] \in Nat
      BY NumbersLemma DEF RenderInv
    <3> QED BY <1>2, <1>8, <1>13, <3>2, <3>3 DEF UpToDate, serverVars
  <2>2. CASE ~sw
    BY <1>2, <1>7, <1>13, <2>2 DEF UpToDate, serverVars
  <2> QED BY <2>1, <2>2
<1>14. ASSUME NEW r \in Regions
       PROVE  /\ Sound(st'[r], r, form', req', page'[r].seen)
              /\ st'[r].busy => running'
              /\ \A t \in Topics :
                   UpToDate(r, t) \/ Due(st[r], r, form, req, t, announced[t])
                     => UpToDate(r, t)' \/ Due(st'[r], r, form', req', t, announced[t])
  <2>1. CASE r = p
    BY <1>1, <1>3, <1>6, <1>10, <1>11, <1>12, <1>13, <2>1
  <2>2. CASE r # p
    <3>1. Sound(st[r], r, form, req, page[r].seen) /\ page'[r] = page[r]
      BY <1>7, <2>2, PageFacts
    <3>2. /\ Sound(st[r], r, form, req', page[r].seen)
          /\ \A t, a : Due(st[r], r, form, req, t, a) => Due(st[r], r, form, req', t, a)
      BY <1>2, <2>2, <3>1, OtherSlot
    <3>3. \A t \in Topics : UpToDate(r, t) => UpToDate(r, t)'
      BY <1>2, <3>1 DEF UpToDate, serverVars
    <3> QED BY <1>1, <1>3, <1>6, <2>2, <3>1, <3>2, <3>3
  <2> QED BY <2>1, <2>2
<1>15. \A f \in Forms : IF form'[f] = "out" THEN running' ELSE req'[f] = IdleRequest
  BY <1>1, <1>2, PageFacts
<1>16. /\ form' \in [Forms -> FormStates] /\ running' \in BOOLEAN /\ left' \subseteq Regions
       /\ view' \in {"shown", "hidden", "quiet"} /\ editing' \in [Regions -> BOOLEAN]
       /\ faults' \in Nat /\ (running => running') /\ left \subseteq left'
       /\ \A q \in Requests : req'[q] \in {req[q], IdleRequest}
  BY <1>1, <1>2, PageFacts
<1> QED BY <1>1, <1>2, <1>6, <1>9, <1>14, <1>15, <1>16, ShownMove

LEMMA FormSwapsKeeps ==
    ASSUME FullInv, RenderInv', NEW f \in Forms, FormSwaps(f)
    PROVE  PageInv'
<1> USE DEF FullInv, PageInv
<1>1. PICK brought \in SUBSET Regions, own \in Regions \cup {NoFetch}, still \in BOOLEAN :
        LET lands == LastTo(f) \cap brought
            swaps == {r \in lands : r = own \/ ~editing[r]}
            S == [r \in Regions |-> Landed(st[r], r \in lands, r \in swaps)]
        IN  /\ page' = [r \in Regions |-> IF r \in swaps THEN Answered(f) ELSE page[r]]
            /\ editing' = [r \in Regions |-> editing[r] /\ (r \in swaps => still)]
            /\ st' = Settle(S, editing')
            /\ left' = left \cup (LastTo(f) \ brought)
  BY DEF FormSwaps
<1> DEFINE lands == LastTo(f) \cap brought
           swaps == {r \in lands : r = own \/ ~editing[r]}
           ap(r) == r \in lands
           sw(r) == r \in swaps
           S == [r \in Regions |-> Landed(st[r], ap(r), sw(r))]
<1>2. /\ page' = [r \in Regions |-> IF sw(r) THEN Answered(f) ELSE page[r]]
      /\ editing' = [r \in Regions |-> editing[r] /\ (sw(r) => still)]
      /\ st' = Settle(S, editing')
      /\ left' = left \cup (LastTo(f) \ brought)
  BY <1>1
<1>3. /\ UNCHANGED <<running, view, conn, known, kstale, wire, faults>>
      /\ form[f] = "out" /\ req[f].phase = "done" /\ Drop(f)
      /\ form' = [form EXCEPT ![f] = "idle"]
  BY DEF FormSwaps, Taken, connVars
<1>4. /\ form \in [Forms -> FormStates] /\ f \in Requests /\ running
      /\ form' \in [Forms -> FormStates] /\ form'[f] = "idle"
      /\ \A g \in Forms \ {f} : form'[g] = form[g]
  BY <1>3, PageFacts DEF FormStates
<1>5. UNCHANGED serverVars /\ \A q \in Requests : req'[q] = IF q = f THEN IdleRequest ELSE req[q]
  BY <1>3, <1>4, SlotEmptied
<1>6. /\ Answered(f) \in Contents /\ Answered(f).seen = req[f].seen /\ Answered(f).boot <= boot
      /\ \A t \in Topics :
           /\ Answered(f).seen[t] <= committed[t] /\ req[f].seen[t] \in Nat
           /\ Answered(f).boot = boot
                => /\ Answered(f).v[t] <= counter[t]
                   /\ Answered(f).v[t] = counter[t] => Answered(f).seen[t] >= announced[t]
  BY <1>3, <1>4, AnsweredIs
<1>7. \A r \in Regions : S[r] = Landed(st[r], ap(r), sw(r))
  OBVIOUS
<1>8. \A r \in Regions : ap(r) <=> st[r].last = f /\ r \in brought
  BY DEF LastTo, Applies
<1>9. \A r \in Regions : ap(r) \in BOOLEAN /\ sw(r) \in BOOLEAN
  OBVIOUS
<1>10. \A r \in Regions : sw(r) => ap(r)
  OBVIOUS
<1>11. editing' \in [Regions -> BOOLEAN]
  BY <1>2
<1>12. \A r \in Regions : page'[r] = IF sw(r) THEN Answered(f) ELSE page[r]
  BY <1>2
<1> HIDE DEF ap, sw, S, lands, swaps
<1>13. page' \in [Regions -> Contents]
  <2>1. page' = [r \in Regions |-> page'[r]]
    BY <1>2
  <2>2. \A r \in Regions : page[r] \in Contents
    BY DEF PageTypeOK
  <2> QED BY <1>6, <1>12, <2>1, <2>2
<1>14. ContentsInv'
  <2>1. UNCHANGED <<boot, counter, announced, committed>>
    BY <1>5 DEF serverVars
  <2>2. ASSUME NEW r \in Regions, NEW t \in Topics
        PROVE  /\ page'[r].boot <= boot
               /\ page'[r].seen[t] <= committed[t]
               /\ page'[r].boot = boot
                    => /\ page'[r].v[t] <= counter[t]
                       /\ page'[r].v[t] = counter[t] => page'[r].seen[t] >= announced[t]
    <3>1. CASE sw(r)
      BY <1>6, <1>12, <3>1
    <3>2. CASE ~sw(r)
      BY <1>12, <3>2 DEF ContentsInv
    <3> QED BY <3>1, <3>2
  <2> QED BY <2>1, <2>2 DEF ContentsInv
<1>15. st' = [r \in Regions |-> st'[r]]
  BY <1>2 DEF Settle, Edited, Refresh
<1>16. ASSUME NEW r \in Regions
       PROVE  /\ Sound(st'[r], r, form', req', page'[r].seen)
              /\ st'[r].busy => running'
              /\ r \notin left' =>
                   \A t \in Topics :
                      UpToDate(r, t) \/ Due(st[r], r, form, req, t, announced[t])
                        => UpToDate(r, t)' \/ Due(st'[r], r, form', req', t, announced[t])
  <2>1. Sound(st[r], r, form, req, page[r].seen) /\ st[r] \in RegionState /\ r # f
    BY PageFacts, PageAssumption
  <2>2. /\ S[r] \in RegionState
        /\ S[r].stale <=> ~sw(r) /\ (st[r].stale \/ ap(r))
        /\ S[r].forms = st[r].forms /\ S[r].last = st[r].last /\ S[r].busy = st[r].busy
        /\ S[r].queued = st[r].queued /\ S[r].retry = st[r].retry /\ S[r].failed = st[r].failed
    <3> DEFINE c == ~sw(r) /\ (st[r].stale \/ ap(r))
    <3>1. c \in BOOLEAN
      OBVIOUS
    <3>2. S[r] = [st[r] EXCEPT !.stale = c]
      BY <1>7 DEF Landed
    <3>3. c <=> ~sw(r) /\ (st[r].stale \/ ap(r))
      OBVIOUS
    <3> HIDE DEF c
    <3>4. /\ S[r] \in RegionState /\ (S[r].stale <=> c)
          /\ S[r].forms = st[r].forms /\ S[r].last = st[r].last /\ S[r].busy = st[r].busy
          /\ S[r].queued = st[r].queued /\ S[r].retry = st[r].retry
          /\ S[r].failed = st[r].failed
      BY <2>1, <3>1, <3>2, StaleIs, ZenonT(30)
    <3> QED BY <3>3, <3>4, Zenon
  <2>3. \A g \in Forms \ {f} : req'[g] = req[g] /\ form'[g] = form[g]
    BY <1>4, <1>5, PageFacts
  <2>4. req'[f] = IdleRequest /\ req'[r] = req[r]
    BY <1>4, <1>5, <2>1, PageFacts
  <2>5. Sound(S[r], r, form, req', page'[r].seen)
    <3>1. CASE st[r].last = f
      BY <2>1, <2>2, <2>4, <3>1, IdleUnread DEF Sound
    <3>2. CASE st[r].last # f
      <4>1. page'[r] = page[r]
        BY <1>8, <1>10, <1>12, <3>2
      <4> QED BY <2>1, <2>2, <2>3, <2>4, <3>2, <4>1 DEF Sound
    <3> QED BY <3>1, <3>2
  <2>6. /\ Sound(Settle(S, editing')[r], r, form', req', page'[r].seen)
        /\ running => \A a : \A t \in Topics : Due(S[r], r, form', req', t, a)
                                             => Due(Settle(S, editing')[r], r, form', req', t, a)
        /\ Settle(S, editing')[r].busy => S[r].busy \/ running
    BY <1>3, <1>4, <1>11, <2>5, FormSettles
  <2>7. ASSUME NEW t \in Topics, Due(st[r], r, form, req, t, announced[t]), r \notin left'
        PROVE  UpToDate(r, t)' \/ Due(S[r], r, form', req', t, announced[t])
    <3>1. CASE st[r].queued \/ st[r].retry \/ (st[r].failed /\ ~st[r].busy)
      BY <2>2, <3>1 DEF Due
    <3>2. CASE /\ ~(st[r].queued \/ st[r].retry \/ (st[r].failed /\ ~st[r].busy))
               /\ st[r].last = f
      <4>1. Out(st[r], r, form)
        BY <1>3, <3>2 DEF Out
      <4>2. req[f].seen[t] = Unread \/ req[f].seen[t] >= announced[t]
        BY <2>7, <3>2, <4>1 DEF Due
      <4>3. req[f].seen[t] >= announced[t]
        BY <1>6, <4>2 DEF Unread
      <4>4. CASE sw(r)
        BY <1>5, <1>6, <1>12, <4>3, <4>4 DEF UpToDate, serverVars
      <4>5. CASE ~sw(r)
        <5>1. ~Out(S[r], r, form')
          BY <1>4, <2>1, <2>2, <3>2 DEF Out
        <5>2. S[r].stale
          <6>1. r \in brought
            BY <1>2, <2>7, <3>2 DEF LastTo, Applies
          <6> QED BY <1>8, <2>2, <3>2, <4>5, <6>1
        <5> QED BY <5>1, <5>2 DEF Due
      <4> QED BY <4>4, <4>5
    <3>3. CASE /\ ~(st[r].queued \/ st[r].retry \/ (st[r].failed /\ ~st[r].busy))
               /\ st[r].last # f
      <4>1. Out(S[r], r, form') <=> Out(st[r], r, form)
        BY <2>2, <2>3, <3>3 DEF Out
      <4>2. S[r].stale <=> st[r].stale
        BY <1>8, <1>10, <2>2, <3>3
      <4>3. Out(st[r], r, form) => req'[st[r].last] = req[st[r].last]
        BY <2>3, <2>4, <3>3 DEF Out
      <4>4. /\ st[r].stale \/ Out(st[r], r, form)
            /\ Out(st[r], r, form) => \/ req[st[r].last].seen[t] = Unread
                                      \/ req[st[r].last].seen[t] >= announced[t]
        BY <2>7, <3>3 DEF Due
      <4> QED BY <2>2, <4>1, <4>2, <4>3, <4>4 DEF Due
    <3> QED BY <3>1, <3>2, <3>3
  <2>8. ASSUME NEW t \in Topics, UpToDate(r, t)
        PROVE  UpToDate(r, t)'
    <3>1. CASE sw(r)
      <4>1. req[f].seen[t] \in Nat /\ page[r].seen[t] \in Nat /\ announced[t] \in Nat
        BY <1>6, NumbersLemma DEF RenderInv
      <4>2. st[r].last = f /\ req[f].seen[t] # Unread
        BY <1>8, <1>10, <3>1, <4>1 DEF Unread
      <4>3. page[r].seen[t] <= req[f].seen[t] /\ page'[r].seen = req[f].seen
        BY <1>6, <1>12, <2>1, <3>1, <4>2 DEF Sound
      <4> QED BY <1>5, <2>8, <4>1, <4>3 DEF UpToDate, serverVars
    <3>2. CASE ~sw(r)
      BY <1>5, <1>12, <2>8, <3>2 DEF UpToDate, serverVars
    <3> QED BY <3>1, <3>2
  <2> QED BY <1>2, <1>3, <1>4, <2>6, <2>7, <2>8
<1>17. \A g \in Forms : IF form'[g] = "out" THEN running' ELSE req'[g] = IdleRequest
  <2> SUFFICES ASSUME NEW g \in Forms
               PROVE  IF form'[g] = "out" THEN running' ELSE req'[g] = IdleRequest
    OBVIOUS
  <2>1. CASE g = f
    BY <1>4, <1>5, <2>1
  <2>2. CASE g # f
    BY <1>3, <1>4, <1>5, <2>2, PageFacts
  <2> QED BY <2>1, <2>2
<1>18. /\ running' \in BOOLEAN /\ left' \subseteq Regions /\ view' \in {"shown", "hidden", "quiet"}
       /\ faults' \in Nat /\ (running => running') /\ left \subseteq left'
       /\ \A q \in Requests : req'[q] \in {req[q], IdleRequest}
  BY <1>2, <1>3, <1>5, PageFacts DEF LastTo
<1> QED BY <1>3, <1>4, <1>5, <1>11, <1>13, <1>14, <1>15, <1>16, <1>17, <1>18, ShownMove

-----------------------------------------------------------------------------
(* The invariant. *)

LEMMA PageUnchanged ==
    ASSUME FullInv, UNCHANGED liveVars
    PROVE  PageInv'
<1> USE DEF FullInv, PageInv, liveVars, renderVars, pageVars, connVars
<1>1. RenderTypeOK' /\ PageTypeOK' /\ (boot > 0)'
  BY DEF RenderInv, RenderTypeOK, CountersTypeOK, PageTypeOK
<1>2. SlotsInv' /\ ContentsInv' /\ RegionsInv' /\ RunningInv'
  BY DEF SlotsInv, InFlight, ContentsInv, RegionsInv, RunningInv
<1>3. HeardInv'
  BY DEF HeardInv, UpToDate, OnWire
<1> QED BY <1>1, <1>2, <1>3

LEMMA PageStep == FullInv /\ [PageNext]_liveVars => FullInv'
<1> SUFFICES ASSUME FullInv, [PageNext]_liveVars
             PROVE  FullInv'
  OBVIOUS
<1>1. RenderInv'
  BY RenderKept DEF FullInv
<1>2. CASE ServerStep \/ ServerRestart
  BY <1>1, <1>2, ServerKeeps, RestartKeeps DEF FullInv
<1>3. CASE OpenStream \/ Deliver \/ StreamLost \/ Quiet
  BY <1>1, <1>3, OpenStreamKeeps, DeliverKeeps, DisconnectKeeps DEF FullInv
<1>4. ASSUME NEW t \in Topics, SendEvent(t)
      PROVE  FullInv'
  BY <1>1, <1>4, SendEventKeeps DEF FullInv
<1>5. ASSUME NEW r \in Regions,
             FetchAnswered(r) \/ FetchFailed(r) \/ Retry(r) \/ Edit(r) \/ EndEdit(r)
      PROVE  FullInv'
  BY <1>1, <1>5, FetchAnsweredKeeps, FetchFailedKeeps, RetryKeeps, EditHideKeeps, EndEditKeeps
  DEF FullInv
<1>6. ASSUME NEW f \in Forms,
             Submit(f) \/ FormSwaps(f) \/ FormUnknown(f) \/ FormStays(f) \/ FormAbandoned(f)
      PROVE  FullInv'
  BY <1>1, <1>6, SubmitKeeps, FormSwapsKeeps, FormUnknownKeeps, FormStaysKeeps,
     FormAbandonedKeeps DEF FullInv
<1>7. CASE Hide \/ Show \/ PageHide \/ PageShow
  BY <1>1, <1>7, EditHideKeeps, ReviveKeeps, PageHideKeeps DEF FullInv
<1>8. CASE UNCHANGED liveVars
  BY <1>1, <1>8, PageUnchanged DEF FullInv
<1> QED BY <1>2, <1>3, <1>4, <1>5, <1>6, <1>7, <1>8 DEF PageNext

LEMMA PageInvariance == PageSpec => []FullInv
BY PageInitial, PageStep, PTL DEF PageSpec

\* Every state of an open page has its type: a region's failures and its
\* open forms stay in their ranges, and no version or content is missing.
THEOREM PageTypeCorrect == PageSpec => []PageTypeOK
<1>1. FullInv => PageTypeOK
  BY DEF FullInv, PageInv
<1> QED BY <1>1, PageInvariance, PTL

\* The server keeps its promises while pages use it: a page at the newest
\* version of a topic shows every announced write.
THEOREM PageRenders == PageSpec => []CurrentMeansComplete /\ []FreshMeansCurrent
<1>1. RenderInv => CurrentMeansComplete
  <2> SUFFICES ASSUME RenderInv, NEW q \in Requests, NEW t \in Topics,
                      req[q].phase = "done", req[q].boot = boot,
                      req[q].v[t] >= counter[t]
               PROVE  req[q].seen[t] >= announced[t]
    BY DEF CurrentMeansComplete
  <2>1. Knows(q, t)
    BY DEF RenderInv, RequestsInv
  <2>2. req[q].v[t] \in Int /\ counter[t] \in Nat
    BY DEF RenderInv, RenderTypeOK, CountersTypeOK, Request, Values, Unread
  <2> QED BY <2>1, <2>2 DEF Knows
<1>2. RenderInv => FreshMeansCurrent
  BY DEF RenderInv, RequestsInv, Knows, FreshMeansCurrent
<1>3. FullInv => RenderInv
  BY DEF FullInv
<1> QED BY <1>1, <1>2, <1>3, PageInvariance, PTL

\* No update is missed: with an open stream that has nothing more to say, a
\* region that has nothing left to do shows every announced write, whatever
\* answers were lost, late or overtaken, until the answer of the form that
\* overtook its fetch leaves it out.
THEOREM PageMissesNothing == PageSpec => []NothingMissedBySwaps
<1>1. FullInv => NothingMissedBySwaps
  <2> SUFFICES ASSUME FullInv, running, conn = "up", wire = <<>>, NEW r \in Regions \ left,
                      NEW t \in Topics, Settled(r), ~kstale[t], known[t] >= counter[t]
               PROVE  UpToDate(r, t)
    BY DEF NothingMissedBySwaps, NotMissed
  <2>1. ~OnWire(t)
    BY DEF OnWire
  <2>2. Sound(st[r], r, form, req, page[r].seen)
    BY PageFacts
  <2>3. \A f \in Forms : form[f] = "idle"
    <3>1. Cardinality(Open(form)) = 0
      BY <2>2 DEF Sound, Settled
    <3>2. Open(form) = {}
      BY <3>1, OpenFinite
    <3> QED BY <3>2 DEF Open
  <2>4. ~Out(st[r], r, form)
    BY <2>3 DEF Out, Settled
  <2>5. ~Due(st[r], r, form, req, t, announced[t])
    BY <2>4 DEF Due, Settled
  <2> QED BY <2>1, <2>5 DEF FullInv, PageInv, HeardInv
<1> QED BY <1>1, PageInvariance, PTL

\* Regions that take the answer of their last fetch, and no others, move
\* forward: it has read nothing older than what they show.
LEMMA SwapForward ==
    ASSUME FullInv, NEW q \in Requests, req[q].phase = "done", UNCHANGED committed,
           \A r \in Regions :
              \/ page'[r] = page[r]
              \/ page'[r] = Answered(q) /\ st[r].last = q /\ q \in {r} \cup Forms
    PROVE  View!Swap
<1>1. ASSUME NEW r \in Regions, NEW t \in Topics
      PROVE  page'[r].seen[t] \in page[r].seen[t]..committed[t]
  <2>1. /\ page[r].seen[t] \in Nat /\ committed[t] \in Nat
        /\ page[r].seen[t] <= committed[t]
    BY DEF FullInv, PageInv, PageTypeOK, Contents, ContentsInv, RenderInv, RenderTypeOK
  <2>2. CASE page'[r] = page[r]
    BY <2>1, <2>2
  <2>3. CASE page'[r] = Answered(q) /\ st[r].last = q /\ q \in {r} \cup Forms
    <3>1. Answered(q).seen[t] = req[q].seen[t] /\ req[q].seen[t] \in Nat
      BY AnsweredIs
    <3>2. req[q].seen[t] <= committed[t]
      BY AnsweredIs
    <3>3. Sound(st[r], r, form, req, page[r].seen)
      BY PageFacts
    <3>4. req[q].seen[t] >= page[r].seen[t]
      BY <2>1, <2>3, <3>1, <3>3 DEF Sound, Unread
    <3> QED BY <2>1, <2>3, <3>1, <3>2, <3>4
  <2> QED BY <2>2, <2>3
<1> QED BY <1>1 DEF View!Swap

\* An answer that lands swaps regions forward.
LEMMA AnswersForward ==
    ASSUME FullInv,
           \/ \E r \in Regions : FetchAnswered(r)
           \/ \E f \in Forms : FormSwaps(f)
    PROVE  View!Swap
<1>1. ASSUME NEW p \in Regions, FetchAnswered(p)
      PROVE  View!Swap
  <2>1. /\ req[p].phase = "done" /\ UNCHANGED committed
        /\ page' = IF Applies(p, p) /\ ~editing[p] THEN [page EXCEPT ![p] = Answered(p)] ELSE page
    BY <1>1 DEF FetchAnswered, Taken, Drop
  <2>2. p \in Requests /\ page = [r \in Regions |-> page[r]]
    BY PageAssumption DEF FullInv, PageInv, PageTypeOK
  <2>3. \A r \in Regions : \/ page'[r] = page[r]
                           \/ page'[r] = Answered(p) /\ st[r].last = p /\ p \in {r} \cup Forms
    <3>1. CASE Applies(p, p) /\ ~editing[p]
      BY <2>1, <2>2, <3>1 DEF Applies
    <3>2. CASE ~(Applies(p, p) /\ ~editing[p])
      BY <2>1, <3>2
    <3> QED BY <3>1, <3>2
  <2> QED BY <2>1, <2>2, <2>3, SwapForward
<1>2. ASSUME NEW f \in Forms, FormSwaps(f)
      PROVE  View!Swap
  <2>1. req[f].phase = "done" /\ UNCHANGED committed /\ f \in Requests
    BY <1>2, PageAssumption DEF FormSwaps, Taken, Drop
  <2>2. PICK swaps \in SUBSET LastTo(f) :
          page' = [r \in Regions |-> IF r \in swaps THEN Answered(f) ELSE page[r]]
    BY <1>2 DEF FormSwaps
  <2>3. \A r \in Regions : \/ page'[r] = page[r]
                           \/ page'[r] = Answered(f) /\ st[r].last = f /\ f \in {r} \cup Forms
    BY <2>2 DEF LastTo, Applies
  <2> QED BY <2>1, <2>3, SwapForward
<1> QED BY <1>1, <1>2

\* A step that leaves the pages as they are is a write of the view, or none.
LEMMA WritesForward ==
    ASSUME FullInv, UNCHANGED page, UNCHANGED committed \/ \E t \in Topics : Commit(t)
    PROVE  [View!ViewNext]_(View!viewVars)
BY DEF Commit, View!ViewNext, View!Write, View!viewVars

LEMMA PageForward ==
    ASSUME FullInv, [PageNext]_liveVars
    PROVE  [View!ViewNext]_(View!viewVars)
<1>1. CASE \/ \E r \in Regions : FetchAnswered(r)
           \/ \E f \in Forms : FormSwaps(f)
  BY <1>1, AnswersForward DEF View!ViewNext
<1>2. CASE ServerStep
  <2>1. UNCHANGED page
    BY <1>2 DEF ServerStep, pageVars
  <2>2. UNCHANGED committed \/ \E t \in Topics : Commit(t)
    BY <1>2 DEF ServerStep, Notify, Begin, Answer, Query, Attrs
  <2> QED BY <2>1, <2>2, WritesForward
<1>3. CASE \/ ServerRestart \/ OpenStream \/ Deliver \/ StreamLost
           \/ Hide \/ Quiet \/ Show \/ PageHide \/ PageShow \/ UNCHANGED liveVars
  <2>1. UNCHANGED <<page, committed>>
    BY <1>3 DEF ServerRestart, Restart, OpenStream, Deliver, StreamLost, Hide, Quiet, Show,
                PageHide, PageShow, liveVars, renderVars, pageVars, serverVars
  <2> QED BY <2>1, WritesForward
<1>4. ASSUME NEW t \in Topics, SendEvent(t)
      PROVE  [View!ViewNext]_(View!viewVars)
  BY <1>4, WritesForward DEF SendEvent, renderVars, pageVars
<1>5. ASSUME NEW r \in Regions, FetchFailed(r) \/ Retry(r) \/ Edit(r) \/ EndEdit(r)
      PROVE  [View!ViewNext]_(View!viewVars)
  <2>1. UNCHANGED <<page, committed>>
    BY <1>5 DEF FetchFailed, Taken, Drop, Retry, Edit, EndEdit, renderVars
  <2> QED BY <2>1, WritesForward
<1>6. ASSUME NEW f \in Forms,
             Submit(f) \/ FormUnknown(f) \/ FormStays(f) \/ FormAbandoned(f)
      PROVE  [View!ViewNext]_(View!viewVars)
  <2>1. UNCHANGED <<page, committed>>
    BY <1>6 DEF Submit, FormUnknown, FormStays, FormAbandoned, Taken, Drop, renderVars
  <2> QED BY <2>1, WritesForward
<1> QED BY <1>1, <1>2, <1>3, <1>4, <1>5, <1>6 DEF PageNext

\* No region goes back: each step of the server, the network and the page is
\* a write, a swap of regions by newer content, or a stutter of LiveView.
THEOREM PageNeverBackwards == PageSpec => NeverBackwards
<1>1. PageInit => View!ViewInit
  BY DEF PageInit, RenderInit, View!ViewInit
<1>2. FullInv /\ [PageNext]_liveVars => [View!ViewNext]_(View!viewVars)
  BY PageForward
<1> QED BY <1>1, <1>2, PageInvariance, PTL DEF PageSpec, NeverBackwards, View!ViewSpec

=============================================================================
