----------------------------- MODULE JobsProofs ------------------------------
(***************************************************************************)
(* A finished job stays as its owner has read it, whatever the pages, the *)
(* streams and the processes around the registry do.                      *)
(***************************************************************************)
EXTENDS JobPage, SequenceTheorems, TLAPS

\* Whoever may still start has no result to lose.
JobInv ==
    /\ job \in [Ids -> Job]
    /\ DOMAIN fn = Ids
    /\ \A i \in Ids : fn[i] = "none" => job[i].status = "none"

\* What a step may do to the job at i: nothing, or something to one that
\* has not finished.
Spared(i) == job[i].status \in {"done", "failed"} => job'[i] = job[i]

FrozenStep == \A i \in Ids : Spared(i)

LEMMA JobInvInit == Init => JobInv
  BY DEF Init, JobsInit, JobInv

\* Settling a job touches that job alone, and only while it runs.
LEMMA FinishSpares ==
    ASSUME JobInv, NEW i \in Ids, NEW status \in {"done", "failed"}, Finish(i, status)
    PROVE  /\ job' \in [Ids -> Job]
           /\ \A k \in Ids : job[k].status = "none" => job'[k] = job[k]
           /\ FrozenStep
  BY DEF JobInv, Finish, FrozenStep, Spared, Job

\* A step of the registry on one job: its own progress and end are written
\* only while it is not finished.
LEMMA JobStepSpares ==
    ASSUME JobInv, NEW i \in Ids, JobStep(i)
    PROVE  JobInv' /\ FrozenStep
<1>1. CASE Start(i)
  <2>1. PICK o \in Owners :
           \/ /\ job' = [job EXCEPT ![i] = [@ EXCEPT !.owner = o, !.status = "running"]]
              /\ fn' = [fn EXCEPT ![i] = "working"]
           \/ UNCHANGED <<job, fn>>
    BY <1>1 DEF Start
  <2>2. job[i].status = "none"
    BY <1>1 DEF Start, JobInv
  <2>3. CASE UNCHANGED <<job, fn>>
    BY <2>3 DEF JobInv, FrozenStep, Spared
  <2>4. CASE /\ job' = [job EXCEPT ![i] = [@ EXCEPT !.owner = o, !.status = "running"]]
             /\ fn' = [fn EXCEPT ![i] = "working"]
    BY <2>2, <2>4 DEF JobInv, FrozenStep, Spared, Job
  <2>5. QED
    BY <2>1, <2>3, <2>4
<1>2. CASE Report(i)
  <2>1. CASE job[i].status = "running"
    <3>1. job' = [job EXCEPT ![i].progress = @ + 1] /\ fn' = fn
      BY <1>2, <2>1 DEF Report
    <3>2. job[i].progress + 1 \in 0..MaxProgress
      BY <1>2, JobsAssumption DEF Report, JobInv, Job
    <3>3. QED
      BY <1>2, <2>1, <3>1, <3>2 DEF Report, JobInv, FrozenStep, Spared, Job
  <2>2. CASE job[i].status # "running"
    <3>1. job' = job /\ fn' = fn
      BY <1>2, <2>2 DEF Report, JobInv, Job
    <3>2. QED
      BY <3>1 DEF JobInv, FrozenStep, Spared
  <2>3. QED
    BY <2>1, <2>2
<1>3. CASE Receive(i)
  <2>1. fn[i] # "none" /\ fn' = [fn EXCEPT ![i] = "over"]
    BY <1>3 DEF Receive, Results
  <2>2. /\ job' \in [Ids -> Job]
        /\ \A k \in Ids : job[k].status = "none" => job'[k] = job[k]
        /\ FrozenStep
    <3>1. CASE i \in waiting
      <4>1. PICK status \in {"done", "failed"} : Finish(i, status)
        BY <1>3, <3>1 DEF Receive
      <4>2. QED
        BY <4>1, FinishSpares
    <3>2. CASE i \notin waiting
      BY <1>3, <3>2 DEF Receive, JobInv, FrozenStep, Spared
    <3>3. QED
      BY <3>1, <3>2
  <2>3. QED
    BY <2>1, <2>2 DEF JobInv
<1>4. CASE Timeout(i)
  <2>1. Finish(i, "failed") /\ fn' = fn
    BY <1>4 DEF Timeout
  <2>2. /\ job' \in [Ids -> Job]
        /\ \A k \in Ids : job[k].status = "none" => job'[k] = job[k]
        /\ FrozenStep
    BY <2>1, FinishSpares
  <2>3. QED
    BY <2>1, <2>2 DEF JobInv
<1>5. CASE Expire(i) \/ Age(i)
  BY <1>5 DEF Expire, Age, JobInv, FrozenStep, Spared
<1>6. CASE \E how \in Results : Return(i, how)
  BY <1>6 DEF Return, Results, JobInv, FrozenStep, Spared
<1>7. QED
  BY <1>1, <1>2, <1>3, <1>4, <1>5, <1>6 DEF JobStep

\* Requests sweep and read; they write no job.
LEMMA GetSpares ==
    ASSUME JobInv, Get PROVE JobInv' /\ FrozenStep
  BY DEF Get, JobInv, FrozenStep, Spared

\* The end of a process keeps fn's of the past from starting again.
LEMMA ForgetSpares ==
    ASSUME JobInv, Forget PROVE JobInv' /\ FrozenStep
  BY DEF Forget, JobInv, FrozenStep, Spared

LEMMA NextSpares == JobInv /\ [Next]_vars => JobInv' /\ FrozenStep
<1> SUFFICES ASSUME JobInv, [Next]_vars
             PROVE  JobInv' /\ FrozenStep
  OBVIOUS
<1>1. CASE \E i \in Ids : JobStep(i)
  BY <1>1, JobStepSpares
<1>2. CASE StatusPage \/ Dial \/ Pass \/ Fragment
  <2>1. Get
    BY <1>2 DEF StatusPage, Dial, Pass, Fragment
  <2>2. QED
    BY <2>1, GetSpares
<1>3. CASE Restart
  <2>1. Forget
    BY <1>3 DEF Restart
  <2>2. QED
    BY <2>1, ForgetSpares
<1>4. CASE StreamEnds \/ Break \/ FetchFails \/ Script \/ UNCHANGED vars
  <2>1. UNCHANGED jobVars
    BY <1>4 DEF StreamEnds, Break, FetchFails, Script, HandleEvent, TimerFires, HandleReply, vars
  <2>2. QED
    BY <2>1 DEF jobVars, JobInv, FrozenStep, Spared
<1>5. QED
  BY <1>1, <1>2, <1>3, <1>4 DEF Next, Serving

\* What an owner has read of a finished job is settled (jobs.go finish and
\* progress), for any number of jobs, owners, texts and faults.
THEOREM FinishedIsFrozen == Spec => Frozen
<1>1. JobInv /\ [Next]_vars => [FrozenStep]_jobVars
  BY NextSpares
<1>2. QED
  <2>1. [FrozenStep]_jobVars => [\A i \in Ids : job[i].status \in {"done", "failed"} => job'[i] = job[i]]_jobVars
    BY DEF FrozenStep, Spared
  <2>2. JobInv /\ [Next]_vars => JobInv'
    BY NextSpares
  <2>3. QED
    BY <1>1, <2>1, <2>2, JobInvInit, PTL DEF Spec, Frozen

-----------------------------------------------------------------------------
(* The registry's types, and that no ID is drawn twice. *)

RegistryInv ==
    /\ JobInv
    /\ JobsTypeOK
    /\ \A i \in known : fn[i] # "none"

\* What a step may do to the registry: whoever has started does not start
\* again.
NoComeback == \A i \in Ids : fn[i] # "none" => fn'[i] # "none" /\ (i \in known' => i \in known)

LEMMA RegistryInit == Init => RegistryInv
<1> SUFFICES ASSUME Init PROVE RegistryInv
  OBVIOUS
<1>1. JobInv
  BY JobInvInit
<1> QED BY <1>1 DEF Init, JobsInit, RegistryInv, JobsTypeOK, JobInv

LEMMA JobStepRegisters ==
    ASSUME RegistryInv, NEW i \in Ids, JobStep(i)
    PROVE  RegistryInv' /\ NoComeback
<1> USE DEF RegistryInv
<1>1. JobInv' /\ job' \in [Ids -> Job]
  BY JobStepSpares DEF JobInv
<1>2. CASE Start(i)
  <2>1. known' \in {Swept, Swept \cup {i}} /\ fn[i] = "none"
    BY <1>2 DEF Start
  <2>2. CASE fn' = [fn EXCEPT ![i] = "working"] /\ waiting' = waiting \cup {i}
    BY <1>1, <1>2, <2>1, <2>2 DEF Start, JobsTypeOK, NoComeback, Swept
  <2>3. CASE UNCHANGED <<fn, waiting>> /\ known' = Swept
    BY <1>1, <1>2, <2>1, <2>3 DEF Start, JobsTypeOK, NoComeback, Swept
  <2> QED BY <1>2, <2>2, <2>3 DEF Start
<1>3. CASE Report(i) \/ Timeout(i) \/ Expire(i)
  BY <1>1, <1>3 DEF Report, Timeout, Expire, JobsTypeOK, NoComeback
<1>4. CASE Age(i)
  BY <1>1, <1>4 DEF Age, JobsTypeOK, NoComeback
<1>5. CASE Receive(i) \/ \E how \in Results : Return(i, how)
  <2>1. /\ known' = known /\ old' = old /\ waiting' \subseteq Ids /\ expired' \subseteq Ids
        /\ \E how \in Results \cup {"over"} : fn' = [fn EXCEPT ![i] = how]
    BY <1>5 DEF Receive, Return, JobsTypeOK
  <2> QED BY <1>1, <2>1 DEF JobsTypeOK, NoComeback, Results
<1> QED BY <1>2, <1>3, <1>4, <1>5 DEF JobStep

LEMMA RegistryStep ==
    ASSUME RegistryInv, [Next]_vars
    PROVE  RegistryInv' /\ NoComeback
<1> USE DEF RegistryInv
<1>1. JobInv' /\ job' \in [Ids -> Job]
  BY NextSpares DEF JobInv
<1>2. CASE \E i \in Ids : JobStep(i)
  BY <1>2, JobStepRegisters
<1>3. CASE Get
  BY <1>1, <1>3 DEF Get, Swept, JobsTypeOK, NoComeback
<1>4. CASE Forget
  BY <1>1, <1>4 DEF Forget, JobsTypeOK, NoComeback
<1>5. CASE UNCHANGED jobVars
  BY <1>1, <1>5 DEF jobVars, JobsTypeOK, NoComeback
<1>6. StatusPage \/ Dial \/ Pass \/ Fragment => Get
  BY DEF StatusPage, Dial, Pass, Fragment
<1>7. StreamEnds \/ Break \/ FetchFails \/ Script \/ UNCHANGED vars => UNCHANGED jobVars
  BY DEF StreamEnds, Break, FetchFails, Script, HandleEvent, TimerFires, HandleReply, vars
<1>8. Restart => Forget
  BY DEF Restart
<1> QED BY <1>2, <1>3, <1>4, <1>5, <1>6, <1>7, <1>8 DEF Next, Serving

-----------------------------------------------------------------------------
(* The page. *)

\* What a stream may say: that the job is gone, only when it is.
Sayable == {"update", "done", "error"} \cup (IF Watched \in known THEN {} ELSE {"gone"})

\* What keeps the page looking: its stream, a timer or a fetch.
Busy == timers + (IF fetch # "none" THEN 1 ELSE 0) + (IF src THEN 1 ELSE 0)

\* The script never looks in more than two ways at once, and a stream never
\* beside a timer; before the page is there nothing does; and the page is of
\* a job that was started.  What the script knows of the job's absence, from
\* the stream or from a refused fetch, is true.
PageInv ==
    /\ page \in {"none", "watching", "left"}
    /\ shown \in Snapshot /\ last \in Snapshot
    /\ src \in BOOLEAN /\ queued \in BOOLEAN
    /\ handler \in {"none", "dialing", "open", "ended"}
    /\ wire \in Seq(Sayable)
    /\ fetch \in {"none", "asked", "answered"}
    /\ reply \in [kind : {"fragment", "away", "refused", "failed"}, snap : Snapshot]
    /\ faults \in 0..MaxFaults
    /\ timers \in Nat /\ Busy <= 2 /\ (src => timers = 0)
    /\ page = "none" => Silent /\ handler = "none" /\ wire = <<>>
    /\ page # "none" => fn[Watched] # "none"
    /\ fetch = "answered" /\ reply.kind = "refused" => ~Polls \/ Watched \notin known
    /\ NeverStranded

LEMMA PageInitial == Init => PageInv
<1> SUFFICES ASSUME Init PROVE PageInv
  OBVIOUS
<1>1. wire \in Seq(Sayable)
  BY EmptySeq DEF Init
<1>2. Nowhere \in Snapshot
  BY JobsAssumption DEF Nowhere, Snapshot
<1>3. reply \in [kind : {"fragment", "away", "refused", "failed"}, snap : Snapshot]
  BY <1>2 DEF Init, NoReply
<1>4. timers \in Nat /\ Busy <= 2 /\ Silent /\ faults \in 0..MaxFaults
  BY PageAssumption DEF Init, Busy, Silent
<1> QED BY <1>1, <1>2, <1>3, <1>4 DEF Init, PageInv, NeverStranded

\* What a page knows of its job stays true.
LEMMA StillTrue ==
    ASSUME RegistryInv, PageInv, NoComeback
    PROVE  /\ Watched \in Ids /\ Snap \in Snapshot /\ Nowhere \in Snapshot
           /\ wire \in Seq(Sayable')
           /\ page # "none" => fn'[Watched] # "none"
           /\ page # "none" /\ Watched \notin known => Watched \notin known'
<1>1. Watched \in Ids /\ Nowhere \in Snapshot
  BY PageAssumption, JobsAssumption DEF Nowhere, Snapshot
<1>2. Snap \in Snapshot
  BY <1>1 DEF RegistryInv, JobsTypeOK, Job, Snap, Snapshot
<1>3. /\ page # "none" => fn'[Watched] # "none"
      /\ page # "none" /\ Watched \notin known => Watched \notin known'
  BY <1>1 DEF PageInv, NoComeback
<1>4. wire \in Seq(Sayable')
  <2>1. CASE page = "none"
    BY <2>1, EmptySeq DEF PageInv
  <2>2. CASE page # "none"
    <3>1. Sayable \subseteq Sayable'
      BY <1>3, <2>2 DEF Sayable
    <3> HIDE DEF Sayable
    <3>2. wire \in Seq(Sayable)
      BY DEF PageInv
    <3> QED BY <3>1, <3>2
  <2> QED BY <2>1, <2>2
<1> QED BY <1>1, <1>2, <1>3, <1>4

\* The registry and the server: the script is not concerned.
LEMMA ServerKeeps ==
    ASSUME RegistryInv, PageInv, NoComeback, UNCHANGED <<page, shown, reply, src, timers, fetch, queued>>,
           handler' \in {"none", "dialing", "open", "ended"}, last' \in Snapshot,
           faults' \in 0..MaxFaults, wire' \in Seq(Sayable'),
           page = "none" => handler' = "none" /\ wire' = <<>>
    PROVE  PageInv'
<1>1. /\ page # "none" => fn'[Watched] # "none"
      /\ page # "none" /\ Watched \notin known => Watched \notin known'
  BY StillTrue
<1>2. fetch = "answered" => page # "none"
  BY DEF PageInv, Silent
<1> QED BY <1>1, <1>2 DEF PageInv, Silent, Busy, Polls, NeverStranded

\* A handler that ends says last what it may say.
LEMMA EndsSays ==
    ASSUME RegistryInv, PageInv, NoComeback, NEW events \in Seq(Sayable'), Ends(events)
    PROVE  handler' = "ended" /\ last' \in Snapshot /\ wire' \in Seq(Sayable')
<1>1. <<"error">> \in Seq(Sayable') /\ wire \in Seq(Sayable')
  BY StillTrue DEF Sayable
<1>2. handler' = "ended" /\ last' = Nowhere /\ wire' = wire \o events \o <<"error">>
  BY DEF Ends
<1> HIDE DEF Sayable
<1>3. wire \o events \in Seq(Sayable')
  BY <1>1, ConcatProperties
<1>4. (wire \o events) \o <<"error">> \in Seq(Sayable')
  BY <1>1, <1>3, ConcatProperties
<1> QED BY <1>2, <1>4, StillTrue

LEMMA ServingKeeps ==
    ASSUME RegistryInv, PageInv, RegistryInv', NoComeback,
           Dial \/ Pass \/ StreamEnds \/ Break \/ Restart
    PROVE  PageInv'
<1> USE DEF PageInv
<1>1. /\ UNCHANGED <<page, shown, reply, src, timers, fetch, queued>>
      /\ faults' \in 0..MaxFaults
  BY PageAssumption DEF Dial, Pass, StreamEnds, Break, Restart
<1>2. wire \in Seq(Sayable') /\ Nowhere \in Snapshot /\ Snap \in Snapshot
  BY StillTrue
<1>4. ASSUME NEW events \in Seq(Sayable'), Ends(events), handler # "none"
      PROVE  PageInv'
  BY <1>1, <1>4, EndsSays, ServerKeeps
<1>5. CASE Dial
  <2>1. CASE Ends(<<>>)
    BY <1>4, <1>5, <2>1, EmptySeq DEF Dial
  <2>2. CASE handler' = "open" /\ last' = Snap /\ UNCHANGED wire
    BY <1>1, <1>2, <1>5, <2>2, ServerKeeps DEF Dial
  <2> QED BY <1>5, <2>1, <2>2 DEF Dial
<1>6. CASE Pass
  <2>1. CASE Ends(<<"gone">>) /\ Watched \notin Swept
    <3>1. <<"gone">> \in Seq(Sayable')
      BY <1>6, <2>1 DEF Pass, Get, Sayable
    <3> QED BY <1>4, <1>6, <2>1, <3>1 DEF Pass
  <2>2. CASE Ends(<<"done">>)
    <3>1. <<"done">> \in Seq(Sayable')
      BY DEF Sayable
    <3> QED BY <1>4, <1>6, <2>2, <3>1 DEF Pass
  <2>3. CASE last' = Snap /\ wire' \in {wire, Append(wire, "update")} /\ UNCHANGED handler
    <3>1. "update" \in Sayable'
      BY DEF Sayable
    <3>2. wire' \in Seq(Sayable')
      BY <1>2, <2>3, <3>1, AppendProperties, SMTT(30)
    <3> QED BY <1>1, <1>2, <1>6, <2>3, <3>2, ServerKeeps DEF Pass
  <2> QED BY <1>6, <2>1, <2>2, <2>3 DEF Pass
<1>7. CASE StreamEnds
  BY <1>4, <1>7, EmptySeq DEF StreamEnds
<1>8. CASE Break
  <2>1. PICK n \in 0..Len(wire) : wire' = Append(SubSeq(wire, 1, n), "error")
    BY <1>8 DEF Break
  <2>2. "error" \in Sayable'
    BY DEF Sayable
  <2>3. SubSeq(wire, 1, n) \in Seq(Sayable')
    BY <1>2, <2>1, SubSeqProperties
  <2>4. wire' \in Seq(Sayable')
    BY <2>1, <2>2, <2>3, AppendProperties
  <2>5. handler' = "ended" /\ last' = Nowhere /\ page # "none"
    BY <1>8 DEF Break
  <2> QED BY <1>1, <1>2, <2>4, <2>5, ServerKeeps
<1>9. CASE Restart
  <2>1. CASE handler \in {"dialing", "open"}
    BY <1>4, <1>9, <2>1, EmptySeq DEF Restart
  <2>2. CASE handler \notin {"dialing", "open"}
    BY <1>1, <1>2, <1>9, <2>2, ServerKeeps DEF Restart
  <2> QED BY <2>1, <2>2
<1> QED BY <1>5, <1>6, <1>7, <1>8, <1>9

\* A fetch is answered, with what is true of the job, or fails.
LEMMA AnsweringKeeps ==
    ASSUME RegistryInv, PageInv, RegistryInv', NoComeback, Fragment \/ FetchFails
    PROVE  PageInv'
<1> USE DEF PageInv
<1>1. /\ wire \in Seq(Sayable') /\ Nowhere \in Snapshot /\ Snap \in Snapshot
      /\ page # "none" => fn'[Watched] # "none"
      /\ page # "none" /\ Watched \notin known => Watched \notin known'
  BY StillTrue
<1>2. /\ UNCHANGED <<page, shown, last, src, handler, wire, timers, queued>>
      /\ fetch # "none" /\ fetch' = "answered" /\ faults' \in 0..MaxFaults
  BY PageAssumption DEF Fragment, FetchFails
<1>3. /\ reply' \in [kind : {"fragment", "away", "refused", "failed"}, snap : Snapshot]
      /\ reply'.kind = "refused" => ~Polls \/ Watched \notin known'
  BY <1>1 DEF Fragment, FetchFails, NoReply, Get
<1>4. Busy' = Busy /\ Polls' = Polls /\ page # "none"
  BY <1>2 DEF Busy, Polls, Silent
<1> QED BY <1>1, <1>2, <1>3, <1>4 DEF NeverStranded, Silent

\* The page opens and starts to look, unless it shows the job's end.
LEMMA StatusPageKeeps ==
    ASSUME RegistryInv, PageInv, RegistryInv', NoComeback, StatusPage
    PROVE  PageInv'
<1> USE DEF PageInv
<1>1. Snap \in Snapshot /\ wire \in Seq(Sayable') /\ Watched \in Ids
  BY StillTrue
<1>2. /\ page = "none" /\ page' = "watching" /\ shown' = Snap
      /\ UNCHANGED <<last, reply, faults, wire, fetch, queued>>
      /\ Watched \in Swept /\ Get
      /\ \/ /\ job[Watched].status # "running"
            /\ UNCHANGED <<src, handler, timers>>
         \/ src' = TRUE /\ handler' = "dialing" /\ UNCHANGED timers
         \/ timers' = 1 /\ UNCHANGED <<src, handler>>
  BY DEF StatusPage
<1>3. Silent /\ timers = 0 /\ ~src /\ fetch = "none"
  BY <1>2 DEF Silent
<1>4. fn'[Watched] # "none"
  BY <1>1, <1>2 DEF Swept, RegistryInv, NoComeback
<1>5. CASE job[Watched].status # "running" /\ UNCHANGED <<src, handler, timers>>
  <2>1. ~Polls'
    BY <1>2, <1>5 DEF Polls, Snap
  <2>2. Busy' <= 2
    BY <1>2, <1>3, <1>5 DEF Busy
  <2> QED BY <1>1, <1>2, <1>3, <1>4, <1>5, <2>1, <2>2 DEF NeverStranded
<1>6. CASE src' = TRUE /\ handler' = "dialing" /\ UNCHANGED timers
  <2>1. Busy' <= 2 /\ ~Silent'
    BY <1>2, <1>3, <1>6 DEF Busy, Silent
  <2> QED BY <1>1, <1>2, <1>3, <1>4, <1>6, <2>1 DEF NeverStranded
<1>7. CASE timers' = 1 /\ UNCHANGED <<src, handler>>
  <2>1. Busy' <= 2 /\ ~Silent'
    BY <1>2, <1>3, <1>7 DEF Busy, Silent
  <2> QED BY <1>1, <1>2, <1>3, <1>4, <1>7, <2>1 DEF NeverStranded
<1> QED BY <1>2, <1>5, <1>6, <1>7

\* The script closes its stream, and whatever it had said is dropped.
LEMMA CloseDoes ==
    ASSUME RegistryInv, PageInv, NoComeback, Close
    PROVE  /\ src' = FALSE /\ wire' \in Seq(Sayable') /\ last' \in Snapshot
           /\ handler' \in {"none", "dialing", "open", "ended"}
  BY EmptySeq, StillTrue DEF Close, PageInv

LEMMA HandleEventKeeps ==
    ASSUME RegistryInv, PageInv, RegistryInv', NoComeback, HandleEvent
    PROVE  PageInv'
<1> USE DEF PageInv
<1>1. /\ UNCHANGED <<page, shown, reply, faults, known, fn>> /\ src /\ wire # <<>>
      /\ timers = 0 /\ page # "none"
  BY DEF HandleEvent, jobVars, Silent
<1>2. wire \in Seq(Sayable') /\ Sayable' = Sayable
  BY <1>1, StillTrue DEF Sayable
<1>3. Head(wire) \in Sayable /\ Tail(wire) \in Seq(Sayable)
  BY <1>1, <1>2, HeadTailProperties
<1>4. CASE Head(wire) = "update"
  <2>1. Tick /\ wire' = Tail(wire) /\ UNCHANGED <<src, handler, last, timers>>
    BY <1>4 DEF HandleEvent
  <2>2. /\ fetch' \in {"asked", "answered"} /\ (fetch' = "answered" => fetch = "answered")
        /\ queued' \in BOOLEAN
    BY <2>1 DEF Tick
  <2>3. Busy' <= 2 /\ ~Silent' /\ Polls' = Polls
    BY <1>1, <2>1, <2>2 DEF Busy, Silent, Polls
  <2> QED BY <1>1, <1>2, <1>3, <2>1, <2>2, <2>3 DEF NeverStranded
<1>5. CASE Head(wire) = "done"
  <2>1. Close /\ Tick /\ UNCHANGED timers
    BY <1>5 DEF HandleEvent
  <2>2. /\ fetch' \in {"asked", "answered"} /\ (fetch' = "answered" => fetch = "answered")
        /\ queued' \in BOOLEAN
    BY <2>1 DEF Tick
  <2>3. Busy' <= 2 /\ ~Silent' /\ Polls' = Polls
    BY <1>1, <2>1, <2>2 DEF Busy, Silent, Polls, Close
  <2> QED BY <1>1, <2>1, <2>2, <2>3, CloseDoes DEF NeverStranded
<1>6. CASE Head(wire) = "gone"
  <2>1. Close /\ UNCHANGED <<timers, fetch, queued>>
    BY <1>6 DEF HandleEvent
  <2>2. Watched \notin known
    BY <1>3, <1>6 DEF Sayable
  <2>3. Busy' <= 2 /\ Polls' = Polls
    BY <1>1, <2>1 DEF Busy, Polls, Close
  <2>4. /\ src' = FALSE /\ wire' \in Seq(Sayable') /\ last' \in Snapshot
        /\ handler' \in {"none", "dialing", "open", "ended"}
    BY <2>1, CloseDoes
  <2>5. NeverStranded' /\ (fetch' = "answered" => ~Silent')
    BY <1>1, <2>1, <2>2 DEF NeverStranded, Silent
  <2> QED BY <1>1, <2>1, <2>2, <2>3, <2>4, <2>5
<1>7. CASE Head(wire) = "error"
  <2>1. Close /\ timers' = timers + 1 /\ UNCHANGED <<fetch, queued>>
    BY <1>7 DEF HandleEvent, Fallback
  <2>2. Busy' <= 2 /\ ~Silent' /\ Polls' = Polls /\ timers' = 1
    BY <1>1, <2>1 DEF Busy, Silent, Polls, Close
  <2>3. /\ src' = FALSE /\ wire' \in Seq(Sayable') /\ last' \in Snapshot
        /\ handler' \in {"none", "dialing", "open", "ended"}
    BY <2>1, CloseDoes
  <2>4. NeverStranded'
    BY <2>2 DEF NeverStranded
  <2>5. /\ timers' \in Nat /\ (src' => timers' = 0)
        /\ fetch' \in {"none", "asked", "answered"} /\ queued' \in BOOLEAN
    BY <2>1, <2>2, <2>3
  <2>6. fetch' = "answered" /\ reply'.kind = "refused" => ~Polls' \/ Watched \notin known'
    BY <1>1, <2>1, <2>2
  <2> QED BY <1>1, <2>2, <2>3, <2>4, <2>5, <2>6
<1> QED BY <1>3, <1>4, <1>5, <1>6, <1>7 DEF Sayable

LEMMA TimerKeeps ==
    ASSUME RegistryInv, PageInv, RegistryInv', NoComeback, TimerFires
    PROVE  PageInv'
<1> USE DEF PageInv
<1>1. /\ UNCHANGED <<page, shown, reply, faults, known, fn, src, handler, wire, last>>
      /\ timers > 0 /\ timers' = timers - 1 /\ Tick
  BY DEF TimerFires, KeepStream, jobVars
<1>2. page # "none" /\ wire \in Seq(Sayable')
  BY <1>1, StillTrue DEF Silent
<1>3. /\ fetch' \in {"asked", "answered"} /\ (fetch' = "answered" => fetch = "answered")
      /\ queued' \in BOOLEAN /\ (fetch' = "asked" => fetch \in {"none", "asked"})
  BY <1>1 DEF Tick
<1>4. Busy' <= 2 /\ ~Silent' /\ Polls' = Polls /\ timers' \in Nat
  BY <1>1, <1>3 DEF Busy, Silent, Polls, Tick
<1> QED BY <1>1, <1>2, <1>3, <1>4 DEF NeverStranded

\* A fetch is over.  The script goes on looking, or the page shows the end,
\* or the job is gone.
LEMMA HandleReplyKeeps ==
    ASSUME RegistryInv, PageInv, RegistryInv', NoComeback, HandleReply
    PROVE  PageInv'
<1> USE DEF PageInv
<1>1. /\ UNCHANGED <<faults, known, fn>> /\ fetch = "answered"
      /\ shown' = IF reply.kind = "fragment" THEN reply.snap ELSE shown
      /\ reply' = NoReply
  BY DEF HandleReply, jobVars
<1>2. /\ page # "none" /\ wire \in Seq(Sayable') /\ fn'[Watched] # "none"
      /\ Nowhere \in Snapshot
  BY <1>1, StillTrue DEF Silent
<1>3. /\ reply' \in [kind : {"fragment", "away", "refused", "failed"}, snap : Snapshot]
      /\ reply'.kind # "refused" /\ shown' \in Snapshot
  BY <1>1, <1>2 DEF NoReply
<1>4. CASE reply.kind = "away"
  <2>1. Leave
    BY <1>4 DEF HandleReply
  <2>2. /\ page' = "left" /\ Close /\ timers' = 0 /\ queued' = FALSE /\ fetch' = "none"
    BY <2>1 DEF Leave
  <2>3. Busy' <= 2
    BY <2>2 DEF Busy, Close
  <2> QED BY <1>1, <1>2, <1>3, <2>2, <2>3, CloseDoes DEF NeverStranded
<1>5. CASE reply.kind = "failed"
  <2>1. Retry /\ fetch' = "none" /\ KeepStream /\ UNCHANGED <<queued, page>>
    BY <1>5 DEF HandleReply
  <2>2. timers' = (IF src THEN timers ELSE timers + 1) /\ UNCHANGED <<src, handler, wire, last>>
    BY <2>1 DEF Retry, KeepStream
  <2>3. Busy' <= 2 /\ ~Silent' /\ timers' \in Nat
    BY <1>1, <2>1, <2>2 DEF Busy, Silent
  <2> QED BY <1>1, <1>2, <1>3, <2>1, <2>2, <2>3 DEF NeverStranded
<1>6. CASE reply.kind = "fragment" /\ reply.snap.status = "running"
  <2>1. GoOn /\ KeepStream /\ UNCHANGED page
    BY <1>6 DEF HandleReply
  <2>2. /\ UNCHANGED <<src, handler, wire, last>>
        /\ timers' = (IF src THEN timers ELSE timers + 1)
        /\ fetch' \in {"none", "asked"} /\ (~src => fetch' = "none")
        /\ queued' \in BOOLEAN
    BY <2>1 DEF GoOn, KeepStream
  <2>3. Busy' <= 2 /\ ~Silent' /\ timers' \in Nat
    BY <1>1, <2>2 DEF Busy, Silent
  <2> QED BY <1>1, <1>2, <1>3, <2>1, <2>2, <2>3 DEF NeverStranded
<1>7. CASE reply.kind = "refused" \/ (reply.kind = "fragment" /\ reply.snap.status # "running")
  <2>1. Close /\ fetch' = "none" /\ UNCHANGED <<timers, queued, page>>
    BY <1>7 DEF HandleReply
  <2>2. ~Polls' \/ Watched \notin known'
    BY <1>1, <1>7 DEF Polls
  <2>3. Busy' <= 2
    BY <1>1, <2>1 DEF Busy, Close
  <2> QED BY <1>1, <1>2, <1>3, <2>1, <2>2, <2>3, CloseDoes DEF NeverStranded
<1> QED BY <1>4, <1>5, <1>6, <1>7

LEMMA PageStep == RegistryInv /\ PageInv /\ [Next]_vars => RegistryInv' /\ PageInv'
<1> SUFFICES ASSUME RegistryInv, PageInv, [Next]_vars
             PROVE  PageInv'
  BY RegistryStep
<1>1. RegistryInv' /\ NoComeback
  BY RegistryStep
<1>2. CASE UNCHANGED pageVars
  <2>1. wire \in Seq(Sayable')
    BY <1>1, StillTrue
  <2> QED BY <1>1, <1>2, <2>1, ServerKeeps DEF pageVars, scriptVars, PageInv
<1>3. UNCHANGED vars => UNCHANGED pageVars
  BY DEF vars
<1> QED
  BY <1>1, <1>2, <1>3, ServingKeeps, AnsweringKeeps, StatusPageKeeps, HandleEventKeeps,
     TimerKeeps, HandleReplyKeeps DEF Next, Serving, Script

LEMMA PageInvariance == Spec => [](RegistryInv /\ PageInv)
BY RegistryInit, PageInitial, PageStep, PTL DEF Spec

\* Every state has its type: among it that the script never waits in more
\* than two ways, on a stream, on timers or on its one fetch.
THEOREM JobPageTypeCorrect == Spec => []PageTypeOK
<1>1. RegistryInv /\ PageInv => PageTypeOK
  <2> SUFFICES ASSUME RegistryInv, PageInv PROVE PageTypeOK
    OBVIOUS
  <2> DEFINE Said == {"update", "done", "gone", "error"}
  <2>1. Sayable \subseteq Said
    BY DEF Sayable
  <2>2. wire \in Seq(Said)
    <3>1. wire \in Seq(Sayable)
      BY DEF PageInv
    <3> HIDE DEF Said, PageInv, RegistryInv
    <3> QED BY ONLY <2>1, <3>1
  <2>3. timers \in 0..2
    BY DEF PageInv, Busy
  <2> QED BY <2>2, <2>3 DEF RegistryInv, PageInv, PageTypeOK
<1> QED BY <1>1, PageInvariance, PTL

\* A page that has stopped looking while it shows a running job is right:
\* the registry has forgotten the job.
THEOREM NoPageIsStranded == Spec => []NeverStranded
<1>1. PageInv => NeverStranded
  BY DEF PageInv
<1> QED BY <1>1, PageInvariance, PTL

=============================================================================
