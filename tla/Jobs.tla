-------------------------------- MODULE Jobs --------------------------------
(***************************************************************************)
(* The in-memory registry of background jobs (jobs/jobs.go).  A job is    *)
(* two goroutines: fn, which works and reports progress, and run, which   *)
(* waits in a select for fn's result or for the job's context to expire.  *)
(* Every section under Jobs.mu is one step.  Times are what they decide:  *)
(* whether a context has expired, and whether a finished job is past its  *)
(* TTL.                                                                   *)
(***************************************************************************)
EXTENDS Integers, FiniteSets

CONSTANTS
    Ids,         \* job IDs, each drawn at most once
    Owners,      \* session subjects
    MaxRunning,  \* maxRunningPerOwner
    MaxProgress  \* bound: texts a job reports

ASSUME JobsAssumption == MaxRunning \in Nat \ {0} /\ MaxProgress \in Nat /\ IsFiniteSet(Ids)

VARIABLES
    known,    \* the IDs in Jobs.jobs
    job,      \* per ID, its Job
    fn,       \* per ID, how far fn's goroutine is
    waiting,  \* IDs whose run is in its select
    expired,  \* IDs whose context has expired
    old       \* IDs whose FinishedAt is before the sweep's cutoff

jobVars == <<known, job, fn, waiting, expired, old>>

\* An error, the context's among them, and a panic are all failures: they
\* differ in the text the owner reads.
Results == {"ok", "failure"}

Job == [owner : Owners, status : {"none", "running", "done", "failed"}, progress : 0..MaxProgress]

JobsTypeOK ==
    /\ known \subseteq Ids
    /\ job \in [Ids -> Job]
    /\ fn \in [Ids -> {"none", "working", "over"} \cup Results]
    /\ waiting \subseteq Ids /\ expired \subseteq Ids /\ old \subseteq Ids

JobsInit ==
    /\ known = {}
    /\ job \in [Ids -> {j \in Job : j.status = "none" /\ j.progress = 0}]
    /\ fn = [i \in Ids |-> "none"]
    /\ waiting = {} /\ expired = {} /\ old = {}

\* Get and Start sweep first, under the same lock.
Swept == {i \in known : job[i].status = "running" \/ i \notin old}

RunningOf(o) == {i \in Swept : job[i].owner = o /\ job[i].status = "running"}

Start(i) ==
    /\ fn[i] = "none"
    /\ \E o \in Owners :
        \/ /\ Cardinality(RunningOf(o)) < MaxRunning
           /\ known' = Swept \cup {i}
           /\ job' = [job EXCEPT ![i] = [@ EXCEPT !.owner = o, !.status = "running"]]
           /\ fn' = [fn EXCEPT ![i] = "working"]
           /\ waiting' = waiting \cup {i}
        \/ /\ Cardinality(RunningOf(o)) >= MaxRunning    \* ErrOwnerBusy
           /\ known' = Swept
           /\ UNCHANGED <<job, fn, waiting>>
    /\ UNCHANGED <<expired, old>>

\* A mutant of Report: progress does not look at the status.
ReportAlways(i) ==
    /\ fn[i] = "working"
    /\ job[i].progress < MaxProgress
    /\ job' = [job EXCEPT ![i].progress = @ + 1]
    /\ UNCHANGED <<known, fn, waiting, expired, old>>

\* fn calls progress, perhaps long after its job has been given up on.
Report(i) ==
    /\ fn[i] = "working"
    /\ job[i].progress < MaxProgress
    /\ job' = [job EXCEPT ![i].progress = IF job[i].status = "running" THEN @ + 1 ELSE @]
    /\ UNCHANGED <<known, fn, waiting, expired, old>>

\* fn returns or panics.
Return(i, how) ==
    /\ fn[i] = "working"
    /\ fn' = [fn EXCEPT ![i] = how]
    /\ UNCHANGED <<known, job, waiting, expired, old>>

\* Settles a job exactly once.
Finish(i, status) ==
    job' = IF job[i].status = "running" THEN [job EXCEPT ![i].status = status] ELSE job

\* run's select.  With the result there and the context expired, either
\* case may be picked; after a timeout another goroutine takes the result.
Receive(i) ==
    /\ fn[i] \in Results
    /\ fn' = [fn EXCEPT ![i] = "over"]
    /\ waiting' = waiting \ {i}
    /\ expired' = expired \ {i}
    /\ IF i \in waiting THEN Finish(i, IF fn[i] = "ok" THEN "done" ELSE "failed") ELSE UNCHANGED job
    /\ UNCHANGED <<known, old>>

\* A mutant of Timeout: run waits for fn, however long it takes.
TimeoutOfReturned(i) ==
    /\ i \in waiting \cap expired
    /\ fn[i] \in Results
    /\ waiting' = waiting \ {i}
    /\ expired' = expired \ {i}
    /\ Finish(i, "failed")
    /\ UNCHANGED <<known, fn, old>>

Timeout(i) ==
    /\ i \in waiting \cap expired
    /\ waiting' = waiting \ {i}
    /\ expired' = expired \ {i}
    /\ Finish(i, "failed")
    /\ UNCHANGED <<known, fn, old>>

\* Time passes: jobTimeout for a running job, doneTTL for a finished one.
Expire(i) ==
    /\ i \in waiting \ expired
    /\ expired' = expired \cup {i}
    /\ UNCHANGED <<known, job, fn, waiting, old>>

Age(i) ==
    /\ i \in known \ old
    /\ job[i].status \in {"done", "failed"}
    /\ old' = old \cup {i}
    /\ UNCHANGED <<known, job, fn, waiting, expired>>

\* The process ends: nothing of a job is kept.
Forget ==
    /\ known' = {}
    /\ fn' = [i \in Ids |-> IF fn[i] = "none" THEN "none" ELSE "over"]
    /\ waiting' = {} /\ expired' = {} /\ old' = {}
    /\ UNCHANGED job

JobStep(i) ==
    \/ Start(i) \/ Report(i) \/ Receive(i) \/ Timeout(i) \/ Expire(i) \/ Age(i)
    \/ \E how \in Results : Return(i, how)

-----------------------------------------------------------------------------
\* What an owner has read of a finished job is settled: neither a late
\* result nor the progress of an fn that outlived its timeout changes it.
Frozen == [][\A i \in Ids : job[i].status \in {"done", "failed"} => job'[i] = job[i]]_jobVars

\* A job frees its owner's slot, also one whose fn never returns, unless
\* the process ends first.
EveryJobEnds ==
    \A i \in Ids : (i \in known /\ job[i].status = "running")
                       ~> (i \notin known \/ job[i].status \in {"done", "failed"})

JobFairness ==
    \A i \in Ids : WF_jobVars(Receive(i)) /\ WF_jobVars(Timeout(i)) /\ WF_jobVars(Expire(i))

=============================================================================
