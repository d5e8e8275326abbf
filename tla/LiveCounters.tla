---------------------------- MODULE LiveCounters ----------------------------
(***************************************************************************)
(* The version counters of a live.Hub (live/live.go): one counter per     *)
(* declared topic, the sequence number that orders changes against the    *)
(* start of requests, and the boot ID that is new in each process.        *)
(*                                                                         *)
(* The hub lives in memory: a restart, whether a deploy or a crash, loses *)
(* every counter and draws a new boot ID.  Boot IDs are numbered in the   *)
(* order the processes ran; the code draws 48 random bits, and two IDs    *)
(* that collide are not modelled.  Topics is the set of declared, well    *)
(* formed topic names: validTopics drops any other before a change.       *)
(***************************************************************************)
EXTENDS Integers

CONSTANTS
    Topics,    \* the topics some region shows
    MaxSeq,    \* bound: changes raised in the life of one process
    MaxBoots   \* bound: processes that ever run

ASSUME CountersAssumption == MaxSeq \in Nat /\ MaxBoots \in Nat

VARIABLES
    boot,       \* the running process's ID
    seq,        \* Hub.seq
    counter,    \* topicState.counter, 0 for a topic nobody raised
    changedAt   \* topicState.changedAt, 0 for a topic nobody raised

hubVars == <<boot, seq, counter, changedAt>>

CountersTypeOK ==
    /\ boot \in Nat
    /\ seq \in Nat
    /\ counter \in [Topics -> Nat]
    /\ changedAt \in [Topics -> Nat]

\* live.New: a fresh hub knows no topic.
FreshHub(b) ==
    /\ boot = b
    /\ seq = 0
    /\ counter = [t \in Topics |-> 0]
    /\ changedAt = [t \in Topics |-> 0]

CountersInit == FreshHub(1)

\* A mutant of Version, used only to show that the properties can fail.
VersionAtRender(t, start) == counter[t]

VersionAlwaysBehind(t, start) == IF counter[t] = 0 THEN 0 ELSE counter[t] - 1

\* One change to the topics T, all at one new sequence number.
RaiseLocked(T) ==
    /\ seq < MaxSeq
    /\ seq' = seq + 1
    /\ counter' = [t \in Topics |-> IF t \in T THEN counter[t] + 1 ELSE counter[t]]
    /\ changedAt' = [t \in Topics |-> IF t \in T THEN seq + 1 ELSE changedAt[t]]
    /\ boot' = boot

\* The version to render for t in a request that recorded start: one below
\* the counter when t changed after the request began.
Version(t, start) ==
    IF changedAt[t] <= start THEN counter[t] ELSE counter[t] - 1

\* The process ends, by a crash or after a drain, and another starts.
NewProcess ==
    /\ boot < MaxBoots
    /\ boot' = boot + 1
    /\ seq' = 0
    /\ counter' = [t \in Topics |-> 0]
    /\ changedAt' = [t \in Topics |-> 0]

=============================================================================
