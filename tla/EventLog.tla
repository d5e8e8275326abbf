------------------------------ MODULE EventLog ------------------------------
(***************************************************************************)
(* The event log (eventlog/eventlog.go) and the store generated over it    *)
(* (internal/generate/mergeablestore.go): requests on several databases    *)
(* append events, each statement a step, while batches of events that some *)
(* database has arrive at others, out of order, again and again, or late.  *)
(*                                                                         *)
(* SQLite is external: a write waits for the lock when its transaction has *)
(* read nothing, fails at once when it has, and fails if anything was      *)
(* committed since it read.  The transport is external too.  A request     *)
(* writes an event nobody else would (body stands for payload and time).   *)
(* Order is the app's, Derive is pure, and money's rules are left out.     *)
(***************************************************************************)
EXTENDS Integers, FiniteSets

CONSTANTS
    Edges,       \* databases
    Requests,    \* what the databases' processes serve
    Writers,     \* the identities that LocalWriter may draw
    Nobody,      \* nobody
    MaxStreams,  \* bound: records
    MaxEvents,   \* bound: events
    MaxFailures  \* bound: requests that fail or are killed

Kinds == {"noted", "created", "updated", "deleted"}

ASSUME EventLogAssumption ==
    /\ MaxStreams \in Nat \ {0} /\ MaxEvents \in Nat /\ MaxFailures \in Nat
    /\ Nobody \notin Writers /\ Nobody \notin Requests /\ Nobody \notin Edges

VARIABLES
    events,    \* per database the rows of eventlog
    identity,  \* per database the row of eventlog_writer, or Nobody
    held,      \* per database who holds the write lock
    place,     \* per request where it is
    edge,      \* per request its database, or Nobody when it is over
    kind,      \* per request what it appends
    stream,    \* per request the stream
    writer,    \* per request the identity LocalWriter returned
    saw,       \* per request what its transaction read
    failures

requestVars == <<place, edge, kind, stream, writer, saw>>
logVars == <<events, identity, held, requestVars, failures>>

Streams == 1..MaxStreams
Event == [stream : Streams, writer : Writers, seq : Nat, lamport : Nat,
          kind : Kinds, body : Requests]

EventLogTypeOK ==
    /\ events \in [Edges -> SUBSET Event]
    /\ identity \in [Edges -> Writers \cup {Nobody}]
    /\ held \in [Edges -> Requests \cup {Nobody}]
    /\ place \in [Requests -> {"idle", "mint", "reread", "open", "read", "judge", "insert"}]
    /\ edge \in [Requests -> Edges \cup {Nobody}]
    /\ kind \in [Requests -> Kinds]
    /\ stream \in [Requests -> Streams]
    /\ writer \in [Requests -> Writers \cup {Nobody}]
    /\ saw \in [Requests -> SUBSET Event]
    /\ failures \in 0..MaxFailures

EventLogInit ==
    /\ events = [e \in Edges |-> {}]
    /\ identity = [e \in Edges |-> Nobody]
    /\ held = [e \in Edges |-> Nobody]
    /\ place = [q \in Requests |-> "idle"]
    /\ edge = [q \in Requests |-> Nobody]
    /\ kind = [q \in Requests |-> "noted"]
    /\ stream = [q \in Requests |-> 1]
    /\ writer = [q \in Requests |-> Nobody]
    /\ saw = [q \in Requests |-> {}]
    /\ failures = 0

SamePosition(u, v) == u.stream = v.stream /\ u.writer = v.writer /\ u.seq = v.seq

Moves(q, from, to) == place[q] = from /\ place' = [place EXCEPT ![q] = to]

\* The call returns, and its transaction, if it has one, is over.
Returns(q) ==
    /\ place' = [place EXCEPT ![q] = "idle"]
    /\ edge' = [edge EXCEPT ![q] = Nobody]
    /\ kind' = [kind EXCEPT ![q] = "noted"]
    /\ stream' = [stream EXCEPT ![q] = 1]
    /\ writer' = [writer EXCEPT ![q] = Nobody]
    /\ saw' = [saw EXCEPT ![q] = {}]
    /\ held' = [e \in Edges |-> IF held[e] = q THEN Nobody ELSE held[e]]

-----------------------------------------------------------------------------
(* LocalWriter, which every call of the store begins with.                 *)

Arrive(q, e) ==
    /\ Moves(q, "idle", IF identity[e] = Nobody THEN "mint" ELSE "open")
    /\ edge' = [edge EXCEPT ![q] = e]
    /\ writer' = [writer EXCEPT ![q] = identity[e]]
    /\ UNCHANGED <<events, identity, held, kind, stream, saw, failures>>

\* 16 random bytes: nobody else's.
Draws == {w \in Writers : \A e \in Edges : identity[e] # w}

\* A mutant of Mint: every database has the one writer in the code.
MintFixed(q) ==
    /\ Moves(q, "mint", "reread")
    /\ held[edge[q]] = Nobody
    /\ identity' = [identity EXCEPT ![edge[q]] = CHOOSE w \in Writers : TRUE]
    /\ UNCHANGED <<events, held, edge, kind, stream, writer, saw, failures>>

\* A mutant of Mint: INSERT OR REPLACE.
MintAgain(q) ==
    /\ Moves(q, "mint", "reread")
    /\ held[edge[q]] = Nobody
    /\ \E w \in Draws : identity' = [identity EXCEPT ![edge[q]] = w]
    /\ UNCHANGED <<events, held, edge, kind, stream, writer, saw, failures>>

\* INSERT OR IGNORE: another connection may have won.
Mint(q) ==
    /\ Moves(q, "mint", "reread")
    /\ held[edge[q]] = Nobody
    /\ IF identity[edge[q]] = Nobody
       THEN \E w \in Draws : identity' = [identity EXCEPT ![edge[q]] = w]
       ELSE UNCHANGED identity
    /\ UNCHANGED <<events, held, edge, kind, stream, writer, saw, failures>>

ReadBack(q) ==
    /\ Moves(q, "reread", "open")
    /\ writer' = [writer EXCEPT ![q] = identity[edge[q]]]
    /\ UNCHANGED <<events, identity, held, edge, kind, stream, saw, failures>>

-----------------------------------------------------------------------------
(* Append, AppendChecked and AppendUnder.                                  *)

History(vs, s) == {v \in vs : v.stream = s}

\* derive: a record is live when it has events and none is a tombstone.
Live(vs, s) == History(vs, s) # {} /\ \A v \in History(vs, s) : v.kind # "deleted"

Seqs(vs, w) == {v.seq : v \in {u \in vs : u.writer = w}}
Lamports(vs) == {v.lamport : v \in vs}

\* COALESCE(MAX(..), 0)
Tops(ns) == {n \in ns \cup {0} : \A m \in ns : m <= n}

\* A plain Append's transaction takes no lock before it writes.
Append(q, s) ==
    /\ Moves(q, "open", "read")
    /\ stream' = [stream EXCEPT ![q] = s]
    /\ UNCHANGED <<events, identity, held, edge, kind, writer, saw, failures>>

\* Its first SELECT fixes what it sees.
Read(q) ==
    /\ Moves(q, "read", "insert")
    /\ saw' = [saw EXCEPT ![q] = events[edge[q]]]
    /\ UNCHANGED <<events, identity, held, edge, kind, stream, writer, failures>>

\* The others' BEGIN IMMEDIATE.
BeginLocked(q, k, s) ==
    /\ Moves(q, "open", "judge")
    /\ kind' = [kind EXCEPT ![q] = k]
    /\ stream' = [stream EXCEPT ![q] = s]
    /\ held[edge[q]] = Nobody /\ held' = [held EXCEPT ![edge[q]] = q]
    /\ UNCHANGED <<events, identity, edge, writer, saw, failures>>

\* nextID: one more than the highest record.
NextID(q) == {n + 1 : n \in Tops({v.stream : v \in events[edge[q]]})}

\* A mutant of Judge: the history is read and judged first, and appended to
\* in a transaction of its own.
JudgeOutside(q) ==
    /\ Moves(q, "judge", "read")
    /\ IF kind[q] = "created"
       THEN \E s \in NextID(q) \cap Streams : stream' = [stream EXCEPT ![q] = s]
       ELSE Live(events[edge[q]], stream[q]) /\ UNCHANGED stream
    /\ held' = [held EXCEPT ![edge[q]] = Nobody]
    /\ UNCHANGED <<events, identity, edge, kind, writer, saw, failures>>

\* A create names its stream; an update or delete wants its record live.
Judge(q) ==
    /\ Moves(q, "judge", "insert")
    /\ IF kind[q] = "created"
       THEN \E s \in NextID(q) \cap Streams : stream' = [stream EXCEPT ![q] = s]
       ELSE Live(events[edge[q]], stream[q]) /\ UNCHANGED stream
    /\ saw' = [saw EXCEPT ![q] = events[edge[q]]]
    /\ UNCHANGED <<events, identity, held, edge, kind, writer, failures>>

\* The record is gone, or no ID is left: the transaction is rolled back.
Refuse(q) ==
    /\ place[q] = "judge"
    /\ IF kind[q] = "created" THEN NextID(q) \cap Streams = {}
       ELSE ~Live(events[edge[q]], stream[q])
    /\ Returns(q)
    /\ UNCHANGED <<events, identity, failures>>

\* A transaction that has read may write if it has the lock, or gets it and
\* nothing was committed since.
MayWrite(q) ==
    held[edge[q]] = q \/ (held[edge[q]] = Nobody /\ saw[q] = events[edge[q]])

\* A mutant of Stamped: the clock is the writer's own.
StampedOwn(q) ==
    LET past == {u \in History(saw[q], stream[q]) : u.writer = writer[q]} IN
    {[stream |-> stream[q], writer |-> writer[q], seq |-> n + 1, lamport |-> l + 1,
      kind |-> kind[q], body |-> q] :
        n \in Tops(Seqs(past, writer[q])), l \in Tops(Lamports(past))}

\* The stream's next lamport and this writer's next seq.
Stamped(q) ==
    LET past == History(saw[q], stream[q]) IN
    {[stream |-> stream[q], writer |-> writer[q], seq |-> n + 1, lamport |-> l + 1,
      kind |-> kind[q], body |-> q] :
        n \in Tops(Seqs(past, writer[q])), l \in Tops(Lamports(past))}

\* Written and committed.
Insert(q) ==
    /\ place[q] = "insert"
    /\ MayWrite(q)
    /\ Cardinality(UNION {events[e] : e \in Edges}) < MaxEvents
    /\ \E v \in Stamped(q) : events' = [events EXCEPT ![edge[q]] = @ \cup {v}]
    /\ Returns(q)
    /\ UNCHANGED <<identity, failures>>

\* SQLITE_BUSY
Busy(q) ==
    /\ place[q] = "insert"
    /\ ~MayWrite(q)
    /\ Returns(q)
    /\ UNCHANGED <<events, identity, failures>>

\* A statement fails, the request is cancelled, or its process is killed.
Dies(q) ==
    /\ place[q] # "idle" /\ failures < MaxFailures
    /\ failures' = failures + 1
    /\ Returns(q)
    /\ UNCHANGED <<events, identity>>

-----------------------------------------------------------------------------
(* Ingest. *)

\* ErrDiverged: another content at a position that is taken.
Diverges(e, batch) ==
    \E v \in batch : \E u \in events[e] : SamePosition(u, v) /\ u # v

\* A delivery of some of what another database has; what is there already is
\* skipped.  One step: its transaction takes the lock before anything else,
\* and its rows show all at once or, when one diverges, not at all.
Ingest(e, batch) ==
    /\ batch # {} /\ held[e] = Nobody
    /\ ~Diverges(e, batch)
    /\ events' = [events EXCEPT ![e] = @ \cup batch]
    /\ UNCHANGED <<identity, held, requestVars, failures>>

-----------------------------------------------------------------------------

EventLogNext ==
    \/ \E q \in Requests :
        \/ \E e \in Edges : Arrive(q, e)
        \/ Mint(q) \/ ReadBack(q)
        \/ \E s \in Streams :
            Append(q, s) \/ \E k \in {"updated", "deleted"} : BeginLocked(q, k, s)
        \/ BeginLocked(q, "created", 1)
        \/ Read(q) \/ Judge(q) \/ Refuse(q) \/ Insert(q) \/ Busy(q) \/ Dies(q)
    \/ \E e, f \in Edges : \E batch \in SUBSET (events[f] \ events[e]) : Ingest(e, batch)

EventLogSpec == EventLogInit /\ [][EventLogNext]_logVars

-----------------------------------------------------------------------------
(* Properties. *)

\* The log implements MergeLog, so databases that have the same events read
\* the same history, whatever order those came in.
Merges == INSTANCE MergeLog WITH known <- events

MergesOnly == Merges!MergeSpec

\* No two databases have different events at one position: no Ingest is ever
\* refused as diverged, though connections race to mint the writer, requests
\* die anywhere and batches have gaps.
OneContent ==
    \A e, f \in Edges : \A u \in events[e] : \A v \in events[f] :
        SamePosition(u, v) => u = v

\* What a writer wrote is at its home, numbered from one without a gap,
\* whoever else has what of it.
OwnSeqs(e, s) == Seqs(History(events[e], s), identity[e])

HomeComplete ==
    /\ \A f \in Edges : \A v \in events[f] :
        \E e \in Edges : identity[e] = v.writer /\ v \in events[e]
    /\ \A e \in Edges, s \in Streams : \A n \in OwnSeqs(e, s) :
        n > 0 /\ 1..n \subseteq OwnSeqs(e, s)

\* A database writes an update or a tombstone only on a record that it has
\* and has live, and starts a record under no ID that it has, whatever
\* commits or arrives beside the request.
WritesOnLive ==
    [][\A e \in Edges : \A v \in events'[e] \ events[e] :
        v.writer = identity[e] =>
            /\ v.kind = "created" => History(events[e], v.stream) = {}
            /\ v.kind \in {"updated", "deleted"} => Live(events[e], v.stream)]_logVars

=============================================================================
