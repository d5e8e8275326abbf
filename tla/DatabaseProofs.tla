--------------------------- MODULE DatabaseProofs ---------------------------
(***************************************************************************)
(* Migrate's and EventLog's invariants and their refinements of Upgrade    *)
(* and MergeLog, for any databases, instances, requests, sets of           *)
(* migrations and bounds.                                                  *)
(***************************************************************************)
EXTENDS Migrate, EventLog, TLAPS

-----------------------------------------------------------------------------
(* EventLog. *)

\* A writer is one database's, and a database has one event at a position.
WritersInv ==
    /\ \A e, f \in Edges : identity[e] # Nobody /\ identity[e] = identity[f] => e = f
    /\ \A e \in Edges : \A u, v \in events[e] : SamePosition(u, v) => u = v

\* What has been judged of the stream that request q is about to write.
Judged(q) ==
    /\ kind[q] = "created" => History(saw[q], stream[q]) = {}
    /\ kind[q] \in {"updated", "deleted"} => Live(saw[q], stream[q])

\* Where a request is tells what it holds: the writer of its database, the
\* lock from BEGIN IMMEDIATE on, and once it has judged, what is there still.
RequestFits(q) ==
    /\ place[q] # "idle" => edge[q] \in Edges
    /\ place[q] = "reread" => identity[edge[q]] # Nobody
    /\ place[q] \in {"open", "read", "judge", "insert"} =>
         writer[q] # Nobody /\ writer[q] = identity[edge[q]]
    /\ place[q] \notin {"judge", "insert"} => kind[q] = "noted"
    /\ place[q] = "judge" => kind[q] # "noted"
    /\ place[q] \in {"judge", "insert"} /\ kind[q] # "noted" => held[edge[q]] = q
    /\ place[q] = "insert" /\ kind[q] # "noted" => saw[q] = events[edge[q]] /\ Judged(q)

RequestsFit == \A q \in Requests : RequestFits(q)

HeldInv ==
    \A e \in Edges, q \in Requests :
        held[e] = q => edge[q] = e /\ place[q] \in {"judge", "insert"} /\ kind[q] # "noted"

LogInv == EventLogTypeOK /\ WritersInv /\ HomeComplete /\ RequestsFit /\ HeldInv


\* COALESCE(MAX(..), 0) is a number that nothing in the set exceeds.
LEMMA TopIsTop ==
    ASSUME NEW ns, ns \subseteq Nat, NEW n \in Tops(ns)
    PROVE n \in Nat /\ n \in ns \cup {0} /\ \A k \in ns : k <= n
BY DEF Tops

\* Stamped is a set of records with these fields.
LEMMA StampedFields ==
    ASSUME NEW q, NEW v \in Stamped(q)
    PROVE \E n \in Tops(Seqs(History(saw[q], stream[q]), writer[q])),
             l \in Tops(Lamports(History(saw[q], stream[q]))) :
            v = [stream |-> stream[q], writer |-> writer[q], seq |-> n + 1, lamport |-> l + 1,
                 kind |-> kind[q], body |-> q]
BY DEF Stamped

\* What a request that may write has seen is what its database has.
LEMMA SawAll ==
    ASSUME LogInv, NEW q \in Requests, place[q] = "insert", MayWrite(q)
    PROVE edge[q] \in Edges /\ saw[q] = events[edge[q]]
BY DEF LogInv, RequestsFit, RequestFits, HeldInv, MayWrite

\* What a request writes is an event of its database's writer, at the next
\* position after those that it has written, which no database has, and
\* after all that its database has of the stream.
LEMMA WritesNext ==
    ASSUME LogInv, NEW q \in Requests, place[q] = "insert", MayWrite(q), NEW v \in Stamped(q)
    PROVE /\ v \in Event
          /\ v.writer = identity[edge[q]] /\ v.stream = stream[q] /\ v.kind = kind[q]
          /\ OwnSeqs(edge[q], v.stream) = 1..(v.seq - 1)
          /\ v.seq \in Nat /\ v.seq > 0
          /\ \A u \in events[edge[q]] : u.stream = v.stream => u.lamport < v.lamport
<1> DEFINE e == edge[q]
           past == History(saw[q], stream[q])
           ns == Seqs(past, writer[q])
           ls == Lamports(past)
<1>1. e \in Edges /\ saw[q] = events[e]
  BY SawAll
<1>2. writer[q] = identity[e] /\ writer[q] \in Writers
  BY <1>1 DEF LogInv, RequestsFit, RequestFits, EventLogTypeOK
<1>3. stream[q] \in Streams /\ kind[q] \in Kinds /\ past \subseteq Event
  BY <1>1 DEF LogInv, EventLogTypeOK, History
<1>4. ns \subseteq Nat /\ ls \subseteq Nat
  BY <1>3 DEF Event, Seqs, Lamports
<1>5. PICK n \in Tops(ns), l \in Tops(ls) :
        v = [stream |-> stream[q], writer |-> writer[q], seq |-> n + 1, lamport |-> l + 1,
             kind |-> kind[q], body |-> q]
  BY StampedFields, Zenon
<1>6. n \in Nat /\ n \in ns \cup {0} /\ \A k \in ns : k <= n
  <2> HIDE DEF ns
  <2> QED BY <1>4, TopIsTop
<1>7. l \in Nat /\ \A k \in ls : k <= l
  <2> HIDE DEF ls
  <2> QED BY <1>4, TopIsTop
<1>8. v \in Event
  BY <1>2, <1>3, <1>5, <1>6, <1>7 DEF Event
<1>9. v.writer = identity[e] /\ v.stream = stream[q] /\ v.kind = kind[q] /\ v.seq = n + 1
      /\ v.lamport = l + 1
  BY <1>2, <1>5
<1>10. OwnSeqs(e, v.stream) = ns
  BY <1>1, <1>2, <1>9 DEF OwnSeqs
<1>11. ns = 1..n
  <2> HIDE DEF ns
  <2>1. \A k \in ns : k > 0 /\ 1..k \subseteq ns
    BY <1>1, <1>3, <1>9, <1>10, Zenon DEF LogInv, HomeComplete
  <2>2. ns \subseteq 1..n
    BY <2>1, <1>4, <1>6
  <2>3. 1..n \subseteq ns
    <3>1. CASE n \in ns
      BY <3>1, <2>1
    <3>2. CASE n = 0
      BY <3>2
    <3> QED BY <3>1, <3>2, <1>6
  <2> QED BY <2>2, <2>3
<1>12. \A u \in events[e] : u.stream = v.stream => u.lamport < v.lamport
  <2> SUFFICES ASSUME NEW u \in events[e], u.stream = v.stream PROVE u.lamport < v.lamport
    OBVIOUS
  <2>1. u \in past
    BY <1>1, <1>9 DEF History
  <2>2. u.lamport \in ls
    BY <2>1 DEF Lamports
  <2>3. u.lamport \in Nat
    BY <2>2, <1>4
  <2> HIDE DEF ls
  <2> QED BY <2>2, <2>3, <1>7, <1>9
<1>13. v.seq - 1 = n /\ v.seq \in Nat /\ v.seq > 0
  BY <1>6, <1>9
<1> QED BY <1>8, <1>9, <1>10, <1>11, <1>12, <1>13

\* Two databases with events at one position have one event there.
LEMMA HomesMakeOneContent ==
    ASSUME LogInv PROVE OneContent
<1> SUFFICES ASSUME NEW e \in Edges, NEW f \in Edges, NEW u \in events[e], NEW v \in events[f],
                    SamePosition(u, v)
             PROVE u = v
  BY DEF OneContent
<1>1. PICK h \in Edges : identity[h] = u.writer /\ u \in events[h]
  BY DEF LogInv, HomeComplete
<1>2. PICK k \in Edges : identity[k] = v.writer /\ v \in events[k]
  BY DEF LogInv, HomeComplete
<1>3. u.writer = v.writer /\ u.writer # Nobody
  BY EventLogAssumption DEF SamePosition, LogInv, EventLogTypeOK, Event
<1>4. h = k
  BY <1>1, <1>2, <1>3 DEF LogInv, WritersInv
<1> QED BY <1>1, <1>2, <1>4 DEF LogInv, WritersInv

\* Nobody has an event where a request writes its own.
LEMMA WritesFresh ==
    ASSUME LogInv, NEW q \in Requests, place[q] = "insert", MayWrite(q), NEW v \in Stamped(q)
    PROVE \A f \in Edges : \A u \in events[f] : ~SamePosition(u, v)
<1>1. edge[q] \in Edges
  BY SawAll
<1>2. v.writer = identity[edge[q]] /\ OwnSeqs(edge[q], v.stream) = 1..(v.seq - 1) /\ v.seq \in Nat
  BY WritesNext
<1> SUFFICES ASSUME NEW f \in Edges, NEW u \in events[f], SamePosition(u, v) PROVE FALSE
  OBVIOUS
<1>3. PICK h \in Edges : identity[h] = u.writer /\ u \in events[h]
  BY DEF LogInv, HomeComplete
<1>4. u.writer # Nobody
  BY EventLogAssumption DEF LogInv, EventLogTypeOK, Event
<1>5. h = edge[q]
  BY <1>1, <1>2, <1>3, <1>4 DEF LogInv, WritersInv, SamePosition
<1>6. u.seq \in OwnSeqs(edge[q], v.stream)
  BY <1>2, <1>3, <1>5 DEF OwnSeqs, Seqs, History, SamePosition
<1>7. v.seq \in 1..(v.seq - 1)
  BY <1>2, <1>6 DEF SamePosition
<1> QED BY <1>2, <1>7


LEMMA LogStarts ==
    ASSUME EventLogInit PROVE LogInv
<1>1. EventLogTypeOK
  BY EventLogAssumption DEF EventLogInit, EventLogTypeOK, Streams, Kinds
<1>2. WritersInv
  BY DEF EventLogInit, WritersInv
<1>3. HomeComplete
  BY DEF EventLogInit, HomeComplete, OwnSeqs, Seqs, History
<1>4. RequestsFit
  BY DEF EventLogInit, RequestsFit, RequestFits
<1>5. HeldInv
  BY EventLogAssumption DEF EventLogInit, HeldInv
<1> QED BY <1>1, <1>2, <1>3, <1>4, <1>5 DEF LogInv

\* What a step that writes no event and mints no writer leaves alone.
LEMMA HomesFramed ==
    ASSUME LogInv, UNCHANGED <<events, identity>>
    PROVE WritersInv' /\ HomeComplete'
<1>1. WritersInv'
  BY DEF LogInv, WritersInv
<1>2. HomeComplete'
  BY DEF LogInv, HomeComplete, OwnSeqs
<1> QED BY <1>1, <1>2

LEMMA ReturnsFits ==
    ASSUME LogInv, NEW q \in Requests, Returns(q), UNCHANGED identity,
           \A e \in Edges : held[e] \notin {q, Nobody} => events'[e] = events[e]
    PROVE RequestsFit' /\ HeldInv'
<1>1. HeldInv'
  BY EventLogAssumption DEF LogInv, EventLogTypeOK, HeldInv, Returns
<1>2. RequestsFit'
  <2> SUFFICES ASSUME NEW p \in Requests PROVE RequestFits(p)'
    BY Zenon DEF RequestsFit
  <2>1. CASE p = q
    BY <2>1 DEF LogInv, EventLogTypeOK, Returns, RequestFits
  <2>2. CASE p # q
    <3>1. /\ place'[p] = place[p] /\ edge'[p] = edge[p] /\ kind'[p] = kind[p]
          /\ stream'[p] = stream[p] /\ writer'[p] = writer[p] /\ saw'[p] = saw[p]
      BY <2>2 DEF LogInv, EventLogTypeOK, Returns
    <3>2. edge[p] \in Edges /\ held[edge[p]] = p =>
            held'[edge[p]] = p /\ events'[edge[p]] = events[edge[p]]
      BY <2>2, EventLogAssumption DEF Returns
    <3>3. Judged(p) => Judged(p)'
      BY <3>1 DEF Judged
    <3> QED BY <3>1, <3>2, <3>3 DEF LogInv, RequestsFit, RequestFits
  <2> QED BY <2>1, <2>2
<1> QED BY <1>1, <1>2

LEMMA ReturnsTyped ==
    ASSUME EventLogTypeOK, NEW q \in Requests, Returns(q)
    PROVE /\ held' \in [Edges -> Requests \cup {Nobody}]
          /\ place' \in [Requests -> {"idle", "mint", "reread", "open", "read", "judge", "insert"}]
          /\ edge' \in [Requests -> Edges \cup {Nobody}]
          /\ kind' \in [Requests -> Kinds]
          /\ stream' \in [Requests -> Streams]
          /\ writer' \in [Requests -> Writers \cup {Nobody}]
          /\ saw' \in [Requests -> SUBSET Event]
BY EventLogAssumption DEF EventLogTypeOK, Returns, Kinds, Streams

LEMMA GiveUpKeeps ==
    ASSUME LogInv, NEW q \in Requests, Refuse(q) \/ Busy(q) \/ Dies(q) PROVE LogInv'
<1>1. Returns(q) /\ UNCHANGED <<events, identity>> /\ failures' \in 0..MaxFailures
  BY EventLogAssumption DEF Refuse, Busy, Dies, LogInv, EventLogTypeOK
<1>2. EventLogTypeOK'
  BY <1>1, ReturnsTyped DEF LogInv, EventLogTypeOK
<1> QED BY <1>1, <1>2, HomesFramed, ReturnsFits DEF LogInv

LEMMA InsertKeeps ==
    ASSUME LogInv, NEW q \in Requests, Insert(q) PROVE LogInv'
<1> DEFINE e == edge[q]
<1>1. PICK v \in Stamped(q) : events' = [events EXCEPT ![e] = @ \cup {v}]
  BY DEF Insert
<1>2. Returns(q) /\ UNCHANGED <<identity, failures>> /\ place[q] = "insert" /\ MayWrite(q)
  BY DEF Insert
<1>3. e \in Edges
  BY <1>2, SawAll
<1>4. /\ v \in Event /\ v.writer = identity[e]
      /\ OwnSeqs(e, v.stream) = 1..(v.seq - 1) /\ v.seq \in Nat /\ v.seq > 0
  BY <1>1, <1>2, WritesNext
<1>5. \A f \in Edges : \A u \in events[f] : ~SamePosition(u, v)
  BY <1>1, <1>2, WritesFresh
<1>6. \A f \in Edges : events'[f] = IF f = e THEN events[f] \cup {v} ELSE events[f]
  BY <1>1, <1>3 DEF LogInv, EventLogTypeOK
<1>7. EventLogTypeOK'
  <2>1. events' \in [Edges -> SUBSET Event]
    BY <1>1, <1>4 DEF LogInv, EventLogTypeOK
  <2> QED BY <2>1, <1>2, ReturnsTyped DEF LogInv, EventLogTypeOK
<1>8. WritersInv'
  <2>1. ASSUME NEW f \in Edges, NEW u \in events'[f], NEW w \in events'[f], SamePosition(u, w)
        PROVE u = w
    <3>1. CASE u \in events[f] /\ w \in events[f]
      BY <2>1, <3>1 DEF LogInv, WritersInv
    <3>2. CASE u = v /\ w \in events[f]
      BY <2>1, <3>2, <1>5 DEF SamePosition
    <3>3. CASE u \in events[f] /\ w = v
      BY <2>1, <3>3, <1>5 DEF SamePosition
    <3>4. (u \in events[f] \/ u = v) /\ (w \in events[f] \/ w = v)
      BY <1>6
    <3> QED BY <3>1, <3>2, <3>3, <3>4
  <2> QED BY <2>1, <1>2 DEF LogInv, WritersInv
<1>9. HomeComplete'
  <2>1. \A f \in Edges : \A u \in events'[f] :
          \E h \in Edges : identity'[h] = u.writer /\ u \in events'[h]
    <3> SUFFICES ASSUME NEW f \in Edges, NEW u \in events'[f]
                 PROVE \E h \in Edges : identity'[h] = u.writer /\ u \in events'[h]
      OBVIOUS
    <3>1. CASE u \in events[f]
      <4>1. PICK h \in Edges : identity[h] = u.writer /\ u \in events[h]
        BY <3>1 DEF LogInv, HomeComplete
      <4> QED BY <4>1, <1>2, <1>6
    <3>2. CASE u = v
      BY <3>2, <1>2, <1>3, <1>4, <1>6
    <3> QED BY <3>1, <3>2, <1>6
  <2>2. ASSUME NEW h \in Edges, NEW s \in Streams, NEW n \in OwnSeqs(h, s)'
        PROVE n > 0 /\ 1..n \subseteq OwnSeqs(h, s)'
    <3>1. CASE h = e /\ s = v.stream
      <4>1. OwnSeqs(h, s)' = OwnSeqs(h, s) \cup {v.seq}
        <5>1. History(events'[h], s) = History(events[h], s) \cup {v}
          BY <3>1, <1>6 DEF History
        <5>2. OwnSeqs(h, s)' = Seqs(History(events'[h], s), identity[h])
          BY <1>2 DEF OwnSeqs
        <5>3. Seqs(History(events[h], s) \cup {v}, identity[h]) = OwnSeqs(h, s) \cup {v.seq}
          BY <3>1, <1>4 DEF OwnSeqs, Seqs
        <5> QED BY <5>1, <5>2, <5>3
      <4>2. OwnSeqs(h, s)' = 1..v.seq
        BY <4>1, <3>1, <1>4
      <4> QED BY <4>2, <1>4
    <3>2. CASE ~(h = e /\ s = v.stream)
      <4>1. History(events[h], s)' = History(events[h], s)
        BY <3>2, <1>6 DEF History
      <4>2. OwnSeqs(h, s)' = OwnSeqs(h, s)
        BY <4>1, <1>2 DEF OwnSeqs
      <4> QED BY <4>2 DEF LogInv, HomeComplete
    <3> QED BY <3>1, <3>2
  <2> QED BY <2>1, <2>2, Zenon DEF HomeComplete
<1>10. RequestsFit' /\ HeldInv'
  BY <1>2, <1>6, ReturnsFits DEF MayWrite
<1> QED BY <1>7, <1>8, <1>9, <1>10 DEF LogInv

LEMMA IngestKeeps ==
    ASSUME LogInv, NEW e \in Edges, NEW f \in Edges,
           NEW batch \in SUBSET (events[f] \ events[e]), Ingest(e, batch)
    PROVE LogInv'
<1>1. /\ events' = [events EXCEPT ![e] = @ \cup batch]
      /\ UNCHANGED <<identity, held, place, edge, kind, stream, writer, saw, failures>>
      /\ held[e] = Nobody /\ ~Diverges(e, batch)
  BY DEF Ingest, requestVars
<1>2. \A g \in Edges : events'[g] = IF g = e THEN events[g] \cup batch ELSE events[g]
  BY <1>1 DEF LogInv, EventLogTypeOK
<1>3. EventLogTypeOK'
  <2>1. events' \in [Edges -> SUBSET Event]
    BY <1>1 DEF LogInv, EventLogTypeOK
  <2> QED BY <2>1, <1>1 DEF LogInv, EventLogTypeOK
<1>4. WritersInv'
  <2>1. ASSUME NEW u \in batch, NEW w \in batch, SamePosition(u, w) PROVE u = w
    BY <2>1 DEF LogInv, WritersInv
  <2>2. ASSUME NEW u \in events[e], NEW w \in batch, SamePosition(u, w) \/ SamePosition(w, u)
        PROVE u = w
    BY <2>2, <1>1 DEF Diverges, SamePosition
  <2>3. \A g \in Edges : \A u, w \in events'[g] : SamePosition(u, w) => u = w
    BY <2>1, <2>2, <1>2 DEF LogInv, WritersInv
  <2> QED BY <2>3, <1>1 DEF LogInv, WritersInv
<1>5. HomeComplete'
  <2>1. \A g \in Edges : \A u \in events'[g] :
          \E h \in Edges : identity'[h] = u.writer /\ u \in events'[h]
    <3> SUFFICES ASSUME NEW g \in Edges, NEW u \in events'[g]
                 PROVE \E h \in Edges : identity'[h] = u.writer /\ u \in events'[h]
      OBVIOUS
    <3>1. u \in events[g] \/ u \in events[f]
      BY <1>2
    <3>2. PICK h \in Edges : identity[h] = u.writer /\ u \in events[h]
      BY <3>1 DEF LogInv, HomeComplete
    <3> QED BY <3>2, <1>1, <1>2
  <2>2. \A u \in batch : u.writer # identity[e]
    <3> SUFFICES ASSUME NEW u \in batch, u.writer = identity[e] PROVE FALSE
      OBVIOUS
    <3>1. u \in events[f] /\ u \notin events[e]
      OBVIOUS
    <3>2. PICK h \in Edges : identity[h] = u.writer /\ u \in events[h]
      BY <3>1 DEF LogInv, HomeComplete
    <3>3. identity[h] # Nobody
      BY <3>1, <3>2, EventLogAssumption DEF LogInv, EventLogTypeOK, Event
    <3> QED BY <3>1, <3>2, <3>3 DEF LogInv, WritersInv
  <2>3. \A h \in Edges, s \in Streams : OwnSeqs(h, s)' = OwnSeqs(h, s)
    BY <2>2, <1>1, <1>2 DEF OwnSeqs, Seqs, History
  <2> QED BY <2>1, <2>3 DEF LogInv, HomeComplete
<1>6. HeldInv'
  BY <1>1 DEF LogInv, HeldInv
<1>7. RequestsFit'
  <2>1. \A q \in Requests : edge[q] \in Edges /\ held[edge[q]] = q => events'[edge[q]] = events[edge[q]]
    BY <1>1, <1>2, EventLogAssumption
  <2>2. \A q \in Requests : Judged(q)' <=> Judged(q)
    BY <1>1 DEF Judged
  <2> QED BY <2>1, <2>2, <1>1 DEF LogInv, RequestsFit, RequestFits
<1> QED BY <1>3, <1>4, <1>5, <1>6, <1>7 DEF LogInv


\* A step of request q that leaves the others' requests, and what they rest
\* on, alone.
LEMMA StepKeepsFit ==
    ASSUME LogInv, NEW q \in Requests, RequestFits(q)',
           UNCHANGED events,
           \A e \in Edges : identity[e] # Nobody => identity'[e] = identity[e],
           \A p \in Requests \ {q} :
             /\ \A e \in Edges : held[e] = p => held'[e] = p
             /\ place'[p] = place[p] /\ edge'[p] = edge[p] /\ kind'[p] = kind[p]
             /\ stream'[p] = stream[p] /\ writer'[p] = writer[p] /\ saw'[p] = saw[p]
    PROVE RequestsFit'
<1> SUFFICES ASSUME NEW p \in Requests PROVE RequestFits(p)'
  BY Zenon DEF RequestsFit
<1>1. CASE p = q
  BY <1>1
<1>2. CASE p # q
  <2>1. Judged(p) => Judged(p)'
    BY <1>2 DEF Judged
  <2> QED BY <1>2, <2>1 DEF LogInv, RequestsFit, RequestFits
<1> QED BY <1>1, <1>2

LEMMA ArriveKeeps ==
    ASSUME LogInv, NEW q \in Requests, NEW e \in Edges, Arrive(q, e) PROVE LogInv'
<1> USE DEF Arrive, Moves
<1>1. EventLogTypeOK'
  BY DEF LogInv, EventLogTypeOK
<1>2. WritersInv' /\ HomeComplete'
  BY HomesFramed
<1>3. RequestFits(q)'
  BY DEF LogInv, EventLogTypeOK, RequestsFit, RequestFits
<1>4. RequestsFit'
  BY <1>3, StepKeepsFit DEF LogInv, EventLogTypeOK
<1>5. HeldInv'
  BY DEF LogInv, EventLogTypeOK, HeldInv
<1> QED BY <1>1, <1>2, <1>4, <1>5 DEF LogInv

LEMMA MintKeeps ==
    ASSUME LogInv, NEW q \in Requests, Mint(q) PROVE LogInv'
<1> DEFINE e == edge[q]
<1>1. /\ place[q] = "mint" /\ place' = [place EXCEPT ![q] = "reread"]
      /\ UNCHANGED <<events, held, edge, kind, stream, writer, saw, failures>>
  BY DEF Mint, Moves
<1>2. e \in Edges
  BY <1>1 DEF LogInv, RequestsFit, RequestFits
<1>3. CASE identity[e] # Nobody
  <2>1. UNCHANGED identity
    BY <1>3 DEF Mint
  <2>2. EventLogTypeOK'
    BY <1>1, <2>1 DEF LogInv, EventLogTypeOK
  <2>3. WritersInv' /\ HomeComplete'
    BY <1>1, <2>1, HomesFramed
  <2>4. RequestFits(q)'
    BY <1>1, <1>2, <1>3, <2>1 DEF LogInv, EventLogTypeOK, RequestsFit, RequestFits
  <2>5. RequestsFit'
    BY <1>1, <2>1, <2>4, StepKeepsFit DEF LogInv, EventLogTypeOK
  <2>6. HeldInv'
    BY <1>1 DEF LogInv, EventLogTypeOK, HeldInv
  <2> QED BY <2>2, <2>3, <2>5, <2>6 DEF LogInv
<1>4. CASE identity[e] = Nobody
  <2>1. PICK w \in Draws : identity' = [identity EXCEPT ![e] = w]
    BY <1>4 DEF Mint
  <2>2. w \in Writers /\ w # Nobody /\ \A f \in Edges : identity[f] # w
    BY EventLogAssumption DEF Draws
  <2>3. \A f \in Edges : identity'[f] = IF f = e THEN w ELSE identity[f]
    BY <2>1, <1>2 DEF LogInv, EventLogTypeOK
  <2>4. EventLogTypeOK'
    BY <1>1, <1>2, <2>1, <2>2 DEF LogInv, EventLogTypeOK
  <2>5. WritersInv'
    BY <1>1, <2>2, <2>3 DEF LogInv, WritersInv
  <2>6. \A f \in Edges : \A v \in events[f] : v.writer # w /\ v.writer # Nobody
    <3> SUFFICES ASSUME NEW f \in Edges, NEW v \in events[f]
                 PROVE v.writer # w /\ v.writer # Nobody
      OBVIOUS
    <3>1. v.writer # Nobody
      BY EventLogAssumption DEF LogInv, EventLogTypeOK, Event
    <3>2. PICK h \in Edges : identity[h] = v.writer /\ v \in events[h]
      BY DEF LogInv, HomeComplete
    <3> QED BY <3>1, <3>2, <2>2
  <2>7. HomeComplete'
    <3>1. \A f \in Edges : \A v \in events'[f] :
            \E h \in Edges : identity'[h] = v.writer /\ v \in events'[h]
      BY <1>1, <1>4, <2>3, <2>6 DEF LogInv, HomeComplete
    <3>2. ASSUME NEW h \in Edges, NEW s \in Streams, NEW n \in OwnSeqs(h, s)'
          PROVE n > 0 /\ 1..n \subseteq OwnSeqs(h, s)'
      <4>1. CASE identity'[h] = w
        BY <4>1, <1>1, <2>6 DEF OwnSeqs, Seqs, History
      <4>2. CASE identity'[h] # w
        <5>1. OwnSeqs(h, s)' = OwnSeqs(h, s)
          BY <4>2, <1>1, <2>3 DEF OwnSeqs
        <5> QED BY <5>1 DEF LogInv, HomeComplete
      <4> QED BY <4>1, <4>2
    <3> QED BY <3>1, <3>2, Zenon DEF HomeComplete
  <2>8. RequestFits(q)'
    BY <1>1, <1>2, <2>2, <2>3 DEF LogInv, EventLogTypeOK, RequestsFit, RequestFits
  <2>9. RequestsFit'
    BY <1>1, <1>4, <2>3, <2>8, StepKeepsFit DEF LogInv, EventLogTypeOK
  <2>10. HeldInv'
    BY <1>1 DEF LogInv, EventLogTypeOK, HeldInv
  <2> QED BY <2>4, <2>5, <2>7, <2>9, <2>10 DEF LogInv
<1> QED BY <1>3, <1>4

LEMMA ReadBackKeeps ==
    ASSUME LogInv, NEW q \in Requests, ReadBack(q) PROVE LogInv'
<1> USE DEF ReadBack, Moves
<1>1. EventLogTypeOK'
  BY DEF LogInv, EventLogTypeOK, RequestsFit, RequestFits
<1>2. WritersInv' /\ HomeComplete'
  BY HomesFramed
<1>3. RequestFits(q)'
  BY DEF LogInv, EventLogTypeOK, RequestsFit, RequestFits
<1>4. RequestsFit'
  BY <1>3, StepKeepsFit DEF LogInv, EventLogTypeOK
<1>5. HeldInv'
  BY DEF LogInv, EventLogTypeOK, HeldInv
<1> QED BY <1>1, <1>2, <1>4, <1>5 DEF LogInv

LEMMA AppendKeeps ==
    ASSUME LogInv, NEW q \in Requests, NEW s \in Streams, Append(q, s) PROVE LogInv'
<1> USE DEF Append, Moves
<1>1. EventLogTypeOK'
  BY DEF LogInv, EventLogTypeOK
<1>2. WritersInv' /\ HomeComplete'
  BY HomesFramed
<1>3. RequestFits(q)'
  BY DEF LogInv, EventLogTypeOK, RequestsFit, RequestFits
<1>4. RequestsFit'
  BY <1>3, StepKeepsFit DEF LogInv, EventLogTypeOK
<1>5. HeldInv'
  BY DEF LogInv, EventLogTypeOK, HeldInv
<1> QED BY <1>1, <1>2, <1>4, <1>5 DEF LogInv

LEMMA ReadKeeps ==
    ASSUME LogInv, NEW q \in Requests, Read(q) PROVE LogInv'
<1> USE DEF Read, Moves
<1>1. EventLogTypeOK'
  BY DEF LogInv, EventLogTypeOK, RequestsFit, RequestFits
<1>2. WritersInv' /\ HomeComplete'
  BY HomesFramed
<1>3. RequestFits(q)'
  BY DEF LogInv, EventLogTypeOK, RequestsFit, RequestFits
<1>4. RequestsFit'
  BY <1>3, StepKeepsFit DEF LogInv, EventLogTypeOK
<1>5. HeldInv'
  BY DEF LogInv, EventLogTypeOK, HeldInv
<1> QED BY <1>1, <1>2, <1>4, <1>5 DEF LogInv

LEMMA BeginLockedKeeps ==
    ASSUME LogInv, NEW q \in Requests, NEW k \in {"created", "updated", "deleted"},
           NEW s \in Streams, BeginLocked(q, k, s)
    PROVE LogInv'
<1> USE DEF BeginLocked, Moves
<1>1. EventLogTypeOK'
  BY DEF LogInv, EventLogTypeOK, Kinds, RequestsFit, RequestFits
<1>2. WritersInv' /\ HomeComplete'
  BY HomesFramed
<1>3. RequestFits(q)'
  BY DEF LogInv, EventLogTypeOK, RequestsFit, RequestFits
<1>4. RequestsFit'
  BY <1>3, StepKeepsFit, EventLogAssumption DEF LogInv, EventLogTypeOK
<1>5. HeldInv'
  BY EventLogAssumption DEF LogInv, EventLogTypeOK, HeldInv, RequestsFit, RequestFits
<1> QED BY <1>1, <1>2, <1>4, <1>5 DEF LogInv

\* A record's ID is above every one that has events.
LEMMA NextIDIsNew ==
    ASSUME LogInv, NEW q \in Requests, edge[q] \in Edges, NEW s \in NextID(q)
    PROVE History(events[edge[q]], s) = {}
<1> DEFINE ns == {v.stream : v \in events[edge[q]]}
<1>1. ns \subseteq Nat
  BY DEF LogInv, EventLogTypeOK, Event, Streams
<1>2. PICK n \in Tops(ns) : s = n + 1
  BY DEF NextID
<1>3. n \in Nat /\ \A k \in ns : k <= n
  <2> HIDE DEF ns
  <2> QED BY <1>1, TopIsTop
<1>4. s \notin ns
  <2> HIDE DEF ns
  <2> QED BY <1>2, <1>3
<1> QED BY <1>4 DEF History

LEMMA JudgeKeeps ==
    ASSUME LogInv, NEW q \in Requests, Judge(q) PROVE LogInv'
<1>1. /\ place[q] = "judge" /\ place' = [place EXCEPT ![q] = "insert"]
      /\ saw' = [saw EXCEPT ![q] = events[edge[q]]]
      /\ UNCHANGED <<events, identity, held, edge, kind, writer, failures>>
  BY DEF Judge, Moves
<1>2. edge[q] \in Edges
  BY <1>1 DEF LogInv, RequestsFit, RequestFits
<1>3. /\ stream' \in [Requests -> Streams]
      /\ \A p \in Requests \ {q} : stream'[p] = stream[p]
      /\ kind[q] = "created" => History(events[edge[q]], stream'[q]) = {}
      /\ kind[q] # "created" => Live(events[edge[q]], stream'[q])
  <2>1. CASE kind[q] = "created"
    <3>1. PICK s \in NextID(q) \cap Streams : stream' = [stream EXCEPT ![q] = s]
      BY <2>1 DEF Judge
    <3>2. History(events[edge[q]], s) = {}
      BY <1>2, NextIDIsNew
    <3> QED BY <2>1, <3>1, <3>2 DEF LogInv, EventLogTypeOK
  <2>2. CASE kind[q] # "created"
    BY <2>2 DEF Judge, LogInv, EventLogTypeOK
  <2> QED BY <2>1, <2>2
<1>4. EventLogTypeOK'
  BY <1>1, <1>2, <1>3 DEF LogInv, EventLogTypeOK
<1>5. WritersInv' /\ HomeComplete'
  BY <1>1, HomesFramed
<1>6. RequestFits(q)'
  <2>1. saw'[q] = events[edge[q]]
    BY <1>1 DEF LogInv, EventLogTypeOK
  <2>2. Judged(q)'
    BY <1>1, <1>3, <2>1 DEF Judged
  <2> QED BY <1>1, <1>2, <2>1, <2>2 DEF LogInv, EventLogTypeOK, RequestsFit, RequestFits
<1>7. RequestsFit'
  BY <1>1, <1>3, <1>6, StepKeepsFit DEF LogInv, EventLogTypeOK
<1>8. HeldInv'
  BY <1>1 DEF LogInv, EventLogTypeOK, HeldInv
<1> QED BY <1>4, <1>5, <1>7, <1>8 DEF LogInv


LEMMA LogStep ==
    ASSUME LogInv, [EventLogNext]_logVars PROVE LogInv'
<1>1. CASE UNCHANGED logVars
  <2> USE <1>1 DEF logVars, requestVars
  <2>1. EventLogTypeOK'
    BY DEF LogInv, EventLogTypeOK
  <2>2. WritersInv' /\ HomeComplete'
    BY HomesFramed
  <2>3. RequestsFit'
    BY DEF LogInv, RequestsFit, RequestFits, Judged
  <2>4. HeldInv'
    BY DEF LogInv, HeldInv
  <2> QED BY <2>1, <2>2, <2>3, <2>4 DEF LogInv
<1>2. CASE EventLogNext
  <2>1. ASSUME NEW q \in Requests, NEW e \in Edges, Arrive(q, e) PROVE LogInv'
    BY <2>1, ArriveKeeps
  <2>2. ASSUME NEW q \in Requests, NEW s \in Streams, Append(q, s) PROVE LogInv'
    BY <2>2, AppendKeeps
  <2>3. ASSUME NEW q \in Requests, NEW s \in Streams, NEW k \in {"updated", "deleted"},
               BeginLocked(q, k, s)
        PROVE LogInv'
    BY <2>3, BeginLockedKeeps
  <2>4. ASSUME NEW q \in Requests, BeginLocked(q, "created", 1) PROVE LogInv'
    BY <2>4, BeginLockedKeeps, EventLogAssumption DEF Streams
  <2>5. ASSUME NEW q \in Requests,
               \/ Mint(q) \/ ReadBack(q) \/ Read(q) \/ Judge(q)
               \/ Refuse(q) \/ Insert(q) \/ Busy(q) \/ Dies(q)
        PROVE LogInv'
    BY <2>5, MintKeeps, ReadBackKeeps, ReadKeeps, JudgeKeeps, GiveUpKeeps, InsertKeeps
  <2>6. ASSUME NEW e \in Edges, NEW f \in Edges, NEW batch \in SUBSET (events[f] \ events[e]),
               Ingest(e, batch)
        PROVE LogInv'
    BY <2>6, IngestKeeps
  <2> QED BY <1>2, <2>1, <2>2, <2>3, <2>4, <2>5, <2>6, Zenon DEF EventLogNext
<1> QED BY <1>1, <1>2

\* The event log's invariant, for any number of databases, requests, writers,
\* records and events.
THEOREM LogInvariant == EventLogSpec => []LogInv
<1>1. EventLogInit => LogInv
  BY LogStarts
<1>2. LogInv /\ [EventLogNext]_logVars => LogInv'
  BY LogStep
<1> QED BY <1>1, <1>2, PTL DEF EventLogSpec

\* The log's variables keep their types.
THEOREM LogTypeCorrect == EventLogSpec => []EventLogTypeOK
<1>1. LogInv => EventLogTypeOK
  BY DEF LogInv
<1> QED BY <1>1, LogInvariant, PTL

\* No two databases ever have different events at one position
\* (eventlog.go's UNIQUE (stream, writer, seq), across databases).
THEOREM ContentIsOne == EventLogSpec => []OneContent
<1>1. LogInv => OneContent
  BY HomesMakeOneContent
<1> QED BY <1>1, LogInvariant, PTL

\* Whatever a database has, the one that wrote it has, numbered without a
\* gap (Append's seq from MAX(seq)).
THEOREM HomesAreComplete == EventLogSpec => []HomeComplete
<1>1. LogInv => HomeComplete
  BY DEF LogInv
<1> QED BY <1>1, LogInvariant, PTL

\* Ingest never answers ErrDiverged.
NeverDiverges ==
    \A e, f \in Edges : \A batch \in SUBSET events[f] : ~Diverges(e, batch)

THEOREM DeliveriesAreTaken == EventLogSpec => []NeverDiverges
<1>1. OneContent => NeverDiverges
  BY DEF OneContent, NeverDiverges, Diverges
<1> QED BY <1>1, ContentIsOne, PTL

\* What a step does to the rows: nothing, one request's event, or a delivery.
LEMMA EventsStep ==
    ASSUME LogInv, [EventLogNext]_logVars
    PROVE \/ UNCHANGED events
          \/ \E q \in Requests : Insert(q)
          \/ \E e, f \in Edges : \E batch \in SUBSET (events[f] \ events[e]) : Ingest(e, batch)
<1>1. CASE UNCHANGED logVars
  BY <1>1 DEF logVars
<1>2. CASE EventLogNext
  BY <1>2, Zenon DEF EventLogNext, Arrive, Mint, ReadBack, Append, BeginLocked, Read, Judge,
                     Refuse, Busy, Dies
<1> QED BY <1>1, <1>2

\* An insert is MergeLog's Write: it takes a position that is free everywhere
\* and comes after all that its database has of the stream.
LEMMA InsertWrites ==
    ASSUME LogInv, NEW q \in Requests, Insert(q)
    PROVE \E v \in Stamped(q) :
            /\ \A e \in Edges : events'[e] \ events[e] = IF e = edge[q] THEN {v} ELSE {}
            /\ edge[q] \in Edges
            /\ Merges!Write(edge[q], v)
<1>1. PICK v \in Stamped(q) : events' = [events EXCEPT ![edge[q]] = @ \cup {v}]
  BY DEF Insert
<1>2. place[q] = "insert" /\ MayWrite(q)
  BY DEF Insert
<1>3. edge[q] \in Edges
  BY <1>2, SawAll
<1>4. \A f \in Edges : \A u \in events[f] : ~SamePosition(u, v)
  BY <1>2, WritesFresh
<1>5. \A u \in events[edge[q]] : u.stream = v.stream => u.lamport < v.lamport
  BY <1>2, WritesNext
<1>6. v \notin events[edge[q]]
  BY <1>3, <1>4 DEF SamePosition
<1>7. \A e \in Edges : events'[e] \ events[e] = IF e = edge[q] THEN {v} ELSE {}
  BY <1>1, <1>3, <1>6 DEF LogInv, EventLogTypeOK
<1>8. Merges!Write(edge[q], v)
  BY <1>1, <1>3, <1>4, <1>5 DEF Merges!Write, Merges!SamePlace, SamePosition
<1> QED BY <1>3, <1>7, <1>8

\* The log implements MergeLog: a database only gains events, its own after
\* all that it has of the stream and where nobody has any, others' as they
\* have them (Append, Ingest).
THEOREM LogMerges == EventLogSpec => MergesOnly
<1>1. EventLogInit => Merges!MergeInit
  BY DEF EventLogInit, Merges!MergeInit
<1>2. LogInv /\ [EventLogNext]_logVars => [Merges!MergeStep]_events
  <2> SUFFICES ASSUME LogInv, [EventLogNext]_logVars PROVE [Merges!MergeStep]_events
    OBVIOUS
  <2>1. ASSUME NEW q \in Requests, Insert(q) PROVE Merges!MergeStep
    <3>1. PICK v \in Stamped(q) :
            /\ \A e \in Edges : events'[e] \ events[e] = IF e = edge[q] THEN {v} ELSE {}
            /\ edge[q] \in Edges
            /\ Merges!Write(edge[q], v)
      BY <2>1, InsertWrites
    <3>2. events'[edge[q]] \ events[edge[q]] = {v}
      BY <3>1
    <3> QED BY <3>1, <3>2 DEF Merges!MergeStep
  <2>2. ASSUME NEW e \in Edges, NEW f \in Edges, NEW batch \in SUBSET (events[f] \ events[e]),
               Ingest(e, batch)
        PROVE Merges!MergeStep
    <3>1. events' = [events EXCEPT ![e] = @ \cup batch] /\ events \in [Edges -> SUBSET Event]
      BY <2>2 DEF Ingest, LogInv, EventLogTypeOK
    <3>2. events'[e] \ events[e] = batch
      BY <3>1
    <3>3. Merges!Learn(e, batch)
      BY <3>1 DEF Merges!Learn
    <3> QED BY <3>2, <3>3 DEF Merges!MergeStep
  <2> QED BY <2>1, <2>2, EventsStep
<1> QED BY <1>1, <1>2, LogInvariant, PTL DEF EventLogSpec, MergesOnly, Merges!MergeSpec

\* A database writes an update or a tombstone only on a record that it has
\* live, and starts a record under an ID that it has nothing of, whatever
\* commits or arrives beside the request (AppendChecked, AppendUnder).
THEOREM OnlyLiveIsWritten == EventLogSpec => WritesOnLive
<1> DEFINE Kept(e) ==
             \A v \in events'[e] \ events[e] :
               v.writer = identity[e] =>
                 /\ v.kind = "created" => History(events[e], v.stream) = {}
                 /\ v.kind \in {"updated", "deleted"} => Live(events[e], v.stream)
<1>1. LogInv /\ [EventLogNext]_logVars => \A e \in Edges : Kept(e)
  <2> SUFFICES ASSUME LogInv, [EventLogNext]_logVars, NEW e \in Edges PROVE Kept(e)
    OBVIOUS
  <2>1. ASSUME NEW q \in Requests, Insert(q) PROVE Kept(e)
    <3>1. PICK v \in Stamped(q) :
            /\ \A f \in Edges : events'[f] \ events[f] = IF f = edge[q] THEN {v} ELSE {}
            /\ edge[q] \in Edges
      BY <2>1, InsertWrites
    <3>2. place[q] = "insert" /\ MayWrite(q)
      BY <2>1 DEF Insert
    <3>3. v.stream = stream[q] /\ v.kind = kind[q]
      BY <3>2, WritesNext
    <3>4. kind[q] # "noted" => saw[q] = events[edge[q]] /\ Judged(q)
      BY <3>2 DEF LogInv, RequestsFit, RequestFits
    <3> QED BY <3>1, <3>3, <3>4 DEF Judged
  <2>2. ASSUME NEW f \in Edges, NEW g \in Edges, NEW batch \in SUBSET (events[g] \ events[f]),
               Ingest(f, batch)
        PROVE Kept(e)
    <3>1. events' = [events EXCEPT ![f] = @ \cup batch] /\ events \in [Edges -> SUBSET Event]
      BY <2>2 DEF Ingest, LogInv, EventLogTypeOK
    <3>2. ASSUME NEW v \in events'[e] \ events[e] PROVE v.writer # identity[e]
      <4>1. v \in events[g]
        BY <3>1, <3>2
      <4>2. PICK h \in Edges : identity[h] = v.writer /\ v \in events[h]
        BY <4>1 DEF LogInv, HomeComplete
      <4>3. v.writer # Nobody
        BY <4>1, EventLogAssumption DEF LogInv, EventLogTypeOK, Event
      <4> QED BY <4>2, <4>3, <3>2 DEF LogInv, WritersInv
    <3> QED BY <3>2
  <2>3. CASE UNCHANGED events
    BY <2>3
  <2> HIDE DEF Kept
  <2> QED BY <2>1, <2>2, <2>3, EventsStep, Zenon
<1> QED BY <1>1, LogInvariant, PTL DEF EventLogSpec, WritesOnLive


-----------------------------------------------------------------------------
(* Migrate. *)

\* What ran is recorded, and what is recorded is done or was adopted.
DatabaseInv ==
    /\ \A m \in Migrations : runs[m] > 0 => m \in ledger
    /\ LedgerIsTrue

LockFits(i) == lock = i <=> at[i] \in InTransaction

\* Foreign keys are off only while a rebuild is on its way, or for good.
ForeignKeysFit(i) ==
    at[i] \notin {"down", "begin", "check", "body", "commit", "undo", "restore"} =>
        fk[i] \/ i \in evicted

BeforeLoop == {"ledger", "empty", "compare", "stamp", "stamping", "reread"}

\* Where Apply is tells what it has done: the loop has all before its
\* migration recorded, and a body runs only on a database without it.
ApplyFits(i) ==
    /\ seen[i] \subseteq ledger
    /\ at[i] \in BeforeLoop \cup {"next", "begin", "check", "body", "commit"} =>
         1..(next[i] - 1) \subseteq ledger
    /\ at[i] \in {"begin", "check", "body", "commit"} => next[i] \in Migrations
    /\ at[i] \in {"body", "commit"} => next[i] \notin ledger /\ outcome[i] = "went"
    /\ at[i] = "commit" => next[i] \notin Structure
    /\ at[i] \in {"undo", "restore"} /\ outcome[i] = "went" =>
         next[i] \in Migrations /\ 1..next[i] \subseteq ledger
    /\ at[i] = "up" => ledger = Migrations

\* What is about to be adopted is there, but for data that an old database,
\* or one another instance had begun, is taken to have.
AdoptionFits(i) ==
    /\ at[i] = "compare" => Structure # {}
    /\ at[i] \in {"stamp", "stamping"} =>
         \A m \in stamp[i] :
            m \in built \/ runs[m] = 1 \/ (m \in DataOnly /\ (built # {} \/ crossed))

\* Apply refuses only what RefusalIsJust allows.
RefusalFits(i) == at[i] = "refused" => Foreign \/ ledger # {}

InstanceFits(i) ==
    LockFits(i) /\ ForeignKeysFit(i) /\ ApplyFits(i) /\ AdoptionFits(i) /\ RefusalFits(i)

MigrateInv == MigrateTypeOK /\ DatabaseInv /\ \A i \in Instances : InstanceFits(i)

LEMMA MigrateStarts ==
    ASSUME MigrateInit PROVE MigrateInv
<1> USE MigrateAssumption DEF MigrateInit
<1>1. MigrateTypeOK
  <2>1. 1 \in 1..(N + 1) /\ 0 \in 0..MaxFaults /\ "down" \in Places
    BY DEF Places
  <2>2. /\ next \in [Instances -> 1..(N + 1)] /\ runs \in [Migrations -> Nat]
        /\ at \in [Instances -> Places] /\ faults \in 0..MaxFaults
    BY <2>1
  <2> QED BY <2>2 DEF MigrateTypeOK
<1>2. DatabaseInv
  BY DEF DatabaseInv, LedgerIsTrue, AppliedOnce, RecordedIsDone, Migrations
<1>3. \A i \in Instances : InstanceFits(i)
  BY DEF InstanceFits, LockFits, ForeignKeysFit, ApplyFits, AdoptionFits, RefusalFits,
         InTransaction, BeforeLoop
<1> QED BY <1>1, <1>2, <1>3 DEF MigrateInv

\* A step of instance i leaves what another is in the middle of alone.
Aside(i) ==
    \A j \in Instances \ {i} :
        /\ at'[j] = at[j] /\ next'[j] = next[j] /\ seen'[j] = seen[j]
        /\ stamp'[j] = stamp[j] /\ outcome'[j] = outcome[j]
        /\ fk'[j] = fk[j]
        /\ (lock' = j <=> lock = j) /\ (j \in evicted' <=> j \in evicted)

\* A step that does not touch the database, or the others.
LEMMA QuietStep ==
    ASSUME MigrateInv, NEW i \in Instances, UNCHANGED <<built, runs, ledger>>,
           crossed => crossed', Aside(i), MigrateTypeOK', InstanceFits(i)'
    PROVE MigrateInv'
<1>1. DatabaseInv'
  BY DEF MigrateInv, DatabaseInv, LedgerIsTrue, AppliedOnce, RecordedIsDone
<1>2. ASSUME NEW j \in Instances \ {i} PROVE InstanceFits(j)'
  <2>1. InstanceFits(j)
    BY DEF MigrateInv
  <2> USE <2>1 DEF Aside, InstanceFits
  <2>2. LockFits(j)'
    BY DEF LockFits
  <2>3. ForeignKeysFit(j)'
    BY DEF ForeignKeysFit
  <2>4. ApplyFits(j)'
    BY DEF ApplyFits, Structure
  <2>5. AdoptionFits(j)'
    BY DEF AdoptionFits, Structure
  <2>6. RefusalFits(j)'
    BY DEF RefusalFits, Foreign
  <2> QED BY <2>2, <2>3, <2>4, <2>5, <2>6
<1> QED BY <1>1, <1>2 DEF MigrateInv
\* Every place, and every migration, is one of these.
LEMMA NumbersFit ==
    /\ Migrations = 1..N /\ N \in Nat /\ MaxFaults \in Nat
    /\ InTransaction \subseteq Places /\ BeforeLoop \subseteq Places
    /\ {"down", "next", "begin", "restore", "up", "failed", "refused"} \subseteq Places
BY MigrateAssumption DEF Migrations, InTransaction, BeforeLoop, Places

\* A rollback, a restored connection or a failure: what Ends does to the
\* instance it is about.
LEMMA EndsFits ==
    ASSUME MigrateInv, NEW i \in Instances, NEW how \in {"went", "error"}, Ends(i, how),
           how = "went" => next[i] \in Migrations
    PROVE /\ at' = [at EXCEPT ![i] = at'[i]] /\ next' = [next EXCEPT ![i] = next'[i]]
          /\ at' \in [Instances -> Places] /\ next' \in [Instances -> 1..(N + 1)]
          /\ \/ fk[i] /\ how = "went" /\ at'[i] = "next" /\ next'[i] = next[i] + 1
             \/ fk[i] /\ how = "error" /\ at'[i] = "failed" /\ next'[i] = next[i]
             \/ ~fk[i] /\ at'[i] = "restore" /\ next'[i] = next[i]
<1> USE NumbersFit
<1>1. at \in [Instances -> Places] /\ next \in [Instances -> 1..(N + 1)]
  BY DEF MigrateInv, MigrateTypeOK
<1>2. CASE fk[i] /\ how = "went"
  <2>1. at' = [at EXCEPT ![i] = "next"] /\ next' = [next EXCEPT ![i] = @ + 1]
    BY <1>2 DEF Ends, Concludes
  <2>2. next[i] + 1 \in 1..(N + 1)
    BY <1>1, <1>2
  <2> QED BY <1>1, <1>2, <2>1, <2>2
<1>3. CASE fk[i] /\ how = "error"
  <2>1. at' = [at EXCEPT ![i] = "failed"] /\ next' = [next EXCEPT ![i] = @]
    BY <1>3 DEF Ends, Concludes
  <2> QED BY <1>1, <1>3, <2>1
<1>4. CASE ~fk[i]
  <2>1. at' = [at EXCEPT ![i] = "restore"] /\ next' = next
    BY <1>4 DEF Ends
  <2> QED BY <1>1, <1>4, <2>1
<1> QED BY <1>2, <1>3, <1>4

LEMMA BootKeeps ==
    ASSUME MigrateInv, NEW i \in Instances, Boot(i) PROVE MigrateInv'
<1> USE DEF Boot, databaseVars
<1>1. MigrateTypeOK'
  BY NumbersFit DEF MigrateInv, MigrateTypeOK, BeforeLoop
<1>2. Aside(i)
  BY DEF MigrateInv, MigrateTypeOK, Aside
<1>3. at'[i] = "ledger" /\ next'[i] = 1 /\ seen'[i] = {} /\ fk'[i] = TRUE
  BY DEF MigrateInv, MigrateTypeOK
<1>4. InstanceFits(i)'
  BY <1>3 DEF MigrateInv, InstanceFits, LockFits, ForeignKeysFit, ApplyFits, AdoptionFits,
              RefusalFits, InTransaction, BeforeLoop
<1> QED BY <1>1, <1>2, <1>4, QuietStep

LEMMA ReadLedgerKeeps ==
    ASSUME MigrateInv, NEW i \in Instances, ReadLedger(i) PROVE MigrateInv'
<1> USE DEF ReadLedger, Goes, databaseVars, connectionVars
<1>1. MigrateTypeOK'
  BY NumbersFit DEF MigrateInv, MigrateTypeOK, BeforeLoop
<1>2. Aside(i)
  BY DEF MigrateInv, MigrateTypeOK, Aside
<1>3. at[i] = "ledger" /\ at'[i] \in {"empty", "next"} /\ seen'[i] = ledger
  BY DEF MigrateInv, MigrateTypeOK
<1>4. InstanceFits(i)'
  BY <1>3 DEF MigrateInv, InstanceFits, LockFits, ForeignKeysFit, ApplyFits, AdoptionFits,
              RefusalFits, InTransaction, BeforeLoop
<1> QED BY <1>1, <1>2, <1>4, QuietStep

LEMMA IsEmptyKeeps ==
    ASSUME MigrateInv, NEW i \in Instances, IsEmpty(i) PROVE MigrateInv'
<1> USE DEF IsEmpty, Goes, databaseVars, connectionVars
<1>1. MigrateTypeOK'
  BY NumbersFit DEF MigrateInv, MigrateTypeOK, BeforeLoop
<1>2. Aside(i)
  BY DEF MigrateInv, MigrateTypeOK, Aside
<1>3. at[i] = "empty" /\ (at'[i] = "next" \/ (at'[i] = "compare" /\ Structure # {}))
  BY DEF MigrateInv, MigrateTypeOK
<1>4. Structure' = Structure
  BY DEF Structure
<1>5. InstanceFits(i)'
  BY <1>3, <1>4 DEF MigrateInv, InstanceFits, LockFits, ForeignKeysFit, ApplyFits, AdoptionFits,
                    RefusalFits, InTransaction, BeforeLoop
<1> QED BY <1>1, <1>2, <1>5, QuietStep

\* What matches is there, but for migrations of data.
LEMMA MatchIsThere ==
    ASSUME MigrateTypeOK, NEW s \in Match
    PROVE s \subseteq Migrations /\ \A m \in s : m \in Structure \/ m \in DataOnly
BY DEF Match, Schema, Base

LEMMA CompareKeeps ==
    ASSUME MigrateInv, NEW i \in Instances, Compare(i) PROVE MigrateInv'
<1> USE DEF databaseVars, connectionVars
<1>1. /\ at[i] = "compare" /\ at' = [at EXCEPT ![i] = IF Match = {} THEN "refused" ELSE "stamp"]
      /\ crossed' = (crossed \/ (Match # {} /\ ledger # {}))
      /\ UNCHANGED <<built, runs, ledger, next, seen, outcome, lock, fk, evicted, faults>>
  BY DEF Compare, Goes
<1>2. PICK s \in IF Match = {} THEN {{}} ELSE Match : stamp' = [stamp EXCEPT ![i] = s]
  BY DEF Compare
<1>3. s \subseteq Migrations
  BY MatchIsThere DEF MigrateInv
<1>4. MigrateTypeOK'
  <2>1. crossed' \in BOOLEAN
    BY <1>1
  <2>2. at' \in [Instances -> Places] /\ stamp' \in [Instances -> SUBSET Migrations]
    BY <1>1, <1>2, <1>3, NumbersFit DEF MigrateInv, MigrateTypeOK, BeforeLoop, Places
  <2> QED BY <1>1, <2>1, <2>2 DEF MigrateInv, MigrateTypeOK
<1>5. Aside(i)
  BY <1>1, <1>2 DEF MigrateInv, MigrateTypeOK, Aside
<1>6. CASE Match = {}
  <2>1. at'[i] = "refused"
    BY <1>1, <1>6 DEF MigrateInv, MigrateTypeOK
  <2>2. ledger = {} => Foreign
    <3> SUFFICES ASSUME ledger = {} PROVE Foreign
      OBVIOUS
    <3>1. \A m \in Migrations : ~(runs[m] > 0)
      BY DEF MigrateInv, DatabaseInv
    <3>2. Structure = built
      BY <3>1 DEF Structure, Schema
    <3>3. Structure # {}
      BY <1>1 DEF MigrateInv, InstanceFits, AdoptionFits
    <3> QED BY <1>6, <3>2, <3>3 DEF Match, Foreign
  <2>3. InstanceFits(i)'
    BY <1>1, <2>1, <2>2 DEF MigrateInv, InstanceFits, LockFits, ForeignKeysFit, ApplyFits,
        AdoptionFits, RefusalFits, InTransaction, BeforeLoop, Foreign
  <2> QED BY <1>1, <1>4, <1>5, <2>3, QuietStep
<1>7. CASE Match # {}
  <2>1. at'[i] = "stamp" /\ stamp'[i] = s /\ s \in Match
    BY <1>1, <1>2, <1>7 DEF MigrateInv, MigrateTypeOK
  <2>2. built # {} \/ crossed'
    <3>1. PICK m \in Structure : TRUE
      BY <1>1 DEF MigrateInv, InstanceFits, AdoptionFits
    <3>2. CASE m \in built
      BY <3>2
    <3>3. CASE m \in Schema /\ runs[m] > 0
      BY <3>3, <1>1, <1>7 DEF Schema, MigrateInv, DatabaseInv
    <3> QED BY <3>1, <3>2, <3>3 DEF Structure
  <2>3. \A m \in s : m \in built \/ runs[m] = 1 \/ m \in DataOnly
    <3> SUFFICES ASSUME NEW m \in s, m \notin DataOnly, m \notin built PROVE runs[m] = 1
      OBVIOUS
    <3>1. m \in Migrations /\ runs[m] > 0
      BY <2>1, <1>3, MatchIsThere DEF Structure, MigrateInv
    <3>2. runs[m] \in Nat /\ runs[m] <= 1
      BY <3>1 DEF MigrateInv, MigrateTypeOK, DatabaseInv, LedgerIsTrue, AppliedOnce
    <3> QED BY <3>1, <3>2
  <2>4. AdoptionFits(i)'
    BY <1>1, <2>1, <2>2, <2>3 DEF AdoptionFits
  <2>5. LockFits(i)' /\ ForeignKeysFit(i)' /\ ApplyFits(i)' /\ RefusalFits(i)'
    BY <1>1, <2>1 DEF MigrateInv, InstanceFits, LockFits, ForeignKeysFit, ApplyFits,
        RefusalFits, InTransaction, BeforeLoop
  <2>6. InstanceFits(i)'
    BY <2>4, <2>5 DEF InstanceFits
  <2> QED BY <1>1, <1>4, <1>5, <2>6, QuietStep
<1> QED BY <1>6, <1>7

LEMMA StampBeginKeeps ==
    ASSUME MigrateInv, NEW i \in Instances, StampBegin(i) PROVE MigrateInv'
<1> USE DEF StampBegin, Goes, databaseVars
<1>1. MigrateTypeOK'
  BY NumbersFit DEF MigrateInv, MigrateTypeOK, InTransaction
<1>2. Aside(i)
  BY MigrateAssumption DEF MigrateInv, MigrateTypeOK, Aside
<1>3. at[i] = "stamp" /\ at'[i] = "stamping" /\ lock' = i
  BY DEF MigrateInv, MigrateTypeOK
<1>4. InstanceFits(i)'
  BY <1>3 DEF MigrateInv, InstanceFits, LockFits, ForeignKeysFit, ApplyFits, AdoptionFits,
              RefusalFits, InTransaction, BeforeLoop
<1> QED BY <1>1, <1>2, <1>4, QuietStep

LEMMA RereadKeeps ==
    ASSUME MigrateInv, NEW i \in Instances, Reread(i) PROVE MigrateInv'
<1> USE DEF Reread, Goes, databaseVars, connectionVars
<1>1. MigrateTypeOK'
  BY NumbersFit DEF MigrateInv, MigrateTypeOK, BeforeLoop
<1>2. Aside(i)
  BY DEF MigrateInv, MigrateTypeOK, Aside
<1>3. at[i] = "reread" /\ at'[i] = "next" /\ seen'[i] = ledger
  BY DEF MigrateInv, MigrateTypeOK
<1>4. InstanceFits(i)'
  BY <1>3 DEF MigrateInv, InstanceFits, LockFits, ForeignKeysFit, ApplyFits, AdoptionFits,
              RefusalFits, InTransaction, BeforeLoop
<1> QED BY <1>1, <1>2, <1>4, QuietStep
\* The numbers before the next one.
LEMMA StepUp ==
    ASSUME NEW S, NEW n \in 1..(N + 1), 1..(n - 1) \subseteq S, n \in S, N \in Nat
    PROVE 1..n \subseteq S /\ 1..((n + 1) - 1) \subseteq S
OBVIOUS

LEMMA SkipKeeps ==
    ASSUME MigrateInv, NEW i \in Instances, Skip(i) PROVE MigrateInv'
<1> USE DEF databaseVars, connectionVars
<1>1. /\ at[i] = "next" /\ next[i] \in seen[i] /\ next' = [next EXCEPT ![i] = @ + 1]
      /\ UNCHANGED <<built, runs, ledger, at, seen, stamp, outcome, lock, fk, evicted, crossed, faults>>
  BY DEF Skip
<1>2. next[i] \in 1..(N + 1) /\ next[i] \in Migrations /\ next[i] \in ledger
      /\ 1..(next[i] - 1) \subseteq ledger
  BY <1>1 DEF MigrateInv, MigrateTypeOK, InstanceFits, ApplyFits
<1>3. next[i] + 1 \in 1..(N + 1) /\ 1..((next[i] + 1) - 1) \subseteq ledger
  BY <1>2, NumbersFit, StepUp
<1>4. next' \in [Instances -> 1..(N + 1)] /\ next'[i] = next[i] + 1
  BY <1>1, <1>3 DEF MigrateInv, MigrateTypeOK
<1>5. MigrateTypeOK'
  BY <1>1, <1>4 DEF MigrateInv, MigrateTypeOK
<1>6. Aside(i)
  BY <1>1 DEF MigrateInv, MigrateTypeOK, Aside
<1>7. InstanceFits(i)'
  BY <1>1, <1>3, <1>4 DEF MigrateInv, InstanceFits, LockFits, ForeignKeysFit, ApplyFits, AdoptionFits,
              RefusalFits, InTransaction, BeforeLoop
<1> QED BY <1>1, <1>5, <1>6, <1>7, QuietStep

LEMMA FinishKeeps ==
    ASSUME MigrateInv, NEW i \in Instances, Finish(i) PROVE MigrateInv'
<1> USE DEF Finish, Goes, databaseVars, connectionVars
<1>1. MigrateTypeOK'
  BY NumbersFit DEF MigrateInv, MigrateTypeOK
<1>2. Aside(i)
  BY DEF MigrateInv, MigrateTypeOK, Aside
<1>3. at[i] = "next" /\ at'[i] = "up" /\ next[i] = N + 1
  BY DEF MigrateInv, MigrateTypeOK
<1>4. ledger = Migrations
  <2>1. 1..(next[i] - 1) \subseteq ledger /\ ledger \subseteq Migrations
    BY <1>3 DEF MigrateInv, MigrateTypeOK, InstanceFits, ApplyFits
  <2>2. next[i] - 1 = N
    BY <1>3, NumbersFit
  <2> QED BY <2>1, <2>2, NumbersFit
<1>5. InstanceFits(i)'
  BY <1>3, <1>4 DEF MigrateInv, InstanceFits, LockFits, ForeignKeysFit, ApplyFits, AdoptionFits,
              RefusalFits, InTransaction, BeforeLoop
<1> QED BY <1>1, <1>2, <1>5, QuietStep

LEMMA EnterKeeps ==
    ASSUME MigrateInv, NEW i \in Instances, Enter(i) PROVE MigrateInv'
<1> USE DEF Enter, Goes, databaseVars, Pending
<1>1. MigrateTypeOK'
  BY NumbersFit DEF MigrateInv, MigrateTypeOK, BeforeLoop, InTransaction
<1>2. Aside(i)
  BY MigrateAssumption DEF MigrateInv, MigrateTypeOK, Aside
<1>3. at[i] = "next" /\ at'[i] = "begin" /\ next[i] \in Migrations
  BY DEF MigrateInv, MigrateTypeOK
<1>4. InstanceFits(i)'
  BY <1>3 DEF MigrateInv, InstanceFits, LockFits, ForeignKeysFit, ApplyFits, AdoptionFits,
              RefusalFits, InTransaction, BeforeLoop
<1> QED BY <1>1, <1>2, <1>4, QuietStep

LEMMA DeadKeeps ==
    ASSUME MigrateInv, NEW i \in Instances, Dead(i) PROVE MigrateInv'
<1> USE DEF Dead, Goes, databaseVars, connectionVars
<1>1. MigrateTypeOK'
  BY NumbersFit DEF MigrateInv, MigrateTypeOK, BeforeLoop, InTransaction
<1>2. Aside(i)
  BY MigrateAssumption DEF MigrateInv, MigrateTypeOK, Aside
<1>3. at[i] = "next" /\ at'[i] = "failed" /\ i \in evicted
  BY DEF MigrateInv, MigrateTypeOK
<1>4. InstanceFits(i)'
  BY <1>3 DEF MigrateInv, InstanceFits, LockFits, ForeignKeysFit, ApplyFits, AdoptionFits,
              RefusalFits, InTransaction, BeforeLoop
<1> QED BY <1>1, <1>2, <1>4, QuietStep

LEMMA BeginKeeps ==
    ASSUME MigrateInv, NEW i \in Instances, Begin(i) PROVE MigrateInv'
<1> USE DEF Begin, Goes, databaseVars
<1>1. MigrateTypeOK'
  BY NumbersFit DEF MigrateInv, MigrateTypeOK, BeforeLoop, InTransaction
<1>2. Aside(i)
  BY MigrateAssumption DEF MigrateInv, MigrateTypeOK, Aside
<1>3. at[i] = "begin" /\ at'[i] = "check" /\ lock' = i
  BY DEF MigrateInv, MigrateTypeOK
<1>4. InstanceFits(i)'
  BY <1>3 DEF MigrateInv, InstanceFits, LockFits, ForeignKeysFit, ApplyFits, AdoptionFits,
              RefusalFits, InTransaction, BeforeLoop
<1> QED BY <1>1, <1>2, <1>4, QuietStep

LEMMA RecheckKeeps ==
    ASSUME MigrateInv, NEW i \in Instances, Recheck(i) PROVE MigrateInv'
<1> USE DEF Recheck, Goes, databaseVars, connectionVars
<1>1. MigrateTypeOK'
  BY NumbersFit DEF MigrateInv, MigrateTypeOK, InTransaction
<1>2. Aside(i)
  BY DEF MigrateInv, MigrateTypeOK, Aside
<1>3. /\ at[i] = "check" /\ outcome'[i] = "went" /\ next[i] \in 1..(N + 1)
      /\ (at'[i] = "undo" /\ next[i] \in ledger) \/ (at'[i] = "body" /\ next[i] \notin ledger)
  BY DEF MigrateInv, MigrateTypeOK
<1>4. at'[i] = "undo" => 1..next[i] \subseteq ledger
  BY <1>3, NumbersFit, StepUp DEF MigrateInv, InstanceFits, ApplyFits
<1>5. InstanceFits(i)'
  BY <1>3, <1>4 DEF MigrateInv, InstanceFits, LockFits, ForeignKeysFit, ApplyFits, AdoptionFits,
              RefusalFits, InTransaction, BeforeLoop
<1> QED BY <1>1, <1>2, <1>5, QuietStep

LEMMA RunBodyKeeps ==
    ASSUME MigrateInv, NEW i \in Instances, RunBody(i) PROVE MigrateInv'
<1> USE DEF RunBody, Goes, databaseVars, connectionVars
<1>1. MigrateTypeOK'
  BY NumbersFit DEF MigrateInv, MigrateTypeOK, InTransaction
<1>2. Aside(i)
  BY DEF MigrateInv, MigrateTypeOK, Aside
<1>3. at[i] = "body" /\
      \/ at'[i] = "undo" /\ outcome'[i] = "error"
      \/ at'[i] = "commit" /\ outcome'[i] = "went" /\ next[i] \notin Structure
  BY DEF MigrateInv, MigrateTypeOK
<1>4. Structure' = Structure
  BY DEF Structure
<1>5. InstanceFits(i)'
  BY <1>3, <1>4 DEF MigrateInv, InstanceFits, LockFits, ForeignKeysFit, ApplyFits, AdoptionFits,
              RefusalFits, InTransaction, BeforeLoop
<1> QED BY <1>1, <1>2, <1>5, QuietStep

\* What Undo and UndoFails have in common.
LEMMA UndoneFits ==
    ASSUME MigrateInv, NEW i \in Instances, at[i] = "undo", Ends(i, outcome[i]),
           UNCHANGED <<built, runs, ledger, seen, stamp, outcome, fk, crossed>>,
           lock' = None, evicted' = evicted \/ evicted' = evicted \cup {i},
           faults' \in 0..MaxFaults
    PROVE MigrateInv'
<1>1. outcome[i] \in {"went", "error"}
  BY DEF MigrateInv, MigrateTypeOK
<1>2. outcome[i] = "went" => next[i] \in Migrations /\ 1..next[i] \subseteq ledger
  BY DEF MigrateInv, InstanceFits, ApplyFits
<1>3. /\ at' = [at EXCEPT ![i] = at'[i]] /\ next' = [next EXCEPT ![i] = next'[i]]
      /\ at' \in [Instances -> Places] /\ next' \in [Instances -> 1..(N + 1)]
      /\ \/ fk[i] /\ outcome[i] = "went" /\ at'[i] = "next" /\ next'[i] = next[i] + 1
         \/ fk[i] /\ outcome[i] = "error" /\ at'[i] = "failed" /\ next'[i] = next[i]
         \/ ~fk[i] /\ at'[i] = "restore" /\ next'[i] = next[i]
  BY <1>1, <1>2, EndsFits
<1>4. MigrateTypeOK'
  BY <1>3 DEF MigrateInv, MigrateTypeOK
<1>5. lock = i
  BY DEF MigrateInv, InstanceFits, LockFits, InTransaction
<1>6. Aside(i)
  BY <1>3, <1>5, MigrateAssumption DEF MigrateInv, MigrateTypeOK, Aside
<1>7. \A n \in Nat : (n + 1) - 1 = n
  OBVIOUS
<1>8. outcome[i] = "went" => 1..((next[i] + 1) - 1) \subseteq ledger
  BY <1>2, <1>7, NumbersFit
<1>9. InstanceFits(i)'
  <2>1. LockFits(i)'
    BY <1>3, MigrateAssumption DEF LockFits, InTransaction
  <2>2. ForeignKeysFit(i)'
    BY <1>3 DEF ForeignKeysFit
  <2>3. ApplyFits(i)'
    BY <1>2, <1>3, <1>8 DEF MigrateInv, InstanceFits, ApplyFits, BeforeLoop
  <2>4. AdoptionFits(i)' /\ RefusalFits(i)'
    BY <1>3 DEF AdoptionFits, RefusalFits
  <2> QED BY <2>1, <2>2, <2>3, <2>4 DEF InstanceFits
<1> QED BY <1>4, <1>6, <1>9, QuietStep

LEMMA UndoKeeps ==
    ASSUME MigrateInv, NEW i \in Instances, Undo(i) \/ UndoFails(i) PROVE MigrateInv'
<1>1. faults' \in 0..MaxFaults
  BY NumbersFit DEF Undo, UndoFails, Blame, MigrateInv, MigrateTypeOK
<1> QED BY <1>1, UndoneFits DEF Undo, UndoFails, databaseVars

LEMMA RestoreKeeps ==
    ASSUME MigrateInv, NEW i \in Instances, Restore(i) \/ RestoreFails(i) PROVE MigrateInv'
<1>1. /\ at[i] = "restore" /\ Concludes(i, outcome[i])
      /\ UNCHANGED <<built, runs, ledger, seen, stamp, outcome, lock, crossed>>
  BY DEF Restore, RestoreFails, databaseVars
<1>2. /\ faults' \in 0..MaxFaults /\ outcome[i] \in {"went", "error"}
      /\ at \in [Instances -> Places] /\ next \in [Instances -> 1..(N + 1)]
  BY NumbersFit DEF Restore, RestoreFails, Blame, MigrateInv, MigrateTypeOK
<1>3. lock # i
  BY <1>1 DEF MigrateInv, InstanceFits, LockFits, InTransaction
<1>4. /\ fk' \in [Instances -> BOOLEAN] /\ evicted' \subseteq Instances
      /\ fk'[i] \/ i \in evicted'
      /\ \A j \in Instances \ {i} : fk'[j] = fk[j] /\ (j \in evicted' <=> j \in evicted)
  BY <1>3 DEF Restore, RestoreFails, MigrateInv, MigrateTypeOK
<1>5. outcome[i] = "went" => /\ next[i] \in Migrations /\ 1..next[i] \subseteq ledger
                            /\ next[i] + 1 \in 1..(N + 1) /\ (next[i] + 1) - 1 = next[i]
  BY <1>1, NumbersFit DEF MigrateInv, InstanceFits, ApplyFits
<1>6. /\ at'[i] = (IF outcome[i] = "went" THEN "next" ELSE "failed")
      /\ next'[i] = (IF outcome[i] = "went" THEN next[i] + 1 ELSE next[i])
      /\ at' \in [Instances -> Places] /\ next' \in [Instances -> 1..(N + 1)]
      /\ \A j \in Instances \ {i} : at'[j] = at[j] /\ next'[j] = next[j]
  BY <1>1, <1>2, <1>5, NumbersFit DEF Concludes
<1>7. MigrateTypeOK'
  BY <1>1, <1>2, <1>4, <1>6 DEF MigrateInv, MigrateTypeOK
<1>8. Aside(i)
  BY <1>1, <1>4, <1>6 DEF Aside
<1>9. InstanceFits(i)'
  <2>1. LockFits(i)'
    BY <1>1, <1>2, <1>3, <1>6 DEF LockFits, InTransaction
  <2>2. ForeignKeysFit(i)'
    BY <1>4 DEF ForeignKeysFit
  <2>3. ApplyFits(i)'
    BY <1>1, <1>5, <1>6 DEF MigrateInv, InstanceFits, ApplyFits, BeforeLoop
  <2>4. AdoptionFits(i)' /\ RefusalFits(i)'
    BY <1>6 DEF AdoptionFits, RefusalFits
  <2> QED BY <2>1, <2>2, <2>3, <2>4 DEF InstanceFits
<1> QED BY <1>1, <1>7, <1>8, <1>9, QuietStep

LEMMA FailsKeeps ==
    ASSUME MigrateInv, NEW i \in Instances, Fails(i) PROVE MigrateInv'
<1>1. /\ at[i] \in {"ledger", "empty", "compare", "stamp", "reread", "next", "begin"}
      /\ outcome' = [outcome EXCEPT ![i] = "error"] /\ Ends(i, "error")
      /\ UNCHANGED <<built, runs, ledger, seen, stamp, lock, fk, evicted, crossed>>
  BY DEF Fails, databaseVars, connectionVars
<1>2. faults' \in 0..MaxFaults
  BY NumbersFit DEF Fails, Blame, MigrateInv, MigrateTypeOK
<1>3. /\ at' = [at EXCEPT ![i] = at'[i]] /\ next' = [next EXCEPT ![i] = next'[i]]
      /\ at' \in [Instances -> Places] /\ next' \in [Instances -> 1..(N + 1)]
      /\ (fk[i] /\ at'[i] = "failed") \/ (~fk[i] /\ at'[i] = "restore")
  BY <1>1, EndsFits
<1>4. MigrateTypeOK'
  BY <1>1, <1>2, <1>3 DEF MigrateInv, MigrateTypeOK
<1>5. Aside(i)
  BY <1>1, <1>3 DEF MigrateInv, MigrateTypeOK, Aside
<1>6. outcome'[i] = "error"
  BY <1>1 DEF MigrateInv, MigrateTypeOK
<1>7. InstanceFits(i)'
  BY <1>1, <1>3, <1>6 DEF MigrateInv, InstanceFits, LockFits, ForeignKeysFit, ApplyFits, AdoptionFits,
              RefusalFits, InTransaction, BeforeLoop
<1> QED BY <1>1, <1>4, <1>5, <1>7, QuietStep

LEMMA FailsInsideKeeps ==
    ASSUME MigrateInv, NEW i \in Instances, FailsInside(i) PROVE MigrateInv'
<1> USE DEF FailsInside, Blame, databaseVars, connectionVars
<1>1. MigrateTypeOK'
  BY NumbersFit DEF MigrateInv, MigrateTypeOK, InTransaction
<1>2. Aside(i)
  BY DEF MigrateInv, MigrateTypeOK, Aside
<1>3. at[i] \in InTransaction /\ at'[i] = "undo" /\ outcome'[i] = "error"
  BY DEF MigrateInv, MigrateTypeOK
<1>4. InstanceFits(i)'
  BY <1>3 DEF MigrateInv, InstanceFits, LockFits, ForeignKeysFit, ApplyFits, AdoptionFits,
              RefusalFits, InTransaction, BeforeLoop
<1> QED BY <1>1, <1>2, <1>4, QuietStep

LEMMA KillKeeps ==
    ASSUME MigrateInv, NEW i \in Instances, Kill(i) PROVE MigrateInv'
<1> USE DEF Kill, Blame, databaseVars
<1>1. MigrateTypeOK'
  <2>1. at' \in [Instances -> Places] /\ faults' \in 0..MaxFaults /\ lock' \in Instances \cup {None}
    BY NumbersFit DEF MigrateInv, MigrateTypeOK
  <2> QED BY <2>1 DEF MigrateInv, MigrateTypeOK
<1>2. Aside(i)
  BY MigrateAssumption DEF MigrateInv, MigrateTypeOK, Aside
<1>3. at'[i] = "down" /\ lock' # i
  BY MigrateAssumption DEF MigrateInv, MigrateTypeOK
<1>4. InstanceFits(i)'
  BY <1>3 DEF MigrateInv, InstanceFits, LockFits, ForeignKeysFit, ApplyFits, AdoptionFits,
              RefusalFits, InTransaction, BeforeLoop
<1> QED BY <1>1, <1>2, <1>4, QuietStep

\* What another instance has when this one, with the lock, adds rows.
LEMMA OthersSeeMore ==
    ASSUME MigrateInv, NEW i \in Instances, NEW j \in Instances \ {i}, at[i] \in InTransaction,
           lock' = None, Aside(i), UNCHANGED <<built, crossed>>,
           ledger \subseteq ledger', ledger' \subseteq Migrations, Structure \subseteq Structure',
           \A m \in Migrations : runs[m] = 1 => runs'[m] = 1
    PROVE InstanceFits(j)'
<1>1. InstanceFits(j) /\ InstanceFits(i)
  BY DEF MigrateInv
<1>2. lock = i
  BY <1>1 DEF InstanceFits, LockFits
<1>3. at[j] \notin InTransaction /\ at'[j] = at[j]
  BY <1>1, <1>2 DEF InstanceFits, LockFits, Aside
<1> USE <1>1, <1>3 DEF Aside, InstanceFits
<1>4. LockFits(j)'
  BY MigrateAssumption DEF LockFits
<1>5. ForeignKeysFit(j)'
  BY DEF ForeignKeysFit
<1>6. ApplyFits(j)'
  BY DEF ApplyFits, InTransaction
<1>7. AdoptionFits(j)'
  BY DEF AdoptionFits, MigrateInv, MigrateTypeOK
<1>8. RefusalFits(j)'
  BY DEF RefusalFits, Foreign
<1> QED BY <1>4, <1>5, <1>6, <1>7, <1>8

LEMMA StampKeeps ==
    ASSUME MigrateInv, NEW i \in Instances, Stamp(i) PROVE MigrateInv'
<1>1. /\ at[i] = "stamping"
      /\ at' = [at EXCEPT ![i] = IF stamp[i] = Migrations THEN "up" ELSE "reread"]
      /\ ledger' = ledger \cup stamp[i] /\ lock' = None
      /\ UNCHANGED <<built, runs, next, seen, stamp, outcome, fk, evicted, crossed, faults>>
  BY DEF Stamp, Goes
<1>2. ledger' \subseteq Migrations /\ stamp[i] \subseteq Migrations
  BY <1>1 DEF MigrateInv, MigrateTypeOK
<1>3. MigrateTypeOK'
  BY <1>1, <1>2, NumbersFit DEF MigrateInv, MigrateTypeOK, BeforeLoop
<1>4. Structure' = Structure
  BY <1>1 DEF Structure
<1>5. lock = i
  BY <1>1 DEF MigrateInv, InstanceFits, LockFits, InTransaction
<1>6. Aside(i)
  BY <1>1, <1>5, MigrateAssumption DEF MigrateInv, MigrateTypeOK, Aside
<1>7. DatabaseInv'
  <2>1. \A m \in stamp[i] :
          m \in built \/ runs[m] = 1 \/ (m \in DataOnly /\ (built # {} \/ crossed))
    BY <1>1 DEF MigrateInv, InstanceFits, AdoptionFits
  <2> QED BY <1>1, <2>1 DEF MigrateInv, DatabaseInv, LedgerIsTrue, AppliedOnce, RecordedIsDone
<1>8. InstanceFits(i)'
  <2>1. \/ at'[i] = "up" /\ stamp[i] = Migrations
        \/ at'[i] = "reread"
    BY <1>1 DEF MigrateInv, MigrateTypeOK
  <2>2. LockFits(i)'
    BY <1>1, <2>1, MigrateAssumption DEF LockFits, InTransaction
  <2>3. ForeignKeysFit(i)'
    BY <1>1, <2>1 DEF MigrateInv, InstanceFits, ForeignKeysFit
  <2>4. ApplyFits(i)'
    BY <1>1, <1>2, <2>1 DEF MigrateInv, InstanceFits, ApplyFits, BeforeLoop
  <2>5. AdoptionFits(i)' /\ RefusalFits(i)'
    BY <2>1 DEF AdoptionFits, RefusalFits
  <2> QED BY <2>2, <2>3, <2>4, <2>5 DEF InstanceFits
<1>9. \A j \in Instances \ {i} : InstanceFits(j)'
  BY <1>1, <1>2, <1>4, <1>6, OthersSeeMore DEF InTransaction
<1> QED BY <1>3, <1>7, <1>8, <1>9 DEF MigrateInv

\* What Commit does, in the terms of Upgrade.
LEMMA CommitIsFirst ==
    ASSUME MigrateInv, NEW i \in Instances, Commit(i)
    PROVE /\ next[i] \in Migrations /\ next[i] \notin ledger /\ 1..(next[i] - 1) \subseteq ledger
          /\ runs[next[i]] = 0 /\ next[i] \notin built
          /\ runs' = [runs EXCEPT ![next[i]] = 1]
          /\ ledger' = ledger \cup {next[i]}
<1>1. at[i] = "commit" /\ runs' = [runs EXCEPT ![next[i]] = @ + 1] /\ ledger' = ledger \cup {next[i]}
  BY DEF Commit
<1>2. /\ next[i] \in Migrations /\ next[i] \notin ledger /\ next[i] \notin Structure
      /\ 1..(next[i] - 1) \subseteq ledger
  BY <1>1 DEF MigrateInv, InstanceFits, ApplyFits
<1>3. runs[next[i]] = 0
  BY <1>2 DEF MigrateInv, MigrateTypeOK, DatabaseInv
<1>4. runs' = [runs EXCEPT ![next[i]] = 1]
  BY <1>1, <1>3
<1> QED BY <1>1, <1>2, <1>3, <1>4 DEF Structure

LEMMA CommitKeeps ==
    ASSUME MigrateInv, NEW i \in Instances, Commit(i) PROVE MigrateInv'
<1> DEFINE n == next[i]
<1>1. /\ at[i] = "commit" /\ lock' = None /\ Ends(i, "went")
      /\ UNCHANGED <<built, seen, stamp, outcome, fk, evicted, crossed, faults>>
  BY DEF Commit
<1>2. /\ n \in Migrations /\ n \notin ledger /\ 1..(n - 1) \subseteq ledger
      /\ runs[n] = 0 /\ n \notin built
      /\ runs' = [runs EXCEPT ![n] = 1] /\ ledger' = ledger \cup {n}
  BY CommitIsFirst
<1>3. /\ at' = [at EXCEPT ![i] = at'[i]] /\ next' = [next EXCEPT ![i] = next'[i]]
      /\ at' \in [Instances -> Places] /\ next' \in [Instances -> 1..(N + 1)]
      /\ \/ fk[i] /\ at'[i] = "next" /\ next'[i] = n + 1
         \/ ~fk[i] /\ at'[i] = "restore" /\ next'[i] = n
  BY <1>1, <1>2, EndsFits
<1>4. /\ ledger' \subseteq Migrations /\ runs' \in [Migrations -> Nat]
      /\ \A m \in Migrations : runs'[m] = IF m = n THEN 1 ELSE runs[m]
  BY <1>2 DEF MigrateInv, MigrateTypeOK
<1>5. MigrateTypeOK'
  BY <1>1, <1>3, <1>4 DEF MigrateInv, MigrateTypeOK
<1>6. lock = i
  BY <1>1 DEF MigrateInv, InstanceFits, LockFits, InTransaction
<1>7. Aside(i)
  BY <1>1, <1>3, <1>6, MigrateAssumption DEF MigrateInv, MigrateTypeOK, Aside
<1>8. DatabaseInv'
  <2>1. \A m \in Migrations : runs'[m] > 0 => m \in ledger'
    BY <1>2, <1>4 DEF MigrateInv, DatabaseInv
  <2>2. AppliedOnce'
    BY <1>1, <1>2, <1>4 DEF MigrateInv, DatabaseInv, LedgerIsTrue, AppliedOnce
  <2>3. RecordedIsDone'
    BY <1>1, <1>2, <1>4 DEF MigrateInv, MigrateTypeOK, DatabaseInv, LedgerIsTrue, RecordedIsDone
  <2> QED BY <2>1, <2>2, <2>3 DEF DatabaseInv, LedgerIsTrue
<1>9. InstanceFits(i)'
  <2>1. LockFits(i)'
    BY <1>1, <1>3, MigrateAssumption DEF LockFits, InTransaction
  <2>2. ForeignKeysFit(i)'
    BY <1>1, <1>3 DEF ForeignKeysFit
  <2>3. n \in 1..(N + 1) /\ n \in ledger' /\ 1..(n - 1) \subseteq ledger' /\ N \in Nat
    BY <1>2, NumbersFit DEF MigrateInv, MigrateTypeOK
  <2>4. 1..n \subseteq ledger' /\ 1..((n + 1) - 1) \subseteq ledger'
    <3> HIDE DEF n
    <3> QED BY <2>3, StepUp
  <2>5. ApplyFits(i)'
    BY <1>1, <1>2, <1>3, <2>4 DEF MigrateInv, InstanceFits, ApplyFits, BeforeLoop
  <2>6. AdoptionFits(i)' /\ RefusalFits(i)'
    BY <1>3 DEF AdoptionFits, RefusalFits
  <2> QED BY <2>1, <2>2, <2>5, <2>6 DEF InstanceFits
<1>10. \A j \in Instances \ {i} : InstanceFits(j)'
  <2>1. Structure \subseteq Structure'
    BY <1>1, <1>4 DEF Structure, Schema
  <2>2. \A m \in Migrations : runs[m] = 1 => runs'[m] = 1
    BY <1>4
  <2>3. at[i] \in InTransaction /\ ledger \subseteq ledger'
    BY <1>1, <1>2 DEF InTransaction
  <2> QED BY <1>1, <1>4, <1>7, <2>1, <2>2, <2>3, OthersSeeMore
<1> QED BY <1>5, <1>8, <1>9, <1>10 DEF MigrateInv

LEMMA MigrateStep ==
    ASSUME MigrateInv, [MigrateNext]_migrateVars PROVE MigrateInv'
<1>1. CASE UNCHANGED migrateVars
  <2> USE <1>1 DEF migrateVars, databaseVars, applyVars, connectionVars
  <2>1. MigrateTypeOK'
    BY DEF MigrateInv, MigrateTypeOK
  <2>2. DatabaseInv'
    BY DEF MigrateInv, DatabaseInv, LedgerIsTrue, AppliedOnce, RecordedIsDone
  <2>3. ASSUME NEW i \in Instances PROVE InstanceFits(i)'
    <3>1. InstanceFits(i)
      BY DEF MigrateInv
    <3> QED BY <3>1 DEF InstanceFits, LockFits, ForeignKeysFit, ApplyFits, AdoptionFits,
                        RefusalFits, Structure, Foreign
  <2> QED BY <2>1, <2>2, <2>3 DEF MigrateInv
<1>2. CASE MigrateNext
  <2>1. PICK i \in Instances :
          Works(i) \/ UndoFails(i) \/ RestoreFails(i) \/ Fails(i) \/ FailsInside(i) \/ Kill(i)
    BY <1>2 DEF MigrateNext
  <2>2. CASE Works(i)
    BY <2>2, BootKeeps, ReadLedgerKeeps, IsEmptyKeeps, CompareKeeps, StampBeginKeeps, StampKeeps,
       RereadKeeps, SkipKeeps, FinishKeeps, EnterKeeps, DeadKeeps, BeginKeeps, RecheckKeeps,
       RunBodyKeeps, CommitKeeps, UndoKeeps, RestoreKeeps, Zenon DEF Works
  <2> QED BY <2>1, <2>2, UndoKeeps, RestoreKeeps, FailsKeeps, FailsInsideKeeps, KillKeeps
<1> QED BY <1>1, <1>2

\* What Apply keeps, for any set of migrations and any number of instances.
THEOREM MigrateInvariant == MigrateSpec => []MigrateInv
<1>1. MigrateInit => MigrateInv
  BY MigrateStarts
<1>2. MigrateInv /\ [MigrateNext]_migrateVars => MigrateInv'
  BY MigrateStep
<1> QED BY <1>1, <1>2, PTL DEF MigrateSpec

\* Apply's variables keep their types.
THEOREM MigrateTypeCorrect == MigrateSpec => []MigrateTypeOK
<1>1. MigrateInv => MigrateTypeOK
  BY DEF MigrateInv
<1> QED BY <1>1, MigrateInvariant, PTL

\* A migration's effect is there once at most, and what the ledger has is
\* there, however instances race and die (runOne's transaction and re-check,
\* adopt's stamp).
THEOREM LedgerTells == MigrateSpec => []LedgerIsTrue
<1>1. MigrateInv => LedgerIsTrue
  BY DEF MigrateInv, DatabaseInv
<1> QED BY <1>1, MigrateInvariant, PTL

\* Apply gives its connection back with foreign keys on and no transaction
\* open, or discards it (finishTx, withForeignKeysOff, evict).
THEOREM ReturnsClean == MigrateSpec => []CleanReturn
<1>1. MigrateInv => CleanReturn
  BY DEF MigrateInv, InstanceFits, LockFits, ForeignKeysFit, InTransaction, CleanReturn
<1> QED BY <1>1, MigrateInvariant, PTL

\* Apply refuses a database only if no set matches it, or if somebody has
\* begun to build it (adopt's comparison).
THEOREM RefusesJustly == MigrateSpec => []RefusalIsJust
<1>1. MigrateInv => RefusalIsJust
  BY DEF MigrateInv, InstanceFits, RefusalFits, RefusalIsJust
<1> QED BY <1>1, MigrateInvariant, PTL

\* An app whose Apply has returned has every migration recorded.
UpToDate == \A i \in Instances : at[i] = "up" => ledger = Migrations

THEOREM UpMeansApplied == MigrateSpec => []UpToDate
<1>1. MigrateInv => UpToDate
  BY DEF MigrateInv, InstanceFits, ApplyFits, UpToDate
<1> QED BY <1>1, MigrateInvariant, PTL

\* Apply implements Upgrade: a migration runs once all before it are
\* recorded, in the step that records it.
THEOREM MigratesInOrder == MigrateSpec => RunsInOrder
<1>1. MigrateInit => Ordered!UpgradeInit
  BY DEF MigrateInit, Ordered!UpgradeInit, Migrations
<1>2. MigrateInv /\ [MigrateNext]_migrateVars =>
        [Ordered!Adopt \/ \E m \in 1..N : Ordered!Run(m)]_<<ledger, runs>>
  <2> SUFFICES ASSUME MigrateInv, [MigrateNext]_migrateVars
               PROVE [Ordered!Adopt \/ \E m \in 1..N : Ordered!Run(m)]_<<ledger, runs>>
    OBVIOUS
  <2>1. \/ UNCHANGED <<ledger, runs>>
        \/ \E i \in Instances : Stamp(i) \/ Commit(i)
    <3>1. CASE UNCHANGED migrateVars
      BY <3>1 DEF migrateVars, databaseVars
    <3>2. CASE MigrateNext
      <4>1. PICK i \in Instances :
              Works(i) \/ UndoFails(i) \/ RestoreFails(i) \/ Fails(i) \/ FailsInside(i) \/ Kill(i)
        BY <3>2 DEF MigrateNext
      <4>2. CASE Works(i) /\ ~Stamp(i) /\ ~Commit(i)
        BY <4>2, Zenon DEF Works, Boot, ReadLedger, IsEmpty, Compare, StampBegin, Reread, Skip,
           Finish, Enter, Dead, Begin, Recheck, RunBody, Undo, Restore, databaseVars
      <4>3. CASE ~Works(i)
        BY <4>1, <4>3, Zenon DEF UndoFails, RestoreFails, Fails, FailsInside, Kill, databaseVars
      <4> QED BY <4>2, <4>3
    <3> QED BY <3>1, <3>2
  <2>2. ASSUME NEW i \in Instances, Stamp(i) PROVE Ordered!Adopt
    BY <2>2 DEF Stamp, Ordered!Adopt, MigrateInv, MigrateTypeOK, Migrations
  <2>3. ASSUME NEW i \in Instances, Commit(i) PROVE \E m \in 1..N : Ordered!Run(m)
    <3>1. next[i] \in 1..N
      BY <2>3, CommitIsFirst DEF Migrations
    <3>2. Ordered!Run(next[i])
      BY <2>3, CommitIsFirst DEF Commit, Ordered!Run
    <3> QED BY <3>1, <3>2
  <2> QED BY <2>1, <2>2, <2>3
<1> QED BY <1>1, <1>2, MigrateInvariant, PTL DEF MigrateSpec, RunsInOrder, Ordered!UpgradeSpec

=============================================================================
