-------------------------- MODULE LiveStreamProofs --------------------------
(***************************************************************************)
(* LiveStream's type invariant, its wakes and its shutdown, for any sets   *)
(* of topics, clients and handlers and any bounds.                         *)
(***************************************************************************)
EXTENDS LiveStream, FiniteSetTheorems, SequenceTheorems, TLAPS

LEMMA StreamTypeInitial == StreamInit => StreamTypeOK
<1> SUFFICES ASSUME StreamInit
             PROVE  StreamTypeOK
  OBVIOUS
<1>1. CountersTypeOK
  BY DEF StreamInit, CountersInit, FreshHub, CountersTypeOK
<1>2. owner \in [Streams -> Clients]
  <2>1. (CHOOSE c \in Clients : TRUE) \in Clients
    BY StreamAssumption
  <2> QED BY <2>1 DEF StreamInit
<1>3. out \in [Streams -> Seq(Event)] /\ wire \in [Clients -> Seq(Event)]
  BY EmptySeq DEF StreamInit
<1>4. lastId \in [Clients -> [boot : Nat, v : Versions]]
  BY DEF StreamInit, NoId, Versions, Absent
<1>5. told \in [Clients -> Versions] /\ link \in [Clients -> {"down", "up", "eof"}]
  BY DEF StreamInit, Versions
<1>6. url \in [Clients -> [boot : Nat, v : [Topics -> Nat]]]
  BY DEF StreamInit
<1>7. /\ phase \in [Streams -> Phases]
      /\ linked \in [Streams -> BOOLEAN]
      /\ known \in [Streams -> [Topics -> Nat]]
      /\ stale \in [Streams -> [Topics -> BOOLEAN]]
      /\ wake \in [Streams -> BOOLEAN]
      /\ late \in [Streams -> 0..3]
  BY DEF StreamInit, Phases, NoneKnown, NoneStale
<1>8. closed \in BOOLEAN /\ cuts \in Nat
  BY DEF StreamInit
<1> QED
  BY <1>1, <1>2, <1>3, <1>4, <1>5, <1>6, <1>7, <1>8 DEF StreamTypeOK

\* An event ID built from typed counters and watches is typed.
LEMMA ChangeIdType ==
    ASSUME StreamTypeOK, NEW s \in Streams, NEW order, NEW i
    PROVE  ChangeId(s, order, i) \in [boot : Nat, v : Versions]
BY DEF StreamTypeOK, CountersTypeOK, ChangeId, Versions, Absent

\* What a return, a hangup and the count of a write leave in its type.
LEMMA ReturnType ==
    ASSUME StreamTypeOK, NEW s \in Streams, Return(s)
    PROVE  /\ phase' \in [Streams -> Phases]
           /\ known' \in [Streams -> [Topics -> Nat]]
           /\ stale' \in [Streams -> [Topics -> BOOLEAN]]
           /\ wake' \in [Streams -> BOOLEAN]
           /\ out' \in [Streams -> Seq(Event)]
<1>1. phase' \in [Streams -> Phases] /\ wake' \in [Streams -> BOOLEAN]
  BY DEF Return, StreamTypeOK, Phases
<1>2. known' \in [Streams -> [Topics -> Nat]] /\ stale' \in [Streams -> [Topics -> BOOLEAN]]
  BY DEF Return, StreamTypeOK, NoneKnown, NoneStale
<1>3. out' \in [Streams -> Seq(Event)]
  BY EmptySeq DEF Return, StreamTypeOK
<1> QED BY <1>1, <1>2, <1>3

LEMMA HangupType ==
    ASSUME StreamTypeOK, NEW s \in Streams, Hangup(s)
    PROVE  linked' \in [Streams -> BOOLEAN] /\ link' \in [Clients -> {"down", "up", "eof"}]
BY DEF Hangup, StreamTypeOK

LEMMA BrokenType ==
    ASSUME StreamTypeOK, NEW s \in Streams, Broken(s)
    PROVE  /\ linked' \in [Streams -> BOOLEAN] /\ link' \in [Clients -> {"down", "up", "eof"}]
           /\ cuts' \in Nat
BY HangupType DEF Broken, StreamTypeOK

LEMMA CountedType ==
    ASSUME StreamTypeOK, NEW s \in Streams, Counted(s)
    PROVE  late' \in [Streams -> 0..3]
BY DEF Counted, StreamTypeOK

\* So does a handler that returns with its connection as it was.
LEMMA LeaveType ==
    ASSUME StreamTypeOK, NEW s \in Streams, Leave(s)
    PROVE  StreamTypeOK'
<1>1. /\ Return(s)
      /\ UNCHANGED <<boot, seq, counter, changedAt, closed, owner, wire, url, lastId, told,
                     linked, link, late, cuts>>
  BY DEF Leave, Return, hubVars
<1> QED BY <1>1, ReturnType DEF StreamTypeOK, CountersTypeOK

\* What a page opens its next stream with, and what it was told by it: the
\* running process's versions, or none.
LEMMA ResubscribeDoes ==
    ASSUME StreamTypeOK, NEW c \in Clients, Resubscribe(c)
    PROVE  \E b, v, w : /\ url' = [url EXCEPT ![c] = [boot |-> b, v |-> v]]
                        /\ told' = [told EXCEPT ![c] = w]
                        /\ b \in {0, boot} /\ v \in [Topics -> Nat] /\ w \in Versions
                        /\ v = w \/ b = 0
<1>1. ASSUME NEW v \in [Topics -> 0..MaxSeq]
      PROVE  v \in [Topics -> Nat] /\ v \in Versions
  BY CountersAssumption DEF Versions
<1>2. NoneKnown \in [Topics -> Nat] /\ [t \in Topics |-> Absent] \in Versions
  BY DEF NoneKnown, Versions
<1> QED BY <1>1, <1>2, Zenon DEF Resubscribe

LEMMA StreamTypeStep == StreamTypeOK /\ [StreamNext]_streamVars => StreamTypeOK'
<1> SUFFICES ASSUME StreamTypeOK, [StreamNext]_streamVars
             PROVE  StreamTypeOK'
  OBVIOUS
<1> USE DEF Phases
<1>1. ASSUME NEW T \in SUBSET Topics, Notify(T)
      PROVE  StreamTypeOK'
  <2>1. CountersTypeOK'
    BY <1>1 DEF Notify, RaiseLocked, StreamTypeOK, CountersTypeOK
  <2>2. wake' \in [Streams -> BOOLEAN]
    BY <1>1 DEF Notify, WakeAll, StreamTypeOK
  <2>3. UNCHANGED <<closed, phase, owner, linked, known, stale, out, late, link, wire,
                    url, lastId, told, cuts>>
    BY <1>1 DEF Notify, clientVars
  <2> QED BY <2>1, <2>2, <2>3 DEF StreamTypeOK
<1>2. CASE Close
  BY <1>2 DEF Close, StreamTypeOK, CountersTypeOK, hubVars, handlerVars, clientVars
<1>3. CASE Restart
  <2>1. CountersTypeOK'
    BY <1>3 DEF Restart, NewProcess, StreamTypeOK, CountersTypeOK
  <2>7. cuts' \in Nat /\ closed' \in BOOLEAN
    BY <1>3 DEF Restart, StreamTypeOK
  <2>2. /\ phase' \in [Streams -> Phases]
        /\ linked' \in [Streams -> BOOLEAN]
        /\ known' \in [Streams -> [Topics -> Nat]]
        /\ stale' \in [Streams -> [Topics -> BOOLEAN]]
        /\ wake' \in [Streams -> BOOLEAN]
        /\ late' \in [Streams -> 0..3]
    BY <1>3 DEF Restart, NoneKnown, NoneStale
  <2>3. out' \in [Streams -> Seq(Event)]
    BY <1>3, EmptySeq DEF Restart
  <2>4. link' \in [Clients -> {"down", "up", "eof"}]
    BY <1>3 DEF Restart, StreamTypeOK
  <2>5. told' \in [Clients -> Versions]
    BY <1>3 DEF Restart, Versions
  <2>6. UNCHANGED <<owner, wire, url, lastId>>
    BY <1>3 DEF Restart
  <2> QED BY <2>1, <2>2, <2>3, <2>4, <2>5, <2>6, <2>7 DEF StreamTypeOK
<1>4. ASSUME NEW c \in Clients, NEW s \in Streams, Open(c, s)
      PROVE  StreamTypeOK'
  <2>1. [t \in Topics |-> IF Resumed(c, t) THEN lastId[c].v[t] ELSE url[c].v[t]]
          \in [Topics -> Nat]
    BY DEF Resumed, StreamTypeOK, Versions, Absent
  <2>2. known' \in [Streams -> [Topics -> Nat]]
    BY <1>4, <2>1 DEF Open, StreamTypeOK
  <2>3. stale' \in [Streams -> [Topics -> BOOLEAN]]
    BY <1>4 DEF Open, StreamTypeOK, Resumed
  <2> QED
    BY <1>4, <2>2, <2>3 DEF Open, StreamTypeOK, CountersTypeOK, hubVars
<1>5. ASSUME NEW s \in Streams, Take(s)
      PROVE  StreamTypeOK'
  BY <1>5 DEF Take, StreamTypeOK, CountersTypeOK, hubVars, clientVars
<1>6. ASSUME NEW s \in Streams, Compose(s)
      PROVE  StreamTypeOK'
  <2>1. UNCHANGED <<hubVars, closed, owner, linked, wake, late, clientVars, cuts>>
    BY <1>6 DEF Compose
  <2>2. CASE Moved(s) = {}
    BY <1>6, <2>1, <2>2 DEF Compose, StreamTypeOK, CountersTypeOK, hubVars, clientVars
  <2>3. CASE Moved(s) # {}
    <3>1. PICK order \in SetToSeqs(Moved(s)) :
            out' = [out EXCEPT ![s] =
                      [i \in DOMAIN order |->
                         [topic |-> order[i], v |-> counter[order[i]],
                          id |-> ChangeId(s, order, i)]]]
      BY <1>6, <2>3 DEF Compose
    <3>2. Cardinality(Moved(s)) \in Nat
      BY StreamAssumption, FS_Subset, FS_CardinalityType DEF Moved
    <3>3. order \in [1..Cardinality(Moved(s)) -> Topics]
      BY <3>1 DEF SetToSeqs, Moved
    <3>4. [i \in DOMAIN order |-> [topic |-> order[i], v |-> counter[order[i]],
                                   id |-> ChangeId(s, order, i)]]
            \in [1..Cardinality(Moved(s)) -> Event]
      BY <3>3, ChangeIdType DEF Event, StreamTypeOK, CountersTypeOK
    <3>5. out' \in [Streams -> Seq(Event)]
      <4> DEFINE new == [i \in DOMAIN order |->
                           [topic |-> order[i], v |-> counter[order[i]],
                            id |-> ChangeId(s, order, i)]]
      <4>1. new \in Seq(Event)
        BY <3>2, <3>4, SeqDef
      <4>2. out' = [out EXCEPT ![s] = new]
        BY <3>1
      <4> HIDE DEF new
      <4> QED BY <4>1, <4>2 DEF StreamTypeOK
    <3>8. /\ known' = [known EXCEPT ![s] =
                         [t \in Topics |-> IF t \in Moved(s) THEN counter[t] ELSE @[t]]]
          /\ stale' = [stale EXCEPT ![s] = [t \in Topics |-> FALSE]]
          /\ phase' = [phase EXCEPT ![s] = "composed"]
      BY <1>6, <2>3 DEF Compose
    <3>6. known' \in [Streams -> [Topics -> Nat]]
      <4>1. [t \in Topics |-> IF t \in Moved(s) THEN counter[t] ELSE known[s][t]]
              \in [Topics -> Nat]
        BY DEF StreamTypeOK, CountersTypeOK
      <4> QED BY <3>8, <4>1 DEF StreamTypeOK
    <3>7. /\ stale' \in [Streams -> [Topics -> BOOLEAN]]
          /\ phase' \in [Streams -> Phases]
      BY <3>8 DEF StreamTypeOK
    <3> QED
      BY <2>1, <3>5, <3>6, <3>7 DEF StreamTypeOK, CountersTypeOK, hubVars, clientVars
  <2> QED BY <2>2, <2>3
<1>7. ASSUME NEW s \in Streams, Heartbeat(s)
      PROVE  StreamTypeOK'
  BY <1>7 DEF Heartbeat, StreamTypeOK, CountersTypeOK, hubVars, clientVars
<1>8. ASSUME NEW s \in Streams, CheckDone(s)
      PROVE  StreamTypeOK'
  <2>1. CASE closed
    BY <1>8, <2>1, LeaveType DEF CheckDone
  <2>2. CASE ~closed
    <3>1. phase' = [phase EXCEPT ![s] = "writing"]
      BY <1>8, <2>2 DEF CheckDone
    <3>2. UNCHANGED <<hubVars, closed, owner, linked, known, stale, wake, out, late,
                      clientVars, cuts>>
      BY <1>8, <2>2 DEF CheckDone
    <3> QED BY <3>1, <3>2 DEF StreamTypeOK, CountersTypeOK, hubVars, clientVars
  <2> QED BY <2>1, <2>2
<1>9. ASSUME NEW s \in Streams, Write(s)
      PROVE  StreamTypeOK'
  <2>1. wire' \in [Clients -> Seq(Event)]
    BY <1>9, ConcatProperties DEF Write, StreamTypeOK
  <2>2. out' \in [Streams -> Seq(Event)]
    BY <1>9 DEF Write, StreamTypeOK
  <2>3. late' \in [Streams -> 0..3] /\ phase' \in [Streams -> Phases]
    BY <1>9, CountedType DEF Write, StreamTypeOK
  <2>4. UNCHANGED <<boot, seq, counter, changedAt, closed, owner, linked, known, stale,
                    wake, link, url, lastId, told, cuts>>
    BY <1>9 DEF Write, hubVars
  <2> QED BY <2>1, <2>2, <2>3, <2>4 DEF StreamTypeOK, CountersTypeOK
<1>10. ASSUME NEW s \in Streams, WriteFails(s)
       PROVE  StreamTypeOK'
  <2>1. Broken(s) /\ Counted(s) /\ Return(s)
    BY <1>10 DEF WriteFails
  <2>2. UNCHANGED <<boot, seq, counter, changedAt, closed, owner, wire, url, lastId, told>>
    BY <2>1 DEF Return, hubVars
  <2> QED
    BY <2>1, <2>2, BrokenType, CountedType, ReturnType DEF StreamTypeOK, CountersTypeOK
<1>11. ASSUME NEW s \in Streams, Lifetime(s) \/ SeesDone(s) \/ SeesGone(s)
       PROVE  StreamTypeOK'
  BY <1>11, LeaveType DEF Lifetime, SeesDone, SeesGone
<1>12. ASSUME NEW c \in Clients, Read(c)
       PROVE  StreamTypeOK'
  <2>1. /\ Head(wire[c]) \in Event
        /\ Tail(wire[c]) \in Seq(Event)
    BY <1>12, HeadTailProperties DEF Read, StreamTypeOK
  <2>2. lastId' \in [Clients -> [boot : Nat, v : Versions]]
    BY <1>12, <2>1 DEF Read, StreamTypeOK, Event
  <2>3. told' \in [Clients -> Versions]
    <3>1. CASE UNCHANGED told
      BY <3>1 DEF StreamTypeOK
    <3>2. CASE told' = [told EXCEPT ![c][Head(wire[c]).topic] = Head(wire[c]).v]
      <4>1. told[c] \in Versions /\ Head(wire[c]).v \in Nat
        BY <2>1 DEF StreamTypeOK, Event
      <4>2. [told[c] EXCEPT ![Head(wire[c]).topic] = Head(wire[c]).v] \in Versions
        BY <4>1 DEF Versions
      <4> QED BY <3>2, <4>2 DEF StreamTypeOK
    <3> QED BY <1>12, <3>1, <3>2 DEF Read
  <2>4. wire' \in [Clients -> Seq(Event)]
    BY <1>12, <2>1 DEF Read, StreamTypeOK
  <2> QED
    BY <1>12, <2>2, <2>3, <2>4 DEF Read, StreamTypeOK, CountersTypeOK, hubVars, handlerVars
<1>13. ASSUME NEW c \in Clients, ReadEnd(c)
       PROVE  StreamTypeOK'
  BY <1>13 DEF ReadEnd, StreamTypeOK, CountersTypeOK, hubVars, handlerVars
<1>14. ASSUME NEW c \in Clients, Cut(c)
       PROVE  StreamTypeOK'
  BY <1>14 DEF Cut, StreamTypeOK, CountersTypeOK, hubVars
<1>15. ASSUME NEW c \in Clients, Resubscribe(c)
       PROVE  StreamTypeOK'
  <2>1. PICK b, v, w : /\ url' = [url EXCEPT ![c] = [boot |-> b, v |-> v]]
                       /\ told' = [told EXCEPT ![c] = w]
                       /\ b \in {0, boot} /\ v \in [Topics -> Nat] /\ w \in Versions
    BY <1>15, ResubscribeDoes
  <2>3. /\ url' \in [Clients -> [boot : Nat, v : [Topics -> Nat]]]
        /\ told' \in [Clients -> Versions]
    BY <2>1 DEF StreamTypeOK, CountersTypeOK
  <2>4. lastId' \in [Clients -> [boot : Nat, v : Versions]]
    BY <1>15 DEF Resubscribe, StreamTypeOK, NoId, Versions, Absent
  <2> QED
    BY <1>15, <2>3, <2>4 DEF Resubscribe, StreamTypeOK, CountersTypeOK, hubVars, handlerVars
<1>16. CASE UNCHANGED streamVars
  BY <1>16
  DEF streamVars, StreamTypeOK, CountersTypeOK, hubVars, handlerVars, clientVars
<1>17. ASSUME NEW s \in Streams, FlushHeader(s)
       PROVE  StreamTypeOK'
  <2>1. /\ Counted(s) /\ phase' = [phase EXCEPT ![s] = "reading"]
        /\ UNCHANGED <<linked, link, cuts>> \/ Broken(s)
        /\ UNCHANGED <<boot, seq, counter, changedAt, closed, owner, known, stale, wake, out,
                       wire, url, lastId, told>>
    BY <1>17 DEF FlushHeader, hubVars
  <2>2. phase' \in [Streams -> Phases]
    BY <2>1 DEF StreamTypeOK
  <2>3. /\ linked' \in [Streams -> BOOLEAN] /\ link' \in [Clients -> {"down", "up", "eof"}]
        /\ cuts' \in Nat
    BY <2>1, BrokenType DEF StreamTypeOK
  <2> QED BY <2>1, <2>2, <2>3, CountedType DEF StreamTypeOK, CountersTypeOK
<1>18. ASSUME NEW s \in Streams, LastChunk(s)
       PROVE  StreamTypeOK'
  <2>1. /\ Counted(s) /\ Hangup(s) /\ phase' = [phase EXCEPT ![s] = "free"]
        /\ UNCHANGED <<boot, seq, counter, changedAt, closed, owner, known, stale, wake, out,
                       wire, url, lastId, told, cuts>>
    BY <1>18 DEF LastChunk, hubVars
  <2>2. phase' \in [Streams -> Phases]
    BY <2>1 DEF StreamTypeOK
  <2> QED BY <2>1, <2>2, HangupType, CountedType DEF StreamTypeOK, CountersTypeOK
<1> QED
  BY <1>1, <1>2, <1>3, <1>4, <1>5, <1>6, <1>7, <1>8, <1>9, <1>10, <1>11, <1>12,
     <1>13, <1>14, <1>15, <1>16, <1>17, <1>18 DEF StreamNext

\* Every reachable state of the stream model has its type.
THEOREM StreamTypeCorrect == StreamSpec => []StreamTypeOK
BY StreamTypeInitial, StreamTypeStep, PTL DEF StreamSpec

-----------------------------------------------------------------------------
(* Wakes and shutdown. *)

\* What a handler's late writes come to: none before the hub closes, none yet
\* for one that flushes or writes, since it began before the close, and one at
\* most until the closing chunk.
DrainInv ==
    \A s \in Streams :
        /\ late[s] <= 2
        /\ phase[s] # "free" => late[s] <= 1
        /\ ~closed => late[s] = 0
        /\ phase[s] \in {"opening", "writing"} => late[s] = 0

StreamInv == StreamTypeOK /\ NoLostWake /\ DrainInv

LEMMA StreamInitial == StreamInit => StreamInv
<1> SUFFICES ASSUME StreamInit
             PROVE  NoLostWake /\ DrainInv
  BY StreamTypeInitial DEF StreamInv
<1> QED BY DEF StreamInit, NoLostWake, DrainInv

\* The step of a handler that was in P and is not between a pass and its
\* select afterwards.
LEMMA OneHandler ==
    ASSUME StreamInv, NEW s \in Streams, UNCHANGED <<counter, closed>>,
           \A r \in Streams \ {s} :
             /\ phase'[r] = phase[r] /\ known'[r] = known[r] /\ stale'[r] = stale[r]
             /\ wake'[r] = wake[r] /\ late'[r] = late[r],
           phase'[s] \in {"free", "reading", "ending"},
           late'[s] = IF closed /\ late[s] < 3 THEN late[s] + 1 ELSE late[s],
           phase[s] = "ending" \/ late[s] = 0,
           phase[s] = "ending" => phase'[s] = "free"
    PROVE  NoLostWake' /\ DrainInv'
<1>1. late[s] \in 0..3
  BY DEF StreamInv, StreamTypeOK
<1>2. NoLostWake'
  BY DEF StreamInv, NoLostWake, Moved
<1>3. late[s] <= 1 /\ (late[s] = 0 \/ phase'[s] = "free")
  BY <1>1 DEF StreamInv, DrainInv
<1>4. late'[s] <= 2 /\ (phase'[s] # "free" => late'[s] <= 1) /\ (~closed => late'[s] = 0)
  BY <1>1, <1>3 DEF StreamInv, DrainInv
<1>5. DrainInv'
  BY <1>4 DEF StreamInv, DrainInv
<1> QED BY <1>2, <1>5

\* A handler that returns leaves the others as they were and asks for nothing.
LEMMA LeaveInv ==
    ASSUME StreamInv, NEW s \in Streams, Leave(s), phase[s] # "free"
    PROVE  NoLostWake' /\ DrainInv'
<1>1. /\ phase' = [phase EXCEPT ![s] = "ending"]
      /\ known' = [known EXCEPT ![s] = NoneKnown]
      /\ stale' = [stale EXCEPT ![s] = NoneStale]
      /\ wake' = [wake EXCEPT ![s] = FALSE]
      /\ UNCHANGED <<counter, closed, late>>
  BY DEF Leave, Return, hubVars
<1>2. NoLostWake'
  BY <1>1 DEF StreamInv, StreamTypeOK, NoLostWake, Moved
<1>3. DrainInv'
  BY <1>1 DEF StreamInv, StreamTypeOK, DrainInv
<1> QED BY <1>2, <1>3

\* A step that touches no handler, no counter and no wake.
LEMMA QuietInv ==
    ASSUME StreamInv, UNCHANGED <<counter, closed, phase, known, stale, wake, late>>
    PROVE  NoLostWake' /\ DrainInv'
BY DEF StreamInv, NoLostWake, Moved, DrainInv

LEMMA StreamStep == StreamInv /\ [StreamNext]_streamVars => StreamInv'
<1> SUFFICES ASSUME StreamInv, [StreamNext]_streamVars
             PROVE  NoLostWake' /\ DrainInv'
  BY StreamTypeStep DEF StreamInv
<1> USE DEF StreamInv
<1>1. ASSUME NEW T \in SUBSET Topics, Notify(T)
      PROVE  NoLostWake' /\ DrainInv'
  <2>1. \A s \in Streams : phase[s] \notin {"free", "ending"} => wake'[s]
    BY <1>1 DEF Notify, WakeAll, Subs
  <2>2. UNCHANGED <<closed, phase, late>>
    BY <1>1 DEF Notify
  <2> QED BY <2>1, <2>2 DEF NoLostWake, DrainInv
<1>2. CASE Close
  BY <1>2
  DEF Close, NoLostWake, Moved, DrainInv, StreamTypeOK, hubVars, handlerVars
<1>3. CASE Restart
  BY <1>3 DEF Restart, NoLostWake, DrainInv
<1>4. ASSUME NEW c \in Clients, NEW s \in Streams, Open(c, s)
      PROVE  NoLostWake' /\ DrainInv'
  <2>1. /\ \A r \in Streams \ {s} :
             /\ phase'[r] = phase[r] /\ known'[r] = known[r] /\ stale'[r] = stale[r]
             /\ wake'[r] = wake[r] /\ late'[r] = late[r]
        /\ phase'[s] = "opening" /\ late'[s] = 0
        /\ UNCHANGED <<counter, closed>>
    BY <1>4 DEF Open, StreamTypeOK, hubVars
  <2> QED BY <2>1 DEF NoLostWake, Moved, DrainInv
<1>5. ASSUME NEW s \in Streams, Take(s)
      PROVE  NoLostWake' /\ DrainInv'
  <2>1. /\ \A r \in Streams \ {s} : phase'[r] = phase[r] /\ wake'[r] = wake[r]
        /\ phase[s] = "waiting" /\ phase'[s] = "reading"
        /\ UNCHANGED <<counter, closed, known, stale, late>>
    BY <1>5 DEF Take, StreamTypeOK, hubVars
  <2> QED BY <2>1 DEF NoLostWake, Moved, DrainInv
<1>6. ASSUME NEW s \in Streams, Compose(s)
      PROVE  NoLostWake' /\ DrainInv'
  <2>1. UNCHANGED <<counter, closed, wake, late>>
    BY <1>6 DEF Compose, hubVars
  <2>2. \A r \in Streams \ {s} :
           phase'[r] = phase[r] /\ known'[r] = known[r] /\ stale'[r] = stale[r]
    BY <1>6 DEF Compose, StreamTypeOK
  <2>3. phase[s] = "reading" /\ phase'[s] \in {"waiting", "composed"}
    BY <1>6 DEF Compose, StreamTypeOK
  <2>4. Moved(s)' = {}
    <3>1. CASE Moved(s) = {}
      BY <1>6, <2>1, <3>1 DEF Compose, Moved
    <3>2. CASE Moved(s) # {}
      <4>1. /\ known' = [known EXCEPT ![s] =
                           [t \in Topics |-> IF t \in Moved(s) THEN counter[t] ELSE @[t]]]
            /\ stale' = [stale EXCEPT ![s] = [t \in Topics |-> FALSE]]
        BY <1>6, <3>2 DEF Compose
      <4>2. \A t \in Topics : known'[s][t] \in Nat /\ counter[t] \in Nat
                               /\ counter[t] <= known'[s][t]
        BY <4>1 DEF Moved, StreamTypeOK, CountersTypeOK
      <4>3. \A t \in Topics : ~stale'[s][t]
        BY <4>1 DEF StreamTypeOK
      <4> QED BY <2>1, <4>2, <4>3 DEF Moved
    <3> QED BY <3>1, <3>2
  <2>5. NoLostWake'
    BY <2>1, <2>2, <2>3, <2>4 DEF NoLostWake, Moved
  <2>6. DrainInv'
    BY <2>1, <2>2, <2>3 DEF DrainInv
  <2> QED BY <2>5, <2>6
<1>7. ASSUME NEW s \in Streams, Heartbeat(s) \/ (CheckDone(s) /\ ~closed)
      PROVE  NoLostWake' /\ DrainInv'
  <2>1. UNCHANGED <<counter, closed, known, stale, wake, late>>
    BY <1>7 DEF Heartbeat, CheckDone, hubVars
  <2>2. \A r \in Streams \ {s} : phase'[r] = phase[r]
    BY <1>7 DEF Heartbeat, CheckDone, StreamTypeOK
  <2>3. /\ phase[s] \in {"waiting", "composed"}
        /\ phase'[s] = "composed" \/ (phase'[s] = "writing" /\ ~closed)
    BY <1>7 DEF Heartbeat, CheckDone, StreamTypeOK
  <2> QED BY <2>1, <2>2, <2>3 DEF NoLostWake, Moved, DrainInv
<1>8. ASSUME NEW s \in Streams, Write(s)
      PROVE  NoLostWake' /\ DrainInv'
  <2>1. UNCHANGED <<counter, closed, known, stale, wake>>
    BY <1>8 DEF Write, hubVars
  <2>2. /\ \A r \in Streams \ {s} : phase'[r] = phase[r] /\ late'[r] = late[r]
        /\ phase[s] = "writing" /\ phase'[s] = "waiting"
        /\ late'[s] = IF closed /\ late[s] < 3 THEN late[s] + 1 ELSE late[s]
    BY <1>8 DEF Write, Counted, StreamTypeOK
  <2>3. NoLostWake'
    BY <2>1, <2>2 DEF NoLostWake, Moved
  <2>4. DrainInv'
    BY <2>1, <2>2 DEF DrainInv
  <2> QED BY <2>3, <2>4
<1>9. ASSUME NEW s \in Streams, Leave(s), phase[s] # "free"
      PROVE  NoLostWake' /\ DrainInv'
  BY <1>9, LeaveInv
<1>12. ASSUME NEW s \in Streams, FlushHeader(s) \/ LastChunk(s) \/ WriteFails(s)
       PROVE  NoLostWake' /\ DrainInv'
  <2>1. /\ UNCHANGED <<counter, closed>> /\ Counted(s)
        /\ \A r \in Streams \ {s} :
             /\ phase'[r] = phase[r] /\ known'[r] = known[r] /\ stale'[r] = stale[r]
             /\ wake'[r] = wake[r]
        /\ \/ phase[s] = "opening" /\ phase'[s] = "reading"
           \/ phase[s] = "ending" /\ phase'[s] = "free"
           \/ phase[s] = "writing" /\ phase'[s] = "ending"
    BY <1>12 DEF FlushHeader, LastChunk, WriteFails, Return, hubVars, StreamTypeOK
  <2>2. /\ late'[s] = IF closed /\ late[s] < 3 THEN late[s] + 1 ELSE late[s]
        /\ \A r \in Streams \ {s} : late'[r] = late[r]
    BY <2>1 DEF Counted, StreamTypeOK
  <2>3. phase[s] = "ending" \/ late[s] = 0
    BY <2>1 DEF DrainInv
  <2> QED BY <2>1, <2>2, <2>3, OneHandler
<1>10. ASSUME NEW c \in Clients, Read(c) \/ ReadEnd(c) \/ Cut(c) \/ Resubscribe(c)
       PROVE  NoLostWake' /\ DrainInv'
  BY <1>10, QuietInv DEF Read, ReadEnd, Cut, Resubscribe, hubVars, handlerVars
<1>11. CASE UNCHANGED streamVars
  BY <1>11, QuietInv DEF streamVars, hubVars, handlerVars
<1> QED
  <2>1. ASSUME NEW s \in Streams,
               CheckDone(s) \/ Lifetime(s) \/ SeesDone(s) \/ SeesGone(s)
        PROVE  (Leave(s) /\ phase[s] # "free") \/ (CheckDone(s) /\ ~closed)
    BY <2>1 DEF CheckDone, Lifetime, SeesDone, SeesGone
  <2> QED
    BY <1>1, <1>2, <1>3, <1>4, <1>5, <1>6, <1>7, <1>8, <1>9, <1>10, <1>11, <1>12, <2>1
    DEF StreamNext

LEMMA StreamInvariance == StreamSpec => []StreamInv
BY StreamInitial, StreamStep, PTL DEF StreamSpec

\* No change is slept on: whatever order notifies, passes over the counters,
\* writes and failures come in, a handler that is behind has a wake.
THEOREM NoWakeIsLost == StreamSpec => []NoLostWake
BY StreamInvariance, PTL DEF StreamInv

\* From Close on a drain waits for two writes of a stream at the most, each
\* within its deadline: what was under way, and the closing chunk.
THEOREM DrainsAfterTwoWrites == StreamSpec => []TwoWritesAfterClose
<1>1. StreamInv => TwoWritesAfterClose
  BY DEF StreamInv, DrainInv, TwoWritesAfterClose
<1> QED BY <1>1, StreamInvariance, PTL

-----------------------------------------------------------------------------
(* What a client is told. *)

\* One of the first n events of W tells version k of t, or a later one, of
\* the running process.
Brings(W, n, t, k) ==
    \E j \in 1..n : W[j].topic = t /\ W[j].id.boot = boot /\ W[j].v >= k

\* A handler with nothing left to write.
Idle(s) == phase[s] \in {"free", "opening", "reading", "waiting", "ending"}

\* A handler that has not returned, with its client at the other end.
Speaks(s) == linked[s] /\ phase[s] # "ending"

\* A connection has one handler at one end and one client at the other, what
\* it carries is lost with it, and a handler that is not writing has nothing
\* left to write.
LinksInv ==
    /\ \A s \in Streams : linked[s] => link[owner[s]] = "up"
    /\ \A s, r \in Streams : linked[s] /\ linked[r] /\ owner[s] = owner[r] => s = r
    /\ \A c \in Clients : link[c] = "down" => wire[c] = <<>>
    /\ \A s \in Streams : Idle(s) => out[s] = <<>>

\* No client has heard of a process still to come, and a connection that is
\* up carries only what the running one said.
BootsInv ==
    /\ boot >= 1
    /\ \A c \in Clients :
         /\ url[c].boot <= boot
         /\ lastId[c].boot <= boot
         /\ \A i \in 1..Len(wire[c]) :
              /\ wire[c][i].id.boot <= boot
              /\ link[c] = "up" => wire[c][i].id.boot = boot
    /\ \A s \in Streams : \A i \in 1..Len(out[s]) : out[s][i].id.boot = boot

\* What a client may resume from, it was told: its URL, its last event's ID,
\* and the ID of each event on the way once it has read that far.
ClientTold(c, t) ==
    /\ url[c].boot = boot => url[c].v[t] <= told[c][t]
    /\ lastId[c].boot = boot => lastId[c].v[t] <= told[c][t]
    /\ \A i \in 1..Len(wire[c]) : wire[c][i].id.boot = boot =>
          \/ wire[c][i].id.v[t] <= told[c][t]
          \/ Brings(wire[c], i, t, wire[c][i].id.v[t])

\* What a handler takes its client to know, and what it is about to write,
\* the client will have been told by then.
WillKnow(s, n, t, k) ==
    \/ k <= told[owner[s]][t]
    \/ Brings(wire[owner[s]], Len(wire[owner[s]]), t, k)
    \/ Brings(out[s], n, t, k)

StreamTold(s, t) ==
    /\ stale[s][t] \/ WillKnow(s, Len(out[s]), t, known[s][t])
    /\ \A i \in 1..Len(out[s]) : WillKnow(s, i, t, out[s][i].id.v[t])

ToldInv ==
    /\ \A c \in Clients, t \in Topics : ClientTold(c, t)
    /\ \A s \in Streams, t \in Topics : Speaks(s) => StreamTold(s, t)

ResumeInv == StreamTypeOK /\ LinksInv /\ BootsInv /\ ToldInv

LEMMA ResumeInitial == StreamInit => ResumeInv
<1> SUFFICES ASSUME StreamInit
             PROVE  LinksInv /\ BootsInv /\ ToldInv
  BY StreamTypeInitial DEF ResumeInv
<1>1. /\ boot = 1 /\ \A s \in Streams : ~linked[s] /\ out[s] = <<>>
      /\ \A c \in Clients : /\ wire[c] = <<>> /\ lastId[c] = NoId
                            /\ url[c].boot = 1 /\ \A t \in Topics : url[c].v[t] = 0 /\ told[c][t] = 0
  BY DEF StreamInit, CountersInit, FreshHub
<1>2. LinksInv
  BY <1>1 DEF LinksInv
<1>3. BootsInv
  BY <1>1 DEF BootsInv, NoId
<1>4. ToldInv
  BY <1>1 DEF ToldInv, ClientTold, NoId, Speaks
<1> QED BY <1>2, <1>3, <1>4

\* A client that reads nothing and is told nothing new keeps its promises.
LEMMA ClientStays ==
    ASSUME NEW c \in Clients, NEW t \in Topics, boot' = boot, ClientTold(c, t),
           wire'[c] = wire[c], url'[c] = url[c], lastId'[c] = lastId[c], told'[c] = told[c]
    PROVE  ClientTold(c, t)'
BY DEF ClientTold, Brings

\* So does a handler that does nothing while its client reads nothing.
LEMMA StreamStays ==
    ASSUME NEW s \in Streams, NEW t \in Topics, NEW c, boot' = boot, StreamTold(s, t),
           owner[s] = c, owner'[s] = c, wire'[c] = wire[c], told'[c] = told[c],
           known'[s] = known[s], stale'[s] = stale[s], out'[s] = out[s]
    PROVE  StreamTold(s, t)'
<1>1. ASSUME NEW n, NEW k, WillKnow(s, n, t, k)
      PROVE  WillKnow(s, n, t, k)'
  <2>1. k <= told[c][t] \/ Brings(wire[c], Len(wire[c]), t, k) \/ Brings(out[s], n, t, k)
    BY <1>1 DEF WillKnow
  <2>2. \/ k <= told'[c][t] \/ Brings(wire[c], Len(wire[c]), t, k)'
        \/ Brings(out[s], n, t, k)'
    BY <2>1 DEF Brings
  <2> QED BY <2>2 DEF WillKnow
<1> QED BY <1>1 DEF StreamTold

\* A step that neither says nor hears anything.
LEMMA QuietTold ==
    ASSUME ResumeInv, StreamTypeOK',
           UNCHANGED <<boot, owner, linked, known, stale, out, link, wire, url, lastId, told>>,
           \A s \in Streams : (Idle(s)' => Idle(s)) /\ (Speaks(s)' => Speaks(s))
    PROVE  ResumeInv'
<1>1. LinksInv'
  BY DEF ResumeInv, LinksInv
<1>2. BootsInv'
  BY DEF ResumeInv, BootsInv
<1>3. ToldInv'
  BY DEF ResumeInv, ToldInv, ClientTold, StreamTold, WillKnow, Brings
<1> QED BY <1>1, <1>2, <1>3 DEF ResumeInv

\* A handler that ends, or loses its client: what it had not written is lost,
\* and nobody relies on it any more.
LEMMA EndTold ==
    ASSUME ResumeInv, StreamTypeOK', NEW s \in Streams,
           UNCHANGED <<boot, owner, wire, url, lastId, told>>,
           ~Speaks(s)', out'[s] = <<>>,
           \A r \in Streams \ {s} :
             /\ phase'[r] = phase[r] /\ known'[r] = known[r]
             /\ stale'[r] = stale[r] /\ out'[r] = out[r],
           UNCHANGED <<linked, link>> \/ Hangup(s)
    PROVE  ResumeInv'
<1> USE DEF ResumeInv
<1>1. /\ \A r \in Streams \ {s} : linked'[r] = linked[r]
      /\ linked'[s] => linked[s]
      /\ \/ UNCHANGED link
         \/ /\ ~linked'[s]
            /\ \A c \in Clients : link'[c] = IF linked[s] /\ owner[s] = c THEN "eof"
                                           ELSE link[c]
  BY DEF Hangup, StreamTypeOK
<1>2. \A r \in Streams : owner[r] \in Clients
  BY DEF StreamTypeOK
<1>3. LinksInv'
  <2>1. \A r \in Streams : linked'[r] => link'[owner'[r]] = "up"
    BY <1>1, <1>2 DEF LinksInv
  <2>2. \A r, q \in Streams : linked'[r] /\ linked'[q] /\ owner'[r] = owner'[q] => r = q
    <3>1. \A r \in Streams : linked'[r] => linked[r]
      BY <1>1
    <3> QED BY <3>1 DEF LinksInv
  <2>3. \A c \in Clients : link'[c] = "down" => wire'[c] = <<>>
    BY <1>1 DEF LinksInv
  <2>4. \A r \in Streams : Idle(r)' => out'[r] = <<>>
    BY DEF LinksInv, Idle
  <2> QED BY <2>1, <2>2, <2>3, <2>4 DEF LinksInv
<1>4. BootsInv'
  <2>1. ASSUME NEW c \in Clients
        PROVE  /\ url'[c].boot <= boot' /\ lastId'[c].boot <= boot'
               /\ \A i \in 1..Len(wire'[c]) :
                    /\ wire'[c][i].id.boot <= boot'
                    /\ link'[c] = "up" => wire'[c][i].id.boot = boot'
    BY <1>1 DEF BootsInv
  <2>2. \A r \in Streams : \A i \in 1..Len(out'[r]) : out'[r][i].id.boot = boot'
    BY <1>1 DEF BootsInv
  <2>3. boot' >= 1
    BY DEF BootsInv
  <2> QED BY <2>1, <2>2, <2>3 DEF BootsInv
<1>5. ToldInv'
  <2>1. \A c \in Clients, t \in Topics : ClientTold(c, t)'
    BY <1>1, ClientStays DEF ToldInv
  <2>2. ASSUME NEW r \in Streams, NEW t \in Topics, Speaks(r)'
        PROVE  StreamTold(r, t)'
    <3>1. r # s /\ StreamTold(r, t)
      BY <1>1, <2>2 DEF ToldInv, Speaks
    <3> QED BY <1>1, <3>1, StreamStays
  <2> QED BY <2>1, <2>2 DEF ToldInv
<1> QED BY <1>3, <1>4, <1>5

\* The process restarts: nothing said of the old one counts.
LEMMA RestartTold ==
    ASSUME ResumeInv, StreamTypeOK', Restart
    PROVE  ResumeInv'
<1> USE DEF ResumeInv
<1>1. /\ boot' = boot + 1 /\ boot \in Nat
      /\ \A s \in Streams : ~linked'[s] /\ out'[s] = <<>>
      /\ \A c \in Clients : /\ link'[c] = IF link[c] = "up" THEN "eof" ELSE link[c]
      /\ UNCHANGED <<wire, url, lastId>>
  BY DEF Restart, NewProcess, StreamTypeOK, CountersTypeOK
<1>2. LinksInv'
  BY <1>1 DEF LinksInv
<1>3. \A c \in Clients :
        /\ url[c].boot \in Nat /\ lastId[c].boot \in Nat
        /\ \A i \in 1..Len(wire[c]) : wire[c][i].id.boot \in Nat
  <2>1. ASSUME NEW c \in Clients, NEW i \in 1..Len(wire[c])
        PROVE  wire[c][i] \in Event
    BY ElementOfSeq DEF StreamTypeOK
  <2> QED BY <2>1 DEF StreamTypeOK, Event
<1>4. BootsInv'
  BY <1>1, <1>3 DEF BootsInv
<1>5. ToldInv'
  BY <1>1, <1>3 DEF ToldInv, BootsInv, ClientTold, Speaks
<1> QED BY <1>2, <1>4, <1>5

\* Open: the new handler starts from what the client was told, or knows that
\* it knows nothing of the client.
LEMMA OpenTold ==
    ASSUME ResumeInv, StreamTypeOK', NEW c \in Clients, NEW s \in Streams, Open(c, s)
    PROVE  ResumeInv'
<1> USE DEF ResumeInv
<1>1. /\ UNCHANGED <<boot, wire, url, lastId, told>>
      /\ link[c] = "down" /\ link'[c] = "up" /\ phase'[s] = "opening"
      /\ linked'[s] /\ out'[s] = <<>> /\ owner'[s] = c
      /\ \A t \in Topics :
           /\ known'[s][t] = IF Resumed(c, t) THEN lastId[c].v[t] ELSE url[c].v[t]
           /\ stale'[s][t] <=> ~Resumed(c, t) /\ url[c].boot # boot
      /\ \A r \in Streams \ {s} :
           /\ phase'[r] = phase[r] /\ linked'[r] = linked[r] /\ known'[r] = known[r]
           /\ stale'[r] = stale[r] /\ out'[r] = out[r] /\ owner'[r] = owner[r]
      /\ \A d \in Clients \ {c} : link'[d] = link[d]
  <2>1. /\ UNCHANGED <<boot, wire, url, lastId, told>>
        /\ link[c] = "down" /\ link' = [link EXCEPT ![c] = "up"]
        /\ phase' = [phase EXCEPT ![s] = "opening"]
        /\ linked' = [linked EXCEPT ![s] = TRUE]
        /\ out' = [out EXCEPT ![s] = <<>>]
        /\ owner' = [owner EXCEPT ![s] = c]
    BY DEF Open, hubVars
  <2>2. /\ known' = [known EXCEPT ![s] =
                       [t \in Topics |-> IF Resumed(c, t) THEN lastId[c].v[t] ELSE url[c].v[t]]]
        /\ stale' = [stale EXCEPT ![s] =
                       [t \in Topics |-> ~Resumed(c, t) /\ url[c].boot # boot]]
    BY DEF Open
  <2>3. known'[s] = [t \in Topics |-> IF Resumed(c, t) THEN lastId[c].v[t] ELSE url[c].v[t]]
    BY <2>2 DEF StreamTypeOK
  <2>4. stale'[s] = [t \in Topics |-> ~Resumed(c, t) /\ url[c].boot # boot]
    BY <2>2 DEF StreamTypeOK
  <2>5. \A r \in Streams \ {s} : known'[r] = known[r] /\ stale'[r] = stale[r]
    BY <2>2 DEF StreamTypeOK
  <2>6. \A t \in Topics : stale'[s][t] <=> ~Resumed(c, t) /\ url[c].boot # boot
    BY <2>4, Zenon
  <2> QED BY <2>1, <2>3, <2>5, <2>6 DEF StreamTypeOK
<1>2. /\ \A r \in Streams : owner[r] \in Clients
      /\ \A r \in Streams : linked[r] => owner[r] # c
      /\ wire[c] = <<>>
  BY <1>1 DEF StreamTypeOK, LinksInv
<1>3. LinksInv'
  BY <1>1, <1>2 DEF LinksInv, Idle
<1>4. BootsInv'
  <2>1. ASSUME NEW d \in Clients
        PROVE  /\ url'[d].boot <= boot' /\ lastId'[d].boot <= boot'
               /\ \A i \in 1..Len(wire'[d]) :
                    /\ wire'[d][i].id.boot <= boot'
                    /\ link'[d] = "up" => wire'[d][i].id.boot = boot'
    BY <1>1, <1>2 DEF BootsInv
  <2>2. \A r \in Streams : \A i \in 1..Len(out'[r]) : out'[r][i].id.boot = boot'
    BY <1>1 DEF BootsInv
  <2> QED BY <1>1, <2>1, <2>2 DEF BootsInv
<1>5. ToldInv'
  <2>1. \A d \in Clients, t \in Topics : ClientTold(d, t)'
    BY <1>1, ClientStays DEF ToldInv
  <2>2. ASSUME NEW r \in Streams, NEW t \in Topics, Speaks(r)'
        PROVE  StreamTold(r, t)'
    <3>1. CASE r # s
      BY <1>1, <1>2, <2>2, <3>1, StreamStays DEF ToldInv, Speaks
    <3>2. CASE r = s
      <4>1. ClientTold(c, t)
        BY DEF ToldInv
      <4>2. stale'[s][t] \/ known'[s][t] <= told'[owner'[s]][t]
        BY <1>1, <4>1 DEF ClientTold, Resumed
      <4> QED BY <1>1, <3>2, <4>2 DEF StreamTold, WillKnow
    <3> QED BY <3>1, <3>2
  <2> QED BY <2>1, <2>2 DEF ToldInv
<1> QED BY <1>3, <1>4, <1>5

\* An order of a finite set names each of its elements.
LEMMA OrderNamesAll ==
    ASSUME NEW S, IsFiniteSet(S), NEW order \in SetToSeqs(S)
    PROVE  /\ order \in [1..Cardinality(S) -> S]
           /\ \A x \in S : \E i \in 1..Cardinality(S) : order[i] = x
<1> DEFINE D == 1..Cardinality(S)
<1>1. order \in [D -> S] /\ \A i, j \in D : i # j => order[i] # order[j]
  BY DEF SetToSeqs
<1>2. IsFiniteSet(D) /\ Cardinality(D) = Cardinality(S)
  BY FS_CardinalityType, FS_Interval
<1> HIDE DEF D
<1>3. order \in Injection(D, S)
  BY <1>1 DEF Injection, IsInjective
<1>4. order \in Surjection(D, S)
  BY <1>2, <1>3, FS_Injection
<1> QED BY <1>1, <1>4 DEF Surjection, D

\* What a pass over the topics says: each moved topic's counter, under IDs
\* that claim no more than the events up to them, and else what the handler
\* knew before or nothing at all.
LEMMA ComposeSays ==
    ASSUME StreamTypeOK, NEW s \in Streams, NEW order \in SetToSeqs(Moved(s)), NEW new,
           new = [i \in DOMAIN order |-> [topic |-> order[i], v |-> counter[order[i]],
                                          id |-> ChangeId(s, order, i)]]
    PROVE  /\ new \in Seq(Event)
           /\ \A t \in Moved(s) : Brings(new, Len(new), t, counter[t])
           /\ \A i \in 1..Len(new) :
                /\ new[i].id.boot = boot
                /\ \A t \in Topics : \/ Brings(new, i, t, new[i].id.v[t])
                                     \/ ~stale[s][t] /\ new[i].id.v[t] = known[s][t]
                                     \/ new[i].id.v[t] = Absent
<1>1. Cardinality(Moved(s)) \in Nat
  BY StreamAssumption, FS_Subset, FS_CardinalityType DEF Moved
<1>2. order \in [1..Cardinality(Moved(s)) -> Moved(s)] /\ Moved(s) \subseteq Topics
      /\ \A t \in Moved(s) : \E i \in 1..Cardinality(Moved(s)) : order[i] = t
  <2>1. IsFiniteSet(Moved(s)) /\ Moved(s) \subseteq Topics
    BY StreamAssumption, FS_Subset DEF Moved
  <2> QED BY <2>1, OrderNamesAll
<1>3. \A i \in 1..Cardinality(Moved(s)) :
        /\ new[i] = [topic |-> order[i], v |-> counter[order[i]], id |-> ChangeId(s, order, i)]
        /\ new[i] \in Event
  BY <1>2, ChangeIdType DEF Event, StreamTypeOK, CountersTypeOK
<1>4. new \in Seq(Event) /\ Len(new) = Cardinality(Moved(s))
  <2>1. new \in [1..Cardinality(Moved(s)) -> Event]
    BY <1>2, <1>3
  <2> QED BY <1>1, <2>1, SeqDef, LenProperties
<1>5. \A i \in 1..Len(new) : /\ new[i].topic = order[i] /\ new[i].v = counter[order[i]]
                             /\ new[i].id.boot = boot
                             /\ counter[order[i]] \in Nat
                             /\ new[i].id.v = ChangeId(s, order, i).v
  BY <1>2, <1>3, <1>4 DEF ChangeId, StreamTypeOK, CountersTypeOK
<1>6. ASSUME NEW i \in 1..Len(new), NEW t \in Topics
      PROVE  \/ Brings(new, i, t, new[i].id.v[t])
             \/ ~stale[s][t] /\ new[i].id.v[t] = known[s][t]
             \/ new[i].id.v[t] = Absent
  <2>1. new[i].id.v[t] = IF t \in {order[j] : j \in 1..i} THEN counter[t]
                         ELSE IF stale[s][t] THEN Absent ELSE known[s][t]
    <3>1. ChangeId(s, order, i).v[t] = IF t \in {order[j] : j \in 1..i} THEN counter[t]
                                       ELSE IF stale[s][t] THEN Absent ELSE known[s][t]
      BY DEF ChangeId
    <3> QED BY <1>5, <3>1
  <2>2. CASE t \in {order[j] : j \in 1..i}
    <3>1. PICK j \in 1..i : order[j] = t
      BY <2>2
    <3>2. j \in 1..Len(new)
      BY <1>4
    <3>3. /\ new[j].topic = t /\ new[j].v = counter[t] /\ new[j].id.boot = boot
          /\ counter[t] \in Nat
      BY <1>5, <3>1, <3>2
    <3>4. new[j].v >= counter[t]
      BY <3>3
    <3> QED BY <2>1, <2>2, <3>3, <3>4 DEF Brings
  <2>3. CASE t \notin {order[j] : j \in 1..i}
    BY <2>1, <2>3
  <2> QED BY <2>2, <2>3
<1>7. ASSUME NEW t \in Moved(s)
      PROVE  Brings(new, Len(new), t, counter[t])
  <2>1. PICK j \in 1..Len(new) : order[j] = t
    BY <1>2, <1>4
  <2>2. /\ new[j].topic = t /\ new[j].v = counter[t] /\ new[j].id.boot = boot
        /\ counter[t] \in Nat
    BY <1>5, <2>1
  <2>3. new[j].v >= counter[t]
    BY <2>2
  <2> QED BY <2>1, <2>2, <2>3 DEF Brings
<1> QED BY <1>4, <1>5, <1>6, <1>7

LEMMA ComposeTold ==
    ASSUME ResumeInv, StreamTypeOK', NEW s \in Streams, Compose(s)
    PROVE  ResumeInv'
<1> USE DEF ResumeInv
<1>1. /\ phase[s] = "reading" /\ out[s] = <<>>
      /\ UNCHANGED <<boot, counter, owner, linked, link, wire, url, lastId, told>>
  BY DEF Compose, hubVars, clientVars, LinksInv, Idle
<1>2. CASE Moved(s) = {}
  BY <1>1, <1>2, QuietTold DEF Compose, StreamTypeOK, Idle, Speaks
<1>3. CASE Moved(s) # {}
  <2>1. PICK order \in SetToSeqs(Moved(s)) :
          out' = [out EXCEPT ![s] =
                    [i \in DOMAIN order |->
                       [topic |-> order[i], v |-> counter[order[i]],
                        id |-> ChangeId(s, order, i)]]]
    BY <1>3 DEF Compose
  <2> DEFINE new == [i \in DOMAIN order |-> [topic |-> order[i], v |-> counter[order[i]],
                                             id |-> ChangeId(s, order, i)]]
  <2>2. out' = [out EXCEPT ![s] = new]
    BY <2>1
  <2>3. /\ new \in Seq(Event)
        /\ \A t \in Moved(s) : Brings(new, Len(new), t, counter[t])
        /\ \A i \in 1..Len(new) :
             /\ new[i].id.boot = boot
             /\ \A t \in Topics : \/ Brings(new, i, t, new[i].id.v[t])
                                  \/ ~stale[s][t] /\ new[i].id.v[t] = known[s][t]
                                  \/ new[i].id.v[t] = Absent
    BY ComposeSays, ZenonT(30)
  <2> HIDE DEF new
  <2>4. /\ phase' = [phase EXCEPT ![s] = "composed"]
        /\ known' = [known EXCEPT ![s] =
                       [t \in Topics |-> IF t \in Moved(s) THEN counter[t] ELSE @[t]]]
        /\ stale' = [stale EXCEPT ![s] = [t \in Topics |-> FALSE]]
    BY <1>3 DEF Compose
  <2>5. /\ out'[s] = new /\ phase'[s] = "composed"
        /\ \A t \in Topics : known'[s][t] = IF t \in Moved(s) THEN counter[t] ELSE known[s][t]
        /\ \A r \in Streams \ {s} : /\ out'[r] = out[r] /\ phase'[r] = phase[r]
                                    /\ known'[r] = known[r] /\ stale'[r] = stale[r]
    BY <2>2, <2>4 DEF StreamTypeOK
  <2>6. LinksInv'
    BY <1>1, <2>5 DEF LinksInv, Idle
  <2>7. BootsInv'
    <3>1. \A r \in Streams : \A i \in 1..Len(out'[r]) : out'[r][i].id.boot = boot'
      BY <1>1, <2>3, <2>5 DEF BootsInv
    <3> QED BY <1>1, <3>1 DEF BootsInv
  <2>8. ASSUME NEW t \in Topics, Speaks(s)
        PROVE  StreamTold(s, t)'
    <3> DEFINE c == owner[s]
               Told(k) == k <= told[c][t] \/ Brings(wire[c], Len(wire[c]), t, k)
    <3>1. ~stale[s][t] => Told(known[s][t])
      <4>1. stale[s][t] \/ WillKnow(s, Len(out[s]), t, known[s][t])
        BY <2>8 DEF ToldInv, StreamTold
      <4> QED BY <1>1, <4>1 DEF WillKnow, Brings
    <3>2. Told(Absent)
      <4>1. c \in Clients /\ told[c][t] \in Nat \cup {Absent}
        BY DEF StreamTypeOK, Versions
      <4>2. Absent <= told[c][t]
        BY <4>1 DEF Absent
      <4> QED BY <4>2
    <3>3. \A i \in 1..Len(new) : Told(new[i].id.v[t]) \/ Brings(new, i, t, new[i].id.v[t])
      BY <2>3, <3>1, <3>2
    <3>4. Told(known'[s][t]) \/ Brings(new, Len(new), t, known'[s][t])
      BY <2>3, <2>5, <3>1 DEF Moved
    <3>5. \A n, k : Told(k) \/ Brings(new, n, t, k) => WillKnow(s, n, t, k)'
      BY <1>1, <2>5 DEF WillKnow, Brings
    <3> HIDE DEF Told
    <3> QED BY <2>5, <3>3, <3>4, <3>5 DEF StreamTold
  <2>9. ToldInv'
    <3>1. \A d \in Clients, t \in Topics : ClientTold(d, t)'
      BY <1>1, ClientStays DEF ToldInv
    <3>2. ASSUME NEW r \in Streams, NEW t \in Topics, Speaks(r)'
          PROVE  StreamTold(r, t)'
      BY <1>1, <2>5, <2>8, <3>2, StreamStays DEF ToldInv, Speaks
    <3> QED BY <1>1, <3>1, <3>2 DEF ToldInv
  <2> QED BY <2>6, <2>7, <2>9
<1> QED BY <1>2, <1>3

\* V is the events O written after the events W.
Written(W, O, V) ==
    /\ Len(V) = Len(W) + Len(O) /\ Len(W) \in Nat /\ Len(O) \in Nat
    /\ \A i \in 1..Len(W) : V[i] = W[i]
    /\ \A i \in 1..Len(O) : V[Len(W) + i] = O[i]
    /\ \A i \in 1..Len(V) : i \in 1..Len(W) \/ \E j \in 1..Len(O) : i = Len(W) + j

LEMMA ConcatParts ==
    ASSUME NEW W \in Seq(Event), NEW O \in Seq(Event)
    PROVE  Written(W, O, W \o O)
<1> DEFINE V == W \o O
<1>1. /\ Len(V) = Len(W) + Len(O) /\ Len(W) \in Nat /\ Len(O) \in Nat
      /\ \A i \in 1..Len(W) : V[i] = W[i]
      /\ \A i \in 1..Len(O) : V[Len(W) + i] = O[i]
  BY ConcatProperties, LenProperties
<1>2. ASSUME NEW i \in 1..Len(V)
      PROVE  i \in 1..Len(W) \/ \E j \in 1..Len(O) : i = Len(W) + j
  <2>1. CASE i > Len(W)
    <3>1. i - Len(W) \in 1..Len(O) /\ i = Len(W) + (i - Len(W))
      BY <1>1, <2>1
    <3> QED BY <3>1
  <2> QED BY <1>1, <2>1
<1> QED BY <1>1, <1>2 DEF Written

\* What a part of a stream brings, the whole brings as well.
LEMMA PrefixBrings ==
    ASSUME NEW W, NEW V, NEW n \in Nat, NEW m \in Nat, n <= m,
           \A i \in 1..n : V[i] = W[i], NEW t, NEW k, Brings(W, n, t, k)
    PROVE  Brings(V, m, t, k)
<1>1. PICK j \in 1..n : W[j].topic = t /\ W[j].id.boot = boot /\ W[j].v >= k
  BY DEF Brings
<1>2. j \in 1..m /\ V[j] = W[j]
  BY <1>1
<1> QED BY <1>1, <1>2 DEF Brings

LEMMA SuffixBrings ==
    ASSUME NEW O, NEW V, NEW l \in Nat, NEW n \in Nat,
           \A i \in 1..n : V[l + i] = O[i], NEW t, NEW k, Brings(O, n, t, k)
    PROVE  Brings(V, l + n, t, k)
<1>1. PICK j \in 1..n : O[j].topic = t /\ O[j].id.boot = boot /\ O[j].v >= k
  BY DEF Brings
<1>2. l + j \in 1..(l + n) /\ V[l + j] = O[j]
  BY <1>1
<1> QED BY <1>1, <1>2 DEF Brings

\* The write of a handler with a client: what was about to be said is on the
\* way, in the same order.
LEMMA WriteTold ==
    ASSUME ResumeInv, NEW s \in Streams, NEW c \in Clients, c = owner[s], Speaks(s),
           UNCHANGED <<boot, told, url, lastId, owner, known, stale>>,
           out'[s] = <<>>, Written(wire[c], out[s], wire'[c]), NEW t \in Topics
    PROVE  ClientTold(c, t)' /\ StreamTold(s, t)'
<1> USE DEF ResumeInv
<1>1. PICK W, O, V : W = wire[c] /\ O = out[s] /\ V = wire'[c] /\ Written(W, O, V)
  OBVIOUS
<1>2. /\ Len(V) = Len(W) + Len(O) /\ Len(W) \in Nat /\ Len(O) \in Nat
      /\ \A i \in 1..Len(W) : V[i] = W[i]
      /\ \A i \in 1..Len(O) : V[Len(W) + i] = O[i]
      /\ \A i \in 1..Len(V) : i \in 1..Len(W) \/ \E j \in 1..Len(O) : i = Len(W) + j
  BY <1>1, Zenon DEF Written
<1>3. ASSUME NEW n \in 0..Len(O), NEW k, WillKnow(s, n, t, k)
      PROVE  k <= told[c][t] \/ Brings(V, Len(W) + n, t, k)
  <2>1. k <= told[c][t] \/ Brings(W, Len(W), t, k) \/ Brings(O, n, t, k)
    BY <1>1, <1>3 DEF WillKnow
  <2>2. n \in Nat /\ Len(W) + n \in Nat /\ Len(W) <= Len(W) + n
        /\ \A i \in 1..n : V[Len(W) + i] = O[i]
    BY <1>2
  <2>3. Brings(W, Len(W), t, k) => Brings(V, Len(W) + n, t, k)
    BY <1>2, <2>2, PrefixBrings
  <2>4. Brings(O, n, t, k) => Brings(V, Len(W) + n, t, k)
    BY <1>2, <2>2, SuffixBrings
  <2> QED BY <2>1, <2>3, <2>4
<1>4. ClientTold(c, t) /\ StreamTold(s, t)
  BY DEF ToldInv
<1>5. \A n, k : Brings(V, n, t, k)' <=> Brings(V, n, t, k)
  BY DEF Brings
<1>6. \A i \in 1..Len(V) : V[i].id.boot = boot =>
         V[i].id.v[t] <= told[c][t] \/ Brings(V, i, t, V[i].id.v[t])
  <2>1. ASSUME NEW i \in 1..Len(W), W[i].id.boot = boot
        PROVE  W[i].id.v[t] <= told[c][t] \/ Brings(V, i, t, W[i].id.v[t])
    <3>1. W[i].id.v[t] <= told[c][t] \/ Brings(W, i, t, W[i].id.v[t])
      BY <1>1, <1>4, <2>1 DEF ClientTold
    <3>2. i \in Nat /\ i <= i /\ \A j \in 1..i : V[j] = W[j]
      BY <1>2
    <3>3. ASSUME NEW k, Brings(W, i, t, k)
          PROVE  Brings(V, i, t, k)
      BY <3>2, <3>3, PrefixBrings
    <3> QED BY <3>1, <3>3
  <2>2. ASSUME NEW j \in 1..Len(O)
        PROVE  O[j].id.v[t] <= told[c][t] \/ Brings(V, Len(W) + j, t, O[j].id.v[t])
    <3>1. WillKnow(s, j, t, O[j].id.v[t])
      BY <1>1, <1>4 DEF StreamTold
    <3> QED BY <1>2, <1>3, <3>1
  <2> QED BY <1>2, <2>1, <2>2
<1>7. ClientTold(c, t)'
  BY <1>1, <1>4, <1>5, <1>6 DEF ClientTold
<1>8. StreamTold(s, t)'
  <2>1. stale[s][t] \/ known[s][t] <= told[c][t] \/ Brings(V, Len(V), t, known[s][t])
    <3>1. stale[s][t] \/ WillKnow(s, Len(O), t, known[s][t])
      BY <1>1, <1>4 DEF StreamTold
    <3>2. Len(O) \in 0..Len(O) /\ Len(W) + Len(O) = Len(V)
      BY <1>2
    <3> QED BY <1>3, <3>1, <3>2
  <2> QED BY <1>1, <1>5, <2>1 DEF StreamTold, WillKnow
<1> QED BY <1>7, <1>8

LEMMA WriteKeeps ==
    ASSUME ResumeInv, StreamTypeOK', NEW s \in Streams, Write(s)
    PROVE  ResumeInv'
<1> USE DEF ResumeInv
<1>1. /\ UNCHANGED <<boot, owner, linked, known, stale, link, url, lastId, told>>
      /\ phase[s] = "writing" /\ phase' = [phase EXCEPT ![s] = "waiting"]
      /\ out' = [out EXCEPT ![s] = <<>>]
      /\ wire' = [c \in Clients |-> IF linked[s] /\ owner[s] = c THEN wire[c] \o out[s]
                                    ELSE wire[c]]
  BY DEF Write, hubVars
<1>2. /\ out'[s] = <<>>
      /\ \A r \in Streams \ {s} : out'[r] = out[r] /\ phase'[r] = phase[r]
      /\ \A c \in Clients : wire'[c] = IF linked[s] /\ owner[s] = c THEN wire[c] \o out[s]
                                       ELSE wire[c]
      /\ \A r \in Streams : owner[r] \in Clients
  BY <1>1 DEF StreamTypeOK
<1>3. LinksInv'
  <2>1. \A c \in Clients : link'[c] = "down" => wire'[c] = <<>>
    BY <1>1, <1>2 DEF LinksInv
  <2>2. \A r \in Streams : Idle(r)' => out'[r] = <<>>
    BY <1>2 DEF LinksInv, Idle
  <2> QED BY <1>1, <2>1, <2>2 DEF LinksInv
<1>4. ASSUME NEW c \in Clients, NEW i \in 1..Len(wire'[c])
      PROVE  /\ wire'[c][i].id.boot <= boot
             /\ link[c] = "up" => wire'[c][i].id.boot = boot
  <2>1. CASE linked[s] /\ owner[s] = c
    <3>1. wire[c] \in Seq(Event) /\ out[s] \in Seq(Event) /\ wire'[c] = wire[c] \o out[s]
      BY <1>2, <2>1 DEF StreamTypeOK
    <3>2. Written(wire[c], out[s], wire'[c])
      BY <3>1, ConcatParts
    <3>4. \/ i \in 1..Len(wire[c]) /\ wire'[c][i] = wire[c][i]
          \/ \E j \in 1..Len(out[s]) : wire'[c][i] = out[s][j]
      BY <3>2, Zenon DEF Written
    <3>3. link[c] = "up" /\ boot \in Nat
      BY <2>1 DEF LinksInv, StreamTypeOK, CountersTypeOK
    <3> QED BY <3>3, <3>4 DEF BootsInv
  <2>2. CASE ~(linked[s] /\ owner[s] = c)
    BY <1>2, <2>2 DEF BootsInv
  <2> QED BY <2>1, <2>2
<1>5. BootsInv'
  <2>1. \A r \in Streams : \A i \in 1..Len(out'[r]) : out'[r][i].id.boot = boot'
    BY <1>1, <1>2 DEF BootsInv
  <2> QED BY <1>1, <1>4, <2>1 DEF BootsInv
<1>6. ToldInv'
  <2>0. ASSUME NEW c \in Clients, NEW t \in Topics, linked[s], owner[s] = c
        PROVE  ClientTold(c, t)' /\ StreamTold(s, t)'
    <3>1. wire[c] \in Seq(Event) /\ out[s] \in Seq(Event)
      BY DEF StreamTypeOK
    <3>2. Written(wire[c], out[s], wire'[c])
      BY <1>2, <2>0, <3>1, ConcatParts
    <3> QED BY <1>1, <1>2, <2>0, <3>2, WriteTold DEF Speaks
  <2>1. ASSUME NEW c \in Clients, NEW t \in Topics
        PROVE  ClientTold(c, t)'
    BY <1>1, <1>2, <2>0, ClientStays DEF ToldInv
  <2>2. ASSUME NEW r \in Streams, NEW t \in Topics, Speaks(r)'
        PROVE  StreamTold(r, t)'
    <3>1. CASE r = s
      BY <1>1, <1>2, <2>0, <2>2, <3>1 DEF Speaks
    <3>2. CASE r # s
      <4>1. owner[r] \in Clients /\ wire'[owner[r]] = wire[owner[r]]
        BY <1>1, <1>2, <2>2, <3>2 DEF LinksInv, Speaks
      <4> QED BY <1>1, <1>2, <2>2, <3>2, <4>1, StreamStays DEF ToldInv, Speaks
    <3> QED BY <3>1, <3>2
  <2> QED BY <2>1, <2>2 DEF ToldInv
<1> QED BY <1>3, <1>5, <1>6

\* The client reads the event at the head: it has been told what the event
\* says, and what is still on the way has moved up.
LEMMA ReadBrings ==
    ASSUME NEW W, NEW V, NEW n \in Nat, \A i \in 1..(n - 1) : V[i] = W[i + 1],
           NEW t, NEW k, Brings(W, n, t, k)
    PROVE  \/ W[1].topic = t /\ W[1].id.boot = boot /\ W[1].v >= k
           \/ Brings(V, n - 1, t, k)
<1>1. PICK j \in 1..n : W[j].topic = t /\ W[j].id.boot = boot /\ W[j].v >= k
  BY DEF Brings
<1>2. CASE j = 1
  BY <1>1, <1>2
<1>3. CASE j > 1
  <2>1. j - 1 \in 1..(n - 1) /\ V[j - 1] = W[j]
    BY <1>1, <1>3
  <2> QED BY <1>1, <2>1 DEF Brings
<1> QED BY <1>1, <1>2, <1>3

\* The wire after the event at its head was read.
LEMMA TailParts ==
    ASSUME NEW W \in Seq(Event), W # <<>>
    PROVE  /\ Len(Tail(W)) = Len(W) - 1 /\ Len(W) \in Nat \ {0}
           /\ \A i \in 1..(Len(W) - 1) : Tail(W)[i] = W[i + 1]
           /\ Head(W) = W[1] /\ W[1] \in Event
BY HeadTailProperties, LenProperties, ElementOfSeq

\* What a read does to its client, and that it disturbs no other.
LEMMA ReadDoes ==
    ASSUME StreamTypeOK, NEW c \in Clients, Read(c)
    PROVE  /\ wire[c] # <<>> /\ wire[c][1] \in Event
           /\ Len(wire'[c]) = Len(wire[c]) - 1 /\ Len(wire[c]) \in Nat \ {0}
           /\ \A i \in 1..(Len(wire[c]) - 1) : wire'[c][i] = wire[c][i + 1]
           /\ lastId'[c] = wire[c][1].id
           /\ \A t \in Topics : /\ told'[c][t] \in Int /\ told'[c][t] >= told[c][t]
                                /\ wire[c][1].id.boot = boot /\ wire[c][1].topic = t
                                     => told'[c][t] >= wire[c][1].v
           /\ \A d \in Clients \ {c} :
                wire'[d] = wire[d] /\ lastId'[d] = lastId[d] /\ told'[d] = told[d]
<1> DEFINE e == Head(wire[c])
<1>1. /\ wire[c] \in Seq(Event) /\ wire[c] # <<>>
      /\ lastId' = [lastId EXCEPT ![c] = e.id]
      /\ told' = IF e.id.boot = boot /\ e.v > told[c][e.topic]
                 THEN [told EXCEPT ![c][e.topic] = e.v] ELSE told
      /\ wire' = [wire EXCEPT ![c] = Tail(wire[c])]
  BY DEF Read, StreamTypeOK
<1>2. /\ Len(Tail(wire[c])) = Len(wire[c]) - 1 /\ Len(wire[c]) \in Nat \ {0}
      /\ \A i \in 1..(Len(wire[c]) - 1) : Tail(wire[c])[i] = wire[c][i + 1]
  BY <1>1, TailParts
<1>3. e = wire[c][1] /\ e \in Event
  BY <1>1, TailParts
<1> HIDE DEF e
<1>4. wire'[c] = Tail(wire[c]) /\ lastId'[c] = e.id
  BY <1>1 DEF StreamTypeOK
<1>5. \A d \in Clients \ {c} :
        wire'[d] = wire[d] /\ lastId'[d] = lastId[d] /\ told'[d] = told[d]
  BY <1>1 DEF StreamTypeOK
<1>6. told[c] \in Versions /\ e.v \in Nat /\ e.topic \in Topics
  BY <1>3 DEF StreamTypeOK, Event
<1>7. ASSUME NEW t \in Topics
      PROVE  /\ told'[c][t] \in Int /\ told'[c][t] >= told[c][t]
             /\ e.id.boot = boot /\ e.topic = t => told'[c][t] >= e.v
  <2>1. told[c][t] \in Int /\ told[c][e.topic] \in Int
    BY <1>6 DEF Versions, Absent
  <2>2. CASE e.id.boot = boot /\ e.v > told[c][e.topic]
    <3>1. told'[c] = [told[c] EXCEPT ![e.topic] = e.v]
      BY <1>1, <2>2 DEF StreamTypeOK
    <3>2. told'[c][t] = IF t = e.topic THEN e.v ELSE told[c][t]
      BY <1>6, <3>1 DEF Versions
    <3> QED BY <1>6, <2>1, <2>2, <3>2
  <2>3. CASE ~(e.id.boot = boot /\ e.v > told[c][e.topic])
    BY <1>1, <1>6, <2>1, <2>3
  <2> QED BY <2>2, <2>3
<1> QED BY <1>1, <1>2, <1>3, <1>4, <1>5, <1>7

LEMMA ReadKeeps ==
    ASSUME ResumeInv, StreamTypeOK', NEW c \in Clients, Read(c)
    PROVE  ResumeInv'
<1> USE DEF ResumeInv
<1>1. UNCHANGED <<boot, phase, owner, linked, known, stale, out, link, url>>
  BY DEF Read, hubVars, handlerVars
<1>2. /\ wire[c] # <<>> /\ Len(wire[c]) \in Nat \ {0}
      /\ Len(wire'[c]) = Len(wire[c]) - 1
      /\ \A i \in 1..(Len(wire[c]) - 1) : wire'[c][i] = wire[c][i + 1]
      /\ lastId'[c] = wire[c][1].id
  BY ReadDoes
<1>3. \A t \in Topics : /\ told'[c][t] \in Int /\ told'[c][t] >= told[c][t]
                        /\ wire[c][1].id.boot = boot /\ wire[c][1].topic = t
                             => told'[c][t] >= wire[c][1].v
  BY ReadDoes
<1>4. \A d \in Clients \ {c} :
        wire'[d] = wire[d] /\ lastId'[d] = lastId[d] /\ told'[d] = told[d]
  BY ReadDoes
<1>5. LinksInv'
  BY <1>1, <1>2, <1>4 DEF LinksInv, Idle
<1>6. BootsInv'
  <2>1. ASSUME NEW i \in 1..Len(wire'[c])
        PROVE  i + 1 \in 1..Len(wire[c]) /\ wire'[c][i] = wire[c][i + 1]
    BY <1>2
  <2>2. 1 \in 1..Len(wire[c])
    BY <1>2
  <2>3. wire[c][1].id.boot <= boot
    BY <2>2 DEF BootsInv
  <2>4. \A d \in Clients : url'[d].boot <= boot' /\ lastId'[d].boot <= boot'
    BY <1>1, <1>2, <1>4, <2>3 DEF BootsInv
  <2>5. \A d \in Clients : \A i \in 1..Len(wire'[d]) :
           /\ wire'[d][i].id.boot <= boot'
           /\ link'[d] = "up" => wire'[d][i].id.boot = boot'
    BY <1>1, <1>4, <2>1 DEF BootsInv
  <2> QED BY <1>1, <2>4, <2>5 DEF BootsInv
<1>7. \A t \in Topics : wire[c][1].v \in Int /\ told[c][t] \in Int
  <2>1. wire[c][1] \in Event
    BY ReadDoes
  <2>2. told[c] \in Versions
    BY DEF StreamTypeOK
  <2> QED BY <2>1, <2>2 DEF Event, Versions, Absent
<1>8. ASSUME NEW t \in Topics, NEW n \in 1..Len(wire[c]), NEW k \in Int,
             k <= told[c][t] \/ Brings(wire[c], n, t, k)
      PROVE  k <= told'[c][t] \/ Brings(wire[c], n - 1, t, k)' 
  <2>1. CASE k <= told[c][t]
    BY <1>3, <1>7, <2>1
  <2>2. CASE Brings(wire[c], n, t, k)
    <3>1. PICK W, V : W = wire[c] /\ V = wire'[c]
      OBVIOUS
    <3>2. n \in Nat /\ Brings(W, n, t, k) /\ \A i \in 1..(n - 1) : V[i] = W[i + 1]
      BY <1>2, <2>2, <3>1
    <3>3. \/ W[1].topic = t /\ W[1].id.boot = boot /\ W[1].v >= k
          \/ Brings(V, n - 1, t, k)
      BY <3>2, ReadBrings
    <3>4. Brings(V, n - 1, t, k) => Brings(wire[c], n - 1, t, k)'
      BY <1>1, <3>1 DEF Brings
    <3> QED BY <1>3, <1>7, <3>1, <3>3, <3>4
  <2> QED BY <1>8, <2>1, <2>2
<1>9. ASSUME NEW t \in Topics
      PROVE  ClientTold(c, t)'
  <2>1. ClientTold(c, t)
    BY DEF ToldInv
  <2>2. ASSUME NEW i \in 1..Len(wire[c])
        PROVE  wire[c][i].id.v[t] \in Int
    <3>1. wire[c][i] \in Event
      BY ElementOfSeq DEF StreamTypeOK
    <3> QED BY <3>1 DEF Event, Versions, Absent
  <2>3. url'[c].boot = boot' => url'[c].v[t] <= told'[c][t]
    <3>1. url[c].v[t] \in Int
      BY DEF StreamTypeOK
    <3> QED BY <1>1, <1>3, <1>7, <2>1, <3>1 DEF ClientTold
  <2>4. lastId'[c].boot = boot' => lastId'[c].v[t] <= told'[c][t]
    <3>1. 1 \in 1..Len(wire[c])
      BY <1>2
    <3>2. wire[c][1].id.boot = boot =>
            wire[c][1].id.v[t] <= told[c][t] \/ Brings(wire[c], 1, t, wire[c][1].id.v[t])
      BY <2>1, <3>1 DEF ClientTold
    <3>3. PICK k : k = wire[c][1].id.v[t]
      OBVIOUS
    <3>5. ~Brings(wire[c], 1 - 1, t, k)'
      BY DEF Brings
    <3>6. k \in Int
      BY <2>2, <3>1, <3>3
    <3>4. wire[c][1].id.boot = boot => wire[c][1].id.v[t] <= told'[c][t]
      BY <1>8, <3>1, <3>2, <3>3, <3>5, <3>6
    <3> QED BY <1>1, <1>2, <3>4
  <2>5. ASSUME NEW i \in 1..Len(wire'[c]), wire'[c][i].id.boot = boot'
        PROVE  wire'[c][i].id.v[t] <= told'[c][t] \/ Brings(wire[c], i, t, wire[c][i].id.v[t])'
    <3>1. i + 1 \in 1..Len(wire[c]) /\ wire'[c][i] = wire[c][i + 1] /\ i + 1 - 1 = i
      BY <1>2
    <3>2. PICK k : k = wire'[c][i].id.v[t]
      OBVIOUS
    <3>3. k \in Int /\ (k <= told[c][t] \/ Brings(wire[c], i + 1, t, k))
      BY <1>1, <2>1, <2>2, <2>5, <3>1, <3>2 DEF ClientTold
    <3>4. k <= told'[c][t] \/ Brings(wire[c], i, t, k)'
      BY <1>8, <3>1, <3>3
    <3> QED BY <3>2, <3>4 DEF Brings
  <2> QED BY <2>3, <2>4, <2>5 DEF ClientTold
<1>10. ASSUME NEW s \in Streams, NEW t \in Topics, Speaks(s), owner[s] = c
       PROVE  StreamTold(s, t)'
  <2>1. StreamTold(s, t)
    BY <1>10 DEF ToldInv
  <2>2. ASSUME NEW n, NEW k \in Int, WillKnow(s, n, t, k)
        PROVE  WillKnow(s, n, t, k)'
    <3>1. \/ k <= told[c][t] \/ Brings(wire[c], Len(wire[c]), t, k)
          \/ Brings(out[s], n, t, k)
      BY <1>10, <2>2 DEF WillKnow
    <3>2. Len(wire[c]) \in 1..Len(wire[c])
      BY <1>2
    <3>3. k <= told'[c][t] \/ Brings(wire[c], Len(wire[c]), t, k)' \/ Brings(out[s], n, t, k)
      <4>1. PICK m : m = Len(wire[c]) /\ m - 1 = Len(wire'[c])
        BY <1>2
      <4>2. CASE k <= told[c][t] \/ Brings(wire[c], m, t, k)
        <5>1. k <= told'[c][t] \/ Brings(wire[c], m - 1, t, k)'
          BY <1>8, <3>2, <4>1, <4>2
        <5> QED BY <4>1, <5>1 DEF Brings
      <4> QED BY <3>1, <4>1, <4>2
    <3>4. Brings(out[s], n, t, k) => Brings(out[s], n, t, k)'
      BY <1>1 DEF Brings
    <3> QED BY <1>1, <1>10, <3>3, <3>4 DEF WillKnow
  <2>3. known[s][t] \in Int
    BY DEF StreamTypeOK
  <2>4. ASSUME NEW i \in 1..Len(out[s])
        PROVE  out[s][i].id.v[t] \in Int
    <3>1. out[s][i] \in Event
      BY ElementOfSeq DEF StreamTypeOK
    <3> QED BY <3>1 DEF Event, Versions, Absent
  <2> QED BY <1>1, <2>1, <2>2, <2>3, <2>4 DEF StreamTold
<1>11. ToldInv'
  <2>1. \A d \in Clients, t \in Topics : ClientTold(d, t)'
    BY <1>1, <1>4, <1>9, ClientStays DEF ToldInv
  <2>2. ASSUME NEW s \in Streams, NEW t \in Topics, Speaks(s)'
        PROVE  StreamTold(s, t)'
    <3>1. owner[s] \in Clients
      BY DEF StreamTypeOK
    <3>2. CASE owner[s] # c
      BY <1>1, <1>4, <2>2, <3>1, <3>2, StreamStays DEF ToldInv, Speaks
    <3> QED BY <1>1, <1>10, <2>2, <3>2 DEF Speaks
  <2> QED BY <2>1, <2>2 DEF ToldInv
<1> QED BY <1>5, <1>6, <1>11

\* A connection that ends at the client: what it carried is read or lost,
\* and no handler has that client any more.
LEMMA LinkEnds ==
    ASSUME ResumeInv, StreamTypeOK', NEW c \in Clients, ReadEnd(c) \/ Cut(c)
    PROVE  ResumeInv'
<1> USE DEF ResumeInv
<1>1. /\ UNCHANGED <<boot, phase, owner, known, stale, out, url, lastId, told>>
      /\ link[c] # "down" /\ link' = [link EXCEPT ![c] = "down"]
      /\ link[c] = "eof" \/ linked' = [s \in Streams |-> linked[s] /\ owner[s] # c]
      /\ \A s \in Streams : linked'[s] => linked[s]
      /\ wire'[c] = <<>> /\ \A d \in Clients \ {c} : wire'[d] = wire[d]
  BY DEF ReadEnd, Cut, hubVars, handlerVars, StreamTypeOK
<1>2. /\ \A s \in Streams : linked'[s] => linked[s] /\ owner[s] # c /\ owner[s] \in Clients
      /\ \A d \in Clients \ {c} : link'[d] = link[d]
  BY <1>1 DEF LinksInv, StreamTypeOK
<1>3. LinksInv'
  BY <1>1, <1>2 DEF LinksInv, Idle
<1>4. BootsInv'
  <2>1. Len(wire'[c]) = 0
    BY <1>1
  <2>2. link'[c] = "down"
    BY <1>1 DEF StreamTypeOK
  <2> QED BY <1>1, <1>2, <2>1, <2>2 DEF BootsInv
<1>5. ToldInv'
  <2>1. ASSUME NEW d \in Clients, NEW t \in Topics
        PROVE  ClientTold(d, t)'
    <3>1. CASE d = c
      <4>1. Len(wire'[c]) = 0
        BY <1>1
      <4> QED BY <1>1, <3>1, <4>1 DEF ToldInv, ClientTold
    <3>2. CASE d # c
      BY <1>1, <3>2, ClientStays DEF ToldInv
    <3> QED BY <3>1, <3>2
  <2>2. ASSUME NEW s \in Streams, NEW t \in Topics, Speaks(s)'
        PROVE  StreamTold(s, t)'
    BY <1>1, <1>2, <2>2, StreamStays DEF ToldInv, Speaks
  <2> QED BY <2>1, <2>2 DEF ToldInv
<1> QED BY <1>3, <1>4, <1>5

\* The page opens a stream anew, from what its regions show.
LEMMA ResubscribeTold ==
    ASSUME ResumeInv, StreamTypeOK', NEW c \in Clients, Resubscribe(c)
    PROVE  ResumeInv'
<1> USE DEF ResumeInv
<1>1. /\ UNCHANGED <<boot, phase, owner, linked, known, stale, out, link, wire>>
      /\ link[c] = "down" /\ lastId' = [lastId EXCEPT ![c] = NoId]
  BY DEF Resubscribe, hubVars, handlerVars
<1>2. PICK b, v, w : /\ url' = [url EXCEPT ![c] = [boot |-> b, v |-> v]]
                     /\ told' = [told EXCEPT ![c] = w]
                     /\ b \in {0, boot} /\ v \in [Topics -> Nat] /\ w \in Versions
                     /\ v = w \/ b = 0
  BY ResubscribeDoes
<1>3. /\ lastId'[c] = NoId /\ url'[c].boot = b /\ url'[c].v = v /\ told'[c] = w
      /\ \A d \in Clients \ {c} :
           url'[d] = url[d] /\ told'[d] = told[d] /\ lastId'[d] = lastId[d]
      /\ wire[c] = <<>> /\ boot \in Nat /\ boot >= 1
      /\ \A s \in Streams : linked[s] => owner[s] # c /\ owner[s] \in Clients
  BY <1>1, <1>2 DEF StreamTypeOK, CountersTypeOK, LinksInv, BootsInv
<1>4. LinksInv'
  BY <1>1 DEF LinksInv, Idle
<1>5. BootsInv'
  BY <1>1, <1>2, <1>3 DEF BootsInv, NoId
<1>6. ToldInv'
  <2>1. ASSUME NEW d \in Clients, NEW t \in Topics
        PROVE  ClientTold(d, t)'
    <3>1. CASE d = c
      <4>1. Len(wire'[c]) = 0 /\ v[t] \in Nat
        BY <1>1, <1>2, <1>3
      <4>2. url'[c].boot = boot' => v = w
        BY <1>1, <1>2, <1>3
      <4>3. lastId'[c].boot # boot'
        BY <1>1, <1>3 DEF NoId
      <4> QED BY <1>3, <3>1, <4>1, <4>2, <4>3 DEF ClientTold
    <3>2. CASE d # c
      BY <1>1, <1>3, <3>2, ClientStays DEF ToldInv
    <3> QED BY <3>1, <3>2
  <2>2. ASSUME NEW s \in Streams, NEW t \in Topics, Speaks(s)'
        PROVE  StreamTold(s, t)'
    BY <1>1, <1>3, <2>2, StreamStays DEF ToldInv, Speaks
  <2> QED BY <2>1, <2>2 DEF ToldInv
<1> QED BY <1>4, <1>5, <1>6

LEMMA ResumeStep == ResumeInv /\ [StreamNext]_streamVars => ResumeInv'
<1> SUFFICES ASSUME ResumeInv, [StreamNext]_streamVars
             PROVE  ResumeInv'
  OBVIOUS
<1>1. StreamTypeOK /\ StreamTypeOK'
  BY StreamTypeStep DEF ResumeInv
<1>2. CASE \/ \E T \in SUBSET Topics : Notify(T)
           \/ Close \/ UNCHANGED streamVars
  <2>1. /\ UNCHANGED <<boot, owner, linked, known, stale, out, link, wire, url, lastId, told>>
        /\ UNCHANGED phase
    BY <1>2 DEF Notify, RaiseLocked, Close, streamVars, hubVars, handlerVars, clientVars
  <2> QED BY <1>1, <2>1, QuietTold DEF Idle, Speaks
<1>3. ASSUME NEW s \in Streams, Take(s) \/ Heartbeat(s) \/ (CheckDone(s) /\ ~closed)
      PROVE  ResumeInv'
  <2>1. UNCHANGED <<boot, owner, linked, known, stale, out, link, wire, url, lastId, told>>
    BY <1>3 DEF Take, Heartbeat, CheckDone, hubVars, clientVars
  <2>2. \A r \in Streams : (Idle(r)' => Idle(r)) /\ (Speaks(r)' => Speaks(r))
    BY <1>1, <1>3 DEF Take, Heartbeat, CheckDone, StreamTypeOK, Idle, Speaks
  <2> QED BY <1>1, <2>1, <2>2, QuietTold
<1>4. CASE Restart
  BY <1>1, <1>4, RestartTold
<1>5. ASSUME NEW c \in Clients, NEW s \in Streams, Open(c, s)
      PROVE  ResumeInv'
  BY <1>1, <1>5, OpenTold
<1>6. ASSUME NEW s \in Streams, Compose(s) \/ Write(s)
      PROVE  ResumeInv'
  BY <1>1, <1>6, ComposeTold, WriteKeeps
<1>7. ASSUME NEW s \in Streams,
             CheckDone(s) \/ WriteFails(s) \/ Lifetime(s) \/ SeesDone(s) \/ SeesGone(s)
      PROVE  \/ Return(s) /\ (UNCHANGED <<linked, link>> \/ Hangup(s))
             \/ CheckDone(s) /\ ~closed
  BY <1>7 DEF CheckDone, WriteFails, Lifetime, SeesDone, SeesGone, Leave, Broken
<1>9. ASSUME NEW s \in Streams, Return(s), UNCHANGED <<linked, link>> \/ Hangup(s)
      PROVE  ResumeInv'
  <2>1. /\ UNCHANGED <<boot, owner, wire, url, lastId, told>>
        /\ phase'[s] = "ending" /\ out'[s] = <<>>
        /\ \A r \in Streams \ {s} :
             /\ phase'[r] = phase[r] /\ known'[r] = known[r]
             /\ stale'[r] = stale[r] /\ out'[r] = out[r]
    BY <1>1, <1>9 DEF Return, hubVars, StreamTypeOK
  <2> QED BY <1>1, <1>9, <2>1, EndTold DEF Speaks
<1>10. ASSUME NEW s \in Streams, FlushHeader(s) \/ LastChunk(s)
       PROVE  ResumeInv'
  <2>1. /\ UNCHANGED <<boot, owner, known, stale, out, wire, url, lastId, told>>
        /\ \A r \in Streams \ {s} : phase'[r] = phase[r]
        /\ phase[s] \in {"opening", "ending"}
    BY <1>1, <1>10 DEF FlushHeader, LastChunk, hubVars, StreamTypeOK
  <2>2. out[s] = <<>>
    BY <2>1 DEF ResumeInv, LinksInv, Idle
  <2>3. CASE Hangup(s)
    <3>1. ~linked'[s]
      BY <1>1, <2>3 DEF Hangup, StreamTypeOK
    <3> QED BY <1>1, <2>1, <2>2, <2>3, <3>1, EndTold DEF Speaks
  <2>4. CASE FlushHeader(s) /\ UNCHANGED <<linked, link>>
    <3>1. \A r \in Streams : (Idle(r)' => Idle(r)) /\ (Speaks(r)' => Speaks(r))
      BY <1>1, <2>1, <2>4 DEF FlushHeader, StreamTypeOK, Idle, Speaks
    <3> QED BY <1>1, <2>1, <2>4, <3>1, QuietTold
  <2> QED BY <1>10, <2>3, <2>4 DEF FlushHeader, LastChunk, Broken
<1>8. ASSUME NEW c \in Clients, Read(c) \/ ReadEnd(c) \/ Cut(c) \/ Resubscribe(c)
      PROVE  ResumeInv'
  BY <1>1, <1>8, ReadKeeps, LinkEnds, ResubscribeTold
<1> QED BY <1>2, <1>3, <1>4, <1>5, <1>6, <1>7, <1>8, <1>9, <1>10 DEF StreamNext

\* No change is skipped when a stream is resumed: what a handler takes its
\* client to know was told to it by the running process, or is on its way.
THEOREM StreamSkipsNothing == StreamSpec => []SkipsNothing
<1>1. ResumeInv => SkipsNothing
  <2> SUFFICES ASSUME ResumeInv, NEW s \in Subs, linked[s], NEW t \in Topics, ~stale[s][t],
                      ~(known[s][t] <= told[owner[s]][t])
               PROVE  \E e \in ToSet(wire[owner[s]]) \cup ToSet(out[s]) :
                        e.topic = t /\ e.v >= known[s][t]
    BY DEF SkipsNothing
  <2>0. s \in Streams /\ Speaks(s)
    BY DEF Subs, Speaks
  <2>1. WillKnow(s, Len(out[s]), t, known[s][t])
    BY <2>0 DEF ResumeInv, ToldInv, StreamTold
  <2>2. /\ DOMAIN out[s] = 1..Len(out[s])
        /\ DOMAIN wire[owner[s]] = 1..Len(wire[owner[s]])
    BY <2>0, LenProperties DEF ResumeInv, StreamTypeOK
  <2>3. \/ \E j \in 1..Len(wire[owner[s]]) :
              wire[owner[s]][j].topic = t /\ wire[owner[s]][j].v >= known[s][t]
        \/ \E j \in 1..Len(out[s]) : out[s][j].topic = t /\ out[s][j].v >= known[s][t]
    BY <2>1 DEF WillKnow, Brings
  <2> QED BY <2>2, <2>3, Zenon DEF ToSet
<1> QED BY <1>1, ResumeInitial, ResumeStep, PTL DEF StreamSpec

=============================================================================
