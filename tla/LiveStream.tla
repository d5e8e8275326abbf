----------------------------- MODULE LiveStream -----------------------------
(***************************************************************************)
(* The change stream (live/stream.go): Hub.serveStream's handler          *)
(* goroutines, the wake channels Notify sends on, and the Last-Event-ID by *)
(* which a client, or the edge that holds its stream, resumes one.         *)
(*                                                                         *)
(* A handler never holds the hub's lock while it writes.  Once admitted it *)
(* flushes the response's header; then it reads the counters under the     *)
(* lock, builds one event per topic that moved, checks that the hub is not *)
(* closed, writes, and waits for a wake; and after it has returned         *)
(* net/http writes the closing chunk.  Changes land between any two of     *)
(* these steps, and the connection may break at any of them.               *)
(* The client and the connection are external: what is modelled of         *)
(* them is that bytes arrive in order, and that a broken connection loses  *)
(* an unknown suffix of what was written.                                  *)
(***************************************************************************)
EXTENDS LiveCounters, Sequences, SequencesExt, FiniteSets

CONSTANTS
    Clients,     \* open pages, each following every topic
    Streams,     \* handler goroutines
    MaxStreams,  \* Config.MaxStreams
    MaxCuts      \* bound: connections broken by the network

ASSUME StreamAssumption ==
    /\ IsFiniteSet(Topics)
    /\ Clients # {}
    /\ MaxStreams \in Nat
    /\ MaxCuts \in Nat

VARIABLES
    closed,  \* Hub.closed, and Hub.done closed with it
    phase,   \* per stream: where its handler is; "ending" has returned, with
             \* the closing chunk to come
    owner,   \* per stream: the client that opened it last
    linked,  \* per stream: its client is still at the other end
    known,   \* per stream and topic: watch.known
    stale,   \* per stream and topic: watch.stale
    wake,    \* per stream: the wake channel, capacity 1, holds a wake
    out,     \* per stream: the events composed and not yet written
    link,    \* per client: "down", "up", or "eof" (ended, not read to the end)
    wire,    \* per client: events written and not yet read
    url,     \* per client: the boot and versions its URL carries
    lastId,  \* per client: the ID of the last event it read
    told,    \* per client and topic: the newest version of this process the
             \* client has: its URL's, or an event's it read
    late,    \* per stream: writes that were under way or begun since the
             \* hub closed, up to 3
    cuts     \* connections broken so far

handlerVars == <<phase, owner, linked, known, stale, wake, out, late>>
clientVars == <<link, wire, url, lastId, told>>
streamVars == <<hubVars, closed, handlerVars, clientVars, cuts>>

\* A topic an ID leaves out, or a version the client has never been told.
Absent == -1

Versions == [Topics -> Nat \cup {Absent}]

\* The ID of a client that read no event.
NoId == [boot |-> 0, v |-> [t \in Topics |-> Absent]]

Event == [topic : Topics, v : Nat, id : [boot : Nat, v : Versions]]

Phases == {"free", "opening", "reading", "composed", "writing", "waiting", "ending"}

StreamTypeOK ==
    /\ CountersTypeOK
    /\ closed \in BOOLEAN
    /\ phase \in [Streams -> Phases]
    /\ owner \in [Streams -> Clients]
    /\ linked \in [Streams -> BOOLEAN]
    /\ known \in [Streams -> [Topics -> Nat]]
    /\ stale \in [Streams -> [Topics -> BOOLEAN]]
    /\ wake \in [Streams -> BOOLEAN]
    /\ out \in [Streams -> Seq(Event)]
    /\ link \in [Clients -> {"down", "up", "eof"}]
    /\ wire \in [Clients -> Seq(Event)]
    /\ url \in [Clients -> [boot : Nat, v : [Topics -> Nat]]]
    /\ lastId \in [Clients -> [boot : Nat, v : Versions]]
    /\ told \in [Clients -> Versions]
    /\ late \in [Streams -> 0..3]
    /\ cuts \in Nat

\* The watches of a stream that is not open.
NoneKnown == [t \in Topics |-> 0]
NoneStale == [t \in Topics |-> FALSE]

\* Each client starts as a page rendered by the first process.
StreamInit ==
    /\ CountersInit
    /\ closed = FALSE
    /\ phase = [s \in Streams |-> "free"]
    /\ owner = [s \in Streams |-> CHOOSE c \in Clients : TRUE]
    /\ linked = [s \in Streams |-> FALSE]
    /\ known = [s \in Streams |-> NoneKnown]
    /\ stale = [s \in Streams |-> NoneStale]
    /\ wake = [s \in Streams |-> FALSE]
    /\ out = [s \in Streams |-> <<>>]
    /\ link = [c \in Clients |-> "down"]
    /\ wire = [c \in Clients |-> <<>>]
    /\ url = [c \in Clients |-> [boot |-> 1, v |-> [t \in Topics |-> 0]]]
    /\ lastId = [c \in Clients |-> NoId]
    /\ told = [c \in Clients |-> [t \in Topics |-> 0]]
    /\ late = [s \in Streams |-> 0]
    /\ cuts = 0

-----------------------------------------------------------------------------
(* The hub. *)

Subs == {s \in Streams : phase[s] \notin {"free", "ending"}}

\* Mutant: a wake channel without a buffer, whose non-blocking send finds a
\* receiver only while the handler is parked in its select.
WakeParked == wake' = [s \in Streams |-> IF phase[s] = "waiting" THEN TRUE ELSE wake[s]]

\* raiseLocked's wake of every open stream: a send that finds the channel
\* full leaves the wake that is already there.
WakeAll == wake' = [s \in Streams |-> IF s \in Subs THEN TRUE ELSE wake[s]]

\* Notify raises T's counters and wakes every stream, under one lock.
Notify(T) ==
    /\ T # {}
    /\ RaiseLocked(T)
    /\ WakeAll
    /\ UNCHANGED <<closed, phase, owner, linked, known, stale, out, late, clientVars, cuts>>

\* Hub.Close, when a shutdown starts.
Close ==
    /\ ~closed
    /\ closed' = TRUE
    /\ UNCHANGED <<hubVars, handlerVars, clientVars, cuts>>

\* The process ends with its handlers.  What a handler wrote may still reach
\* the client; nothing said of the old process counts in the new one.
Restart ==
    /\ NewProcess
    /\ closed' = FALSE
    /\ phase' = [s \in Streams |-> "free"]
    /\ linked' = [s \in Streams |-> FALSE]
    /\ known' = [s \in Streams |-> NoneKnown]
    /\ stale' = [s \in Streams |-> NoneStale]
    /\ wake' = [s \in Streams |-> FALSE]
    /\ out' = [s \in Streams |-> <<>>]
    /\ late' = [s \in Streams |-> 0]
    /\ link' = [c \in Clients |-> IF link[c] = "up" THEN "eof" ELSE link[c]]
    /\ told' = [c \in Clients |-> [t \in Topics |-> Absent]]
    /\ UNCHANGED <<owner, wire, url, lastId, cuts>>

-----------------------------------------------------------------------------
(* The handler. *)

\* Mutant of Resumed: the versions of any boot's ID count.
ResumedAnyBoot(c, t) == lastId[c].v[t] # Absent

\* resume: the client's Last-Event-ID stands in for the URL's version of t.
\* It counts only when this process wrote it, and only for a topic it names.
Resumed(c, t) == lastId[c].boot = boot /\ lastId[c].v[t] # Absent

\* parseWatches and resume, then admit.  Admission is one step with them:
\* they read only the request and the boot ID, which never changes.
Open(c, s) ==
    /\ link[c] = "down"
    /\ phase[s] = "free"
    /\ ~closed
    /\ Cardinality(Subs) < MaxStreams
    /\ phase' = [phase EXCEPT ![s] = "opening"]
    /\ owner' = [owner EXCEPT ![s] = c]
    /\ linked' = [linked EXCEPT ![s] = TRUE]
    /\ known' = [known EXCEPT ![s] =
                   [t \in Topics |-> IF Resumed(c, t) THEN lastId[c].v[t] ELSE url[c].v[t]]]
    /\ stale' = [stale EXCEPT ![s] =
                   [t \in Topics |-> ~Resumed(c, t) /\ url[c].boot # boot]]
    /\ wake' = [wake EXCEPT ![s] = FALSE]
    /\ out' = [out EXCEPT ![s] = <<>>]
    /\ late' = [late EXCEPT ![s] = 0]
    /\ link' = [link EXCEPT ![c] = "up"]
    /\ UNCHANGED <<hubVars, closed, wire, url, lastId, told, cuts>>

\* A write ends, well or not: after Close it is one the drain waited for.
Counted(s) == late' = [late EXCEPT ![s] = IF closed /\ @ < 3 THEN @ + 1 ELSE @]

\* The response is over for the client at the other end, if it is there yet.
Hangup(s) ==
    /\ linked' = [linked EXCEPT ![s] = FALSE]
    /\ link' = [c \in Clients |-> IF linked[s] /\ owner[s] = c THEN "eof" ELSE link[c]]

\* A write fails: the client is gone, or stopped reading past WriteDeadline.
Broken(s) ==
    /\ IF linked[s] THEN cuts < MaxCuts /\ cuts' = cuts + 1 ELSE cuts' = cuts
    /\ Hangup(s)

\* The header is flushed, with no look at done.  Flush hides an error, which
\* ends the request's context: the handler goes on and finds out later.
FlushHeader(s) ==
    /\ phase[s] = "opening"
    /\ phase' = [phase EXCEPT ![s] = "reading"]
    /\ Counted(s)
    /\ UNCHANGED <<linked, link, cuts>> \/ Broken(s)
    /\ UNCHANGED <<hubVars, closed, owner, known, stale, wake, out, wire, url, lastId, told>>

\* The select's wake case: the wake is taken before the counters are read.
Take(s) ==
    /\ phase[s] = "waiting"
    /\ wake[s]
    /\ wake' = [wake EXCEPT ![s] = FALSE]
    /\ phase' = [phase EXCEPT ![s] = "reading"]
    /\ UNCHANGED <<hubVars, closed, owner, linked, known, stale, out, late, clientVars, cuts>>

Moved(s) == {t \in Topics : stale[s][t] \/ counter[t] > known[s][t]}

\* The ID of the i-th event of a pass over the topics in that order: built
\* after only its own topic and the ones before it advanced, and without
\* the topics still stale, whose numbers are another boot's.
ChangeId(s, order, i) ==
    [boot |-> boot,
     v |-> [t \in Topics |-> IF t \in {order[j] : j \in 1..i} THEN counter[t]
                             ELSE IF stale[s][t] THEN Absent ELSE known[s][t]]]

\* changes: the counters of one moment, and an event for each topic that
\* moved past what the client has, in the order of its watches.
Compose(s) ==
    /\ phase[s] = "reading"
    /\ IF Moved(s) = {}
       THEN /\ phase' = [phase EXCEPT ![s] = "waiting"]
            /\ UNCHANGED <<known, stale, out>>
       ELSE /\ phase' = [phase EXCEPT ![s] = "composed"]
            /\ \E order \in SetToSeqs(Moved(s)) :
                 out' = [out EXCEPT ![s] =
                           [i \in DOMAIN order |->
                              [topic |-> order[i], v |-> counter[order[i]],
                               id |-> ChangeId(s, order, i)]]]
            /\ known' = [known EXCEPT ![s] =
                           [t \in Topics |-> IF t \in Moved(s) THEN counter[t] ELSE @[t]]]
            /\ stale' = [stale EXCEPT ![s] = [t \in Topics |-> FALSE]]
    /\ UNCHANGED <<hubVars, closed, owner, linked, wake, late, clientVars, cuts>>

\* The heartbeat case: a comment line, which tells the client nothing.
Heartbeat(s) ==
    /\ phase[s] = "waiting"
    /\ phase' = [phase EXCEPT ![s] = "composed"]
    /\ UNCHANGED <<hubVars, closed, owner, linked, known, stale, wake, out, late, clientVars, cuts>>

\* The handler returns: unregister, and a fresh deadline for the last write.
Return(s) ==
    /\ phase' = [phase EXCEPT ![s] = "ending"]
    /\ known' = [known EXCEPT ![s] = NoneKnown]
    /\ stale' = [stale EXCEPT ![s] = NoneStale]
    /\ wake' = [wake EXCEPT ![s] = FALSE]
    /\ out' = [out EXCEPT ![s] = <<>>]
    /\ UNCHANGED <<hubVars, closed, owner, wire, url, lastId, told>>

\* The closing chunk, which net/http writes behind the handler's back.
LastChunk(s) ==
    /\ phase[s] = "ending"
    /\ phase' = [phase EXCEPT ![s] = "free"]
    /\ Hangup(s)
    /\ Counted(s)
    /\ UNCHANGED <<hubVars, closed, owner, known, stale, wake, out, wire, url, lastId, told, cuts>>

\* A return with the connection as it was.
Leave(s) == Return(s) /\ UNCHANGED <<linked, link, late, cuts>>

\* Mutant: write without the check of done.
CheckNothing(s) ==
    /\ phase[s] = "composed"
    /\ phase' = [phase EXCEPT ![s] = "writing"]
    /\ UNCHANGED <<hubVars, closed, owner, linked, known, stale, wake, out, late, clientVars, cuts>>

\* write: done is checked before every write, because select picks at random
\* among its ready cases.
CheckDone(s) ==
    /\ phase[s] = "composed"
    /\ IF closed
       THEN Leave(s)
       ELSE /\ phase' = [phase EXCEPT ![s] = "writing"]
            /\ UNCHANGED <<hubVars, closed, owner, linked, known, stale, wake, out, late, clientVars, cuts>>

\* The bytes go out.  A client that is gone never reads them.
Write(s) ==
    /\ phase[s] = "writing"
    /\ phase' = [phase EXCEPT ![s] = "waiting"]
    /\ wire' = [c \in Clients |-> IF linked[s] /\ owner[s] = c THEN wire[c] \o out[s] ELSE wire[c]]
    /\ out' = [out EXCEPT ![s] = <<>>]
    /\ Counted(s)
    /\ UNCHANGED <<hubVars, closed, owner, linked, known, stale, wake, link, url, lastId, told, cuts>>

WriteFails(s) == phase[s] = "writing" /\ Broken(s) /\ Counted(s) /\ Return(s)

\* Mutant of SeesDone: the select of a live connection has no done case.
SeesDoneWhenGone(s) ==
    phase[s] = "waiting" /\ closed /\ ~linked[s] /\ Leave(s)

\* The select's other cases: the lifetime is over, the hub closed, or the
\* request's context ended because the client is gone.
Lifetime(s) == phase[s] = "waiting" /\ Leave(s)
SeesDone(s) == phase[s] = "waiting" /\ closed /\ Leave(s)
SeesGone(s) == phase[s] = "waiting" /\ ~linked[s] /\ Leave(s)

-----------------------------------------------------------------------------
(* The client, and the network. *)

\* The client reads the next event.  An event of a process that has ended
\* tells it nothing about this one's versions.
Read(c) ==
    /\ wire[c] # <<>>
    /\ LET e == Head(wire[c]) IN
         /\ lastId' = [lastId EXCEPT ![c] = e.id]
         /\ told' = IF e.id.boot = boot /\ e.v > told[c][e.topic]
                    THEN [told EXCEPT ![c][e.topic] = e.v] ELSE told
    /\ wire' = [wire EXCEPT ![c] = Tail(@)]
    /\ UNCHANGED <<hubVars, closed, handlerVars, link, url, cuts>>

\* The client has read to the end of a response that ended.
ReadEnd(c) ==
    /\ link[c] = "eof"
    /\ wire[c] = <<>>
    /\ link' = [link EXCEPT ![c] = "down"]
    /\ UNCHANGED <<hubVars, closed, handlerVars, wire, url, lastId, told, cuts>>

\* The connection breaks, and what was written and not read is lost.  The
\* handler finds out later.
Cut(c) ==
    /\ link[c] # "down"
    /\ cuts < MaxCuts
    /\ cuts' = cuts + 1
    /\ link' = [link EXCEPT ![c] = "down"]
    /\ wire' = [wire EXCEPT ![c] = <<>>]
    /\ linked' = [s \in Streams |-> linked[s] /\ owner[s] # c]
    /\ UNCHANGED <<hubVars, closed, phase, owner, known, stale, wake, out, late, url, lastId, told>>

\* live.js's own reconnect: a new EventSource without a Last-Event-ID, from
\* the versions the page's regions show by now, however old.  Of another
\* process, or of several, for which no boot is sent, the numbers say nothing:
\* boot 0 stands for them.
Resubscribe(c) ==
    /\ link[c] = "down"
    /\ \/ \E v \in [Topics -> 0..MaxSeq] :
            /\ \A t \in Topics : v[t] <= counter[t]
            /\ url' = [url EXCEPT ![c] = [boot |-> boot, v |-> v]]
            /\ told' = [told EXCEPT ![c] = v]
       \/ /\ url' = [url EXCEPT ![c] = [boot |-> 0, v |-> NoneKnown]]
          /\ told' = [told EXCEPT ![c] = [t \in Topics |-> Absent]]
    /\ lastId' = [lastId EXCEPT ![c] = NoId]
    /\ UNCHANGED <<hubVars, closed, handlerVars, link, wire, cuts>>

-----------------------------------------------------------------------------

StreamNext ==
    \/ \E T \in SUBSET Topics : Notify(T)
    \/ Close
    \/ Restart
    \/ \E c \in Clients, s \in Streams : Open(c, s)
    \/ \E s \in Streams :
         FlushHeader(s) \/ Take(s) \/ Compose(s) \/ Heartbeat(s) \/ CheckDone(s) \/ Write(s)
           \/ WriteFails(s) \/ LastChunk(s) \/ Lifetime(s) \/ SeesDone(s) \/ SeesGone(s)
    \/ \E c \in Clients : Read(c) \/ ReadEnd(c) \/ Cut(c) \/ Resubscribe(c)

StreamSpec == StreamInit /\ [][StreamNext]_streamVars

\* The handler's step that does not wait for anything but a write.
Runs(s) == FlushHeader(s) \/ Compose(s) \/ CheckDone(s) \/ Write(s) \/ LastChunk(s)

\* Go runs a goroutine that can run, and a client that is connected reads and
\* one that is not reconnects.  The cases of a select are fair in the strong
\* sense: a select that finds several ready picks one at random, so a case
\* that is ready every time around is not passed over for ever by the
\* heartbeats.  Nothing forces a change, a shutdown or a failure.
StreamFairness ==
    /\ \A s \in Streams :
         /\ WF_streamVars(Runs(s))
         /\ SF_streamVars(Take(s)) /\ SF_streamVars(SeesDone(s) \/ SeesGone(s))
    /\ \A c \in Clients :
         /\ WF_streamVars(Read(c) \/ ReadEnd(c))
         /\ WF_streamVars(\E s \in Streams : Open(c, s))

FairStreamSpec == StreamSpec /\ StreamFairness

-----------------------------------------------------------------------------
(* Properties. *)

\* No wake is lost: a handler that has read the counters and is behind them
\* again has a wake waiting, whether it is writing or parked.  This is what
\* subscribing before reading versions, and a channel of capacity 1, buy;
\* without it a stream sleeps on a change until its lifetime ends.
NoLostWake ==
    \A s \in Streams : phase[s] \in {"composed", "writing", "waiting"}
        => (Moved(s) # {} => wake[s])

\* A stream skips no change: what it takes its client to know the client was
\* told, or is about to read, whatever URL and Last-Event-ID opened it.
SkipsNothing ==
    \A s \in Subs : linked[s] => \A t \in Topics :
        \/ stale[s][t]
        \/ known[s][t] <= told[owner[s]][t]
        \/ \E e \in ToSet(wire[owner[s]]) \cup ToSet(out[s]) :
             e.topic = t /\ e.v >= known[s][t]

\* A shutdown waits for two writes of a stream at the most, each within its
\* deadline: the header or the write under way when Close came, which Close
\* cannot interrupt, and the closing chunk.  Between them no stream starts
\* another, however often it wakes.
TwoWritesAfterClose == \A s \in Streams : late[s] <= 2

\* Every client hears of every change: one that is behind on a topic is in
\* time told its newest version, through cuts, lifetimes and restarts,
\* unless the hub is closing.
EveryoneIsTold ==
    \A c \in Clients, t \in Topics :
        told[c][t] < counter[t] ~> (told[c][t] >= counter[t] \/ closed)

\* Close ends every stream, to the last of its bytes, so a drain that waits
\* for their connections ends too.
CloseDrains == closed ~> \A s \in Streams : phase[s] = "free"

=============================================================================
