------------------------- MODULE RecordSignInProofs --------------------------
(***************************************************************************)
(* Links are single-use and lost to nobody else's call, and an address has *)
(* one user whose record only moves forward, for any number of links, of   *)
(* requests and of days.                                                   *)
(***************************************************************************)
EXTENDS RecordSignIn, FiniteSetTheorems, TLAPS

(* Days *)

LEMMA DayIsInt == ASSUME NEW a \in Int PROVE Day(a) \in Int
  BY LinksAssumption DEF Day

\* A day has DayLength moments.
LEMMA DayBounds ==
    ASSUME NEW a \in Nat
    PROVE  /\ DayLength * Day(a) <= a
           /\ a < DayLength * (Day(a) + 1)
<1>1. DayLength \in Nat /\ DayLength > 0
  BY LinksAssumption
<1>2. QED
  BY <1>1 DEF Day

\* Later moments have no earlier day.
LEMMA DayMonotone ==
    ASSUME NEW a \in Nat, NEW b \in Nat, a <= b
    PROVE  Day(a) <= Day(b)
<1>1. SUFFICES ASSUME Day(b) + 1 <= Day(a) PROVE FALSE
  BY DayIsInt
<1>2. DayLength \in Nat /\ DayLength > 0
  BY LinksAssumption
<1>3. DayLength * (Day(b) + 1) <= DayLength * Day(a)
  BY <1>1, <1>2, DayIsInt
<1>4. QED
  BY <1>2, <1>3, DayIsInt, DayBounds

\* Two midnights apart, two moments are more than a day apart.
LEMMA DaysApart ==
    ASSUME NEW a \in Nat, NEW b \in Nat, Day(a) < Day(b) - 1
    PROVE  a + DayLength < b
<1>1. DayLength \in Nat /\ DayLength > 0
  BY LinksAssumption
<1>2. DayLength * (Day(a) + 2) <= DayLength * Day(b)
  BY <1>1, DayIsInt
<1>3. DayLength * (Day(a) + 2) = DayLength * (Day(a) + 1) + DayLength
  BY <1>1, DayIsInt
<1>4. DayLength * (Day(a) + 1) \in Int /\ DayLength * Day(b) \in Int /\ DayLength * (Day(a) + 2) \in Int
  BY <1>1, DayIsInt
<1>5. QED
  BY <1>1, <1>2, <1>3, <1>4, DayBounds

-----------------------------------------------------------------------------
(* Links *)

Busy == {"read", "mark", "delete", "judge"}

Free == [pc : {"idle", "keymail"}, start : {0}, marked : {FALSE}]
Taking == [pc : Busy \cup {"won", "refused", "failed"}, token : Tokens, start : Int, marked : BOOLEAN]

LinkShape ==
    /\ clock \in Nat
    /\ sent \in [Tokens -> Nat \cup {Never}]
    /\ take \in [Calls -> Free \cup Taking]
    /\ sweep \in [pc : {"idle", "links", "used"}, cutoff : Int]

Marked(c, t) == take[c].marked /\ take[c].token = t

\* Its day is one the sweep may clear.
Bygone(t) == Day(sent[t]) < Day(clock) - 1

\* It has won, or is to.
Spending(r) ==
    \/ r.pc = "won"
    \/ r.pc \in {"delete", "judge"} /\ r.start <= sent[r.token] + LinkTTL

Spends(c) == Spending(take[c])

\* A redemption begins after its link was sent, and none outlasts MaxStall.
Timely ==
    \A c \in Calls : take[c].pc \in Busy =>
        /\ take[c].start \in Nat
        /\ sent[take[c].token] <= take[c].start /\ take[c].start <= clock
        /\ clock <= take[c].start + MaxStall

Sent ==
    /\ \A t \in Tokens : sent[t] <= clock
    /\ \A c \in Calls : take[c].pc \notin {"idle", "keymail"} => sent[take[c].token] # Never

MarkedInOrder ==
    \A c \in Calls : /\ take[c].pc \in {"read", "mark"} => ~take[c].marked
                     /\ take[c].pc \in {"delete", "judge", "won"} => take[c].marked

Trailing == sweep.pc # "idle" => sweep.cutoff <= Day(clock) - 1

\* A marker is some call's, and stays until its day is gone; a link stays
\* until some call has spent it, or its day is gone.
MarkersAreCalls == \A t \in used : \E d \in Calls : Marked(d, t)
MarkersStay == \A c \in Calls : take[c].marked => take[c].token \in used \/ Bygone(take[c].token)
LinksStay == \A t \in Tokens : sent[t] # Never => t \in stored \/ Bygone(t) \/ \E d \in Calls : Marked(d, t)

SpentOnce == \A c, d \in Calls : (Spends(c) /\ Spends(d) /\ take[c].token = take[d].token) => c = d

LinkInv ==
    /\ LinkShape
    /\ Timely /\ Sent /\ MarkedInOrder /\ Trailing
    /\ MarkersAreCalls /\ MarkersStay /\ LinksStay
    /\ SpentOnce

\* One call refused, by what is known before the step.
Cause(c) ==
    \/ take[c].start > sent[take[c].token] + LinkTTL
    \/ \E d \in Calls \ {c} : take[d].marked /\ take[d].token = take[c].token

RefusedStep == \A c \in Calls : (take[c].pc # "refused" /\ take'[c].pc = "refused") => Cause(c)

LEMMA LinkInvInit == LinksInit => LinkInv
<1> SUFFICES ASSUME LinksInit PROVE LinkInv
  OBVIOUS
<1>1. clock \in Nat
  BY LinksAssumption DEF LinksInit
<1>2. take = [c \in Calls |-> Idle] /\ \A c \in Calls : take[c] = Idle /\ take[c] \in Free
  BY DEF LinksInit, Idle, Free
<1>3. LinkShape
  <2>1. take \in [Calls -> Free \cup Taking]
    BY <1>2
  <2>2. sent \in [Tokens -> Nat \cup {Never}]
    BY DEF LinksInit
  <2>3. sweep \in [pc : {"idle", "links", "used"}, cutoff : Int]
    BY DEF LinksInit
  <2>4. QED
    BY <1>1, <2>1, <2>2, <2>3 DEF LinkShape
<1>4. Timely /\ MarkedInOrder /\ MarkersStay /\ SpentOnce
  BY <1>2 DEF Timely, MarkedInOrder, MarkersStay, SpentOnce, Spends, Spending, Busy, Idle
<1>5. Sent /\ Trailing /\ MarkersAreCalls /\ LinksStay
  BY <1>1, <1>2 DEF LinksInit, Sent, Trailing, MarkersAreCalls, LinksStay, Never, Idle
<1>6. QED
  BY <1>3, <1>4, <1>5 DEF LinkInv

\* A link whose day is gone has expired for every call that may meet it.
LEMMA BygoneExpired ==
    ASSUME LinkInv, NEW c \in Calls, take[c].pc \in Busy, Bygone(take[c].token)
    PROVE  take[c].start > sent[take[c].token] + LinkTTL
<1>1. take[c] \in Taking
  BY DEF LinkInv, LinkShape, Free, Busy
<1>2. take[c].pc \notin {"idle", "keymail"} /\ take[c].token \in Tokens /\ take[c].start \in Int
  BY <1>1 DEF Taking, Busy
<1>3. sent[take[c].token] \in Nat /\ clock \in Nat
  BY <1>1, <1>2 DEF LinkInv, LinkShape, Sent
<1>4. sent[take[c].token] + DayLength < clock
  BY <1>3, DaysApart DEF Bygone
<1>5. clock <= take[c].start + MaxStall
  BY DEF LinkInv, Timely
<1>6. QED
  BY <1>2, <1>3, <1>4, <1>5, LinksAssumption

\* A call's progress that marks nothing, and deletes no link but one it
\* has marked.
LEMMA GoingOn ==
    ASSUME LinkInv, NEW c \in Calls, take[c] \in Taking,
           NEW r \in Taking, take' = [take EXCEPT ![c] = r],
           r.token = take[c].token, r.marked = take[c].marked,
           r.pc \in Busy => take[c].pc \in Busy /\ r.start = take[c].start,
           r.pc \in {"read", "mark"} => ~r.marked,
           r.pc \in {"delete", "judge", "won"} => r.marked,
           Spending(r) => Spends(c),
           \A t \in Tokens : t \in stored /\ t \notin stored' => Marked(c, t),
           UNCHANGED <<clock, sent, used, sweep>>
    PROVE  LinkInv'
<1>1. /\ take'[c] = r /\ \A d \in Calls \ {c} : take'[d] = take[d]
      /\ take' \in [Calls -> Free \cup Taking]
  BY DEF LinkInv, LinkShape
<1>2. LinkShape' /\ Timely' /\ MarkedInOrder' /\ Trailing'
  BY <1>1 DEF LinkInv, LinkShape, Timely, MarkedInOrder, Trailing
<1>3. Sent'
  BY <1>1 DEF LinkInv, Sent, Taking, Busy
<1>4. \A d \in Calls : /\ take'[d].marked <=> take[d].marked
                       /\ take[d].marked => take'[d].token = take[d].token
  BY <1>1
<1>5. \A d \in Calls, t \in Tokens : Marked(d, t) <=> Marked(d, t)'
  BY <1>1 DEF Marked
<1>6. MarkersStay'
  BY <1>4 DEF LinkInv, MarkersStay, Bygone
<1>7. MarkersAreCalls' /\ LinksStay'
  <2>1. MarkersAreCalls'
    BY <1>1 DEF LinkInv, MarkersAreCalls, Marked
  <2>2. LinksStay'
    BY <1>5 DEF LinkInv, LinksStay, Bygone
  <2>3. QED
    BY <2>1, <2>2
<1>8. \A d \in Calls : Spends(d)' => Spends(d) /\ take'[d].token = take[d].token
  <2>1. sent' = sent
    OBVIOUS
  <2>2. Spends(c)' => Spends(c)
    BY <1>1, <2>1 DEF Spends, Spending
  <2>3. \A d \in Calls \ {c} : Spends(d)' => Spends(d)
    BY <1>1, <2>1 DEF Spends, Spending
  <2>4. QED
    BY <1>1, <2>2, <2>3
<1>9. SpentOnce'
  BY <1>8 DEF LinkInv, SpentOnce
<1>10. QED
  BY <1>2, <1>3, <1>6, <1>7, <1>9 DEF LinkInv

\* No step refuses a call but that of the call itself.
LEMMA OthersRefuseNobody ==
    ASSUME NEW c \in Calls, \A d \in Calls \ {c} : take'[d] = take[d],
           (take[c].pc # "refused" /\ take'[c].pc = "refused") => Cause(c)
    PROVE  RefusedStep
  BY DEF RefusedStep

Moved(q, pc, st) == [q EXCEPT !.pc = pc, !.start = st]

LEMMA MovedIs ==
    ASSUME NEW q \in Taking, NEW pc \in Busy \cup {"won", "refused", "failed"}, NEW st \in Int
    PROVE  /\ Moved(q, pc, st) \in Taking
           /\ Moved(q, pc, st).pc = pc /\ Moved(q, pc, st).start = st
           /\ Moved(q, pc, st).token = q.token /\ Moved(q, pc, st).marked = q.marked
  BY DEF Taking, Moved

LEMMA GoesTo ==
    ASSUME LinkInv, NEW c \in Calls, take[c] \in Taking,
           NEW pc \in Busy \cup {"won", "refused", "failed"}, Goes(c, pc)
    PROVE  \E r \in Taking :
              /\ take' = [take EXCEPT ![c] = r]
              /\ r.pc = pc /\ r.token = take[c].token /\ r.marked = take[c].marked
              /\ r.start = IF pc \in {"won", "refused", "failed"} THEN 0 ELSE take[c].start
<1> DEFINE st == IF pc \in {"won", "refused", "failed"} THEN 0 ELSE take[c].start
<1>1. take' = [take EXCEPT ![c] = Moved(take[c], pc, st)]
  BY Zenon DEF Goes, Moved
<1>2. st \in Int
  BY DEF Taking
<1> HIDE DEF st
<1>3. /\ Moved(take[c], pc, st) \in Taking
      /\ Moved(take[c], pc, st).pc = pc /\ Moved(take[c], pc, st).start = st
      /\ Moved(take[c], pc, st).token = take[c].token /\ Moved(take[c], pc, st).marked = take[c].marked
  BY <1>2, MovedIs, ZenonT(30)
<1>4. QED
  BY <1>1, <1>3 DEF st

\* A call that goes on to be refused, or that fails, asks nothing of the
\* others.
LEMMA LeavingKeeps ==
    ASSUME LinkInv, NEW c \in Calls, take[c].pc \in Busy,
           NEW pc \in {"refused", "failed"}, Goes(c, pc),
           UNCHANGED <<clock, sent, stored, used, sweep>>
    PROVE  /\ LinkInv'
           /\ \A d \in Calls \ {c} : take'[d] = take[d]
           /\ take'[c].pc = pc
<1>1. take[c] \in Taking
  BY DEF LinkInv, LinkShape, Free, Busy
<1>2. PICK r \in Taking :
        /\ take' = [take EXCEPT ![c] = r]
        /\ r.pc = pc /\ r.token = take[c].token /\ r.marked = take[c].marked
  BY <1>1, GoesTo
<1>3. ~Spending(r) /\ r.pc \notin Busy
  BY <1>2 DEF Spending, Busy
<1>4. stored' = stored /\ \A t \in Tokens : t \in stored /\ t \notin stored' => Marked(c, t)
  OBVIOUS
<1>5. LinkInv'
  BY <1>1, <1>2, <1>3, <1>4, GoingOn DEF Busy
<1>6. \A d \in Calls \ {c} : take'[d] = take[d]
  BY <1>2 DEF LinkInv, LinkShape
<1>7. take'[c].pc = pc
  BY <1>2 DEF LinkInv, LinkShape
<1>8. QED
  BY <1>5, <1>6, <1>7

\* TakeLink's read of the link and its marker, and the day it looks under.
LEMMA ReadLinkKeeps ==
    ASSUME LinkInv, NEW c \in Calls, ReadLink(c)
    PROVE  LinkInv' /\ RefusedStep
<1> DEFINE t == take[c].token
<1>1. /\ take[c].pc = "read" /\ take[c].pc \in Busy /\ take[c] \in Taking
      /\ UNCHANGED <<clock, sent, stored, used, sweep>>
  BY DEF ReadLink, Busy, LinkInv, LinkShape, Free
<1>2. t \in Tokens /\ take[c].start \in Int /\ ~take[c].marked
  BY <1>1 DEF Taking, LinkInv, MarkedInOrder
<1>3. sent[t] \in Nat /\ sent[t] # Never /\ clock \in Nat
  BY <1>1, <1>2 DEF LinkInv, LinkShape, Sent
<1>4. CASE t \in stored /\ Day(sent[t]) \in Days(take[c].start)
  <2>1. Goes(c, "mark")
    BY <1>4 DEF ReadLink
  <2>2. PICK r \in Taking :
          /\ take' = [take EXCEPT ![c] = r]
          /\ r.pc = "mark" /\ r.token = take[c].token /\ r.marked = take[c].marked
          /\ r.start = take[c].start
    BY <1>1, <2>1, GoesTo DEF Busy
  <2>3. ~Spending(r) /\ r.pc \in Busy
    BY <2>2 DEF Spending, Busy
  <2>4. stored' = stored
    BY <1>1
  <2>5. LinkInv'
    BY <1>1, <1>2, <2>2, <2>3, <2>4, GoingOn
  <2>6. RefusedStep
    BY <1>1, <2>2, OthersRefuseNobody DEF LinkInv, LinkShape
  <2>7. QED
    BY <2>5, <2>6
<1>5. CASE t \notin stored \/ Day(sent[t]) \notin Days(take[c].start)
  <2>1. Goes(c, "refused")
    BY <1>5 DEF ReadLink
  <2>2. /\ LinkInv'
        /\ \A d \in Calls \ {c} : take'[d] = take[d]
    BY <1>1, <2>1, LeavingKeeps
  <2>3. Cause(c)
    <3>1. CASE t \notin stored
      <4>1. CASE Bygone(t)
        BY <1>1, <4>1, BygoneExpired DEF Cause
      <4>2. CASE \E d \in Calls : Marked(d, t)
        BY <1>2, <4>2 DEF Cause, Marked
      <4>3. QED
        BY <1>2, <1>3, <3>1, <4>1, <4>2 DEF LinkInv, LinksStay
    <3>2. CASE Day(sent[t]) \notin Days(take[c].start)
      <4>1. take[c].start \in Nat /\ sent[t] <= take[c].start
        BY <1>1 DEF LinkInv, Timely
      <4>2. Day(sent[t]) \in Int /\ Day(take[c].start) \in Int /\ Day(sent[t]) <= Day(take[c].start)
        BY <1>3, <4>1, DayIsInt, DayMonotone
      <4>3. Day(sent[t]) < Day(take[c].start) - 1
        BY <3>2, <4>2 DEF Days
      <4>4. sent[t] + DayLength < take[c].start
        BY <1>3, <4>1, <4>3, DaysApart
      <4>5. QED
        BY <1>3, <4>1, <4>4, LinksAssumption DEF Cause
    <3>3. QED
      BY <1>5, <3>1, <3>2
  <2>4. QED
    BY <2>2, <2>3, OthersRefuseNobody
<1>6. QED
  BY <1>4, <1>5

Spent(q) == [q EXCEPT !.pc = "delete", !.marked = TRUE]

LEMMA SpentIs ==
    ASSUME NEW q \in Taking
    PROVE  /\ Spent(q) \in Taking
           /\ Spent(q).pc = "delete" /\ Spent(q).marked
           /\ Spent(q).token = q.token /\ Spent(q).start = q.start
  BY DEF Taking, Spent, Busy

\* The marker's create.  Should a marker that was there be swept, its link
\* has expired for whoever is still on the way.
LEMMA MarkUsedKeeps ==
    ASSUME LinkInv, NEW c \in Calls, MarkUsed(c)
    PROVE  LinkInv' /\ RefusedStep
<1> DEFINE t == take[c].token
<1>1. /\ take[c].pc = "mark" /\ take[c].pc \in Busy /\ take[c] \in Taking
      /\ UNCHANGED <<clock, sent, stored, sweep>>
  BY DEF MarkUsed, Busy, LinkInv, LinkShape, Free
<1>2. t \in Tokens /\ ~take[c].marked
  BY <1>1 DEF Taking, LinkInv, MarkedInOrder
<1>3. CASE t \in used
  <2>1. Goes(c, "refused") /\ used' = used
    BY <1>3 DEF MarkUsed
  <2>2. /\ LinkInv'
        /\ \A d \in Calls \ {c} : take'[d] = take[d]
    BY <1>1, <2>1, LeavingKeeps
  <2>3. Cause(c)
    BY <1>2, <1>3 DEF LinkInv, MarkersAreCalls, Marked, Cause
  <2>4. QED
    BY <2>2, <2>3, OthersRefuseNobody
<1>4. CASE t \notin used
  <2> DEFINE r == Spent(take[c])
  <2>1. used' = used \cup {t} /\ take' = [take EXCEPT ![c] = r]
    BY <1>4, Zenon DEF MarkUsed, Spent
  <2>2. /\ r \in Taking /\ r.pc = "delete" /\ r.marked
        /\ r.token = t /\ r.start = take[c].start
    BY <1>1, SpentIs
  <2> HIDE DEF r
  <2>3. /\ take'[c] = r /\ \A d \in Calls \ {c} : take'[d] = take[d]
        /\ take' \in [Calls -> Free \cup Taking]
    BY <2>1, <2>2 DEF LinkInv, LinkShape
  <2>4. LinkShape' /\ Trailing'
    BY <1>1, <2>3 DEF LinkInv, LinkShape, Trailing
  <2>5. Timely' /\ MarkedInOrder'
    BY <1>1, <2>2, <2>3 DEF LinkInv, Timely, MarkedInOrder
  <2>6. Sent'
    BY <1>1, <2>2, <2>3 DEF LinkInv, Sent
  <2>7. \A d \in Calls, s \in Tokens : Marked(d, s) => Marked(d, s)'
    BY <1>2, <2>2, <2>3 DEF Marked
  <2>8. Marked(c, t)'
    BY <2>2, <2>3 DEF Marked
  <2>9. MarkersAreCalls'
    <3>1. SUFFICES ASSUME NEW s \in used' PROVE \E d \in Calls : Marked(d, s)'
      BY DEF MarkersAreCalls
    <3>2. CASE s = t
      BY <2>2, <2>3, <3>2 DEF Marked
    <3>3. CASE s # t
      <4>1. PICK d \in Calls : Marked(d, s)
        BY <2>1, <3>3 DEF LinkInv, MarkersAreCalls
      <4>2. d # c
        BY <1>2, <4>1 DEF Marked
      <4>3. QED
        BY <2>3, <4>1, <4>2 DEF Marked
    <3>4. QED
      BY <3>2, <3>3
  <2>10. MarkersStay'
    BY <1>1, <2>1, <2>2, <2>3 DEF LinkInv, MarkersStay, Bygone
  <2>11. LinksStay'
    BY <1>1, <2>7 DEF LinkInv, LinksStay, Bygone
  <2>12. \A d \in Calls \ {c} : Spends(d)' => Spends(d) /\ take[d].marked
    BY <1>1, <2>3 DEF Spends, Spending, LinkInv, MarkedInOrder
  <2>13. \A d \in Calls \ {c} : ~(Spends(c)' /\ Spends(d)' /\ take'[d].token = t)
    <3>1. SUFFICES ASSUME NEW d \in Calls \ {c}, Spends(c)', Spends(d)', take'[d].token = t
                   PROVE  FALSE
      OBVIOUS
    <3>2. Bygone(t)
      BY <1>4, <2>3, <2>12, <3>1 DEF LinkInv, MarkersStay
    <3>3. take[c].start > sent[t] + LinkTTL
      BY <1>1, <3>2, BygoneExpired
    <3>4. take[c].start <= sent[t] + LinkTTL
      BY <1>1, <2>2, <2>3, <3>1 DEF Spends, Spending
    <3>5. sent[t] \in Int /\ take[c].start \in Int
      BY <1>1, <1>2 DEF LinkInv, LinkShape, Taking, Never
    <3>6. QED
      BY <3>3, <3>4, <3>5, LinksAssumption
  <2>14. SpentOnce'
    BY <2>2, <2>3, <2>12, <2>13 DEF LinkInv, SpentOnce
  <2>15. RefusedStep
    BY <2>2, <2>3, OthersRefuseNobody
  <2>16. QED
    BY <2>4, <2>5, <2>6, <2>9, <2>10, <2>11, <2>14, <2>15 DEF LinkInv
<1>5. QED
  BY <1>3, <1>4

LEMMA DeleteLinkKeeps ==
    ASSUME LinkInv, NEW c \in Calls, DeleteLink(c)
    PROVE  LinkInv' /\ RefusedStep
<1>1. /\ take[c].pc = "delete" /\ take[c].pc \in Busy /\ take[c] \in Taking
      /\ UNCHANGED <<clock, sent, used, sweep>>
      /\ stored' \in {stored, stored \ {take[c].token}}
      /\ Goes(c, "judge")
  BY DEF DeleteLink, Busy, LinkInv, LinkShape, Free
<1>2. PICK r \in Taking :
        /\ take' = [take EXCEPT ![c] = r]
        /\ r.pc = "judge" /\ r.token = take[c].token /\ r.marked = take[c].marked
        /\ r.start = take[c].start
  BY <1>1, GoesTo DEF Busy
<1>3. take[c].marked
  BY <1>1 DEF LinkInv, MarkedInOrder
<1>4. Spending(r) => Spends(c)
  BY <1>1, <1>2 DEF Spends, Spending
<1>5. \A t \in Tokens : t \in stored /\ t \notin stored' => Marked(c, t)
  BY <1>1, <1>3 DEF Marked
<1>6. LinkInv'
  BY <1>1, <1>2, <1>3, <1>4, <1>5, GoingOn
<1>7. RefusedStep
  BY <1>2, OthersRefuseNobody DEF LinkInv, LinkShape
<1>8. QED
  BY <1>6, <1>7

LEMMA JudgeKeeps ==
    ASSUME LinkInv, NEW c \in Calls, Judge(c)
    PROVE  LinkInv' /\ RefusedStep
<1>1. /\ take[c].pc = "judge" /\ take[c].pc \in Busy /\ take[c] \in Taking
      /\ UNCHANGED <<clock, sent, stored, used, sweep>>
  BY DEF Judge, Busy, LinkInv, LinkShape, Free
<1>2. CASE take[c].start > sent[take[c].token] + LinkTTL
  <2>1. Goes(c, "refused") /\ Cause(c)
    BY <1>2 DEF Judge, Cause
  <2>2. LinkInv' /\ \A d \in Calls \ {c} : take'[d] = take[d]
    BY <1>1, <2>1, LeavingKeeps
  <2>3. QED
    BY <2>1, <2>2, OthersRefuseNobody
<1>3. CASE ~(take[c].start > sent[take[c].token] + LinkTTL)
  <2>1. Goes(c, "won")
    BY <1>3 DEF Judge
  <2>2. PICK r \in Taking :
          /\ take' = [take EXCEPT ![c] = r]
          /\ r.pc = "won" /\ r.token = take[c].token /\ r.marked = take[c].marked
    BY <1>1, <2>1, GoesTo
  <2>3. take[c].marked
    BY <1>1 DEF LinkInv, MarkedInOrder
  <2>4. take[c].token \in Tokens /\ take[c].start \in Int
    BY <1>1 DEF Taking
  <2>5. sent[take[c].token] \in Int
    BY <2>4 DEF LinkInv, LinkShape, Never
  <2>6. Spends(c)
    BY <1>1, <1>3, <2>4, <2>5, LinksAssumption DEF Spends, Spending
  <2>7. r.pc \notin Busy
    BY <2>2 DEF Busy
  <2>8. stored' = stored
    BY <1>1
  <2>9. LinkInv'
    BY <1>1, <2>2, <2>3, <2>6, <2>7, <2>8, GoingOn
  <2>10. RefusedStep
    BY <2>2, OthersRefuseNobody DEF LinkInv, LinkShape
  <2>11. QED
    BY <2>9, <2>10
<1>4. QED
  BY <1>2, <1>3

LEMMA TakeFailsKeeps ==
    ASSUME LinkInv, NEW c \in Calls, TakeFails(c)
    PROVE  LinkInv' /\ RefusedStep
<1>1. take[c].pc \in Busy /\ Goes(c, "failed") /\ UNCHANGED <<clock, sent, stored, used, sweep>>
  BY DEF TakeFails, Busy
<1>2. LinkInv' /\ (\A d \in Calls \ {c} : take'[d] = take[d]) /\ take'[c].pc = "failed"
  BY <1>1, LeavingKeeps
<1>3. QED
  BY <1>2, OthersRefuseNobody


\* A day gone stays gone.
LEMMA TickKeeps ==
    ASSUME LinkInv, Tick
    PROVE  LinkInv' /\ RefusedStep
<1>1. clock' = clock + 1 /\ clock \in Nat /\ UNCHANGED linkVars
  BY DEF Tick, LinkInv, LinkShape
<1>2. Day(clock) \in Int /\ Day(clock') \in Int /\ Day(clock) <= Day(clock')
  BY <1>1, DayIsInt, DayMonotone
<1>3. sent' = sent /\ stored' = stored /\ used' = used /\ take' = take /\ sweep' = sweep
  BY <1>1 DEF linkVars
<1>4. LinkShape' /\ MarkedInOrder' /\ RefusedStep
  BY <1>1, <1>3 DEF LinkInv, LinkShape, MarkedInOrder, RefusedStep
<1>5. Timely'
  <2>1. SUFFICES ASSUME NEW c \in Calls, take[c].pc \in Busy
                 PROVE  /\ take[c].start \in Nat
                        /\ sent[take[c].token] <= take[c].start /\ take[c].start <= clock'
                        /\ clock' <= take[c].start + MaxStall
    BY <1>3 DEF Timely
  <2>2. take[c].start \in Nat /\ sent[take[c].token] <= take[c].start /\ take[c].start <= clock
    BY <2>1 DEF LinkInv, Timely
  <2>3. clock < take[c].start + MaxStall
    BY <2>1 DEF Tick, Busy
  <2>4. QED
    BY <1>1, <2>2, <2>3, LinksAssumption
<1>6. Sent'
  BY <1>1, <1>3 DEF LinkInv, LinkShape, Sent, Never
<1>7. Trailing'
  BY <1>2, <1>3 DEF LinkInv, LinkShape, Trailing
<1>8. \A t \in Tokens : sent[t] # Never => (Bygone(t) => Bygone(t)')
  BY <1>2, <1>3, DayIsInt DEF Bygone, LinkInv, LinkShape
<1>9. MarkersAreCalls' /\ SpentOnce'
  BY <1>3 DEF LinkInv, MarkersAreCalls, Marked, SpentOnce, Spends, Spending
<1>10. MarkersStay'
  <2>1. \A c \in Calls : take[c].marked => take[c].token \in Tokens /\ sent[take[c].token] # Never
    BY DEF LinkInv, LinkShape, Sent, Free, Taking, Busy
  <2>2. QED
    BY <1>3, <1>8, <2>1 DEF LinkInv, MarkersStay
<1>11. LinksStay'
  BY <1>3, <1>8 DEF LinkInv, LinksStay, Marked
<1>12. QED
  BY <1>4, <1>5, <1>6, <1>7, <1>9, <1>10, <1>11 DEF LinkInv

\* A token is drawn once: nothing is known of a link before it is put.
LEMMA PutLinkKeeps ==
    ASSUME LinkInv, NEW t \in Tokens, PutLink(t)
    PROVE  LinkInv' /\ RefusedStep
<1>1. /\ sent[t] = Never /\ sent' = [sent EXCEPT ![t] = clock] /\ stored' = stored \cup {t}
      /\ clock' = clock /\ used' = used /\ take' = take /\ sweep' = sweep
      /\ clock \in Nat
  BY DEF PutLink, LinkInv, LinkShape
<1>2. sent'[t] = clock /\ \A s \in Tokens \ {t} : sent'[s] = sent[s]
  BY <1>1 DEF LinkInv, LinkShape
<1>3. \A c \in Calls : take[c].pc \notin {"idle", "keymail"} =>
          take[c].token \in Tokens \ {t} /\ sent'[take[c].token] = sent[take[c].token]
  BY <1>1, <1>2 DEF LinkInv, LinkShape, Sent, Free, Taking
<1>4. LinkShape' /\ MarkedInOrder' /\ Trailing' /\ RefusedStep
  BY <1>1 DEF LinkInv, LinkShape, MarkedInOrder, Trailing, RefusedStep
<1>5. Timely'
  BY <1>1, <1>3 DEF LinkInv, Timely, Busy
<1>6. Sent'
  BY <1>1, <1>2, <1>3 DEF LinkInv, LinkShape, Sent, Never
<1>7. MarkersAreCalls'
  BY <1>1 DEF LinkInv, MarkersAreCalls, Marked
<1>8. MarkersStay'
  <2>1. \A c \in Calls : take[c].marked => take[c].pc \notin {"idle", "keymail"}
    BY DEF LinkInv, LinkShape, Free, Taking, Busy
  <2>2. QED
    BY <1>1, <1>3, <2>1 DEF LinkInv, MarkersStay, Bygone
<1>9. LinksStay'
  BY <1>1, <1>2 DEF LinkInv, LinksStay, Bygone, Marked
<1>10. SpentOnce'
  BY <1>1, <1>3 DEF LinkInv, SpentOnce, Spends, Spending
<1>11. QED
  BY <1>4, <1>5, <1>6, <1>7, <1>8, <1>9, <1>10 DEF LinkInv

\* A call that begins, with a link or with a keymail server's word.
LEMMA BeginsKeeps ==
    ASSUME LinkInv, NEW c \in Calls, take[c].pc = "idle",
           NEW r \in Free \cup Taking, take' = [take EXCEPT ![c] = r],
           ~r.marked, r.pc \in {"keymail", "read"},
           r.pc = "read" => /\ sent[r.token] # Never
                            /\ r.start = clock,
           UNCHANGED <<clock, sent, stored, used, sweep>>
    PROVE  LinkInv' /\ RefusedStep
<1>1. /\ take'[c] = r /\ \A d \in Calls \ {c} : take'[d] = take[d]
      /\ take' \in [Calls -> Free \cup Taking]
  BY DEF LinkInv, LinkShape
<1>2. ~take[c].marked
  BY DEF LinkInv, LinkShape, Free, Taking, Busy
<1>3. clock \in Nat /\ (r.pc = "read" => r.token \in Tokens)
  BY DEF LinkInv, LinkShape, Free, Taking
<1>4. LinkShape' /\ MarkedInOrder' /\ Trailing'
  BY <1>1 DEF LinkInv, LinkShape, MarkedInOrder, Trailing
<1>5. Timely'
  BY <1>1, <1>3, LinksAssumption DEF LinkInv, Timely, Busy, Sent
<1>6. Sent'
  BY <1>1 DEF LinkInv, Sent
<1>7. \A d \in Calls, t \in Tokens : Marked(d, t) => Marked(d, t)'
  BY <1>1, <1>2 DEF Marked
<1>8. MarkersAreCalls'
  BY <1>1, <1>2 DEF LinkInv, MarkersAreCalls, Marked
<1>9. MarkersStay'
  BY <1>1 DEF LinkInv, MarkersStay, Bygone
<1>10. LinksStay'
  BY <1>7 DEF LinkInv, LinksStay, Bygone
<1>11. ~Spends(c)' /\ \A d \in Calls \ {c} : Spends(d)' => Spends(d)
  BY <1>1 DEF Spends, Spending
<1>12. SpentOnce'
  BY <1>1, <1>11 DEF LinkInv, SpentOnce
<1>13. RefusedStep
  BY <1>1, OthersRefuseNobody
<1>14. QED
  BY <1>4, <1>5, <1>6, <1>8, <1>9, <1>10, <1>12, <1>13 DEF LinkInv

Vouched(q) == [q EXCEPT !.pc = "keymail"]

LEMMA VouchedIs ==
    ASSUME NEW q \in Free
    PROVE  Vouched(q) \in Free /\ ~Vouched(q).marked /\ Vouched(q).pc = "keymail"
  BY DEF Free, Vouched

LEMMA RedeemKeeps ==
    ASSUME LinkInv, NEW c \in Calls, NEW t \in Tokens, Redeem(c, t)
    PROVE  LinkInv' /\ RefusedStep
<1> DEFINE r == [pc |-> "read", token |-> t, start |-> clock, marked |-> FALSE]
<1>1. r \in Taking
  BY DEF Taking, Busy, LinkInv, LinkShape
<1>2. take[c].pc = "idle" /\ sent[t] # Never
  BY DEF Redeem, Idle
<1>3. take' = [take EXCEPT ![c] = r] /\ UNCHANGED <<clock, sent, stored, used, sweep>>
  BY DEF Redeem
<1>4. r.pc = "read" /\ r.token = t /\ r.start = clock /\ ~r.marked
  OBVIOUS
<1> HIDE DEF r
<1>5. QED
  BY <1>1, <1>2, <1>3, <1>4, BeginsKeeps

\* The sweep takes only what belongs to a day gone.
LEMMA SweepKeeps ==
    ASSUME LinkInv, BeginSweep \/ SweepNext \/ EndSweep
    PROVE  LinkInv' /\ RefusedStep
<1>1. clock' = clock /\ sent' = sent /\ take' = take
  BY DEF BeginSweep, SweepNext, EndSweep
<1>2. clock \in Nat /\ Day(clock) \in Int
  BY DayIsInt DEF LinkInv, LinkShape
<1>3. /\ sweep' \in [pc : {"idle", "links", "used"}, cutoff : Int]
      /\ Trailing'
  <2>1. CASE BeginSweep
    BY <1>1, <1>2, <2>1 DEF BeginSweep, Cutoff, Trailing
  <2>2. CASE SweepNext
    BY <1>1, <2>2 DEF SweepNext, LinkInv, LinkShape, Trailing
  <2>3. CASE EndSweep
    BY <2>3 DEF EndSweep, Trailing
  <2>4. QED
    BY <2>1, <2>2, <2>3
<1>4. /\ used' \subseteq used
      /\ \A t \in Tokens : (t \in used /\ t \notin used') \/ (t \in stored /\ t \notin stored') => Bygone(t)
  <2>1. CASE BeginSweep \/ EndSweep
    BY <2>1 DEF BeginSweep, EndSweep
  <2>2. CASE SweepNext
    <3>1. \A t \in Tokens : Day(sent[t]) \in Int
      BY DayIsInt DEF LinkInv, LinkShape, Never
    <3>2. sweep.cutoff \in Int /\ sweep.cutoff <= Day(clock) - 1
      BY <2>2 DEF SweepNext, LinkInv, LinkShape, Trailing
    <3>3. \A t \in Tokens : Day(sent[t]) < sweep.cutoff => Bygone(t)
      BY <1>2, <3>1, <3>2 DEF Bygone
    <3>4. QED
      BY <2>2, <3>3 DEF SweepNext
  <2>3. QED
    BY <2>1, <2>2
<1>5. LinkShape' /\ Timely' /\ Sent' /\ MarkedInOrder' /\ SpentOnce' /\ RefusedStep
  BY <1>1, <1>3 DEF LinkInv, LinkShape, Timely, Sent, MarkedInOrder, SpentOnce, Spends, Spending, RefusedStep
<1>6. MarkersAreCalls'
  BY <1>1, <1>4 DEF LinkInv, MarkersAreCalls, Marked
<1>7. MarkersStay'
  <2>1. \A c \in Calls : take[c].marked => take[c].token \in Tokens
    BY DEF LinkInv, LinkShape, Free, Taking
  <2>2. QED
    BY <1>1, <1>4, <2>1 DEF LinkInv, MarkersStay, Bygone
<1>8. LinksStay'
  BY <1>1, <1>4 DEF LinkInv, LinksStay, Bygone, Marked
<1>9. QED
  BY <1>3, <1>5, <1>6, <1>7, <1>8 DEF LinkInv

LEMMA LinkNext == LinkInv /\ [Next]_vars => LinkInv' /\ RefusedStep
<1> SUFFICES ASSUME LinkInv, [Next]_vars
             PROVE  LinkInv' /\ RefusedStep
  OBVIOUS
<1>1. CASE Tick
  BY <1>1, TickKeeps
<1>2. CASE \E t \in Tokens : PutLink(t)
  BY <1>2, PutLinkKeeps
<1>3. CASE \E t \in Tokens, c \in Calls : Redeem(c, t)
  BY <1>3, RedeemKeeps
<1>4. CASE \E c \in Calls : TakeStep(c)
  BY <1>4, ReadLinkKeeps, MarkUsedKeeps, DeleteLinkKeeps, JudgeKeeps, TakeFailsKeeps DEF TakeStep
<1>5. CASE BeginSweep \/ SweepNext \/ EndSweep
  BY <1>5, SweepKeeps
<1>6. CASE UNCHANGED <<clock, linkVars>>
  <2>1. clock' = clock /\ sent' = sent /\ stored' = stored /\ used' = used /\ take' = take /\ sweep' = sweep
    BY <1>6 DEF linkVars
  <2>2. LinkShape' /\ Timely' /\ Sent' /\ MarkedInOrder' /\ Trailing'
    BY <2>1 DEF LinkInv, LinkShape, Timely, Sent, MarkedInOrder, Trailing
  <2>3. MarkersAreCalls' /\ MarkersStay' /\ LinksStay' /\ SpentOnce' /\ RefusedStep
    BY <2>1 DEF LinkInv, MarkersAreCalls, MarkersStay, LinksStay, Marked, Bygone, SpentOnce, Spends, Spending, RefusedStep
  <2>4. QED
    BY <2>2, <2>3 DEF LinkInv
<1>7. CASE \E c \in Calls : Admit(c)
  <2>1. PICK c \in Calls : Admit(c)
    BY <1>7
  <2>2. UNCHANGED <<clock, sent, stored, used, sweep>>
    BY <2>1 DEF Admit
  <2>3. CASE take' = take
    BY <2>2, <2>3, <1>6 DEF linkVars
  <2>4. CASE take[c].pc = "idle" /\ take' = [take EXCEPT ![c].pc = "keymail"]
    <3>1. take[c] \in Free
      BY <2>4 DEF LinkInv, LinkShape, Taking, Busy
    <3>2. take' = [take EXCEPT ![c] = Vouched(take[c])]
      BY <2>4, Zenon DEF Vouched
    <3>3. Vouched(take[c]) \in Free /\ ~Vouched(take[c]).marked /\ Vouched(take[c]).pc = "keymail"
      BY <3>1, VouchedIs
    <3>4. QED
      BY <2>2, <2>4, <3>2, <3>3, BeginsKeeps
  <2>5. QED
    BY <2>1, <2>3, <2>4 DEF Admit
<1>8. QED
  BY <1>1, <1>2, <1>3, <1>4, <1>5, <1>6, <1>7 DEF Next, LinkStep, vars

\* A link opens one session at most (auth/recordlinks.go TakeLink), for any
\* number of links, of calls and of days, and a sweep at any moment.
THEOREM LinksOpenOnce == Spec => []OneRedemption
<1>1. LinkInv => OneRedemption
  BY DEF LinkInv, SpentOnce, Spends, Spending, OneRedemption
<1>2. Init => LinkInv
  BY LinkInvInit DEF Init
<1>3. LinkInv /\ [Next]_vars => LinkInv'
  BY LinkNext
<1>4. QED
  BY <1>1, <1>2, <1>3, PTL DEF Spec

\* No live link is refused but to the loser of a race (the two days that
\* TakeLink reads, and the day that the sweep leaves).
THEOREM LiveLinksWork == Spec => RefusedForCause
<1>1. Init => LinkInv
  BY LinkInvInit DEF Init
<1>2. LinkInv /\ [Next]_vars => LinkInv' /\ [\A c \in Calls : (take[c].pc # "refused" /\ take'[c].pc = "refused") =>
            \/ take[c].start > sent[take[c].token] + LinkTTL
            \/ \E d \in Calls \ {c} : take[d].marked /\ take[d].token = take[c].token]_<<clock, linkVars>>
  BY LinkNext DEF RefusedStep, Cause
<1>3. QED
  BY <1>1, <1>2, PTL DEF Spec, RefusedForCause


-----------------------------------------------------------------------------
(* Users *)

Pcs == {"rest", "claim", "makeclaim", "get", "strip", "makeuser", "sign", "resign", "bump", "over"}
Kinds == {"none", "ensure", "load", "mint", "refresh", "end", "sweep"}

\* What the counters may be is left out of these types.
Person == [draw : Uids \cup {NoClaim}, n : Nat, email : BOOLEAN]
Stub == [uid : Uids, epoch : (Uids \cup {NoClaim}) \X Nat, at : Nat, exp : Int]
Request == [pc : Pcs, kind : Kinds, uid : Uids, seen : Person, start : Nat, old : Stub, tries : Nat]
SignOut == [uid : Uids, epoch : Uids \X Nat, time : Nat]

UserShape ==
    /\ clock \in Nat
    /\ claim \in Uids \cup {NoClaim}
    /\ user \in [Uids -> Person]
    /\ op \in [Calls \cup Ops -> Request]
    /\ cookies \subseteq Stub
    /\ ended \subseteq SignOut

\* Only the claim's uid has a record.
Claimed == \A u \in Uids : user[u] = NoUser \/ (u = claim /\ user[u].draw \in Uids)

\* A cookie is of the claim's user, and never runs past a lifetime.
Issued == \A c \in cookies : c.uid = claim /\ c.exp <= clock + Lifetime

\* The record is at the epoch of every sign-out that was answered, or past it.
Raised ==
    \A e \in ended : /\ user[e.uid].draw = e.epoch[1] /\ e.epoch[2] <= user[e.uid].n
                     /\ e.time <= clock

\* What a request holds: of the claim's user, and, before it signs a cookie
\* again, no epoch that was ended before it began.
Fit(r) ==
    /\ r.pc \in {"get", "strip", "makeuser", "sign", "resign", "bump"} => r.uid = claim
    /\ r.pc \in {"strip", "bump"} => r.seen.draw \in Uids
    /\ (r.pc = "get" => r.kind # "none") /\ (r.pc = "strip" => r.kind \notin {"none", "end"})
    /\ r.kind = "refresh" => r.old.uid = claim
    /\ r.start <= clock
    /\ r.pc = "resign" =>
        /\ r.kind = "refresh"
        /\ \A e \in ended : (e.epoch[1] = r.seen.draw /\ r.seen.n < e.epoch[2]) => r.start <= e.time

Fits == \A o \in Calls \cup Ops : Fit(op[o])

UserInv ==
    /\ UserShape
    /\ Claimed /\ Issued /\ Raised /\ Fits
    /\ EndsInOneLifetime

KeptStep ==
    \A u \in Uids : (user[u] # NoUser /\ user'[u] # NoUser) =>
        /\ user'[u].draw = user[u].draw /\ user'[u].n >= user[u].n
        /\ user'[u].email => user[u].email

LEMMA Strangers == NoClaim \notin Uids /\ Old \in Uids /\ Calls \subseteq Uids
  BY SignInAssumption DEF Uids

LEMMA PersonOfNobody == NoUser \in Person /\ NoUser.draw = NoClaim /\ NoUser.draw \notin Uids
  BY Strangers DEF NoUser, Person

LEMMA RestIs == Rest \in Request /\ Rest.pc = "rest" /\ Rest.kind = "none" /\ Rest.start = 0
<1>1. NoCookie \in Stub
  BY Strangers DEF NoCookie, Stub
<1>2. QED
  BY <1>1, PersonOfNobody, Strangers DEF Rest, Request, Pcs, Kinds

LEMMA UserInvInit == Init => UserInv
<1> SUFFICES ASSUME Init PROVE UserInv
  OBVIOUS
<1>1. clock \in Nat /\ cookies = {} /\ ended = {} /\ op = [o \in Calls \cup Ops |-> Rest]
  BY LinksAssumption DEF Init, LinksInit
<1>2. claim \in Uids \cup {NoClaim}
  BY Strangers DEF Init
<1>3. user \in [Uids -> Person] /\ Claimed
  <2> DEFINE q == [draw |-> Old, n |-> 0, email |-> TRUE]
  <2>1. q \in Person /\ q.draw \in Uids
    BY Strangers DEF Person
  <2>2. CASE user = [u \in Uids |-> NoUser]
    BY <2>2, PersonOfNobody DEF Claimed
  <2>3. CASE claim = Old /\ user = [u \in Uids |-> IF u = Old THEN q ELSE NoUser]
    <3> HIDE DEF q
    <3>1. QED
      BY <2>1, <2>3, PersonOfNobody DEF Claimed
  <2>4. QED
    BY <2>2, <2>3 DEF Init
<1>4. op \in [Calls \cup Ops -> Request] /\ Fits
  BY <1>1, RestIs DEF Fits, Fit
<1>5. Issued /\ Raised /\ EndsInOneLifetime
  BY <1>1 DEF Issued, Raised, EndsInOneLifetime
<1>6. QED
  BY <1>1, <1>2, <1>3, <1>4, <1>5 DEF UserInv, UserShape

\* A request stays fit while others sign out or time passes.
LEMMA FitStays ==
    ASSUME NEW r \in Request, Fit(r), claim' = claim, clock \in Nat, clock' \in Nat, clock <= clock',
           \A e \in ended' : e \in ended \/ (e.time \in Nat /\ clock <= e.time)
    PROVE  Fit(r)'
<1>1. r.start \in Nat /\ r.start <= clock
  BY DEF Request, Fit
<1>2. r.start <= clock'
  BY <1>1
<1>3. \A e \in ended' : e \in ended \/ r.start <= e.time
  BY <1>1
<1>4. QED
  BY <1>2, <1>3 DEF Fit

\* One request moves on.
LEMMA OneMoves ==
    ASSUME UserInv, NEW o \in Calls \cup Ops, NEW r \in Request, op' = [op EXCEPT ![o] = r], Fit(r)',
           claim' = claim, clock' = clock,
           \A e \in ended' : e \in ended \/ (e.time \in Nat /\ clock <= e.time)
    PROVE  op' \in [Calls \cup Ops -> Request] /\ Fits'
<1>1. /\ op'[o] = r /\ \A p \in (Calls \cup Ops) \ {o} : op'[p] = op[p]
      /\ op' \in [Calls \cup Ops -> Request]
  BY DEF UserInv, UserShape
<1>2. \A q \in Request : Fit(q) => Fit(q)'
  BY FitStays DEF UserInv, UserShape
<1>3. ASSUME NEW p \in Calls \cup Ops PROVE Fit(op[p])'
  <2>1. CASE p = o
    BY <1>1, <2>1 DEF Fit
  <2>2. CASE p # o
    <3>1. PICK q \in Request : q = op[p] /\ Fit(q)
      BY DEF UserInv, UserShape, Fits
    <3>2. Fit(q)' /\ op'[p] = q
      BY <1>1, <1>2, <2>2, <3>1
    <3>3. QED
      BY <3>2 DEF Fit
  <2>3. QED
    BY <2>1, <2>2
<1>4. QED
  BY <1>1, <1>3 DEF Fits


\* A request moves on and writes nothing.
LEMMA QuietKeeps ==
    ASSUME UserInv, NEW o \in Calls \cup Ops, NEW r \in Request, op' = [op EXCEPT ![o] = r], Fit(r),
           UNCHANGED <<clock, claim, user, cookies, ended>>
    PROVE  UserInv' /\ KeptStep
<1>1. clock \in Nat /\ clock <= clock' /\ \A e \in ended' : e \in ended
  BY DEF UserInv, UserShape
<1>2. \A q \in Request : Fit(q) => Fit(q)'
  BY <1>1, FitStays
<1>3. op' \in [Calls \cup Ops -> Request] /\ Fits'
  BY <1>1, <1>2, OneMoves
<1>4. UserShape' /\ Claimed' /\ Issued' /\ Raised' /\ EndsInOneLifetime'
  BY <1>3 DEF UserInv, UserShape, Claimed, Issued, Raised, EndsInOneLifetime
<1>5. KeptStep
  <2>1. \A u \in Uids : user[u].n \in Nat
    BY DEF UserInv, UserShape, Person
  <2>2. QED
    BY <2>1 DEF KeptStep
<1>6. QED
  BY <1>3, <1>4, <1>5 DEF UserInv

\* The records that Step, Reads and Over leave.
Stepped(q, pc) == [q EXCEPT !.pc = pc]
Seeing(q, pc, seen) == [q EXCEPT !.pc = pc, !.seen = seen]
Reading(q, kind, uid) == [q EXCEPT !.pc = "get", !.kind = kind, !.uid = uid, !.seen = NoUser]

LEMMA SteppedIs ==
    ASSUME NEW q \in Request, NEW pc \in Pcs
    PROVE  /\ Stepped(q, pc) \in Request /\ Stepped(q, pc).pc = pc
           /\ Stepped(q, pc).kind = q.kind /\ Stepped(q, pc).uid = q.uid /\ Stepped(q, pc).seen = q.seen
           /\ Stepped(q, pc).start = q.start /\ Stepped(q, pc).old = q.old
  BY DEF Request, Stepped

LEMMA SeeingIs ==
    ASSUME NEW q \in Request, NEW pc \in Pcs, NEW seen \in Person
    PROVE  /\ Seeing(q, pc, seen) \in Request /\ Seeing(q, pc, seen).pc = pc /\ Seeing(q, pc, seen).seen = seen
           /\ Seeing(q, pc, seen).kind = q.kind /\ Seeing(q, pc, seen).uid = q.uid
           /\ Seeing(q, pc, seen).start = q.start /\ Seeing(q, pc, seen).old = q.old
  BY DEF Request, Seeing

LEMMA ReadingIs ==
    ASSUME NEW q \in Request, NEW kind \in Kinds, NEW uid \in Uids
    PROVE  /\ Reading(q, kind, uid) \in Request
           /\ Reading(q, kind, uid).pc = "get" /\ Reading(q, kind, uid).kind = kind /\ Reading(q, kind, uid).uid = uid
           /\ Reading(q, kind, uid).start = q.start /\ Reading(q, kind, uid).old = q.old
  <1>1. NoUser \in Person
    BY PersonOfNobody
  <1>2. QED
    BY <1>1 DEF Request, Reading, Pcs

LEMMA OverTo ==
    ASSUME UserInv, NEW o \in Calls \cup Ops, Over(o)
    PROVE  \E r \in Request : op' = [op EXCEPT ![o] = r] /\ r.pc \in {"rest", "over"} /\ r.kind = "none" /\ r.start = 0
<1> DEFINE r == IF o \in Calls THEN Stepped(Rest, "over") ELSE Rest
<1>1. op' = [op EXCEPT ![o] = r]
  BY Zenon DEF Over, Stepped
<1>2. r \in Request /\ r.pc \in {"rest", "over"} /\ r.kind = "none" /\ r.start = 0
  BY RestIs, SteppedIs DEF Pcs
<1> HIDE DEF r
<1>3. QED
  BY <1>1, <1>2

LEMMA OverFits ==
    ASSUME UserInv, NEW r \in Request, r.pc \in {"rest", "over"}, r.kind = "none", r.start = 0
    PROVE  Fit(r)
  BY DEF Fit, UserInv, UserShape

LEMMA OverKeeps ==
    ASSUME UserInv, NEW o \in Calls \cup Ops, Over(o), UNCHANGED <<clock, claim, user, cookies, ended>>
    PROVE  UserInv' /\ KeptStep
  BY OverTo, OverFits, QuietKeeps

\* A read begins: of the claim's user, whoever begins it.
LEMMA ReadsKeeps ==
    ASSUME UserInv, NEW o \in Calls \cup Ops, NEW kind \in Kinds \ {"none"}, Reads(o, kind, claim), claim \in Uids,
           kind = "refresh" => op[o].kind = "refresh",
           UNCHANGED <<clock, claim, user, cookies, ended>>
    PROVE  UserInv' /\ KeptStep
<1>1. op[o] \in Request /\ Fit(op[o])
  BY DEF UserInv, UserShape, Fits
<1>2. op' = [op EXCEPT ![o] = Reading(op[o], kind, claim)]
  BY Zenon DEF Reads, Reading
<1>3. PICK r \in Request : /\ op' = [op EXCEPT ![o] = r]
                           /\ r.pc = "get" /\ r.kind = kind /\ r.uid = claim
                           /\ r.start = op[o].start /\ r.old = op[o].old
  <2> DEFINE r == Reading(op[o], kind, claim)
  <2>1. /\ r \in Request
        /\ r.pc = "get" /\ r.kind = kind /\ r.uid = claim
        /\ r.start = op[o].start /\ r.old = op[o].old
    BY <1>1, ReadingIs
  <2>2. QED
    BY <1>2, <2>1, Zenon
<1>4. Fit(r)
  BY <1>1, <1>3 DEF Fit
<1>5. QED
  BY <1>3, <1>4, QuietKeeps

LEMMA StepKeeps ==
    ASSUME UserInv, NEW o \in Calls \cup Ops, NEW pc \in Pcs, Step(o, pc),
           \/ pc \in {"claim", "makeclaim"}
           \/ pc = "makeuser" /\ op[o].pc = "get",
           UNCHANGED <<clock, claim, user, cookies, ended>>
    PROVE  UserInv' /\ KeptStep
<1>1. op[o] \in Request /\ Fit(op[o])
  BY DEF UserInv, UserShape, Fits
<1>2. op' = [op EXCEPT ![o] = Stepped(op[o], pc)]
  BY Zenon DEF Step, Stepped
<1>3. PICK r \in Request : /\ op' = [op EXCEPT ![o] = r]
                           /\ r.pc = pc /\ r.kind = op[o].kind /\ r.uid = op[o].uid
                           /\ r.start = op[o].start /\ r.old = op[o].old
  BY <1>1, <1>2, SteppedIs
<1>4. Fit(r)
  BY <1>1, <1>3 DEF Fit
<1>5. QED
  BY <1>3, <1>4, QuietKeeps


\* The claim's record is made or moves forward.
LEMMA RecordMoves ==
    ASSUME UserInv, claim \in Uids, NEW new \in Person, new.draw \in Uids,
           user' = [user EXCEPT ![claim] = new],
           \/ user[claim] = NoUser
           \/ /\ new.draw = user[claim].draw /\ new.n >= user[claim].n
              /\ new.email => user[claim].email,
           UNCHANGED <<clock, claim>>
    PROVE  /\ user' \in [Uids -> Person] /\ user'[claim] = new
           /\ Claimed' /\ KeptStep
           /\ \A e \in ended : user'[e.uid].draw = e.epoch[1] /\ e.epoch[2] <= user'[e.uid].n
<1>1. /\ user'[claim] = new /\ \A u \in Uids \ {claim} : user'[u] = user[u]
      /\ user' \in [Uids -> Person]
  BY DEF UserInv, UserShape
<1>2. \A u \in Uids : user[u].n \in Nat
  BY DEF UserInv, UserShape, Person
<1>3. Claimed'
  BY <1>1 DEF UserInv, Claimed
<1>4. KeptStep
  BY <1>1, <1>2 DEF KeptStep
<1>5. \A e \in ended : user'[e.uid].draw = e.epoch[1] /\ e.epoch[2] <= user'[e.uid].n
  <2>1. SUFFICES ASSUME NEW e \in ended
                 PROVE  user'[e.uid].draw = e.epoch[1] /\ e.epoch[2] <= user'[e.uid].n
    OBVIOUS
  <2>2. /\ user[e.uid].draw = e.epoch[1] /\ e.epoch[2] <= user[e.uid].n
        /\ e.uid \in Uids /\ e.epoch[1] \in Uids /\ e.epoch[2] \in Nat
    BY DEF UserInv, UserShape, Raised, SignOut
  <2>3. CASE e.uid = claim
    <3>1. user[claim] # NoUser
      BY <2>2, <2>3, PersonOfNobody
    <3>2. new.n \in Nat
      BY DEF Person
    <3>3. QED
      BY <1>1, <1>2, <2>2, <2>3, <3>1, <3>2
  <2>4. CASE e.uid # claim
    BY <1>1, <2>2, <2>4
  <2>5. QED
    BY <2>3, <2>4
<1>6. QED
  BY <1>1, <1>3, <1>4, <1>5

\* A request moves on, and the claim's record with it.
LEMMA RecordKeeps ==
    ASSUME UserInv, NEW o \in Calls \cup Ops, NEW r \in Request, op' = [op EXCEPT ![o] = r], Fit(r),
           claim \in Uids, NEW new \in Person, new.draw \in Uids,
           user' = [user EXCEPT ![claim] = new],
           \/ user[claim] = NoUser
           \/ /\ new.draw = user[claim].draw /\ new.n >= user[claim].n
              /\ new.email => user[claim].email,
           UNCHANGED <<clock, claim, cookies, ended>>
    PROVE  UserInv' /\ KeptStep
<1>1. user' \in [Uids -> Person] /\ Claimed' /\ Raised' /\ KeptStep
  BY RecordMoves DEF UserInv, Raised
<1>2. clock \in Nat /\ clock <= clock' /\ \A e \in ended' : e \in ended
  BY DEF UserInv, UserShape
<1>3. \A q \in Request : Fit(q) => Fit(q)'
  BY <1>2, FitStays
<1>4. op' \in [Calls \cup Ops -> Request] /\ Fits'
  BY <1>2, <1>3, OneMoves
<1>5. UserShape' /\ Issued' /\ EndsInOneLifetime'
  BY <1>1, <1>4 DEF UserInv, UserShape, Issued, EndsInOneLifetime
<1>6. QED
  BY <1>1, <1>4, <1>5 DEF UserInv

LEMMA ReadClaimKeeps ==
    ASSUME UserInv, NEW c \in Calls, ReadClaim(c), UNCHANGED clock
    PROVE  UserInv' /\ KeptStep
<1>1. UNCHANGED <<clock, claim, user, cookies, ended>>
  BY DEF ReadClaim
<1>2. CASE claim # NoClaim
  <2>1. claim \in Uids /\ Reads(c, "ensure", claim)
    BY <1>2 DEF ReadClaim, UserInv, UserShape
  <2>2. QED
    BY <1>1, <2>1, ReadsKeeps DEF Kinds
<1>3. CASE claim = NoClaim
  <2>1. Step(c, "makeclaim")
    BY <1>3 DEF ReadClaim
  <2>2. QED
    BY <1>1, <2>1, StepKeeps DEF Pcs
<1>4. QED
  BY <1>2, <1>3

Claiming(q, c) == [q EXCEPT !.pc = "makeuser", !.uid = c]
Trying(q, n) == [q EXCEPT !.pc = "claim", !.tries = n]

LEMMA ClaimingIs ==
    ASSUME NEW q \in Request, NEW c \in Uids
    PROVE  /\ Claiming(q, c) \in Request /\ Claiming(q, c).pc = "makeuser" /\ Claiming(q, c).uid = c
           /\ Claiming(q, c).kind = q.kind /\ Claiming(q, c).start = q.start
  BY DEF Request, Claiming, Pcs

LEMMA TryingIs ==
    ASSUME NEW q \in Request, NEW n \in Nat
    PROVE  /\ Trying(q, n) \in Request /\ Trying(q, n).pc = "claim"
           /\ Trying(q, n).kind = q.kind /\ Trying(q, n).start = q.start /\ Trying(q, n).old = q.old
  BY DEF Request, Trying, Pcs

\* The first create takes the address; nobody held anything of it.
LEMMA MakeClaimKeeps ==
    ASSUME UserInv, NEW c \in Calls, MakeClaim(c), UNCHANGED clock
    PROVE  UserInv' /\ KeptStep
<1>1. /\ op[c] \in Request /\ Fit(op[c]) /\ c \in Uids /\ op[c].tries \in Nat
      /\ UNCHANGED <<clock, user, cookies, ended>>
  BY Strangers DEF UserInv, UserShape, Fits, MakeClaim, Request
<1>2. CASE claim = NoClaim
  <2>0. claim' = c /\ op' = [op EXCEPT ![c] = Claiming(op[c], c)]
    BY <1>2, Zenon DEF MakeClaim, Claiming
  <2>1. PICK r \in Request :
          /\ op' = [op EXCEPT ![c] = r]
          /\ r.pc = "makeuser" /\ r.uid = c /\ r.kind = op[c].kind /\ r.start = op[c].start
    BY <1>1, <2>0, ClaimingIs
  <2>3. \A u \in Uids : user[u] = NoUser
    BY <1>2, Strangers DEF UserInv, Claimed
  <2>4. cookies = {}
    BY <1>2, Strangers DEF UserInv, UserShape, Issued, Stub
  <2>5. ended = {}
    BY <2>3, PersonOfNobody DEF UserInv, UserShape, Raised, SignOut
  <2>6. \A q \in Request : Fit(q) =>
           /\ q.pc \notin {"get", "strip", "makeuser", "sign", "resign", "bump"}
           /\ q.kind # "refresh"
    BY <1>2, Strangers DEF Fit, Request, Stub
  <2>7. \A q \in Request : Fit(q) => Fit(q)'
    BY <1>1, <2>6 DEF Fit
  <2>8. Fit(r)'
    BY <1>1, <2>0, <2>1, <2>6 DEF Fit
  <2>9. op' \in [Calls \cup Ops -> Request] /\ op'[c] = r /\ \A p \in (Calls \cup Ops) \ {c} : op'[p] = op[p]
    BY <2>1 DEF UserInv, UserShape
  <2>10. Fits'
    <3>1. SUFFICES ASSUME NEW p \in Calls \cup Ops PROVE Fit(op[p])'
      BY DEF Fits
    <3>2. CASE p = c
      BY <2>8, <2>9, <3>2 DEF Fit
    <3>3. CASE p # c
      <4>1. PICK q \in Request : q = op[p] /\ Fit(q)
        BY DEF UserInv, UserShape, Fits
      <4>2. Fit(q)' /\ op'[p] = q
        BY <2>7, <2>9, <3>3, <4>1
      <4>3. QED
        BY <4>2 DEF Fit
    <3>4. QED
      BY <3>2, <3>3
  <2>11. UserShape' /\ Claimed' /\ Issued' /\ Raised' /\ EndsInOneLifetime'
    BY <1>1, <2>0, <2>3, <2>4, <2>5, <2>9
       DEF UserInv, UserShape, Claimed, Issued, Raised, EndsInOneLifetime
  <2>12. KeptStep
    BY <1>1, <2>3 DEF KeptStep
  <2>13. QED
    BY <2>10, <2>11, <2>12 DEF UserInv
<1>3. CASE claim # NoClaim
  <2> DEFINE r == Trying(op[c], op[c].tries + 1)
  <2>1. claim' = claim /\ op' = [op EXCEPT ![c] = r]
    BY <1>3, Zenon DEF MakeClaim, Trying
  <2>2. /\ r \in Request /\ r.pc = "claim" /\ r.kind = op[c].kind
        /\ r.start = op[c].start /\ r.old = op[c].old
    <3>1. op[c].tries + 1 \in Nat
      BY <1>1
    <3>2. QED
      BY <1>1, <3>1, TryingIs
  <2> HIDE DEF r
  <2>3. Fit(r)
    BY <1>1, <2>2 DEF Fit
  <2>4. QED
    BY <1>1, <2>1, <2>2, <2>3, QuietKeeps
<1>4. QED
  BY <1>2, <1>3

\* The user's create.  An answer that was lost leaves a record that is read.
LEMMA MakeUserKeeps ==
    ASSUME UserInv, NEW c \in Calls, MakeUser(c), UNCHANGED clock
    PROVE  UserInv' /\ KeptStep
<1>1. /\ op[c] \in Request /\ Fit(op[c]) /\ c \in Uids
      /\ op[c].pc = "makeuser" /\ op[c].uid = claim /\ claim \in Uids
      /\ UNCHANGED <<clock, claim, cookies, ended>>
  BY Strangers DEF UserInv, UserShape, Fits, Fit, MakeUser, Request
<1>2. CASE user[claim] = NoUser
  <2> DEFINE new == [draw |-> c, n |-> 0, email |-> ~Blind]
             r == Reading(op[c], "mint", claim)
  <2>1. user' = [user EXCEPT ![claim] = new] /\ op' = [op EXCEPT ![c] = r]
    BY <1>1, <1>2, Zenon DEF MakeUser, Reads, Reading
  <2>2. new \in Person /\ new.draw \in Uids
    BY <1>1, SignInAssumption DEF Person
  <2>3. /\ r \in Request /\ r.pc = "get" /\ r.kind = "mint" /\ r.uid = claim
        /\ r.start = op[c].start
    <3>1. "mint" \in Kinds
      BY DEF Kinds
    <3>2. QED
      BY <1>1, <3>1, ReadingIs
  <2> HIDE DEF r, new
  <2>4. Fit(r)
    BY <1>1, <2>3 DEF Fit
  <2>5. QED
    BY <1>1, <1>2, <2>1, <2>2, <2>3, <2>4, RecordKeeps
<1>3. CASE user[claim] # NoUser
  <2>1. Reads(c, "load", claim) /\ UNCHANGED <<clock, claim, user, cookies, ended>>
    BY <1>1, <1>3 DEF MakeUser
  <2>2. QED
    BY <1>1, <2>1, ReadsKeeps DEF Kinds
<1>4. QED
  BY <1>2, <1>3


\* What Proceed makes of a request that has read the record: at most a
\* cookie to sign for the epoch it has seen.
LEMMA ProceedTo ==
    ASSUME UserInv, NEW o \in Calls \cup Ops, op[o].pc \in {"get", "strip"},
           op[o].kind \in {"ensure", "load", "mint", "refresh", "sweep"},
           NEW seen \in Person, Proceed(o, seen),
           claim \in Uids, seen.draw = user[claim].draw, seen.n = user[claim].n
    PROVE  \E r \in Request : op' = [op EXCEPT ![o] = r] /\ Fit(r)
<1>1. op[o] \in Request /\ Fit(op[o]) /\ op[o].uid = claim
  BY DEF UserInv, UserShape, Fits, Fit
<1>2. CASE op[o].kind \in {"ensure", "load"}
  <2>1. Reads(o, "mint", op[o].uid)
    BY <1>2, Zenon DEF Proceed
  <2>2. op' = [op EXCEPT ![o] = Reading(op[o], "mint", claim)]
    BY <1>1, <2>1, Zenon DEF Reads, Reading
  <2>3. PICK r \in Request :
          /\ op' = [op EXCEPT ![o] = r]
          /\ r.pc = "get" /\ r.kind = "mint" /\ r.uid = claim
          /\ r.start = op[o].start /\ r.old = op[o].old
    <3> DEFINE r == Reading(op[o], "mint", claim)
    <3>1. "mint" \in Kinds
      BY DEF Kinds
    <3>2. /\ r \in Request
          /\ r.pc = "get" /\ r.kind = "mint" /\ r.uid = claim
          /\ r.start = op[o].start /\ r.old = op[o].old
      BY <1>1, <3>1, ReadingIs
    <3>3. QED
      BY <2>2, <3>2, Zenon
  <2>4. Fit(r)
    BY <1>1, <2>3 DEF Fit
  <2>5. QED
    BY <2>3, <2>4
<1>3. CASE op[o].kind = "mint"
  <2>1. op' = [op EXCEPT ![o] = Seeing(op[o], "sign", seen)]
    BY <1>3, Zenon DEF Proceed, Seeing
  <2>2. PICK r \in Request :
          /\ op' = [op EXCEPT ![o] = r]
          /\ r.pc = "sign" /\ r.seen = seen
          /\ r.kind = op[o].kind /\ r.uid = op[o].uid /\ r.start = op[o].start /\ r.old = op[o].old
    <3> DEFINE r == Seeing(op[o], "sign", seen)
    <3>1. "sign" \in Pcs
      BY DEF Pcs
    <3>2. /\ r \in Request
          /\ r.pc = "sign" /\ r.seen = seen
          /\ r.kind = op[o].kind /\ r.uid = op[o].uid /\ r.start = op[o].start /\ r.old = op[o].old
      BY <1>1, <1>3, <3>1, SeeingIs
    <3>3. QED
      BY <2>1, <3>2, Zenon
  <2>3. Fit(r)
    BY <1>1, <1>3, <2>2 DEF Fit
  <2>4. QED
    BY <2>2, <2>3
<1>4. CASE op[o].kind = "refresh"
  <2>1. op' = [op EXCEPT ![o] = Seeing(op[o], "resign", seen)]
    BY <1>4, Zenon DEF Proceed, Seeing
  <2>2. PICK r \in Request :
          /\ op' = [op EXCEPT ![o] = r]
          /\ r.pc = "resign" /\ r.seen = seen
          /\ r.kind = op[o].kind /\ r.uid = op[o].uid /\ r.start = op[o].start /\ r.old = op[o].old
    <3> DEFINE r == Seeing(op[o], "resign", seen)
    <3>1. "resign" \in Pcs
      BY DEF Pcs
    <3>2. /\ r \in Request
          /\ r.pc = "resign" /\ r.seen = seen
          /\ r.kind = op[o].kind /\ r.uid = op[o].uid /\ r.start = op[o].start /\ r.old = op[o].old
      BY <1>1, <1>4, <3>1, SeeingIs
    <3>3. QED
      BY <2>1, <3>2, Zenon
  <2>3. \A e \in ended : (e.epoch[1] = seen.draw /\ seen.n < e.epoch[2]) => FALSE
    <3>1. SUFFICES ASSUME NEW e \in ended, e.epoch[1] = seen.draw, seen.n < e.epoch[2] PROVE FALSE
      OBVIOUS
    <3>2. /\ e.uid \in Uids /\ e.epoch[1] \in Uids /\ e.epoch[2] \in Nat
          /\ user[e.uid].draw = e.epoch[1] /\ e.epoch[2] <= user[e.uid].n
      BY DEF UserInv, UserShape, Raised, SignOut
    <3>3. e.uid = claim
      BY <3>2, PersonOfNobody DEF UserInv, Claimed
    <3>4. seen.n \in Nat
      BY DEF Person
    <3>5. QED
      BY <3>1, <3>2, <3>3, <3>4
  <2>4. Fit(r)
    BY <1>1, <1>4, <2>2, <2>3 DEF Fit
  <2>5. QED
    BY <2>2, <2>4
<1>5. CASE op[o].kind = "sweep"
  <2>1. Over(o)
    BY <1>5, Zenon DEF Proceed
  <2>2. QED
    BY <2>1, OverTo, OverFits
<1>6. QED
  BY <1>2, <1>3, <1>4, <1>5

LEMMA GetUserKeeps ==
    ASSUME UserInv, NEW o \in Calls \cup Ops, GetUser(o), UNCHANGED clock
    PROVE  UserInv' /\ KeptStep
<1> DEFINE u == user[op[o].uid]
<1>1. /\ op[o] \in Request /\ Fit(op[o]) /\ op[o].pc = "get" /\ op[o].kind # "none"
      /\ op[o].uid = claim /\ claim \in Uids
      /\ UNCHANGED <<clock, claim, user, cookies, ended>>
  BY DEF UserInv, UserShape, Fits, Fit, GetUser, Request
<1>2. u \in Person /\ u = user[claim] /\ (u # NoUser => u.draw \in Uids)
  BY <1>1 DEF UserInv, UserShape, Claimed
<1>3. CASE u = NoUser
  <2>1. Missing(o)
    BY <1>3, Zenon DEF GetUser
  <2>2. CASE op[o].kind = "ensure"
    <3>1. Step(o, "makeuser")
      BY <2>1, <2>2 DEF Missing
    <3>2. "makeuser" \in Pcs
      BY DEF Pcs
    <3>3. QED
      BY <1>1, <3>1, <3>2, StepKeeps
  <2>3. CASE op[o].kind # "ensure"
    <3>1. Over(o)
      BY <2>1, <2>3 DEF Missing
    <3>2. QED
      BY <1>1, <3>1, OverKeeps
  <2>4. QED
    BY <2>2, <2>3
<1>4. CASE u # NoUser /\ op[o].kind = "end"
  <2>1. op' = [op EXCEPT ![o] = Seeing(op[o], "bump", u)]
    BY <1>4, Zenon DEF GetUser, Seeing
  <2>2. PICK r \in Request :
          /\ op' = [op EXCEPT ![o] = r]
          /\ r.pc = "bump" /\ r.seen = u
          /\ r.kind = op[o].kind /\ r.uid = op[o].uid /\ r.start = op[o].start /\ r.old = op[o].old
    <3> DEFINE r == Seeing(op[o], "bump", u)
    <3>1. "bump" \in Pcs
      BY DEF Pcs
    <3>2. /\ r \in Request
          /\ r.pc = "bump" /\ r.seen = u
          /\ r.kind = op[o].kind /\ r.uid = op[o].uid /\ r.start = op[o].start /\ r.old = op[o].old
      BY <1>1, <1>2, <1>4, <3>1, SeeingIs
    <3>3. QED
      BY <2>1, <3>2, Zenon
  <2>3. Fit(r)
    BY <1>1, <1>2, <1>4, <2>2 DEF Fit
  <2>4. QED
    BY <1>1, <2>2, <2>3, QuietKeeps
<1>5. CASE u # NoUser /\ op[o].kind # "end" /\ Blind /\ u.email
  <2>1. op' = [op EXCEPT ![o] = Seeing(op[o], "strip", u)]
    BY <1>5, Zenon DEF GetUser, Seeing
  <2>2. PICK r \in Request :
          /\ op' = [op EXCEPT ![o] = r]
          /\ r.pc = "strip" /\ r.seen = u
          /\ r.kind = op[o].kind /\ r.uid = op[o].uid /\ r.start = op[o].start /\ r.old = op[o].old
    <3> DEFINE r == Seeing(op[o], "strip", u)
    <3>1. "strip" \in Pcs
      BY DEF Pcs
    <3>2. /\ r \in Request
          /\ r.pc = "strip" /\ r.seen = u
          /\ r.kind = op[o].kind /\ r.uid = op[o].uid /\ r.start = op[o].start /\ r.old = op[o].old
      BY <1>1, <1>2, <3>1, SeeingIs
    <3>3. QED
      BY <2>1, <3>2, Zenon
  <2>3. Fit(r)
    BY <1>1, <1>2, <1>5, <2>2 DEF Fit
  <2>4. QED
    BY <1>1, <2>2, <2>3, QuietKeeps
<1>6. CASE u # NoUser /\ op[o].kind # "end" /\ ~(Blind /\ u.email)
  <2>1. Proceed(o, u)
    BY <1>6, Zenon DEF GetUser
  <2>2. op[o].kind \in {"ensure", "load", "mint", "refresh", "sweep"}
    BY <1>1, <1>6 DEF Request, Kinds
  <2>3. PICK r \in Request : op' = [op EXCEPT ![o] = r] /\ Fit(r)
    BY <1>1, <1>2, <2>1, <2>2, ProceedTo
  <2>4. QED
    BY <1>1, <2>3, QuietKeeps
<1>7. QED
  BY <1>3, <1>4, <1>5, <1>6


Stripped(q) == [q EXCEPT !.email = FALSE]
Bumped(q) == [q EXCEPT !.n = @ + 1, !.email = @ /\ ~Blind]

LEMMA StrippedIs ==
    ASSUME NEW q \in Person
    PROVE  /\ Stripped(q) \in Person
           /\ Stripped(q).draw = q.draw /\ Stripped(q).n = q.n /\ ~Stripped(q).email
  BY DEF Person, Stripped

Leaving(q, n, email) == [q EXCEPT !.n = n, !.email = email]

LEMMA LeavingIs ==
    ASSUME NEW q \in Person, NEW n \in Nat, NEW email \in BOOLEAN
    PROVE  /\ Leaving(q, n, email) \in Person
           /\ Leaving(q, n, email).draw = q.draw
           /\ Leaving(q, n, email).n = n /\ Leaving(q, n, email).email = email
  BY DEF Person, Leaving

LEMMA BumpedIs ==
    ASSUME NEW q \in Person
    PROVE  /\ Bumped(q) \in Person
           /\ Bumped(q).draw = q.draw /\ Bumped(q).n = q.n + 1 /\ (Bumped(q).email => q.email)
<1> DEFINE n == q.n + 1
           email == q.email /\ ~Blind
<1>1. Bumped(q) = Leaving(q, n, email)
  BY Zenon DEF Bumped, Leaving
<1>2. n \in Nat /\ n = q.n + 1
  BY DEF Person
<1>3. email \in BOOLEAN /\ (email => q.email)
  BY Zenon
<1> HIDE DEF n, email
<1>4. /\ Leaving(q, n, email) \in Person
      /\ Leaving(q, n, email).draw = q.draw /\ Leaving(q, n, email).n = n /\ Leaving(q, n, email).email = email
  BY <1>2, <1>3, LeavingIs
<1>5. QED
  BY <1>1, <1>2, <1>3, <1>4

\* The strip lands on the record it read, finds it done, or reads again.
LEMMA StripKeeps ==
    ASSUME UserInv, NEW o \in Calls \cup Ops, Strip(o), UNCHANGED clock
    PROVE  UserInv' /\ KeptStep
<1> DEFINE new == Stripped(op[o].seen)
<1>1. /\ op[o] \in Request /\ Fit(op[o]) /\ op[o].pc = "strip"
      /\ op[o].uid = claim /\ claim \in Uids
      /\ op[o].seen \in Person /\ op[o].seen.draw \in Uids
      /\ UNCHANGED <<clock, claim, cookies, ended>>
  BY DEF UserInv, UserShape, Fits, Fit, Strip, Request
<1>2. op[o].kind \in {"ensure", "load", "mint", "refresh", "sweep"}
  BY <1>1 DEF Fit, Request, Kinds
<1>3. /\ new \in Person /\ new.draw = op[o].seen.draw /\ new.n = op[o].seen.n /\ ~new.email
  BY <1>1, StrippedIs
<1>4. /\ user' = IF user[claim] = op[o].seen THEN [user EXCEPT ![claim] = new] ELSE user
      /\ IF user'[claim] = new THEN Proceed(o, new) ELSE Reads(o, op[o].kind, claim)
  BY <1>1, Zenon DEF Strip, Swap, Stripped
<1> HIDE DEF new
<1>5. user \in [Uids -> Person]
  BY DEF UserInv, UserShape
<1>6. CASE user[claim] = op[o].seen
  <2>1. user' = [user EXCEPT ![claim] = new] /\ user'[claim] = new
    BY <1>1, <1>4, <1>5, <1>6
  <2>2. Proceed(o, new)
    BY <1>4, <2>1
  <2>3. PICK r \in Request : op' = [op EXCEPT ![o] = r] /\ Fit(r)
    BY <1>1, <1>2, <1>3, <1>6, <2>2, ProceedTo
  <2>4. new.n \in Nat
    BY <1>3 DEF Person
  <2>5. new.draw = user[claim].draw /\ new.n >= user[claim].n /\ (new.email => user[claim].email)
    BY <1>3, <1>6, <2>4
  <2>6. QED
    BY <1>1, <1>3, <2>1, <2>3, <2>5, RecordKeeps
<1>7. CASE user[claim] # op[o].seen
  <2>1. user' = user
    BY <1>4, <1>7
  <2>2. CASE user[claim] = new
    <3>1. Proceed(o, new)
      BY <1>4, <2>1, <2>2
    <3>2. PICK r \in Request : op' = [op EXCEPT ![o] = r] /\ Fit(r)
      BY <1>1, <1>2, <1>3, <2>2, <3>1, ProceedTo
    <3>3. QED
      BY <1>1, <2>1, <3>2, QuietKeeps
  <2>3. CASE user[claim] # new
    <3> DEFINE kind == op[o].kind
    <3>1. Reads(o, kind, claim) /\ kind \in Kinds \ {"none"}
      BY <1>2, <1>4, <2>1, <2>3 DEF Kinds
    <3>2. kind = "refresh" => op[o].kind = "refresh"
      OBVIOUS
    <3>3. UNCHANGED <<clock, claim, user, cookies, ended>>
      BY <1>1, <2>1
    <3> HIDE DEF kind
    <3>4. QED
      BY <1>1, <3>1, <3>2, <3>3, ReadsKeeps
  <2>4. QED
    BY <2>2, <2>3
<1>8. QED
  BY <1>6, <1>7

\* A sign-out everywhere is answered once the record is at its epoch.
LEMMA SignOutKeeps ==
    ASSUME UserInv, NEW o \in Calls \cup Ops, Over(o), claim \in Uids,
           NEW new \in Person, new.draw \in Uids,
           user' \in [Uids -> Person], user'[claim] = new, Claimed', KeptStep,
           \A e \in ended : user'[e.uid].draw = e.epoch[1] /\ e.epoch[2] <= user'[e.uid].n,
           ended' = ended \cup {[uid |-> claim, epoch |-> Epoch(new), time |-> clock]},
           UNCHANGED <<clock, claim, cookies>>
    PROVE  UserInv'
<1>1. clock \in Nat
  BY DEF UserInv, UserShape
<1>2. PICK s \in SignOut : /\ ended' = ended \cup {s}
                           /\ s.uid = claim /\ s.epoch[1] = new.draw /\ s.epoch[2] = new.n /\ s.time = clock
  <2> DEFINE s == [uid |-> claim, epoch |-> Epoch(new), time |-> clock]
  <2>1. Epoch(new) \in Uids \X Nat /\ Epoch(new)[1] = new.draw /\ Epoch(new)[2] = new.n
    BY DEF Epoch, Person
  <2>2. s \in SignOut /\ s.uid = claim /\ s.epoch = Epoch(new) /\ s.time = clock
    BY <1>1, <2>1 DEF SignOut
  <2>3. ended' = ended \cup {s}
    OBVIOUS
  <2> HIDE DEF s
  <2>4. QED
    BY <2>1, <2>2, <2>3
<1>3. PICK r \in Request : /\ op' = [op EXCEPT ![o] = r]
                           /\ r.pc \in {"rest", "over"} /\ r.kind = "none" /\ r.start = 0
  BY OverTo
<1>4. \A e \in ended' : e \in ended \/ (e.time \in Nat /\ clock <= e.time)
  BY <1>1, <1>2
<1>5. \A q \in Request : Fit(q) => Fit(q)'
  BY <1>1, <1>4, FitStays
<1>6. Fit(r)
  BY <1>3, OverFits
<1>7. op' \in [Calls \cup Ops -> Request] /\ Fits'
  BY <1>3, <1>4, <1>5, <1>6, OneMoves
<1>8. UserShape' /\ Issued'
  BY <1>2, <1>7 DEF UserInv, UserShape, Issued
<1>9. Raised'
  <2>1. new.n \in Nat
    BY DEF Person
  <2>2. \A e \in ended : e.time <= clock
    BY DEF UserInv, Raised
  <2>3. QED
    BY <1>1, <1>2, <2>1, <2>2 DEF Raised
<1>10. EndsInOneLifetime'
  <2>1. SUFFICES ASSUME NEW e \in ended', NEW c \in cookies,
                        c.uid = e.uid, c.epoch[1] = e.epoch[1], c.epoch[2] < e.epoch[2]
                 PROVE  c.exp <= (IF c.at > e.time THEN c.at ELSE e.time) + Lifetime
    BY DEF EndsInOneLifetime
  <2>2. CASE e \in ended
    BY <2>1, <2>2 DEF UserInv, EndsInOneLifetime
  <2>3. CASE e = s
    <3>1. c.exp <= clock + Lifetime /\ c.exp \in Int /\ c.at \in Nat
      BY DEF UserInv, UserShape, Issued, Stub
    <3>2. QED
      BY <1>1, <1>2, <2>3, <3>1, SignInAssumption
  <2>4. QED
    BY <1>2, <2>1, <2>2, <2>3
<1>11. QED
  BY <1>7, <1>8, <1>9, <1>10 DEF UserInv

LEMMA BumpKeeps ==
    ASSUME UserInv, NEW o \in Calls \cup Ops, Bump(o), UNCHANGED clock
    PROVE  UserInv' /\ KeptStep
<1> DEFINE new == Bumped(op[o].seen)
<1>1. /\ op[o] \in Request /\ op[o].uid = claim /\ claim \in Uids
      /\ op[o].seen \in Person /\ op[o].seen.draw \in Uids
      /\ UNCHANGED <<clock, claim, cookies>>
  BY DEF UserInv, UserShape, Fits, Fit, Bump, Request
<1>2. /\ new \in Person /\ new.draw = op[o].seen.draw /\ new.n = op[o].seen.n + 1
      /\ new.email => op[o].seen.email
  BY <1>1, BumpedIs
<1>3. /\ user' = IF user[claim] = op[o].seen THEN [user EXCEPT ![claim] = new] ELSE user
      /\ IF user'[claim] = new
         THEN Over(o) /\ ended' = ended \cup {[uid |-> claim, epoch |-> Epoch(new), time |-> clock]}
         ELSE Reads(o, "end", claim) /\ UNCHANGED ended
  BY <1>1, Zenon DEF Bump, Swap, Bumped
<1>4. user \in [Uids -> Person]
  BY DEF UserInv, UserShape
<1> HIDE DEF new
<1>5. PICK rec \in Person : rec = new
  BY <1>2
<1>6. CASE user[claim] = op[o].seen
  <2>1. user' = [user EXCEPT ![claim] = rec]
    BY <1>3, <1>5, <1>6
  <2>2. user'[claim] = rec
    BY <1>1, <1>4, <2>1
  <2>3. op[o].seen.n \in Nat
    BY <1>1 DEF Person
  <2>4. /\ rec.draw = user[claim].draw /\ rec.n >= user[claim].n
        /\ rec.email => user[claim].email
    BY <1>2, <1>5, <1>6, <2>3
  <2>5. /\ user' \in [Uids -> Person] /\ Claimed' /\ KeptStep
        /\ \A e \in ended : user'[e.uid].draw = e.epoch[1] /\ e.epoch[2] <= user'[e.uid].n
    BY <1>1, <1>2, <1>5, <2>1, <2>4, RecordMoves
  <2>6. Over(o) /\ ended' = ended \cup {[uid |-> claim, epoch |-> Epoch(rec), time |-> clock]}
    BY <1>3, <1>5, <2>2
  <2>7. QED
    BY <1>1, <1>2, <1>5, <2>2, <2>5, <2>6, SignOutKeeps
<1>7. CASE user[claim] # op[o].seen
  <2>1. user' = user
    BY <1>3, <1>7
  <2>2. CASE user[claim] = rec
    <3>1. Over(o) /\ ended' = ended \cup {[uid |-> claim, epoch |-> Epoch(rec), time |-> clock]}
      BY <1>3, <1>5, <2>1, <2>2
    <3>2. Claimed' /\ KeptStep
      <4>1. \A u \in Uids : user[u].n \in Nat
        BY <1>4 DEF Person
      <4>2. QED
        BY <1>1, <2>1, <4>1 DEF UserInv, Claimed, KeptStep
    <3>3. \A e \in ended : user'[e.uid].draw = e.epoch[1] /\ e.epoch[2] <= user'[e.uid].n
      BY <2>1 DEF UserInv, Raised
    <3>4. QED
      BY <1>1, <1>2, <1>4, <1>5, <2>1, <2>2, <3>1, <3>2, <3>3, SignOutKeeps
  <2>3. CASE user[claim] # rec
    <3>1. Reads(o, "end", claim) /\ UNCHANGED <<clock, claim, user, cookies, ended>>
      BY <1>1, <1>3, <1>5, <2>1, <2>3
    <3>2. QED
      BY <1>1, <3>1, ReadsKeeps DEF Kinds
  <2>4. QED
    BY <2>2, <2>3
<1>8. QED
  BY <1>6, <1>7


LEMMA SignedExpIs ==
    ASSUME NEW iat \in Nat, NEW at \in Nat
    PROVE  SignedExp(iat, at) \in Int /\ SignedExp(iat, at) <= iat + Lifetime
  BY SignInAssumption DEF SignedExp, Least

\* A cookie is issued: for its own moment, or for one before every sign-out
\* it would escape.
LEMMA CookieKeeps ==
    ASSUME UserInv, NEW o \in Calls \cup Ops, Over(o), NEW k \in Stub, k.uid = claim, k.exp <= clock + Lifetime,
           \A e \in ended : (k.epoch[1] = e.epoch[1] /\ k.epoch[2] < e.epoch[2]) =>
               k.exp <= (IF k.at > e.time THEN k.at ELSE e.time) + Lifetime,
           cookies' = cookies \cup {k},
           UNCHANGED <<clock, claim, user, ended>>
    PROVE  UserInv' /\ KeptStep
<1>1. PICK r \in Request : /\ op' = [op EXCEPT ![o] = r]
                           /\ r.pc \in {"rest", "over"} /\ r.kind = "none" /\ r.start = 0
  BY OverTo
<1>2. clock \in Nat /\ clock <= clock' /\ \A e \in ended' : e \in ended
  BY DEF UserInv, UserShape
<1>3. \A q \in Request : Fit(q) => Fit(q)'
  BY <1>2, FitStays
<1>4. Fit(r)
  BY <1>1, OverFits
<1>5. op' \in [Calls \cup Ops -> Request] /\ Fits'
  BY <1>1, <1>2, <1>3, <1>4, OneMoves
<1>6. UserShape' /\ Claimed' /\ Issued' /\ Raised'
  BY <1>5 DEF UserInv, UserShape, Claimed, Issued, Raised
<1>7. EndsInOneLifetime'
  BY DEF UserInv, EndsInOneLifetime
<1>8. KeptStep
  <2>1. \A u \in Uids : user[u].n \in Nat
    BY DEF UserInv, UserShape, Person
  <2>2. QED
    BY <2>1 DEF KeptStep
<1>9. QED
  BY <1>5, <1>6, <1>7, <1>8 DEF UserInv

LEMMA SignKeeps ==
    ASSUME UserInv, NEW c \in Calls, Sign(c), UNCHANGED clock
    PROVE  UserInv' /\ KeptStep
<1> DEFINE k == [uid |-> op[c].uid, epoch |-> Epoch(op[c].seen), at |-> clock, exp |-> SignedExp(clock, clock)]
<1>1. /\ op[c] \in Request /\ op[c].uid = claim /\ claim \in Uids /\ clock \in Nat
      /\ op[c].seen \in Person
      /\ Over(c) /\ cookies' = cookies \cup {k} /\ UNCHANGED <<clock, claim, user, ended>>
  BY DEF UserInv, UserShape, Fits, Fit, Sign, Request
<1>2. Epoch(op[c].seen) \in (Uids \cup {NoClaim}) \X Nat
  BY <1>1 DEF Epoch, Person
<1>3. k.exp \in Int /\ k.exp <= clock + Lifetime /\ k.at = clock /\ k.uid = claim
  BY <1>1, SignedExpIs
<1>4. k \in Stub
  BY <1>1, <1>2, <1>3 DEF Stub
<1> HIDE DEF k
<1>5. \A e \in ended : k.exp <= (IF k.at > e.time THEN k.at ELSE e.time) + Lifetime
  <2>1. \A e \in ended : e.time \in Nat /\ e.time <= clock
    BY DEF UserInv, UserShape, Raised, SignOut
  <2>2. QED
    BY <1>1, <1>3, <2>1, SignInAssumption
<1>6. QED
  BY <1>1, <1>3, <1>4, <1>5, CookieKeeps

Until(q, exp) == [q EXCEPT !.exp = exp]

LEMMA UntilIs ==
    ASSUME NEW q \in Stub, NEW exp \in Int
    PROVE  /\ Until(q, exp) \in Stub /\ Until(q, exp).exp = exp
           /\ Until(q, exp).uid = q.uid /\ Until(q, exp).epoch = q.epoch /\ Until(q, exp).at = q.at
  BY DEF Stub, Until

LEMMA ResignKeeps ==
    ASSUME UserInv, NEW o \in Calls \cup Ops, Resign(o), UNCHANGED clock
    PROVE  UserInv' /\ KeptStep
<1> DEFINE q == op[o]
<1>1. /\ q \in Request /\ Fit(q) /\ q.pc = "resign" /\ q.kind = "refresh" /\ q.old.uid = claim
      /\ q.start \in Nat /\ q.start <= clock /\ clock \in Nat /\ q.old \in Stub /\ q.old.at \in Nat /\ q.seen \in Person
      /\ Over(o) /\ UNCHANGED <<clock, claim, user, ended>>
  BY DEF UserInv, UserShape, Fits, Fit, Resign, Request, Stub
<1>2. CASE Epoch(q.seen) = q.old.epoch
  <2> DEFINE exp == SignedExp(q.start, q.old.at)
             k == Until(q.old, exp)
  <2>1. cookies' = cookies \cup {k}
    BY <1>2, Zenon DEF Resign, Until
  <2>2. exp \in Int /\ exp <= q.start + Lifetime
    BY <1>1, SignedExpIs
  <2> HIDE DEF exp
  <2>3. k \in Stub /\ k.exp = exp /\ k.uid = claim /\ k.epoch = Epoch(q.seen) /\ k.at = q.old.at
    BY <1>1, <1>2, <2>2, UntilIs
  <2>4. k.epoch[1] = q.seen.draw /\ k.epoch[2] = q.seen.n
    BY <2>3 DEF Epoch
  <2>5. k.exp <= clock + Lifetime
    BY <1>1, <2>2, <2>3, SignInAssumption
  <2>6. \A e \in ended : (k.epoch[1] = e.epoch[1] /\ k.epoch[2] < e.epoch[2]) =>
            k.exp <= (IF k.at > e.time THEN k.at ELSE e.time) + Lifetime
    <3>1. SUFFICES ASSUME NEW e \in ended, k.epoch[1] = e.epoch[1], k.epoch[2] < e.epoch[2]
                   PROVE  k.exp <= (IF k.at > e.time THEN k.at ELSE e.time) + Lifetime
      OBVIOUS
    <3>2. q.start <= e.time
      BY <1>1, <2>4, <3>1 DEF Fit
    <3>3. e.time \in Nat
      BY DEF UserInv, UserShape, SignOut
    <3>4. QED
      BY <1>1, <2>2, <2>3, <3>2, <3>3, SignInAssumption
  <2> HIDE DEF k
  <2>7. QED
    BY <1>1, <2>1, <2>3, <2>5, <2>6, CookieKeeps
<1>3. CASE Epoch(q.seen) # q.old.epoch
  <2>1. cookies' = cookies
    BY <1>3, Zenon DEF Resign
  <2>2. QED
    BY <1>1, <2>1, OverKeeps
<1>4. QED
  BY <1>2, <1>3

Refreshing(c) == [Rest EXCEPT !.pc = "get", !.kind = "refresh", !.uid = c.uid, !.start = clock, !.old = c]

LEMMA RefreshingIs ==
    ASSUME NEW c \in Stub, clock \in Nat
    PROVE  /\ Refreshing(c) \in Request
           /\ Refreshing(c).pc = "get" /\ Refreshing(c).kind = "refresh" /\ Refreshing(c).uid = c.uid
           /\ Refreshing(c).start = clock /\ Refreshing(c).old = c
  BY RestIs DEF Request, Refreshing, Pcs, Kinds, Stub

LEMMA RefreshKeeps ==
    ASSUME UserInv, NEW o \in Calls \cup Ops, Refresh(o), UNCHANGED clock
    PROVE  UserInv' /\ KeptStep
<1>1. PICK c \in cookies : op' = [op EXCEPT ![o] = Refreshing(c)]
  BY Zenon DEF Refresh, Refreshing
<1>2. c \in Stub /\ c.uid = claim /\ clock \in Nat
  BY DEF UserInv, UserShape, Issued
<1>3. PICK r \in Request : /\ op' = [op EXCEPT ![o] = r]
                           /\ r.pc = "get" /\ r.kind = "refresh" /\ r.uid = c.uid /\ r.start = clock /\ r.old = c
  <2>1. /\ Refreshing(c) \in Request
        /\ Refreshing(c).pc = "get" /\ Refreshing(c).kind = "refresh" /\ Refreshing(c).uid = c.uid
        /\ Refreshing(c).start = clock /\ Refreshing(c).old = c
    BY <1>2, RefreshingIs
  <2>2. QED
    BY <1>1, <2>1, Zenon
<1>4. Fit(r)
  BY <1>2, <1>3 DEF Fit
<1>5. UNCHANGED <<clock, claim, user, cookies, ended>>
  BY DEF Refresh
<1>6. QED
  BY <1>3, <1>4, <1>5, QuietKeeps

\* What the links and the clock do leaves the users alone.
LEMMA OthersKeep ==
    ASSUME UserInv, UNCHANGED userVars, clock' \in Nat, clock <= clock'
    PROVE  UserInv' /\ KeptStep
<1>1. /\ claim' = claim /\ user' = user /\ op' = op /\ cookies' = cookies /\ ended' = ended
      /\ clock \in Nat
  BY DEF userVars, UserInv, UserShape
<1>2. \A q \in Request : Fit(q) => Fit(q)'
  BY <1>1, FitStays
<1>3. Fits'
  <2>1. SUFFICES ASSUME NEW p \in Calls \cup Ops PROVE Fit(op[p])'
    BY DEF Fits
  <2>2. PICK q \in Request : q = op[p] /\ Fit(q)
    BY DEF UserInv, UserShape, Fits
  <2>3. Fit(q)' /\ op'[p] = q
    BY <1>1, <1>2, <2>2
  <2>4. QED
    BY <2>3 DEF Fit
<1>4. UserShape' /\ Claimed' /\ EndsInOneLifetime'
  BY <1>1 DEF UserInv, UserShape, Claimed, EndsInOneLifetime
<1>5. Issued' /\ Raised'
  <2>1. \A c \in cookies : c.exp \in Int
    BY DEF UserInv, UserShape, Stub
  <2>2. \A e \in ended : e.time \in Nat
    BY DEF UserInv, UserShape, SignOut
  <2>3. Issued'
    BY <1>1, <2>1, SignInAssumption DEF UserInv, Issued
  <2>4. Raised'
    BY <1>1, <2>2 DEF UserInv, Raised
  <2>5. QED
    BY <2>3, <2>4
<1>6. KeptStep
  <2>1. \A u \in Uids : user[u].n \in Nat
    BY DEF UserInv, UserShape, Person
  <2>2. QED
    BY <1>1, <2>1 DEF KeptStep
<1>7. QED
  BY <1>3, <1>4, <1>5, <1>6 DEF UserInv

LEMMA UserNext == UserInv /\ [Next]_vars => UserInv' /\ KeptStep
<1> SUFFICES ASSUME UserInv, [Next]_vars
             PROVE  UserInv' /\ KeptStep
  OBVIOUS
<1>1. clock \in Nat
  BY DEF UserInv, UserShape
<1>2. CASE (Tick \/ LinkStep) /\ UNCHANGED userVars
  <2>1. clock' = clock \/ clock' = clock + 1
    BY <1>2 DEF Tick, LinkStep, PutLink, Redeem, TakeStep, ReadLink, MarkUsed, DeleteLink, Judge, TakeFails,
                BeginSweep, SweepNext, EndSweep
  <2>2. QED
    BY <1>1, <1>2, <2>1, OthersKeep
<1>3. CASE \E c \in Calls : Admit(c)
  <2>1. PICK c \in Calls : Admit(c)
    BY <1>3
  <2>2. Step(c, "claim") /\ UNCHANGED <<clock, claim, user, cookies, ended>>
    BY <2>1 DEF Admit
  <2>3. QED
    BY <2>2, StepKeeps DEF Pcs
<1>4. CASE UNCHANGED clock /\ \E c \in Calls : SignInStep(c)
  BY <1>4, ReadClaimKeeps, MakeClaimKeeps, MakeUserKeeps, SignKeeps DEF SignInStep
<1>5. CASE UNCHANGED clock /\ \E o \in Ops : OtherStep(o)
  <2>1. PICK o \in Ops : OtherStep(o)
    BY <1>5
  <2>2. CASE EndSessions(o) \/ SweepUser(o)
    <3>1. /\ Reads(o, "end", claim) \/ Reads(o, "sweep", claim)
          /\ claim \in Uids
          /\ UNCHANGED <<clock, claim, user, cookies, ended>>
      BY <1>5, <2>2 DEF EndSessions, SweepUser, UserInv, UserShape
    <3>2. QED
      BY <3>1, ReadsKeeps DEF Kinds
  <2>3. QED
    BY <1>5, <2>1, <2>2, RefreshKeeps, ResignKeeps, BumpKeeps DEF OtherStep
<1>6. CASE UNCHANGED clock /\ \E o \in Calls \cup Ops : OpStep(o)
  BY <1>6, GetUserKeeps, StripKeeps DEF OpStep
<1>7. CASE UNCHANGED vars
  <2>1. UNCHANGED userVars /\ clock' = clock
    BY <1>7 DEF vars
  <2>2. QED
    BY <1>1, <2>1, OthersKeep
<1>8. QED
  BY <1>2, <1>3, <1>4, <1>5, <1>6, <1>7 DEF Next, linkVars

LEMMA UserAlways == Spec => []UserInv
<1>1. UserInv /\ [Next]_vars => UserInv'
  BY UserNext
<1>2. QED
  BY <1>1, UserInvInit, PTL DEF Spec

\* One address has one user (auth/users.go ensure), for any number of
\* sign-ins that race, find a claim with no user, or lose their answers.
THEOREM AddressHasOneUser == Spec => []OneUserPerAddress
<1>1. UserInv => OneUserPerAddress
  BY DEF UserInv, Claimed, Issued, OneUserPerAddress
<1>2. QED
  BY <1>1, UserAlways, PTL

\* A sign-out everywhere ends every session within one lifetime
\* (users.go EndSessions, sessions/refresh.go), whatever refreshes were on
\* their way.
THEOREM SignOutEndsSessions == Spec => []EndsInOneLifetime
<1>1. UserInv => EndsInOneLifetime
  BY DEF UserInv
<1>2. QED
  BY <1>1, UserAlways, PTL

\* A user's record only moves forward (users.go read, EndSessions).
THEOREM RecordOnlyMovesForward == Spec => RecordKept
<1>1. UserInv /\ [Next]_vars => [\A u \in Uids : (user[u] # NoUser /\ user'[u] # NoUser) =>
            /\ user'[u].draw = user[u].draw /\ user'[u].n >= user[u].n
            /\ user'[u].email => user[u].email]_vars
  BY UserNext DEF KeptStep
<1>2. QED
  BY <1>1, UserAlways, PTL DEF Spec, RecordKept


-----------------------------------------------------------------------------
(* Bounds: what the types of RecordSignIn add to the shapes above.  The    *)
(* count of sign-outs stays in its bound because those under way are       *)
(* counted against it.                                                     *)

Sound(s) == s = NoUser \/ (s.draw \in Uids /\ s.n <= MaxEnds)

\* What a request holds.
Able(r) ==
    /\ Sound(r.seen) /\ r.tries \in 0..2
    /\ r.old \in Cookie \cup {NoCookie} /\ (r.kind = "refresh" => r.old \in Cookie)
    /\ r.pc \in {"strip", "sign", "resign", "bump"} => r.seen # NoUser
    /\ r.pc = "bump" => r.kind = "end"

Ending == {p \in Ops : op[p].kind = "end"}

Counted == \A u \in Uids : user[u].n + Cardinality(Ending) <= MaxEnds

BoundInv ==
    /\ clock <= MaxClock
    /\ Counted
    /\ \A o \in Calls \cup Ops : Able(op[o])
    /\ cookies \subseteq Cookie
    /\ stored \subseteq Tokens /\ used \subseteq Tokens

\* A record of a person within the bounds is a record of the types.
LEMMA SoundIs ==
    ASSUME NEW s \in Person, Sound(s)
    PROVE  s \in User \cup {NoUser}
<1>1. CASE s.draw \in Uids /\ s.n <= MaxEnds
  <2>1. s.n \in 0..MaxEnds
    BY <1>1, SignInAssumption DEF Person
  <2>2. QED
    BY <1>1, <2>1 DEF Person, User
<1>2. QED
  BY <1>1 DEF Sound

\* A request at rest, and one that is over.
LEMMA RestIsAble ==
    /\ Able(Rest) /\ Rest.kind # "end" /\ Rest.tries = 0
    /\ Able(Stepped(Rest, "over")) /\ Stepped(Rest, "over").kind # "end"
<1>1. Able(Rest) /\ Rest.kind # "end" /\ Rest.tries = 0
  BY DEF Rest, Able, Sound
<1>2. Able(Stepped(Rest, "over")) /\ Stepped(Rest, "over").kind # "end"
  BY DEF Rest, Able, Sound, Stepped
<1>3. QED
  BY <1>1, <1>2

\* It moves to a place where nothing is held.
LEMMA SteppedIsAble ==
    ASSUME NEW q \in Request, Able(q), NEW pc \in {"claim", "makeclaim", "makeuser"}
    PROVE  Able(Stepped(q, pc)) /\ Stepped(q, pc).kind = q.kind /\ Stepped(q, pc).tries = q.tries
<1>1. /\ Stepped(q, pc).pc = pc /\ Stepped(q, pc).kind = q.kind
      /\ Stepped(q, pc).seen = q.seen /\ Stepped(q, pc).old = q.old /\ Stepped(q, pc).tries = q.tries
  BY DEF Stepped, Request
<1>2. QED
  BY <1>1 DEF Able

\* It has seen a record.
LEMMA SeeingIsAble ==
    ASSUME NEW q \in Request, Able(q), NEW pc \in {"strip", "sign", "resign", "bump"},
           NEW s \in Person, Sound(s), s # NoUser, pc = "bump" => q.kind = "end"
    PROVE  Able(Seeing(q, pc, s)) /\ Seeing(q, pc, s).kind = q.kind
<1>1. /\ Seeing(q, pc, s).pc = pc /\ Seeing(q, pc, s).kind = q.kind
      /\ Seeing(q, pc, s).seen = s /\ Seeing(q, pc, s).old = q.old /\ Seeing(q, pc, s).tries = q.tries
  BY DEF Seeing, Request
<1>2. QED
  BY <1>1 DEF Able

\* It begins to read.
LEMMA ReadingIsAble ==
    ASSUME NEW q \in Request, Able(q), NEW kind, NEW uid, kind = "refresh" => q.kind = "refresh"
    PROVE  Able(Reading(q, kind, uid)) /\ Reading(q, kind, uid).kind = kind
<1>1. /\ Reading(q, kind, uid).pc = "get" /\ Reading(q, kind, uid).kind = kind
      /\ Reading(q, kind, uid).seen = NoUser /\ Reading(q, kind, uid).old = q.old
      /\ Reading(q, kind, uid).tries = q.tries
  BY DEF Reading, Request
<1>2. QED
  BY <1>1 DEF Able, Sound

\* It claims the address, or tries again.
LEMMA ClaimingIsAble ==
    ASSUME NEW q \in Request, Able(q), NEW c, NEW n \in 0..2
    PROVE  /\ Able(Claiming(q, c)) /\ Claiming(q, c).kind = q.kind
           /\ Able(Trying(q, n)) /\ Trying(q, n).kind = q.kind
<1>1. /\ Claiming(q, c).pc = "makeuser" /\ Claiming(q, c).kind = q.kind
      /\ Claiming(q, c).seen = q.seen /\ Claiming(q, c).old = q.old /\ Claiming(q, c).tries = q.tries
  BY DEF Claiming, Request
<1>2. /\ Trying(q, n).pc = "claim" /\ Trying(q, n).kind = q.kind
      /\ Trying(q, n).seen = q.seen /\ Trying(q, n).old = q.old /\ Trying(q, n).tries = n
  BY DEF Trying, Request
<1>3. QED
  BY <1>1, <1>2 DEF Able

\* It begins to refresh a cookie.
LEMMA RefreshingIsAble ==
    ASSUME NEW c \in Cookie
    PROVE  Able(Refreshing(c)) /\ Refreshing(c).kind = "refresh"
<1>1. /\ Refreshing(c).pc = "get" /\ Refreshing(c).kind = "refresh"
      /\ Refreshing(c).seen = NoUser /\ Refreshing(c).old = c /\ Refreshing(c).tries = 0
  BY DEF Refreshing, Rest
<1>2. QED
  BY <1>1 DEF Able, Sound

\* The sign-outs under way are finite in number.
LEMMA EndingBound ==
    ASSUME NEW S \in SUBSET Ops
    PROVE  IsFiniteSet(S) /\ Cardinality(S) \in Nat
  BY SignInAssumption, FS_Subset, FS_CardinalityType

\* The record of the claim is within the bound, for as long as it counts.
LEMMA CountedSound ==
    ASSUME UserInv, Counted, NEW u \in Uids
    PROVE  Sound(user[u]) /\ user[u] \in Person /\ user[u].n \in Nat /\ Cardinality(Ending) \in Nat
<1>1. user[u] \in Person /\ user[u].n \in Nat /\ (user[u] = NoUser \/ user[u].draw \in Uids)
  BY DEF UserInv, UserShape, Claimed, Person
<1>2. Cardinality(Ending) \in Nat
  BY EndingBound DEF Ending
<1>3. user[u].n <= MaxEnds
  BY <1>1, <1>2, SignInAssumption DEF Counted
<1>4. QED
  BY <1>1, <1>2, <1>3 DEF Sound

\* One request moves on.  It may not become a sign-out; if it stops being one
\* the count falls.
LEMMA OneMovesBound ==
    ASSUME UserInv, BoundInv, NEW o \in Calls \cup Ops, NEW r,
           op' = [op EXCEPT ![o] = r], Able(r), r.kind = "end" => op[o].kind = "end"
    PROVE  /\ \A p \in Calls \cup Ops : Able(op'[p])
           /\ Cardinality(Ending') \in Nat /\ Cardinality(Ending) \in Nat
           /\ Cardinality(Ending') <= Cardinality(Ending)
           /\ (o \in Ending /\ r.kind # "end") => Cardinality(Ending') + 1 <= Cardinality(Ending)
<1>1. op'[o] = r /\ \A p \in (Calls \cup Ops) \ {o} : op'[p] = op[p]
  BY DEF UserInv, UserShape
<1>2. \A p \in Calls \cup Ops : Able(op'[p])
  BY <1>1 DEF BoundInv
<1>3. Ending' \in SUBSET Ending
  BY <1>1 DEF Ending
<1>4. Ending \in SUBSET Ops /\ Ending' \in SUBSET Ops
  BY DEF Ending
<1>5. /\ IsFiniteSet(Ending) /\ IsFiniteSet(Ending')
      /\ Cardinality(Ending') \in Nat /\ Cardinality(Ending) \in Nat
  BY <1>4, EndingBound
<1>6. Cardinality(Ending') <= Cardinality(Ending)
  BY <1>3, <1>5, FS_Subset
<1>7. ASSUME o \in Ending, r.kind # "end"
      PROVE  Cardinality(Ending') + 1 <= Cardinality(Ending)
  <2>1. Ending' \in SUBSET (Ending \ {o})
    BY <1>1, <1>3, <1>7 DEF Ending
  <2>2. IsFiniteSet(Ending \ {o}) /\ Cardinality(Ending \ {o}) = Cardinality(Ending) - 1
    BY <1>5, <1>7, FS_RemoveElement
  <2>3. Cardinality(Ending') <= Cardinality(Ending \ {o})
    BY <2>1, <2>2, FS_Subset
  <2>4. QED
    BY <1>5, <2>2, <2>3
<1>8. QED
  BY <1>2, <1>5, <1>6, <1>7

\* A request moves on, and writes no record.
LEMMA QuietBound ==
    ASSUME UserInv, BoundInv, NEW o \in Calls \cup Ops, NEW r,
           op' = [op EXCEPT ![o] = r], Able(r), r.kind = "end" => op[o].kind = "end",
           user' = user, cookies' \subseteq Cookie,
           UNCHANGED <<clock, stored, used>>
    PROVE  BoundInv'
<1>1. /\ \A p \in Calls \cup Ops : Able(op'[p])
      /\ Cardinality(Ending') \in Nat /\ Cardinality(Ending) \in Nat
      /\ Cardinality(Ending') <= Cardinality(Ending)
  BY OneMovesBound
<1>2. \A u \in Uids : user[u].n \in Nat /\ user[u].n + Cardinality(Ending) <= MaxEnds
  BY CountedSound DEF BoundInv, Counted
<1>3. Counted'
  BY <1>1, <1>2, SignInAssumption DEF Counted
<1>4. (\A p \in Calls \cup Ops : Able(op[p]))'
  BY <1>1 DEF Able, Sound
<1>5. QED
  BY <1>3, <1>4 DEF BoundInv

\* A request is over.
LEMMA OverBound ==
    ASSUME UserInv, NEW o \in Calls \cup Ops, Over(o)
    PROVE  \E r : op' = [op EXCEPT ![o] = r] /\ Able(r) /\ r.kind # "end"
<1> DEFINE r == IF o \in Calls THEN Stepped(Rest, "over") ELSE Rest
<1>1. op' = [op EXCEPT ![o] = r]
  BY Zenon DEF Over, Stepped
<1>2. Able(r) /\ r.kind # "end"
  BY RestIsAble
<1> HIDE DEF r
<1>3. QED
  BY <1>1, <1>2

\* It begins to read, but not for a sign-out unless it is one.
LEMMA ReadsBound ==
    ASSUME UserInv, BoundInv, NEW o \in Calls \cup Ops, NEW kind, NEW uid, Reads(o, kind, uid)
    PROVE  \E r : /\ op' = [op EXCEPT ![o] = r] /\ r.kind = kind
                  /\ (kind = "refresh" => op[o].kind = "refresh") => Able(r)
<1> DEFINE r == Reading(op[o], kind, uid)
<1>1. op' = [op EXCEPT ![o] = r]
  BY Zenon DEF Reads, Reading
<1>2. op[o] \in Request /\ Able(op[o])
  BY DEF UserInv, UserShape, BoundInv
<1>3. r.kind = kind
  BY <1>2 DEF Reading, Request
<1>4. (kind = "refresh" => op[o].kind = "refresh") => Able(r)
  BY <1>2, ReadingIsAble
<1> HIDE DEF r
<1>5. QED
  BY <1>1, <1>3, <1>4

LEMMA StepBound ==
    ASSUME UserInv, BoundInv, NEW o \in Calls \cup Ops, NEW pc \in {"claim", "makeclaim", "makeuser"},
           Step(o, pc)
    PROVE  \E r : op' = [op EXCEPT ![o] = r] /\ Able(r) /\ r.kind = op[o].kind
<1> DEFINE r == Stepped(op[o], pc)
<1>1. op' = [op EXCEPT ![o] = r]
  BY Zenon DEF Step, Stepped
<1>2. op[o] \in Request /\ Able(op[o])
  BY DEF UserInv, UserShape, BoundInv
<1>3. Able(r) /\ r.kind = op[o].kind
  BY <1>2, SteppedIsAble
<1> HIDE DEF r
<1>4. QED
  BY <1>1, <1>3

\* It has seen a record, and holds it.
LEMMA SeesBound ==
    ASSUME UserInv, BoundInv, NEW o \in Calls \cup Ops,
           NEW pc \in {"strip", "sign", "resign", "bump"},
           NEW s \in Person, Sound(s), s # NoUser, pc = "bump" => op[o].kind = "end",
           op' = [op EXCEPT ![o] = [@ EXCEPT !.pc = pc, !.seen = s]]
    PROVE  \E r : op' = [op EXCEPT ![o] = r] /\ Able(r) /\ r.kind = op[o].kind
<1> DEFINE r == Seeing(op[o], pc, s)
<1>1. op' = [op EXCEPT ![o] = r]
  BY Zenon DEF Seeing
<1>2. op[o] \in Request /\ Able(op[o])
  BY DEF UserInv, UserShape, BoundInv
<1>3. Able(r) /\ r.kind = op[o].kind
  BY <1>2, SeeingIsAble
<1> HIDE DEF r
<1>4. QED
  BY <1>1, <1>3

LEMMA ProceedBound ==
    ASSUME UserInv, BoundInv, NEW o \in Calls \cup Ops,
           op[o].kind \in {"ensure", "load", "mint", "refresh", "sweep"},
           NEW s \in Person, Sound(s), s # NoUser, Proceed(o, s)
    PROVE  \E r : op' = [op EXCEPT ![o] = r] /\ Able(r) /\ r.kind # "end"
<1>1. CASE op[o].kind \in {"ensure", "load"}
  <2>1. Reads(o, "mint", op[o].uid)
    BY <1>1, Zenon DEF Proceed
  <2>2. QED
    BY <2>1, ReadsBound
<1>2. CASE op[o].kind = "mint"
  <2>1. op' = [op EXCEPT ![o] = [@ EXCEPT !.pc = "sign", !.seen = s]]
    BY <1>2, Zenon DEF Proceed
  <2>2. \E r : op' = [op EXCEPT ![o] = r] /\ Able(r) /\ r.kind = op[o].kind
    BY <2>1, SeesBound
  <2>3. QED
    BY <1>2, <2>2
<1>3. CASE op[o].kind = "refresh"
  <2>1. op' = [op EXCEPT ![o] = [@ EXCEPT !.pc = "resign", !.seen = s]]
    BY <1>3, Zenon DEF Proceed
  <2>2. \E r : op' = [op EXCEPT ![o] = r] /\ Able(r) /\ r.kind = op[o].kind
    BY <2>1, SeesBound
  <2>3. QED
    BY <1>3, <2>2
<1>4. CASE op[o].kind = "sweep"
  <2>1. Over(o)
    BY <1>4, Zenon DEF Proceed
  <2>2. QED
    BY <2>1, OverBound
<1>5. QED
  BY <1>1, <1>2, <1>3, <1>4

LEMMA GetUserBound ==
    ASSUME UserInv, BoundInv, NEW o \in Calls \cup Ops, GetUser(o), UNCHANGED <<clock, linkVars>>
    PROVE  BoundInv'
<1> DEFINE u == user[op[o].uid]
<1>1. /\ op[o] \in Request /\ Fit(op[o]) /\ op[o].pc = "get" /\ op[o].kind # "none"
      /\ op[o].uid \in Uids
      /\ user' = user /\ cookies' \subseteq Cookie /\ UNCHANGED <<clock, stored, used>>
  BY DEF UserInv, UserShape, Fits, Fit, GetUser, Request, BoundInv, linkVars
<1>2. u \in Person /\ Sound(u)
  BY <1>1, CountedSound DEF BoundInv
<1>3. \E r : op' = [op EXCEPT ![o] = r] /\ Able(r) /\ (r.kind = "end" => op[o].kind = "end")
  <2>1. CASE u = NoUser
    <3>1. Missing(o)
      BY <2>1, Zenon DEF GetUser
    <3>2. Step(o, "makeuser") \/ Over(o)
      BY <3>1 DEF Missing
    <3>3. QED
      BY <3>2, StepBound, OverBound
  <2>2. CASE u # NoUser /\ op[o].kind = "end"
    <3>1. op' = [op EXCEPT ![o] = [@ EXCEPT !.pc = "bump", !.seen = u]]
      BY <2>2, Zenon DEF GetUser
    <3>2. PICK s \in Person : s = u
      BY <1>2
    <3>3. op' = [op EXCEPT ![o] = [@ EXCEPT !.pc = "bump", !.seen = s]]
      BY <3>1, <3>2
    <3> HIDE DEF u
    <3>4. \E r : op' = [op EXCEPT ![o] = r] /\ Able(r) /\ r.kind = op[o].kind
      BY <1>2, <2>2, <3>2, <3>3, SeesBound
    <3>5. QED
      BY <3>4
  <2>3. CASE u # NoUser /\ op[o].kind # "end" /\ Blind /\ u.email
    <3>1. op' = [op EXCEPT ![o] = [@ EXCEPT !.pc = "strip", !.seen = u]]
      BY <2>3, Zenon DEF GetUser
    <3>2. PICK s \in Person : s = u
      BY <1>2
    <3>3. op' = [op EXCEPT ![o] = [@ EXCEPT !.pc = "strip", !.seen = s]]
      BY <3>1, <3>2
    <3> HIDE DEF u
    <3>4. \E r : op' = [op EXCEPT ![o] = r] /\ Able(r) /\ r.kind = op[o].kind
      BY <1>2, <2>3, <3>2, <3>3, SeesBound
    <3>5. QED
      BY <3>4
  <2>4. CASE u # NoUser /\ op[o].kind # "end" /\ ~(Blind /\ u.email)
    <3>1. Proceed(o, u)
      BY <2>4, Zenon DEF GetUser
    <3>2. op[o].kind \in {"ensure", "load", "mint", "refresh", "sweep"}
      BY <1>1, <2>4 DEF Request, Kinds
    <3>3. PICK s \in Person : s = u
      BY <1>2
    <3>4. Proceed(o, s)
      BY <3>1, <3>3
    <3> HIDE DEF u
    <3>5. QED
      BY <1>2, <2>4, <3>2, <3>3, <3>4, ProceedBound
  <2>5. QED
    BY <2>1, <2>2, <2>3, <2>4
<1> HIDE DEF u
<1>4. QED
  BY <1>1, <1>3, QuietBound

LEMMA ClaimBound ==
    ASSUME UserInv, BoundInv, NEW c \in Calls, ReadClaim(c) \/ MakeClaim(c), UNCHANGED <<clock, linkVars>>
    PROVE  BoundInv'
<1>1. /\ op[c] \in Request /\ Able(op[c])
      /\ user' = user /\ cookies' \subseteq Cookie /\ UNCHANGED <<clock, stored, used>>
  BY DEF UserInv, UserShape, BoundInv, ReadClaim, MakeClaim, linkVars
<1>2. CASE ReadClaim(c)
  <2>1. Reads(c, "ensure", claim) \/ Step(c, "makeclaim")
    BY <1>2 DEF ReadClaim
  <2>2. \E r : op' = [op EXCEPT ![c] = r] /\ Able(r) /\ (r.kind = "end" => op[c].kind = "end")
    BY <2>1, ReadsBound, StepBound
  <2>3. QED
    BY <1>1, <2>2, QuietBound
<1>3. CASE MakeClaim(c) /\ claim = NoClaim
  <2> DEFINE r == Claiming(op[c], c)
  <2>1. op' = [op EXCEPT ![c] = r]
    BY <1>3, Zenon DEF MakeClaim, Claiming
  <2>2. Able(r) /\ r.kind = op[c].kind
    BY <1>1, ClaimingIsAble
  <2> HIDE DEF r
  <2>3. QED
    BY <1>1, <2>1, <2>2, QuietBound
<1>4. CASE MakeClaim(c) /\ claim # NoClaim
  <2> DEFINE n == op[c].tries + 1
             r == Trying(op[c], n)
  <2>1. op' = [op EXCEPT ![c] = r] /\ n < 2
    BY <1>4, Zenon DEF MakeClaim, Trying
  <2>2. n \in 0..2
    BY <1>1, <2>1 DEF Able
  <2> HIDE DEF n
  <2>3. Able(r) /\ r.kind = op[c].kind
    BY <1>1, <2>2, ClaimingIsAble
  <2> HIDE DEF r
  <2>4. QED
    BY <1>1, <2>1, <2>3, QuietBound
<1>5. QED
  BY <1>2, <1>3, <1>4

\* A user that is made starts at no sign-outs.
LEMMA MakeUserBound ==
    ASSUME UserInv, BoundInv, NEW c \in Calls, MakeUser(c), UNCHANGED <<clock, linkVars>>
    PROVE  BoundInv'
<1> DEFINE u == op[c].uid
<1>1. /\ u \in Uids /\ cookies' \subseteq Cookie /\ UNCHANGED <<clock, stored, used>>
      /\ user \in [Uids -> Person]
  BY DEF UserInv, UserShape, Request, BoundInv, MakeUser, linkVars
<1>2. CASE user[u] = NoUser
  <2> DEFINE new == [draw |-> c, n |-> 0, email |-> ~Blind]
  <2>1. user' = [user EXCEPT ![u] = new] /\ Reads(c, "mint", u)
    BY <1>2, Zenon DEF MakeUser
  <2>2. PICK r : op' = [op EXCEPT ![c] = r] /\ Able(r) /\ r.kind = "mint"
    BY <2>1, ReadsBound
  <2>3. /\ \A p \in Calls \cup Ops : Able(op'[p])
        /\ Cardinality(Ending') \in Nat /\ Cardinality(Ending) \in Nat
        /\ Cardinality(Ending') <= Cardinality(Ending)
    BY <2>2, OneMovesBound
  <2>4. \A x \in Uids : user'[x].n = IF x = u THEN 0 ELSE user[x].n
    BY <1>1, <2>1
  <2>5. \A x \in Uids : user[x].n \in Nat /\ user[x].n + Cardinality(Ending) <= MaxEnds
    BY CountedSound DEF BoundInv, Counted
  <2> HIDE DEF u
  <2>6. Counted'
    BY <1>1, <2>3, <2>4, <2>5, SignInAssumption DEF Counted
  <2>7. (\A p \in Calls \cup Ops : Able(op[p]))'
    BY <2>3 DEF Able, Sound
  <2>8. QED
    BY <1>1, <2>6, <2>7 DEF BoundInv
<1>3. CASE user[u] # NoUser
  <2>1. Reads(c, "load", u) /\ user' = user
    BY <1>3, Zenon DEF MakeUser
  <2>2. \E r : op' = [op EXCEPT ![c] = r] /\ Able(r) /\ r.kind = "load"
    BY <2>1, ReadsBound
  <2>3. QED
    BY <1>1, <2>1, <2>2, QuietBound
<1>4. QED
  BY <1>2, <1>3

\* A record that is swapped for one with no more sign-outs than the count
\* allows.
LEMMA SwapBound ==
    ASSUME UserInv, BoundInv, NEW o \in Calls \cup Ops, NEW r,
           op' = [op EXCEPT ![o] = r], Able(r), r.kind = "end" => op[o].kind = "end",
           NEW u \in Uids, NEW new \in Person, user' = [user EXCEPT ![u] = new],
           \/ new.n = user[u].n
           \/ new.n = user[u].n + 1 /\ o \in Ending /\ r.kind # "end",
           UNCHANGED <<clock, cookies, stored, used>>
    PROVE  BoundInv'
<1>1. /\ \A p \in Calls \cup Ops : Able(op'[p])
      /\ Cardinality(Ending') \in Nat /\ Cardinality(Ending) \in Nat
      /\ Cardinality(Ending') <= Cardinality(Ending)
      /\ (o \in Ending /\ r.kind # "end") => Cardinality(Ending') + 1 <= Cardinality(Ending)
  BY OneMovesBound
<1>2. \A x \in Uids : user'[x].n = IF x = u THEN new.n ELSE user[x].n
  BY DEF UserInv, UserShape
<1>3. \A x \in Uids : user[x].n \in Nat /\ user[x].n + Cardinality(Ending) <= MaxEnds
  BY CountedSound DEF BoundInv, Counted
<1>4. Counted'
  <2>1. SUFFICES ASSUME NEW x \in Uids PROVE user'[x].n + Cardinality(Ending') <= MaxEnds
    BY DEF Counted
  <2>2. CASE x # u \/ new.n = user[u].n
    BY <1>1, <1>2, <1>3, <2>2, SignInAssumption
  <2>3. CASE x = u /\ new.n = user[u].n + 1 /\ o \in Ending /\ r.kind # "end"
    BY <1>1, <1>2, <1>3, <2>3, SignInAssumption
  <2>4. QED
    BY <2>2, <2>3
<1>5. (\A p \in Calls \cup Ops : Able(op[p]))'
  BY <1>1 DEF Able, Sound
<1>6. QED
  BY <1>4, <1>5 DEF BoundInv

LEMMA StripBound ==
    ASSUME UserInv, BoundInv, NEW o \in Calls \cup Ops, Strip(o), UNCHANGED <<clock, linkVars>>
    PROVE  BoundInv'
<1>1. /\ op[o] \in Request /\ Fit(op[o]) /\ Able(op[o]) /\ op[o].pc = "strip"
      /\ op[o].uid \in Uids /\ op[o].seen \in Person
      /\ Sound(op[o].seen) /\ op[o].seen.draw \in Uids
      /\ cookies' = cookies /\ cookies \subseteq Cookie /\ UNCHANGED <<clock, stored, used>>
  BY DEF UserInv, UserShape, Fits, Fit, Able, Strip, Request, BoundInv, linkVars
<1>2. op[o].kind \in {"ensure", "load", "mint", "refresh", "sweep"}
  BY <1>1 DEF Fit, Request, Kinds
<1>3. PICK new \in Person : new = Stripped(op[o].seen) /\ new.draw = op[o].seen.draw /\ new.n = op[o].seen.n
  BY <1>1, StrippedIs
<1>4. Sound(new) /\ new # NoUser
  BY <1>1, <1>3, PersonOfNobody DEF Sound
<1>5. /\ user' = IF user[op[o].uid] = op[o].seen THEN [user EXCEPT ![op[o].uid] = new] ELSE user
      /\ Proceed(o, new) \/ Reads(o, op[o].kind, op[o].uid)
  BY <1>3, Zenon DEF Strip, Swap, Stripped
<1>6. PICK r : op' = [op EXCEPT ![o] = r] /\ Able(r) /\ r.kind # "end"
  <2>1. CASE Proceed(o, new)
    BY <1>2, <1>4, <2>1, ProceedBound
  <2>2. CASE Reads(o, op[o].kind, op[o].uid)
    <3>1. \E r : op' = [op EXCEPT ![o] = r] /\ Able(r) /\ r.kind = op[o].kind
      BY <2>2, ReadsBound
    <3>2. QED
      BY <1>2, <3>1
  <2>3. QED
    BY <1>5, <2>1, <2>2
<1>7. CASE user[op[o].uid] = op[o].seen
  <2>1. user' = [user EXCEPT ![op[o].uid] = new] /\ new.n = user[op[o].uid].n
    BY <1>3, <1>5, <1>7
  <2>2. QED
    BY <1>1, <1>6, <2>1, SwapBound
<1>8. CASE user[op[o].uid] # op[o].seen
  <2>1. user' = user /\ cookies' \subseteq Cookie
    BY <1>1, <1>5, <1>8
  <2>2. QED
    BY <1>1, <1>6, <2>1, QuietBound
<1>9. QED
  BY <1>7, <1>8

\* A sign-out that lands, or finds that it has, is under way no longer.
LEMMA BumpBound ==
    ASSUME UserInv, BoundInv, NEW o \in Ops, Bump(o), UNCHANGED <<clock, linkVars>>
    PROVE  BoundInv'
<1>1. /\ op[o] \in Request /\ Able(op[o]) /\ op[o].kind = "end"
      /\ op[o].uid \in Uids /\ op[o].seen \in Person /\ o \in Calls \cup Ops
      /\ cookies' = cookies /\ cookies \subseteq Cookie /\ UNCHANGED <<clock, stored, used>>
  BY DEF UserInv, UserShape, Able, Bump, Request, BoundInv, linkVars
<1>2. PICK new \in Person : new = Bumped(op[o].seen) /\ new.n = op[o].seen.n + 1
  BY <1>1, BumpedIs
<1>3. /\ user' = IF user[op[o].uid] = op[o].seen THEN [user EXCEPT ![op[o].uid] = new] ELSE user
      /\ IF user'[op[o].uid] = new THEN Over(o) ELSE Reads(o, "end", op[o].uid)
  BY <1>2, Zenon DEF Bump, Swap, Bumped
<1>4. CASE user[op[o].uid] = op[o].seen
  <2>1. /\ user' = [user EXCEPT ![op[o].uid] = new] /\ new.n = user[op[o].uid].n + 1
        /\ user'[op[o].uid] = new
    BY <1>1, <1>2, <1>3, <1>4 DEF UserInv, UserShape
  <2>2. PICK r : op' = [op EXCEPT ![o] = r] /\ Able(r) /\ r.kind # "end"
    BY <1>1, <1>3, <2>1, OverBound
  <2>3. o \in Ending
    BY <1>1 DEF Ending
  <2>4. QED
    BY <1>1, <2>1, <2>2, <2>3, SwapBound
<1>5. CASE user[op[o].uid] # op[o].seen
  <2>1. user' = user /\ cookies' \subseteq Cookie
    BY <1>1, <1>3, <1>5
  <2>2. Over(o) \/ Reads(o, "end", op[o].uid)
    BY <1>3
  <2>3. \E r : op' = [op EXCEPT ![o] = r] /\ Able(r) /\ (r.kind = "end" => op[o].kind = "end")
    BY <1>1, <2>2, OverBound, ReadsBound
  <2>4. QED
    BY <1>1, <2>1, <2>3, QuietBound
<1>6. QED
  BY <1>4, <1>5

\* A cookie's end is a moment.
LEMMA SignedExpIsMoment ==
    ASSUME NEW iat \in Nat, NEW at \in Nat
    PROVE  SignedExp(iat, at) \in Nat
  BY SignInAssumption DEF SignedExp, Least

LEMMA SignBound ==
    ASSUME UserInv, BoundInv, NEW c \in Calls, Sign(c), UNCHANGED <<clock, linkVars>>
    PROVE  BoundInv'
<1> DEFINE k == [uid |-> op[c].uid, epoch |-> Epoch(op[c].seen), at |-> clock, exp |-> SignedExp(clock, clock)]
<1>1. /\ op[c] \in Request /\ Able(op[c]) /\ op[c].pc = "sign" /\ op[c].uid \in Uids
      /\ op[c].seen \in Person /\ op[c].seen # NoUser /\ Sound(op[c].seen)
      /\ clock \in Nat /\ clock \in 0..MaxClock
      /\ Over(c) /\ user' = user /\ UNCHANGED <<clock, stored, used>>
      /\ cookies' = cookies \cup {k} /\ cookies \subseteq Cookie
  BY LinksAssumption DEF UserInv, UserShape, Able, Sign, Request, BoundInv, linkVars
<1>2. Epoch(op[c].seen) \in Uids \X (0..MaxEnds)
  <2>1. op[c].seen.draw \in Uids /\ op[c].seen.n \in 0..MaxEnds
    BY <1>1, SignInAssumption DEF Sound, Person
  <2>2. QED
    BY <2>1 DEF Epoch
<1>3. SignedExp(clock, clock) \in Nat
  BY <1>1, SignedExpIsMoment
<1>4. k \in Cookie
  BY <1>1, <1>2, <1>3 DEF Cookie
<1> HIDE DEF k
<1>5. \E r : op' = [op EXCEPT ![c] = r] /\ Able(r) /\ r.kind # "end"
  BY <1>1, OverBound
<1>6. cookies' \subseteq Cookie
  BY <1>1, <1>4
<1>7. QED
  BY <1>1, <1>5, <1>6, QuietBound

LEMMA ResignBound ==
    ASSUME UserInv, BoundInv, NEW o \in Calls \cup Ops, Resign(o), UNCHANGED <<clock, linkVars>>
    PROVE  BoundInv'
<1> DEFINE exp == SignedExp(op[o].start, op[o].old.at)
           k == Until(op[o].old, exp)
<1>1. /\ op[o] \in Request /\ op[o].old \in Cookie /\ op[o].start \in Nat
      /\ Over(o) /\ user' = user /\ UNCHANGED <<clock, stored, used>>
      /\ cookies \subseteq Cookie
  BY DEF UserInv, UserShape, Fits, Fit, Able, Resign, Request, BoundInv, linkVars
<1>2. cookies' = cookies \/ cookies' = cookies \cup {k}
  BY Zenon DEF Resign, Until
<1>3. exp \in Nat
  <2>1. op[o].old.at \in Nat
    BY <1>1 DEF Cookie
  <2>2. QED
    BY <1>1, <2>1, SignedExpIsMoment
<1> HIDE DEF exp
<1>4. k \in Cookie
  BY <1>1, <1>3 DEF Until, Cookie
<1> HIDE DEF k
<1>5. \E r : op' = [op EXCEPT ![o] = r] /\ Able(r) /\ r.kind # "end"
  BY <1>1, OverBound
<1>6. cookies' \subseteq Cookie
  BY <1>1, <1>2, <1>4
<1>7. QED
  BY <1>1, <1>5, <1>6, QuietBound

LEMMA RefreshBound ==
    ASSUME UserInv, BoundInv, NEW o \in Calls \cup Ops, Refresh(o), UNCHANGED <<clock, linkVars>>
    PROVE  BoundInv'
<1>1. /\ user' = user /\ UNCHANGED <<clock, stored, used>> /\ cookies' \subseteq Cookie
      /\ cookies \subseteq Cookie
  BY DEF Refresh, BoundInv, linkVars
<1>2. PICK c \in cookies : op' = [op EXCEPT ![o] = Refreshing(c)]
  BY Zenon DEF Refresh, Refreshing
<1>3. Able(Refreshing(c)) /\ Refreshing(c).kind = "refresh"
  BY <1>1, <1>2, RefreshingIsAble
<1>4. QED
  BY <1>1, <1>2, <1>3, QuietBound

\* A sign-out begins within the count: it is one more under way.
LEMMA EndSessionsBound ==
    ASSUME UserInv, BoundInv, NEW o \in Ops, EndSessions(o), UNCHANGED <<clock, linkVars>>
    PROVE  BoundInv'
<1>1. /\ claim \in Uids /\ user' = user /\ UNCHANGED <<clock, stored, used>>
      /\ cookies' = cookies /\ o \in Calls \cup Ops
      /\ user[claim].n + Cardinality(Ending) < MaxEnds
      /\ Reads(o, "end", claim)
  BY DEF EndSessions, Ending, UserInv, UserShape, linkVars
<1>2. PICK r : op' = [op EXCEPT ![o] = r] /\ Able(r) /\ r.kind = "end"
  BY <1>1, ReadsBound
<1>3. op'[o] = r /\ \A p \in (Calls \cup Ops) \ {o} : op'[p] = op[p]
  BY <1>1, <1>2 DEF UserInv, UserShape
<1>4. Ending' \in SUBSET (Ending \cup {o}) /\ Ending \in SUBSET Ops /\ Ending' \in SUBSET Ops
  BY <1>3 DEF Ending
<1>5. /\ Cardinality(Ending') \in Nat /\ Cardinality(Ending) \in Nat
      /\ Cardinality(Ending') <= Cardinality(Ending) + 1
  <2>1. IsFiniteSet(Ending) /\ Cardinality(Ending) \in Nat /\ Cardinality(Ending') \in Nat
    BY <1>4, EndingBound
  <2>2. /\ IsFiniteSet(Ending \cup {o})
        /\ \/ Cardinality(Ending \cup {o}) = Cardinality(Ending)
           \/ Cardinality(Ending \cup {o}) = Cardinality(Ending) + 1
    BY <2>1, FS_AddElement, Zenon
  <2>3. Cardinality(Ending') <= Cardinality(Ending \cup {o})
    BY <1>4, <2>2, FS_Subset
  <2>4. QED
    BY <2>1, <2>2, <2>3
<1>6. Counted'
  <2>1. SUFFICES ASSUME NEW u \in Uids PROVE user[u].n + Cardinality(Ending') <= MaxEnds
    BY <1>1 DEF Counted
  <2>2. user[u].n \in Nat /\ user[claim].n \in Nat
    BY <1>1, CountedSound DEF BoundInv
  <2>3. u = claim \/ user[u].n = 0
    BY DEF UserInv, Claimed, NoUser
  <2>4. QED
    BY <1>1, <1>5, <2>2, <2>3, SignInAssumption
<1>7. (\A p \in Calls \cup Ops : Able(op[p]))'
  <2>1. \A p \in Calls \cup Ops : Able(op'[p])
    BY <1>2, <1>3 DEF BoundInv
  <2>2. QED
    BY <2>1 DEF Able, Sound
<1>8. QED
  BY <1>1, <1>6, <1>7 DEF BoundInv

\* Every step keeps the bounds.
LEMMA BoundNext == LinkInv /\ UserInv /\ BoundInv /\ [Next]_vars => BoundInv'
<1> SUFFICES ASSUME LinkInv, UserInv, BoundInv, [Next]_vars
             PROVE  BoundInv'
  OBVIOUS
<1>1. CASE UNCHANGED userVars /\ (clock' = clock \/ (clock' = clock + 1 /\ clock < MaxClock))
           /\ stored' \subseteq Tokens /\ used' \subseteq Tokens
  <2>1. /\ user' = user /\ op' = op /\ cookies' = cookies
        /\ clock' <= MaxClock
    BY <1>1, LinksAssumption DEF userVars, UserInv, UserShape, BoundInv
  <2>2. (\A p \in Calls \cup Ops : Able(op[p]))'
    BY <2>1 DEF BoundInv, Able, Sound
  <2>3. Counted'
    BY <2>1 DEF BoundInv, Counted, Ending
  <2>4. QED
    BY <1>1, <2>1, <2>2, <2>3 DEF BoundInv
<1>2. CASE (Tick \/ LinkStep) /\ UNCHANGED userVars
  <2>1. clock' = clock \/ (clock' = clock + 1 /\ clock < MaxClock)
    <3>1. CASE Tick
      BY <3>1 DEF Tick
    <3>2. CASE LinkStep
      <4>1. clock' = clock
        BY <3>2, Zenon DEF LinkStep, PutLink, Redeem, TakeStep, ReadLink, MarkUsed, DeleteLink, Judge, TakeFails,
                    BeginSweep, SweepNext, EndSweep
      <4>2. QED
        BY <4>1
    <3>3. QED
      BY <1>2, <3>1, <3>2
  <2>2. \A c \in Calls : take[c].pc = "mark" => take[c].token \in Tokens
    BY DEF LinkInv, LinkShape, Free, Taking
  <2>3. stored' \subseteq Tokens /\ used' \subseteq Tokens
    BY <1>2, <2>2 DEF BoundInv, Tick, LinkStep, PutLink, Redeem, TakeStep, ReadLink, MarkUsed, DeleteLink,
                      Judge, TakeFails, BeginSweep, SweepNext, EndSweep, linkVars
  <2>4. QED
    BY <1>1, <1>2, <2>1, <2>3
<1>3. CASE \E c \in Calls : Admit(c)
  <2>1. PICK c \in Calls : Admit(c)
    BY <1>3
  <2>2. Step(c, "claim") /\ UNCHANGED <<clock, user, stored, used>> /\ cookies' \subseteq Cookie
    BY <2>1 DEF Admit, BoundInv
  <2>3. \E r : op' = [op EXCEPT ![c] = r] /\ Able(r) /\ r.kind = op[c].kind
    BY <2>2, StepBound
  <2>4. QED
    BY <2>2, <2>3, QuietBound
<1>4. CASE UNCHANGED <<clock, linkVars>> /\ \E c \in Calls : SignInStep(c)
  BY <1>4, ClaimBound, MakeUserBound, SignBound DEF SignInStep
<1>5. CASE UNCHANGED <<clock, linkVars>> /\ \E o \in Ops : OtherStep(o)
  <2>1. PICK o \in Ops : OtherStep(o)
    BY <1>5
  <2>2. CASE SweepUser(o)
    <3>1. /\ Reads(o, "sweep", claim) /\ user' = user /\ cookies' \subseteq Cookie
          /\ UNCHANGED <<clock, stored, used>>
      BY <1>5, <2>2 DEF SweepUser, BoundInv, linkVars
    <3>2. \E r : op' = [op EXCEPT ![o] = r] /\ Able(r) /\ r.kind = "sweep"
      BY <3>1, ReadsBound
    <3>3. QED
      BY <3>1, <3>2, QuietBound
  <2>3. QED
    BY <1>5, <2>1, <2>2, RefreshBound, ResignBound, EndSessionsBound, BumpBound DEF OtherStep
<1>6. CASE UNCHANGED <<clock, linkVars>> /\ \E o \in Calls \cup Ops : OpStep(o)
  BY <1>6, GetUserBound, StripBound DEF OpStep
<1>7. CASE UNCHANGED vars
  <2>1. /\ UNCHANGED userVars
        /\ clock' = clock
        /\ stored' = stored
        /\ used' = used
    BY <1>7 DEF vars, linkVars
  <2>2. stored' \subseteq Tokens /\ used' \subseteq Tokens
    BY <2>1 DEF BoundInv
  <2>3. QED
    BY <1>1, <2>1, <2>2
<1>8. QED
  BY <1>2, <1>3, <1>4, <1>5, <1>6, <1>7 DEF Next

LEMMA BoundInit == Init => BoundInv
<1> SUFFICES ASSUME Init
             PROVE  BoundInv
  OBVIOUS
<1>1. /\ clock = DayLength - 1 /\ cookies = {} /\ stored = {} /\ used = {}
      /\ op = [o \in Calls \cup Ops |-> Rest]
  BY DEF Init, LinksInit
<1>2. Ending = {}
  BY <1>1, RestIsAble DEF Ending
<1>3. Cardinality(Ending) = 0
  BY <1>2, FS_EmptySet
<1>4. \A u \in Uids : user[u].n = 0
  BY DEF Init, NoUser
<1>5. Counted
  BY <1>3, <1>4, SignInAssumption DEF Counted
<1>6. clock <= MaxClock
  BY <1>1, LinksAssumption
<1>7. QED
  BY <1>1, <1>5, <1>6, RestIsAble DEF BoundInv

\* The invariants together give the types.
LEMMA TypesHold == LinkInv /\ UserInv /\ BoundInv => TypeOK
<1> SUFFICES ASSUME LinkInv, UserInv, BoundInv
             PROVE  TypeOK
  OBVIOUS
<1>1. clock \in 0..MaxClock
  BY LinksAssumption DEF UserInv, UserShape, BoundInv
<1>2. LinksTypeOK
  <2>1. sent \in [Tokens -> 0..MaxClock \cup {Never}]
    <3>1. sent \in [Tokens -> Nat \cup {Never}] /\ \A t \in Tokens : sent[t] <= clock
      BY DEF LinkInv, LinkShape, Sent
    <3>2. \A t \in Tokens : sent[t] \in 0..MaxClock \cup {Never}
      BY <1>1, <3>1, LinksAssumption DEF Never
    <3>3. QED
      BY <3>1, <3>2
  <2>2. DOMAIN take = Calls
    BY DEF LinkInv, LinkShape
  <2>3. \A c \in Calls :
          /\ take[c].pc \in {"idle", "read", "mark", "delete", "judge", "won", "refused", "failed", "keymail"}
          /\ take[c].pc \notin {"idle", "keymail"} => take[c].token \in Tokens
    BY DEF LinkInv, LinkShape, Free, Taking, Busy
  <2>4. QED
    BY <1>1, <2>1, <2>2, <2>3 DEF LinksTypeOK, BoundInv, LinkInv, LinkShape
<1>3. user \in [Uids -> User \cup {NoUser}]
  <2>1. \A u \in Uids : user[u] \in User \cup {NoUser}
    BY CountedSound, SoundIs DEF BoundInv
  <2>2. QED
    BY <2>1 DEF UserInv, UserShape
<1>4. ASSUME NEW o \in Calls \cup Ops
      PROVE  /\ op[o].pc \in Pcs /\ op[o].kind \in Kinds /\ op[o].uid \in Uids
             /\ op[o].seen \in User \cup {NoUser} /\ op[o].old \in Cookie \cup {NoCookie}
             /\ op[o].start <= clock /\ op[o].tries \in 0..2
  <2>1. op[o] \in Request /\ Fit(op[o]) /\ Able(op[o])
    BY DEF UserInv, UserShape, Fits, BoundInv
  <2>2. op[o].seen \in User \cup {NoUser}
    BY <2>1, SoundIs DEF Request, Able
  <2>3. QED
    BY <2>1, <2>2 DEF Request, Able, Fit
<1>5. \A e \in ended : e.uid \in Uids /\ e.time <= clock
  BY DEF UserInv, UserShape, Raised, SignOut
<1>6. \A c \in cookies : c \in Cookie
  BY DEF BoundInv
<1>7. claim \in Uids \cup {NoClaim}
  BY DEF UserInv, UserShape
<1>8. QED
  BY <1>2, <1>3, <1>4, <1>5, <1>6, <1>7 DEF TypeOK, Pcs, Kinds

\* Type correctness of the sign-in over records: links, users, requests and
\* cookies keep their types, and the bound on sign-outs holds of those under
\* way too (auth/recordlinks.go, auth/users.go, sessions/signedmode.go).
THEOREM SignInTypeCorrect == Spec => []TypeOK
<1>1. Init => LinkInv
  BY LinkInvInit DEF Init
<1>2. LinkInv /\ [Next]_vars => LinkInv'
  BY LinkNext
<1>3. QED
  BY <1>1, <1>2, UserAlways, BoundInit, BoundNext, TypesHold, PTL DEF Spec

=============================================================================
