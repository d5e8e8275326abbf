----------------------------- MODULE RecordLinks -----------------------------
(***************************************************************************)
(* Magic links of a centre that keeps no database (auth/recordlinks.go): a *)
(* link is a record under the UTC day it was sent, and redeeming it        *)
(* creates a marker under that day.  Each call of the object store is one  *)
(* step.  All links have the purpose they are redeemed for.                *)
(***************************************************************************)
EXTENDS Integers, FiniteSets

CONSTANTS
    Tokens,     \* hashes of links
    Calls,      \* requests that redeem a link, each at most once
    DayLength,  \* a day
    LinkTTL,    \* how long a link is live
    MaxStall,   \* how long a redemption can take: every store call times out
    MaxClock    \* bound: the last moment

\* The store's client gives a call 30 s and there are a handful of them; a
\* link lives 15 minutes.
ASSUME LinksAssumption ==
    /\ DayLength \in Nat \ {0} /\ LinkTTL \in Nat /\ MaxStall \in Nat /\ MaxClock \in Nat
    /\ LinkTTL + MaxStall < DayLength /\ DayLength <= MaxClock + 1

VARIABLES
    clock,
    sent,    \* per token, when it was sent, or Never
    stored,  \* tokens whose links/<day>/<hash>.json exists
    used,    \* tokens whose links-used/<day>/<hash> exists
    take,    \* per call, its TakeLink
    sweep    \* Sweep of the links

linkVars == <<sent, stored, used, take, sweep>>

Never == -1

Day(t) == t \div DayLength

Idle == [pc |-> "idle", start |-> 0, marked |-> FALSE]

LinksTypeOK ==
    /\ clock \in 0..MaxClock
    /\ sent \in [Tokens -> 0..MaxClock \cup {Never}]
    /\ stored \subseteq Tokens /\ used \subseteq Tokens
    /\ DOMAIN take = Calls
    /\ \A c \in Calls :
        /\ take[c].pc \in {"idle", "read", "mark", "delete", "judge", "won", "refused", "failed", "keymail"}
        /\ take[c].pc \notin {"idle", "keymail"} => take[c].token \in Tokens
    /\ sweep \in [pc : {"idle", "links", "used"}, cutoff : Int]

\* The last moment of a day.
LinksInit ==
    /\ clock = DayLength - 1
    /\ sent = [t \in Tokens |-> Never]
    /\ stored = {} /\ used = {}
    /\ take = [c \in Calls |-> Idle]
    /\ sweep = [pc |-> "idle", cutoff |-> 0]

\* Time waits for a redemption to end, or to fail, within MaxStall.
Tick ==
    /\ clock < MaxClock
    /\ \A c \in Calls : take[c].pc \in {"read", "mark", "delete", "judge"} => clock < take[c].start + MaxStall
    /\ clock' = clock + 1
    /\ UNCHANGED linkVars

PutLink(t) ==
    /\ sent[t] = Never
    /\ sent' = [sent EXCEPT ![t] = clock]
    /\ stored' = stored \cup {t}
    /\ UNCHANGED <<clock, used, take, sweep>>

\* Of a redemption that is over, its verdict is left.
Goes(c, pc) ==
    LET start == IF pc \in {"won", "refused", "failed"} THEN 0 ELSE take[c].start IN
    take' = [take EXCEPT ![c] = [@ EXCEPT !.pc = pc, !.start = start]]

Redeem(c, t) ==
    /\ take[c] = Idle /\ sent[t] # Never
    /\ take' = [take EXCEPT ![c] = [pc |-> "read", token |-> t, start |-> clock, marked |-> FALSE]]
    /\ UNCHANGED <<clock, sent, stored, used, sweep>>

\* A mutant of Days: only the day of the request is read.
DaysToday(start) == {Day(start)}

\* Today, or yesterday: a link sent just before midnight is live after it.
Days(start) == {Day(start), Day(start) - 1}

ReadLink(c) ==
    /\ take[c].pc = "read"
    /\ LET t == take[c].token IN
        Goes(c, IF t \in stored /\ Day(sent[t]) \in Days(take[c].start) THEN "mark" ELSE "refused")
    /\ UNCHANGED <<clock, sent, stored, used, sweep>>

\* The create is the single use.
MarkUsed(c) ==
    /\ take[c].pc = "mark"
    /\ LET t == take[c].token IN
        IF t \in used THEN Goes(c, "refused") /\ UNCHANGED used
        ELSE used' = used \cup {t} /\ take' = [take EXCEPT ![c] = [@ EXCEPT !.pc = "delete", !.marked = TRUE]]
    /\ UNCHANGED <<clock, sent, stored, sweep>>

\* A failed delete is logged and no more.
DeleteLink(c) ==
    /\ take[c].pc = "delete"
    /\ stored' \in {stored, stored \ {take[c].token}}
    /\ Goes(c, "judge")
    /\ UNCHANGED <<clock, sent, used, sweep>>

\* Expiry is judged by the moment the call began.
Judge(c) ==
    /\ take[c].pc = "judge"
    /\ Goes(c, IF take[c].start > sent[take[c].token] + LinkTTL THEN "refused" ELSE "won")
    /\ UNCHANGED <<clock, sent, stored, used, sweep>>

\* The store answers an error, before or after it did what was asked; the
\* request is dropped; or the process ends.
TakeFails(c) ==
    /\ take[c].pc \in {"read", "mark", "delete", "judge"}
    /\ Goes(c, "failed")
    /\ UNCHANGED <<clock, sent, stored, used, sweep>>

-----------------------------------------------------------------------------
(* The sweep: links first, then markers, of the days before yesterday *)

\* A mutant of Cutoff: yesterday goes too.
CutoffToday == Day(clock)

Cutoff == Day(clock) - 1

\* A pass that finds nothing to delete changes nothing and is left out.
BeginSweep ==
    /\ sweep.pc = "idle"
    /\ \E t \in stored \cup used : Day(sent[t]) < Cutoff
    /\ sweep' = [pc |-> "links", cutoff |-> Cutoff]
    /\ UNCHANGED <<clock, sent, stored, used, take>>

SweepNext ==
    LET Due(S) == {t \in S : Day(sent[t]) < sweep.cutoff} IN
    /\ \/ /\ sweep.pc = "links" /\ \E t \in Due(stored) : stored' = stored \ {t}
          /\ UNCHANGED <<used, sweep>>
       \/ /\ sweep.pc = "links" /\ Due(stored) = {}
          /\ sweep' = [sweep EXCEPT !.pc = "used"]
          /\ UNCHANGED <<stored, used>>
       \/ /\ sweep.pc = "used" /\ \E t \in Due(used) : used' = used \ {t}
          /\ UNCHANGED <<stored, sweep>>
    /\ UNCHANGED <<clock, sent, take>>

\* It ends, or a call fails and it stops where it is.
EndSweep ==
    /\ sweep.pc # "idle"
    /\ sweep' = [pc |-> "idle", cutoff |-> 0]
    /\ UNCHANGED <<clock, sent, stored, used, take>>

TakeStep(c) == ReadLink(c) \/ MarkUsed(c) \/ DeleteLink(c) \/ Judge(c) \/ TakeFails(c)

LinkStep ==
    \/ \E t \in Tokens : PutLink(t) \/ \E c \in Calls : Redeem(c, t)
    \/ \E c \in Calls : TakeStep(c)
    \/ BeginSweep \/ SweepNext \/ EndSweep

-----------------------------------------------------------------------------
\* A link opens one session at most, whoever presents it beside whom, at
\* midnight, after lost answers and beside a sweep of old markers.
OneRedemption ==
    \A c, d \in Calls :
        (take[c].pc = "won" /\ take[d].pc = "won" /\ take[c].token = take[d].token) => c = d

\* A link is refused, rather than failed with an error, only when it has
\* expired or another call has spent it: no live link is lost to midnight
\* or to the sweep.
RefusedForCause ==
    [][\A c \in Calls : (take[c].pc # "refused" /\ take'[c].pc = "refused") =>
            \/ take[c].start > sent[take[c].token] + LinkTTL
            \/ \E d \in Calls \ {c} : take[d].marked /\ take[d].token = take[c].token]_<<clock, linkVars>>

=============================================================================
