---------------------------- MODULE ConsoleCreate ----------------------------
(***************************************************************************)
(* provision.Create: one POST that makes an instance on the platform, whose *)
(* answer may be lost before or after the platform has written, and the    *)
(* GETs that find out.  A POST nobody waits for any more may still land.   *)
(* A host is whole: label and domain.  201 and 202 are one answer, since   *)
(* what serves is Ready's question.                                        *)
(***************************************************************************)
EXTENDS Integers, FiniteSets

CONSTANTS
    Hosts,
    Callers,  \* who calls Create
    MaxLost,  \* bound: calls that fail or whose answer is lost
    MaxTaken  \* bound: hosts that other creations take

ASSUME CreateAssumption == MaxLost \in Nat /\ MaxTaken \in Nat

VARIABLES
    instances,  \* per host: nobody's, made by a POST of ours, or another's
    adrift,     \* hosts with a POST on the way whose caller has gone
    call,       \* per caller, its creation
    lost        \* calls failed or lost so far

createVars == <<instances, adrift, call, lost>>

Outcomes == {"created", "landed", "taken", "retry", "refused"}

NoCall == [pc |-> "none"]

\* A Create that is returning.
Returned(p) == call[p].pc = "returned"

CreateTypeOK ==
    /\ instances \in [Hosts -> {"none", "ours", "other"}]
    /\ adrift \subseteq Hosts
    /\ DOMAIN call = Callers
    /\ \A p \in Callers :
        \/ call[p] = NoCall
        \/ call[p] \in [pc : {"get", "post", "conflict"}, host : Hosts, resume : BOOLEAN,
                        posts : 0..2, unknown : BOOLEAN]
        \/ call[p] \in [pc : {"returned"}, out : Outcomes]
    /\ lost \in 0..MaxLost

CreateInit ==
    /\ instances = [h \in Hosts |-> "none"]
    /\ adrift = {}
    /\ call = [p \in Callers |-> NoCall]
    /\ lost = 0

\* call, with p's Create under way.
Create(p, h, resume) ==
    [call EXCEPT ![p] = [pc |-> IF resume THEN "get" ELSE "post", host |-> h, resume |-> resume,
                         posts |-> IF resume THEN 0 ELSE 1, unknown |-> FALSE]]

Exists(h) == instances[h] # "none"

Return(p, out) ==
    call' = [call EXCEPT ![p] = [pc |-> "returned", out |-> out]]

Fault == lost < MaxLost /\ lost' = lost + 1

\* instances, with a POST for h come to the platform.
Written(h) == [instances EXCEPT ![h] = IF @ = "none" THEN "ours" ELSE @]

\* One POST more.
Posting(c) == [c EXCEPT !.pc = "post", !.posts = @ + 1]

\* A GET that shows the instance, or that there is none.
Reconciled(p) ==
    /\ call[p].pc = "get"
    /\ IF Exists(call[p].host)
       THEN Return(p, "landed")
       ELSE call' = [call EXCEPT ![p] = Posting(@)]
    /\ UNCHANGED <<instances, adrift, lost>>

\* A GET of either kind without an answer (or a 5xx or 429), or refused.
AskFails(p) ==
    /\ call[p].pc \in {"get", "conflict"}
    /\ Fault
    /\ \E out \in {"retry", "refused"} : Return(p, out)
    /\ UNCHANGED <<instances, adrift>>

Posted(p) ==
    /\ call[p].pc = "post"
    /\ instances' = Written(call[p].host)
    /\ IF Exists(call[p].host)
       THEN call' = [call EXCEPT ![p] = [@ EXCEPT !.pc = "conflict"]]
       ELSE Return(p, "created")
    /\ UNCHANGED <<adrift, lost>>

\* 503, 429 or a 409 with Retry-After: later.  Any other 4xx, for good, and
\* a 409 that is no collision (instances not enabled) goes to its GET.
PostRefused(p) ==
    /\ call[p].pc = "post"
    /\ Fault
    /\ \/ \E out \in {"retry", "refused"} : Return(p, out)
       \/ call' = [call EXCEPT ![p] = [@ EXCEPT !.pc = "conflict"]]
    /\ UNCHANGED <<instances, adrift>>

\* A POST that no caller waits for: written, never sent, or still on its way.
Strays(h) ==
    \/ instances' = Written(h) /\ UNCHANGED adrift
    \/ UNCHANGED <<instances, adrift>>
    \/ adrift' = adrift \cup {h} /\ UNCHANGED instances

\* No answer in time, or a 5xx other than 503.
PostLost(p) ==
    /\ call[p].pc = "post"
    /\ Fault
    /\ IF call[p].posts = 1
       THEN call' = [call EXCEPT ![p] = [@ EXCEPT !.pc = "get", !.unknown = TRUE]]
       ELSE Return(p, "retry")
    /\ Strays(call[p].host)

Verdict(p) ==
    IF ~Exists(call[p].host) THEN "refused"
    ELSE IF call[p].resume \/ call[p].unknown THEN "landed" ELSE "taken"

Judged(p) ==
    /\ call[p].pc = "conflict"
    /\ Return(p, Verdict(p))
    /\ UNCHANGED <<instances, adrift, lost>>

CreateStep(p) ==
    Reconciled(p) \/ AskFails(p) \/ Posted(p) \/ PostRefused(p) \/ PostLost(p) \/ Judged(p)

\* The platform gets a POST nobody waits for.
Lands(h) ==
    /\ h \in adrift
    /\ adrift' = adrift \ {h}
    /\ instances' = Written(h)
    /\ UNCHANGED <<call, lost>>

\* Another creation of the app comes by the same label.
OtherCreates(h) ==
    /\ instances[h] = "none"
    /\ Cardinality({g \in Hosts : instances[g] = "other"}) < MaxTaken
    /\ instances' = [instances EXCEPT ![h] = "other"]
    /\ UNCHANGED <<adrift, call, lost>>
=============================================================================
