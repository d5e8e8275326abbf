------------------------------- MODULE Tenants -------------------------------
(***************************************************************************)
(* One tenant of a central app, from its signup: provision's Create and    *)
(* PublishPaths under the record rules of docs/site/reference/provision.md *)
(* as the worked example in provision/sequence_test.go keeps them.  A home *)
(* keys a record by its label, a hub by its slug and publishes paths.      *)
(* The version of a record is its body, as objrec.Dir's is.                *)
(***************************************************************************)
EXTENDS ConsoleCreate, PathMap

CONSTANTS
    Signup,      \* the request that writes the record first
    Refreshers,  \* requests that advance a record
    Tick,        \* the scheduled publish, or the refresh of another tenant
    Slug,        \* the tenant's
    Steady,      \* another tenant of the hub, live throughout
    MaxRelabels, \* new labels before it gives up
    MaxFaults    \* bound: lost, PUTs lost and requests that end half way, together

ASSUME TenantsAssumption ==
    /\ Callers = {Signup} \cup Refreshers /\ Signup \notin Refreshers
    /\ Publishers = {Tick} \cup Refreshers /\ Tick \notin Refreshers
    /\ Slug # Steady /\ Slugs = {Slug, Steady} /\ Slug \notin Hosts
    /\ MaxRelabels \in Nat /\ MaxFaults \in Nat

VARIABLES
    hub,       \* whether the app is a hub
    records,   \* per key that has one, the tenant's record
    work,      \* per caller, where signup or advance is
    stops,     \* requests that ended half way
    blurred    \* history: an answer was lost, or a refresh did the
               \* signup's part

tenantVars == <<hub, records, work, stops, blurred>>
vars == <<createVars, pathVars, tenantVars>>

None == "none"

Key(h) == IF hub THEN Slug ELSE h
Keys == Hosts \cup {Slug}

TenantRecord == [host : Hosts, state : {"creating", "live", "failed", "replaced"}, routed : BOOLEAN,
                 relabels : 0..MaxRelabels, attempt : BOOLEAN, replacedBy : Hosts \cup {None}]

Fresh(h, relabels, attempt) ==
    [host |-> h, state |-> "creating", routed |-> FALSE, relabels |-> relabels,
     attempt |-> attempt, replacedBy |-> None]

Idle == [pc |-> "idle"]

Places == {"idle", "create", "relabel", "again", "remove", "handover", "over",
           "take", "probe", "write", "publish", "check", "finish", "drop"}

TypeOK ==
    /\ CreateTypeOK /\ PathsTypeOK
    /\ hub \in BOOLEAN
    /\ DOMAIN records \subseteq Keys /\ \A k \in DOMAIN records : records[k] \in TenantRecord
    /\ DOMAIN work = Callers
    /\ \A p \in Callers :
        /\ work[p].pc \in Places
        /\ work[p].pc \notin {"idle", "over"} => work[p].key \in Keys /\ work[p].rec \in TenantRecord
        /\ work[p].pc = "write" => work[p].next \in TenantRecord
    /\ blurred \in BOOLEAN
    /\ stops \in 0..MaxFaults

Init ==
    /\ CreateInit /\ PathsInit({Steady})
    /\ hub \in BOOLEAN
    /\ records = << >>
    /\ work = [p \in Callers |-> Idle]
    /\ stops = 0 /\ blurred = FALSE

Goes(p, at) == work' = [work EXCEPT ![p] = at]
At(p, pc) == work[p].pc = pc
Stored(k, r) == [x \in DOMAIN records \cup {k} |-> IF x = k THEN r ELSE records[x]]
Without(k) == [x \in DOMAIN records \ {k} |-> records[x]]

\* objrec's Update: the version that was read is still current.
Current(p) == work[p].key \in DOMAIN records /\ records[work[p].key] = work[p].rec

-----------------------------------------------------------------------------
(* signup *)

\* The record, then the first POST.
SignupBegins(h) ==
    /\ At(Signup, "idle")
    /\ records' = Stored(Key(h), Fresh(h, 0, TRUE))
    /\ Goes(Signup, [pc |-> "create", key |-> Key(h), rec |-> Fresh(h, 0, TRUE)])
    /\ call' = Create(Signup, h, FALSE)
    /\ UNCHANGED <<instances, adrift, lost, pathVars, hub, stops, blurred>>

SignupHears ==
    LET rec == work[Signup].rec
        out == call[Signup].out IN
    /\ At(Signup, "create") /\ Returned(Signup)
    /\ IF out = "taken" /\ rec.relabels < MaxRelabels
       THEN Goes(Signup, [work[Signup] EXCEPT !.pc = "relabel"])
       ELSE Goes(Signup, [pc |-> "handover", key |-> work[Signup].key, rec |-> rec,
                          next |-> [rec EXCEPT !.attempt = FALSE,
                                               !.state = IF out \in {"taken", "refused"} THEN "failed" ELSE @]])
    /\ call' = [call EXCEPT ![Signup] = NoCall]
    /\ UNCHANGED <<instances, adrift, lost, pathVars, hub, records, stops, blurred>>

HandOver ==
    /\ At(Signup, "handover")
    /\ records' = IF Current(Signup) THEN Stored(work[Signup].key, work[Signup].next) ELSE records
    /\ Goes(Signup, [pc |-> "over"])
    /\ UNCHANGED <<createVars, pathVars, hub, stops, blurred>>

\* A mutant of Gone: the old record of a home stays creating.
GoneCreating(rec, h) == [rec EXCEPT !.attempt = FALSE, !.replacedBy = h]

\* The record of a home that its signup moves to another label.
Gone(rec, h) == [rec EXCEPT !.state = "replaced", !.attempt = FALSE, !.replacedBy = h]

\* A mutant of Yields: the relabel does not look at the version.
YieldsNever(p) == FALSE

\* A record that changed has been taken over.
Yields(p) == ~Current(p)

\* relabel, up to its first write; h is a label nobody of ours has.
Relabel(h) ==
    LET rec == work[Signup].rec
        moved == [rec EXCEPT !.host = h, !.relabels = @ + 1] IN
    /\ At(Signup, "relabel")
    /\ \A k \in DOMAIN records : records[k].host # h /\ records[k].replacedBy # h
    /\ IF Yields(Signup)
       THEN Goes(Signup, [pc |-> "over"]) /\ UNCHANGED <<records, call>>
       ELSE IF hub
       THEN /\ records' = Stored(Slug, moved)
            /\ Goes(Signup, [pc |-> "create", key |-> Slug, rec |-> moved])
            /\ call' = Create(Signup, h, FALSE)
       ELSE /\ records' = Stored(work[Signup].key, Gone(rec, h))
            /\ Goes(Signup, [pc |-> "again", key |-> work[Signup].key, rec |-> moved])
            /\ UNCHANGED call
    /\ UNCHANGED <<instances, adrift, lost, pathVars, hub, stops, blurred>>

\* The replacement's record, unless a refresh has made it.
RelabelCreates ==
    LET rec == work[Signup].rec IN
    /\ At(Signup, "again")
    /\ IF rec.host \in DOMAIN records
       THEN Goes(Signup, [pc |-> "over"]) /\ UNCHANGED records
       ELSE records' = Stored(rec.host, rec) /\ Goes(Signup, [work[Signup] EXCEPT !.pc = "remove"])
    /\ UNCHANGED <<createVars, pathVars, hub, stops, blurred>>

RelabelDeletes ==
    LET rec == work[Signup].rec IN
    /\ At(Signup, "remove")
    /\ records' = Without(work[Signup].key)
    /\ Goes(Signup, [pc |-> "create", key |-> rec.host, rec |-> rec])
    /\ call' = Create(Signup, rec.host, FALSE)
    /\ UNCHANGED <<instances, adrift, lost, pathVars, hub, stops, blurred>>

-----------------------------------------------------------------------------
(* advance *)

\* What a refresh does first with a record it has read.
Decided(p, k, rec) ==
    CASE rec.state = "replaced" ->
           Goes(p, [pc |-> "finish", key |-> k, rec |-> rec]) /\ UNCHANGED <<call, publish>>
      [] rec.state = "creating" /\ rec.attempt ->
           \* left alone until AttemptUntil
           (Goes(p, [pc |-> "take", key |-> k, rec |-> rec]) \/ Goes(p, Idle)) /\ UNCHANGED <<call, publish>>
      [] rec.state = "creating" /\ ~rec.attempt ->
           /\ Goes(p, [pc |-> "create", key |-> k, rec |-> rec])
           /\ call' = Create(p, rec.host, TRUE) /\ UNCHANGED publish
      [] rec.state = "live" /\ hub /\ ~rec.routed ->
           /\ Goes(p, [pc |-> "publish", key |-> k, rec |-> rec])
           /\ publish' = PublishPaths(p) /\ UNCHANGED call
      [] OTHER -> Goes(p, Idle) /\ UNCHANGED <<call, publish>>

Reads(p, k) ==
    /\ At(p, "idle") /\ k \in DOMAIN records
    /\ Decided(p, k, records[k])
    /\ UNCHANGED <<instances, adrift, lost, paths, straying, putsLost, hub, records, stops, blurred>>

\* The conditional write that clears the token; a record that changed is read again.
TakesOver(p) ==
    LET rec == [work[p].rec EXCEPT !.attempt = FALSE] IN
    /\ At(p, "take")
    /\ IF Current(p)
       THEN /\ records' = Stored(work[p].key, rec)
            /\ Goes(p, [pc |-> "create", key |-> work[p].key, rec |-> rec])
            /\ call' = Create(p, rec.host, TRUE)
            /\ blurred' = TRUE
       ELSE Goes(p, Idle) /\ UNCHANGED <<records, call, blurred>>
    /\ UNCHANGED <<instances, adrift, lost, pathVars, hub, stops>>

\* p has decided what the record becomes.
WillWrite(p, rec) == Goes(p, [pc |-> "write", key |-> work[p].key, rec |-> work[p].rec, next |-> rec])
WillFail(p) == WillWrite(p, [work[p].rec EXCEPT !.state = "failed"])

RefreshHears(p) ==
    /\ p \in Refreshers /\ At(p, "create") /\ Returned(p)
    /\ CASE call[p].out = "refused" -> WillFail(p)
         [] call[p].out = "retry" -> Goes(p, Idle)
         [] OTHER -> Goes(p, [work[p] EXCEPT !.pc = "probe"])
    /\ call' = [call EXCEPT ![p] = NoCall]
    /\ UNCHANGED <<instances, adrift, lost, pathVars, hub, records, stops, blurred>>

\* Ready: only the instance at the host names the host, once it serves.
Probe(p) ==
    /\ At(p, "probe")
    /\ \/ /\ Exists(work[p].rec.host)
          /\ WillWrite(p, [work[p].rec EXCEPT !.state = "live"])
       \/ Goes(p, Idle)
    /\ UNCHANGED <<createVars, pathVars, hub, records, stops, blurred>>

\* Not routed yet: within the deadline it stays, after it it fails.
Unrouted(p) == Goes(p, Idle) \/ WillFail(p)

Publishes(p) ==
    /\ At(p, "publish") /\ publish[p].pc = "returned"
    /\ publish' = [publish EXCEPT ![p] = NoPublish]
    /\ IF publish[p].ok THEN Goes(p, [work[p] EXCEPT !.pc = "check"]) ELSE Unrouted(p)
    /\ UNCHANGED <<createVars, paths, straying, putsLost, hub, records, stops, blurred>>

\* CheckRoute: the prefix reaches the tenant if the map has it by now.
Check(p) ==
    /\ At(p, "check")
    /\ \/ Slug \in paths /\ WillWrite(p, [work[p].rec EXCEPT !.routed = TRUE])
       \/ Unrouted(p)
    /\ UNCHANGED <<createVars, pathVars, hub, records, stops, blurred>>

Writes(p) ==
    /\ p \in Refreshers /\ At(p, "write")
    /\ records' = IF Current(p) THEN Stored(work[p].key, work[p].next) ELSE records
    /\ Goes(p, Idle)
    /\ UNCHANGED <<createVars, pathVars, hub, stops, blurred>>

\* finishReplace: the replacement, if its signup stopped before it.
FinishCreates(p) ==
    LET rec == work[p].rec IN
    /\ At(p, "finish")
    /\ IF rec.replacedBy \in DOMAIN records
       THEN UNCHANGED <<records, blurred>>
       ELSE /\ records' = Stored(rec.replacedBy, Fresh(rec.replacedBy, rec.relabels + 1, FALSE))
            /\ blurred' = TRUE
    /\ Goes(p, [work[p] EXCEPT !.pc = "drop"])
    /\ UNCHANGED <<createVars, pathVars, hub, stops>>

FinishDeletes(p) ==
    /\ At(p, "drop")
    /\ records' = Without(work[p].key)
    /\ Goes(p, Idle)
    /\ UNCHANGED <<createVars, pathVars, hub, stops, blurred>>

-----------------------------------------------------------------------------
Working(p) == ~At(p, "idle") /\ ~At(p, "over")

\* The process, or the request, ends; its POST or PUT may be on its way.
Stops(p) ==
    /\ Working(p)
    /\ lost + putsLost + stops < MaxFaults
    /\ stops' = stops + 1
    /\ Goes(p, IF p = Signup THEN [pc |-> "over"] ELSE Idle)
    /\ call' = [call EXCEPT ![p] = NoCall]
    /\ IF call[p].pc = "post" THEN Strays(call[p].host) ELSE UNCHANGED <<instances, adrift>>
    /\ IF At(p, "publish")
       THEN /\ publish' = [publish EXCEPT ![p] = NoPublish]
            /\ IF publish[p].pc = "put" THEN MapStrays(publish[p].map) ELSE UNCHANGED <<paths, straying>>
       ELSE UNCHANGED <<paths, straying, publish>>
    /\ UNCHANGED <<lost, putsLost, hub, records, blurred>>

Listing == {Steady} \cup {k \in DOMAIN records : k = Slug /\ records[k].state = "live"}

\* Bound: until then the map cannot change.
NearLive ==
    \/ \E p \in Refreshers : At(p, "probe")
    \/ \E k \in DOMAIN records : records[k].state = "live"

TickPublishes ==
    /\ hub
    /\ \/ publish[Tick] = NoPublish /\ NearLive /\ publish' = PublishPaths(Tick)
       \/ publish[Tick].pc = "returned" /\ publish' = [publish EXCEPT ![Tick] = NoPublish]
    /\ UNCHANGED <<createVars, paths, straying, putsLost, tenantVars>>

InCreate(p) ==
    /\ CreateStep(p)
    /\ lost' + putsLost + stops <= MaxFaults
    /\ blurred' = (blurred \/ lost' # lost)
    /\ UNCHANGED <<pathVars, hub, records, work, stops>>

Platform ==
    /\ (\E h \in Hosts : Lands(h) \/ OtherCreates(h))
    /\ UNCHANGED <<pathVars, tenantVars>>

InPublish ==
    /\ \/ \E p \in Publishers : PublishStep(p) \/ Build(p, Listing)
       \/ \E m \in straying : PutLands(m)
    /\ lost + putsLost' + stops <= MaxFaults
    /\ UNCHANGED <<createVars, tenantVars>>

SignupStep == SignupHears \/ HandOver \/ (\E h \in Hosts : Relabel(h)) \/ RelabelCreates \/ RelabelDeletes

RefreshStep(p) ==
    \/ TakesOver(p) \/ RefreshHears(p) \/ Probe(p) \/ Publishes(p) \/ Check(p) \/ Writes(p)
    \/ FinishCreates(p) \/ FinishDeletes(p)

Next ==
    \/ \E h \in Hosts : SignupBegins(h)
    \/ SignupStep
    \/ \E p \in Refreshers : RefreshStep(p) \/ \E k \in Keys : Reads(p, k)
    \/ \E p \in Callers : InCreate(p) \/ Stops(p)
    \/ Platform \/ InPublish \/ TickPublishes

Spec == Init /\ [][Next]_vars

-----------------------------------------------------------------------------
\* Crashes, retries and refreshes make no second instance and lose none: what
\* our POSTs made, also one that nobody waited for, a record names.
OneKept ==
    \A h \in Hosts : instances[h] = "ours" =>
        /\ \E k \in DOMAIN records : records[k].host = h /\ records[k].state # "replaced"
        /\ \A g \in Hosts \ {h} : instances[g] # "ours"

\* A tenant that goes live has its own instance, unless an answer was lost or
\* a refresh did the signup's part: finished its move, or took it over.
OwnInstance == ~blurred => \A k \in DOMAIN records : records[k].state = "live" => instances[records[k].host] = "ours"

\* The prefix of a live tenant that is on the map stays there, unless a PUT was
\* lost or cut short: publishes take turns from their listing on.
PrefixStays == [][(Slug \in paths \ paths' /\ Slug \in Listing) => putsLost + stops > 0]_vars
=============================================================================
