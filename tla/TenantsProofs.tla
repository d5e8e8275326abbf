---------------------------- MODULE TenantsProofs ----------------------------
(***************************************************************************)
(* What is proved of Tenants, for any hosts, refreshes, relabels and       *)
(* faults: a tenant has one instance of ours and a record names it, what   *)
(* goes live is ours, and a published prefix stays.                        *)
(***************************************************************************)
EXTENDS Tenants, TLAPS

\* Another creation has the host.
Taken(h) == instances[h] = "other"

\* p has a Create of h under way.
Calls(p, h) == call[p].pc \in {"get", "post", "conflict"} /\ call[p].host = h

\* A POST of ours has made the instance, or may yet.
Reached(h) == instances[h] = "ours" \/ h \in adrift \/ \E p \in Callers : Calls(p, h)

\* A record names h as the tenant's host.
Named(h) == \E k \in DOMAIN records : records[k].host = h /\ records[k].state # "replaced"

\* A move to h is not finished.
Due(h) ==
    \/ \E k \in DOMAIN records : records[k].state = "replaced" /\ records[k].replacedBy = h
    \/ \E p \in Refreshers : At(p, "finish") /\ work[p].rec.replacedBy = h

\* h is, or may become, the tenant's host and nobody else's.
Mine(h) == ~Taken(h) /\ (Reached(h) \/ Named(h) \/ Due(h))

\* The signup goes on, with the record it wrote last or is about to.
Active == work[Signup].pc \in {"create", "relabel", "again", "remove", "handover"}
Rec == work[Signup].rec

\* Nobody has taken the signup's record over.
Sole == Key(Rec.host) \in DOMAIN records /\ records[Key(Rec.host)] = Rec

-----------------------------------------------------------------------------
(* What everybody holds *)

\* A record of a home that was left for another label.
LeftBehind(r) ==
    /\ r.state = "replaced" /\ ~hub /\ Taken(r.host) /\ ~r.attempt
    /\ r.replacedBy \in Hosts /\ r.relabels < MaxRelabels

RecordFits(k, r) ==
    /\ r \in TenantRecord /\ k = Key(r.host)
    /\ r.state = "live" => ~r.attempt
    /\ r.state = "replaced" => LeftBehind(r)

RecordsFit == \A k \in DOMAIN records : RecordFits(k, records[k])

Bare == [pc : {"idle", "over"}]
Held == [pc : Places, key : Keys, rec : TenantRecord]
Deciding == [pc : {"write", "handover"}, key : Keys, rec : TenantRecord, next : TenantRecord]

CallFits(p) ==
    \/ call[p] = NoCall
    \/ /\ call[p] \in [pc : {"get", "post", "conflict"}, host : Hosts, resume : BOOLEAN,
                       posts : 0..2, unknown : BOOLEAN]
       /\ call[p].pc = "get" => call[p].posts <= 1
    \/ call[p] \in [pc : {"returned"}, out : Outcomes]

CallsFit ==
    /\ instances \in [Hosts -> {"none", "ours", "other"}]
    /\ adrift \subseteq Hosts
    /\ DOMAIN call = Callers
    /\ \A p \in Callers : CallFits(p)
    /\ lost \in 0..MaxLost

\* What the signup does next, with its call c.
SignupFits(w, c) ==
    /\ \/ w \in Bare /\ c = NoCall
       \/ /\ w \in Held /\ w.pc \in {"create", "relabel"} /\ w.key = Key(w.rec.host)
          /\ w.pc = "relabel" => w.rec.relabels < MaxRelabels
       \/ w \in Held /\ w.pc \in {"again", "remove"} /\ ~hub /\ w.key \in Hosts /\ Taken(w.key)
       \/ /\ w \in Deciding /\ w.pc = "handover" /\ w.key = Key(w.rec.host)
          /\ w.next.host = w.rec.host /\ w.next.state \in {"creating", "failed"} /\ ~w.next.attempt
    /\ w.pc \notin {"idle", "over"} => w.rec.state = "creating" /\ w.rec.attempt
    /\ w.pc # "create" => c = NoCall
    /\ c.pc \in {"get", "post", "conflict"} => w.rec.host = c.host /\ ~c.resume
    /\ c.pc = "get" => c.unknown

\* What a refresh does next with the record it read.
RefreshFits(w) ==
    \/ w \in Bare /\ w.pc = "idle"
    \/ /\ w \in Held /\ w.key = Key(w.rec.host)
       /\ \/ w.pc = "take" /\ w.rec.state = "creating" /\ w.rec.attempt
          \/ w.pc \in {"create", "probe"} /\ w.rec.state = "creating" /\ ~w.rec.attempt
          \/ w.pc \in {"publish", "check"} /\ hub /\ w.rec.state = "live" /\ ~w.rec.attempt
          \/ w.pc \in {"finish", "drop"} /\ LeftBehind(w.rec)
    \/ /\ w \in Deciding /\ w.pc = "write" /\ w.key = Key(w.rec.host)
       /\ w.rec.state \in {"creating", "live"} /\ ~w.rec.attempt
       /\ w.next.host = w.rec.host /\ w.next.state \in {"live", "failed"} /\ ~w.next.attempt

\* Before the signup nothing has happened.
Untried ==
    At(Signup, "idle") =>
        /\ DOMAIN records = {} /\ adrift = {}
        /\ \A h \in Hosts : instances[h] # "ours"
        /\ \A p \in Refreshers : At(p, "idle")
        /\ \A p \in Callers : call[p] = NoCall

HoldInv ==
    /\ hub \in BOOLEAN /\ RecordsFit /\ CallsFit
    /\ DOMAIN work = Callers
    /\ SignupFits(work[Signup], call[Signup]) /\ \A p \in Refreshers : RefreshFits(work[p])
    /\ Untried

-----------------------------------------------------------------------------
(* One host *)

\* What could have made the instance the signup is told is there: its own
\* POST, whose fate it knows until an answer is lost.
SoleKnows ==
    (Active /\ Sole /\ ~At(Signup, "handover") /\ ~Taken(Rec.host)) =>
        /\ \A p \in Refreshers : ~Calls(p, Rec.host)
        /\ ~At(Signup, "relabel")
        /\ At(Signup, "remove") => instances[Rec.host] # "ours" /\ Rec.host \notin adrift
        /\ (call[Signup].pc \in {"post", "conflict"} /\ ~call[Signup].unknown) =>
               instances[Rec.host] # "ours" /\ Rec.host \notin adrift
        /\ call[Signup].pc = "returned" => call[Signup].out # "taken"

OneInv ==
    /\ \A h \in Hosts : Reached(h) => Taken(h) \/ Named(h)
    /\ At(Signup, "remove") => Taken(Rec.host) \/ Named(Rec.host)
    /\ \A h, g \in Hosts : (Mine(h) /\ Mine(g)) => h = g
    /\ Active => \A h \in Hosts : Mine(h) => h = Rec.host
    /\ SoleKnows

\* Unless the history is blurred, a record no signup holds is of our instance.
OwnInv ==
    ~blurred =>
        /\ \A k \in DOMAIN records :
              (records[k].state = "live" \/ (records[k].state = "creating" /\ ~records[k].attempt))
                  => instances[records[k].host] = "ours"
        /\ call[Signup].pc \in {"post", "conflict"} => ~call[Signup].unknown
        /\ call[Signup].pc # "get"
        /\ call[Signup].pc = "returned" =>
              /\ call[Signup].out \in {"created", "taken", "refused"}
              /\ call[Signup].out = "created" => instances[Rec.host] = "ours"
        /\ (At(Signup, "handover") /\ work[Signup].next.state = "creating") => instances[Rec.host] = "ours"

-----------------------------------------------------------------------------
(* The map *)

\* A map with the tenant's prefix was built once the tenant was live.
Mapped ==
    (\/ Slug \in paths
     \/ \E m \in straying : Slug \in m
     \/ \E p \in Publishers : publish[p].pc = "put" /\ Slug \in publish[p].map)
        => hub /\ Slug \in DOMAIN records /\ records[Slug].state \in {"live", "failed"}

PublishFits(w) ==
    \/ w \in [pc : {"none", "lock"}]
    \/ w \in [pc : {"put"}, map : SUBSET Slugs, tries : 1..2]
    \/ w \in [pc : {"returned"}, ok : BOOLEAN]

MapInv ==
    /\ paths \subseteq Slugs /\ straying \subseteq SUBSET Slugs /\ putsLost \in 0..MaxPuts
    /\ DOMAIN publish = Publishers /\ \A p \in Publishers : PublishFits(publish[p])
    /\ Mapped
    /\ \A p, q \in Publishers : (publish[p].pc = "put" /\ publish[q].pc = "put") => p = q
    /\ stops \in 0..MaxFaults
    /\ putsLost + stops = 0 =>
        /\ straying = {}
        /\ (Slug \in paths /\ Slug \in Listing) =>
              \A p \in Publishers : publish[p].pc = "put" => Slug \in publish[p].map

-----------------------------------------------------------------------------
(* provision.Create *)

LEMMA Everybody ==
    /\ Signup \in Callers /\ Refreshers \subseteq Callers /\ Signup \notin Refreshers
    /\ \A p \in Callers : p = Signup \/ p \in Refreshers
  BY TenantsAssumption

Calling == [pc : {"get", "post", "conflict"}, host : Hosts, resume : BOOLEAN, posts : 0..2, unknown : BOOLEAN]
Returning == [pc : {"returned"}, out : Outcomes]

\* The calls that Posted and PostLost leave.
Asking(c) == [c EXCEPT !.pc = "conflict"]
Losing(c) == [c EXCEPT !.pc = "get", !.unknown = TRUE]

LEMMA PostingIs ==
    ASSUME NEW c \in Calling, c.posts <= 1
    PROVE  /\ Posting(c) \in Calling /\ Posting(c).pc = "post" /\ Posting(c).host = c.host
           /\ Posting(c).resume = c.resume /\ Posting(c).unknown = c.unknown
<1>1. PICK n \in 0..2 : n = c.posts + 1
  BY DEF Calling
<1>2. Posting(c) = [c EXCEPT !.pc = "post", !.posts = n]
  BY <1>1, Zenon DEF Posting
<1>3. [c EXCEPT !.pc = "post", !.posts = n] \in Calling
  BY DEF Calling
<1> QED BY <1>2, <1>3 DEF Calling

LEMMA AskingIs ==
    ASSUME NEW c \in Calling
    PROVE  /\ Asking(c) \in Calling /\ Asking(c).pc = "conflict" /\ Asking(c).host = c.host
           /\ Asking(c).resume = c.resume /\ Asking(c).unknown = c.unknown
  BY DEF Calling, Asking

LEMMA LosingIs ==
    ASSUME NEW c \in Calling
    PROVE  /\ Losing(c) \in Calling /\ Losing(c).pc = "get" /\ Losing(c).host = c.host
           /\ Losing(c).resume = c.resume /\ Losing(c).unknown /\ Losing(c).posts = c.posts
  BY DEF Calling, Losing

\* One call c becomes d.
LEMMA CallMoves ==
    ASSUME CallsFit, NEW p \in Callers, NEW d, call' = [call EXCEPT ![p] = d],
           \/ d = NoCall
           \/ d \in Calling /\ (d.pc = "get" => d.posts <= 1)
           \/ d \in Returning,
           instances' \in [Hosts -> {"none", "ours", "other"}], adrift' \subseteq Hosts, lost' \in 0..MaxLost
    PROVE  CallsFit' /\ call'[p] = d /\ \A q \in Callers \ {p} : call'[q] = call[q]
<1>1. DOMAIN call' = Callers /\ call'[p] = d /\ \A q \in Callers \ {p} : call'[q] = call[q]
  BY DEF CallsFit
<1>2. ASSUME NEW q \in Callers PROVE CallFits(q)'
  <2>1. CASE q = p
    BY <1>1, <2>1 DEF CallFits, Calling, Returning
  <2>2. CASE q # p
    BY <1>1, <2>2 DEF CallsFit, CallFits
  <2> QED BY <2>1, <2>2
<1> QED BY <1>1, <1>2 DEF CallsFit

\* A POST that comes to the platform, or is left on its way.
LEMMA WrittenIs ==
    ASSUME CallsFit, NEW h \in Hosts, instances' = Written(h)
    PROVE  /\ instances' \in [Hosts -> {"none", "ours", "other"}]
           /\ \A g \in Hosts : g # h \/ instances[g] # "none" => instances'[g] = instances[g]
           /\ instances[h] = "none" => instances'[h] = "ours"
  BY DEF CallsFit, Written

\* What a call does to the platform: its own host's instance, and no other.
Touches(p) ==
    /\ \A h \in Hosts : instances'[h] = instances[h]
                           \/ (instances[h] = "none" /\ instances'[h] = "ours" /\ Calls(p, h))
    /\ \A h \in Hosts : h \in adrift' => h \in adrift \/ Calls(p, h)

LEMMA StraysTouch ==
    ASSUME CallsFit, NEW p \in Callers, call[p] \in Calling, Strays(call[p].host)
    PROVE  /\ instances' \in [Hosts -> {"none", "ours", "other"}] /\ adrift' \subseteq Hosts
           /\ Touches(p)
<1>1. call[p].host \in Hosts /\ \A h \in Hosts : h = call[p].host => Calls(p, h)
  BY DEF Calling, Calls
<1>2. CASE instances' = Written(call[p].host) /\ UNCHANGED adrift
  BY <1>1, <1>2, WrittenIs DEF CallsFit, Touches
<1>3. CASE UNCHANGED instances /\ adrift' \subseteq adrift \cup {call[p].host}
  BY <1>1, <1>3 DEF CallsFit, Touches
<1> QED BY <1>2, <1>3 DEF Strays

\* The platform stands as it did.
Still == (\A h \in Hosts : instances'[h] = instances[h]) /\ adrift' = adrift

\* What a step of p's Create finds out.
Learns(p) ==
    \/ /\ call'[p] \in Calling /\ call'[p].host = call[p].host /\ call'[p].resume = call[p].resume
       /\ \/ call'[p].pc = "post" /\ call[p].pc = "get" /\ call'[p].unknown = call[p].unknown /\ Still
          \/ call'[p].pc = "conflict" /\ call[p].pc = "post" /\ call'[p].unknown = call[p].unknown /\ Still
          \/ call'[p].pc = "get" /\ call[p].pc = "post" /\ call'[p].unknown /\ lost' # lost
    \/ /\ call'[p] \in Returning
       /\ \/ call'[p].out \in {"retry", "refused"} /\ lost' # lost
          \/ call'[p].out = "created" /\ call[p].pc = "post" /\ instances'[call[p].host] = "ours"
          \/ call'[p].out = "landed" /\ (call[p].pc = "get" \/ call[p].resume \/ call[p].unknown)
          \/ call'[p].out = "refused" /\ call[p].pc = "conflict"
          \/ /\ call'[p].out = "taken" /\ call[p].pc = "conflict" /\ ~call[p].unknown
             /\ instances[call[p].host] # "none" /\ Still

LEMMA ReturnMoves ==
    ASSUME CallsFit, NEW p \in Callers, NEW out \in Outcomes, Return(p, out),
           instances' \in [Hosts -> {"none", "ours", "other"}], adrift' \subseteq Hosts, lost' \in 0..MaxLost
    PROVE  /\ CallsFit' /\ call'[p] \in Returning /\ call'[p].out = out
           /\ \A q \in Callers \ {p} : call'[q] = call[q]
<1> DEFINE d == [pc |-> "returned", out |-> out]
<1>1. d \in Returning /\ d.out = out
  BY DEF Returning
<1>2. call' = [call EXCEPT ![p] = d]
  BY Zenon DEF Return
<1> HIDE DEF d
<1> QED BY <1>1, <1>2, CallMoves

LEMMA GoesOnMoves ==
    ASSUME CallsFit, NEW p \in Callers, NEW d \in Calling, d.pc = "get" => d.posts <= 1,
           call' = [call EXCEPT ![p] = d],
           instances' \in [Hosts -> {"none", "ours", "other"}], adrift' \subseteq Hosts, lost' \in 0..MaxLost
    PROVE  /\ CallsFit' /\ call'[p] = d
           /\ \A q \in Callers \ {p} : call'[q] = call[q]
  BY CallMoves

LEMMA CreateDoes ==
    ASSUME CallsFit, NEW p \in Callers, CreateStep(p)
    PROVE  /\ CallsFit' /\ Touches(p) /\ call[p] \in Calling /\ Learns(p)
           /\ \A q \in Callers \ {p} : call'[q] = call[q]
<1>1. PICK c \in Calling : c = call[p] /\ (c.pc = "get" => c.posts <= 1)
  BY DEF CreateStep, Reconciled, AskFails, Posted, PostRefused, PostLost, Judged, CallsFit, CallFits, NoCall, Calling
<1>0. /\ c.host \in Hosts
      /\ instances \in [Hosts -> {"none", "ours", "other"}] /\ adrift \subseteq Hosts /\ lost \in 0..MaxLost
  BY DEF CallsFit, Calling
<1>2. ASSUME UNCHANGED <<instances, adrift>>
      PROVE  /\ Touches(p) /\ Still
             /\ instances' \in [Hosts -> {"none", "ours", "other"}] /\ adrift' \subseteq Hosts
  BY <1>0, <1>2 DEF Touches, Still
<1>3. ASSUME Fault PROVE lost' \in 0..MaxLost /\ lost' # lost
  BY <1>0, <1>3, CreateAssumption DEF Fault
<1>5. CASE Reconciled(p)
  <2>1. c.pc = "get" /\ lost' = lost /\ UNCHANGED <<instances, adrift>>
    BY <1>1, <1>5 DEF Reconciled
  <2>2. CASE Return(p, "landed")
    <3>1. /\ CallsFit' /\ call'[p] \in Returning /\ call'[p].out = "landed"
          /\ \A q \in Callers \ {p} : call'[q] = call[q]
      BY <1>0, <1>2, <2>1, <2>2, ReturnMoves DEF Outcomes
    <3> QED BY <1>1, <1>2, <2>1, <3>1 DEF Learns
  <2>3. CASE call' = [call EXCEPT ![p] = Posting(c)]
    <3>1. PICK d \in Calling : /\ d = Posting(c) /\ d.pc = "post" /\ d.host = c.host
                               /\ d.resume = c.resume /\ d.unknown = c.unknown
      BY <1>1, <2>1, PostingIs
    <3>2. CallsFit' /\ call'[p] = d /\ \A q \in Callers \ {p} : call'[q] = call[q]
      BY <1>0, <1>2, <2>1, <2>3, <3>1, GoesOnMoves
    <3> QED BY <1>1, <1>2, <2>1, <3>1, <3>2 DEF Learns
  <2>5. Return(p, "landed") \/ call' = [call EXCEPT ![p] = Posting(call[p])]
    BY <1>5, Zenon DEF Reconciled
  <2>4. Return(p, "landed") \/ call' = [call EXCEPT ![p] = Posting(c)]
    BY <1>1, <2>5, Zenon
  <2> QED BY <2>2, <2>3, <2>4
<1>6. CASE \E out \in {"retry", "refused"} : Return(p, out) /\ Fault /\ UNCHANGED <<instances, adrift>>
  <2>1. PICK out \in {"retry", "refused"} : Return(p, out)
    BY <1>6
  <2>2. /\ CallsFit' /\ call'[p] \in Returning /\ call'[p].out = out
        /\ \A q \in Callers \ {p} : call'[q] = call[q]
    BY <1>2, <1>3, <1>6, <2>1, ReturnMoves DEF Outcomes
  <2> QED BY <1>1, <1>2, <1>3, <1>6, <2>2 DEF Learns
<1>7. CASE Posted(p)
  <2>1. /\ instances' \in [Hosts -> {"none", "ours", "other"}]
        /\ \A g \in Hosts : g # c.host \/ instances[g] # "none" => instances'[g] = instances[g]
        /\ instances[c.host] = "none" => instances'[c.host] = "ours"
    BY <1>0, <1>1, <1>7, WrittenIs DEF Posted
  <2>2. adrift' = adrift /\ lost' = lost /\ Calls(p, c.host) /\ c.pc = "post"
    BY <1>1, <1>7 DEF Posted, Calls
  <2>3. Touches(p)
    BY <1>0, <2>1, <2>2 DEF Touches
  <2>4. CASE Exists(c.host) /\ call' = [call EXCEPT ![p] = Asking(c)]
    <3>1. PICK d \in Calling : /\ d = Asking(c) /\ d.pc = "conflict" /\ d.host = c.host
                               /\ d.resume = c.resume /\ d.unknown = c.unknown
      BY <1>1, AskingIs
    <3>2. CallsFit' /\ call'[p] = d /\ \A q \in Callers \ {p} : call'[q] = call[q]
      BY <1>0, <2>1, <2>2, <2>4, <3>1, GoesOnMoves
    <3>3. Still
      BY <2>1, <2>2, <2>4 DEF Exists, Still
    <3> QED BY <1>1, <2>2, <2>3, <3>1, <3>2, <3>3 DEF Learns
  <2>5. CASE ~Exists(c.host) /\ Return(p, "created")
    <3>1. /\ CallsFit' /\ call'[p] \in Returning /\ call'[p].out = "created"
          /\ \A q \in Callers \ {p} : call'[q] = call[q]
      BY <1>0, <2>1, <2>2, <2>5, ReturnMoves DEF Outcomes
    <3>2. instances'[c.host] = "ours"
      BY <2>1, <2>5 DEF Exists
    <3> QED BY <1>1, <2>2, <2>3, <3>1, <3>2 DEF Learns
  <2>6. \/ Exists(c.host) /\ call' = [call EXCEPT ![p] = Asking(c)]
        \/ ~Exists(c.host) /\ Return(p, "created")
    BY <1>1, <1>7, Zenon DEF Posted, Asking
  <2> QED BY <2>4, <2>5, <2>6
<1>8. CASE PostRefused(p)
  <2>1. CASE \E out \in {"retry", "refused"} : Return(p, out)
    BY <1>6, <1>8, <2>1 DEF PostRefused
  <2>2. CASE call' = [call EXCEPT ![p] = Asking(c)]
    <3>1. PICK d \in Calling : /\ d = Asking(c) /\ d.pc = "conflict" /\ d.host = c.host
                               /\ d.resume = c.resume /\ d.unknown = c.unknown
      BY <1>1, AskingIs
    <3>2. Fault /\ UNCHANGED <<instances, adrift>> /\ c.pc = "post"
      BY <1>1, <1>8 DEF PostRefused
    <3>3. CallsFit' /\ call'[p] = d /\ \A q \in Callers \ {p} : call'[q] = call[q]
      BY <1>2, <1>3, <2>2, <3>1, <3>2, GoesOnMoves
    <3> QED BY <1>1, <1>2, <3>1, <3>2, <3>3 DEF Learns
  <2>3. (\E out \in {"retry", "refused"} : Return(p, out)) \/ call' = [call EXCEPT ![p] = Asking(c)]
    BY <1>1, <1>8, Zenon DEF PostRefused, Asking
  <2> QED BY <2>1, <2>2, <2>3
<1>9. CASE PostLost(p)
  <2>1. /\ instances' \in [Hosts -> {"none", "ours", "other"}] /\ adrift' \subseteq Hosts
        /\ Touches(p) /\ lost' \in 0..MaxLost /\ lost' # lost /\ c.pc = "post"
    BY <1>1, <1>3, <1>9, StraysTouch DEF PostLost
  <2>2. CASE c.posts = 1 /\ call' = [call EXCEPT ![p] = Losing(c)]
    <3>1. PICK d \in Calling : /\ d = Losing(c) /\ d.pc = "get" /\ d.host = c.host
                               /\ d.resume = c.resume /\ d.unknown /\ d.posts = 1
      BY <1>1, <2>2, LosingIs
    <3>2. CallsFit' /\ call'[p] = d /\ \A q \in Callers \ {p} : call'[q] = call[q]
      <4>1. d.pc = "get" => d.posts <= 1
        BY <3>1
      <4> QED BY <2>1, <2>2, <3>1, <4>1, GoesOnMoves
    <3> QED BY <1>1, <2>1, <3>1, <3>2 DEF Learns
  <2>3. CASE Return(p, "retry")
    <3>1. /\ CallsFit' /\ call'[p] \in Returning /\ call'[p].out = "retry"
          /\ \A q \in Callers \ {p} : call'[q] = call[q]
      BY <2>1, <2>3, ReturnMoves DEF Outcomes
    <3> QED BY <1>1, <2>1, <3>1 DEF Learns
  <2>4. (c.posts = 1 /\ call' = [call EXCEPT ![p] = Losing(c)]) \/ Return(p, "retry")
    BY <1>1, <1>9, Zenon DEF PostLost, Losing
  <2> QED BY <2>2, <2>3, <2>4
<1>10. CASE Judged(p)
  <2>1. /\ Return(p, Verdict(p)) /\ UNCHANGED <<instances, adrift, lost>> /\ c.pc = "conflict"
        /\ Verdict(p) \in Outcomes
    BY <1>1, <1>10 DEF Judged, Verdict, Outcomes
  <2>2. /\ CallsFit' /\ call'[p] \in Returning /\ call'[p].out = Verdict(p)
        /\ \A q \in Callers \ {p} : call'[q] = call[q]
    BY <1>0, <1>2, <2>1, ReturnMoves
  <2>3. \/ Verdict(p) = "refused"
        \/ Verdict(p) = "landed" /\ (c.resume \/ c.unknown)
        \/ Verdict(p) = "taken" /\ ~c.unknown /\ instances[c.host] # "none"
    BY <1>1 DEF Verdict, Exists
  <2> QED BY <1>1, <1>2, <2>1, <2>2, <2>3 DEF Learns
<1> QED BY <1>5, <1>6, <1>7, <1>8, <1>9, <1>10 DEF CreateStep, AskFails
-----------------------------------------------------------------------------
(* What a step leaves as it was *)

\* What is taken, or ours, stays so.
Lasting == hub' = hub /\ \A h \in Hosts : instances[h] # "none" => instances'[h] = instances[h]

LEMMA FitsLast ==
    ASSUME Lasting, NEW k, NEW r, NEW w, NEW c
    PROVE  /\ RecordFits(k, r) => RecordFits(k, r)'
           /\ SignupFits(w, c) => SignupFits(w, c)'
           /\ RefreshFits(w) => RefreshFits(w)'
<1>1. \A h \in Hosts : Taken(h) => Taken(h)'
  BY DEF Lasting, Taken
<1>2. ASSUME NEW x \in TenantRecord PROVE LeftBehind(x) => LeftBehind(x)'
  BY <1>1 DEF Lasting, LeftBehind, TenantRecord
<1>3. \A h : Key(h)' = Key(h)
  BY DEF Key, Lasting
<1>4. RecordFits(k, r) => RecordFits(k, r)'
  BY <1>2, <1>3 DEF RecordFits
<1>5. RefreshFits(w) => RefreshFits(w)'
  BY <1>2, <1>3 DEF RefreshFits, Held, Lasting
<1>6. SignupFits(w, c) => SignupFits(w, c)'
  <2>1. CASE w \in Held /\ w.pc \in {"again", "remove"} /\ ~hub /\ w.key \in Hosts /\ Taken(w.key)
    BY <1>1, <1>3 DEF SignupFits, Held, Lasting
  <2> QED BY <1>3, <2>1 DEF SignupFits
<1> QED BY <1>4, <1>5, <1>6

\* One worker moves on to d; records are kept, or written as they fit.
LEMMA HoldsOn ==
    ASSUME HoldInv, Lasting, CallsFit', NEW p \in Callers, NEW d, work' = [work EXCEPT ![p] = d],
           p \in Refreshers => RefreshFits(d) /\ ~At(Signup, "idle") /\ call'[Signup] = call[Signup],
           p = Signup => SignupFits(d, call'[Signup]) /\ d.pc # "idle",
           \A k \in DOMAIN records' : RecordFits(k, records'[k])
    PROVE  HoldInv' /\ work'[p] = d /\ \A q \in Callers \ {p} : work'[q] = work[q]
<1>1. DOMAIN work' = Callers /\ work'[p] = d /\ \A q \in Callers \ {p} : work'[q] = work[q]
  BY DEF HoldInv
<1>2. RecordsFit'
  <2>1. ASSUME NEW k \in DOMAIN records' PROVE RecordFits(k, records[k])'
    <3>1. PICK r : r = records'[k]
      OBVIOUS
    <3>2. RecordFits(k, r)
      BY <3>1
    <3>3. RecordFits(k, r)'
      BY <3>2, FitsLast
    <3> QED BY <3>1, <3>3
  <2> QED BY <2>1 DEF RecordsFit
<1>3. SignupFits(work[Signup], call[Signup])'
  <2>1. PICK w, c : w = work'[Signup] /\ c = call'[Signup]
    OBVIOUS
  <2>2. SignupFits(w, c)
    BY <1>1, <2>1, Everybody DEF HoldInv
  <2>3. SignupFits(w, c)'
    BY <2>2, FitsLast
  <2> QED BY <2>1, <2>3
<1>4. ASSUME NEW q \in Refreshers PROVE RefreshFits(work[q])'
  <2>1. PICK w : w = work'[q]
    OBVIOUS
  <2>2. RefreshFits(w)
    BY <1>1, <2>1, Everybody DEF HoldInv
  <2>3. RefreshFits(w)'
    BY <2>2, FitsLast
  <2> QED BY <2>1, <2>3
<1>5. ~At(Signup, "idle")'
  BY <1>1, Everybody DEF At
<1>6. Untried'
  BY <1>5 DEF Untried
<1> QED BY <1>1, <1>2, <1>3, <1>4, <1>6 DEF HoldInv, Lasting

\* The platform, a call or a publish moves.
LEMMA HoldsStill ==
    ASSUME HoldInv, Lasting, CallsFit', UNCHANGED <<work, records>>,
           SignupFits(work[Signup], call'[Signup]), At(Signup, "idle") => Untried'
    PROVE  HoldInv'
<1>1. RecordsFit'
  <2>1. ASSUME NEW k \in DOMAIN records PROVE RecordFits(k, records[k])'
    <3>1. PICK r : r = records'[k]
      OBVIOUS
    <3>2. RecordFits(k, r)
      BY <3>1 DEF HoldInv, RecordsFit
    <3>3. RecordFits(k, r)'
      BY <3>2, FitsLast
    <3> QED BY <3>1, <3>3
  <2> QED BY <2>1 DEF RecordsFit
<1>2. SignupFits(work[Signup], call[Signup])'
  <2>1. PICK w, c : w = work'[Signup] /\ c = call'[Signup]
    OBVIOUS
  <2>2. SignupFits(w, c)'
    BY <2>1, FitsLast
  <2> QED BY <2>1, <2>2
<1>3. ASSUME NEW q \in Refreshers PROVE RefreshFits(work[q])'
  <2>1. PICK w : w = work'[q]
    OBVIOUS
  <2>2. RefreshFits(w)
    BY <2>1 DEF HoldInv
  <2>3. RefreshFits(w)'
    BY <2>2, FitsLast
  <2> QED BY <2>1, <2>3
<1>4. Untried'
  BY DEF Untried, At
<1> QED BY <1>1, <1>2, <1>3, <1>4 DEF HoldInv, Lasting

-----------------------------------------------------------------------------
(* Refreshes *)

LEMMA StoredIs ==
    ASSUME NEW k, NEW r, records' = Stored(k, r)
    PROVE  /\ DOMAIN records' = DOMAIN records \cup {k} /\ records'[k] = r
           /\ \A x \in DOMAIN records \ {k} : records'[x] = records[x]
  BY DEF Stored

LEMMA WithoutIs ==
    ASSUME NEW k, records' = Without(k)
    PROVE  /\ DOMAIN records' = DOMAIN records \ {k}
           /\ \A x \in DOMAIN records' : records'[x] = records[x]
  BY DEF Without

\* r is the record k of the same host, further on.
Advances(k, r) ==
    /\ k \in DOMAIN records /\ records[k].state \in {"creating", "live"}
    /\ r.host = records[k].host /\ ~r.attempt /\ r.state \in {"creating", "live", "failed"}
    /\ records[k].state = "live" => r.state # "creating"
    /\ blurred' \/ ~records[k].attempt

\* What a refresh does to the records.
Alters(p) ==
    \/ records' = records
    \/ \E k \in Keys, r \in TenantRecord : Advances(k, r) /\ records' = Stored(k, r)
    \/ \E h \in Hosts, r \in TenantRecord :
          /\ ~hub /\ h \notin DOMAIN records /\ At(p, "finish") /\ work[p].rec.replacedBy = h
          /\ r.host = h /\ r.state = "creating" /\ ~r.attempt
          /\ records' = Stored(h, r) /\ blurred'
    \/ \E h \in Hosts : ~hub /\ Taken(h) /\ records' = Without(h)

\* The call it starts, or ends.
Asks(p) ==
    \/ call'[p] \in {call[p], NoCall}
    \/ \E k \in DOMAIN records' :
          call'[p].host = records'[k].host /\ records'[k].state = "creating" /\ ~records'[k].attempt

\* Only a record that was replaced is finished.
Finishes(p) ==
    work'[p].pc = "finish" =>
        \E k \in DOMAIN records : records[k].state = "replaced" /\ records[k].replacedBy = work'[p].rec.replacedBy

Tends(p) ==
    /\ UNCHANGED <<instances, adrift, lost, hub, paths, straying, putsLost, stops>>
    /\ Alters(p) /\ Asks(p) /\ Finishes(p)
    /\ \A q \in Callers \ {p} : work'[q] = work[q] /\ call'[q] = call[q]
    /\ blurred => blurred'
    /\ publish' = publish \/ \E d \in [pc : {"none", "lock"}] : publish' = [publish EXCEPT ![p] = d]

\* A refresh that keeps the records, and its call.
LEMMA RefreshMoves ==
    ASSUME HoldInv, NEW p \in Refreshers, ~At(Signup, "idle"), NEW d, work' = [work EXCEPT ![p] = d],
           RefreshFits(d), Finishes(p), UNCHANGED <<createVars, paths, straying, putsLost, hub, records, stops, blurred>>,
           publish' = publish \/ \E w \in [pc : {"none", "lock"}] : publish' = [publish EXCEPT ![p] = w]
    PROVE  HoldInv' /\ Tends(p)
<1>1. p \in Callers /\ p # Signup
  BY Everybody
<1>2. CallsFit' /\ Lasting /\ call' = call
  BY DEF HoldInv, CallsFit, CallFits, createVars, Lasting
<1>3. \A k \in DOMAIN records' : RecordFits(k, records'[k])
  BY DEF HoldInv, RecordsFit
<1>4. HoldInv' /\ \A q \in Callers \ {p} : work'[q] = work[q]
  BY <1>1, <1>2, <1>3, HoldsOn
<1> QED BY <1>1, <1>2, <1>4 DEF Tends, Alters, Asks, createVars

\* A version that is current is a record, and so fits.
LEMMA CurrentFits ==
    ASSUME HoldInv, NEW p \in Callers, Current(p)
    PROVE  RecordFits(work[p].key, work[p].rec) /\ work[p].key \in DOMAIN records /\ records[work[p].key] = work[p].rec
  BY DEF HoldInv, RecordsFit, Current

\* r is k's record from now on.
LEMMA StoresFit ==
    ASSUME HoldInv, NEW k, NEW r, RecordFits(k, r), records' = Stored(k, r)
    PROVE  \A x \in DOMAIN records' : RecordFits(x, records'[x])
<1>1. /\ DOMAIN records' = DOMAIN records \cup {k} /\ records'[k] = r
      /\ \A x \in DOMAIN records \ {k} : records'[x] = records[x]
  BY StoredIs
<1>2. \A x \in DOMAIN records : RecordFits(x, records[x])
  BY DEF HoldInv, RecordsFit
<1>3. ASSUME NEW x \in DOMAIN records' PROVE RecordFits(x, records'[x])
  BY <1>1, <1>2
<1> QED BY <1>3

\* A refresh under way comes after the signup.
LEMMA SignupBegan ==
    ASSUME HoldInv, (\E p \in Refreshers : ~At(p, "idle")) \/ DOMAIN records # {}
    PROVE  ~At(Signup, "idle")
  BY DEF HoldInv, Untried

LEMMA CreateMoves ==
    ASSUME CallsFit, UNCHANGED <<instances, adrift, lost>>, NEW p \in Callers, NEW h \in Hosts, NEW b \in BOOLEAN,
           call' = Create(p, h, b)
    PROVE  /\ CallsFit' /\ \A q \in Callers \ {p} : call'[q] = call[q]
           /\ call'[p] \in Calling /\ call'[p].pc = (IF b THEN "get" ELSE "post")
           /\ call'[p].host = h /\ call'[p].resume = b /\ ~call'[p].unknown
<1> DEFINE c == [pc |-> IF b THEN "get" ELSE "post", host |-> h, resume |-> b,
                 posts |-> IF b THEN 0 ELSE 1, unknown |-> FALSE]
<1>1. c \in Calling
  BY DEF Calling
<1>2. c.pc = (IF b THEN "get" ELSE "post") /\ c.host = h /\ c.resume = b /\ ~c.unknown /\ c.posts <= 1
  OBVIOUS
<1>3. call' = [call EXCEPT ![p] = c]
  BY DEF Create
<1>4. instances' \in [Hosts -> {"none", "ours", "other"}] /\ adrift' \subseteq Hosts /\ lost' \in 0..MaxLost
  BY DEF CallsFit
<1> HIDE DEF c
<1>5. CallsFit' /\ call'[p] = c /\ \A q \in Callers \ {p} : call'[q] = call[q]
  BY <1>1, <1>2, <1>3, <1>4, CallMoves
<1> QED BY <1>1, <1>2, <1>5

\* A record without its token, or in another state.
LEMMA ReleasedIs ==
    ASSUME NEW r \in TenantRecord
    PROVE  \E q \in TenantRecord : /\ q = [r EXCEPT !.attempt = FALSE] /\ q.host = r.host
                                  /\ q.state = r.state /\ ~q.attempt
<1>1. PICK q : q = [r EXCEPT !.attempt = FALSE]
  OBVIOUS
<1>2. q \in TenantRecord /\ q.host = r.host /\ q.state = r.state /\ ~q.attempt
  BY <1>1 DEF TenantRecord
<1> QED BY <1>1, <1>2

LEMMA SettledIs ==
    ASSUME NEW r \in TenantRecord, ~r.attempt, NEW s \in {"creating", "live", "failed", "replaced"}
    PROVE  \E q \in TenantRecord : /\ q = [r EXCEPT !.state = s] /\ q.host = r.host
                                  /\ q.state = s /\ ~q.attempt
<1>1. PICK q : q = [r EXCEPT !.state = s]
  OBVIOUS
<1>2. q \in TenantRecord /\ q.host = r.host /\ q.state = s /\ ~q.attempt
  BY <1>1 DEF TenantRecord
<1> QED BY <1>1, <1>2

\* A refresh p moves on to d and writes.
LEMMA RefreshHolds ==
    ASSUME HoldInv, Lasting, CallsFit', NEW p \in Refreshers, ~At(Signup, "idle"), NEW d,
           work' = [work EXCEPT ![p] = d], RefreshFits(d),
           \A q \in Callers \ {p} : call'[q] = call[q],
           \A k \in DOMAIN records' : RecordFits(k, records'[k])
    PROVE  HoldInv' /\ work'[p] = d /\ \A q \in Callers \ {p} : work'[q] = work[q]
<1>1. p \in Callers /\ p # Signup /\ call'[Signup] = call[Signup]
  BY Everybody
<1> QED BY <1>1, HoldsOn

LEMMA TakesOverDoes ==
    ASSUME HoldInv, NEW p \in Refreshers, TakesOver(p)
    PROVE  HoldInv' /\ Tends(p)
<1>1. p \in Callers /\ p # Signup /\ ~At(Signup, "idle")
  BY Everybody, SignupBegan DEF TakesOver, At
<1>2. /\ UNCHANGED <<instances, adrift, lost, hub, stops, pathVars>>
      /\ work[p] \in Held /\ work[p].rec.state = "creating" /\ work[p].key = Key(work[p].rec.host)
  BY DEF TakesOver, At, HoldInv, RefreshFits, Bare, Deciding
<1>3. CASE ~Current(p)
  <2>1. PICK d : d = Idle
    OBVIOUS
  <2>2. work' = [work EXCEPT ![p] = d] /\ UNCHANGED <<records, call, blurred>>
    BY <1>3, <2>1, Zenon DEF TakesOver, Goes
  <2>3. RefreshFits(d) /\ Finishes(p)
    BY <1>1, <2>1, <2>2 DEF Idle, RefreshFits, Bare, Finishes, HoldInv
  <2> QED BY <1>1, <1>2, <2>2, <2>3, RefreshMoves DEF createVars, pathVars
<1>4. CASE Current(p)
  <2>1. PICK k \in Keys, o \in TenantRecord : k = work[p].key /\ o = work[p].rec
    BY <1>2 DEF Held
  <2>2. PICK r \in TenantRecord : /\ r = [o EXCEPT !.attempt = FALSE] /\ r.host = o.host
                                  /\ r.state = "creating" /\ ~r.attempt
    BY <1>2, <2>1, ReleasedIs
  <2>3. PICK d : d = [pc |-> "create", key |-> k, rec |-> r]
    OBVIOUS
  <2>4. /\ records' = Stored(k, r) /\ work' = [work EXCEPT ![p] = d]
        /\ call' = Create(p, r.host, TRUE) /\ blurred'
    BY <1>4, <2>1, <2>2, <2>3, Zenon DEF TakesOver, Goes
  <2>6. /\ CallsFit' /\ \A q \in Callers \ {p} : call'[q] = call[q]
        /\ call'[p].host = r.host
    BY <1>1, <1>2, <2>4, CreateMoves DEF HoldInv, TenantRecord
  <2>7. RefreshFits(d) /\ d.pc = "create"
    BY <1>2, <2>1, <2>2, <2>3 DEF RefreshFits, Held, Places
  <2>8. RecordFits(k, r) /\ k \in DOMAIN records /\ records[k] = o
    BY <1>1, <1>2, <1>4, <2>1, <2>2, CurrentFits DEF RecordFits
  <2>9. \A x \in DOMAIN records' : RecordFits(x, records'[x])
    BY <2>4, <2>8, StoresFit
  <2>10. HoldInv' /\ work'[p] = d /\ \A q \in Callers \ {p} : work'[q] = work[q]
    BY <1>1, <1>2, <2>4, <2>6, <2>7, <2>9, RefreshHolds DEF Lasting
  <2>11. Advances(k, r)
    BY <1>2, <2>1, <2>2, <2>4, <2>8 DEF Advances
  <2>12. Asks(p)
    <3>1. k \in DOMAIN records' /\ records'[k] = r
      BY <2>4, StoredIs, ZenonT(30)
    <3> QED BY <2>2, <2>6, <3>1 DEF Asks
  <2>13. Alters(p) /\ Finishes(p)
    BY <2>4, <2>7, <2>10, <2>11 DEF Alters, Finishes
  <2> QED BY <1>2, <2>4, <2>6, <2>10, <2>12, <2>13 DEF Tends, pathVars
<1> QED BY <1>3, <1>4

LEMMA IdleFits == RefreshFits(Idle) /\ Idle.pc = "idle"
  BY DEF Idle, RefreshFits, Bare

\* What p decides to write fits.
LEMMA WriteFits ==
    ASSUME NEW p, work[p] \in Held, work[p].key = Key(work[p].rec.host),
           work[p].rec.state \in {"creating", "live"}, ~work[p].rec.attempt,
           NEW r \in TenantRecord, r.host = work[p].rec.host, r.state \in {"live", "failed"}, ~r.attempt,
           WillWrite(p, r)
    PROVE  \E d : work' = [work EXCEPT ![p] = d] /\ RefreshFits(d) /\ d.pc = "write"
<1>1. PICK d : d = [pc |-> "write", key |-> work[p].key, rec |-> work[p].rec, next |-> r]
  OBVIOUS
<1>2. d \in Deciding /\ d.pc = "write" /\ d.key = work[p].key /\ d.rec = work[p].rec /\ d.next = r
  BY <1>1 DEF Held, Deciding
<1>3. RefreshFits(d)
  BY <1>2 DEF RefreshFits
<1>4. work' = [work EXCEPT ![p] = d]
  BY <1>1, Zenon DEF WillWrite, Goes
<1> QED BY <1>2, <1>3, <1>4

\* p goes on with the record it holds.
LEMMA OnwardsFits ==
    ASSUME NEW p, work[p] \in Held, NEW x \in Places, Goes(p, [work[p] EXCEPT !.pc = x])
    PROVE  \E d : /\ work' = [work EXCEPT ![p] = d] /\ d \in Held /\ d.pc = x
                 /\ d.key = work[p].key /\ d.rec = work[p].rec
<1>1. PICK w \in Held : w = work[p]
  OBVIOUS
<1>2. PICK d : d = [w EXCEPT !.pc = x]
  OBVIOUS
<1>3. d \in Held /\ d.pc = x /\ d.key = w.key /\ d.rec = w.rec
  BY <1>2 DEF Held
<1>4. work' = [work EXCEPT ![p] = d]
  BY <1>1, <1>2, Zenon DEF Goes
<1> QED BY <1>1, <1>3, <1>4

LEMMA FailFits ==
    ASSUME NEW p, work[p] \in Held, work[p].key = Key(work[p].rec.host),
           work[p].rec.state \in {"creating", "live"}, ~work[p].rec.attempt, WillFail(p)
    PROVE  \E d : work' = [work EXCEPT ![p] = d] /\ RefreshFits(d) /\ d.pc = "write"
<1>1. PICK o \in TenantRecord : o = work[p].rec
  BY DEF Held
<1>2. PICK s \in {"creating", "live", "failed", "replaced"} : s = "failed"
  OBVIOUS
<1>3. PICK r \in TenantRecord : /\ r = [o EXCEPT !.state = s] /\ r.host = o.host
                                /\ r.state = s /\ ~r.attempt
  BY <1>1, SettledIs, Zenon
<1>4. WillWrite(p, r)
  BY <1>1, <1>2, <1>3, Zenon DEF WillFail
<1>5. r.host = work[p].rec.host /\ r.state \in {"live", "failed"}
  BY <1>1, <1>2, <1>3
<1> QED BY <1>3, <1>4, <1>5, WriteFits

LEMMA RefreshHearsDoes ==
    ASSUME HoldInv, NEW p \in Refreshers, RefreshHears(p)
    PROVE  HoldInv' /\ Tends(p)
<1>1. p \in Callers /\ p # Signup /\ ~At(Signup, "idle")
  BY Everybody, SignupBegan DEF RefreshHears, At
<1>2. /\ UNCHANGED <<instances, adrift, lost, pathVars, hub, records, stops, blurred>>
      /\ work[p] \in Held /\ work[p].rec.state = "creating" /\ ~work[p].rec.attempt
      /\ work[p].key = Key(work[p].rec.host)
  BY DEF RefreshHears, At, HoldInv, RefreshFits, Bare, Deciding
<1>3. call' = [call EXCEPT ![p] = NoCall] /\ (WillFail(p) \/ Goes(p, Idle) \/ Goes(p, [work[p] EXCEPT !.pc = "probe"]))
  BY Zenon DEF RefreshHears
<1>4. PICK d : work' = [work EXCEPT ![p] = d] /\ RefreshFits(d) /\ d.pc # "finish"
  <2>1. CASE WillFail(p)
    BY <1>2, <2>1, FailFits
  <2>2. CASE Goes(p, Idle)
    BY <2>2, IdleFits DEF Goes
  <2>3. CASE Goes(p, [work[p] EXCEPT !.pc = "probe"])
    <3>1. PICK x \in Places : x = "probe"
      BY DEF Places
    <3>2. Goes(p, [work[p] EXCEPT !.pc = x])
      BY <2>3, <3>1, Zenon
    <3>3. PICK d : /\ work' = [work EXCEPT ![p] = d] /\ d \in Held /\ d.pc = x
                   /\ d.key = work[p].key /\ d.rec = work[p].rec
      BY <1>2, <3>2, OnwardsFits
    <3> QED BY <1>2, <3>1, <3>3 DEF RefreshFits
  <2> QED BY <1>3, <2>1, <2>2, <2>3
<1>5. CallsFit' /\ call'[p] = NoCall /\ \A q \in Callers \ {p} : call'[q] = call[q]
  BY <1>1, <1>2, <1>3, CallMoves DEF HoldInv, CallsFit
<1>6. HoldInv' /\ work'[p] = d /\ \A q \in Callers \ {p} : work'[q] = work[q]
  BY <1>1, <1>2, <1>4, <1>5, RefreshHolds DEF Lasting, HoldInv, RecordsFit
<1> QED BY <1>2, <1>4, <1>5, <1>6 DEF Tends, Alters, Asks, Finishes, pathVars

LEMMA ProbeDoes ==
    ASSUME HoldInv, NEW p \in Refreshers, Probe(p)
    PROVE  HoldInv' /\ Tends(p)
<1>1. p \in Callers /\ p # Signup /\ ~At(Signup, "idle") /\ p \in DOMAIN work
  BY Everybody, SignupBegan DEF Probe, At, HoldInv
<1>2. /\ UNCHANGED <<createVars, pathVars, hub, records, stops, blurred>>
      /\ work[p] \in Held /\ work[p].rec.state = "creating" /\ ~work[p].rec.attempt
      /\ work[p].key = Key(work[p].rec.host)
  BY DEF Probe, At, HoldInv, RefreshFits, Bare, Deciding
<1>3. PICK d : work' = [work EXCEPT ![p] = d] /\ RefreshFits(d) /\ d.pc # "finish"
  <2>1. CASE WillWrite(p, [work[p].rec EXCEPT !.state = "live"])
    <3>1. PICK o \in TenantRecord : o = work[p].rec
      BY <1>2 DEF Held
    <3>2. PICK s \in {"creating", "live", "failed", "replaced"} : s = "live"
      OBVIOUS
    <3>4. PICK r \in TenantRecord : /\ r = [o EXCEPT !.state = s] /\ r.host = o.host
                                    /\ r.state = s /\ ~r.attempt
      BY <1>2, <3>1, SettledIs, Zenon
    <3>3. WillWrite(p, r)
      BY <2>1, <3>1, <3>2, <3>4, Zenon
    <3> QED BY <1>2, <3>1, <3>2, <3>3, <3>4, WriteFits
  <2>2. CASE Goes(p, Idle)
    BY <2>2, IdleFits DEF Goes
  <2> QED BY <2>1, <2>2, Zenon DEF Probe
<1>4. Finishes(p)
  BY <1>1, <1>3 DEF Finishes
<1> QED BY <1>1, <1>2, <1>3, <1>4, RefreshMoves DEF pathVars

\* p waits no longer for the route.
LEMMA UnroutedFits ==
    ASSUME NEW p, work[p] \in Held, work[p].key = Key(work[p].rec.host),
           work[p].rec.state = "live", ~work[p].rec.attempt, Unrouted(p)
    PROVE  \E d : work' = [work EXCEPT ![p] = d] /\ RefreshFits(d) /\ d.pc # "finish"
<1>1. CASE Goes(p, Idle)
  BY <1>1, IdleFits DEF Goes
<1>2. CASE WillFail(p)
  BY <1>2, FailFits
<1> QED BY <1>1, <1>2 DEF Unrouted

LEMMA PublishesDoes ==
    ASSUME HoldInv, NEW p \in Refreshers, Publishes(p)
    PROVE  HoldInv' /\ Tends(p)
<1>1. p \in Callers /\ p # Signup /\ ~At(Signup, "idle") /\ p \in DOMAIN work
  BY Everybody, SignupBegan DEF Publishes, At, HoldInv
<1>2. /\ UNCHANGED <<createVars, paths, straying, putsLost, hub, records, stops, blurred>>
      /\ work[p] \in Held /\ work[p].rec.state = "live" /\ ~work[p].rec.attempt
      /\ work[p].key = Key(work[p].rec.host) /\ hub
  BY DEF Publishes, At, HoldInv, RefreshFits, Bare, Deciding
<1>3. PICK d : work' = [work EXCEPT ![p] = d] /\ RefreshFits(d) /\ d.pc # "finish"
  <2>1. CASE Goes(p, [work[p] EXCEPT !.pc = "check"])
    <3>1. PICK x \in Places : x = "check"
      BY DEF Places
    <3>2. Goes(p, [work[p] EXCEPT !.pc = x])
      BY <2>1, <3>1, Zenon
    <3>3. PICK d : /\ work' = [work EXCEPT ![p] = d] /\ d \in Held /\ d.pc = x
                   /\ d.key = work[p].key /\ d.rec = work[p].rec
      BY <1>2, <3>2, OnwardsFits
    <3> QED BY <1>2, <3>1, <3>3 DEF RefreshFits
  <2> QED BY <1>2, <2>1, UnroutedFits, Zenon DEF Publishes
<1>4. Finishes(p)
  BY <1>1, <1>3 DEF Finishes
<1>5. \E w \in [pc : {"none", "lock"}] : publish' = [publish EXCEPT ![p] = w]
  BY DEF Publishes, NoPublish
<1> QED BY <1>1, <1>2, <1>3, <1>4, <1>5, RefreshMoves

LEMMA CheckDoes ==
    ASSUME HoldInv, NEW p \in Refreshers, Check(p)
    PROVE  HoldInv' /\ Tends(p)
<1>1. p \in Callers /\ p # Signup /\ ~At(Signup, "idle") /\ p \in DOMAIN work
  BY Everybody, SignupBegan DEF Check, At, HoldInv
<1>2. /\ UNCHANGED <<createVars, pathVars, hub, records, stops, blurred>>
      /\ work[p] \in Held /\ work[p].rec.state = "live" /\ ~work[p].rec.attempt
      /\ work[p].key = Key(work[p].rec.host)
  BY DEF Check, At, HoldInv, RefreshFits, Bare, Deciding
<1>3. PICK d : work' = [work EXCEPT ![p] = d] /\ RefreshFits(d) /\ d.pc # "finish"
  <2>1. CASE WillWrite(p, [work[p].rec EXCEPT !.routed = TRUE])
    <3>1. PICK o \in TenantRecord : o = work[p].rec
      BY <1>2 DEF Held
    <3>2. PICK r : r = [o EXCEPT !.routed = TRUE]
      OBVIOUS
    <3>3. r \in TenantRecord /\ r.host = o.host /\ r.state = "live" /\ ~r.attempt
      BY <1>2, <3>1, <3>2 DEF TenantRecord
    <3>4. WillWrite(p, r)
      BY <2>1, <3>1, <3>2, Zenon
    <3> QED BY <1>2, <3>1, <3>3, <3>4, WriteFits
  <2> QED BY <1>2, <2>1, UnroutedFits, Zenon DEF Check
<1>4. Finishes(p)
  BY <1>1, <1>3 DEF Finishes
<1> QED BY <1>1, <1>2, <1>3, <1>4, RefreshMoves DEF pathVars

LEMMA WritesDoes ==
    ASSUME HoldInv, NEW p \in Refreshers, Writes(p)
    PROVE  HoldInv' /\ Tends(p)
<1>1. p \in Callers /\ p # Signup /\ ~At(Signup, "idle") /\ p \in DOMAIN work
  BY Everybody, SignupBegan DEF Writes, At, HoldInv
<1>2. /\ UNCHANGED <<createVars, pathVars, hub, stops, blurred>>
      /\ work[p] \in Deciding /\ work[p].key = Key(work[p].rec.host)
      /\ work[p].rec.state \in {"creating", "live"} /\ ~work[p].rec.attempt
      /\ work[p].next.host = work[p].rec.host /\ work[p].next.state \in {"live", "failed"} /\ ~work[p].next.attempt
  BY DEF Writes, At, HoldInv, RefreshFits, Bare, Held
<1>3. CallsFit' /\ Lasting
  BY <1>2 DEF HoldInv, CallsFit, CallFits, createVars, Lasting
<1>4. PICK d : d = Idle
  OBVIOUS
<1>5. work' = [work EXCEPT ![p] = d] /\ RefreshFits(d) /\ d.pc = "idle"
  BY <1>4, IdleFits DEF Writes, Goes
<1>6. CASE ~Current(p)
  <2>1. records' = records
    BY <1>6 DEF Writes
  <2>2. HoldInv' /\ work'[p] = d /\ \A q \in Callers \ {p} : work'[q] = work[q]
    BY <1>1, <1>2, <1>3, <1>5, <2>1, RefreshHolds DEF HoldInv, RecordsFit, createVars
  <2> QED BY <1>2, <1>5, <2>1, <2>2 DEF Tends, Alters, Asks, Finishes, createVars, pathVars
<1>7. CASE Current(p)
  <2>1. PICK k \in Keys, r \in TenantRecord : k = work[p].key /\ r = work[p].next
    BY <1>2 DEF Deciding
  <2>2. records' = Stored(k, r)
    BY <1>7, <2>1, Zenon DEF Writes
  <2>3. RecordFits(k, r) /\ Advances(k, r)
    BY <1>1, <1>2, <1>7, <2>1, CurrentFits DEF RecordFits, Advances
  <2>4. \A x \in DOMAIN records' : RecordFits(x, records'[x])
    BY <2>2, <2>3, StoresFit
  <2>5. HoldInv' /\ work'[p] = d /\ \A q \in Callers \ {p} : work'[q] = work[q]
    BY <1>1, <1>2, <1>3, <1>5, <2>4, RefreshHolds DEF createVars
  <2>6. Alters(p)
    BY <2>2, <2>3 DEF Alters
  <2> QED BY <1>2, <1>5, <2>5, <2>6 DEF Tends, Asks, Finishes, createVars, pathVars
<1> QED BY <1>6, <1>7

LEMMA FreshIs ==
    ASSUME NEW h \in Hosts, NEW n \in 0..MaxRelabels, NEW b \in BOOLEAN
    PROVE  \E r \in TenantRecord : /\ r = Fresh(h, n, b) /\ r.host = h /\ r.state = "creating"
                                  /\ r.attempt = b /\ r.relabels = n
<1>1. PICK r : r = Fresh(h, n, b)
  OBVIOUS
<1>2. r \in TenantRecord /\ r.host = h /\ r.state = "creating" /\ r.attempt = b /\ r.relabels = n
  BY <1>1 DEF Fresh, TenantRecord
<1> QED BY <1>1, <1>2

LEMMA FinishCreatesDoes ==
    ASSUME HoldInv, NEW p \in Refreshers, FinishCreates(p)
    PROVE  HoldInv' /\ Tends(p)
<1>1. p \in Callers /\ p # Signup /\ ~At(Signup, "idle") /\ p \in DOMAIN work
  BY Everybody, SignupBegan DEF FinishCreates, At, HoldInv
<1>2. /\ UNCHANGED <<createVars, pathVars, hub, stops>>
      /\ work[p] \in Held /\ work[p].key = Key(work[p].rec.host) /\ LeftBehind(work[p].rec) /\ At(p, "finish")
  BY DEF FinishCreates, At, HoldInv, RefreshFits, Bare, Deciding
<1>3. CallsFit' /\ Lasting
  BY <1>2 DEF HoldInv, CallsFit, CallFits, createVars, Lasting
<1>4. PICK d : work' = [work EXCEPT ![p] = d] /\ RefreshFits(d) /\ d.pc = "drop"
  <2>1. PICK x \in Places : x = "drop"
    BY DEF Places
  <2>2. Goes(p, [work[p] EXCEPT !.pc = x])
    BY <2>1, Zenon DEF FinishCreates
  <2>3. PICK d : /\ work' = [work EXCEPT ![p] = d] /\ d \in Held /\ d.pc = x
                 /\ d.key = work[p].key /\ d.rec = work[p].rec
    BY <1>2, <2>2, OnwardsFits
  <2> QED BY <1>2, <2>1, <2>3 DEF RefreshFits
<1>6. CASE work[p].rec.replacedBy \in DOMAIN records
  <2>1. records' = records /\ blurred' = blurred
    BY <1>6 DEF FinishCreates
  <2>2. HoldInv' /\ work'[p] = d /\ \A q \in Callers \ {p} : work'[q] = work[q]
    BY <1>1, <1>2, <1>3, <1>4, <2>1, RefreshHolds DEF HoldInv, RecordsFit, createVars
  <2> QED BY <1>2, <1>4, <2>1, <2>2 DEF Tends, Alters, Asks, Finishes, createVars, pathVars
<1>7. CASE work[p].rec.replacedBy \notin DOMAIN records
  <2>1. PICK h \in Hosts, n \in 0..MaxRelabels : h = work[p].rec.replacedBy /\ n = work[p].rec.relabels + 1
    BY <1>2, TenantsAssumption DEF LeftBehind, Held, TenantRecord
  <2>2. PICK r \in TenantRecord : r = Fresh(h, n, FALSE) /\ r.host = h /\ r.state = "creating" /\ ~r.attempt
    BY FreshIs
  <2>3. records' = Stored(h, r) /\ blurred'
    BY <1>7, <2>1, <2>2, Zenon DEF FinishCreates
  <2>4. RecordFits(h, r) /\ ~hub
    BY <1>2, <2>1, <2>2 DEF RecordFits, LeftBehind, Key
  <2>5. \A x \in DOMAIN records' : RecordFits(x, records'[x])
    BY <2>3, <2>4, StoresFit
  <2>6. HoldInv' /\ work'[p] = d /\ \A q \in Callers \ {p} : work'[q] = work[q]
    BY <1>1, <1>2, <1>3, <1>4, <2>5, RefreshHolds DEF createVars
  <2>7. Alters(p)
    BY <1>2, <1>7, <2>1, <2>2, <2>3, <2>4 DEF Alters
  <2> QED BY <1>2, <1>4, <2>3, <2>6, <2>7 DEF Tends, Asks, Finishes, createVars, pathVars
<1> QED BY <1>6, <1>7

LEMMA FinishDeletesDoes ==
    ASSUME HoldInv, NEW p \in Refreshers, FinishDeletes(p)
    PROVE  HoldInv' /\ Tends(p)
<1>1. p \in Callers /\ p # Signup /\ ~At(Signup, "idle") /\ p \in DOMAIN work
  BY Everybody, SignupBegan DEF FinishDeletes, At, HoldInv
<1>2. /\ UNCHANGED <<createVars, pathVars, hub, stops, blurred>>
      /\ work[p] \in Held /\ work[p].key = Key(work[p].rec.host) /\ LeftBehind(work[p].rec)
  BY DEF FinishDeletes, At, HoldInv, RefreshFits, Bare, Deciding
<1>3. CallsFit' /\ Lasting
  BY <1>2 DEF HoldInv, CallsFit, CallFits, createVars, Lasting
<1>4. PICK d : d = Idle
  OBVIOUS
<1>5. work' = [work EXCEPT ![p] = d] /\ RefreshFits(d) /\ d.pc = "idle"
  BY <1>4, IdleFits DEF FinishDeletes, Goes
<1>6. PICK h \in Hosts : h = work[p].key /\ Taken(h) /\ ~hub
  BY <1>2 DEF LeftBehind, Held, TenantRecord, Key
<1>7. records' = Without(h)
  BY <1>6, Zenon DEF FinishDeletes
<1>8. \A x \in DOMAIN records' : RecordFits(x, records'[x])
  BY <1>7, WithoutIs DEF HoldInv, RecordsFit
<1>9. HoldInv' /\ work'[p] = d /\ \A q \in Callers \ {p} : work'[q] = work[q]
  BY <1>1, <1>2, <1>3, <1>5, <1>8, RefreshHolds DEF createVars
<1>10. Alters(p)
  BY <1>6, <1>7 DEF Alters
<1> QED BY <1>2, <1>5, <1>9, <1>10 DEF Tends, Asks, Finishes, createVars, pathVars

LEMMA ReadsDoes ==
    ASSUME HoldInv, NEW p \in Refreshers, NEW k \in Keys, Reads(p, k)
    PROVE  HoldInv' /\ Tends(p)
<1>1. p \in Callers /\ p # Signup /\ ~At(Signup, "idle") /\ p \in DOMAIN work
  BY Everybody, SignupBegan DEF Reads, At, HoldInv
<1>2. /\ UNCHANGED <<instances, adrift, lost, paths, straying, putsLost, hub, records, stops, blurred>>
      /\ k \in DOMAIN records
  BY DEF Reads
<1>3. PICK r \in TenantRecord : r = records[k] /\ RecordFits(k, r)
  BY <1>2 DEF HoldInv, RecordsFit, RecordFits
<1>4. Decided(p, k, r)
  BY <1>3, Zenon DEF Reads
<1>5. ASSUME NEW x \in Places PROVE [pc |-> x, key |-> k, rec |-> r] \in Held
  BY DEF Held
<1>6. CASE r.state = "creating" /\ ~r.attempt
  <2>1. PICK d : d = [pc |-> "create", key |-> k, rec |-> r]
    OBVIOUS
  <2>2. work' = [work EXCEPT ![p] = d] /\ call' = Create(p, r.host, TRUE) /\ publish' = publish
    BY <1>4, <1>6, <2>1 DEF Decided, Goes
  <2>3. d \in Held /\ d.pc = "create" /\ d.key = k /\ d.rec = r
    BY <2>1, <1>5 DEF Places
  <2>4. RefreshFits(d)
    BY <1>3, <1>6, <2>3 DEF RefreshFits, RecordFits
  <2>5. CallsFit' /\ call'[p].host = r.host /\ \A q \in Callers \ {p} : call'[q] = call[q]
    BY <1>1, <1>2, <2>2, CreateMoves DEF HoldInv, TenantRecord
  <2>6. HoldInv' /\ work'[p] = d /\ \A q \in Callers \ {p} : work'[q] = work[q]
    BY <1>1, <1>2, <2>2, <2>4, <2>5, RefreshHolds DEF Lasting, HoldInv, RecordsFit
  <2>7. Asks(p)
    BY <1>2, <1>3, <1>6, <2>5 DEF Asks
  <2> QED BY <1>2, <2>2, <2>3, <2>5, <2>6, <2>7 DEF Tends, Alters, Finishes
<1>7. CASE ~(r.state = "creating" /\ ~r.attempt)
  <2>1. /\ call' = call
        /\ publish' = publish \/ publish' = PublishPaths(p)
        /\ \/ Goes(p, Idle)
           \/ r.state = "replaced" /\ Goes(p, [pc |-> "finish", key |-> k, rec |-> r])
           \/ r.state = "creating" /\ r.attempt /\ Goes(p, [pc |-> "take", key |-> k, rec |-> r])
           \/ r.state = "live" /\ hub /\ Goes(p, [pc |-> "publish", key |-> k, rec |-> r])
    BY <1>4, <1>7 DEF Decided
  <2>2. PICK d : /\ work' = [work EXCEPT ![p] = d] /\ RefreshFits(d)
                 /\ d.pc = "finish" => r.state = "replaced" /\ d.rec = r
    <3>1. CASE Goes(p, Idle)
      BY <3>1, IdleFits DEF Goes
    <3>2. CASE r.state = "replaced" /\ Goes(p, [pc |-> "finish", key |-> k, rec |-> r])
      <4>1. PICK d : d = [pc |-> "finish", key |-> k, rec |-> r]
        OBVIOUS
      <4>2. d \in Held /\ d.pc = "finish" /\ d.key = k /\ d.rec = r
        BY <4>1, <1>5 DEF Places
      <4>3. RefreshFits(d)
        BY <1>3, <3>2, <4>2 DEF RefreshFits, RecordFits
      <4> QED BY <3>2, <4>1, <4>2, <4>3 DEF Goes
    <3>3. CASE r.state = "creating" /\ r.attempt /\ Goes(p, [pc |-> "take", key |-> k, rec |-> r])
      <4>1. PICK d : d = [pc |-> "take", key |-> k, rec |-> r]
        OBVIOUS
      <4>2. d \in Held /\ d.pc = "take" /\ d.key = k /\ d.rec = r
        BY <4>1, <1>5 DEF Places
      <4>3. RefreshFits(d)
        BY <1>3, <3>3, <4>2 DEF RefreshFits, RecordFits
      <4> QED BY <3>3, <4>1, <4>2, <4>3 DEF Goes
    <3>4. CASE r.state = "live" /\ hub /\ Goes(p, [pc |-> "publish", key |-> k, rec |-> r])
      <4>1. PICK d : d = [pc |-> "publish", key |-> k, rec |-> r]
        OBVIOUS
      <4>2. d \in Held /\ d.pc = "publish" /\ d.key = k /\ d.rec = r
        BY <4>1, <1>5 DEF Places
      <4>3. RefreshFits(d)
        BY <1>3, <3>4, <4>2 DEF RefreshFits, RecordFits
      <4> QED BY <3>4, <4>1, <4>2, <4>3 DEF Goes
    <3> QED BY <2>1, <3>1, <3>2, <3>3, <3>4
  <2>3. Finishes(p)
    BY <1>1, <1>2, <1>3, <2>2 DEF Finishes
  <2>4. publish' = publish \/ \E w \in [pc : {"none", "lock"}] : publish' = [publish EXCEPT ![p] = w]
    BY <2>1 DEF PublishPaths
  <2> QED BY <1>1, <1>2, <2>1, <2>2, <2>3, <2>4, RefreshMoves DEF createVars
<1> QED BY <1>6, <1>7

LEMMA RefreshDoes ==
    ASSUME HoldInv, NEW p \in Refreshers, RefreshStep(p) \/ \E k \in Keys : Reads(p, k)
    PROVE  HoldInv' /\ Tends(p)
  BY TakesOverDoes, RefreshHearsDoes, ProbeDoes, PublishesDoes, CheckDoes, WritesDoes, FinishCreatesDoes,
     FinishDeletesDoes, ReadsDoes DEF RefreshStep

-----------------------------------------------------------------------------
(* The signup *)

\* Nothing but the signup's own work, call and records has changed.
Alone ==
    /\ UNCHANGED <<instances, adrift, lost, pathVars, hub, stops, blurred>>
    /\ \A q \in Callers \ {Signup} : work'[q] = work[q] /\ call'[q] = call[q]

\* The signup goes on with the record r.
With(pc, r) == work'[Signup].pc = pc /\ work'[Signup].rec = r

\* Its first POST for h.
Posts(h) ==
    /\ call'[Signup] \in Calling /\ call'[Signup].pc = "post" /\ call'[Signup].host = h
    /\ ~call'[Signup].resume /\ ~call'[Signup].unknown

\* The signup moves on to d.
LEMMA SignupHolds ==
    ASSUME HoldInv, UNCHANGED <<instances, adrift, lost, pathVars, hub, stops, blurred>>, CallsFit', NEW d,
           work' = [work EXCEPT ![Signup] = d], SignupFits(d, call'[Signup]), d.pc # "idle",
           \A q \in Callers \ {Signup} : call'[q] = call[q],
           \A k \in DOMAIN records' : RecordFits(k, records'[k])
    PROVE  HoldInv' /\ work'[Signup] = d /\ Alone
<1>1. Signup \in Callers /\ Signup \notin Refreshers
  BY Everybody
<1>2. HoldInv' /\ work'[Signup] = d /\ \A q \in Callers \ {Signup} : work'[q] = work[q]
  BY <1>1, HoldsOn DEF Lasting
<1> QED BY <1>2 DEF Alone

LEMMA SignupBeginsDoes ==
    ASSUME HoldInv, NEW h \in Hosts, SignupBegins(h)
    PROVE  /\ HoldInv' /\ Alone /\ At(Signup, "idle")
           /\ \E r \in TenantRecord : /\ r.host = h /\ r.state = "creating" /\ r.attempt
                                      /\ records' = Stored(Key(h), r) /\ With("create", r) /\ Posts(h)
<1>1. Signup \in Callers /\ At(Signup, "idle") /\ DOMAIN records = {}
  BY Everybody DEF SignupBegins, HoldInv, Untried
<1>2. PICK r \in TenantRecord : r = Fresh(h, 0, TRUE) /\ r.host = h /\ r.state = "creating" /\ r.attempt
  <2>1. 0 \in 0..MaxRelabels
    BY TenantsAssumption
  <2> QED BY <2>1, FreshIs
<1>3. PICK d : d = [pc |-> "create", key |-> Key(h), rec |-> r]
  OBVIOUS
<1>4. /\ UNCHANGED <<instances, adrift, lost, pathVars, hub, stops, blurred>>
      /\ records' = Stored(Key(h), r) /\ work' = [work EXCEPT ![Signup] = d]
      /\ call' = Create(Signup, h, FALSE)
  BY <1>2, <1>3, Zenon DEF SignupBegins, Goes
<1>5. CallsFit' /\ Posts(h) /\ \A q \in Callers \ {Signup} : call'[q] = call[q]
  BY <1>1, <1>4, CreateMoves DEF HoldInv, Posts
<1>6. d \in Held /\ d.pc = "create" /\ d.rec = r /\ d.key = Key(h)
  BY <1>3 DEF Held, Places, Key, Keys
<1>7. SignupFits(d, call'[Signup])
  BY <1>2, <1>5, <1>6 DEF SignupFits, Posts
<1>8. RecordFits(Key(h), r)
  BY <1>2 DEF RecordFits
<1>9. \A x \in DOMAIN records' : RecordFits(x, records'[x])
  BY <1>4, <1>8, StoresFit
<1>10. HoldInv' /\ work'[Signup] = d /\ Alone
  BY <1>4, <1>5, <1>6, <1>7, <1>9, SignupHolds
<1> QED BY <1>1, <1>2, <1>4, <1>5, <1>6, <1>10 DEF With

LEMMA SignupHearsDoes ==
    ASSUME HoldInv, SignupHears
    PROVE  /\ HoldInv' /\ Alone /\ At(Signup, "create") /\ Returned(Signup)
           /\ records' = records /\ call'[Signup] = NoCall
           /\ \/ With("relabel", Rec) /\ call[Signup].out = "taken"
              \/ /\ With("handover", Rec)
                 /\ work'[Signup].next.state = "creating" => call[Signup].out \notin {"taken", "refused"}
<1>1. Signup \in Callers /\ At(Signup, "create") /\ Returned(Signup) /\ records' = records
  BY Everybody DEF SignupHears
<1>2. /\ UNCHANGED <<instances, adrift, lost, pathVars, hub, stops, blurred>>
      /\ work[Signup] \in Held /\ work[Signup].pc = "create" /\ work[Signup].key = Key(Rec.host)
      /\ Rec.state = "creating" /\ Rec.attempt
  BY DEF SignupHears, At, HoldInv, SignupFits, Bare, Deciding, Rec
<1>3. call' = [call EXCEPT ![Signup] = NoCall]
  BY Zenon DEF SignupHears
<1>4. CallsFit' /\ call'[Signup] = NoCall /\ \A q \in Callers \ {Signup} : call'[q] = call[q]
  BY <1>1, <1>2, <1>3, CallMoves DEF HoldInv, CallsFit
<1>5. \A k \in DOMAIN records' : RecordFits(k, records'[k])
  BY <1>1 DEF HoldInv, RecordsFit
<1>6. CASE call[Signup].out = "taken" /\ Rec.relabels < MaxRelabels
  <2>1. PICK x \in Places : x = "relabel"
    BY DEF Places
  <2>2. Goes(Signup, [work[Signup] EXCEPT !.pc = x])
    BY <1>6, <2>1, Zenon DEF SignupHears, Rec
  <2>3. PICK d : /\ work' = [work EXCEPT ![Signup] = d] /\ d \in Held /\ d.pc = x
                 /\ d.key = work[Signup].key /\ d.rec = Rec
    BY <1>2, <2>2, OnwardsFits DEF Rec
  <2>4. SignupFits(d, call'[Signup])
    BY <1>2, <1>4, <1>6, <2>1, <2>3 DEF SignupFits, NoCall
  <2>5. HoldInv' /\ work'[Signup] = d /\ Alone
    BY <1>2, <1>4, <1>5, <2>1, <2>3, <2>4, SignupHolds
  <2> QED BY <1>1, <1>4, <1>6, <2>1, <2>3, <2>5 DEF With
<1>7. CASE ~(call[Signup].out = "taken" /\ Rec.relabels < MaxRelabels)
  <2>1. PICK o \in TenantRecord : o = Rec
    BY <1>2 DEF Held, Rec
  <2>2. PICK s : s = IF call[Signup].out \in {"taken", "refused"} THEN "failed" ELSE o.state
    OBVIOUS
  <2>3. s \in {"creating", "failed"} /\ (s = "creating" => call[Signup].out \notin {"taken", "refused"})
    BY <1>2, <2>1, <2>2
  <2>4. PICK n : n = [o EXCEPT !.attempt = FALSE, !.state = s]
    OBVIOUS
  <2>5. n \in TenantRecord /\ n.host = o.host /\ n.state = s /\ ~n.attempt
    BY <2>3, <2>4 DEF TenantRecord
  <2>6. PICK d : d = [pc |-> "handover", key |-> work[Signup].key, rec |-> o, next |-> n]
    OBVIOUS
  <2>7. d \in Deciding /\ d.pc = "handover" /\ d.key = work[Signup].key /\ d.rec = o /\ d.next = n
    BY <1>2, <2>5, <2>6 DEF Deciding, Held
  <2>8. work' = [work EXCEPT ![Signup] = d]
    BY <1>7, <2>1, <2>2, <2>4, <2>6, Zenon DEF SignupHears, Goes, Rec
  <2>9. SignupFits(d, call'[Signup])
    BY <1>2, <1>4, <2>1, <2>3, <2>5, <2>7 DEF SignupFits, NoCall
  <2>10. HoldInv' /\ work'[Signup] = d /\ Alone
    BY <1>2, <1>4, <1>5, <2>7, <2>8, <2>9, SignupHolds
  <2> QED BY <1>1, <1>4, <2>1, <2>3, <2>5, <2>7, <2>10 DEF With
<1> QED BY <1>6, <1>7

LEMMA HandOverDoes ==
    ASSUME HoldInv, HandOver
    PROVE  /\ HoldInv' /\ Alone /\ At(Signup, "handover") /\ At(Signup, "over")' /\ call' = call
           /\ \/ records' = records
              \/ \E k \in Keys, r \in TenantRecord :
                    /\ k \in DOMAIN records /\ records[k] = Rec /\ records[k].state = "creating"
                    /\ r = work[Signup].next /\ r.host = Rec.host /\ r.state \in {"creating", "failed"} /\ ~r.attempt
                    /\ records' = Stored(k, r)
<1>1. Signup \in Callers /\ At(Signup, "handover")
  BY Everybody DEF HandOver
<1>2. /\ UNCHANGED <<instances, adrift, lost, call, pathVars, hub, stops, blurred>>
      /\ work[Signup] \in Deciding /\ work[Signup].key = Key(Rec.host)
      /\ Rec.state = "creating" /\ work[Signup].next.host = Rec.host
      /\ work[Signup].next.state \in {"creating", "failed"} /\ ~work[Signup].next.attempt
      /\ call[Signup] = NoCall
  BY DEF HandOver, createVars, At, HoldInv, SignupFits, Bare, Held, Rec
<1>3. CallsFit'
  BY <1>2 DEF HoldInv, CallsFit, CallFits
<1>4. PICK d : d = [pc |-> "over"]
  OBVIOUS
<1>5. work' = [work EXCEPT ![Signup] = d] /\ SignupFits(d, call'[Signup]) /\ d.pc = "over"
  BY <1>2, <1>4 DEF HandOver, Goes, SignupFits, Bare, NoCall
<1>6. CASE ~Current(Signup)
  <2>1. records' = records
    BY <1>6 DEF HandOver
  <2>2. HoldInv' /\ work'[Signup] = d /\ Alone
    BY <1>2, <1>3, <1>5, <2>1, SignupHolds DEF HoldInv, RecordsFit
  <2> QED BY <1>1, <1>2, <1>5, <2>1, <2>2 DEF At
<1>7. CASE Current(Signup)
  <2>1. PICK k \in Keys, r \in TenantRecord : k = work[Signup].key /\ r = work[Signup].next
    BY <1>2 DEF Deciding
  <2>2. records' = Stored(k, r)
    BY <1>7, <2>1, Zenon DEF HandOver
  <2>3. RecordFits(k, r) /\ k \in DOMAIN records /\ records[k] = Rec
    BY <1>1, <1>2, <1>7, <2>1, CurrentFits DEF RecordFits, Rec
  <2>4. \A x \in DOMAIN records' : RecordFits(x, records'[x])
    BY <2>2, <2>3, StoresFit
  <2>5. HoldInv' /\ work'[Signup] = d /\ Alone
    BY <1>2, <1>3, <1>5, <2>4, SignupHolds
  <2> QED BY <1>1, <1>2, <1>5, <2>1, <2>2, <2>3, <2>5 DEF At
<1> QED BY <1>6, <1>7

\* The record of another label.
LEMMA MovedIs ==
    ASSUME NEW r \in TenantRecord, r.relabels < MaxRelabels, r.attempt, NEW h \in Hosts
    PROVE  \E m \in TenantRecord : /\ m = [r EXCEPT !.host = h, !.relabels = @ + 1]
                                  /\ m.host = h /\ m.state = r.state /\ m.attempt
<1>1. PICK n \in 0..MaxRelabels : n = r.relabels + 1
  BY TenantsAssumption DEF TenantRecord
<1>2. PICK m : m = [r EXCEPT !.host = h, !.relabels = n]
  OBVIOUS
<1>3. m \in TenantRecord /\ m.host = h /\ m.state = r.state /\ m.attempt
  BY <1>2 DEF TenantRecord
<1>4. m = [r EXCEPT !.host = h, !.relabels = @ + 1]
  BY <1>1, <1>2, Zenon
<1> QED BY <1>3, <1>4

LEMMA GoneIs ==
    ASSUME NEW r \in TenantRecord, NEW h \in Hosts
    PROVE  /\ Gone(r, h) \in TenantRecord /\ Gone(r, h).host = r.host /\ Gone(r, h).state = "replaced"
           /\ ~Gone(r, h).attempt /\ Gone(r, h).replacedBy = h /\ Gone(r, h).relabels = r.relabels
  BY DEF Gone, TenantRecord

LEMMA RelabelDoes ==
    ASSUME HoldInv, NEW h \in Hosts, Relabel(h),
           (Current(Signup) /\ ~hub) => Taken(Rec.host)
    PROVE  /\ HoldInv' /\ Alone /\ At(Signup, "relabel") /\ call[Signup] = NoCall
           /\ \A k \in DOMAIN records : records[k].host # h /\ records[k].replacedBy # h
           /\ \/ records' = records /\ At(Signup, "over")' /\ call' = call
              \/ /\ Current(Signup) /\ work[Signup].key = Key(Rec.host)
                 /\ Rec.state = "creating" /\ Rec.attempt
                 /\ \/ /\ hub /\ Posts(h)
                       /\ \E r \in TenantRecord :
                             /\ r.host = h /\ r.state = "creating" /\ r.attempt
                             /\ records' = Stored(Slug, r) /\ With("create", r)
                    \/ /\ ~hub /\ call' = call
                       /\ \E r \in TenantRecord :
                             r.host = h /\ r.state = "creating" /\ r.attempt /\ With("again", r)
                       /\ \E r \in TenantRecord : /\ r.host = Rec.host /\ r.state = "replaced" /\ r.replacedBy = h
                                                  /\ records' = Stored(work[Signup].key, r)
<1>1. /\ Signup \in Callers /\ At(Signup, "relabel")
      /\ \A k \in DOMAIN records : records[k].host # h /\ records[k].replacedBy # h
  BY Everybody DEF Relabel
<1>2. /\ UNCHANGED <<instances, adrift, lost, pathVars, hub, stops, blurred>>
      /\ work[Signup] \in Held /\ work[Signup].key = Key(Rec.host)
      /\ Rec.state = "creating" /\ Rec.attempt /\ Rec.relabels < MaxRelabels
      /\ call[Signup] = NoCall
  BY DEF Relabel, At, HoldInv, SignupFits, Bare, Deciding, Rec
<1>3. PICK o \in TenantRecord : o = Rec
  BY <1>2 DEF Held, Rec
<1>4. PICK m \in TenantRecord : /\ m = [o EXCEPT !.host = h, !.relabels = @ + 1]
                                /\ m.host = h /\ m.state = "creating" /\ m.attempt
  <2>1. o.relabels < MaxRelabels /\ o.attempt /\ o.state = "creating"
    BY <1>2, <1>3
  <2>2. PICK m \in TenantRecord : /\ m = [o EXCEPT !.host = h, !.relabels = @ + 1]
                                  /\ m.host = h /\ m.state = o.state /\ m.attempt
    BY <2>1, MovedIs, Zenon
  <2> QED BY <2>1, <2>2, Zenon
<1>5. CASE ~Current(Signup)
  <2>1. PICK d : d = [pc |-> "over"]
    OBVIOUS
  <2>2. records' = records /\ call' = call /\ Goes(Signup, d)
    BY <1>5, <2>1, Zenon DEF Relabel, Yields
  <2>3. work' = [work EXCEPT ![Signup] = d] /\ SignupFits(d, call'[Signup]) /\ d.pc = "over"
    BY <1>2, <2>1, <2>2 DEF Goes, SignupFits, Bare, NoCall
  <2>4. CallsFit'
    BY <1>2, <2>2 DEF HoldInv, CallsFit, CallFits
  <2>5. HoldInv' /\ work'[Signup] = d /\ Alone
    BY <1>2, <2>2, <2>3, <2>4, SignupHolds DEF HoldInv, RecordsFit
  <2> QED BY <1>1, <1>2, <2>2, <2>3, <2>5 DEF At
<1>6. CASE Current(Signup) /\ hub
  <2>1. PICK d : d = [pc |-> "create", key |-> Slug, rec |-> m]
    OBVIOUS
  <2>2. records' = Stored(Slug, m) /\ work' = [work EXCEPT ![Signup] = d] /\ call' = Create(Signup, h, FALSE)
    BY <1>3, <1>4, <1>6, <2>1, Zenon DEF Relabel, Yields, Goes, Rec
  <2>3. CallsFit' /\ Posts(h) /\ \A q \in Callers \ {Signup} : call'[q] = call[q]
    BY <1>1, <1>2, <2>2, CreateMoves DEF HoldInv, Posts
  <2>4. d \in Held /\ d.pc = "create" /\ d.rec = m /\ d.key = Slug
    BY <2>1 DEF Held, Places, Keys
  <2>5. SignupFits(d, call'[Signup])
    BY <1>4, <1>6, <2>3, <2>4 DEF SignupFits, Posts, Key
  <2>6. RecordFits(Slug, m)
    BY <1>4, <1>6 DEF RecordFits, Key
  <2>7. \A x \in DOMAIN records' : RecordFits(x, records'[x])
    BY <2>2, <2>6, StoresFit
  <2>8. HoldInv' /\ work'[Signup] = d /\ Alone
    BY <1>2, <2>2, <2>3, <2>4, <2>5, <2>7, SignupHolds
  <2> QED BY <1>1, <1>2, <1>4, <1>6, <2>2, <2>3, <2>4, <2>8 DEF With
<1>7. CASE Current(Signup) /\ ~hub
  <2>1. PICK k \in Hosts : k = work[Signup].key /\ k = o.host
    BY <1>2, <1>3, <1>7 DEF Key, TenantRecord
  <2>2. PICK d : d = [pc |-> "again", key |-> k, rec |-> m]
    OBVIOUS
  <2>3. PICK r \in TenantRecord : /\ r = Gone(o, h) /\ r.host = o.host /\ r.state = "replaced"
                                  /\ ~r.attempt /\ r.replacedBy = h /\ r.relabels = o.relabels
    BY GoneIs
  <2>4. records' = Stored(k, r) /\ work' = [work EXCEPT ![Signup] = d] /\ call' = call
    BY <1>3, <1>4, <1>7, <2>1, <2>2, <2>3, Zenon DEF Relabel, Yields, Goes, Rec
  <2>5. CallsFit'
    BY <1>2, <2>4 DEF HoldInv, CallsFit, CallFits
  <2>6. d \in Held /\ d.pc = "again" /\ d.rec = m /\ d.key = k /\ Taken(k)
    BY <1>3, <1>7, <2>1, <2>2 DEF Held, Places, Keys
  <2>7. SignupFits(d, call'[Signup])
    BY <1>2, <1>4, <1>7, <2>4, <2>6 DEF SignupFits, NoCall
  <2>8. RecordFits(k, r)
    BY <1>2, <1>3, <1>7, <2>1, <2>3, <2>6 DEF RecordFits, Key, LeftBehind
  <2>9. \A x \in DOMAIN records' : RecordFits(x, records'[x])
    BY <2>4, <2>8, StoresFit
  <2>10. HoldInv' /\ work'[Signup] = d /\ Alone
    BY <1>2, <2>4, <2>5, <2>6, <2>7, <2>9, SignupHolds
  <2> QED BY <1>1, <1>2, <1>3, <1>4, <1>7, <2>1, <2>3, <2>4, <2>6, <2>10, ZenonT(30) DEF With
<1> QED BY <1>5, <1>6, <1>7

LEMMA RelabelCreatesDoes ==
    ASSUME HoldInv, RelabelCreates
    PROVE  /\ HoldInv' /\ Alone /\ At(Signup, "again") /\ call' = call /\ call[Signup] = NoCall /\ ~hub
           /\ \/ records' = records /\ At(Signup, "over")'
              \/ /\ Rec \in TenantRecord /\ Rec.host \notin DOMAIN records /\ Rec.state = "creating" /\ Rec.attempt
                 /\ records' = Stored(Rec.host, Rec) /\ With("remove", Rec)
<1>1. Signup \in Callers /\ At(Signup, "again")
  BY Everybody DEF RelabelCreates
<1>2. /\ UNCHANGED <<instances, adrift, lost, call, pathVars, hub, stops, blurred>>
      /\ work[Signup] \in Held /\ ~hub /\ work[Signup].key \in Hosts /\ Taken(work[Signup].key)
      /\ Rec.state = "creating" /\ Rec.attempt /\ call[Signup] = NoCall
  BY DEF RelabelCreates, createVars, At, HoldInv, SignupFits, Bare, Deciding, Rec
<1>3. CallsFit'
  BY <1>2 DEF HoldInv, CallsFit, CallFits
<1>4. PICK o \in TenantRecord : o = Rec
  BY <1>2 DEF Held, Rec
<1>5. CASE o.host \in DOMAIN records
  <2>1. PICK d : d = [pc |-> "over"]
    OBVIOUS
  <2>2. records' = records /\ Goes(Signup, d)
    BY <1>4, <1>5, <2>1, Zenon DEF RelabelCreates, Rec
  <2>3. work' = [work EXCEPT ![Signup] = d] /\ SignupFits(d, call'[Signup]) /\ d.pc = "over"
    BY <1>2, <2>1, <2>2 DEF Goes, SignupFits, Bare, NoCall
  <2>4. HoldInv' /\ work'[Signup] = d /\ Alone
    BY <1>2, <1>3, <2>2, <2>3, SignupHolds DEF HoldInv, RecordsFit
  <2> QED BY <1>1, <1>2, <2>2, <2>3, <2>4 DEF At
<1>6. CASE o.host \notin DOMAIN records
  <2>1. PICK x \in Places : x = "remove"
    BY DEF Places
  <2>2. records' = Stored(o.host, o) /\ Goes(Signup, [work[Signup] EXCEPT !.pc = x])
    BY <1>4, <1>6, <2>1, Zenon DEF RelabelCreates, Rec
  <2>3. PICK d : /\ work' = [work EXCEPT ![Signup] = d] /\ d \in Held /\ d.pc = x
                 /\ d.key = work[Signup].key /\ d.rec = Rec
    BY <1>2, <2>2, OnwardsFits DEF Rec
  <2>4. SignupFits(d, call'[Signup])
    BY <1>2, <2>1, <2>3 DEF SignupFits, NoCall
  <2>5. RecordFits(o.host, o)
    BY <1>2, <1>4 DEF RecordFits, Key
  <2>6. \A x1 \in DOMAIN records' : RecordFits(x1, records'[x1])
    BY <2>2, <2>5, StoresFit
  <2>7. HoldInv' /\ work'[Signup] = d /\ Alone
    BY <1>2, <1>3, <2>1, <2>3, <2>4, <2>6, SignupHolds
  <2> QED BY <1>1, <1>2, <1>4, <1>6, <2>1, <2>2, <2>3, <2>7 DEF With
<1> QED BY <1>5, <1>6

LEMMA RelabelDeletesDoes ==
    ASSUME HoldInv, RelabelDeletes
    PROVE  /\ HoldInv' /\ Alone /\ At(Signup, "remove") /\ call[Signup] = NoCall /\ ~hub
           /\ \E h \in Hosts : Taken(h) /\ records' = Without(h)
           /\ Rec \in TenantRecord /\ With("create", Rec) /\ Posts(Rec.host)
<1>1. Signup \in Callers /\ At(Signup, "remove")
  BY Everybody DEF RelabelDeletes
<1>2. /\ UNCHANGED <<instances, adrift, lost, pathVars, hub, stops, blurred>>
      /\ work[Signup] \in Held /\ ~hub /\ work[Signup].key \in Hosts /\ Taken(work[Signup].key)
      /\ Rec.state = "creating" /\ Rec.attempt /\ call[Signup] = NoCall
  BY DEF RelabelDeletes, At, HoldInv, SignupFits, Bare, Deciding, Rec
<1>3. PICK o \in TenantRecord : o = Rec
  BY <1>2 DEF Held, Rec
<1>4. PICK d : d = [pc |-> "create", key |-> o.host, rec |-> o]
  OBVIOUS
<1>5. /\ records' = Without(work[Signup].key) /\ work' = [work EXCEPT ![Signup] = d]
      /\ call' = Create(Signup, o.host, FALSE)
  BY <1>3, <1>4, Zenon DEF RelabelDeletes, Goes, Rec
<1>6. CallsFit' /\ Posts(o.host) /\ \A q \in Callers \ {Signup} : call'[q] = call[q]
  BY <1>1, <1>2, <1>5, CreateMoves, ZenonT(30) DEF HoldInv, Posts, TenantRecord
<1>7. d \in Held /\ d.pc = "create" /\ d.rec = o /\ d.key = o.host
  BY <1>4 DEF Held, Places, Keys, TenantRecord
<1>8. SignupFits(d, call'[Signup])
  BY <1>2, <1>3, <1>6, <1>7 DEF SignupFits, Posts, Key
<1>9. \A x \in DOMAIN records' : RecordFits(x, records'[x])
  BY <1>5, WithoutIs DEF HoldInv, RecordsFit
<1>10. HoldInv' /\ work'[Signup] = d /\ Alone
  BY <1>2, <1>5, <1>6, <1>7, <1>8, <1>9, SignupHolds
<1> QED BY <1>1, <1>2, <1>3, <1>5, <1>6, <1>7, <1>10 DEF With

-----------------------------------------------------------------------------
(* Calls, requests that end and the platform *)

LEMMA TouchesLast ==
    ASSUME NEW p, Touches(p), hub' = hub
    PROVE  Lasting
  BY DEF Touches, Lasting

LEMMA InCreateDoes ==
    ASSUME HoldInv, NEW p \in Callers, InCreate(p)
    PROVE  /\ HoldInv' /\ Touches(p) /\ call[p] \in Calling /\ Learns(p)
           /\ \A q \in Callers \ {p} : call'[q] = call[q]
           /\ UNCHANGED <<pathVars, hub, records, work, stops>>
           /\ (blurred \/ lost' # lost) => blurred'
<1>1. /\ CallsFit' /\ Touches(p) /\ call[p] \in Calling /\ Learns(p)
      /\ \A q \in Callers \ {p} : call'[q] = call[q]
  BY CreateDoes DEF InCreate, HoldInv
<1>2. UNCHANGED <<pathVars, hub, records, work, stops>> /\ ((blurred \/ lost' # lost) => blurred')
  BY DEF InCreate
<1>3. ~At(Signup, "idle")
  BY <1>1 DEF HoldInv, Untried, NoCall, Calling
<1>4. SignupFits(work[Signup], call'[Signup])
  <2>1. CASE p # Signup
    BY <1>1, <2>1, Everybody DEF HoldInv
  <2>2. CASE p = Signup
    <3>1. PICK w, c, d : w = work[Signup] /\ c = call[Signup] /\ d = call'[Signup]
      OBVIOUS
    <3>2. SignupFits(w, c) /\ c \in Calling
      BY <1>1, <2>2, <3>1 DEF HoldInv
    <3>3. c # NoCall /\ c.pc \in {"get", "post", "conflict"}
      BY <3>2 DEF Calling, NoCall
    <3>7. /\ w \in Held /\ w.pc = "create" /\ w.key = Key(w.rec.host)
          /\ w.rec.state = "creating" /\ w.rec.attempt /\ w.rec.host = c.host /\ ~c.resume
      BY <3>2, <3>3 DEF SignupFits, Deciding
    <3>4. \/ d \in Returning
          \/ d \in Calling /\ d.host = c.host /\ d.resume = c.resume /\ (d.pc = "get" => d.unknown)
      BY <1>1, <2>2, <3>1 DEF Learns
    <3>5. CASE d \in Returning
      <4>1. d.pc = "returned"
        BY <3>5 DEF Returning
      <4> QED BY <3>1, <3>7, <4>1 DEF SignupFits
    <3>6. CASE d \in Calling /\ d.host = c.host /\ d.resume = c.resume /\ (d.pc = "get" => d.unknown)
      BY <3>1, <3>6, <3>7 DEF SignupFits
    <3> QED BY <3>1, <3>4, <3>5, <3>6
  <2> QED BY <2>1, <2>2
<1>5. HoldInv'
  BY <1>1, <1>2, <1>3, <1>4, TouchesLast, HoldsStill
<1> QED BY <1>1, <1>2, <1>5

LEMMA StopsDoes ==
    ASSUME HoldInv, NEW p \in Callers, Stops(p)
    PROVE  /\ HoldInv' /\ Touches(p) /\ call'[p] = NoCall /\ Working(p)
           /\ work'[p].pc = (IF p = Signup THEN "over" ELSE "idle")
           /\ \A q \in Callers \ {p} : call'[q] = call[q] /\ work'[q] = work[q]
           /\ UNCHANGED <<hub, records, blurred, lost>>
<1>1. Working(p) /\ UNCHANGED <<hub, records, blurred, lost>> /\ call' = [call EXCEPT ![p] = NoCall]
  BY Zenon DEF Stops
<1>2. ~At(Signup, "idle")
  BY <1>1, Everybody, SignupBegan DEF Working
<1>3. /\ instances' \in [Hosts -> {"none", "ours", "other"}] /\ adrift' \subseteq Hosts
      /\ Touches(p)
  <2>1. CASE call[p].pc = "post"
    <3>1. Strays(call[p].host)
      BY <2>1, Zenon DEF Stops
    <3>2. CallsFit /\ call[p] \in Calling
      BY <2>1 DEF HoldInv, CallsFit, CallFits, Calling, NoCall
    <3> QED BY <3>1, <3>2, StraysTouch
  <2>2. CASE call[p].pc # "post"
    <3>1. UNCHANGED <<instances, adrift>>
      BY <2>2 DEF Stops
    <3> QED BY <3>1 DEF HoldInv, CallsFit, Touches
  <2> QED BY <2>1, <2>2
<1>4. CallsFit' /\ call'[p] = NoCall /\ \A q \in Callers \ {p} : call'[q] = call[q]
  BY <1>1, <1>3, CallMoves DEF HoldInv, CallsFit
<1>5. PICK d : d = IF p = Signup THEN [pc |-> "over"] ELSE Idle
  OBVIOUS
<1>6. work' = [work EXCEPT ![p] = d] /\ d.pc = (IF p = Signup THEN "over" ELSE "idle")
  BY <1>5 DEF Stops, Goes, Idle
<1>7. \A k \in DOMAIN records' : RecordFits(k, records'[k])
  BY <1>1 DEF HoldInv, RecordsFit
<1>8. CASE p = Signup
  <2>1. SignupFits(d, call'[Signup])
    BY <1>4, <1>5, <1>8 DEF SignupFits, Bare, NoCall
  <2>2. HoldInv' /\ work'[p] = d /\ \A q \in Callers \ {p} : work'[q] = work[q]
    BY <1>1, <1>3, <1>4, <1>6, <1>7, <1>8, <2>1, TouchesLast, HoldsOn, Everybody, ZenonT(30)
  <2> QED BY <1>1, <1>3, <1>4, <1>6, <2>2
<1>9. CASE p # Signup
  <2>1. p \in Refreshers /\ RefreshFits(d)
    BY <1>5, <1>9, IdleFits, Everybody
  <2>2. HoldInv' /\ work'[p] = d /\ \A q \in Callers \ {p} : work'[q] = work[q]
    BY <1>1, <1>2, <1>3, <1>4, <1>6, <1>7, <2>1, TouchesLast, RefreshHolds
  <2> QED BY <1>1, <1>3, <1>4, <1>6, <2>2
<1> QED BY <1>8, <1>9

LEMMA PlatformDoes ==
    ASSUME HoldInv, Platform
    PROVE  /\ HoldInv' /\ Lasting /\ UNCHANGED <<call, lost, pathVars, tenantVars>>
           /\ \A h \in Hosts : \/ instances'[h] = instances[h]
                               \/ instances'[h] = "ours" /\ h \in adrift /\ instances[h] = "none"
                               \/ instances'[h] = "other"
           /\ adrift' \subseteq adrift
<1>1. UNCHANGED <<call, lost, pathVars, tenantVars>>
  BY DEF Platform, Lands, OtherCreates
<1>2. PICK h \in Hosts : Lands(h) \/ OtherCreates(h)
  BY DEF Platform
<1>3. instances \in [Hosts -> {"none", "ours", "other"}] /\ adrift \subseteq Hosts
  BY DEF HoldInv, CallsFit
<1>4. CASE Lands(h)
  <2>1. /\ instances' \in [Hosts -> {"none", "ours", "other"}]
        /\ \A g \in Hosts : g # h \/ instances[g] # "none" => instances'[g] = instances[g]
        /\ instances[h] = "none" => instances'[h] = "ours"
        /\ h \in adrift /\ adrift' = adrift \ {h}
    BY <1>4, WrittenIs DEF Lands, HoldInv
  <2>2. Lasting
    BY <1>1, <2>1 DEF Lasting, tenantVars
  <2>3. CallsFit'
    BY <1>1, <1>3, <2>1 DEF HoldInv, CallsFit, CallFits
  <2>4. ~At(Signup, "idle")
    BY <2>1 DEF HoldInv, Untried
  <2>5. SignupFits(work[Signup], call'[Signup])
    BY <1>1 DEF HoldInv
  <2>6. HoldInv'
    BY <1>1, <2>2, <2>3, <2>4, <2>5, HoldsStill DEF tenantVars
  <2> QED BY <1>1, <2>1, <2>2, <2>6
<1>5. CASE OtherCreates(h)
  <2>1. /\ instances' \in [Hosts -> {"none", "ours", "other"}]
        /\ \A g \in Hosts : g # h => instances'[g] = instances[g]
        /\ instances'[h] = "other" /\ instances[h] = "none" /\ adrift' = adrift
    BY <1>3, <1>5 DEF OtherCreates
  <2>2. Lasting
    BY <1>1, <2>1 DEF Lasting, tenantVars
  <2>3. CallsFit'
    BY <1>1, <1>3, <2>1 DEF HoldInv, CallsFit, CallFits
  <2>4. At(Signup, "idle") => Untried'
    BY <1>1, <2>1 DEF HoldInv, Untried, At, tenantVars
  <2>5. SignupFits(work[Signup], call'[Signup])
    BY <1>1 DEF HoldInv
  <2>6. HoldInv'
    BY <1>1, <2>2, <2>3, <2>4, <2>5, HoldsStill DEF tenantVars
  <2> QED BY <1>1, <2>1, <2>2, <2>6
<1> QED BY <1>2, <1>4, <1>5

\* Publishes touch nothing of the tenant.
LEMMA Undisturbed ==
    ASSUME HoldInv, UNCHANGED <<createVars, tenantVars>>
    PROVE  HoldInv'
<1>1. CallsFit' /\ Lasting
  BY DEF HoldInv, CallsFit, CallFits, createVars, tenantVars, Lasting
<1>2. UNCHANGED <<work, records>> /\ SignupFits(work[Signup], call'[Signup])
  BY DEF HoldInv, createVars, tenantVars
<1>3. At(Signup, "idle") => Untried'
  BY DEF HoldInv, Untried, At, createVars, tenantVars
<1> QED BY <1>1, <1>2, <1>3, HoldsStill

-----------------------------------------------------------------------------
(* One instance *)

LEMMA ActiveHas ==
    ASSUME HoldInv, Active
    PROVE  Rec \in TenantRecord /\ Rec.host \in Hosts /\ Rec.state = "creating" /\ Rec.attempt
  BY DEF HoldInv, Active, Rec, SignupFits, Bare, Held, Deciding, TenantRecord

\* Nobody's host becomes anybody's.
LEMMA OneGoesOn ==
    ASSUME OneInv, \A h \in Hosts : Mine(h)' => Mine(h),
           \A h \in Hosts : Reached(h)' => Taken(h)' \/ Named(h)',
           Active' => Active /\ Rec' = Rec,
           At(Signup, "remove")' => Taken(Rec.host)' \/ Named(Rec.host)',
           SoleKnows'
    PROVE  OneInv'
  BY DEF OneInv

\* From now on it is x.
LEMMA OneMoves ==
    ASSUME NEW x, \A h \in Hosts : Mine(h)' => h = x,
           \A h \in Hosts : Reached(h)' => Taken(h)' \/ Named(h)',
           Active' => Rec'.host = x,
           At(Signup, "remove")' => Taken(Rec.host)' \/ Named(Rec.host)',
           SoleKnows'
    PROVE  OneInv'
  BY DEF OneInv

LEMMA RefreshNames ==
    ASSUME HoldInv, NEW p \in Refreshers, Tends(p), NEW h \in Hosts
    PROVE  /\ Taken(h)' = Taken(h)
           /\ (Named(h) /\ ~Taken(h)) => Named(h)'
           /\ Named(h)' => Named(h) \/ Due(h)
           /\ Due(h)' => Due(h)
           /\ Reached(h)' => Reached(h) \/ Named(h)'
<1>1. Taken(h)' = Taken(h) /\ p \in Callers /\ p # Signup
  BY Everybody DEF Tends, Taken
<1>2. \A k \in DOMAIN records : RecordFits(k, records[k])
  BY DEF HoldInv, RecordsFit
<1>3. (\E k \in DOMAIN records' : records'[k].state = "replaced" /\ records'[k].replacedBy = h)
        => \E k \in DOMAIN records : records[k].state = "replaced" /\ records[k].replacedBy = h
  <2>1. CASE records' = records
    BY <2>1
  <2>2. ASSUME NEW k, NEW r, records' = Stored(k, r), r.state # "replaced"
        PROVE  (\E x \in DOMAIN records' : records'[x].state = "replaced" /\ records'[x].replacedBy = h)
                 => \E x \in DOMAIN records : records[x].state = "replaced" /\ records[x].replacedBy = h
    <3>1. /\ DOMAIN records' = DOMAIN records \cup {k} /\ records'[k] = r
          /\ \A x \in DOMAIN records \ {k} : records'[x] = records[x]
      BY <2>2, StoredIs
    <3>2. ASSUME NEW x \in DOMAIN records', records'[x].state = "replaced"
          PROVE  x \in DOMAIN records /\ records'[x] = records[x]
      BY <2>2, <3>1, <3>2
    <3> QED BY <3>2
  <2>3. ASSUME NEW g, records' = Without(g)
        PROVE  (\E x \in DOMAIN records' : records'[x].state = "replaced" /\ records'[x].replacedBy = h)
                 => \E x \in DOMAIN records : records[x].state = "replaced" /\ records[x].replacedBy = h
    BY <2>3, WithoutIs
  <2> QED BY <2>1, <2>2, <2>3 DEF Tends, Alters, Advances
<1>4. (Named(h) /\ ~Taken(h)) => Named(h)'
  <2>1. CASE records' = records
    BY <2>1 DEF Named
  <2>2. ASSUME NEW k, NEW r, records' = Stored(k, r), r.state # "replaced",
               k \in DOMAIN records => r.host = records[k].host
        PROVE  Named(h) => Named(h)'
    <3>1. /\ DOMAIN records' = DOMAIN records \cup {k} /\ records'[k] = r
          /\ \A x \in DOMAIN records \ {k} : records'[x] = records[x]
      BY <2>2, StoredIs
    <3>2. ASSUME NEW x \in DOMAIN records, records[x].host = h, records[x].state # "replaced"
          PROVE  x \in DOMAIN records' /\ records'[x].host = h /\ records'[x].state # "replaced"
      BY <2>2, <3>1, <3>2
    <3> QED BY <3>2 DEF Named
  <2>3. ASSUME NEW g \in Hosts, ~hub, Taken(g), records' = Without(g)
        PROVE  (Named(h) /\ ~Taken(h)) => Named(h)'
    <3>1. DOMAIN records' = DOMAIN records \ {g} /\ \A x \in DOMAIN records' : records'[x] = records[x]
      BY <2>3, WithoutIs
    <3>2. ASSUME NEW x \in DOMAIN records, records[x].host = h, records[x].state # "replaced", ~Taken(h)
          PROVE  x \in DOMAIN records' /\ records'[x].host = h /\ records'[x].state # "replaced"
      <4>1. x = h
        BY <1>2, <2>3, <3>2 DEF RecordFits, Key
      <4> QED BY <2>3, <3>1, <3>2, <4>1
    <3> QED BY <3>2 DEF Named
  <2> QED BY <2>1, <2>2, <2>3 DEF Tends, Alters, Advances
<1>5. Named(h)' => Named(h) \/ Due(h)
  <2>1. CASE records' = records
    BY <2>1 DEF Named
  <2>2. ASSUME NEW k \in Keys, NEW r \in TenantRecord, Advances(k, r), records' = Stored(k, r)
        PROVE  Named(h)' => Named(h)
    BY <2>2, StoredIs DEF Named, Advances
  <2>3. ASSUME NEW g \in Hosts, NEW r \in TenantRecord, At(p, "finish"), work[p].rec.replacedBy = g, r.host = g,
               records' = Stored(g, r)
        PROVE  Named(h)' => Named(h) \/ Due(h)
    <3>1. /\ DOMAIN records' = DOMAIN records \cup {g} /\ records'[g] = r
          /\ \A x \in DOMAIN records \ {g} : records'[x] = records[x]
      BY <2>3, StoredIs
    <3>2. ASSUME NEW x \in DOMAIN records', records'[x].host = h, records'[x].state # "replaced", x # g
          PROVE  Named(h)
      BY <3>1, <3>2 DEF Named
    <3>3. CASE g = h
      BY <2>3, <3>3 DEF Due
    <3>4. CASE g # h
      BY <2>3, <3>1, <3>2, <3>4 DEF Named
    <3> QED BY <3>3, <3>4
  <2>4. ASSUME NEW g \in Hosts, records' = Without(g)
        PROVE  Named(h)' => Named(h)
    BY <2>4, WithoutIs DEF Named
  <2> QED BY <2>1, <2>2, <2>3, <2>4 DEF Tends, Alters
<1>6. Due(h)' => Due(h)
  <2>1. ASSUME NEW q \in Refreshers, work'[q].pc = "finish", work'[q].rec.replacedBy = h
        PROVE  Due(h)
    <3>1. CASE q = p
      BY <2>1, <3>1 DEF Tends, Finishes, Due
    <3>2. CASE q # p
      BY <2>1, <3>2, Everybody DEF Tends, Due, At
    <3> QED BY <3>1, <3>2
  <2> QED BY <1>3, <2>1 DEF Due, At
<1>7. Reached(h)' => Reached(h) \/ Named(h)'
  <2>1. ASSUME NEW q \in Callers, Calls(q, h)' PROVE Reached(h) \/ Named(h)'
    <3>1. CASE q # p
      BY <2>1, <3>1 DEF Tends, Calls, Reached
    <3>2. CASE q = p
      BY <2>1, <3>2 DEF Tends, Asks, Calls, Reached, Named, NoCall
    <3> QED BY <3>1, <3>2
  <2> QED BY <2>1 DEF Reached, Tends
<1> QED BY <1>1, <1>4, <1>5, <1>6, <1>7

LEMMA RefreshKeepsOne ==
    ASSUME HoldInv, HoldInv', OneInv, NEW p \in Refreshers, Tends(p)
    PROVE  OneInv'
<1>1. p \in Callers /\ p # Signup /\ work'[Signup] = work[Signup] /\ call'[Signup] = call[Signup] /\ hub' = hub
  BY Everybody DEF Tends
<1>2. ASSUME NEW h \in Hosts PROVE Mine(h)' => Mine(h)
  BY <1>2, RefreshNames DEF Mine
<1>3. ASSUME NEW h \in Hosts PROVE Reached(h)' => Taken(h)' \/ Named(h)'
  BY <1>3, RefreshNames DEF OneInv
<1>4. (Active' => Active /\ Rec' = Rec) /\ (At(Signup, "remove")' => At(Signup, "remove") /\ Rec' = Rec)
  BY <1>1 DEF Active, Rec, At
<1>5. At(Signup, "remove")' => Taken(Rec.host)' \/ Named(Rec.host)'
  <2>1. SUFFICES ASSUME At(Signup, "remove")' PROVE Taken(Rec.host)' \/ Named(Rec.host)'
    OBVIOUS
  <2>2. Active
    BY <1>4, <2>1 DEF Active, At
  <2>3. PICK h \in Hosts : h = Rec.host /\ h = Rec'.host
    BY <1>4, <2>1, <2>2, ActiveHas
  <2>4. Taken(h) \/ Named(h)
    BY <1>4, <2>1, <2>3 DEF OneInv
  <2>5. Taken(h)' \/ Named(h)'
    BY <2>4, RefreshNames
  <2> QED BY <2>3, <2>5
<1>6. SoleKnows'
  <2>1. SUFFICES ASSUME Active', Sole', ~At(Signup, "handover")', ~Taken(Rec.host)'
                 PROVE  /\ \A q \in Refreshers : ~Calls(q, Rec.host)'
                        /\ ~At(Signup, "relabel")'
                        /\ At(Signup, "remove")' => instances'[Rec'.host] # "ours" /\ Rec'.host \notin adrift'
                        /\ (call'[Signup].pc \in {"post", "conflict"} /\ ~call'[Signup].unknown) =>
                               instances'[Rec'.host] # "ours" /\ Rec'.host \notin adrift'
                        /\ call'[Signup].pc = "returned" => call'[Signup].out # "taken"
    BY DEF SoleKnows
  <2>2. Active /\ Rec' = Rec /\ Rec.host \in Hosts /\ Rec.attempt
    BY <1>4, <2>1, ActiveHas
  <2>3. PICK h \in Hosts : h = Rec.host /\ h = Rec'.host
    BY <2>2
  <2>4. PICK k : k = Key(h) /\ k \in DOMAIN records' /\ records'[k] = Rec
    BY <1>1, <2>1, <2>2, <2>3 DEF Sole, Key
  <2>5. Sole
    <3>1. CASE records' = records
      BY <2>3, <2>4, <3>1 DEF Sole
    <3>2. ASSUME NEW x, NEW r, records' = Stored(x, r), ~r.attempt PROVE Sole
      <4>1. /\ DOMAIN records' = DOMAIN records \cup {x} /\ records'[x] = r
            /\ \A y \in DOMAIN records \ {x} : records'[y] = records[y]
        BY <3>2, StoredIs
      <4>2. k # x
        BY <2>2, <2>4, <3>2, <4>1
      <4> QED BY <2>3, <2>4, <4>1, <4>2 DEF Sole
    <3>3. ASSUME NEW g, records' = Without(g) PROVE Sole
      BY <2>3, <2>4, <3>3, WithoutIs DEF Sole
    <3> QED BY <3>1, <3>2, <3>3 DEF Tends, Alters, Advances
  <2>6. ~At(Signup, "handover") /\ ~Taken(Rec.host)
    BY <1>1, <2>1, <2>3, RefreshNames DEF At
  <2>7. ASSUME NEW q \in Refreshers PROVE ~Calls(q, Rec.host)'
    <3>1. ~Calls(q, Rec.host)
      BY <2>2, <2>5, <2>6 DEF OneInv, SoleKnows
    <3>2. CASE q # p
      BY <2>2, <3>1, <3>2, Everybody DEF Tends, Calls
    <3>3. CASE q = p
      <4>1. CASE call'[p] \in {call[p], NoCall}
        BY <2>2, <3>1, <3>3, <4>1 DEF Calls, NoCall
      <4>2. CASE \E x \in DOMAIN records' :
                    call'[p].host = records'[x].host /\ records'[x].state = "creating" /\ ~records'[x].attempt
        <5>1. PICK x \in DOMAIN records' : call'[p].host = records'[x].host /\ ~records'[x].attempt
          BY <4>2
        <5>2. x = Key(records'[x].host)
          BY <1>1 DEF HoldInv, RecordsFit, RecordFits, Key
        <5>3. call'[p].host # h
          BY <2>2, <2>4, <5>1, <5>2
        <5> QED BY <2>3, <3>3, <5>3 DEF Calls
      <4> QED BY <4>1, <4>2 DEF Tends, Asks
    <3> QED BY <3>2, <3>3
  <2> QED BY <1>1, <2>1, <2>2, <2>5, <2>6, <2>7 DEF OneInv, SoleKnows, At, Tends
<1> QED BY <1>2, <1>3, <1>4, <1>5, <1>6, OneGoesOn

\* A call moves, or a request ends.
LEMMA DwellsNames ==
    ASSUME HoldInv, NEW p \in Callers, Touches(p), hub' = hub, records' = records,
           \A q \in Callers \ {p} : call'[q] = call[q] /\ work'[q] = work[q],
           \A h \in Hosts : Calls(p, h)' => Calls(p, h),
           work'[p] = work[p] \/ work'[p].pc # "finish", NEW h \in Hosts
    PROVE  /\ (Taken(h)' <=> Taken(h)) /\ (Named(h)' <=> Named(h))
           /\ Due(h)' => Due(h)
           /\ Reached(h)' => Reached(h)
           /\ Mine(h)' => Mine(h)
<1>1. Taken(h)' <=> Taken(h)
  BY DEF Touches, Taken
<1>2. Named(h)' <=> Named(h)
  BY DEF Named
<1>3. Due(h)' => Due(h)
  <2>1. ASSUME NEW q \in Refreshers, work'[q].pc = "finish", work'[q].rec.replacedBy = h
        PROVE  work[q].pc = "finish" /\ work[q].rec.replacedBy = h
    BY <2>1, Everybody
  <2> QED BY <2>1 DEF Due, At
<1>4. Reached(h)' => Reached(h)
  <2>1. ASSUME NEW q \in Callers, Calls(q, h)' PROVE Calls(q, h)
    BY <2>1 DEF Calls
  <2>2. instances'[h] = "ours" => instances[h] = "ours" \/ Calls(p, h)
    BY DEF Touches
  <2>3. h \in adrift' => h \in adrift \/ Calls(p, h)
    BY DEF Touches
  <2> QED BY <2>1, <2>2, <2>3 DEF Reached
<1> QED BY <1>1, <1>2, <1>3, <1>4 DEF Mine

LEMMA InCreateKeepsOne ==
    ASSUME HoldInv, HoldInv', OneInv, NEW p \in Callers, InCreate(p)
    PROVE  OneInv'
<1>1. /\ Touches(p) /\ call[p] \in Calling /\ Learns(p)
      /\ \A q \in Callers \ {p} : call'[q] = call[q]
      /\ UNCHANGED <<hub, records, work>>
  BY InCreateDoes
<1>2. \A h \in Hosts : Calls(p, h)' => Calls(p, h)
  BY <1>1 DEF Learns, Calls, Calling, Returning
<1>3. ASSUME NEW h \in Hosts
      PROVE  /\ (Taken(h)' <=> Taken(h)) /\ (Named(h)' <=> Named(h))
             /\ Reached(h)' => Reached(h)
             /\ Mine(h)' => Mine(h)
  BY <1>1, <1>2, DwellsNames
<1>4. Active' => Active /\ Rec' = Rec
  BY <1>1 DEF Active, Rec
<1>5. At(Signup, "remove")' => Taken(Rec.host)' \/ Named(Rec.host)'
  <2>1. SUFFICES ASSUME At(Signup, "remove")' PROVE Taken(Rec.host)' \/ Named(Rec.host)'
    OBVIOUS
  <2>2. Active /\ At(Signup, "remove")
    BY <1>1, <2>1 DEF Active, At
  <2>3. PICK h \in Hosts : h = Rec.host /\ h = Rec'.host
    BY <1>1, <2>2, ActiveHas DEF Rec
  <2>4. Taken(h) \/ Named(h)
    BY <2>2, <2>3 DEF OneInv
  <2> QED BY <1>3, <2>3, <2>4
<1>6. SoleKnows'
  <2>1. SUFFICES ASSUME Active', Sole', ~At(Signup, "handover")', ~Taken(Rec.host)'
                 PROVE  /\ \A q \in Refreshers : ~Calls(q, Rec.host)'
                        /\ ~At(Signup, "relabel")'
                        /\ At(Signup, "remove")' => instances'[Rec'.host] # "ours" /\ Rec'.host \notin adrift'
                        /\ (call'[Signup].pc \in {"post", "conflict"} /\ ~call'[Signup].unknown) =>
                               instances'[Rec'.host] # "ours" /\ Rec'.host \notin adrift'
                        /\ call'[Signup].pc = "returned" => call'[Signup].out # "taken"
    BY DEF SoleKnows
  <2>2. Active /\ Sole /\ ~At(Signup, "handover")
    BY <1>1, <2>1 DEF Active, Sole, At, Rec, Key
  <2>3. PICK h \in Hosts : h = Rec.host /\ h = Rec'.host
    BY <1>1, <2>2, ActiveHas DEF Rec
  <2>4. ~Taken(h)
    BY <1>3, <2>1, <2>3
  <2>5. /\ \A q \in Refreshers : ~Calls(q, h)
        /\ ~At(Signup, "relabel")
        /\ At(Signup, "remove") => instances[h] # "ours" /\ h \notin adrift
        /\ (call[Signup].pc \in {"post", "conflict"} /\ ~call[Signup].unknown) =>
               instances[h] # "ours" /\ h \notin adrift
        /\ call[Signup].pc = "returned" => call[Signup].out # "taken"
    BY <2>2, <2>3, <2>4 DEF OneInv, SoleKnows
  <2>6. \A q \in Refreshers : ~Calls(q, h)'
    BY <1>1, <1>2, <2>5, Everybody DEF Calls
  <2>7. CASE p # Signup
    <3>1. ~Calls(p, h) /\ call'[Signup] = call[Signup]
      BY <1>1, <2>5, <2>7, Everybody
    <3>2. (instances'[h] = "ours" => instances[h] = "ours") /\ (h \in adrift' => h \in adrift)
      BY <1>1, <3>1 DEF Touches
    <3> QED BY <1>1, <2>3, <2>5, <2>6, <3>1, <3>2 DEF At
  <2>8. CASE p = Signup
    <3>1. ~At(Signup, "remove") /\ ~At(Signup, "relabel")
      BY <1>1, <2>8 DEF HoldInv, SignupFits, At, Calling, NoCall
    <3>2. (call[Signup].pc = "get" => call[Signup].unknown) /\ call[Signup].host = h /\ ~call[Signup].resume
      BY <1>1, <2>3, <2>8 DEF HoldInv, SignupFits, Calling, Rec
    <3>3. (call'[Signup].pc \in {"post", "conflict"} /\ ~call'[Signup].unknown) =>
             instances'[h] # "ours" /\ h \notin adrift'
      BY <1>1, <2>5, <2>8, <3>2 DEF Learns, Still, Returning
    <3>4. call'[Signup].pc = "returned" => call'[Signup].out # "taken"
      <4>1. CASE call'[Signup] \in Calling
        BY <4>1 DEF Calling
      <4>2. CASE call'[Signup].out = "taken" /\ call[Signup].pc = "conflict" /\ ~call[Signup].unknown /\ instances[h] # "none"
        BY <2>4, <2>5, <4>2 DEF HoldInv, CallsFit, Taken
      <4> QED BY <1>1, <2>8, <3>2, <4>1, <4>2 DEF Learns
    <3> QED BY <1>1, <2>3, <2>6, <3>1, <3>3, <3>4 DEF At
  <2> QED BY <2>7, <2>8
<1> QED BY <1>3, <1>4, <1>5, <1>6, OneGoesOn DEF OneInv

LEMMA StopsKeepsOne ==
    ASSUME HoldInv, HoldInv', OneInv, NEW p \in Callers, Stops(p)
    PROVE  OneInv'
<1>1. /\ Touches(p) /\ call'[p] = NoCall
      /\ work'[p].pc = (IF p = Signup THEN "over" ELSE "idle")
      /\ \A q \in Callers \ {p} : call'[q] = call[q] /\ work'[q] = work[q]
      /\ UNCHANGED <<hub, records>>
  BY StopsDoes
<1>2. \A h \in Hosts : Calls(p, h)' => Calls(p, h)
  BY <1>1 DEF Calls, NoCall
<1>3. ASSUME NEW h \in Hosts
      PROVE  /\ (Taken(h)' <=> Taken(h)) /\ (Named(h)' <=> Named(h))
             /\ Reached(h)' => Reached(h)
             /\ Mine(h)' => Mine(h)
  BY <1>1, <1>2, DwellsNames
<1>4. (Active' => Active /\ Rec' = Rec) /\ (Active' => p # Signup /\ work'[Signup] = work[Signup] /\ call'[Signup] = call[Signup])
  BY <1>1, Everybody DEF Active, Rec
<1>5. At(Signup, "remove")' => Taken(Rec.host)' \/ Named(Rec.host)'
  <2>1. SUFFICES ASSUME At(Signup, "remove")' PROVE Taken(Rec.host)' \/ Named(Rec.host)'
    OBVIOUS
  <2>2. Active /\ At(Signup, "remove") /\ Rec' = Rec
    BY <1>1, <1>4, <2>1 DEF Active, At
  <2>3. PICK h \in Hosts : h = Rec.host /\ h = Rec'.host
    BY <2>2, ActiveHas
  <2>4. Taken(h) \/ Named(h)
    BY <2>2, <2>3 DEF OneInv
  <2> QED BY <1>3, <2>3, <2>4
<1>6. SoleKnows'
  <2>1. SUFFICES ASSUME Active', Sole', ~At(Signup, "handover")', ~Taken(Rec.host)'
                 PROVE  /\ \A q \in Refreshers : ~Calls(q, Rec.host)'
                        /\ ~At(Signup, "relabel")'
                        /\ At(Signup, "remove")' => instances'[Rec'.host] # "ours" /\ Rec'.host \notin adrift'
                        /\ (call'[Signup].pc \in {"post", "conflict"} /\ ~call'[Signup].unknown) =>
                               instances'[Rec'.host] # "ours" /\ Rec'.host \notin adrift'
                        /\ call'[Signup].pc = "returned" => call'[Signup].out # "taken"
    BY DEF SoleKnows
  <2>2. /\ Active /\ Sole /\ ~At(Signup, "handover") /\ Rec' = Rec
        /\ p # Signup /\ work'[Signup] = work[Signup] /\ call'[Signup] = call[Signup]
    BY <1>1, <1>4, <2>1 DEF Sole, At, Key
  <2>3. PICK h \in Hosts : h = Rec.host /\ h = Rec'.host
    BY <2>2, ActiveHas
  <2>4. ~Taken(h)
    BY <1>3, <2>1, <2>3
  <2>5. /\ \A q \in Refreshers : ~Calls(q, h)
        /\ ~At(Signup, "relabel")
        /\ At(Signup, "remove") => instances[h] # "ours" /\ h \notin adrift
        /\ (call[Signup].pc \in {"post", "conflict"} /\ ~call[Signup].unknown) =>
               instances[h] # "ours" /\ h \notin adrift
        /\ call[Signup].pc = "returned" => call[Signup].out # "taken"
    BY <2>2, <2>3, <2>4 DEF OneInv, SoleKnows
  <2>6. \A q \in Refreshers : ~Calls(q, h)'
    BY <1>1, <1>2, <2>5, Everybody DEF Calls
  <2>7. (instances'[h] = "ours" => instances[h] = "ours") /\ (h \in adrift' => h \in adrift)
    BY <1>1, <2>2, <2>5, Everybody DEF Touches
  <2> QED BY <2>2, <2>3, <2>5, <2>6, <2>7 DEF At
<1> QED BY <1>3, <1>4, <1>5, <1>6, OneGoesOn DEF OneInv

LEMMA PlatformKeepsOne ==
    ASSUME HoldInv, HoldInv', OneInv, Platform
    PROVE  OneInv'
<1>1. /\ Lasting /\ UNCHANGED <<call, hub, records, work>>
      /\ \A h \in Hosts : \/ instances'[h] = instances[h]
                          \/ instances'[h] = "ours" /\ h \in adrift /\ instances[h] = "none"
                          \/ instances'[h] = "other"
      /\ adrift' \subseteq adrift
  BY PlatformDoes DEF tenantVars
<1>2. ASSUME NEW h \in Hosts
      PROVE  /\ Taken(h) => Taken(h)'
             /\ Named(h)' <=> Named(h)
             /\ Due(h)' <=> Due(h)
             /\ Reached(h)' => Reached(h)
             /\ Mine(h)' => Mine(h)
             /\ instances'[h] = "ours" => instances[h] = "ours" \/ h \in adrift
  <2>1. Taken(h) => Taken(h)'
    BY <1>1 DEF Lasting, Taken
  <2>2. (Named(h)' <=> Named(h)) /\ (Due(h)' <=> Due(h))
    BY <1>1 DEF Named, Due, At
  <2>3. instances'[h] = "ours" => instances[h] = "ours" \/ h \in adrift
    BY <1>1
  <2>4. Reached(h)' => Reached(h)
    BY <1>1, <2>3 DEF Reached, Calls
  <2> QED BY <2>1, <2>2, <2>3, <2>4 DEF Mine
<1>3. (Active' <=> Active) /\ Rec' = Rec /\ (Sole' <=> Sole)
  BY <1>1 DEF Active, Rec, Sole, Key
<1>4. At(Signup, "remove")' => Taken(Rec.host)' \/ Named(Rec.host)'
  <2>1. SUFFICES ASSUME At(Signup, "remove")' PROVE Taken(Rec.host)' \/ Named(Rec.host)'
    OBVIOUS
  <2>2. Active /\ At(Signup, "remove")
    BY <1>1, <2>1 DEF Active, At
  <2>3. PICK h \in Hosts : h = Rec.host /\ h = Rec'.host
    BY <1>3, <2>2, ActiveHas
  <2>4. Taken(h) \/ Named(h)
    BY <2>2, <2>3 DEF OneInv
  <2> QED BY <1>2, <2>3, <2>4
<1>5. SoleKnows'
  <2>1. SUFFICES ASSUME Active', Sole', ~At(Signup, "handover")', ~Taken(Rec.host)'
                 PROVE  /\ \A q \in Refreshers : ~Calls(q, Rec.host)'
                        /\ ~At(Signup, "relabel")'
                        /\ At(Signup, "remove")' => instances'[Rec'.host] # "ours" /\ Rec'.host \notin adrift'
                        /\ (call'[Signup].pc \in {"post", "conflict"} /\ ~call'[Signup].unknown) =>
                               instances'[Rec'.host] # "ours" /\ Rec'.host \notin adrift'
                        /\ call'[Signup].pc = "returned" => call'[Signup].out # "taken"
    BY DEF SoleKnows
  <2>2. Active /\ Sole /\ ~At(Signup, "handover")
    BY <1>1, <1>3, <2>1 DEF At
  <2>3. PICK h \in Hosts : h = Rec.host /\ h = Rec'.host
    BY <1>3, <2>2, ActiveHas
  <2>4. ~Taken(h)
    BY <1>2, <2>1, <2>3
  <2>5. /\ \A q \in Refreshers : ~Calls(q, h)
        /\ ~At(Signup, "relabel")
        /\ At(Signup, "remove") => instances[h] # "ours" /\ h \notin adrift
        /\ (call[Signup].pc \in {"post", "conflict"} /\ ~call[Signup].unknown) =>
               instances[h] # "ours" /\ h \notin adrift
        /\ call[Signup].pc = "returned" => call[Signup].out # "taken"
    BY <2>2, <2>3, <2>4 DEF OneInv, SoleKnows
  <2>6. \A q \in Refreshers : ~Calls(q, h)'
    BY <1>1, <2>5 DEF Calls
  <2> QED BY <1>1, <1>2, <2>3, <2>5, <2>6 DEF At
<1> QED BY <1>2, <1>3, <1>4, <1>5, OneGoesOn DEF OneInv

LEMMA UndisturbedKeepsOne ==
    ASSUME OneInv, UNCHANGED <<createVars, tenantVars>>
    PROVE  OneInv'
<1>1. UNCHANGED <<instances, adrift, call, hub, records, work>>
  BY DEF createVars, tenantVars
<1>2. ASSUME NEW h
      PROVE  /\ Taken(h)' <=> Taken(h)
             /\ Named(h)' <=> Named(h)
             /\ Reached(h)' <=> Reached(h)
             /\ Mine(h)' <=> Mine(h)
  BY <1>1 DEF Taken, Named, Reached, Mine, Due, Calls, At
<1>3. (Active' <=> Active) /\ Rec' = Rec
  BY <1>1 DEF Active, Rec
<1>4. SoleKnows'
  BY <1>1 DEF OneInv, SoleKnows, Active, Rec, Sole, Key, Taken, Calls, At
<1>5. At(Signup, "remove")' => Taken(Rec.host)' \/ Named(Rec.host)'
  BY <1>1 DEF OneInv, At, Rec, Taken, Named
<1> QED BY <1>2, <1>3, <1>4, <1>5, OneGoesOn DEF OneInv

-----------------------------------------------------------------------------
\* The signup alone: hosts it does not touch.
LEMMA AloneNames ==
    ASSUME Alone, NEW h \in Hosts
    PROVE  /\ Taken(h)' <=> Taken(h)
           /\ Reached(h)' => Reached(h) \/ Calls(Signup, h)'
           /\ (records' = records) => (Named(h)' <=> Named(h)) /\ (Due(h)' => Due(h))
<1>1. UNCHANGED <<instances, adrift>> /\ \A q \in Callers \ {Signup} : work'[q] = work[q] /\ call'[q] = call[q]
  BY DEF Alone
<1>2. Taken(h)' <=> Taken(h)
  BY <1>1 DEF Taken
<1>3. Reached(h)' => Reached(h) \/ Calls(Signup, h)'
  BY <1>1 DEF Reached, Calls
<1>4. (records' = records) => (Named(h)' <=> Named(h)) /\ (Due(h)' => Due(h))
  BY <1>1, Everybody DEF Named, Due, At
<1> QED BY <1>2, <1>3, <1>4

LEMMA BeginsKeepsOne ==
    ASSUME HoldInv, NEW h \in Hosts, SignupBegins(h)
    PROVE  OneInv'
<1>1. /\ Alone /\ At(Signup, "idle")
      /\ \E r \in TenantRecord : /\ r.host = h /\ r.state = "creating" /\ r.attempt
                                 /\ records' = Stored(Key(h), r) /\ With("create", r) /\ Posts(h)
  BY SignupBeginsDoes
<1>2. PICK r \in TenantRecord : /\ r.host = h /\ r.state = "creating" /\ r.attempt
                                /\ records' = Stored(Key(h), r) /\ With("create", r) /\ Posts(h)
  BY <1>1
<1>3. /\ DOMAIN records = {} /\ adrift = {}
      /\ \A g \in Hosts : instances[g] # "ours"
      /\ \A p \in Refreshers : At(p, "idle")
      /\ \A p \in Callers : call[p] = NoCall
  BY <1>1 DEF HoldInv, Untried
<1>4. DOMAIN records' = {Key(h)} /\ records'[Key(h)] = r
  BY <1>2, <1>3, StoredIs
<1>5. ASSUME NEW g \in Hosts PROVE (Reached(g)' \/ Named(g)' \/ Due(g)') => g = h
  <2>1. ~Reached(g)
    BY <1>3 DEF Reached, Calls, NoCall
  <2>2. Reached(g)' => g = h
    BY <1>1, <1>2, <2>1, AloneNames DEF Calls, Posts
  <2>3. Named(g)' => g = h
    BY <1>2, <1>4 DEF Named
  <2>4. \A q \in Refreshers : work'[q] = work[q]
    BY <1>1, Everybody DEF Alone
  <2>5. ~Due(g)'
    BY <1>2, <1>3, <1>4, <2>4 DEF Due, At
  <2> QED BY <2>2, <2>3, <2>5
<1>6. Named(h)'
  BY <1>2, <1>4 DEF Named
<1>7. work'[Signup].pc = "create" /\ Rec' = r
  BY <1>2 DEF With, Rec
<1>8. SoleKnows'
  <2>1. \A q \in Refreshers : ~Calls(q, h)'
    BY <1>1, <1>3, Everybody DEF Alone, Calls, NoCall
  <2>2. instances' = instances /\ adrift' = adrift
    BY <1>1 DEF Alone
  <2> QED BY <1>2, <1>3, <1>7, <2>1, <2>2 DEF SoleKnows, At, Posts
<1> QED BY <1>2, <1>5, <1>6, <1>7, <1>8, OneMoves DEF Mine, At

LEMMA HearsKeepsOne ==
    ASSUME HoldInv, OneInv, SignupHears
    PROVE  OneInv'
<1>1. /\ Alone /\ At(Signup, "create") /\ Returned(Signup)
      /\ records' = records /\ call'[Signup] = NoCall
      /\ \/ With("relabel", Rec) /\ call[Signup].out = "taken"
         \/ With("handover", Rec)
  BY SignupHearsDoes
<1>2. ASSUME NEW h \in Hosts
      PROVE  /\ (Taken(h)' <=> Taken(h)) /\ (Named(h)' <=> Named(h))
             /\ Reached(h)' => Reached(h)
             /\ Mine(h)' => Mine(h)
  <2>1. ~Calls(Signup, h)'
    BY <1>1 DEF Calls, NoCall
  <2> QED BY <1>1, <2>1, AloneNames DEF Mine
<1>3. Active /\ Rec' = Rec /\ ~At(Signup, "remove")'
  BY <1>1 DEF Active, With, Rec, At
<1>4. SoleKnows'
  <2>1. SUFFICES ASSUME Active', Sole', ~At(Signup, "handover")', ~Taken(Rec.host)'
                 PROVE  FALSE
    BY DEF SoleKnows
  <2>2. Sole /\ ~At(Signup, "handover") /\ call[Signup].out = "taken" /\ call[Signup].pc = "returned"
    BY <1>1, <1>3, <2>1 DEF Sole, At, Key, Alone, With, Returned
  <2>3. PICK h \in Hosts : h = Rec.host /\ h = Rec'.host
    BY <1>3, ActiveHas
  <2>4. ~Taken(Rec.host)
    BY <1>2, <2>1, <2>3
  <2> QED BY <1>3, <2>2, <2>4 DEF OneInv, SoleKnows
<1> QED BY <1>2, <1>3, <1>4, OneGoesOn DEF OneInv

LEMMA HandOverKeepsOne ==
    ASSUME HoldInv, OneInv, HandOver
    PROVE  OneInv'
<1>1. /\ Alone /\ At(Signup, "over")' /\ call' = call
      /\ \/ records' = records
         \/ \E k \in Keys, r \in TenantRecord :
               /\ k \in DOMAIN records /\ records[k] = Rec /\ records[k].state = "creating"
               /\ r.host = Rec.host /\ r.state \in {"creating", "failed"}
               /\ records' = Stored(k, r)
  BY HandOverDoes
<1>2. ASSUME NEW h \in Hosts
      PROVE  /\ (Taken(h)' <=> Taken(h)) /\ (Named(h) => Named(h)')
             /\ Reached(h)' => Reached(h)
             /\ Mine(h)' => Mine(h)
  <2>1. Calls(Signup, h)' => Reached(h)
    BY <1>1, Everybody DEF Calls, Reached
  <2>2. (Named(h)' <=> Named(h)) /\ (Due(h)' => Due(h))
    <3>1. CASE records' = records
      BY <1>1, <3>1, AloneNames
    <3>2. CASE records' # records
      <4>1. PICK k \in Keys, r \in TenantRecord :
               /\ k \in DOMAIN records /\ records[k].state = "creating"
               /\ r.host = records[k].host /\ r.state \in {"creating", "failed"}
               /\ records' = Stored(k, r)
        BY <1>1, <3>2
      <4>2. /\ DOMAIN records' = DOMAIN records /\ records'[k] = r
            /\ \A x \in DOMAIN records \ {k} : records'[x] = records[x]
        BY <4>1, StoredIs
      <4>3. \A x \in DOMAIN records :
               /\ records'[x].host = records[x].host
               /\ records'[x].state = "replaced" <=> records[x].state = "replaced"
               /\ records'[x].state = "replaced" => records'[x] = records[x]
        BY <4>1, <4>2
      <4>4. \A q \in Refreshers : work'[q] = work[q]
        BY <1>1, Everybody DEF Alone
      <4>5. Named(h)' <=> Named(h)
        BY <4>2, <4>3 DEF Named
      <4>6. Due(h)' => Due(h)
        BY <4>2, <4>3, <4>4 DEF Due, At
      <4> QED BY <4>5, <4>6
    <3> QED BY <3>1, <3>2
  <2> QED BY <1>1, <2>1, <2>2, AloneNames DEF Mine
<1>3. ~Active' /\ ~At(Signup, "remove")'
  BY <1>1 DEF Active, At
<1>4. SoleKnows'
  BY <1>3 DEF SoleKnows
<1> QED BY <1>2, <1>3, <1>4, OneGoesOn DEF OneInv

LEMMA RelabelCreatesKeepsOne ==
    ASSUME HoldInv, OneInv, RelabelCreates
    PROVE  OneInv'
<1>1. /\ Alone /\ At(Signup, "again") /\ call' = call /\ call[Signup] = NoCall /\ ~hub
      /\ \/ records' = records /\ At(Signup, "over")'
         \/ /\ Rec \in TenantRecord /\ Rec.host \notin DOMAIN records /\ Rec.state = "creating"
            /\ records' = Stored(Rec.host, Rec) /\ With("remove", Rec)
  BY RelabelCreatesDoes
<1>2. ASSUME NEW h \in Hosts
      PROVE  (Taken(h)' <=> Taken(h)) /\ (Reached(h)' => Reached(h)) /\ ~Calls(Signup, h)'
  <2>1. ~Calls(Signup, h)'
    BY <1>1 DEF Calls, NoCall
  <2> QED BY <1>1, <2>1, AloneNames
<1>3. Active
  BY <1>1 DEF Active, At
<1>4. CASE records' = records /\ At(Signup, "over")'
  <2>1. \A h \in Hosts : (Named(h)' <=> Named(h)) /\ (Mine(h)' => Mine(h))
    BY <1>1, <1>2, <1>4, AloneNames DEF Mine
  <2>2. ~Active' /\ ~At(Signup, "remove")'
    BY <1>4 DEF Active, At
  <2>3. SoleKnows'
    BY <2>2 DEF SoleKnows
  <2> QED BY <1>2, <2>1, <2>2, <2>3, OneGoesOn DEF OneInv
<1>5. CASE /\ Rec \in TenantRecord /\ Rec.host \notin DOMAIN records /\ Rec.state = "creating"
           /\ records' = Stored(Rec.host, Rec) /\ With("remove", Rec)
  <2>1. PICK r \in TenantRecord, x \in Hosts : r = Rec /\ x = r.host /\ r.state = "creating"
    BY <1>5 DEF TenantRecord
  <2>2. /\ DOMAIN records' = DOMAIN records \cup {x} /\ records'[x] = r
        /\ \A y \in DOMAIN records : records'[y] = records[y]
    <3>1. records' = Stored(x, r) /\ x \notin DOMAIN records
      BY <1>5, <2>1
    <3> QED BY <3>1, StoredIs
  <2>3. \A q \in Refreshers : work'[q] = work[q]
    BY <1>1, Everybody DEF Alone
  <2>4. Rec' = r /\ work'[Signup].pc = "remove"
    BY <1>5, <2>1 DEF With, Rec
  <2>5. Named(x)'
    BY <2>1, <2>2 DEF Named
  <2>6. ASSUME NEW h \in Hosts
        PROVE  /\ Named(h) => Named(h)'
               /\ Named(h)' => Named(h) \/ h = x
               /\ Due(h)' => Due(h)
    <3>1. Named(h) => Named(h)'
      BY <2>2 DEF Named
    <3>2. Named(h)' => Named(h) \/ h = x
      BY <2>1, <2>2 DEF Named
    <3>3. Due(h)' => Due(h)
      BY <2>1, <2>2, <2>3 DEF Due, At
    <3> QED BY <3>1, <3>2, <3>3
  <2>7. \A h \in Hosts : Mine(h)' => h = x
    BY <1>2, <1>3, <2>1, <2>6 DEF OneInv, Mine
  <2>8. \A h \in Hosts : Reached(h)' => Taken(h)' \/ Named(h)'
    BY <1>2, <2>6 DEF OneInv
  <2>9. SoleKnows'
    <3>1. SUFFICES ASSUME ~Taken(Rec.host)'
                   PROVE  ~Reached(x)
      <4>1. SUFFICES ASSUME ~Taken(Rec.host)', ~Reached(x) PROVE SoleKnows'
        BY DEF SoleKnows
      <4>2. /\ \A q \in Refreshers : ~Calls(q, x)'
            /\ instances'[x] # "ours" /\ x \notin adrift' /\ call'[Signup] = NoCall
        BY <1>1, <4>1, Everybody DEF Reached, Alone, Calls
      <4> QED BY <2>1, <2>4, <4>2 DEF SoleKnows, At, NoCall
    <3>2. ~Taken(x)
      BY <1>2, <2>1, <2>4, <3>1
    <3>3. ~Named(x)
      <4>1. SUFFICES ASSUME NEW k \in DOMAIN records, records[k].host = x PROVE FALSE
        BY DEF Named
      <4>2. k = x
        BY <1>1, <4>1 DEF HoldInv, RecordsFit, RecordFits, Key
      <4> QED BY <1>5, <2>1, <4>1, <4>2
    <3> QED BY <3>2, <3>3 DEF OneInv
  <2> QED BY <2>1, <2>4, <2>5, <2>7, <2>8, <2>9, OneMoves
<1> QED BY <1>1, <1>4, <1>5

LEMMA RelabelDeletesKeepsOne ==
    ASSUME HoldInv, OneInv, RelabelDeletes
    PROVE  OneInv'
<1>1. /\ Alone /\ At(Signup, "remove") /\ ~hub
      /\ \E g \in Hosts : Taken(g) /\ records' = Without(g)
      /\ Rec \in TenantRecord /\ With("create", Rec) /\ Posts(Rec.host)
  BY RelabelDeletesDoes
<1>2. PICK g \in Hosts : Taken(g) /\ records' = Without(g)
  BY <1>1
<1>3. PICK r \in TenantRecord, x \in Hosts : r = Rec /\ x = r.host
  BY <1>1 DEF TenantRecord
<1>4. DOMAIN records' = DOMAIN records \ {g} /\ \A y \in DOMAIN records' : records'[y] = records[y]
  BY <1>2, WithoutIs
<1>5. \A k \in DOMAIN records : k = records[k].host
  <2>1. ASSUME NEW k \in DOMAIN records PROVE k = records[k].host
    BY <1>1 DEF HoldInv, RecordsFit, RecordFits, Key
  <2> QED BY <2>1
<1>6. \A q \in Refreshers : work'[q] = work[q] /\ call'[q] = call[q]
  BY <1>1, Everybody DEF Alone
<1>7. Active /\ Rec' = r /\ work'[Signup].pc = "create"
  BY <1>1, <1>3 DEF Active, At, With, Rec
<1>8. ASSUME NEW h \in Hosts
      PROVE  /\ Taken(h)' <=> Taken(h)
             /\ (Named(h) /\ ~Taken(h)) => Named(h)'
             /\ Named(h)' => Named(h)
             /\ Due(h)' => Due(h)
             /\ Reached(h)' => Reached(h) \/ h = x
  <2>1. Taken(h)' <=> Taken(h)
    BY <1>1, AloneNames
  <2>2. (Named(h) /\ ~Taken(h)) => Named(h)'
    <3>1. ASSUME NEW k \in DOMAIN records, records[k].host = h, ~Taken(h)
          PROVE  k \in DOMAIN records' /\ records'[k] = records[k]
      BY <1>2, <1>4, <1>5, <3>1
    <3> QED BY <3>1 DEF Named
  <2>3. Named(h)' => Named(h)
    BY <1>4 DEF Named
  <2>4. Due(h)' => Due(h)
    BY <1>4, <1>6 DEF Due, At
  <2>5. Reached(h)' => Reached(h) \/ h = x
    BY <1>1, <1>3, AloneNames DEF Calls, Posts
  <2> QED BY <2>1, <2>2, <2>3, <2>4, <2>5
<1>9. Taken(x) \/ Named(x)
  BY <1>1, <1>3 DEF OneInv
<1>10. \A h \in Hosts : Mine(h)' => h = x
  BY <1>3, <1>7, <1>8 DEF OneInv, Mine
<1>11. \A h \in Hosts : Reached(h)' => Taken(h)' \/ Named(h)'
  BY <1>8, <1>9 DEF OneInv
<1>12. SoleKnows'
  <2>1. SUFFICES ASSUME Sole', ~Taken(Rec.host)'
                 PROVE  /\ \A q \in Refreshers : ~Calls(q, x)'
                        /\ instances'[x] # "ours" /\ x \notin adrift'
    BY <1>1, <1>3, <1>7 DEF SoleKnows, At, Posts
  <2>2. ~Taken(Rec.host)
    BY <1>3, <1>7, <1>8, <2>1
  <2>3. Sole
    BY <1>1, <1>3, <1>4, <1>7, <2>1 DEF Sole, Key, Alone
  <2>4. /\ \A q \in Refreshers : ~Calls(q, x)
        /\ instances[x] # "ours" /\ x \notin adrift
    BY <1>1, <1>3, <1>7, <2>2, <2>3 DEF OneInv, SoleKnows, At
  <2>5. \A q \in Refreshers : ~Calls(q, x)'
    BY <1>6, <2>4 DEF Calls
  <2> QED BY <1>1, <2>4, <2>5 DEF Alone
<1> QED BY <1>3, <1>7, <1>10, <1>11, <1>12, OneMoves DEF At

\* A signup that nobody took over leaves a label only because it is taken.
LEMMA RelabelTaken ==
    ASSUME HoldInv, OneInv, At(Signup, "relabel"), Current(Signup)
    PROVE  Taken(Rec.host)
<1>1. Active /\ ~At(Signup, "handover") /\ work[Signup].key = Key(Rec.host)
  BY DEF Active, At, HoldInv, SignupFits, Bare, Deciding, Rec
<1>2. Sole
  BY <1>1 DEF Current, Sole, Rec
<1> QED BY <1>1, <1>2 DEF OneInv, SoleKnows

LEMMA RelabelKeepsOne ==
    ASSUME HoldInv, OneInv, NEW h \in Hosts, Relabel(h)
    PROVE  HoldInv' /\ OneInv'
<1>0. (Current(Signup) /\ ~hub) => Taken(Rec.host)
  BY RelabelTaken DEF Relabel
<1>1. /\ HoldInv' /\ Alone /\ At(Signup, "relabel") /\ call[Signup] = NoCall
      /\ \A k \in DOMAIN records : records[k].host # h /\ records[k].replacedBy # h
      /\ \/ records' = records /\ At(Signup, "over")' /\ call' = call
         \/ /\ Current(Signup) /\ work[Signup].key = Key(Rec.host)
            /\ Rec.state = "creating" /\ Rec.attempt
            /\ \/ /\ hub /\ Posts(h)
                  /\ \E r \in TenantRecord :
                        /\ r.host = h /\ r.state = "creating" /\ r.attempt
                        /\ records' = Stored(Slug, r) /\ With("create", r)
               \/ /\ ~hub /\ call' = call
                  /\ \E r \in TenantRecord :
                        r.host = h /\ r.state = "creating" /\ r.attempt /\ With("again", r)
                  /\ \E r \in TenantRecord : /\ r.host = Rec.host /\ r.state = "replaced" /\ r.replacedBy = h
                                             /\ records' = Stored(work[Signup].key, r)
  BY <1>0, RelabelDoes
<1>2. Active /\ Rec.host \in Hosts
  <2>1. Active
    BY <1>1 DEF Active, At
  <2> QED BY <2>1, ActiveHas
<1>3. ASSUME NEW g \in Hosts
      PROVE  (Taken(g)' <=> Taken(g)) /\ (Reached(g)' => Reached(g) \/ Calls(Signup, g)')
  BY <1>1, AloneNames
<1>4. CASE records' = records /\ At(Signup, "over")' /\ call' = call
  <2>1. \A g \in Hosts : ~Calls(Signup, g)'
    BY <1>1, <1>4 DEF Calls, NoCall
  <2>2. \A g \in Hosts : (Named(g)' <=> Named(g)) /\ (Reached(g)' => Reached(g)) /\ (Mine(g)' => Mine(g))
    BY <1>1, <1>3, <1>4, <2>1, AloneNames DEF Mine
  <2>3. ~Active' /\ ~At(Signup, "remove")'
    BY <1>4 DEF Active, At
  <2>4. SoleKnows'
    BY <2>3 DEF SoleKnows
  <2> QED BY <1>1, <1>3, <2>2, <2>3, <2>4, OneGoesOn DEF OneInv
<1>5. CASE Current(Signup) /\ work[Signup].key = Key(Rec.host)
  <2>1. PICK x \in Hosts, k \in DOMAIN records :
            /\ x = Rec.host /\ Taken(x) /\ k = Key(x) /\ k = work[Signup].key
            /\ k \in DOMAIN records /\ records[k] = Rec
    BY <1>1, <1>2, <1>5, RelabelTaken DEF Current, Rec
  <2>2. \A g \in Hosts : ~Mine(g)
    BY <1>2, <2>1 DEF OneInv, Mine
  <2>3. x # h /\ ~Named(h)
    BY <1>1, <2>1 DEF Named
  <2>4. \A q \in Refreshers : work'[q] = work[q] /\ call'[q] = call[q]
    BY <1>1, Everybody DEF Alone
  <2>5. ~Taken(h) => ~Reached(h)
    BY <2>3 DEF OneInv
  <2>6. \A y \in DOMAIN records : y = Key(records[y].host)
    BY DEF HoldInv, RecordsFit, RecordFits
  <2>7. CASE /\ hub /\ Posts(h)
             /\ \E r \in TenantRecord :
                   /\ r.host = h /\ r.state = "creating" /\ r.attempt
                   /\ records' = Stored(Slug, r) /\ With("create", r)
    <3>1. PICK r \in TenantRecord : /\ r.host = h /\ r.state = "creating"
                                    /\ records' = Stored(Slug, r) /\ With("create", r)
      BY <2>7
    <3>2. DOMAIN records = {Slug} /\ k = Slug
      BY <2>1, <2>6, <2>7 DEF Key
    <3>3. DOMAIN records' = {Slug} /\ records'[Slug] = r
      BY <3>1, <3>2, StoredIs
    <3>4. ASSUME NEW g \in Hosts
          PROVE  /\ Named(g)' <=> g = h
                 /\ Due(g)' => Due(g)
                 /\ Named(g) => g = x
                 /\ Reached(g)' => Reached(g) \/ g = h
      <4>1. Named(g)' <=> g = h
        BY <3>1, <3>3 DEF Named
      <4>2. Due(g)' => Due(g)
        BY <2>4, <3>1, <3>3 DEF Due, At
      <4>3. Named(g) => g = x
        BY <2>1, <3>2 DEF Named
      <4>4. Reached(g)' => Reached(g) \/ g = h
        BY <1>3, <2>7 DEF Calls, Posts
      <4> QED BY <4>1, <4>2, <4>3, <4>4
    <3>5. \A g \in Hosts : Mine(g)' => g = h
      BY <1>3, <2>2, <3>4 DEF Mine
    <3>6. \A g \in Hosts : Reached(g)' => Taken(g)' \/ Named(g)'
      BY <1>3, <2>1, <3>4 DEF OneInv
    <3>7. Rec' = r /\ work'[Signup].pc = "create"
      BY <3>1 DEF With, Rec
    <3>8. SoleKnows'
      <4>1. SUFFICES ASSUME ~Taken(Rec.host)'
                     PROVE  (\A q \in Refreshers : ~Calls(q, h)') /\ instances'[h] # "ours" /\ h \notin adrift'
        BY <2>7, <3>1, <3>7 DEF SoleKnows, At, Posts
      <4>2. ~Reached(h)
        BY <1>3, <2>5, <3>1, <3>7, <4>1
      <4> QED BY <1>1, <2>4, <4>2, Everybody DEF Reached, Alone, Calls
    <3> QED BY <1>1, <3>1, <3>5, <3>6, <3>7, <3>8, OneMoves DEF At
  <2>8. CASE /\ ~hub /\ call' = call
             /\ \E r \in TenantRecord :
                   r.host = h /\ r.state = "creating" /\ r.attempt /\ With("again", r)
             /\ \E r \in TenantRecord : /\ r.host = Rec.host /\ r.state = "replaced" /\ r.replacedBy = h
                                        /\ records' = Stored(work[Signup].key, r)
    <3>1. PICK m \in TenantRecord : m.host = h /\ With("again", m)
      BY <2>8
    <3>2. PICK r \in TenantRecord : /\ r.host = x /\ r.state = "replaced" /\ r.replacedBy = h
                                    /\ records' = Stored(k, r)
      BY <2>1, <2>8
    <3>3. /\ DOMAIN records' = DOMAIN records /\ records'[k] = r
          /\ \A y \in DOMAIN records \ {k} : records'[y] = records[y]
      BY <2>1, <3>2, StoredIs, ZenonT(30)
    <3>4. ASSUME NEW g \in Hosts
          PROVE  /\ (Named(g) /\ g # x) => Named(g)'
                 /\ Named(g)' => Named(g)
                 /\ Due(g)' => Due(g) \/ g = h
                 /\ Reached(g)' => Reached(g)
      <4>1. ASSUME NEW y \in DOMAIN records, records[y].host = g, g # x
            PROVE  y \in DOMAIN records' /\ records'[y] = records[y]
        BY <2>1, <3>3, <4>1
      <4>2. (Named(g) /\ g # x) => Named(g)'
        BY <4>1 DEF Named
      <4>3. Named(g)' => Named(g)
        BY <3>2, <3>3 DEF Named
      <4>4. Due(g)' => Due(g) \/ g = h
        <5>1. ASSUME NEW y \in DOMAIN records', records'[y].replacedBy = g, g # h
              PROVE  y \in DOMAIN records /\ records'[y] = records[y]
          BY <3>2, <3>3, <5>1
        <5> QED BY <2>4, <5>1 DEF Due, At
      <4>5. Reached(g)' => Reached(g)
        BY <1>1, <1>3, <2>8 DEF Calls, NoCall
      <4> QED BY <4>2, <4>3, <4>4, <4>5
    <3>5. \A g \in Hosts : Mine(g)' => g = h
      BY <1>3, <2>2, <3>4 DEF Mine
    <3>6. \A g \in Hosts : Reached(g)' => Taken(g)' \/ Named(g)'
      BY <1>3, <2>1, <3>4 DEF OneInv
    <3>7. Rec' = m /\ work'[Signup].pc = "again"
      BY <3>1 DEF With, Rec
    <3>8. SoleKnows'
      <4>1. ~Sole'
        <5>1. SUFFICES ASSUME h \in DOMAIN records', records'[h] = m PROVE FALSE
          BY <1>1, <2>8, <3>1, <3>7 DEF Sole, Key, Alone
        <5>2. h # k
          BY <2>1, <2>3, <2>8 DEF Key
        <5> QED BY <1>1, <3>1, <3>3, <5>1, <5>2
      <4> QED BY <4>1 DEF SoleKnows
    <3> QED BY <1>1, <3>1, <3>5, <3>6, <3>7, <3>8, OneMoves DEF At
  <2> QED BY <1>1, <1>5, <2>7, <2>8, <1>4
<1> QED BY <1>1, <1>4, <1>5

-----------------------------------------------------------------------------
LEMMA InitHolds ==
    ASSUME Init
    PROVE  HoldInv /\ OneInv
<1>1. /\ DOMAIN records = {} /\ adrift = {} /\ hub \in BOOLEAN
      /\ instances = [h \in Hosts |-> "none"] /\ lost = 0
      /\ DOMAIN call = Callers /\ \A p \in Callers : call[p] = NoCall
      /\ DOMAIN work = Callers /\ \A p \in Callers : work[p] = Idle
  BY DEF Init, CreateInit
<1>2. CallsFit
  BY <1>1, CreateAssumption DEF CallsFit, CallFits
<1>3. SignupFits(work[Signup], call[Signup])
  BY <1>1, Everybody DEF SignupFits, Idle, Bare, NoCall
<1>4. \A p \in Refreshers : RefreshFits(work[p])
  BY <1>1, Everybody, IdleFits
<1>5. RecordsFit
  BY <1>1 DEF RecordsFit
<1>6. Untried
  BY <1>1, Everybody DEF Untried, At, Idle
<1>7. HoldInv
  BY <1>1, <1>2, <1>3, <1>4, <1>5, <1>6 DEF HoldInv
<1>8. \A h \in Hosts : ~Reached(h) /\ ~Named(h) /\ ~Due(h)
  BY <1>1, Everybody DEF Reached, Named, Due, Calls, NoCall, At, Idle
<1>9. ~Active /\ ~At(Signup, "remove")
  BY <1>1, Everybody DEF Active, At, Idle
<1>10. OneInv
  BY <1>8, <1>9 DEF OneInv, SoleKnows, Mine
<1> QED BY <1>7, <1>10

LEMMA StepHolds ==
    ASSUME HoldInv, OneInv, [Next]_vars
    PROVE  HoldInv' /\ OneInv'
<1>1. CASE \E h \in Hosts : SignupBegins(h)
  BY <1>1, SignupBeginsDoes, BeginsKeepsOne
<1>2. CASE SignupStep
  <2>1. CASE SignupHears
    BY <2>1, SignupHearsDoes, HearsKeepsOne
  <2>2. CASE HandOver
    BY <2>2, HandOverDoes, HandOverKeepsOne
  <2>3. CASE \E h \in Hosts : Relabel(h)
    BY <2>3, RelabelKeepsOne
  <2>4. CASE RelabelCreates
    BY <2>4, RelabelCreatesDoes, RelabelCreatesKeepsOne
  <2>5. CASE RelabelDeletes
    BY <2>5, RelabelDeletesDoes, RelabelDeletesKeepsOne
  <2> QED BY <1>2, <2>1, <2>2, <2>3, <2>4, <2>5 DEF SignupStep
<1>3. CASE \E p \in Refreshers : RefreshStep(p) \/ \E k \in Keys : Reads(p, k)
  BY <1>3, RefreshDoes, RefreshKeepsOne
<1>4. CASE \E p \in Callers : InCreate(p) \/ Stops(p)
  <2>1. PICK p \in Callers : InCreate(p) \/ Stops(p)
    BY <1>4
  <2>2. CASE InCreate(p)
    BY <2>2, InCreateDoes, InCreateKeepsOne
  <2>3. CASE Stops(p)
    BY <2>3, StopsDoes, StopsKeepsOne
  <2> QED BY <2>1, <2>2, <2>3
<1>5. CASE Platform
  BY <1>5, PlatformDoes, PlatformKeepsOne
<1>6. CASE InPublish \/ TickPublishes \/ UNCHANGED vars
  <2>1. UNCHANGED <<createVars, tenantVars>>
    BY <1>6 DEF InPublish, TickPublishes, vars
  <2> QED BY <2>1, Undisturbed, UndisturbedKeepsOne
<1> QED BY <1>1, <1>2, <1>3, <1>4, <1>5, <1>6 DEF Next

LEMMA TenantsHolds == Spec => [](HoldInv /\ OneInv)
<1>1. Init => HoldInv /\ OneInv
  BY InitHolds
<1>2. HoldInv /\ OneInv /\ [Next]_vars => (HoldInv /\ OneInv)'
  BY StepHolds
<1> QED BY <1>1, <1>2, PTL DEF Spec

\* Crashes, retries, lost answers, new labels and refreshes that overtake make
\* no second instance of a tenant, and lose none: a record names what a POST of
\* ours has made (provision.Create under the record rules).
THEOREM OneInstanceKept == Spec => []OneKept
<1>1. HoldInv /\ OneInv => OneKept
  <2> SUFFICES ASSUME OneInv, NEW h \in Hosts, instances[h] = "ours"
               PROVE  /\ \E k \in DOMAIN records : records[k].host = h /\ records[k].state # "replaced"
                      /\ \A g \in Hosts \ {h} : instances[g] # "ours"
    BY DEF OneKept
  <2>1. \A g \in Hosts : instances[g] = "ours" => Reached(g) /\ ~Taken(g) /\ Mine(g)
    BY DEF Reached, Taken, Mine
  <2>2. Named(h)
    BY <2>1 DEF OneInv
  <2>3. \A g \in Hosts \ {h} : instances[g] # "ours"
    BY <2>1 DEF OneInv
  <2> QED BY <2>2, <2>3 DEF Named
<1> QED BY <1>1, TenantsHolds, PTL

-----------------------------------------------------------------------------
(* Whose instance goes live *)

\* A record of a creation that nobody waits for, or that is live.
Settles(r) == r.state = "live" \/ (r.state = "creating" /\ ~r.attempt)

LEMMA OwnStored ==
    ASSUME HoldInv, OwnInv, ~blurred, NEW k, NEW r, records' = Stored(k, r), instances' = instances,
           Settles(r) => instances[r.host] = "ours"
    PROVE  \A x \in DOMAIN records' : Settles(records'[x]) => instances'[records'[x].host] = "ours"
<1>1. /\ DOMAIN records' = DOMAIN records \cup {k} /\ records'[k] = r
      /\ \A x \in DOMAIN records \ {k} : records'[x] = records[x]
  BY StoredIs
<1>2. \A x \in DOMAIN records : Settles(records[x]) => instances[records[x].host] = "ours"
  BY DEF OwnInv, Settles
<1>3. ASSUME NEW x \in DOMAIN records' PROVE Settles(records'[x]) => instances[records'[x].host] = "ours"
  <2>1. CASE x = k
    BY <1>1, <2>1
  <2>2. CASE x # k
    BY <1>1, <1>2, <2>2
  <2> QED BY <2>1, <2>2
<1> QED BY <1>3

LEMMA OwnWithout ==
    ASSUME HoldInv, OwnInv, ~blurred, NEW k, records' = Without(k), instances' = instances
    PROVE  \A x \in DOMAIN records' : Settles(records'[x]) => instances'[records'[x].host] = "ours"
<1>1. DOMAIN records' = DOMAIN records \ {k} /\ \A x \in DOMAIN records' : records'[x] = records[x]
  BY WithoutIs
<1>2. \A x \in DOMAIN records : Settles(records[x]) => instances[records[x].host] = "ours"
  BY DEF OwnInv, Settles
<1> QED BY <1>1, <1>2

\* The signup's part, when it and its call stay as they are.
OwnSignup ==
    /\ call[Signup].pc \in {"post", "conflict"} => ~call[Signup].unknown
    /\ call[Signup].pc # "get"
    /\ call[Signup].pc = "returned" =>
          /\ call[Signup].out \in {"created", "taken", "refused"}
          /\ call[Signup].out = "created" => instances[Rec.host] = "ours"
    /\ (At(Signup, "handover") /\ work[Signup].next.state = "creating") => instances[Rec.host] = "ours"

LEMMA OwnIs ==
    OwnInv <=> (~blurred => /\ \A x \in DOMAIN records : Settles(records[x]) => instances[records[x].host] = "ours"
                            /\ OwnSignup)
  BY DEF OwnInv, OwnSignup, Settles

LEMMA RefreshKeepsOwn ==
    ASSUME HoldInv, OwnInv, NEW p \in Refreshers, Tends(p)
    PROVE  OwnInv'
<1>1. SUFFICES ASSUME ~blurred'
               PROVE  /\ \A x \in DOMAIN records' : Settles(records'[x]) => instances'[records'[x].host] = "ours"
                      /\ OwnSignup'
  BY OwnIs DEF OwnInv, OwnSignup, Settles
<1>2. ~blurred /\ instances' = instances /\ work'[Signup] = work[Signup] /\ call'[Signup] = call[Signup]
  BY <1>1, Everybody DEF Tends
<1>3. OwnSignup'
  BY <1>2 DEF OwnInv, OwnSignup, At, Rec
<1>4. CASE records' = records
  BY <1>2, <1>3, <1>4 DEF OwnInv, Settles
<1>5. ASSUME NEW k \in Keys, NEW r \in TenantRecord, Advances(k, r), records' = Stored(k, r)
      PROVE  \A x \in DOMAIN records' : Settles(records'[x]) => instances'[records'[x].host] = "ours"
  <2>1. instances[r.host] = "ours"
    BY <1>1, <1>2, <1>5 DEF Advances, OwnInv
  <2> QED BY <1>2, <1>5, <2>1, OwnStored
<1>6. ASSUME NEW g \in Hosts, records' = Without(g)
      PROVE  \A x \in DOMAIN records' : Settles(records'[x]) => instances'[records'[x].host] = "ours"
  BY <1>2, <1>6, OwnWithout
<1> QED BY <1>1, <1>3, <1>4, <1>5, <1>6 DEF Tends, Alters

LEMMA SignupKeepsOwn ==
    ASSUME HoldInv, OneInv, OwnInv, (\E h \in Hosts : SignupBegins(h)) \/ SignupStep
    PROVE  OwnInv'
<1>1. Alone
  BY SignupBeginsDoes, SignupHearsDoes, HandOverDoes, RelabelKeepsOne, RelabelTaken, RelabelDoes, RelabelCreatesDoes,
     RelabelDeletesDoes DEF SignupStep, Relabel
<1>2. SUFFICES ASSUME ~blurred, instances' = instances
               PROVE  /\ \A x \in DOMAIN records' : Settles(records'[x]) => instances'[records'[x].host] = "ours"
                      /\ OwnSignup'
  BY <1>1, OwnIs DEF OwnInv, OwnSignup, Settles, Alone
<1>3. \A x \in DOMAIN records : Settles(records[x]) => instances[records[x].host] = "ours"
  BY <1>2 DEF OwnInv, Settles
<1>4. ASSUME NEW h \in Hosts, SignupBegins(h)
      PROVE  /\ \A x \in DOMAIN records' : Settles(records'[x]) => instances'[records'[x].host] = "ours"
             /\ OwnSignup'
  <2>1. PICK r \in TenantRecord : /\ r.state = "creating" /\ r.attempt
                                  /\ records' = Stored(Key(h), r) /\ With("create", r) /\ Posts(h)
    BY <1>4, SignupBeginsDoes
  <2>2. \A x \in DOMAIN records' : Settles(records'[x]) => instances'[records'[x].host] = "ours"
    BY <1>2, <2>1, OwnStored DEF Settles
  <2> QED BY <2>1, <2>2 DEF OwnSignup, Posts, With, At
<1>5. CASE SignupHears
  <2>1. /\ At(Signup, "create") /\ Returned(Signup)
        /\ records' = records /\ call'[Signup] = NoCall
        /\ \/ With("relabel", Rec)
           \/ /\ With("handover", Rec)
              /\ work'[Signup].next.state = "creating" => call[Signup].out \notin {"taken", "refused"}
    BY <1>5, SignupHearsDoes
  <2>2. call[Signup].out \in {"created", "taken", "refused"} /\ (call[Signup].out = "created" => instances[Rec.host] = "ours")
    BY <1>2, <2>1 DEF OwnInv, Returned
  <2>3. (At(Signup, "handover")' /\ work'[Signup].next.state = "creating") => instances'[Rec'.host] = "ours"
    BY <1>2, <2>1, <2>2 DEF At, With, Rec
  <2> QED BY <1>2, <1>3, <2>1, <2>3 DEF OwnSignup, NoCall
<1>6. CASE HandOver
  <2>1. /\ At(Signup, "handover") /\ At(Signup, "over")' /\ call' = call
        /\ \/ records' = records
           \/ \E k \in Keys, r \in TenantRecord :
                 /\ r = work[Signup].next /\ r.host = Rec.host /\ r.state \in {"creating", "failed"}
                 /\ records' = Stored(k, r)
    BY <1>6, HandOverDoes
  <2>2. \A x \in DOMAIN records' : Settles(records'[x]) => instances'[records'[x].host] = "ours"
    <3>1. CASE records' = records
      BY <1>2, <1>3, <3>1
    <3>2. CASE records' # records
      <4>1. PICK k \in Keys, r \in TenantRecord :
                 /\ r = work[Signup].next /\ r.host = Rec.host /\ r.state \in {"creating", "failed"}
                 /\ records' = Stored(k, r)
        BY <2>1, <3>2
      <4>2. Settles(r) => instances[r.host] = "ours"
        BY <1>2, <2>1, <4>1 DEF OwnInv, Settles
      <4> QED BY <1>2, <4>1, <4>2, OwnStored
    <3> QED BY <3>1, <3>2
  <2>3. call[Signup] = NoCall
    BY <2>1 DEF HoldInv, SignupFits, At
  <2> QED BY <2>1, <2>2, <2>3 DEF OwnSignup, At, NoCall
<1>7. ASSUME NEW h \in Hosts, Relabel(h)
      PROVE  /\ \A x \in DOMAIN records' : Settles(records'[x]) => instances'[records'[x].host] = "ours"
             /\ OwnSignup'
  <2>0. (Current(Signup) /\ ~hub) => Taken(Rec.host)
    BY <1>7, RelabelTaken DEF Relabel
  <2>1. /\ call[Signup] = NoCall
        /\ \/ records' = records /\ At(Signup, "over")' /\ call' = call
           \/ /\ Posts(h)
              /\ \E r \in TenantRecord :
                    /\ r.state = "creating" /\ r.attempt /\ records' = Stored(Slug, r) /\ With("create", r)
           \/ /\ call' = call
              /\ \E r \in TenantRecord : With("again", r)
              /\ \E r \in TenantRecord : r.state = "replaced" /\ records' = Stored(work[Signup].key, r)
    BY <1>7, <2>0, RelabelDoes
  <2>2. \A x \in DOMAIN records' : Settles(records'[x]) => instances'[records'[x].host] = "ours"
    BY <1>2, <1>3, <2>1, OwnStored DEF Settles
  <2>3. OwnSignup'
    BY <2>1 DEF OwnSignup, NoCall, Posts, With, At
  <2> QED BY <2>2, <2>3
<1>8. CASE RelabelCreates
  <2>1. /\ call' = call /\ call[Signup] = NoCall
        /\ \/ records' = records /\ At(Signup, "over")'
           \/ /\ Rec.state = "creating" /\ Rec.attempt
              /\ records' = Stored(Rec.host, Rec) /\ With("remove", Rec)
    BY <1>8, RelabelCreatesDoes
  <2>2. \A x \in DOMAIN records' : Settles(records'[x]) => instances'[records'[x].host] = "ours"
    BY <1>2, <1>3, <2>1, OwnStored DEF Settles
  <2>3. OwnSignup'
    BY <2>1 DEF OwnSignup, NoCall, With, At
  <2> QED BY <2>2, <2>3
<1>9. CASE RelabelDeletes
  <2>1. /\ \E h \in Hosts : records' = Without(h)
        /\ With("create", Rec) /\ Posts(Rec.host)
    BY <1>9, RelabelDeletesDoes
  <2>2. \A x \in DOMAIN records' : Settles(records'[x]) => instances'[records'[x].host] = "ours"
    BY <1>2, <2>1, OwnWithout
  <2>3. OwnSignup'
    BY <2>1 DEF OwnSignup, Posts, With, At
  <2> QED BY <2>2, <2>3
<1> QED BY <1>4, <1>5, <1>6, <1>7, <1>8, <1>9 DEF SignupStep

\* What is ours stays ours.
LEMMA OwnLasts ==
    ASSUME HoldInv, OwnInv, ~blurred, Lasting, records' = records
    PROVE  \A x \in DOMAIN records' : Settles(records'[x]) => instances'[records'[x].host] = "ours"
<1>1. ASSUME NEW x \in DOMAIN records, Settles(records[x]) PROVE instances'[records[x].host] = "ours"
  <2>1. instances[records[x].host] = "ours" /\ records[x].host \in Hosts
    BY <1>1 DEF OwnInv, Settles, HoldInv, RecordsFit, RecordFits, TenantRecord
  <2> QED BY <2>1 DEF Lasting
<1> QED BY <1>1

LEMMA InCreateKeepsOwn ==
    ASSUME HoldInv, HoldInv', OwnInv, NEW p \in Callers, InCreate(p)
    PROVE  OwnInv'
<1>1. /\ Touches(p) /\ call[p] \in Calling /\ Learns(p)
      /\ \A q \in Callers \ {p} : call'[q] = call[q]
      /\ UNCHANGED <<hub, records, work>>
      /\ (blurred \/ lost' # lost) => blurred'
  BY InCreateDoes
<1>2. SUFFICES ASSUME ~blurred, lost' = lost
               PROVE  /\ \A x \in DOMAIN records' : Settles(records'[x]) => instances'[records'[x].host] = "ours"
                      /\ OwnSignup'
  BY <1>1, OwnIs DEF OwnInv, OwnSignup, Settles
<1>3. Lasting
  BY <1>1, TouchesLast
<1>4. \A x \in DOMAIN records' : Settles(records'[x]) => instances'[records'[x].host] = "ours"
  BY <1>1, <1>2, <1>3, OwnLasts
<1>5. (At(Signup, "handover") /\ work[Signup].next.state = "creating") => instances'[Rec.host] = "ours"
  <2>1. At(Signup, "handover") => Rec.host \in Hosts
    BY ActiveHas DEF Active, At
  <2> QED BY <1>2, <1>3, <2>1 DEF OwnInv, Lasting
<1>6. CASE p # Signup
  <2>1. call'[Signup] = call[Signup]
    BY <1>1, <1>6, Everybody
  <2>2. call[Signup].pc = "returned" => At(Signup, "create")
    BY DEF HoldInv, SignupFits, NoCall, At, Bare, Held, Deciding
  <2>3. call[Signup].pc = "returned" => Rec.host \in Hosts
    BY <2>2, ActiveHas DEF Active, At
  <2>4. call[Signup].pc = "returned" /\ call[Signup].out = "created" => instances'[Rec.host] = "ours"
    BY <1>2, <1>3, <2>3 DEF OwnInv, Lasting
  <2> QED BY <1>1, <1>2, <1>4, <1>5, <2>1, <2>4 DEF OwnInv, OwnSignup, At, Rec
<1>7. CASE p = Signup
  <2>1. /\ call[Signup].pc \in {"post", "conflict"} /\ ~call[Signup].unknown
        /\ ~call[Signup].resume /\ call[Signup].host = Rec.host
    BY <1>1, <1>2, <1>7 DEF OwnInv, HoldInv, SignupFits, Calling, Rec
  <2>2. ~At(Signup, "handover")
    BY <1>1, <1>7 DEF HoldInv, SignupFits, At, Calling, NoCall
  <2>3. \/ call'[Signup].pc = "conflict" /\ ~call'[Signup].unknown
        \/ call'[Signup].pc = "returned" /\ call'[Signup].out = "created" /\ instances'[Rec.host] = "ours"
        \/ call'[Signup].pc = "returned" /\ call'[Signup].out \in {"refused", "taken"}
    BY <1>1, <1>2, <1>7, <2>1 DEF Learns, Returning
  <2> QED BY <1>1, <1>4, <2>2, <2>3 DEF OwnSignup, At, Rec
<1> QED BY <1>6, <1>7

LEMMA StopsKeepsOwn ==
    ASSUME HoldInv, HoldInv', OwnInv, NEW p \in Callers, Stops(p)
    PROVE  OwnInv'
<1>1. /\ Touches(p) /\ call'[p] = NoCall
      /\ work'[p].pc = (IF p = Signup THEN "over" ELSE "idle")
      /\ \A q \in Callers \ {p} : call'[q] = call[q] /\ work'[q] = work[q]
      /\ UNCHANGED <<hub, records, blurred>>
  BY StopsDoes
<1>2. SUFFICES ASSUME ~blurred
               PROVE  /\ \A x \in DOMAIN records' : Settles(records'[x]) => instances'[records'[x].host] = "ours"
                      /\ OwnSignup'
  BY <1>1, OwnIs DEF OwnInv, OwnSignup, Settles
<1>3. Lasting
  BY <1>1, TouchesLast
<1>4. \A x \in DOMAIN records' : Settles(records'[x]) => instances'[records'[x].host] = "ours"
  BY <1>1, <1>2, <1>3, OwnLasts
<1>5. CASE p = Signup
  BY <1>1, <1>4, <1>5 DEF OwnSignup, NoCall, At
<1>6. CASE p # Signup
  <2>1. call'[Signup] = call[Signup] /\ work'[Signup] = work[Signup]
    BY <1>1, <1>6, Everybody
  <2>2. call[Signup].pc = "returned" \/ At(Signup, "handover") => Rec.host \in Hosts
    <3>1. call[Signup].pc = "returned" => At(Signup, "create")
      BY DEF HoldInv, SignupFits, NoCall, At, Bare, Held, Deciding
    <3> QED BY <3>1, ActiveHas DEF Active, At
  <2>3. call[Signup].pc = "returned" /\ call[Signup].out = "created" => instances'[Rec.host] = "ours"
    BY <1>2, <1>3, <2>2 DEF OwnInv, Lasting
  <2>4. (At(Signup, "handover") /\ work[Signup].next.state = "creating") => instances'[Rec.host] = "ours"
    BY <1>2, <1>3, <2>2 DEF OwnInv, Lasting
  <2> QED BY <1>2, <1>4, <2>1, <2>3, <2>4 DEF OwnInv, OwnSignup, At, Rec
<1> QED BY <1>5, <1>6

LEMMA OthersKeepOwn ==
    ASSUME HoldInv, OwnInv, Lasting, UNCHANGED <<call, records, work, blurred>>
    PROVE  OwnInv'
<1>1. SUFFICES ASSUME ~blurred
               PROVE  /\ \A x \in DOMAIN records' : Settles(records'[x]) => instances'[records'[x].host] = "ours"
                      /\ OwnSignup'
  BY OwnIs DEF OwnInv, OwnSignup, Settles
<1>2. \A x \in DOMAIN records' : Settles(records'[x]) => instances'[records'[x].host] = "ours"
  BY <1>1, OwnLasts
<1>3. call[Signup].pc = "returned" \/ At(Signup, "handover") => Rec.host \in Hosts
  <2>1. call[Signup].pc = "returned" => At(Signup, "create")
    BY DEF HoldInv, SignupFits, NoCall, At, Bare, Held, Deciding
  <2> QED BY <2>1, ActiveHas DEF Active, At
<1>4. call[Signup].pc = "returned" /\ call[Signup].out = "created" => instances'[Rec.host] = "ours"
  BY <1>1, <1>3 DEF OwnInv, Lasting
<1>5. (At(Signup, "handover") /\ work[Signup].next.state = "creating") => instances'[Rec.host] = "ours"
  BY <1>1, <1>3 DEF OwnInv, Lasting
<1> QED BY <1>1, <1>2, <1>4, <1>5 DEF OwnInv, OwnSignup, At, Rec

LEMMA InitOwn ==
    ASSUME Init PROVE OwnInv
<1>1. DOMAIN records = {} /\ call[Signup] = NoCall /\ work[Signup] = Idle
  BY Everybody DEF Init, CreateInit
<1> QED BY <1>1 DEF OwnInv, NoCall, At, Idle

LEMMA StepOwn ==
    ASSUME HoldInv, OneInv, OwnInv, HoldInv', [Next]_vars
    PROVE  OwnInv'
<1>1. CASE (\E h \in Hosts : SignupBegins(h)) \/ SignupStep
  BY <1>1, SignupKeepsOwn
<1>2. CASE \E p \in Refreshers : RefreshStep(p) \/ \E k \in Keys : Reads(p, k)
  BY <1>2, RefreshDoes, RefreshKeepsOwn
<1>3. CASE \E p \in Callers : InCreate(p) \/ Stops(p)
  BY <1>3, InCreateKeepsOwn, StopsKeepsOwn
<1>4. CASE Platform
  <2>1. Lasting /\ UNCHANGED <<call, records, work, blurred>>
    BY <1>4, PlatformDoes DEF tenantVars
  <2> QED BY <2>1, OthersKeepOwn
<1>5. CASE InPublish \/ TickPublishes \/ UNCHANGED vars
  <2>1. Lasting /\ UNCHANGED <<call, records, work, blurred>>
    BY <1>5 DEF InPublish, TickPublishes, vars, createVars, tenantVars, Lasting
  <2> QED BY <2>1, OthersKeepOwn
<1> QED BY <1>1, <1>2, <1>3, <1>4, <1>5 DEF Next

\* A tenant goes live on an instance its own POST made and never on another
\* creation's (signup, advance and finishReplace of provision/sequence_test.go),
\* until an answer is lost, or a refresh finishes a move or takes a signup over.
THEOREM LiveIsOwn == Spec => []OwnInstance
<1>1. Init => HoldInv /\ OneInv /\ OwnInv
  BY InitHolds, InitOwn
<1>2. HoldInv /\ OneInv /\ OwnInv /\ [Next]_vars => (HoldInv /\ OneInv /\ OwnInv)'
  BY StepHolds, StepOwn
<1>3. OwnInv => OwnInstance
  BY DEF OwnInv, OwnInstance
<1> QED BY <1>1, <1>2, <1>3, PTL DEF Spec

-----------------------------------------------------------------------------
(* The published prefix *)

\* The hub's tenant is live, or was.
Settled == hub /\ Slug \in DOMAIN records /\ records[Slug].state \in {"live", "failed"}

\* What was settled stays so, and what is live then was live before.
StaysSettled == Settled => Settled' /\ (records'[Slug].state = "live" => records[Slug].state = "live")

LEMMA ListingIs == Slug \in Listing <=> (Slug \in DOMAIN records /\ records[Slug].state = "live")
  BY TenantsAssumption DEF Listing

LEMMA RefreshSettles ==
    ASSUME HoldInv, NEW p \in Refreshers, Tends(p)
    PROVE  StaysSettled
<1>1. SUFFICES ASSUME Settled
               PROVE  Settled' /\ (records'[Slug].state = "live" => records[Slug].state = "live")
  BY DEF StaysSettled
<1>2. hub /\ hub' = hub
  BY <1>1 DEF Tends, Settled
<1>3. CASE records' = records
  BY <1>1, <1>2, <1>3 DEF Settled
<1>4. ASSUME NEW k \in Keys, NEW r \in TenantRecord, Advances(k, r), records' = Stored(k, r)
      PROVE  Settled' /\ (records'[Slug].state = "live" => records[Slug].state = "live")
  <2>1. /\ DOMAIN records' = DOMAIN records \cup {k} /\ records'[k] = r
        /\ \A x \in DOMAIN records \ {k} : records'[x] = records[x]
    BY <1>4, StoredIs
  <2>2. CASE k = Slug
    BY <1>1, <1>2, <1>4, <2>1, <2>2 DEF Settled, Advances
  <2>3. CASE k # Slug
    BY <1>1, <1>2, <2>1, <2>3 DEF Settled
  <2> QED BY <2>2, <2>3
<1> QED BY <1>2, <1>3, <1>4 DEF Tends, Alters

LEMMA SignupSettles ==
    ASSUME HoldInv, OneInv, (\E h \in Hosts : SignupBegins(h)) \/ SignupStep
    PROVE  StaysSettled
<1>1. Alone
  BY SignupBeginsDoes, SignupHearsDoes, HandOverDoes, RelabelKeepsOne, RelabelTaken, RelabelDoes, RelabelCreatesDoes,
     RelabelDeletesDoes DEF SignupStep, Relabel
<1>2. SUFFICES ASSUME Settled
               PROVE  Settled' /\ (records'[Slug].state = "live" => records[Slug].state = "live")
  BY DEF StaysSettled
<1>3. hub /\ hub' = hub
  BY <1>1, <1>2 DEF Alone, Settled
<1>4. CASE records' = records
  BY <1>2, <1>3, <1>4 DEF Settled
<1>5. ASSUME NEW h \in Hosts, SignupBegins(h) PROVE FALSE
  BY <1>2, <1>5 DEF SignupBegins, HoldInv, Untried, Settled
<1>6. CASE HandOver /\ records' # records
  <2>1. PICK k \in Keys, r \in TenantRecord :
           k \in DOMAIN records /\ records[k].state = "creating" /\ records' = Stored(k, r)
    BY <1>6, HandOverDoes
  <2>2. /\ DOMAIN records' = DOMAIN records \cup {k}
        /\ \A x \in DOMAIN records \ {k} : records'[x] = records[x]
    BY <2>1, StoredIs
  <2>3. k # Slug
    BY <1>2, <2>1 DEF Settled
  <2> QED BY <1>2, <1>3, <2>2, <2>3 DEF Settled
<1>7. ASSUME NEW h \in Hosts, Relabel(h), records' # records PROVE FALSE
  <2>1. Current(Signup) /\ work[Signup].key = Key(Rec.host) /\ Rec.state = "creating"
    BY <1>3, <1>7, RelabelDoes
  <2> QED BY <1>2, <1>3, <2>1 DEF Current, Key, Settled, Rec
<1>8. CASE RelabelCreates \/ RelabelDeletes
  BY <1>3, <1>8, RelabelCreatesDoes, RelabelDeletesDoes
<1>9. CASE SignupHears
  BY <1>4, <1>9, SignupHearsDoes
<1> QED BY <1>4, <1>5, <1>6, <1>7, <1>8, <1>9 DEF SignupStep

LEMMA MapIs ==
    ASSUME MapInv
    PROVE  putsLost \in Nat /\ stops \in Nat /\ putsLost \in 0..MaxPuts /\ stops \in 0..MaxFaults
  BY PathsAssumption, TenantsAssumption DEF MapInv

\* Nothing is published, and no PUT is begun or lost.
LEMMA MapKeeps ==
    ASSUME MapInv, StaysSettled, UNCHANGED <<paths, straying, putsLost>>, stops' \in 0..MaxFaults, stops' >= stops,
           DOMAIN publish' = Publishers,
           \A p \in Publishers : publish'[p] = publish[p] \/ publish'[p] \in [pc : {"none", "lock"}]
    PROVE  MapInv'
<1>1. \A p \in Publishers : PublishFits(publish'[p]) /\ (publish'[p].pc = "put" => publish'[p] = publish[p])
  BY DEF MapInv, PublishFits
<1>2. ASSUME NEW w PROVE PublishFits(w)' <=> PublishFits(w)
  BY DEF PublishFits
<1>3. Mapped'
  <2>1. Mapped /\ (Settled => Settled')
    BY DEF MapInv, StaysSettled
  <2> QED BY <1>1, <2>1 DEF Mapped, Settled
<1>4. putsLost' + stops' = 0 => putsLost + stops = 0
  <2>1. stops' \in Nat
    BY TenantsAssumption
  <2> QED BY <2>1, MapIs
<1>5. (Slug \in paths' /\ Slug \in Listing') => (Slug \in paths /\ Slug \in Listing)
  <2>1. SUFFICES ASSUME Slug \in paths, Slug \in Listing' PROVE Slug \in Listing
    OBVIOUS
  <2>2. Settled
    BY <2>1 DEF MapInv, Mapped, Settled
  <2>3. records'[Slug].state = "live"
    BY <2>1, TenantsAssumption DEF Listing
  <2> QED BY <2>2, <2>3, ListingIs DEF StaysSettled, Settled
<1>6. \A p, q \in Publishers : (publish'[p].pc = "put" /\ publish'[q].pc = "put") => p = q
  BY <1>1 DEF MapInv
<1>7. putsLost' + stops' = 0 =>
        /\ straying' = {}
        /\ (Slug \in paths' /\ Slug \in Listing') =>
              \A p \in Publishers : publish'[p].pc = "put" => Slug \in publish'[p].map
  BY <1>1, <1>4, <1>5 DEF MapInv
<1>8. /\ paths' \subseteq Slugs /\ straying' \subseteq SUBSET Slugs /\ putsLost' \in 0..MaxPuts
  BY DEF MapInv
<1> QED BY <1>1, <1>2, <1>3, <1>6, <1>7, <1>8 DEF MapInv

\* A publisher p moves to w and the platform takes or keeps maps that it has been sent.
LEMMA MapMoves ==
    ASSUME MapInv, UNCHANGED <<hub, records>>, putsLost' \in 0..MaxPuts, stops' \in 0..MaxFaults,
           NEW p \in Publishers, publish[p].pc = "put", NEW w, publish' = [publish EXCEPT ![p] = w], PublishFits(w),
           w.pc = "put" => w.map = publish[p].map,
           paths' = paths \/ paths' = publish[p].map,
           straying' \subseteq straying \cup {publish[p].map},
           putsLost' + stops' = 0 => putsLost + stops = 0 /\ straying' = {} /\ w.pc # "put"
    PROVE  MapInv' /\ ((Slug \in paths \ paths' /\ Slug \in Listing) => putsLost + stops > 0)
<1>1. PICK m \in SUBSET Slugs : m = publish[p].map
  BY DEF MapInv, PublishFits
<1>2. DOMAIN publish' = Publishers /\ publish'[p] = w /\ \A q \in Publishers \ {p} : publish'[q] = publish[q]
  BY DEF MapInv
<1>3. \A q \in Publishers : PublishFits(publish[q])'
  <2>1. \A q \in Publishers : PublishFits(publish'[q])
    BY <1>2 DEF MapInv
  <2> QED BY <2>1 DEF PublishFits
<1>4. paths' \subseteq Slugs /\ straying' \subseteq SUBSET Slugs
  BY <1>1 DEF MapInv
<1>5. Mapped'
  <2>1. SUFFICES ASSUME \/ Slug \in paths'
                        \/ \E x \in straying' : Slug \in x
                        \/ \E q \in Publishers : publish'[q].pc = "put" /\ Slug \in publish'[q].map
                 PROVE  \/ Slug \in paths
                        \/ \E x \in straying : Slug \in x
                        \/ \E q \in Publishers : publish[q].pc = "put" /\ Slug \in publish[q].map
    BY DEF MapInv, Mapped
  <2>2. CASE Slug \in m
    BY <1>1, <2>2
  <2>3. CASE Slug \notin m
    BY <1>1, <1>2, <2>1, <2>3
  <2> QED BY <2>2, <2>3
<1>6. \A q \in Publishers : publish'[q].pc = "put" => publish[q].pc = "put"
  BY <1>2
<1>7. \A q \in Publishers : publish[q].pc = "put" => q = p
  BY DEF MapInv
<1>8. \A q, r \in Publishers : (publish'[q].pc = "put" /\ publish'[r].pc = "put") => q = r
  BY <1>6, <1>7
<1>9. putsLost' + stops' = 0 =>
        /\ straying' = {}
        /\ (Slug \in paths' /\ Slug \in Listing') =>
              \A q \in Publishers : publish'[q].pc = "put" => Slug \in publish'[q].map
  BY <1>2, <1>6, <1>7
<1>10. (Slug \in paths \ paths' /\ Slug \in Listing) => putsLost + stops > 0
  <2>1. SUFFICES ASSUME Slug \in paths, Slug \notin paths', Slug \in Listing, ~(putsLost + stops > 0) PROVE FALSE
    OBVIOUS
  <2>2. putsLost + stops = 0
    BY <2>1, PathsAssumption, TenantsAssumption DEF MapInv
  <2>3. Slug \in publish[p].map
    BY <2>1, <2>2 DEF MapInv
  <2> QED BY <2>1, <2>3
<1> QED BY <1>2, <1>3, <1>4, <1>5, <1>8, <1>9, <1>10 DEF MapInv

\* Nothing of ours is taken off the map.
Stays == (Slug \in paths \ paths' /\ Slug \in Listing) => putsLost + stops > 0

LEMMA PublishKeepsMap ==
    ASSUME HoldInv, MapInv, InPublish
    PROVE  MapInv' /\ Stays
<1>1. UNCHANGED <<hub, records, stops>>
  BY DEF InPublish, tenantVars
<1>2. stops' \in 0..MaxFaults /\ putsLost \in 0..MaxPuts /\ putsLost \in Nat /\ stops \in Nat
  BY <1>1, MapIs
<1>3. ASSUME NEW p \in Publishers, Put(p) PROVE MapInv' /\ Stays
  <2>1. PICK w : w = [pc |-> "returned", ok |-> TRUE]
    OBVIOUS
  <2>2. PublishFits(w) /\ w.pc # "put" /\ publish' = [publish EXCEPT ![p] = w]
    BY <1>3, <2>1 DEF PublishFits, Put, Ended
  <2>3. publish[p].pc = "put" /\ paths' = publish[p].map /\ UNCHANGED <<straying, putsLost>>
    BY <1>3 DEF Put
  <2>4. straying' \subseteq straying \cup {publish[p].map}
    BY <2>3
  <2>5. putsLost' + stops' = 0 => putsLost + stops = 0 /\ straying' = {} /\ w.pc # "put"
    BY <1>1, <2>2, <2>3 DEF MapInv
  <2> QED BY <1>1, <1>2, <2>2, <2>3, <2>4, <2>5, MapMoves DEF Stays
<1>4. ASSUME NEW p \in Publishers, PutFails(p) PROVE MapInv' /\ Stays
  <2>1. publish[p].pc = "put" /\ putsLost < MaxPuts /\ putsLost' = putsLost + 1
    BY <1>4 DEF PutFails, PutFault
  <2>2. putsLost' \in 0..MaxPuts /\ putsLost' + stops' # 0
    BY <1>1, <1>2, <2>1, PathsAssumption
  <2>3. (paths' = paths \/ paths' = publish[p].map) /\ straying' \subseteq straying \cup {publish[p].map}
    BY <1>4 DEF PutFails, MapStrays
  <2>4. PICK w : /\ publish' = [publish EXCEPT ![p] = w] /\ PublishFits(w)
                 /\ w.pc = "put" => w.map = publish[p].map
    <3>1. CASE Ended(p, FALSE)
      <4>1. PICK w : w = [pc |-> "returned", ok |-> FALSE]
        OBVIOUS
      <4>2. PublishFits(w) /\ w.pc # "put" /\ publish' = [publish EXCEPT ![p] = w]
        BY <3>1, <4>1 DEF PublishFits, Ended
      <4> QED BY <4>2
    <3>2. CASE publish' = [publish EXCEPT ![p] = [@ EXCEPT !.tries = 2]]
      <4>1. PICK v \in [pc : {"put"}, map : SUBSET Slugs, tries : 1..2] : v = publish[p]
        BY <2>1 DEF MapInv, PublishFits
      <4>2. PICK w : w = [v EXCEPT !.tries = 2]
        OBVIOUS
      <4>3. w \in [pc : {"put"}, map : SUBSET Slugs, tries : 1..2] /\ w.map = v.map
        BY <4>2
      <4>4. publish' = [publish EXCEPT ![p] = w]
        BY <3>2, <4>1, <4>2, Zenon
      <4> QED BY <4>1, <4>3, <4>4 DEF PublishFits
    <3> QED BY <1>4, <3>1, <3>2, Zenon DEF PutFails
  <2> QED BY <1>1, <1>2, <2>1, <2>2, <2>3, <2>4, MapMoves DEF Stays
<1>5. ASSUME NEW m \in straying, PutLands(m) PROVE MapInv' /\ Stays
  <2>1. straying' = straying \ {m} /\ paths' = m /\ UNCHANGED <<publish, putsLost>>
    BY <1>5 DEF PutLands
  <2>2. putsLost + stops > 0
    BY <1>2 DEF MapInv
  <2>3. Mapped'
    BY <1>1, <2>1 DEF MapInv, Mapped
  <2>4. \A q \in Publishers : PublishFits(publish[q])'
    BY <2>1 DEF MapInv, PublishFits
  <2> QED BY <1>1, <1>2, <2>1, <2>2, <2>3, <2>4 DEF MapInv, Stays
<1>6. ASSUME NEW p \in Publishers, Build(p, Listing) PROVE MapInv' /\ Stays
  <2>1. UNCHANGED <<paths, straying, putsLost>> /\ \A q \in Publishers : publish[q].pc # "put"
    BY <1>6 DEF Build, Holders
  <2>2. Listing # {}
    BY DEF Listing
  <2>3. PICK w : w = [pc |-> "put", map |-> Listing, tries |-> 1]
    OBVIOUS
  <2>4. publish' = [publish EXCEPT ![p] = w]
    BY <1>6, <2>2, <2>3 DEF Build
  <2>5. Listing \subseteq Slugs
    BY TenantsAssumption DEF Listing
  <2>6. PublishFits(w) /\ w.map = Listing
    BY <2>3, <2>5 DEF PublishFits
  <2>7. DOMAIN publish' = Publishers /\ publish'[p] = w /\ \A q \in Publishers \ {p} : publish'[q] = publish[q]
    BY <2>4 DEF MapInv
  <2>8. \A q \in Publishers : PublishFits(publish[q])'
    <3>1. \A q \in Publishers : PublishFits(publish'[q])
      BY <2>6, <2>7 DEF MapInv
    <3> QED BY <3>1 DEF PublishFits
  <2>9. \A q \in Publishers : publish'[q].pc = "put" => q = p
    BY <2>1, <2>7
  <2>10. Slug \in Listing => Settled
    <3>1. Slug \in Listing => Slug \in DOMAIN records /\ records[Slug].state = "live"
      BY ListingIs
    <3>2. Slug \in DOMAIN records => hub
      BY TenantsAssumption DEF HoldInv, RecordsFit, RecordFits, TenantRecord, Key
    <3> QED BY <3>1, <3>2 DEF Settled
  <2>11. Mapped'
    BY <1>1, <2>1, <2>6, <2>7, <2>9, <2>10 DEF MapInv, Mapped, Settled
  <2>12. Listing' = Listing
    BY <1>1 DEF Listing
  <2> QED BY <1>1, <1>2, <2>1, <2>6, <2>7, <2>8, <2>9, <2>11, <2>12 DEF MapInv, Stays
<1> QED BY <1>3, <1>4, <1>5, <1>6 DEF InPublish, PublishStep

LEMMA StopsKeepsMap ==
    ASSUME HoldInv, MapInv, NEW p \in Callers, Stops(p)
    PROVE  MapInv' /\ Stays
<1>1. /\ UNCHANGED <<hub, records, lost, putsLost>> /\ stops' = stops + 1
      /\ lost + putsLost + stops < MaxFaults
  BY DEF Stops
<1>2. stops \in Nat /\ putsLost \in Nat /\ lost \in Nat /\ putsLost \in 0..MaxPuts
  BY MapIs, CreateAssumption DEF HoldInv, CallsFit
<1>3. stops' \in 0..MaxFaults /\ stops' >= stops /\ putsLost' + stops' # 0
  BY <1>1, <1>2, TenantsAssumption
<1>4. StaysSettled
  BY <1>1 DEF StaysSettled, Settled
<1>5. CASE ~At(p, "publish")
  <2>1. UNCHANGED <<paths, straying, publish>>
    BY <1>5 DEF Stops
  <2>2. MapInv'
    BY <1>1, <1>3, <1>4, <2>1, MapKeeps DEF MapInv
  <2> QED BY <2>1, <2>2 DEF Stays
<1>6. CASE At(p, "publish")
  <2>1. p \in Publishers
    BY <1>6, Everybody, TenantsAssumption DEF HoldInv, SignupFits, Bare, At
  <2>2. publish' = [publish EXCEPT ![p] = NoPublish]
    BY <1>6 DEF Stops
  <2>3. PICK w : w = NoPublish /\ PublishFits(w) /\ w.pc = "none" /\ w \in [pc : {"none", "lock"}]
    <3>1. NoPublish \in [pc : {"none", "lock"}] /\ NoPublish.pc = "none"
      BY DEF NoPublish
    <3> QED BY <3>1 DEF PublishFits
  <2>4. CASE publish[p].pc = "put"
    <3>1. MapStrays(publish[p].map)
      BY <1>6, <2>4, Zenon DEF Stops
    <3>2. (paths' = paths \/ paths' = publish[p].map) /\ straying' \subseteq straying \cup {publish[p].map}
      BY <3>1 DEF MapStrays
    <3>3. publish' = [publish EXCEPT ![p] = w]
      BY <2>2, <2>3
    <3>4. putsLost' \in 0..MaxPuts
      BY <1>1, <1>2
    <3> QED BY <1>1, <1>3, <2>1, <2>3, <2>4, <3>2, <3>3, <3>4, MapMoves DEF Stays
  <2>5. CASE publish[p].pc # "put"
    <3>1. UNCHANGED <<paths, straying>>
      BY <1>6, <2>5 DEF Stops
    <3>2. DOMAIN publish' = Publishers /\ publish'[p] = w /\ \A q \in Publishers \ {p} : publish'[q] = publish[q]
      BY <2>1, <2>2, <2>3 DEF MapInv
    <3>3. MapInv'
      BY <1>1, <1>3, <1>4, <2>3, <3>1, <3>2, MapKeeps
    <3> QED BY <3>1, <3>3 DEF Stays
  <2> QED BY <2>4, <2>5
<1> QED BY <1>5, <1>6

LEMMA StepMap ==
    ASSUME HoldInv, OneInv, MapInv, [Next]_vars
    PROVE  MapInv' /\ Stays
<1>1. stops \in 0..MaxFaults /\ stops >= stops /\ DOMAIN publish = Publishers
  BY MapIs DEF MapInv
<1>2. ASSUME UNCHANGED <<pathVars, stops>>, StaysSettled PROVE MapInv' /\ Stays
  <2>1. MapInv'
    BY <1>1, <1>2, MapKeeps DEF pathVars
  <2> QED BY <1>2, <2>1 DEF Stays, pathVars
<1>3. CASE (\E h \in Hosts : SignupBegins(h)) \/ SignupStep
  <2>1. Alone
    BY <1>3, SignupBeginsDoes, SignupHearsDoes, HandOverDoes, RelabelTaken, RelabelDoes, RelabelCreatesDoes,
       RelabelDeletesDoes DEF SignupStep, Relabel
  <2> QED BY <1>2, <1>3, <2>1, SignupSettles DEF Alone
<1>4. CASE \E p \in Refreshers : RefreshStep(p) \/ \E k \in Keys : Reads(p, k)
  <2>1. PICK p \in Refreshers : Tends(p)
    BY <1>4, RefreshDoes
  <2>2. StaysSettled /\ p \in Publishers
    BY <2>1, RefreshSettles, TenantsAssumption
  <2>3. UNCHANGED <<paths, straying, putsLost, stops>>
    BY <2>1 DEF Tends
  <2>4. /\ DOMAIN publish' = Publishers
        /\ \A q \in Publishers : publish'[q] = publish[q] \/ publish'[q] \in [pc : {"none", "lock"}]
    <3>1. CASE publish' = publish
      BY <1>1, <3>1
    <3>2. CASE \E d \in [pc : {"none", "lock"}] : publish' = [publish EXCEPT ![p] = d]
      BY <1>1, <3>2
    <3> QED BY <2>1, <3>1, <3>2 DEF Tends
  <2>5. MapInv'
    BY <1>1, <2>2, <2>3, <2>4, MapKeeps
  <2> QED BY <2>3, <2>5 DEF Stays
<1>5. CASE \E p \in Callers : InCreate(p) \/ Stops(p)
  <2>1. PICK p \in Callers : InCreate(p) \/ Stops(p)
    BY <1>5
  <2>2. CASE InCreate(p)
    <3>1. UNCHANGED <<pathVars, stops>> /\ StaysSettled
      BY <2>2 DEF InCreate, StaysSettled, Settled
    <3> QED BY <1>2, <3>1
  <2> QED BY <2>1, <2>2, StopsKeepsMap
<1>6. CASE Platform
  <2>1. UNCHANGED <<pathVars, stops>> /\ StaysSettled
    BY <1>6 DEF Platform, tenantVars, StaysSettled, Settled
  <2> QED BY <1>2, <2>1
<1>7. CASE InPublish
  BY <1>7, PublishKeepsMap
<1>8. CASE TickPublishes
  <2>1. UNCHANGED <<paths, straying, putsLost, stops>> /\ StaysSettled
    BY <1>8 DEF TickPublishes, tenantVars, StaysSettled, Settled
  <2>2. PICK d \in [pc : {"none", "lock"}] : publish' = [publish EXCEPT ![Tick] = d]
    BY <1>8 DEF TickPublishes, PublishPaths, NoPublish
  <2>3. /\ DOMAIN publish' = Publishers
        /\ \A q \in Publishers : publish'[q] = publish[q] \/ publish'[q] \in [pc : {"none", "lock"}]
    BY <1>1, <2>2
  <2>4. MapInv'
    BY <1>1, <2>1, <2>3, MapKeeps
  <2> QED BY <2>1, <2>4 DEF Stays
<1>9. CASE UNCHANGED vars
  <2>1. UNCHANGED <<pathVars, stops>> /\ StaysSettled
    BY <1>9 DEF vars, tenantVars, StaysSettled, Settled
  <2> QED BY <1>2, <2>1
<1> QED BY <1>3, <1>4, <1>5, <1>6, <1>7, <1>8, <1>9 DEF Next

LEMMA InitMap ==
    ASSUME Init PROVE MapInv
<1>1. /\ paths = {Steady} /\ straying = {} /\ putsLost = 0 /\ stops = 0
      /\ DOMAIN publish = Publishers /\ \A p \in Publishers : publish[p] = NoPublish
  BY DEF Init, PathsInit
<1>2. \A p \in Publishers : PublishFits(publish[p]) /\ publish[p].pc # "put"
  BY <1>1 DEF PublishFits, NoPublish
<1>3. Slug \notin paths /\ paths \subseteq Slugs
  BY <1>1, TenantsAssumption
<1> QED BY <1>1, <1>2, <1>3, PathsAssumption, TenantsAssumption DEF MapInv, Mapped

LEMMA TenantsInv == Spec => [](HoldInv /\ OneInv /\ MapInv)
<1>1. Init => HoldInv /\ OneInv /\ MapInv
  BY InitHolds, InitMap
<1>2. HoldInv /\ OneInv /\ MapInv /\ [Next]_vars => (HoldInv /\ OneInv /\ MapInv)'
  BY StepHolds, StepMap
<1> QED BY <1>1, <1>2, PTL DEF Spec

\* A live tenant's prefix is not unpublished by another publish, whatever the
\* order of listings and PUTs, unless a PUT was lost or cut short
\* (provision.PublishPaths).
THEOREM PrefixStaysPublished == Spec => PrefixStays
<1>1. HoldInv /\ OneInv /\ MapInv /\ [Next]_vars
        => [(Slug \in paths \ paths' /\ Slug \in Listing) => putsLost + stops > 0]_vars
  BY StepMap DEF Stays
<1> QED BY <1>1, TenantsInv, PTL DEF Spec, PrefixStays

\* What the variables hold, for any hosts, refreshes, relabels and faults.
THEOREM TenantsTypeCorrect == Spec => []TypeOK
<1>1. HoldInv /\ MapInv /\ blurred \in BOOLEAN => TypeOK
  <2> SUFFICES ASSUME HoldInv, MapInv, blurred \in BOOLEAN PROVE TypeOK
    OBVIOUS
  <2>1. CreateTypeOK
    BY DEF HoldInv, CallsFit, CallFits, CreateTypeOK
  <2>2. PathsTypeOK
    BY DEF MapInv, PublishFits, PathsTypeOK
  <2>3. DOMAIN records \subseteq Keys /\ \A k \in DOMAIN records : records[k] \in TenantRecord
    BY DEF HoldInv, RecordsFit, RecordFits, TenantRecord, Key, Keys
  <2>4. ASSUME NEW p \in Callers
        PROVE  /\ work[p].pc \in Places
               /\ work[p].pc \notin {"idle", "over"} => work[p].key \in Keys /\ work[p].rec \in TenantRecord
               /\ work[p].pc = "write" => work[p].next \in TenantRecord
    <3>1. \/ work[p] \in Bare
          \/ work[p] \in Held /\ work[p].pc # "write"
          \/ work[p] \in Deciding
      BY Everybody DEF HoldInv, SignupFits, RefreshFits
    <3> QED BY <3>1 DEF Bare, Held, Deciding, Places
  <2> QED BY <2>1, <2>2, <2>3, <2>4 DEF TypeOK, HoldInv, MapInv
<1>2. Init => blurred \in BOOLEAN
  BY DEF Init
<1>3. blurred \in BOOLEAN /\ [Next]_vars => (blurred \in BOOLEAN)'
  BY DEF Next, SignupBegins, SignupStep, SignupHears, HandOver, Relabel, RelabelCreates, RelabelDeletes, RefreshStep,
     TakesOver, RefreshHears, Probe, Publishes, Check, Writes, FinishCreates, FinishDeletes, Reads, InCreate, Stops,
     Platform, InPublish, TickPublishes, tenantVars, vars
<1> QED BY <1>1, <1>2, <1>3, TenantsInv, PTL DEF Spec

=============================================================================
