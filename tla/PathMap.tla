------------------------------- MODULE PathMap -------------------------------
(***************************************************************************)
(* provision.PublishPaths: the hub's whole map is built from a listing and *)
(* PUT under the hostname's lock, which one process has; across processes  *)
(* nothing takes turns.  A PUT whose answer is lost may land later, over a *)
(* newer map.  A map is the set of its prefixes.                           *)
(***************************************************************************)
EXTENDS Integers

CONSTANTS
    Publishers,
    Slugs,
    MaxPuts   \* bound: PUTs that fail or whose answer is lost

ASSUME PathsAssumption == MaxPuts \in Nat

VARIABLES
    paths,      \* the map the platform holds
    straying,   \* maps of PUTs on the way whose caller has gone
    publish,    \* per publisher, its call
    putsLost    \* PUTs failed or lost so far

pathVars == <<paths, straying, publish, putsLost>>

NoPublish == [pc |-> "none"]

PathsTypeOK ==
    /\ paths \subseteq Slugs /\ straying \subseteq SUBSET Slugs
    /\ DOMAIN publish = Publishers
    /\ \A p \in Publishers :
        /\ publish[p].pc \in {"none", "lock", "put", "returned"}
        /\ publish[p].pc = "put" => publish[p].map \subseteq Slugs /\ publish[p].tries \in 1..2
        /\ publish[p].pc = "returned" => publish[p].ok \in BOOLEAN
    /\ putsLost \in 0..MaxPuts

PathsInit(held) ==
    /\ paths = held /\ straying = {}
    /\ publish = [p \in Publishers |-> NoPublish]
    /\ putsLost = 0

PublishPaths(p) == [publish EXCEPT ![p] = [pc |-> "lock"]]

Ended(p, ok) == publish' = [publish EXCEPT ![p] = [pc |-> "returned", ok |-> ok]]

\* A mutant of Holders: publishes do not take turns.
HoldersNone(p) == {}

\* Who holds the lock that p waits for.
Holders(p) == {q \in Publishers : publish[q].pc = "put"}

\* The lock is taken and build has listed the tenants; an empty map is not sent.
Build(p, listing) ==
    /\ publish[p].pc = "lock"
    /\ Holders(p) = {}
    /\ IF listing = {}
       THEN Ended(p, FALSE)
       ELSE publish' = [publish EXCEPT ![p] = [pc |-> "put", map |-> listing, tries |-> 1]]
    /\ UNCHANGED <<paths, straying, putsLost>>

Put(p) ==
    /\ publish[p].pc = "put"
    /\ paths' = publish[p].map
    /\ Ended(p, TRUE)
    /\ UNCHANGED <<straying, putsLost>>

PutFault == putsLost < MaxPuts /\ putsLost' = putsLost + 1

\* The map of a PUT without an answer: held, lost, or still on its way.
MapStrays(m) ==
    \/ paths' = m /\ UNCHANGED straying
    \/ UNCHANGED <<paths, straying>>
    \/ straying' = straying \cup {m} /\ UNCHANGED paths

\* A 500 or 502 is tried once more; no answer, another 5xx or a refusal ends it.
PutFails(p) ==
    /\ publish[p].pc = "put"
    /\ PutFault
    /\ \/ publish[p].tries = 1 /\ publish' = [publish EXCEPT ![p] = [@ EXCEPT !.tries = 2]]
       \/ Ended(p, FALSE)
    /\ MapStrays(publish[p].map)

PublishStep(p) == Put(p) \/ PutFails(p)

PutLands(m) ==
    /\ m \in straying
    /\ straying' = straying \ {m}
    /\ paths' = m
    /\ UNCHANGED <<publish, putsLost>>
=============================================================================
