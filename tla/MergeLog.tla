------------------------------ MODULE MergeLog ------------------------------
(***************************************************************************)
(* What the event log promises to databases that exchange events: one only *)
(* ever gains events, one that it writes itself takes a position nobody    *)
(* has and comes after all it has of the stream, and one that it learns is *)
(* another's as that has it.                                               *)
(***************************************************************************)
EXTENDS Integers

CONSTANT Edges  \* databases

VARIABLE known  \* per database the events it has

SamePlace(u, v) == u.stream = v.stream /\ u.writer = v.writer /\ u.seq = v.seq

MergeInit == known = [e \in Edges |-> {}]

Write(e, v) ==
    /\ \A f \in Edges : \A u \in known[f] : ~SamePlace(u, v)
    /\ \A u \in known[e] : u.stream = v.stream => u.lamport < v.lamport
    /\ known' = [known EXCEPT ![e] = @ \cup {v}]

Learn(e, vs) ==
    /\ vs \subseteq UNION {known[f] : f \in Edges}
    /\ known' = [known EXCEPT ![e] = @ \cup vs]

\* What a database gains is one event that it writes, or what others have.
MergeStep ==
    \E e \in Edges :
        LET new == known'[e] \ known[e]
        IN Learn(e, new) \/ \E v \in new : Write(e, v)

MergeSpec == MergeInit /\ [][MergeStep]_known

=============================================================================
