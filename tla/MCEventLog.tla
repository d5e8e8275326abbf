----------------------------- MODULE MCEventLog -----------------------------
(* Two databases, two requests, one record: every race of the code is      *)
(* about one stream, the names of new ones included.                       *)
EXTENDS EventLog, TLC

EventLogSymmetry ==
    Permutations(Requests) \cup Permutations(Edges) \cup Permutations(Writers)
=============================================================================
