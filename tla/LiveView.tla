------------------------------ MODULE LiveView ------------------------------
(***************************************************************************)
(* What live regions promise the person reading a page: a region shows the *)
(* data as it was at some moment, and a later swap never takes it back to  *)
(* an earlier one.                                                         *)
(***************************************************************************)
EXTENDS Naturals

CONSTANTS Topics, Regions

VARIABLES
    committed,  \* per topic, writes the database holds
    shown       \* per region and topic, how many of them the region shows

viewVars == <<committed, shown>>

ViewInit ==
    /\ committed = [t \in Topics |-> 0]
    /\ shown = [r \in Regions |-> [t \in Topics |-> 0]]

Write(t) ==
    /\ committed' = [committed EXCEPT ![t] = @ + 1]
    /\ UNCHANGED shown

\* Some regions are replaced, each by one at least as new in every topic.
Swap ==
    /\ \A r \in Regions, t \in Topics : shown'[r][t] \in shown[r][t]..committed[t]
    /\ UNCHANGED committed

ViewNext == Swap \/ \E t \in Topics : Write(t)

ViewSpec == ViewInit /\ [][ViewNext]_viewVars

=============================================================================
