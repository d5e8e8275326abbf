------------------------------ MODULE Upgrade ------------------------------
(***************************************************************************)
(* What applying migrations promises: one runs once those before it are    *)
(* recorded, and is recorded in the step it runs in, or it is recorded     *)
(* because the database was adopted as one that has it.                    *)
(***************************************************************************)
EXTENDS Integers

CONSTANT N  \* the migrations are 1..N, in the order they apply

VARIABLES
    recorded,  \* the migrations the ledger has
    runs       \* per migration how often it ran

UpgradeInit == recorded = {} /\ runs = [m \in 1..N |-> 0]

Run(m) ==
    /\ m \notin recorded /\ 1..(m - 1) \subseteq recorded
    /\ recorded' = recorded \cup {m}
    /\ runs' = [runs EXCEPT ![m] = @ + 1]

Adopt ==
    /\ recorded \subseteq recorded' /\ recorded' \subseteq 1..N
    /\ UNCHANGED runs

UpgradeSpec == UpgradeInit /\ [][Adopt \/ \E m \in 1..N : Run(m)]_<<recorded, runs>>

=============================================================================
