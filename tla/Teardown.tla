------------------------------ MODULE Teardown ------------------------------
(***************************************************************************)
(* What shutting an app down promises the work behind it: the database is  *)
(* there as long as any of it runs, and once the shutdown has turned new   *)
(* work away none starts again.                                            *)
(***************************************************************************)
CONSTANT Tasks

VARIABLES
    open,       \* the database is open
    accepting,  \* new work may start
    users       \* the work that runs, and may use the database

teardownVars == <<open, accepting, users>>

TeardownInit == open = TRUE /\ accepting = TRUE /\ users = {}

Enter(x) == accepting /\ users' = users \cup {x} /\ UNCHANGED <<open, accepting>>

Leave(x) == users' = users \ {x} /\ UNCHANGED <<open, accepting>>

TurnAway == accepting' = FALSE /\ UNCHANGED <<open, users>>

CloseDatabase == ~accepting /\ users = {} /\ open' = FALSE /\ UNCHANGED <<accepting, users>>

TeardownNext == TurnAway \/ CloseDatabase \/ \E x \in Tasks : Enter(x) \/ Leave(x)

TeardownSpec == TeardownInit /\ [][TeardownNext]_teardownVars

=============================================================================
