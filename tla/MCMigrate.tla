----------------------------- MODULE MCMigrate -----------------------------
(* Two instances and a set of four migrations: the second is of data only, *)
(* and the last is a rebuild marked post-adoption.                         *)
EXTENDS Migrate, TLC
=============================================================================
