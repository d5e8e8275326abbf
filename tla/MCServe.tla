------------------------------ MODULE MCServe ------------------------------
(* Process with one of each kind of background work, one stream, a second  *)
(* caller of Stop, and three readings of the clock.                         *)
EXTENDS Process
=============================================================================
