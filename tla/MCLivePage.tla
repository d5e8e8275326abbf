----------------------------- MODULE MCLivePage -----------------------------
(* LivePage on one topic with one region and one form, whose answers can   *)
(* overtake each other.                                                    *)
EXTENDS LivePage, TLC
=============================================================================
