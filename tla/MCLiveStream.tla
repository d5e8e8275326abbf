---------------------------- MODULE MCLiveStream ----------------------------
(* LiveStream with one client that follows two topics, two slots and room  *)
(* for one stream: the cap is met while a handler whose client is gone     *)
(* keeps its place, and a cut falls between two events of one pass.        *)
EXTENDS LiveStream, TLC
=============================================================================
