--------------------------- MODULE MCRecordSignIn ---------------------------
\* Two people, or one twice, present a link around midnight, while another
\* request refreshes, signs out everywhere or sweeps.
EXTENDS RecordSignIn, TLC

RequestSymmetry == Permutations(Calls) \cup Permutations(Ops)

=============================================================================
