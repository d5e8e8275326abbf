--------------------------- MODULE MCSecondFactor ---------------------------
(* SecondFactor for model checking: the members of each set are alike.     *)
EXTENDS SecondFactor, TLC

DrawSymmetry == Permutations(Requests) \cup Permutations(Halves)
                    \cup Permutations(Secrets) \cup Permutations(RecoveryCodes)
=============================================================================
