--------------------------- MODULE MCCallControl ---------------------------
(* Values for model-checking CallControl: calls are interchangeable.       *)
EXTENDS CallControl, TLC

CallSymmetry == Permutations(Calls)

=============================================================================
