-------------------------- MODULE MCMutationQueue --------------------------
(* Model values and symmetry for the runs over MutationQueue.              *)
EXTENDS MutationQueue, TLC

CONSTANTS c1, c2

OneCall == {c1}
TwoCalls == {c1, c2}
CallSymmetry == Permutations(Calls)
=============================================================================
