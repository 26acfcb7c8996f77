SPECIFICATION Spec
CONSTANTS
  c1 = c1
  c2 = c2
  Calls <- TwoCalls
  MaxMutations = 2
  RetryCap = 1
  MaxAborts = 0
SYMMETRY CallSymmetry
INVARIANT NoLostMutation
