SPECIFICATION Spec
CONSTANTS
  c1 = c1
  c2 = c2
  Calls <- OneCall
  MaxMutations = 2
  RetryCap = 1
  MaxAborts = 0
INVARIANT ClientErrorNotResent
