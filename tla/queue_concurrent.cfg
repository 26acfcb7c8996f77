SPECIFICATION FormsSpec
CONSTANTS
  c1 = c1
  c2 = c2
  f1 = f1
  f2 = f2
  Calls <- TwoCalls
  Forms <- TwoForms
  MaxMutations = 2
  RetryCap = 1
  MaxAborts = 1
SYMMETRY FormSymmetry
INVARIANTS
  InsertionOrder
  UnsavedNeverStored
  SyncedOnce
  RepeatsNeedDoubt
  LossNeedsOverlap
