SPECIFICATION FairSpec
CONSTANTS
  c1 = c1
  c2 = c2
  Calls <- OneCall
  MaxMutations = 3
  RetryCap = 2
  MaxAborts = 2
INVARIANTS
  TypeOK
  StoreIsQueued
PROPERTIES
  RetriesNeverForgotten
  NothingPassedOver
  QueueDrains
  ImplementsOutbox
