SPECIFICATION FairSpec
CONSTANTS
  manager = manager
  caller = caller
  Users <- TwoUsers
  RoleOf <- TheirRoles
  Paths <- SomePaths
  Queries <- OneQuery
  MaxVersion = 0
  MaxSignIns = 1
  MaxLoads = 1
PROPERTY
  SignedInLeavesLogin
