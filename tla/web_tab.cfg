SPECIFICATION FairSpec
CONSTANTS
  manager = manager
  caller = caller
  Users <- TwoUsers
  RoleOf <- TheirRoles
  Paths <- SomePaths
  Queries <- OneQuery
  MaxVersion = 1
  MaxSignIns = 1
  MaxLoads = 1
INVARIANTS
  TabTypeOK
  FreshIsCurrent
  NothingSaidUnasked
PROPERTIES
  RefusedReachesLogin
  FormSettles
