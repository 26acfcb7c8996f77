SPECIFICATION Spec
CONSTANTS
  owner = owner
  admin = admin
  boss = boss
  caller = caller
  exec = exec
  u1 = u1
  t0 = t0
  t1 = t1
  t2 = t2
  r1 = r1
  r2 = r2
  None = None
  Teams <- TwoTeams
  SeedRole <- MCSeedRole
  SeedTeam <- MCSeedTeam
  SeedManager <- MCSeedManager
  Users <- SmallUsers
  Requests <- TwoRequests
  Wanted <- ThreeRoles
  MaxFaults = 0
  MaxCrashes = 0
INVARIANTS
  AdminRowsOwnersOnly
