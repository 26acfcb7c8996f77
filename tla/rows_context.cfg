SPECIFICATION Spec
CONSTANTS
  owner = owner
  boss = boss
  caller = caller
  t1 = t1
  t2 = t2
  l1 = l1
  k1 = k1
  k2 = k2
  Null = Null
  Users <- MCUsers
  Teams <- MCTeams
  Leads <- MCLeads
  Conns <- MCConns
  Children <- MCChildren
  Contexts <- MCContexts
SYMMETRY ConnSymmetry
INVARIANTS
  TypeOK
  SeesItsOwn
  FailClosed
PROPERTIES
  ImplementsBook
  LeadsChangeHands
  RemindersAreOnesOwn
