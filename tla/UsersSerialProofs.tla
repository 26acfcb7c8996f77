-------------------------- MODULE UsersSerialProofs --------------------------
(***************************************************************************)
(* Proofs about UsersService when the backend handles one request at a     *)
(* time, for every set of users and teams and every seeded database: what  *)
(* holds whichever database calls fail and however often the backend       *)
(* stops, what else holds when none fails, and that the handlers then      *)
(* implement UserRegistry.                                                 *)
(***************************************************************************)
EXTENDS UsersSerial, UsersServiceProofs

-----------------------------------------------------------------------------
(* With one slot the invariants are facts about the request in that slot.  *)

SeqTables == AtMostOneTeam /\ LeadersExist

SeqSlot(r) ==
  SeqTables /\ ActorInv(r) /\ GateOpen(r) /\ CreatingInv(r) /\ ChangingInv(r)

ManagedInv == \A t \in Teams : t \in teams <=> manager[t] # None

LeadersInv(r) ==
  \A t \in teams :
    \/ role[manager[t]] = "MANAGER"
    \/ req[r].pc = "update" /\ req[r].target = manager[t] /\ req[r].want = "MANAGER"

SeatsInv(r) ==
  \A t \in teams : SeedManager[t] = None =>
    \/ team[manager[t]] = t
    \/ /\ req[r].pc \in {"linkTeam", "update"}
       /\ req[r].target = manager[t] /\ req[r].teamId = t

AuditInv(r) ==
  \A u \in Users : Exists(u) =>
    audited[u] = role[u] \/ (req[r].pc \in Inserted \cup {"changeAudit"} /\ req[r].target = u)

PlacedInv(r) ==
  \A u \in Users : role[u] = "MANAGER" =>
    \/ Led(u) # {} \/ team[u] # None
    \/ req[r].pc \in {"credential", "createTeam", "cleanup"} /\ req[r].target = u

TabSlot(r) ==
  ManagedInv /\ LeadersInv(r) /\ SeatsInv(r) /\ AuditInv(r) /\ PlacedInv(r) /\ UpdateInv(r)

\* SequentialInv and SerialInv, of the only slot.
LEMMA OneSlot ==
  ASSUME OneAtATime, NEW r \in Requests
  PROVE  /\ SequentialInv <=> SeqSlot(r)
         /\ SerialInv <=> SeqSlot(r) /\ TabSlot(r)
<1>1. \A s \in Requests : s = r
  BY DEF OneAtATime
<1>2. \A t : /\ Promoting(t) <=> /\ req[r].pc = "update" /\ req[r].target = manager[t]
                                 /\ req[r].want = "MANAGER"
             /\ Linking(t) <=> /\ req[r].pc \in {"linkTeam", "update"}
                               /\ req[r].target = manager[t] /\ req[r].teamId = t
             /\ Auditing(t) <=> /\ req[r].pc \in Inserted \cup {"changeAudit"}
                                /\ req[r].target = t
             /\ Placing(t) <=> /\ req[r].pc \in {"credential", "createTeam", "cleanup"}
                               /\ req[r].target = t
  BY <1>1 DEF Promoting, Linking, Auditing, Placing
<1>3. SequentialInv <=> SeqSlot(r)
  BY <1>1 DEF SequentialInv, SeqSlot, SeqTables
<1>4. TablesInv <=> ManagedInv /\ LeadersInv(r) /\ SeatsInv(r) /\ AuditInv(r) /\ PlacedInv(r)
  BY <1>2 DEF TablesInv, ManagedInv, LeadersInv, SeatsInv, AuditInv, PlacedInv
<1>5. (\A s \in Requests : UpdateInv(s)) <=> UpdateInv(r)
  BY <1>1
<1> QED BY <1>3, <1>4, <1>5 DEF SerialInv, TabSlot

\* The same of the next state.
LEMMA OneSlotNext ==
  ASSUME OneAtATime, NEW r \in Requests
  PROVE  /\ SeqSlot(r)' => SequentialInv'
         /\ SeqSlot(r)' /\ TabSlot(r)' => SerialInv'
BY OneSlot, PTL

\* A slot's request after it moved on ...
LEMMA Moved ==
  ASSUME TypeOK, NEW r \in Requests, NEW pc, Goes(r, pc)
  PROVE  /\ req'[r].pc = pc
         /\ req'[r].actor = req[r].actor /\ req'[r].claim = req[r].claim
         /\ req'[r].want = req[r].want /\ req'[r].target = req[r].target
         /\ req'[r].seen = req[r].seen /\ req'[r].teamId = req[r].teamId
BY DEF Goes, TypeOK, Request

\* ... and after it ended.
LEMMA Ended ==
  ASSUME TypeOK, NEW r \in Requests, Ends(r)
  PROVE  req'[r].pc = "idle"
BY DEF Ends, TypeOK, Idle

\* An ended request leaves nothing to say of the slot ...
LEMMA IdleSlot ==
  ASSUME NEW r \in Requests, req'[r].pc = "idle", SeqTables'
  PROVE  SeqSlot(r)'
BY DEF SeqSlot, ActorInv, GateOpen, CreatingInv, ChangingInv, Inserted, CatchSteps, Changing

\* ... and nothing is missing from the tables then.
LEMMA IdleTables ==
  ASSUME NEW r \in Requests, req'[r].pc = "idle",
         ManagedInv', LeadersInv(r)', SeatsInv(r)', AuditInv(r)', PlacedInv(r)'
  PROVE  TabSlot(r)'
BY DEF TabSlot, UpdateInv

\* A step that only reads keeps what is said of the tables alone ...
LEMMA Reads ==
  ASSUME NEW r \in Requests, SeqSlot(r), UNCHANGED tables
  PROVE  SeqTables'
BY DEF SeqSlot, SeqTables, AtMostOneTeam, LeadersExist, Exists, tables

\* ... and, before anything is written, leaves nothing missing from them.
LEMMA ReadsTables ==
  ASSUME NEW r \in Requests, TabSlot(r), UNCHANGED tables,
         req[r].pc \notin Inserted \cup {"update", "changeAudit"},
         req'[r].pc \notin {"update", "cleanup"}
  PROVE  TabSlot(r)'
<1>1. ManagedInv' /\ LeadersInv(r)'
  BY DEF TabSlot, ManagedInv, LeadersInv, tables
<1>2. SeatsInv(r)'
  BY DEF TabSlot, SeatsInv, tables, Inserted, CatchSteps
<1>3. AuditInv(r)'
  BY DEF TabSlot, AuditInv, tables, Exists
<1>4. PlacedInv(r)'
  BY DEF TabSlot, PlacedInv, tables, Inserted, CatchSteps, Led
<1>5. UpdateInv(r)'
  BY DEF UpdateInv
<1> QED BY <1>1, <1>2, <1>3, <1>4, <1>5 DEF TabSlot

\* Whoever leads a team has a row, and ...
LEMMA LeaderExists ==
  ASSUME TypeOK, LeadersExist, NEW u \in Users, Led(u) # {}
  PROVE  Exists(u)
BY SeedAssumption DEF LeadersExist, Led

\* ... is a manager, unless it is being promoted.
LEMMA LeadersRole ==
  ASSUME TypeOK, NEW r \in Requests, TabSlot(r), NEW u \in Users, Led(u) # {},
         req[r].pc # "update"
  PROVE  role[u] = "MANAGER"
BY DEF TabSlot, LeadersInv, Led

-----------------------------------------------------------------------------
(* A request begins.                                                       *)

LEMMA BeginSerial ==
  ASSUME TypeOK, NEW r \in Requests, SeqSlot(r), Begin(r)
  PROVE  SeqSlot(r)' /\ (TabSlot(r) => TabSlot(r)')
<1> DEFINE Begun == /\ req[r].pc = "idle" /\ UNCHANGED tables
                   /\ req'[r].pc \in {"resolve", "find"}
                   /\ role[req'[r].actor] = req'[r].claim
<1>1. Begun
  <2>1. ASSUME NEW a \in Users, NEW want \in Wanted, NEW t \in Teams \cup {None},
               BeginCreate(r, a, want, t)
        PROVE  Begun
    <3>1. req'[r] = [Idle EXCEPT !.pc = "resolve", !.actor = a, !.claim = role[a],
                                 !.want = want, !.teamId = t]
      BY <2>1 DEF BeginCreate, TypeOK
    <3>2. req'[r].pc = "resolve" /\ req'[r].actor = a /\ req'[r].claim = role[a]
      BY <3>1 DEF Idle
    <3> QED BY <2>1, <3>2 DEF BeginCreate
  <2>2. ASSUME NEW a \in Users, NEW want \in Wanted, NEW u \in Users,
               BeginChange(r, a, u, want)
        PROVE  Begun
    <3>1. req'[r] = [Idle EXCEPT !.pc = "find", !.actor = a, !.claim = role[a],
                                 !.want = want, !.target = u]
      BY <2>2 DEF BeginChange, TypeOK
    <3>2. req'[r].pc = "find" /\ req'[r].actor = a /\ req'[r].claim = role[a]
      BY <3>1 DEF Idle
    <3> QED BY <2>2, <3>2 DEF BeginChange
  <2> QED BY <2>1, <2>2 DEF Begin
<1>2. SeqTables' /\ (TabSlot(r) => TabSlot(r)')
  BY <1>1, Reads, ReadsTables DEF Inserted, CatchSteps
<1>3. ActorInv(r)'
  BY <1>1 DEF ActorInv, Inserted, CatchSteps, Changing, tables
<1>4. GateOpen(r)' /\ CreatingInv(r)' /\ ChangingInv(r)'
  BY <1>1 DEF GateOpen, CreatingInv, ChangingInv, Inserted, CatchSteps, Changing
<1> QED BY <1>2, <1>3, <1>4 DEF SeqSlot

-----------------------------------------------------------------------------
(* The steps of create.                                                    *)

LEMMA CreateRefusedSerial ==
  ASSUME TypeOK, NEW r \in Requests, SeqSlot(r), CreateRefused(r)
  PROVE  SeqSlot(r)' /\ (TabSlot(r) => TabSlot(r)')
<1>1. req[r].pc = "resolve" /\ UNCHANGED tables /\ req'[r].pc = "idle"
  BY Ended DEF CreateRefused
<1> QED BY <1>1, IdleSlot, Reads, ReadsTables DEF Inserted, CatchSteps

LEMMA ResolveSerial ==
  ASSUME TypeOK, NEW r \in Requests, SeqSlot(r),
         ResolveManagersTeam(r) \/ ResolveNamedTeam(r)
  PROVE  SeqSlot(r)' /\ (TabSlot(r) => TabSlot(r)')
<1>1. /\ req[r].pc = "resolve" /\ UNCHANGED tables
      /\ req'[r].pc \in {"checkTeam", "insert"}
      /\ req'[r].actor = req[r].actor /\ req'[r].claim = req[r].claim
      /\ req'[r].want = req[r].want
      /\ CanCreate(req[r].claim, req[r].want)
      /\ \/ OrgOwner(req[r].claim)
         \/ req[r].claim = "MANAGER" /\ req'[r].teamId \in Led(req[r].actor)
      /\ req'[r].pc = "insert" => req'[r].teamId = None /\ req[r].want \notin Staff
  <2>1. CASE ResolveManagersTeam(r)
    <3>1. PICK t \in Led(req[r].actor) :
            req' = [req EXCEPT ![r] = [@ EXCEPT !.pc = "checkTeam", !.teamId = t]]
      BY <2>1 DEF ResolveManagersTeam
    <3>2. /\ req'[r].pc = "checkTeam" /\ req'[r].actor = req[r].actor
          /\ req'[r].claim = req[r].claim /\ req'[r].teamId = t
          /\ req'[r].want = req[r].want
      BY <3>1 DEF TypeOK, Request
    <3> QED BY <2>1, <3>2 DEF ResolveManagersTeam
  <2>2. CASE ResolveNamedTeam(r)
    <3>1. PICK pc \in {"checkTeam", "insert"} :
            Goes(r, pc) /\ (pc = "insert" => req[r].teamId = None)
      BY <2>2 DEF ResolveNamedTeam
    <3> QED BY <2>2, <3>1, Moved DEF ResolveNamedTeam
  <2> QED BY <2>1, <2>2
<1>2. SeqTables' /\ (TabSlot(r) => TabSlot(r)')
  BY <1>1, Reads, ReadsTables DEF Inserted, CatchSteps
<1>3. ActorInv(r)'
  BY <1>1 DEF SeqSlot, ActorInv, Inserted, CatchSteps, Changing, tables
<1>4. GateOpen(r)'
  BY <1>1 DEF GateOpen, Inserted, CatchSteps, tables, Led, OrgOwner
<1>5. CreatingInv(r)' /\ ChangingInv(r)'
  BY <1>1 DEF CreatingInv, ChangingInv, Inserted, CatchSteps, Changing
<1> QED BY <1>2, <1>3, <1>4, <1>5 DEF SeqSlot

LEMMA CheckTeamSerial ==
  ASSUME TypeOK, NEW r \in Requests, SeqSlot(r), CheckTeam(r)
  PROVE  SeqSlot(r)' /\ (TabSlot(r) => TabSlot(r)')
<1>1. req[r].pc = "checkTeam" /\ UNCHANGED tables /\ req'[r].pc \in {"insert", "idle"}
  BY Moved, Ended DEF CheckTeam
<1>2. SeqTables' /\ (TabSlot(r) => TabSlot(r)')
  BY <1>1, Reads, ReadsTables DEF Inserted, CatchSteps
<1>3. CASE req[r].teamId \in teams
  <2>1. /\ req'[r].pc = "insert"
        /\ req'[r].actor = req[r].actor /\ req'[r].claim = req[r].claim
        /\ req'[r].want = req[r].want /\ req'[r].teamId = req[r].teamId
    BY <1>3, Moved DEF CheckTeam
  <2>2. ActorInv(r)'
    BY <1>1, <2>1 DEF SeqSlot, ActorInv, Inserted, CatchSteps, Changing, tables
  <2>3. GateOpen(r)'
    <3>1. req[r].teamId # None
      BY <1>3, SeedAssumption DEF TypeOK
    <3> QED BY <1>1, <1>3, <2>1, <3>1
            DEF SeqSlot, GateOpen, Inserted, CatchSteps, tables, Led, OrgOwner
  <2>4. CreatingInv(r)' /\ ChangingInv(r)'
    BY <2>1 DEF CreatingInv, ChangingInv, Inserted, CatchSteps, Changing
  <2> QED BY <1>2, <2>2, <2>3, <2>4 DEF SeqSlot
<1>4. CASE req[r].teamId \notin teams
  BY <1>2, <1>4, Ended, IdleSlot DEF CheckTeam
<1> QED BY <1>2, <1>3, <1>4

\* A row that was not there led no team.
LEMMA InsertSerial ==
  ASSUME TypeOK, NEW r \in Requests, SeqSlot(r), NEW u \in Users, InsertUser(r, u)
  PROVE  SeqSlot(r)' /\ (TabSlot(r) => TabSlot(r)')
<1>1. /\ req[r].pc = "insert" /\ role[u] = "unborn"
      /\ role' = [role EXCEPT ![u] = req[r].want]
      /\ team' = [team EXCEPT ![u] = req[r].teamId]
      /\ UNCHANGED <<account, teams, manager, audited>>
      /\ req'[r].pc = "credential" /\ req'[r].target = u
      /\ req'[r].actor = req[r].actor /\ req'[r].claim = req[r].claim
      /\ req'[r].want = req[r].want /\ req'[r].teamId = req[r].teamId
  BY DEF InsertUser, TypeOK
<1>2. /\ role \in [Users -> Roles \cup Gone] /\ team \in [Users -> Teams \cup {None}]
      /\ manager \in [Teams -> Users \cup {None}] /\ teams \subseteq Teams
      /\ req[r].actor \in Users /\ req[r].claim \in Roles /\ req[r].want \in Roles
  BY <1>1, SeedAssumption DEF TypeOK
<1>3. Led(u) = {}
  BY <1>1, LeaderExists DEF SeqSlot, SeqTables, Exists, Roles
<1>4. u # req[r].actor
  BY <1>1, <1>2 DEF SeqSlot, ActorInv, Roles
<1>5. SeqTables'
  BY <1>1, <1>2, <1>3 DEF SeqSlot, SeqTables, AtMostOneTeam, LeadersExist, Exists, Led
<1>6. ActorInv(r)'
  BY <1>1, <1>2, <1>4 DEF SeqSlot, ActorInv
<1>7. GateOpen(r)'
  BY <1>1 DEF SeqSlot, GateOpen, Led, OrgOwner, Inserted, CatchSteps
<1>8. CreatingInv(r)'
  BY <1>1, <1>2, <1>3 DEF CreatingInv, Led, Inserted, CatchSteps
<1>9. ChangingInv(r)'
  BY <1>1 DEF ChangingInv, Changing
<1>10. ASSUME TabSlot(r) PROVE TabSlot(r)'
  <2>1. ManagedInv' /\ LeadersInv(r)' /\ SeatsInv(r)'
    BY <1>1, <1>2, <1>3, <1>10 DEF TabSlot, ManagedInv, LeadersInv, SeatsInv, Led
  <2>2. AuditInv(r)'
    BY <1>1, <1>2, <1>10 DEF TabSlot, AuditInv, Exists, Inserted, CatchSteps
  <2>3. PlacedInv(r)'
    BY <1>1, <1>2, <1>10 DEF TabSlot, PlacedInv, Led
  <2> QED BY <1>1, <2>1, <2>2, <2>3 DEF TabSlot, UpdateInv
<1> QED BY <1>5, <1>6, <1>7, <1>8, <1>9, <1>10 DEF SeqSlot

LEMMA CredentialSerial ==
  ASSUME TypeOK, NEW r \in Requests, SeqSlot(r), WriteCredential(r)
  PROVE  SeqSlot(r)' /\ (TabSlot(r) => TabSlot(r)')
<1> DEFINE u == req[r].target
           new == req[r].want = "MANAGER" /\ OrgOwner(req[r].claim) /\ req[r].teamId = None
           pc == IF new THEN "createTeam" ELSE "createAudit"
<1>1. /\ req[r].pc = "credential" /\ UNCHANGED <<role, team, teams, manager, audited>>
      /\ Goes(r, pc)
  BY DEF WriteCredential
<1>2. /\ req'[r].pc = pc
      /\ req'[r].actor = req[r].actor /\ req'[r].claim = req[r].claim
      /\ req'[r].want = req[r].want /\ req'[r].target = u
      /\ req'[r].teamId = req[r].teamId
  BY <1>1, Moved
<1>3. teams \subseteq Teams /\ manager \in [Teams -> Users \cup {None}]
  BY DEF TypeOK
<1>4. \/ OrgOwner(req[r].claim)
      \/ req[r].claim = "MANAGER" /\ req[r].teamId \in Led(req[r].actor)
  BY <1>1 DEF SeqSlot, GateOpen, Inserted, CatchSteps
<1>5. /\ pc \in {"createTeam", "createAudit"}
      /\ pc = "createTeam" => req[r].want = "MANAGER" /\ OrgOwner(req[r].claim)
      /\ pc = "createAudit" /\ req[r].teamId = None => req[r].want # "MANAGER"
  BY <1>3, <1>4, SeedAssumption DEF Led
<1> HIDE DEF pc
<1>6. SeqTables'
  BY <1>1 DEF SeqSlot, SeqTables, AtMostOneTeam, LeadersExist, Exists
<1>7. ActorInv(r)'
  BY <1>1, <1>2, <1>5 DEF SeqSlot, ActorInv, Inserted, CatchSteps, Changing
<1>8. GateOpen(r)'
  BY <1>1, <1>2, <1>5 DEF SeqSlot, GateOpen, Inserted, CatchSteps, Led, OrgOwner
<1>9. CreatingInv(r)'
  BY <1>1, <1>2, <1>5 DEF SeqSlot, CreatingInv, Inserted, CatchSteps, Led, OrgOwner
<1>10. ChangingInv(r)'
  BY <1>2, <1>5 DEF ChangingInv, Changing
<1>11. ASSUME TabSlot(r) PROVE TabSlot(r)'
  <2>1. ManagedInv' /\ LeadersInv(r)' /\ SeatsInv(r)'
    BY <1>1, <1>11 DEF TabSlot, ManagedInv, LeadersInv, SeatsInv
  <2>2. AuditInv(r)'
    BY <1>1, <1>2, <1>5, <1>11 DEF TabSlot, AuditInv, Exists, Inserted, CatchSteps
  <2>3. PlacedInv(r)'
    <3>1. role[u] = req[r].want /\ team[u] = req[r].teamId
      BY <1>1 DEF SeqSlot, CreatingInv, Inserted, CatchSteps
    <3> QED BY <1>1, <1>2, <1>5, <1>11, <3>1 DEF TabSlot, PlacedInv, Led
  <2> QED BY <1>2, <1>5, <2>1, <2>2, <2>3 DEF TabSlot, UpdateInv
<1> QED BY <1>6, <1>7, <1>8, <1>9, <1>10, <1>11 DEF SeqSlot

\* What a new team leaves right, whichever handler made it: its manager led none.
LEMMA NewTeamTables ==
  ASSUME TypeOK, NEW r \in Requests, SeqSlot(r), NEW t \in Teams, NEW next,
         NewTeam(r, t, next), req[r].target \in Users, Led(req[r].target) = {},
         Exists(req[r].target)
  PROVE  /\ SeqTables' /\ Led(req[r].target)' = {t}
         /\ \A u \in Users : u # req[r].target => Led(u)' = Led(u)
         /\ \A s \in teams' : s # t => s \in teams /\ manager'[s] = manager[s]
         /\ teams \subseteq teams' /\ t \in teams'
         /\ manager'[t] = req[r].target
         /\ ManagedInv => ManagedInv'
         /\ req'[r].pc = next /\ req'[r].teamId = t
         /\ req'[r].actor = req[r].actor /\ req'[r].claim = req[r].claim
         /\ req'[r].want = req[r].want /\ req'[r].target = req[r].target
         /\ req'[r].seen = req[r].seen
<1>1. /\ t \notin teams /\ teams' = teams \cup {t}
      /\ manager' = [manager EXCEPT ![t] = req[r].target]
      /\ manager \in [Teams -> Users \cup {None}] /\ teams \subseteq Teams
      /\ UNCHANGED role
  BY DEF NewTeam, TypeOK
<1>2. req' = [req EXCEPT ![r] = [@ EXCEPT !.pc = next, !.teamId = t]]
  BY DEF NewTeam
<1>3. /\ req'[r].pc = next /\ req'[r].teamId = t
      /\ req'[r].actor = req[r].actor /\ req'[r].claim = req[r].claim
      /\ req'[r].want = req[r].want /\ req'[r].target = req[r].target
      /\ req'[r].seen = req[r].seen
  BY <1>2 DEF TypeOK, Request
<1>4. \A s \in teams : manager[s] # req[r].target
  BY DEF Led
<1>5. /\ manager'[t] = req[r].target
      /\ \A s \in Teams : s # t => manager'[s] = manager[s]
      /\ \A s \in teams' : s # t => s \in teams
  BY <1>1
<1>6. AtMostOneTeam'
  BY <1>1, <1>4, <1>5 DEF SeqSlot, SeqTables, AtMostOneTeam
<1>7. LeadersExist'
  BY <1>1, <1>5 DEF SeqSlot, SeqTables, LeadersExist, Exists
<1>8. /\ {s \in teams' : manager'[s] = req[r].target} = {t}
      /\ \A u \in Users : u # req[r].target =>
           {s \in teams' : manager'[s] = u} = {s \in teams : manager[s] = u}
  BY <1>1, <1>4, <1>5
<1>9. /\ Led(req[r].target)' = {t}
      /\ \A u \in Users : u # req[r].target => Led(u)' = Led(u)
  BY <1>3, <1>8 DEF Led
<1>10. ManagedInv => ManagedInv'
  BY <1>1, <1>5, SeedAssumption DEF ManagedInv
<1> QED BY <1>1, <1>3, <1>5, <1>6, <1>7, <1>9, <1>10 DEF SeqTables

LEMMA CreateTeamSerial ==
  ASSUME TypeOK, NEW r \in Requests, SeqSlot(r), NEW t \in Teams, CreateTeam(r, t)
  PROVE  SeqSlot(r)' /\ (TabSlot(r) => TabSlot(r)')
<1> DEFINE u == req[r].target
<1>1. /\ req[r].pc = "createTeam" /\ NewTeam(r, t, "linkTeam")
      /\ UNCHANGED <<role, team, audited>>
  BY DEF CreateTeam, NewTeam
<1>2. u \in Users /\ req[r].actor \in Users /\ req[r].want \in Roles
  BY <1>1, SeedAssumption DEF TypeOK, CatchSteps
<1>3. /\ Led(u) = {} /\ role[u] = req[r].want /\ req[r].want = "MANAGER"
      /\ CanCreate(req[r].claim, req[r].want)
      /\ OrgOwner(req[r].claim) /\ req[r].actor # u /\ role[req[r].actor] = req[r].claim
  BY <1>1 DEF SeqSlot, CreatingInv, GateOpen, ActorInv, Inserted, CatchSteps
<1>4. Exists(u)
  BY <1>2, <1>3 DEF Exists
<1>5. /\ SeqTables' /\ Led(req[r].target)' = {t}
      /\ \A w \in Users : w # u => Led(w)' = Led(w)
      /\ \A s \in teams' : s # t => s \in teams /\ manager'[s] = manager[s]
      /\ manager'[t] = u /\ (ManagedInv => ManagedInv')
      /\ req'[r].pc = "linkTeam" /\ req'[r].teamId = t
      /\ req'[r].actor = req[r].actor /\ req'[r].claim = req[r].claim
      /\ req'[r].want = req[r].want /\ req'[r].target = u
  BY <1>1, <1>2, <1>3, <1>4, NewTeamTables
<1>6. ActorInv(r)'
  BY <1>1, <1>3, <1>5 DEF ActorInv
<1>7. GateOpen(r)'
  BY <1>3, <1>5 DEF GateOpen, OrgOwner
<1>8. CreatingInv(r)'
  BY <1>1, <1>3, <1>5 DEF CreatingInv, OrgOwner
<1>9. ChangingInv(r)'
  BY <1>5 DEF ChangingInv, Changing
<1>10. ASSUME TabSlot(r) PROVE TabSlot(r)'
  <2>1. ManagedInv' /\ LeadersInv(r)'
    BY <1>1, <1>3, <1>5, <1>10 DEF TabSlot, LeadersInv
  <2>2. SeatsInv(r)'
    BY <1>1, <1>5, <1>10 DEF TabSlot, SeatsInv
  <2>3. AuditInv(r)'
    BY <1>1, <1>5, <1>10 DEF TabSlot, AuditInv, Exists, Inserted, CatchSteps
  <2>4. PlacedInv(r)'
    BY <1>1, <1>5, <1>10 DEF TabSlot, PlacedInv
  <2> QED BY <1>5, <2>1, <2>2, <2>3, <2>4 DEF TabSlot, UpdateInv
<1> QED BY <1>5, <1>6, <1>7, <1>8, <1>9, <1>10 DEF SeqSlot

\* The manager moves into the one team it leads.
LEMMA LinkTeamSerial ==
  ASSUME TypeOK, NEW r \in Requests, SeqSlot(r), LinkTeam(r)
  PROVE  SeqSlot(r)' /\ (TabSlot(r) => TabSlot(r)')
<1> DEFINE u == req[r].target
<1>1. /\ req[r].pc = "linkTeam" /\ Goes(r, "createAudit")
      /\ team' = [team EXCEPT ![u] = req[r].teamId]
      /\ UNCHANGED <<role, teams, manager, audited>>
  BY DEF LinkTeam
<1>2. u \in Users /\ team \in [Users -> Teams \cup {None}]
      /\ manager \in [Teams -> Users \cup {None}] /\ teams \subseteq Teams
  BY <1>1 DEF TypeOK, CatchSteps
<1>3. /\ req'[r].pc = "createAudit"
      /\ req'[r].actor = req[r].actor /\ req'[r].claim = req[r].claim
      /\ req'[r].want = req[r].want /\ req'[r].target = u
      /\ req'[r].teamId = req[r].teamId
  BY <1>1, Moved
<1>4. Led(u) = {req[r].teamId} /\ req[r].want = "MANAGER"
  BY <1>1 DEF SeqSlot, CreatingInv
<1>5. req[r].teamId \in teams /\ req[r].teamId # None
  BY <1>2, <1>4, SeedAssumption DEF Led
<1>6. SeqTables'
  BY <1>1 DEF SeqSlot, SeqTables, AtMostOneTeam, LeadersExist, Exists
<1>7. ActorInv(r)'
  BY <1>1, <1>3 DEF SeqSlot, ActorInv, Inserted, CatchSteps
<1>8. GateOpen(r)'
  BY <1>1, <1>3, <1>5 DEF SeqSlot, GateOpen, Inserted, CatchSteps, OrgOwner, Led
<1>9. CreatingInv(r)'
  BY <1>1, <1>2, <1>3, <1>4 DEF SeqSlot, CreatingInv, Inserted, CatchSteps, Led
<1>10. ChangingInv(r)'
  BY <1>3 DEF ChangingInv, Changing
<1>11. ASSUME TabSlot(r) PROVE TabSlot(r)'
  <2>1. ManagedInv' /\ LeadersInv(r)'
    BY <1>1, <1>11 DEF TabSlot, ManagedInv, LeadersInv
  <2>2. SeatsInv(r)'
    BY <1>1, <1>2, <1>4, <1>11 DEF TabSlot, SeatsInv, Led
  <2>3. AuditInv(r)'
    BY <1>1, <1>3, <1>11 DEF TabSlot, AuditInv, Exists, Inserted, CatchSteps
  <2>4. PlacedInv(r)'
    BY <1>1, <1>2, <1>5, <1>11 DEF TabSlot, PlacedInv, Led
  <2> QED BY <1>3, <2>1, <2>2, <2>3, <2>4 DEF TabSlot, UpdateInv
<1> QED BY <1>6, <1>7, <1>8, <1>9, <1>10, <1>11 DEF SeqSlot

\* The actor is still there, so the audit row is written.
LEMMA CreateAuditWrites ==
  ASSUME TypeOK, NEW r \in Requests, SeqSlot(r), CreateAudit(r)
  PROVE  /\ req[r].pc = "createAudit" /\ UNCHANGED <<role, team, teams, manager>>
         /\ audited' = [audited EXCEPT ![req[r].target] = req[r].want] /\ Ends(r)
         /\ role[req[r].target] = req[r].want /\ req[r].target \in Users
<1>1. /\ req[r].pc = "createAudit" /\ UNCHANGED <<role, team, teams, manager>>
      /\ req[r].claim \in Roles /\ req[r].target \in Users
  BY DEF CreateAudit, TypeOK, CatchSteps
<1>2. role[req[r].actor] = req[r].claim /\ role[req[r].target] = req[r].want
  BY <1>1 DEF SeqSlot, ActorInv, CreatingInv, Inserted, CatchSteps
<1> QED BY <1>1, <1>2 DEF CreateAudit, Exists

LEMMA CreateAuditSerial ==
  ASSUME TypeOK, NEW r \in Requests, SeqSlot(r), CreateAudit(r)
  PROVE  SeqSlot(r)' /\ (TabSlot(r) => TabSlot(r)')
<1> DEFINE u == req[r].target
<1>1. /\ req[r].pc = "createAudit" /\ UNCHANGED <<role, team, teams, manager>>
      /\ audited' = [audited EXCEPT ![u] = req[r].want] /\ Ends(r)
      /\ role[u] = req[r].want /\ u \in Users /\ audited \in [Users -> Roles \cup Gone]
  BY CreateAuditWrites DEF TypeOK
<1>2. req'[r].pc = "idle"
  BY <1>1, Ended
<1>3. SeqTables'
  BY <1>1 DEF SeqSlot, SeqTables, AtMostOneTeam, LeadersExist, Exists
<1>4. ASSUME TabSlot(r) PROVE TabSlot(r)'
  <2>1. ManagedInv' /\ LeadersInv(r)'
    BY <1>1, <1>4 DEF TabSlot, ManagedInv, LeadersInv
  <2>2. SeatsInv(r)'
    BY <1>1, <1>4 DEF TabSlot, SeatsInv
  <2>3. AuditInv(r)'
    BY <1>1, <1>4 DEF TabSlot, AuditInv, Exists
  <2>4. PlacedInv(r)'
    BY <1>1, <1>4 DEF TabSlot, PlacedInv, Led
  <2> QED BY <1>2, <2>1, <2>2, <2>3, <2>4, IdleTables
<1> QED BY <1>2, <1>3, <1>4, IdleSlot

\* The row goes, and with it what it led.
LEMMA CleanupSerial ==
  ASSUME TypeOK, NEW r \in Requests, SeqSlot(r), Cleanup(r)
  PROVE  SeqSlot(r)' /\ (TabSlot(r) => TabSlot(r)')
<1> DEFINE u == req[r].target
<1>1. /\ req[r].pc = "cleanup" /\ Ends(r) /\ UNCHANGED <<teams, audited>>
      /\ role' = [role EXCEPT ![u] = "deleted"]
      /\ team' = [team EXCEPT ![u] = None]
      /\ manager' = [t \in Teams |-> IF manager[t] = u THEN None ELSE manager[t]]
  BY DEF Cleanup
<1>2. /\ u \in Users /\ u # None /\ teams \subseteq Teams
      /\ role \in [Users -> Roles \cup Gone] /\ team \in [Users -> Teams \cup {None}]
      /\ manager \in [Teams -> Users \cup {None}]
  BY <1>1, SeedAssumption DEF TypeOK
<1>3. req'[r].pc = "idle"
  BY <1>1, Ended
<1>4. \A t \in teams : manager'[t] # None => manager'[t] = manager[t] /\ manager[t] # u
                                            /\ manager[t] \in Users
  BY <1>1, <1>2
<1>5. SeqTables'
  BY <1>1, <1>2, <1>4 DEF SeqSlot, SeqTables, AtMostOneTeam, LeadersExist, Exists
<1>6. ASSUME TabSlot(r) PROVE TabSlot(r)'
  <2>1. \A t \in Teams : manager[t] # u /\ manager'[t] = manager[t]
    BY <1>1, <1>2, <1>6 DEF TabSlot, UpdateInv, ManagedInv, Led
  <2>2. ManagedInv'
    BY <1>1, <1>6, <2>1 DEF TabSlot, ManagedInv
  <2>3. LeadersInv(r)' /\ SeatsInv(r)'
    <3>1. \A t \in teams : manager[t] \in Users
      BY <1>2, <1>6 DEF TabSlot, ManagedInv
    <3> QED BY <1>1, <1>2, <1>6, <2>1, <3>1 DEF TabSlot, LeadersInv, SeatsInv
  <2>4. AuditInv(r)'
    BY <1>1, <1>2, <1>6 DEF TabSlot, AuditInv, Exists, Roles
  <2>5. PlacedInv(r)'
    BY <1>1, <1>2, <1>6, <2>1 DEF TabSlot, PlacedInv, Led
  <2> QED BY <1>3, <2>2, <2>3, <2>4, <2>5, IdleTables
<1> QED BY <1>3, <1>5, <1>6, IdleSlot

-----------------------------------------------------------------------------
(* The steps of changeRole.                                                *)

LEMMA ChangeRefusedSerial ==
  ASSUME TypeOK, NEW r \in Requests, SeqSlot(r), ChangeRefused(r)
  PROVE  SeqSlot(r)' /\ (TabSlot(r) => TabSlot(r)')
<1>1. req[r].pc = "find" /\ UNCHANGED tables /\ req'[r].pc = "idle"
  BY Ended DEF ChangeRefused
<1> QED BY <1>1, IdleSlot, Reads, ReadsTables DEF Inserted, CatchSteps

\* What the handler notes of the row it finds.
LEMMA FindFields ==
  ASSUME TypeOK, NEW r \in Requests, FindTarget(r)
  PROVE  LET u == req[r].target
             pc == AfterFind(role[u], req[r].want)
         IN  /\ req[r].pc = "find" /\ UNCHANGED tables
             /\ u \in Users /\ role[u] \in Roles /\ u # req[r].actor
             /\ CanChange(req[r].claim, role[u], req[r].want)
             /\ pc \in {"guard", "lookup", "update"}
             /\ req'[r].pc = pc /\ req'[r].seen = role[u] /\ req'[r].teamId = team[u]
             /\ req'[r].actor = req[r].actor /\ req'[r].claim = req[r].claim
             /\ req'[r].want = req[r].want /\ req'[r].target = u
<1> DEFINE u == req[r].target
           pc == AfterFind(role[u], req[r].want)
<1>1. /\ req[r].pc = "find" /\ UNCHANGED tables
      /\ role[u] \in Roles /\ u # req[r].actor
      /\ CanChange(req[r].claim, role[u], req[r].want)
      /\ req' = [req EXCEPT ![r] = [@ EXCEPT !.pc = pc, !.seen = role[u],
                                             !.teamId = team[u]]]
  BY DEF FindTarget, MayChange, Exists
<1>2. u \in Users
  BY <1>1 DEF TypeOK, ChangeSteps
<1>3. pc \in {"guard", "lookup", "update"}
  BY DEF AfterFind
<1> HIDE DEF pc
<1>4. /\ req'[r].pc = pc /\ req'[r].seen = role[u] /\ req'[r].teamId = team[u]
      /\ req'[r].actor = req[r].actor /\ req'[r].claim = req[r].claim
      /\ req'[r].want = req[r].want /\ req'[r].target = u
  BY <1>1 DEF TypeOK, Request
<1> QED BY <1>1, <1>2, <1>3, <1>4 DEF pc

\* A row that is neither to become a manager nor was one leads no team.
LEMMA FindSerial ==
  ASSUME TypeOK, NEW r \in Requests, SeqSlot(r), FindTarget(r)
  PROVE  SeqSlot(r)' /\ (TabSlot(r) => TabSlot(r)')
<1> DEFINE u == req[r].target
           pc == AfterFind(role[u], req[r].want)
<1>1. /\ req[r].pc = "find" /\ UNCHANGED tables
      /\ u \in Users /\ role[u] \in Roles /\ u # req[r].actor
      /\ CanChange(req[r].claim, role[u], req[r].want)
      /\ req'[r].pc = pc /\ req'[r].seen = role[u] /\ req'[r].teamId = team[u]
      /\ req'[r].actor = req[r].actor /\ req'[r].claim = req[r].claim
      /\ req'[r].want = req[r].want /\ req'[r].target = u
  BY FindFields
<1>2. role[req[r].actor] = req[r].claim
  BY <1>1 DEF SeqSlot, ActorInv
<1>3. /\ pc \in {"guard", "lookup", "update"}
      /\ pc = "guard" => req[r].want # "MANAGER"
      /\ pc = "lookup" => req[r].want = "MANAGER" /\ role[u] # "MANAGER"
      /\ pc = "update" => IF req[r].want = "MANAGER" THEN role[u] = "MANAGER"
                          ELSE role[u] # "MANAGER"
  BY DEF AfterFind
<1> HIDE DEF pc
<1>4. SeqTables'
  BY <1>1, Reads
<1>5. ActorInv(r)'
  BY <1>1, <1>2, <1>3 DEF ActorInv, tables
<1>6. GateOpen(r)' /\ CreatingInv(r)'
  BY <1>1, <1>3 DEF GateOpen, CreatingInv, Inserted, CatchSteps
<1>7. ChangingInv(r)'
  BY <1>1, <1>3 DEF ChangingInv, Changing, tables
<1>8. ASSUME TabSlot(r) PROVE TabSlot(r)'
  <2>1. ManagedInv' /\ LeadersInv(r)' /\ SeatsInv(r)' /\ AuditInv(r)' /\ PlacedInv(r)'
    BY <1>1, <1>8 DEF TabSlot, ManagedInv, LeadersInv, SeatsInv, AuditInv, PlacedInv, tables,
                      Exists, Led, Inserted, CatchSteps
  <2>2. pc = "update" /\ req[r].want # "MANAGER" => Led(u) = {}
    BY <1>1, <1>3, <1>8, LeadersRole
  <2>3. UpdateInv(r)'
    BY <1>1, <1>3, <2>2 DEF UpdateInv, tables, Led
  <2> QED BY <2>1, <2>3 DEF TabSlot
<1> QED BY <1>4, <1>5, <1>6, <1>7, <1>8 DEF SeqSlot

\* What the two look-ups decide.
LEMMA GuardFields ==
  ASSUME TypeOK, NEW r \in Requests, DemotionGuard(r) \/ LookupTeam(r), ~Ends(r)
  PROVE  /\ \/ req[r].pc = "guard" /\ req'[r].pc = "update" /\ Led(req[r].target) = {}
            \/ req[r].pc = "lookup" /\ req'[r].pc = "update" /\ Led(req[r].target) # {}
            \/ req[r].pc = "lookup" /\ req'[r].pc = "newTeam" /\ Led(req[r].target) = {}
         /\ req'[r].actor = req[r].actor /\ req'[r].claim = req[r].claim
         /\ req'[r].want = req[r].want /\ req'[r].target = req[r].target
         /\ req'[r].seen = req[r].seen /\ req'[r].teamId = req[r].teamId
<1>1. PICK pc : /\ Goes(r, pc)
                /\ \/ req[r].pc = "guard" /\ pc = "update" /\ Led(req[r].target) = {}
                   \/ req[r].pc = "lookup" /\ pc = "update" /\ Led(req[r].target) # {}
                   \/ req[r].pc = "lookup" /\ pc = "newTeam" /\ Led(req[r].target) = {}
  BY DEF DemotionGuard, LookupTeam
<1> QED BY <1>1, Moved

\* A handler that goes on to a change keeps what it knows of the row.
LEMMA GuardSerial ==
  ASSUME TypeOK, NEW r \in Requests, SeqSlot(r), DemotionGuard(r) \/ LookupTeam(r)
  PROVE  SeqSlot(r)' /\ (TabSlot(r) => TabSlot(r)')
<1> DEFINE u == req[r].target
<1>1. /\ req[r].pc \in {"guard", "lookup"} /\ UNCHANGED tables /\ u \in Users
  BY DEF DemotionGuard, LookupTeam, TypeOK, ChangeSteps
<1>2. SeqTables'
  BY <1>1, Reads
<1>3. CASE Ends(r)
  <2>1. req'[r].pc = "idle"
    BY <1>3, Ended
  <2> QED BY <1>1, <1>2, <2>1, IdleSlot, ReadsTables DEF Inserted, CatchSteps
<1>4. CASE ~Ends(r)
  <2>1. /\ \/ req[r].pc = "guard" /\ req'[r].pc = "update" /\ Led(u) = {}
           \/ req[r].pc = "lookup" /\ req'[r].pc = "update" /\ Led(u) # {}
           \/ req[r].pc = "lookup" /\ req'[r].pc = "newTeam" /\ Led(u) = {}
        /\ req'[r].actor = req[r].actor /\ req'[r].claim = req[r].claim
        /\ req'[r].want = req[r].want /\ req'[r].target = u
        /\ req'[r].seen = req[r].seen /\ req'[r].teamId = req[r].teamId
    BY <1>4, GuardFields
  <2>2. ActorInv(r)'
    BY <1>1, <2>1 DEF SeqSlot, ActorInv, Changing, tables
  <2>3. GateOpen(r)' /\ CreatingInv(r)'
    BY <2>1 DEF GateOpen, CreatingInv, Inserted, CatchSteps
  <2>4. ChangingInv(r)'
    BY <1>1, <2>1 DEF SeqSlot, ChangingInv, Changing, tables, Led
  <2>5. ASSUME TabSlot(r) PROVE TabSlot(r)'
    <3>1. ManagedInv' /\ LeadersInv(r)' /\ SeatsInv(r)' /\ AuditInv(r)' /\ PlacedInv(r)'
      BY <1>1, <2>1, <2>5
         DEF TabSlot, ManagedInv, LeadersInv, SeatsInv, AuditInv, PlacedInv, tables,
             Exists, Led, Inserted, CatchSteps
    <3>2. req[r].pc = "lookup" => Led(u) = {}
      BY <1>1, <2>5, LeadersRole DEF SeqSlot, ChangingInv, Changing
    <3>3. req[r].pc = "guard" => team[u] = req[r].teamId /\ req[r].want # "MANAGER"
      BY DEF SeqSlot, ChangingInv
    <3>4. UpdateInv(r)'
      BY <1>1, <2>1, <3>2, <3>3 DEF UpdateInv, tables, Led
    <3> QED BY <3>1, <3>4 DEF TabSlot
  <2> QED BY <1>2, <2>2, <2>3, <2>4, <2>5 DEF SeqSlot
<1> QED BY <1>3, <1>4

\* Whoever leads no team before gets the new one as its only one.
LEMMA ChangeTeamSerial ==
  ASSUME TypeOK, NEW r \in Requests, SeqSlot(r), NEW t \in Teams, ChangeTeam(r, t)
  PROVE  SeqSlot(r)' /\ (TabSlot(r) => TabSlot(r)')
<1> DEFINE u == req[r].target
<1>1. /\ req[r].pc = "newTeam" /\ NewTeam(r, t, "update") /\ Exists(u)
      /\ UNCHANGED <<role, team, audited>>
  BY DEF ChangeTeam, NewTeam
<1>2. u \in Users
  BY <1>1 DEF TypeOK, ChangeSteps
<1>3. /\ role[u] = req[r].seen /\ req[r].seen # "MANAGER" /\ req[r].want = "MANAGER"
      /\ req[r].seen \in Roles /\ CanChange(req[r].claim, req[r].seen, req[r].want)
      /\ req[r].actor # u /\ role[req[r].actor] = req[r].claim
      /\ Led(u) = {}
  BY <1>1 DEF SeqSlot, ChangingInv, ActorInv, Changing
<1>4. /\ SeqTables' /\ Led(req[r].target)' = {t}
      /\ \A w \in Users : w # u => Led(w)' = Led(w)
      /\ \A s \in teams' : s # t => s \in teams /\ manager'[s] = manager[s]
      /\ manager'[t] = u /\ (ManagedInv => ManagedInv')
      /\ req'[r].pc = "update" /\ req'[r].teamId = t
      /\ req'[r].actor = req[r].actor /\ req'[r].claim = req[r].claim
      /\ req'[r].want = req[r].want /\ req'[r].target = u /\ req'[r].seen = req[r].seen
  BY <1>1, <1>2, <1>3, NewTeamTables
<1>5. ActorInv(r)'
  BY <1>1, <1>3, <1>4 DEF ActorInv
<1>6. GateOpen(r)' /\ CreatingInv(r)'
  BY <1>4 DEF GateOpen, CreatingInv, Inserted, CatchSteps
<1>7. ChangingInv(r)'
  BY <1>1, <1>3, <1>4 DEF ChangingInv, Changing
<1>8. ASSUME TabSlot(r) PROVE TabSlot(r)'
  <2>1. ManagedInv' /\ LeadersInv(r)'
    BY <1>1, <1>3, <1>4, <1>8 DEF TabSlot, LeadersInv
  <2>2. SeatsInv(r)'
    BY <1>1, <1>4, <1>8 DEF TabSlot, SeatsInv
  <2>3. AuditInv(r)'
    BY <1>1, <1>4, <1>8 DEF TabSlot, AuditInv, Exists, Inserted, CatchSteps
  <2>4. PlacedInv(r)'
    BY <1>1, <1>4, <1>8 DEF TabSlot, PlacedInv
  <2>5. UpdateInv(r)'
    BY <1>3, <1>4 DEF UpdateInv
  <2> QED BY <2>1, <2>2, <2>3, <2>4, <2>5 DEF TabSlot
<1> QED BY <1>4, <1>5, <1>6, <1>7, <1>8 DEF SeqSlot

\* A demoted row leads no team, and the team written back is the row's or its new one.
LEMMA UpdateSerial ==
  ASSUME TypeOK, NEW r \in Requests, SeqSlot(r), UpdateRole(r)
  PROVE  SeqSlot(r)' /\ (TabSlot(r) => TabSlot(r)')
<1> DEFINE u == req[r].target
<1>1. /\ req[r].pc = "update" /\ Goes(r, "changeAudit")
      /\ role' = [role EXCEPT ![u] = req[r].want]
      /\ team' = [team EXCEPT ![u] = req[r].teamId]
      /\ UNCHANGED <<teams, manager, audited>>
  BY DEF UpdateRole
<1>2. /\ u \in Users /\ role \in [Users -> Roles \cup Gone]
      /\ team \in [Users -> Teams \cup {None}]
      /\ manager \in [Teams -> Users \cup {None}] /\ teams \subseteq Teams
      /\ req[r].actor \in Users /\ req[r].want \in Roles
  BY <1>1, SeedAssumption DEF TypeOK, ChangeSteps
<1>3. /\ req'[r].pc = "changeAudit"
      /\ req'[r].actor = req[r].actor /\ req'[r].claim = req[r].claim
      /\ req'[r].want = req[r].want /\ req'[r].target = u
  BY <1>1, Moved
<1>4. role[u] = req[r].seen
  BY <1>1 DEF SeqSlot, ChangingInv, Changing
<1>5. SeqTables'
  BY <1>1, <1>2 DEF SeqSlot, SeqTables, AtMostOneTeam, LeadersExist, Exists
<1>6. ActorInv(r)'
  BY <1>1, <1>2, <1>3 DEF SeqSlot, ActorInv, Changing
<1>7. GateOpen(r)' /\ CreatingInv(r)'
  BY <1>3 DEF GateOpen, CreatingInv, Inserted, CatchSteps
<1>8. ChangingInv(r)'
  BY <1>1, <1>2, <1>3 DEF ChangingInv, Changing
<1>9. ASSUME TabSlot(r) PROVE TabSlot(r)'
  <2>1. IF req[r].want = "MANAGER" /\ req[r].seen # "MANAGER"
        THEN Led(u) = {req[r].teamId}
        ELSE team[u] = req[r].teamId /\ (req[r].want # "MANAGER" => Led(u) = {})
    BY <1>1, <1>9 DEF TabSlot, UpdateInv
  <2>2. ManagedInv' /\ LeadersInv(r)'
    BY <1>1, <1>2, <1>9, <2>1 DEF TabSlot, ManagedInv, LeadersInv, Led
  <2>3. SeatsInv(r)'
    BY <1>1, <1>2, <1>9, <2>1 DEF TabSlot, SeatsInv, Led
  <2>4. AuditInv(r)'
    BY <1>1, <1>2, <1>3, <1>9 DEF TabSlot, AuditInv, Exists, Inserted, CatchSteps
  <2>5. PlacedInv(r)'
    <3>1. Led(u)' = Led(u)
      BY <1>1, <1>3 DEF Led
    <3>2. req[r].want = "MANAGER" => Led(u) # {} \/ req[r].teamId # None
      BY <1>1, <1>2, <1>4, <1>9, <2>1 DEF TabSlot, PlacedInv
    <3> QED BY <1>1, <1>2, <1>9, <3>1, <3>2 DEF TabSlot, PlacedInv, Led
  <2> QED BY <1>3, <2>2, <2>3, <2>4, <2>5 DEF TabSlot, UpdateInv
<1> QED BY <1>5, <1>6, <1>7, <1>8, <1>9 DEF SeqSlot

\* The target is where it was found.
LEMMA TargetStays ==
  ASSUME NEW r \in Requests, SeqSlot(r)
  PROVE  ~TargetGone(r)
BY DEF TargetGone, SeqSlot, ChangingInv, Changing, Exists

\* The audit row closes the gap between the row and the log.
LEMMA ChangeAuditWrites ==
  ASSUME TypeOK, NEW r \in Requests, SeqSlot(r), ChangeAudit(r)
  PROVE  /\ req[r].pc = "changeAudit" /\ UNCHANGED <<role, team, teams, manager>>
         /\ audited' = [audited EXCEPT ![req[r].target] = req[r].want] /\ Ends(r)
         /\ role[req[r].target] = req[r].want /\ req[r].target \in Users
<1>1. /\ req[r].pc = "changeAudit" /\ UNCHANGED <<role, team, teams, manager>> /\ Ends(r)
      /\ req[r].claim \in Roles /\ req[r].target \in Users
  BY DEF ChangeAudit, TypeOK, ChangeSteps
<1>2. role[req[r].actor] = req[r].claim /\ role[req[r].target] = req[r].want
  BY <1>1 DEF SeqSlot, ActorInv, ChangingInv
<1> QED BY <1>1, <1>2 DEF ChangeAudit, Exists

LEMMA ChangeAuditSerial ==
  ASSUME TypeOK, NEW r \in Requests, SeqSlot(r), ChangeAudit(r)
  PROVE  SeqSlot(r)' /\ (TabSlot(r) => TabSlot(r)')
<1> DEFINE u == req[r].target
<1>1. /\ req[r].pc = "changeAudit" /\ UNCHANGED <<role, team, teams, manager>>
      /\ audited' = [audited EXCEPT ![u] = req[r].want] /\ Ends(r)
      /\ role[u] = req[r].want /\ u \in Users /\ audited \in [Users -> Roles \cup Gone]
  BY ChangeAuditWrites DEF TypeOK
<1>2. req'[r].pc = "idle"
  BY <1>1, Ended
<1>3. SeqTables'
  BY <1>1 DEF SeqSlot, SeqTables, AtMostOneTeam, LeadersExist, Exists
<1>4. ASSUME TabSlot(r) PROVE TabSlot(r)'
  <2>1. ManagedInv' /\ LeadersInv(r)'
    BY <1>1, <1>4 DEF TabSlot, ManagedInv, LeadersInv
  <2>2. SeatsInv(r)'
    BY <1>1, <1>4 DEF TabSlot, SeatsInv
  <2>3. AuditInv(r)'
    BY <1>1, <1>4 DEF TabSlot, AuditInv, Exists, Inserted, CatchSteps
  <2>4. PlacedInv(r)'
    BY <1>1, <1>4 DEF TabSlot, PlacedInv, Led
  <2> QED BY <1>2, <2>1, <2>2, <2>3, <2>4, IdleTables
<1> QED BY <1>2, <1>3, <1>4, IdleSlot

-----------------------------------------------------------------------------
(* A database call fails, or an id runs out.                               *)

\* Whatever throws, the request ends or goes to its cleanup with the tables as they are.
LEMMA ThrowsSlot ==
  ASSUME TypeOK, NEW r \in Requests, SeqSlot(r), UNCHANGED tables, Throws(r)
  PROVE  SeqSlot(r)'
<1>1. SeqTables'
  BY Reads
<1>2. CASE req[r].pc \notin CatchSteps
  BY <1>1, <1>2, Ended, IdleSlot DEF Throws
<1>3. CASE req[r].pc \in CatchSteps
  <2>1. /\ req'[r].pc = "cleanup"
        /\ req'[r].actor = req[r].actor /\ req'[r].claim = req[r].claim
        /\ req'[r].want = req[r].want /\ req'[r].target = req[r].target
        /\ req'[r].teamId = req[r].teamId
    BY <1>3, Moved DEF Throws
  <2>2. ActorInv(r)'
    BY <1>3, <2>1 DEF SeqSlot, ActorInv, Inserted, CatchSteps, tables
  <2>3. GateOpen(r)'
    <3>1. OrgOwner(req[r].claim) \/ (req[r].claim = "MANAGER" /\ req[r].teamId \in Led(req[r].actor))
      BY <1>3 DEF SeqSlot, GateOpen, Inserted
    <3>2. CanCreate(req[r].claim, req[r].want)
      BY <1>3 DEF SeqSlot, GateOpen, Inserted
    <3> QED BY <2>1, <3>1, <3>2 DEF GateOpen, tables, Led, OrgOwner
  <2>4. CreatingInv(r)'
    BY <1>3, <2>1 DEF SeqSlot, CreatingInv, Inserted, CatchSteps, tables
  <2>5. ChangingInv(r)'
    BY <2>1 DEF ChangingInv, Changing
  <2> QED BY <1>1, <2>2, <2>3, <2>4, <2>5 DEF SeqSlot
<1> QED BY <1>2, <1>3

\* A new manager whose team could not be made leads none when its row is taken back.
LEMMA OutOfIdsSerial ==
  ASSUME TypeOK, NEW r \in Requests, SeqSlot(r), OutOfIds(r)
  PROVE  SeqSlot(r)' /\ (TabSlot(r) => TabSlot(r)')
<1>1. req[r].pc \in {"insert", "createTeam", "newTeam"} /\ UNCHANGED tables /\ Throws(r)
  BY DEF OutOfIds
<1>2. SeqSlot(r)'
  BY <1>1, ThrowsSlot
<1>3. ASSUME TabSlot(r), req[r].pc # "createTeam" PROVE TabSlot(r)'
  <2>1. req'[r].pc = "idle"
    BY <1>1, <1>3, Ended DEF Throws, CatchSteps
  <2> QED BY <1>1, <1>3, <2>1, ReadsTables DEF Inserted, CatchSteps
<1>4. ASSUME TabSlot(r), req[r].pc = "createTeam" PROVE TabSlot(r)'
  <2>1. req'[r].pc = "cleanup" /\ req'[r].target = req[r].target
    BY <1>1, <1>4, Moved DEF Throws, CatchSteps
  <2>2. Led(req[r].target) = {}
    BY <1>4 DEF SeqSlot, CreatingInv
  <2>3. ManagedInv' /\ LeadersInv(r)' /\ SeatsInv(r)'
    BY <1>1, <1>4 DEF TabSlot, ManagedInv, LeadersInv, SeatsInv, tables
  <2>4. AuditInv(r)' /\ PlacedInv(r)'
    BY <1>1, <1>4, <2>1
       DEF TabSlot, AuditInv, PlacedInv, tables, Exists, Led, Inserted, CatchSteps
  <2>5. UpdateInv(r)'
    BY <1>1, <2>1, <2>2 DEF UpdateInv, tables, Led
  <2> QED BY <2>3, <2>4, <2>5 DEF TabSlot
<1> QED BY <1>2, <1>3, <1>4

-----------------------------------------------------------------------------
(* The invariants.                                                         *)

\* The seeded database satisfies both.
LEMMA InitSerial == Init => SequentialInv /\ SerialInv
<1> SUFFICES ASSUME Init PROVE SequentialInv /\ SerialInv
  OBVIOUS
<1>1. \A r \in Requests : req[r].pc = "idle"
  BY DEF Init, Idle
<1>2. \A r \in Requests :
        ActorInv(r) /\ GateOpen(r) /\ CreatingInv(r) /\ ChangingInv(r) /\ UpdateInv(r)
  BY <1>1 DEF ActorInv, GateOpen, CreatingInv, ChangingInv, UpdateInv, Inserted, CatchSteps,
              Changing
<1>3. AtMostOneTeam /\ LeadersExist
  BY SeedAssumption, SeedConsistent DEF Init, AtMostOneTeam, LeadersExist, Exists, Roles
<1>4. TablesInv
  <2>1. \A t \in Teams : t \in teams <=> manager[t] # None
    BY DEF Init
  <2>2. \A t \in teams : role[manager[t]] = "MANAGER" /\ SeedManager[t] # None
    BY SeedAssumption, SeedConsistent DEF Init
  <2>3. \A u \in Users : audited[u] = role[u]
    BY DEF Init
  <2>4. \A u \in Users : role[u] = "MANAGER" => Led(u) # {}
    BY SeedAssumption, SeedConsistent DEF Init, Led
  <2> QED BY <2>1, <2>2, <2>3, <2>4 DEF TablesInv
<1> QED BY <1>2, <1>3, <1>4 DEF SequentialInv, SerialInv

\* The steps of a request other than failures keep both.
LEMMA HandlerSerial ==
  ASSUME TypeOK, NEW r \in Requests, SeqSlot(r),
         Begin(r) \/ CreateStep(r) \/ ChangeStep(r) \/ OutOfIds(r)
  PROVE  SeqSlot(r)' /\ (TabSlot(r) => TabSlot(r)')
<1>1. CASE Begin(r)
  BY <1>1, BeginSerial
<1>2. CASE CreateStep(r)
  BY <1>2, CreateRefusedSerial, ResolveSerial, CheckTeamSerial, InsertSerial,
     CredentialSerial, CreateTeamSerial, LinkTeamSerial, CreateAuditSerial, CleanupSerial
     DEF CreateStep
<1>3. CASE ChangeStep(r)
  BY <1>3, ChangeRefusedSerial, FindSerial, GuardSerial, ChangeTeamSerial,
     UpdateSerial, TargetStays, ChangeAuditSerial DEF ChangeStep
<1>4. CASE OutOfIds(r)
  BY <1>4, OutOfIdsSerial
<1> QED BY <1>1, <1>2, <1>3, <1>4

\* A step of a slot, a refusal or a stop keeps the invariant of one request at a time.
LEMMA StepSequential ==
  ASSUME OneAtATime, TypeOK, SequentialInv, [Next]_vars
  PROVE  SequentialInv'
<1>1. CASE UNCHANGED vars
  BY <1>1 DEF vars, tables, SequentialInv, AtMostOneTeam, LeadersExist, Exists, ActorInv,
              GateOpen, CreatingInv, ChangingInv, Led
<1>2. CASE Crash
  <2>1. UNCHANGED tables /\ \A r \in Requests : req'[r].pc = "idle"
    BY <1>2 DEF Crash, Idle
  <2>2. (AtMostOneTeam /\ LeadersExist)'
    BY <2>1 DEF SequentialInv, AtMostOneTeam, LeadersExist, Exists, tables
  <2>3. ASSUME NEW r \in Requests
        PROVE  (ActorInv(r) /\ GateOpen(r) /\ CreatingInv(r) /\ ChangingInv(r))'
    BY <2>1 DEF ActorInv, GateOpen, CreatingInv, ChangingInv, Inserted, CatchSteps, Changing
  <2> QED BY <2>2, <2>3 DEF SequentialInv
<1>3. ASSUME NEW r \in Requests,
             Begin(r) \/ CreateStep(r) \/ ChangeStep(r) \/ Refused(r) \/ OutOfIds(r)
      PROVE  SequentialInv'
  <2>1. SeqSlot(r)
    BY OneSlot
  <2>2. SUFFICES SeqSlot(r)'
    BY OneSlotNext
  <2>3. CASE Refused(r)
    BY <2>1, <2>3, ThrowsSlot DEF Refused
  <2> QED BY <1>3, <2>1, <2>3, HandlerSerial
<1> QED BY <1>1, <1>2, <1>3 DEF Next

\* Without failures every step keeps the stronger one too.
LEMMA StepSerial ==
  ASSUME OneByOne, TypeOK, SerialInv, [Next]_vars
  PROVE  SerialInv'
<1>1. CASE UNCHANGED vars
  BY <1>1 DEF vars, tables, SerialInv, SequentialInv, TablesInv, AtMostOneTeam, LeadersExist,
              Promoting, Linking, Auditing, Placing, Exists, ActorInv, GateOpen,
              CreatingInv, ChangingInv, UpdateInv, Led
<1>2. CASE Crash
  BY <1>2 DEF Crash, TypeOK, OneByOne
<1>3. ASSUME NEW r \in Requests,
             Begin(r) \/ CreateStep(r) \/ ChangeStep(r) \/ Refused(r) \/ OutOfIds(r)
      PROVE  SerialInv'
  <2>1. SeqSlot(r) /\ TabSlot(r)
    BY OneSlot DEF OneByOne
  <2>2. SUFFICES SeqSlot(r)' /\ TabSlot(r)'
    BY OneSlotNext DEF OneByOne
  <2>3. CASE Refused(r)
    BY <2>3 DEF Refused, TypeOK, OneByOne
  <2> QED BY <1>3, <2>1, <2>3, HandlerSerial
<1> QED BY <1>1, <1>2, <1>3 DEF Next

\* What one request at a time keeps true of the tables and of the handler's locals,
\* whichever database calls fail and however often the backend stops.
THEOREM SequentialCorrect ==
  ASSUME OneAtATime
  PROVE  Spec => []SequentialInv
BY InitSerial, StepSequential, TypeCorrect, PTL DEF Spec

\* What is missing from the tables, without failures, is what the handler in progress
\* has yet to write.
THEOREM SerialCorrect ==
  ASSUME OneByOne
  PROVE  Spec => []SerialInv
BY InitSerial, StepSerial, TypeCorrect, PTL DEF Spec

-----------------------------------------------------------------------------
(* What a run checks of the tables between requests, or of one step.       *)

\* Request after request the audit log replays to the roles in the table: what is not
\* logged is what the handler in progress has yet to log.
THEOREM LogIsComplete ==
  ASSUME OneByOne
  PROVE  Spec => []AuditReplays
<1>1. SerialInv => AuditReplays
  BY DEF SerialInv, TablesInv, AuditReplays, Quiet, Auditing, Inserted, CatchSteps
<1> QED BY <1>1, SerialCorrect, PTL

\* Between requests every team's manager has the role MANAGER: a change that would
\* take it from a leader is refused, and whoever gets a team gets the role.
THEOREM LeadersManage ==
  ASSUME OneByOne
  PROVE  Spec => []LeadersAreManagers
<1>1. SerialInv => LeadersAreManagers
  BY DEF SerialInv, TablesInv, LeadersAreManagers, Quiet, Promoting
<1> QED BY <1>1, SerialCorrect, PTL

\* Between requests the manager of a team made for it is one of its members, however
\* often its row is written back by a later change of role.
THEOREM LeadersSit ==
  ASSUME OneByOne
  PROVE  Spec => []LeadersSitInTheirTeam
<1>1. SerialInv => LeadersSitInTheirTeam
  BY DEF SerialInv, TablesInv, LeadersSitInTheirTeam, Quiet, Linking
<1> QED BY <1>1, SerialCorrect, PTL

\* Between requests no manager is without any team: create and changeRole make one for
\* whoever would be, and no later write of a row takes its team away.
THEOREM ManagersHaveTeams ==
  ASSUME OneByOne
  PROVE  Spec => []ManagersBelong
<1>1. SerialInv => ManagersBelong
  BY DEF SerialInv, TablesInv, ManagersBelong, Quiet, Placing
<1> QED BY <1>1, SerialCorrect, PTL

\* Nobody is given a second team, also in the middle of a request and after any failure:
\* a team is made only for a row inserted by the same request or one that leads none.
THEOREM OneTeamEach ==
  ASSUME OneAtATime
  PROVE  Spec => []AtMostOneTeam
<1>1. SequentialInv => AtMostOneTeam
  BY DEF SequentialInv
<1> QED BY <1>1, SequentialCorrect, PTL

\* The only step that gives an existing row another role is changeRole's update, and
\* the roles its gate compared are still those of the actor and of the row.
THEOREM TouchedOutranked ==
  ASSUME OneAtATime
  PROVE  Spec => OnlyOutrankedTouched
<1> DEFINE Touch ==
      \A u \in Users :
        Exists(u) /\ role'[u] \in Roles /\ role'[u] # role[u]
          => \E r \in Requests :
               /\ Outranks(role[req[r].actor], role[u])
               /\ req[r].actor # u
<1>1. TypeOK /\ SequentialInv /\ [Next]_vars => [Touch]_vars
  <2> SUFFICES ASSUME TypeOK, SequentialInv, Next, NEW u \in Users, Exists(u),
                      role'[u] \in Roles, role'[u] # role[u]
               PROVE  \E r \in Requests :
                        /\ Outranks(role[req[r].actor], role[u])
                        /\ req[r].actor # u
    BY DEF vars
  <2>1. PICK r \in Requests : UpdateRole(r) /\ u = req[r].target
    <3>1. role \in [Users -> Roles \cup Gone] /\ role' # role
      BY DEF TypeOK
    <3>2. \A r \in Requests : ~Begin(r) /\ ~Refused(r) /\ ~OutOfIds(r)
      BY <3>1 DEF Begin, BeginCreate, BeginChange, Refused, OutOfIds, tables
    <3>3. ~Crash
      BY <3>1 DEF Crash, tables
    <3>4. PICK r \in Requests : CreateStep(r) \/ ChangeStep(r)
      BY <3>2, <3>3 DEF Next
    <3>5. ASSUME NEW v \in Users, InsertUser(r, v) PROVE FALSE
      <4>1. role[v] = "unborn" /\ \A w \in Users : w # v => role'[w] = role[w]
        BY <3>1, <3>5 DEF InsertUser
      <4> QED BY <4>1 DEF Exists, Roles
    <3>6. ~Cleanup(r)
      BY <3>1 DEF Cleanup, Roles
    <3>7. ~CreateStep(r)
      BY <3>1, <3>5, <3>6
         DEF CreateStep, CreateRefused, ResolveManagersTeam, ResolveNamedTeam, CheckTeam,
             WriteCredential, CreateTeam, NewTeam, LinkTeam, CreateAudit, tables
    <3>8. UpdateRole(r)
      BY <3>1, <3>4, <3>7
         DEF ChangeStep, ChangeRefused, FindTarget, DemotionGuard, LookupTeam, ChangeTeam,
             NewTeam, TargetGone, ChangeAudit, tables
    <3> QED BY <3>1, <3>8 DEF UpdateRole
  <2>2. req[r].pc = "update"
    BY <2>1 DEF UpdateRole
  <2>3. /\ role[req[r].actor] = req[r].claim /\ req[r].target # req[r].actor
        /\ role[u] = req[r].seen /\ CanChange(req[r].claim, req[r].seen, req[r].want)
    BY <2>1, <2>2 DEF SequentialInv, ActorInv, ChangingInv, Changing
  <2> QED BY <2>1, <2>3 DEF CanChange
<1>2. [][Touch]_vars => OnlyOutrankedTouched
  BY DEF OnlyOutrankedTouched
<1> QED BY <1>1, <1>2, SequentialCorrect, TypeCorrect, PTL DEF Spec

\* What list finds for the creator has the new row: an org owner sees every row, and
\* the team a manager created in is the only one findFirst can find it leading.
THEOREM CreatedListed ==
  ASSUME OneAtATime
  PROVE  Spec => CreatedIsListed
<1> DEFINE Listed ==
      \A r \in Requests :
        req[r].pc = "createAudit" /\ req'[r].pc = "idle"
          => \A us \in Listings(req[r].claim, req[r].actor) : req[r].target \in us
<1>1. TypeOK /\ SequentialInv => Listed
  <2> SUFFICES ASSUME TypeOK, SequentialInv, NEW r \in Requests, req[r].pc = "createAudit",
                      NEW us \in Listings(req[r].claim, req[r].actor)
               PROVE  req[r].target \in us
    OBVIOUS
  <2>1. /\ req[r].target \in Users /\ req[r].want \in Roles
        /\ req[r].actor \in Users
    BY SeedAssumption DEF TypeOK, CatchSteps
  <2>2. /\ role[req[r].target] = req[r].want /\ team[req[r].target] = req[r].teamId
        /\ \/ OrgOwner(req[r].claim)
           \/ req[r].claim = "MANAGER" /\ req[r].teamId \in Led(req[r].actor)
    BY DEF SequentialInv, CreatingInv, GateOpen, Inserted, CatchSteps
  <2>3. Exists(req[r].target)
    BY <2>1, <2>2 DEF Exists
  <2>4. CASE OrgOwner(req[r].claim)
    BY <2>1, <2>3, <2>4 DEF Listings
  <2>5. CASE ~OrgOwner(req[r].claim)
    <3>1. req[r].claim = "MANAGER" /\ req[r].teamId \in Led(req[r].actor)
      BY <2>2, <2>5
    <3>2. \A t \in Led(req[r].actor) : t = req[r].teamId
      BY <2>1, <3>1, SeedAssumption DEF SequentialInv, AtMostOneTeam, Led
    <3>3. us = {u \in Users : Exists(u) /\ team[u] = req[r].teamId}
      BY <2>5, <3>1, <3>2 DEF Listings
    <3> QED BY <2>1, <2>2, <2>3, <3>3
  <2> QED BY <2>4, <2>5
<1>2. [][Listed]_vars => CreatedIsListed
  BY DEF CreatedIsListed
<1> QED BY <1>1, <1>2, SequentialCorrect, TypeCorrect, PTL DEF Spec
=============================================================================
