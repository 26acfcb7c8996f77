------------------------- MODULE UserRegistryProofs -------------------------
(***************************************************************************)
(* Proof that UsersService, handling one request after another without     *)
(* failures, implements UserRegistry: each of its steps is a step of the   *)
(* registry or changes nothing of what the registry shows.                 *)
(***************************************************************************)
EXTENDS UsersSerialProofs

-----------------------------------------------------------------------------
(* The registry as the request in the only slot lets it be seen.           *)

\* The row of u is not finished, team t's manager has its old role, the change of u's
\* role is not logged.
Hides(r, u) == req[r].pc \in Inserted /\ req[r].target = u

HidesTeam(r, t) ==
  \/ Hides(r, manager[t])
  \/ req[r].pc = "update" /\ req[r].target = manager[t] /\ req[r].seen # "MANAGER"

Logs(r, u) == req[r].pc = "changeAudit" /\ req[r].target = u

RoleSeen(r) == [u \in Users |-> IF Hides(r, u) THEN "unborn" ELSE role[u]]

TeamSeen(r) == [u \in Users |-> IF Exists(u) /\ ~Hides(r, u) THEN team[u] ELSE None]

LeaderSeen(r) == [t \in Teams |-> IF HidesTeam(r, t) THEN None ELSE manager[t]]

LogSeen(r) == [u \in Users |-> IF Logs(r, u) THEN role[u] ELSE audited[u]]

AsksSeen(r) == IF req[r].pc \in {"idle", "changeAudit"} THEN {} ELSE {AskOf(req[r])}

SeenInSlot(r) ==
  /\ RegRole = RoleSeen(r) /\ RegTeam = TeamSeen(r) /\ RegLeader = LeaderSeen(r)
  /\ RegLog = LogSeen(r) /\ RegAsks = AsksSeen(r)

LEMMA Seen ==
  ASSUME OneAtATime, NEW r \in Requests
  PROVE  SeenInSlot(r)
<1>1. \A s \in Requests : s = r
  BY DEF OneAtATime
<1>2. /\ \A u : Unfinished(u) <=> Hides(r, u)
      /\ \A t : Unfinished(manager[t]) \/ Founding(t) <=> HidesTeam(r, t)
      /\ \A u : Recording(u) <=> Logs(r, u)
  BY <1>1 DEF Unfinished, Founding, Recording, Hides, HidesTeam, Logs
<1>3. RegRole = RoleSeen(r) /\ RegTeam = TeamSeen(r)
  BY <1>2 DEF RegRole, RegTeam, RoleSeen, TeamSeen
<1>4. RegLeader = LeaderSeen(r) /\ RegLog = LogSeen(r)
  BY <1>2 DEF RegLeader, RegLog, LeaderSeen, LogSeen
<1>5. RegAsks = AsksSeen(r)
  <2>1. Open = IF req[r].pc \in {"idle", "changeAudit"} THEN {} ELSE {r}
    BY <1>1 DEF Open
  <2>2. CASE req[r].pc \in {"idle", "changeAudit"}
    BY <2>1, <2>2 DEF RegAsks, AsksSeen
  <2>3. CASE req[r].pc \notin {"idle", "changeAudit"}
    <3>1. Open = {r}
      BY <2>1, <2>3
    <3>2. {AskOf(req[s]) : s \in {r}} = {AskOf(req[r])}
      OBVIOUS
    <3> QED BY <2>3, <3>1, <3>2 DEF RegAsks, AsksSeen
  <2> QED BY <2>2, <2>3
<1> QED BY <1>3, <1>4, <1>5 DEF SeenInSlot

LEMMA SeenNext ==
  ASSUME OneAtATime, NEW r \in Requests
  PROVE  SeenInSlot(r)'
BY Seen, PTL

\* The registry judges by the same rules.
LEMMA SameRules ==
  /\ Registry!Roles = Roles
  /\ \A a, b : Registry!CanCreate(a, b) <=> CanCreate(a, b)
  /\ \A a, b, c : Registry!CanChange(a, b, c) <=> CanChange(a, b, c)
BY DEF Registry!Roles, Roles, Registry!CanCreate, CanCreate, Registry!CanChange, CanChange,
       Registry!Outranks, Outranks, Registry!RANK, RANK

\* A step that shows nothing of what it did to the registry.
LEMMA NothingSeen ==
  ASSUME OneAtATime, NEW r \in Requests,
         UNCHANGED <<RoleSeen(r), TeamSeen(r), LeaderSeen(r), LogSeen(r), AsksSeen(r)>>
  PROVE  [Registry!Next]_(Registry!vars)
BY Seen, SeenNext DEF SeenInSlot, Registry!vars

-----------------------------------------------------------------------------
(* Requests that arrive, are refused, or go on to their next step.         *)

\* Before a row is inserted or written and after it, nothing is hidden.
LEMMA OpenView ==
  ASSUME TypeOK, NEW r \in Requests, req[r].pc \notin Inserted \cup {"update", "changeAudit"}
  PROVE  /\ RoleSeen(r) = role /\ LeaderSeen(r) = manager /\ LogSeen(r) = audited
         /\ TeamSeen(r) = [u \in Users |-> IF Exists(u) THEN team[u] ELSE None]
BY DEF TypeOK, RoleSeen, LeaderSeen, LogSeen, TeamSeen, Hides, HidesTeam, Logs

\* A step that only reads and hides what was hidden leaves the view alone.
LEMMA SameView ==
  ASSUME NEW r \in Requests, UNCHANGED tables,
         \A u : Hides(r, u)' <=> Hides(r, u),
         \A t \in Teams : HidesTeam(r, t)' <=> HidesTeam(r, t),
         \A u : Logs(r, u)' <=> Logs(r, u)
  PROVE  UNCHANGED <<RoleSeen(r), TeamSeen(r), LeaderSeen(r), LogSeen(r)>>
<1>1. RoleSeen(r)' = RoleSeen(r)
  BY DEF RoleSeen, tables
<1>2. TeamSeen(r)' = TeamSeen(r)
  BY DEF TeamSeen, tables, Exists
<1>3. LeaderSeen(r)' = LeaderSeen(r)
  BY DEF LeaderSeen, tables
<1>4. LogSeen(r)' = LogSeen(r)
  BY DEF LogSeen, tables
<1> QED BY <1>1, <1>2, <1>3, <1>4

\* The same request is still to be answered.
LEMMA SameAsk ==
  ASSUME NEW r \in Requests,
         req[r].pc \notin {"idle", "changeAudit"}, req'[r].pc \notin {"idle", "changeAudit"},
         req'[r].actor = req[r].actor, req'[r].want = req[r].want,
         req[r].pc \in ChangeSteps <=> req'[r].pc \in ChangeSteps,
         req[r].pc \in ChangeSteps => req'[r].target = req[r].target
  PROVE  AsksSeen(r)' = AsksSeen(r)
BY DEF AsksSeen, AskOf

\* A request is one the registry knows.
LEMMA AskTyped ==
  ASSUME TypeOK, NEW r \in Requests, req[r].pc # "idle"
  PROVE  AskOf(req[r]) \in Registry!Ask
BY SameRules, SeedAssumption DEF TypeOK, AskOf, Registry!Ask

LEMMA ArrivesInRegistry ==
  ASSUME OneAtATime, TypeOK, TypeOK', NEW r \in Requests, Begin(r)
  PROVE  [Registry!Next]_(Registry!vars)
<1> DEFINE q == AskOf(req'[r])
           Begun == /\ req[r].pc = "idle" /\ UNCHANGED tables
                    /\ req'[r].pc \in {"resolve", "find"} /\ Exists(req'[r].actor)
<1>1. Begun
  <2>1. ASSUME NEW a \in Users, NEW want \in Wanted, NEW t \in Teams \cup {None},
               BeginCreate(r, a, want, t)
        PROVE  Begun
    <3>1. req'[r] = [Idle EXCEPT !.pc = "resolve", !.actor = a, !.claim = role[a],
                                 !.want = want, !.teamId = t]
      BY <2>1 DEF BeginCreate, TypeOK
    <3>2. req'[r].pc = "resolve" /\ req'[r].actor = a
      BY <3>1 DEF Idle
    <3> QED BY <2>1, <3>2 DEF BeginCreate, SignedIn
  <2>2. ASSUME NEW a \in Users, NEW want \in Wanted, NEW u \in Users,
               BeginChange(r, a, u, want)
        PROVE  Begun
    <3>1. req'[r] = [Idle EXCEPT !.pc = "find", !.actor = a, !.claim = role[a],
                                 !.want = want, !.target = u]
      BY <2>2 DEF BeginChange, TypeOK
    <3>2. req'[r].pc = "find" /\ req'[r].actor = a
      BY <3>1 DEF Idle
    <3> QED BY <2>2, <3>2 DEF BeginChange, SignedIn
  <2> QED BY <2>1, <2>2 DEF Begin
<1>2. q \in Registry!Ask
  <2>1. (req[r].pc # "idle" => AskOf(req[r]) \in Registry!Ask)'
    BY AskTyped, PTL
  <2> QED BY <1>1, <2>1 DEF Registry!Ask
<1>3. UNCHANGED <<RoleSeen(r), TeamSeen(r), LeaderSeen(r), LogSeen(r)>>
  BY <1>1, SameView DEF Hides, HidesTeam, Logs, Inserted, CatchSteps
<1>4. AsksSeen(r) = {} /\ AsksSeen(r)' = {q}
  BY <1>1 DEF AsksSeen
<1>5. RoleSeen(r) = role
  BY <1>1, OpenView DEF Inserted, CatchSteps
<1>6. q.by = req'[r].actor
  BY DEF AskOf
<1>7. Registry!Arrives(q)
  BY <1>1, <1>3, <1>4, <1>5, <1>6, Seen, SeenNext, SameRules
     DEF SeenInSlot, Registry!Arrives, Registry!Exists, Exists
<1> QED BY <1>2, <1>7 DEF Registry!Next

LEMMA RefusedInRegistry ==
  ASSUME OneAtATime, TypeOK, NEW r \in Requests, UNCHANGED tables,
         req[r].pc \notin Inserted \cup {"idle", "update", "changeAudit"}, req'[r].pc = "idle"
  PROVE  [Registry!Next]_(Registry!vars)
<1> DEFINE q == AskOf(req[r])
<1>1. UNCHANGED <<RoleSeen(r), TeamSeen(r), LeaderSeen(r), LogSeen(r)>>
  BY SameView DEF Hides, HidesTeam, Logs, Inserted, CatchSteps
<1>2. AsksSeen(r) = {q} /\ AsksSeen(r)' = {}
  BY DEF AsksSeen
<1>3. q \in RegAsks /\ Registry!Refuse(q)
  BY <1>1, <1>2, Seen, SeenNext DEF SeenInSlot, Registry!Refuse, Registry!Answered
<1> QED BY <1>3 DEF Registry!Next

LEMMA ReadInRegistry ==
  ASSUME OneAtATime, TypeOK, NEW r \in Requests, UNCHANGED tables,
         req[r].pc \notin Inserted \cup {"idle", "update", "changeAudit"},
         req'[r].pc \notin Inserted \cup {"idle", "update", "changeAudit"},
         req'[r].actor = req[r].actor, req'[r].want = req[r].want,
         req[r].pc \in ChangeSteps <=> req'[r].pc \in ChangeSteps,
         req[r].pc \in ChangeSteps => req'[r].target = req[r].target
  PROVE  [Registry!Next]_(Registry!vars)
<1>1. UNCHANGED <<RoleSeen(r), TeamSeen(r), LeaderSeen(r), LogSeen(r)>>
  BY SameView DEF Hides, HidesTeam, Logs
<1>2. AsksSeen(r)' = AsksSeen(r)
  BY SameAsk
<1> QED BY <1>1, <1>2, NothingSeen

-----------------------------------------------------------------------------
(* The steps of create.                                                    *)

\* Only a row of Team has a manager.
LEMMA OnlyTeamsLed ==
  ASSUME TypeOK, NEW r \in Requests, TabSlot(r), NEW u \in Users, NEW t \in Teams
  PROVE  manager[t] = u <=> t \in Led(u)
BY SeedAssumption DEF TabSlot, ManagedInv, Led

LEMMA ResolvedInRegistry ==
  ASSUME OneAtATime, TypeOK, NEW r \in Requests,
         ResolveManagersTeam(r) \/ ResolveNamedTeam(r) \/ CheckTeam(r)
  PROVE  [Registry!Next]_(Registry!vars)
<1>1. CASE ResolveManagersTeam(r)
  <2>1. PICK t \in Led(req[r].actor) :
          req' = [req EXCEPT ![r] = [@ EXCEPT !.pc = "checkTeam", !.teamId = t]]
    BY <1>1 DEF ResolveManagersTeam
  <2>2. /\ req'[r].pc = "checkTeam" /\ req'[r].actor = req[r].actor
        /\ req'[r].want = req[r].want
    BY <2>1 DEF TypeOK, Request
  <2>3. req[r].pc = "resolve" /\ UNCHANGED tables
    BY <1>1 DEF ResolveManagersTeam
  <2> QED BY <2>2, <2>3, ReadInRegistry DEF Inserted, CatchSteps, ChangeSteps
<1>2. ASSUME NEW pc \in {"checkTeam", "insert"}, Goes(r, pc), UNCHANGED tables,
             req[r].pc \in {"resolve", "checkTeam"}
      PROVE  [Registry!Next]_(Registry!vars)
  BY <1>2, Moved, ReadInRegistry DEF Inserted, CatchSteps, ChangeSteps
<1>3. CASE ResolveNamedTeam(r)
  <2>1. PICK pc \in {"checkTeam", "insert"} : Goes(r, pc)
    BY <1>3 DEF ResolveNamedTeam
  <2> QED BY <1>3, <2>1, <1>2 DEF ResolveNamedTeam
<1>4. CASE CheckTeam(r) /\ req[r].teamId \in teams
  BY <1>4, <1>2 DEF CheckTeam
<1>5. CASE CheckTeam(r) /\ req[r].teamId \notin teams
  BY <1>5, Ended, RefusedInRegistry DEF CheckTeam, Inserted, CatchSteps
<1> QED BY <1>1, <1>3, <1>4, <1>5

\* The new row is hidden until its creation is logged.
LEMMA InsertInRegistry ==
  ASSUME OneAtATime, TypeOK, NEW r \in Requests, SeqSlot(r), TabSlot(r),
         NEW u \in Users, InsertUser(r, u)
  PROVE  [Registry!Next]_(Registry!vars)
<1>1. /\ req[r].pc = "insert" /\ role[u] = "unborn"
      /\ role' = [role EXCEPT ![u] = req[r].want]
      /\ team' = [team EXCEPT ![u] = req[r].teamId]
      /\ UNCHANGED <<account, teams, manager, audited>>
      /\ req'[r].pc = "credential" /\ req'[r].target = u
      /\ req'[r].actor = req[r].actor /\ req'[r].want = req[r].want
  BY DEF InsertUser, TypeOK
<1>2. /\ role \in [Users -> Roles \cup Gone] /\ team \in [Users -> Teams \cup {None}]
      /\ audited \in [Users -> Roles \cup Gone]
  BY DEF TypeOK
<1>3. \A t \in Teams : manager[t] # u
  BY <1>1, LeaderExists, OnlyTeamsLed DEF SeqSlot, SeqTables, Exists, Roles
<1>4. /\ \A w : ~Hides(r, w) /\ (Hides(r, w)' <=> w = u)
      /\ \A t : ~HidesTeam(r, t) /\ (HidesTeam(r, t)' <=> manager[t] = u)
      /\ \A w : ~Logs(r, w) /\ ~Logs(r, w)'
  BY <1>1 DEF Hides, HidesTeam, Logs, Inserted, CatchSteps
<1>5. RoleSeen(r)' = RoleSeen(r)
  BY <1>1, <1>2, <1>4 DEF RoleSeen
<1>6. TeamSeen(r)' = TeamSeen(r)
  BY <1>1, <1>2, <1>4 DEF TeamSeen, Exists, Roles
<1>7. LeaderSeen(r)' = LeaderSeen(r) /\ LogSeen(r)' = LogSeen(r)
  BY <1>1, <1>3, <1>4 DEF LeaderSeen, LogSeen
<1>8. AsksSeen(r)' = AsksSeen(r)
  BY <1>1, SameAsk DEF ChangeSteps
<1> QED BY <1>5, <1>6, <1>7, <1>8, NothingSeen

\* So is what the handler does to it, a team and its link included.
LEMMA HiddenInRegistry ==
  ASSUME OneAtATime, TypeOK, NEW r \in Requests, UNCHANGED <<role, audited>>,
         req[r].pc \in Inserted, req'[r].pc \in Inserted,
         req'[r].actor = req[r].actor, req'[r].want = req[r].want,
         req'[r].target = req[r].target,
         \A u \in Users : u # req[r].target => team'[u] = team[u],
         \A t \in Teams : \/ manager'[t] = manager[t]
                          \/ /\ manager'[t] = req[r].target
                             /\ manager[t] \in {None, req[r].target}
  PROVE  [Registry!Next]_(Registry!vars)
<1>1. /\ \A w : Hides(r, w) <=> w = req[r].target
      /\ \A w : Hides(r, w)' <=> w = req[r].target
      /\ \A t : HidesTeam(r, t) <=> manager[t] = req[r].target
      /\ \A t : HidesTeam(r, t)' <=> manager'[t] = req[r].target
      /\ \A w : ~Logs(r, w) /\ ~Logs(r, w)'
  BY DEF Hides, HidesTeam, Logs, Inserted, CatchSteps
<1>2. RoleSeen(r)' = RoleSeen(r) /\ LogSeen(r)' = LogSeen(r)
  BY <1>1 DEF RoleSeen, LogSeen
<1>3. TeamSeen(r)' = TeamSeen(r)
  BY <1>1 DEF TeamSeen, Exists
<1>4. LeaderSeen(r)' = LeaderSeen(r)
  BY <1>1 DEF LeaderSeen
<1>5. AsksSeen(r)' = AsksSeen(r)
  BY SameAsk DEF Inserted, CatchSteps, ChangeSteps
<1> QED BY <1>2, <1>3, <1>4, <1>5, NothingSeen

LEMMA PreparedInRegistry ==
  ASSUME OneAtATime, TypeOK, NEW r \in Requests, SeqSlot(r), TabSlot(r),
         WriteCredential(r) \/ LinkTeam(r) \/ \E t \in Teams : CreateTeam(r, t)
  PROVE  [Registry!Next]_(Registry!vars)
<1>1. CASE WriteCredential(r)
  <2>1. PICK pc \in {"createTeam", "createAudit"} : Goes(r, pc)
    BY <1>1 DEF WriteCredential
  <2> QED BY <1>1, <2>1, Moved, HiddenInRegistry DEF WriteCredential, Inserted, CatchSteps
<1>2. CASE LinkTeam(r)
  <2>1. /\ Goes(r, "createAudit") /\ req[r].pc = "linkTeam"
        /\ UNCHANGED <<role, audited, manager>>
        /\ \A u \in Users : u # req[r].target => team'[u] = team[u]
    BY <1>2 DEF LinkTeam, TypeOK
  <2> QED BY <2>1, Moved, HiddenInRegistry DEF Inserted, CatchSteps
<1>3. ASSUME NEW t \in Teams, CreateTeam(r, t) PROVE [Registry!Next]_(Registry!vars)
  <2>1. /\ req[r].pc = "createTeam" /\ t \notin teams
        /\ req' = [req EXCEPT ![r] = [@ EXCEPT !.pc = "linkTeam", !.teamId = t]]
        /\ manager' = [manager EXCEPT ![t] = req[r].target]
        /\ UNCHANGED <<role, team, audited>>
    BY <1>3 DEF CreateTeam, NewTeam
  <2>2. /\ req'[r].pc = "linkTeam" /\ req'[r].actor = req[r].actor
        /\ req'[r].want = req[r].want /\ req'[r].target = req[r].target
    BY <2>1 DEF TypeOK, Request
  <2>3. manager[t] = None
    BY <2>1 DEF TabSlot, ManagedInv
  <2>4. \A s \in Teams : \/ manager'[s] = manager[s]
                         \/ /\ manager'[s] = req[r].target
                            /\ manager[s] \in {None, req[r].target}
    BY <2>1, <2>3 DEF TypeOK
  <2> QED BY <2>1, <2>2, <2>4, HiddenInRegistry DEF Inserted, CatchSteps
<1> QED BY <1>1, <1>2, <1>3

\* The audit row is what the registry sees of a creation: the row, its team and, of a
\* manager for whom none was named, its lead come to be at once.
LEMMA CreatedInRegistry ==
  ASSUME OneAtATime, TypeOK, NEW r \in Requests, SeqSlot(r), TabSlot(r), CreateAudit(r)
  PROVE  [Registry!Next]_(Registry!vars)
<1> DEFINE u == req[r].target
           a == req[r].actor
           w == req[r].want
           t == req[r].teamId
           q == AskOf(req[r])
<1>1. /\ req[r].pc = "createAudit" /\ UNCHANGED <<role, team, teams, manager>>
      /\ audited' = [audited EXCEPT ![u] = w] /\ Ends(r) /\ role[u] = w /\ u \in Users
  BY CreateAuditWrites
<1>2. /\ a \in Users /\ w \in Roles /\ u # a /\ role[a] = req[r].claim /\ u # None
      /\ role \in [Users -> Roles \cup Gone] /\ audited \in [Users -> Roles \cup Gone]
      /\ team \in [Users -> Teams \cup {None}] /\ manager \in [Teams -> Users \cup {None}]
      /\ req[r].claim \in Roles /\ t \in Teams \cup {None} /\ teams \subseteq Teams
  BY <1>1, SeedAssumption DEF TypeOK, SeqSlot, ActorInv, Inserted, CatchSteps, Request
<1>3. /\ CanCreate(req[r].claim, w) /\ team[u] = t
      /\ OrgOwner(req[r].claim) \/ (req[r].claim = "MANAGER" /\ t \in Led(a))
      /\ IF t = None THEN w \notin Staff \cup {"MANAGER"} ELSE t \in teams
      /\ Led(u) = {} \/ (w = "MANAGER" /\ Led(u) = {t})
  BY <1>1 DEF SeqSlot, GateOpen, CreatingInv, Inserted, CatchSteps
<1>4. req'[r].pc = "idle"
  BY <1>1, Ended
<1>5. /\ \A v : Hides(r, v) <=> v = u
      /\ \A s : HidesTeam(r, s) <=> manager[s] = u
      /\ \A v : ~Logs(r, v) /\ ~Logs(r, v)' /\ ~Hides(r, v)'
      /\ \A s : ~HidesTeam(r, s)'
  BY <1>1, <1>4 DEF Hides, HidesTeam, Logs, Inserted, CatchSteps
<1>6. /\ RoleSeen(r)[u] = "unborn" /\ RoleSeen(r)[a] = req[r].claim
      /\ RoleSeen(r)' = [RoleSeen(r) EXCEPT ![u] = w]
  BY <1>1, <1>2, <1>5 DEF RoleSeen
<1>7. LogSeen(r)' = [LogSeen(r) EXCEPT ![u] = w]
  BY <1>1, <1>2, <1>5 DEF LogSeen
<1>8. TeamSeen(r)' = [TeamSeen(r) EXCEPT ![u] = t]
  BY <1>1, <1>2, <1>3, <1>5 DEF TeamSeen, Exists
<1>9. TeamSeen(r)[u] = None
  BY <1>1, <1>5 DEF TeamSeen
<1>10. AsksSeen(r) = {q} /\ AsksSeen(r)' = {} /\ q.by = a /\ q.of = None /\ q.want = w
  BY <1>1, <1>4 DEF AsksSeen, AskOf, ChangeSteps
<1>11. q \in RegAsks /\ Registry!Create(q, u)
  BY <1>2, <1>3, <1>6, <1>7, <1>10, Seen, SeenNext, SameRules
     DEF SeenInSlot, Registry!Create, Registry!Answered, Registry!Exists
<1>12. \A s \in Teams : manager[s] = u <=> s \in Led(u)
  BY <1>1, OnlyTeamsLed
<1>13. CASE Led(u) = {}
  <2>1. LeaderSeen(r)' = LeaderSeen(r) /\ LeaderSeen(r) = manager
    BY <1>1, <1>2, <1>5, <1>12, <1>13 DEF LeaderSeen
  <2>2. CASE t = None
    <3>1. w = "ADMIN"
      BY <1>2, <1>3, <2>2 DEF CanCreate, Roles, Staff
    <3>2. TeamSeen(r)' = TeamSeen(r)
      BY <1>8, <1>9, <2>2 DEF TeamSeen
    <3>3. Registry!Stay(q, u)
      BY <1>10, <1>11, <2>1, <3>1, <3>2, Seen, SeenNext DEF SeenInSlot, Registry!Stay
    <3> QED BY <1>1, <1>11, <3>3 DEF Registry!Next
  <2>3. CASE t # None
    <3>1. t \in Teams /\ manager[t] # None
      BY <1>2, <1>3, <2>3 DEF TabSlot, ManagedInv
    <3>2. req[r].claim = "MANAGER" => manager[t] = a
      BY <1>3 DEF OrgOwner, Led
    <3>3. Registry!Join(q, u, t)
      BY <1>6, <1>8, <1>10, <1>11, <2>1, <3>1, <3>2, Seen, SeenNext
         DEF SeenInSlot, Registry!Join
    <3> QED BY <1>1, <1>11, <3>1, <3>3 DEF Registry!Next
  <2> QED BY <2>2, <2>3
<1>14. CASE w = "MANAGER" /\ Led(u) = {t}
  <2>1. t \in Teams
    BY <1>2, <1>14 DEF Led
  <2>2. LeaderSeen(r)[t] = None /\ LeaderSeen(r)' = [LeaderSeen(r) EXCEPT ![t] = u]
    BY <1>1, <1>2, <1>5, <1>12, <1>14, <2>1 DEF LeaderSeen
  <2>3. Registry!Found(q, u, t)
    BY <1>8, <1>10, <1>11, <1>14, <2>1, <2>2, Seen, SeenNext DEF SeenInSlot, Registry!Found
  <2> QED BY <1>1, <1>11, <2>1, <2>3 DEF Registry!Next
<1> QED BY <1>3, <1>13, <1>14

\* A row that is deleted again was never there.
LEMMA CleanedInRegistry ==
  ASSUME OneAtATime, TypeOK, NEW r \in Requests, Cleanup(r)
  PROVE  [Registry!Next]_(Registry!vars)
<1> DEFINE u == req[r].target
           q == AskOf(req[r])
<1>1. /\ req[r].pc = "cleanup" /\ Ends(r) /\ UNCHANGED <<teams, audited>>
      /\ role' = [role EXCEPT ![u] = "deleted"]
      /\ team' = [team EXCEPT ![u] = None]
      /\ manager' = [t \in Teams |-> IF manager[t] = u THEN None ELSE manager[t]]
  BY DEF Cleanup
<1>2. /\ u \in Users /\ role \in [Users -> Roles \cup Gone]
      /\ team \in [Users -> Teams \cup {None}] /\ manager \in [Teams -> Users \cup {None}]
  BY <1>1 DEF TypeOK
<1>3. req'[r].pc = "idle"
  BY <1>1, Ended
<1>4. /\ \A v : Hides(r, v) <=> v = u
      /\ \A s : HidesTeam(r, s) <=> manager[s] = u
      /\ \A v : ~Logs(r, v) /\ ~Logs(r, v)' /\ ~Hides(r, v)'
      /\ \A s : ~HidesTeam(r, s)'
  BY <1>1, <1>3 DEF Hides, HidesTeam, Logs, Inserted, CatchSteps
<1>5. RoleSeen(r)[u] = "unborn" /\ RoleSeen(r)' = [RoleSeen(r) EXCEPT ![u] = "deleted"]
  BY <1>1, <1>2, <1>4 DEF RoleSeen
<1>6. TeamSeen(r)' = TeamSeen(r)
  BY <1>1, <1>2, <1>4 DEF TeamSeen, Exists, Roles
<1>7. LeaderSeen(r)' = LeaderSeen(r) /\ LogSeen(r)' = LogSeen(r)
  BY <1>1, <1>2, <1>4 DEF LeaderSeen, LogSeen
<1>8. AsksSeen(r) = {q} /\ AsksSeen(r)' = {} /\ q.of = None
  BY <1>1, <1>3 DEF AsksSeen, AskOf, ChangeSteps
<1>9. q \in RegAsks /\ Registry!Burn(q, u)
  BY <1>5, <1>6, <1>7, <1>8, Seen, SeenNext DEF SeenInSlot, Registry!Burn, Registry!Answered
<1> QED BY <1>2, <1>9 DEF Registry!Next

-----------------------------------------------------------------------------
(* The steps of changeRole.                                                *)

\* The handler is about to write the row; a team it made for it does not show yet.
LEMMA UpdatingInRegistry ==
  ASSUME OneAtATime, TypeOK, NEW r \in Requests, UNCHANGED <<role, team, audited>>,
         req[r].pc \in {"find", "guard", "lookup", "newTeam"}, req'[r].pc = "update",
         req'[r].actor = req[r].actor, req'[r].want = req[r].want,
         req'[r].target = req[r].target,
         \A t \in Teams : IF req'[r].seen # "MANAGER" /\ manager'[t] = req[r].target
                          THEN manager[t] = None ELSE manager'[t] = manager[t]
  PROVE  [Registry!Next]_(Registry!vars)
<1>1. /\ \A v : ~Hides(r, v) /\ ~Hides(r, v)' /\ ~Logs(r, v) /\ ~Logs(r, v)'
      /\ \A t : ~HidesTeam(r, t)
      /\ \A t : HidesTeam(r, t)' <=> req'[r].seen # "MANAGER" /\ manager'[t] = req[r].target
  BY DEF Hides, HidesTeam, Logs, Inserted, CatchSteps
<1>2. RoleSeen(r)' = RoleSeen(r) /\ LogSeen(r)' = LogSeen(r)
  BY <1>1 DEF RoleSeen, LogSeen
<1>3. TeamSeen(r)' = TeamSeen(r)
  BY <1>1 DEF TeamSeen, Exists
<1>4. LeaderSeen(r)' = LeaderSeen(r)
  BY <1>1 DEF LeaderSeen
<1>5. AsksSeen(r)' = AsksSeen(r)
  BY SameAsk DEF ChangeSteps
<1> QED BY <1>2, <1>3, <1>4, <1>5, NothingSeen

LEMMA FoundInRegistry ==
  ASSUME OneAtATime, TypeOK, NEW r \in Requests, SeqSlot(r), TabSlot(r), FindTarget(r)
  PROVE  [Registry!Next]_(Registry!vars)
<1> DEFINE u == req[r].target
           pc == AfterFind(role[u], req[r].want)
<1>1. /\ req[r].pc = "find" /\ UNCHANGED tables /\ u \in Users
      /\ pc \in {"guard", "lookup", "update"}
      /\ req'[r].pc = pc /\ req'[r].seen = role[u]
      /\ req'[r].actor = req[r].actor /\ req'[r].want = req[r].want /\ req'[r].target = u
  BY FindFields
<1> HIDE DEF pc
<1>2. CASE pc # "update"
  BY <1>1, <1>2, ReadInRegistry DEF Inserted, CatchSteps, ChangeSteps
<1>3. CASE pc = "update"
  <2>1. role[u] # "MANAGER" => \A t \in Teams : manager[t] # u
    BY <1>1, LeadersRole, OnlyTeamsLed
  <2> QED BY <1>1, <1>3, <2>1, UpdatingInRegistry DEF tables
<1> QED BY <1>2, <1>3

LEMMA GuardedInRegistry ==
  ASSUME OneAtATime, TypeOK, NEW r \in Requests, SeqSlot(r), TabSlot(r),
         DemotionGuard(r) \/ LookupTeam(r)
  PROVE  [Registry!Next]_(Registry!vars)
<1> DEFINE u == req[r].target
<1>1. req[r].pc \in {"guard", "lookup"} /\ UNCHANGED tables /\ u \in Users
  BY DEF DemotionGuard, LookupTeam, TypeOK, ChangeSteps
<1>2. CASE Ends(r)
  BY <1>1, <1>2, Ended, RefusedInRegistry DEF Inserted, CatchSteps
<1>3. CASE ~Ends(r)
  <2>1. /\ \/ req[r].pc = "guard" /\ req'[r].pc = "update" /\ Led(u) = {}
           \/ req[r].pc = "lookup" /\ req'[r].pc = "update" /\ Led(u) # {}
           \/ req[r].pc = "lookup" /\ req'[r].pc = "newTeam" /\ Led(u) = {}
        /\ req'[r].actor = req[r].actor /\ req'[r].want = req[r].want
        /\ req'[r].target = u /\ req'[r].seen = req[r].seen
    BY <1>3, GuardFields
  <2>2. req[r].pc = "lookup" => Led(u) = {}
    BY <1>1, LeadersRole DEF SeqSlot, ChangingInv, Changing
  <2>3. CASE req'[r].pc = "newTeam"
    BY <1>1, <2>1, <2>3, ReadInRegistry DEF Inserted, CatchSteps, ChangeSteps
  <2>4. CASE req'[r].pc = "update"
    <3>1. \A t \in Teams : manager[t] # u
      BY <1>1, <2>1, <2>2, OnlyTeamsLed
    <3> QED BY <1>1, <2>1, <2>4, <3>1, UpdatingInRegistry DEF tables
  <2> QED BY <2>1, <2>3, <2>4
<1> QED BY <1>2, <1>3

LEMMA TeamInRegistry ==
  ASSUME OneAtATime, TypeOK, NEW r \in Requests, SeqSlot(r), TabSlot(r),
         NEW t \in Teams, ChangeTeam(r, t)
  PROVE  [Registry!Next]_(Registry!vars)
<1> DEFINE u == req[r].target
<1>1. /\ req[r].pc = "newTeam" /\ t \notin teams /\ u \in Users
      /\ req' = [req EXCEPT ![r] = [@ EXCEPT !.pc = "update", !.teamId = t]]
      /\ manager' = [manager EXCEPT ![t] = u]
      /\ UNCHANGED <<role, team, audited>>
  BY DEF ChangeTeam, NewTeam, TypeOK, ChangeSteps
<1>2. /\ req'[r].pc = "update" /\ req'[r].actor = req[r].actor
      /\ req'[r].want = req[r].want /\ req'[r].target = u /\ req'[r].seen = req[r].seen
  BY <1>1 DEF TypeOK, Request
<1>3. req[r].seen # "MANAGER" /\ Led(u) = {} /\ manager[t] = None
  BY <1>1 DEF SeqSlot, ChangingInv, Changing, TabSlot, ManagedInv
<1>4. \A s \in Teams : manager[s] # u
  BY <1>1, <1>3, OnlyTeamsLed
<1>5. \A s \in Teams : IF req'[r].seen # "MANAGER" /\ manager'[s] = u
                       THEN manager[s] = None ELSE manager'[s] = manager[s]
  BY <1>1, <1>2, <1>3, <1>4 DEF TypeOK
<1> QED BY <1>1, <1>2, <1>5, UpdatingInRegistry

\* The write of the row is what the registry sees of a change.
LEMMA WrittenInRegistry ==
  ASSUME OneAtATime, TypeOK, NEW r \in Requests, SeqSlot(r), TabSlot(r), UpdateRole(r)
  PROVE  [Registry!Next]_(Registry!vars)
<1> DEFINE u == req[r].target
           a == req[r].actor
           w == req[r].want
           t == req[r].teamId
           q == AskOf(req[r])
<1>1. /\ req[r].pc = "update" /\ Goes(r, "changeAudit")
      /\ role' = [role EXCEPT ![u] = w] /\ team' = [team EXCEPT ![u] = t]
      /\ UNCHANGED <<teams, manager, audited>>
  BY DEF UpdateRole
<1>2. /\ u \in Users /\ a \in Users /\ w \in Roles /\ req[r].claim \in Roles
      /\ role \in [Users -> Roles \cup Gone] /\ audited \in [Users -> Roles \cup Gone]
      /\ team \in [Users -> Teams \cup {None}] /\ manager \in [Teams -> Users \cup {None}]
      /\ t \in Teams \cup {None} /\ teams \subseteq Teams
  BY <1>1, SeedAssumption DEF TypeOK, ChangeSteps, Request
<1>3. /\ u # a /\ role[a] = req[r].claim /\ req[r].seen \in Roles /\ role[u] = req[r].seen
      /\ CanChange(req[r].claim, req[r].seen, w)
  BY <1>1 DEF SeqSlot, ActorInv, ChangingInv, Changing
<1>4. IF w = "MANAGER" /\ req[r].seen # "MANAGER" THEN Led(u) = {t}
      ELSE team[u] = t /\ (w # "MANAGER" => Led(u) = {})
  BY <1>1 DEF TabSlot, UpdateInv
<1>5. req'[r].pc = "changeAudit" /\ req'[r].target = u
  BY <1>1, Moved
<1>6. /\ \A v : ~Hides(r, v) /\ ~Hides(r, v)' /\ ~Logs(r, v) /\ (Logs(r, v)' <=> v = u)
      /\ \A s : HidesTeam(r, s) <=> manager[s] = u /\ req[r].seen # "MANAGER"
      /\ \A s : ~HidesTeam(r, s)'
  BY <1>1, <1>5 DEF Hides, HidesTeam, Logs, Inserted, CatchSteps
<1>7. RoleSeen(r) = role /\ RoleSeen(r)' = [role EXCEPT ![u] = w]
  BY <1>1, <1>2, <1>6 DEF RoleSeen
<1>8. LogSeen(r)' = [LogSeen(r) EXCEPT ![u] = w]
  BY <1>1, <1>2, <1>6 DEF LogSeen
<1>9. TeamSeen(r)' = [TeamSeen(r) EXCEPT ![u] = t]
  BY <1>1, <1>2, <1>3, <1>6 DEF TeamSeen, Exists
<1>10. AsksSeen(r) = {q} /\ AsksSeen(r)' = {} /\ q.by = a /\ q.of = u /\ q.want = w
  BY <1>1, <1>5 DEF AsksSeen, AskOf, ChangeSteps
<1>11. q \in RegAsks /\ Registry!Change(q)
  BY <1>2, <1>3, <1>7, <1>8, <1>10, Seen, SeenNext, SameRules
     DEF SeenInSlot, Registry!Change, Registry!Answered, Registry!Exists
<1>12. \A s \in Teams : manager[s] = u <=> s \in Led(u)
  BY <1>2, OnlyTeamsLed
<1>13. CASE w = "MANAGER" /\ req[r].seen # "MANAGER"
  <2>1. t \in Teams
    BY <1>2, <1>4, <1>13 DEF Led
  <2>2. /\ LeaderSeen(r)[t] = None /\ LeaderSeen(r)' = [LeaderSeen(r) EXCEPT ![t] = u]
        /\ \A s \in Teams : LeaderSeen(r)[s] # u
    BY <1>1, <1>2, <1>4, <1>6, <1>12, <1>13, <2>1, SeedAssumption DEF LeaderSeen
  <2>3. Registry!Promote(q, t)
    BY <1>3, <1>7, <1>9, <1>10, <1>11, <1>13, <2>2, Seen, SeenNext
       DEF SeenInSlot, Registry!Promote, Registry!Leads
  <2> QED BY <1>11, <2>1, <2>3 DEF Registry!Next
<1>14. CASE ~(w = "MANAGER" /\ req[r].seen # "MANAGER")
  <2>1. TeamSeen(r)' = TeamSeen(r)
    BY <1>2, <1>3, <1>4, <1>6, <1>9, <1>14 DEF TeamSeen, Exists
  <2>2. LeaderSeen(r)' = LeaderSeen(r) /\ LeaderSeen(r) = manager
    BY <1>1, <1>2, <1>4, <1>6, <1>12, <1>14 DEF LeaderSeen
  <2>3. w # "MANAGER" => ~Registry!Leads(u)
    BY <1>4, <1>12, <1>14, <2>2, Seen DEF SeenInSlot, Registry!Leads
  <2>4. Registry!Reassign(q)
    BY <1>3, <1>7, <1>10, <1>11, <1>14, <2>1, <2>2, <2>3, Seen, SeenNext
       DEF SeenInSlot, Registry!Reassign
  <2> QED BY <1>11, <2>4 DEF Registry!Next
<1> QED BY <1>13, <1>14

\* The registry has logged the change already.
LEMMA LoggedInRegistry ==
  ASSUME OneAtATime, TypeOK, NEW r \in Requests, SeqSlot(r), ChangeAudit(r)
  PROVE  [Registry!Next]_(Registry!vars)
<1> DEFINE u == req[r].target
<1>1. /\ req[r].pc = "changeAudit" /\ UNCHANGED <<role, team, teams, manager>>
      /\ audited' = [audited EXCEPT ![u] = req[r].want] /\ Ends(r)
      /\ role[u] = req[r].want /\ u \in Users
  BY ChangeAuditWrites
<1>2. req'[r].pc = "idle"
  BY <1>1, Ended
<1>3. /\ \A v : ~Hides(r, v) /\ ~Hides(r, v)' /\ (Logs(r, v) <=> v = u) /\ ~Logs(r, v)'
      /\ \A t : ~HidesTeam(r, t) /\ ~HidesTeam(r, t)'
  BY <1>1, <1>2 DEF Hides, HidesTeam, Logs, Inserted, CatchSteps
<1>4. RoleSeen(r)' = RoleSeen(r) /\ LeaderSeen(r)' = LeaderSeen(r)
  BY <1>1, <1>3 DEF RoleSeen, LeaderSeen
<1>5. TeamSeen(r)' = TeamSeen(r)
  BY <1>1, <1>3 DEF TeamSeen, Exists
<1>6. LogSeen(r)' = LogSeen(r)
  BY <1>1, <1>3 DEF LogSeen, TypeOK
<1>7. AsksSeen(r)' = AsksSeen(r)
  BY <1>1, <1>2 DEF AsksSeen
<1> QED BY <1>4, <1>5, <1>6, <1>7, NothingSeen

-----------------------------------------------------------------------------
\* A team or a row for which there is no id left: refused, or to be cleaned up.
LEMMA OutOfIdsInRegistry ==
  ASSUME OneAtATime, TypeOK, NEW r \in Requests, OutOfIds(r)
  PROVE  [Registry!Next]_(Registry!vars)
<1>1. req[r].pc \in {"insert", "createTeam", "newTeam"} /\ UNCHANGED tables /\ Throws(r)
  BY DEF OutOfIds
<1>2. CASE req[r].pc = "createTeam"
  <2>1. Goes(r, "cleanup")
    BY <1>1, <1>2 DEF Throws, CatchSteps
  <2> QED BY <1>1, <1>2, <2>1, Moved, HiddenInRegistry DEF Inserted, CatchSteps, tables
<1>3. CASE req[r].pc # "createTeam"
  <2>1. req'[r].pc = "idle"
    BY <1>1, <1>3, Ended DEF Throws, CatchSteps
  <2> QED BY <1>1, <1>3, <2>1, RefusedInRegistry DEF Inserted, CatchSteps
<1> QED BY <1>2, <1>3

\* Each step of the handlers is a step of the registry, or none.
LEMMA StepInRegistry ==
  ASSUME OneByOne, TypeOK, TypeOK', SerialInv, [Next]_vars
  PROVE  [Registry!Next]_(Registry!vars)
<1>1. CASE UNCHANGED vars
  <2>1. UNCHANGED <<RegRole, RegTeam, RegLeader>>
    BY <1>1 DEF vars, tables, RegRole, RegTeam, RegLeader, Unfinished, Founding, Exists
  <2>2. UNCHANGED <<RegLog, RegAsks>>
    BY <1>1 DEF vars, tables, RegLog, Recording, RegAsks, Open
  <2> QED BY <2>1, <2>2 DEF Registry!vars
<1>2. CASE Crash
  BY <1>2 DEF Crash, TypeOK, OneByOne
<1>3. ASSUME NEW r \in Requests,
             Begin(r) \/ CreateStep(r) \/ ChangeStep(r) \/ Refused(r) \/ OutOfIds(r)
      PROVE  [Registry!Next]_(Registry!vars)
  <2>1. OneAtATime /\ SeqSlot(r) /\ TabSlot(r)
    BY OneSlot DEF OneByOne
  <2>2. CASE Refused(r)
    BY <2>2 DEF Refused, TypeOK, OneByOne
  <2>3. CASE Begin(r) \/ OutOfIds(r)
    BY <2>1, <2>3, ArrivesInRegistry, OutOfIdsInRegistry
  <2>4. CASE CreateRefused(r) \/ ChangeRefused(r)
    <3>1. req[r].pc \in {"resolve", "find"} /\ UNCHANGED tables /\ req'[r].pc = "idle"
      BY <2>4, Ended DEF CreateRefused, ChangeRefused
    <3> QED BY <2>1, <3>1, RefusedInRegistry DEF Inserted, CatchSteps
  <2>5. CASE CreateStep(r)
    BY <2>1, <2>4, <2>5, ResolvedInRegistry, InsertInRegistry, PreparedInRegistry,
       CreatedInRegistry, CleanedInRegistry DEF CreateStep
  <2>6. CASE ChangeStep(r)
    BY <2>1, <2>4, <2>6, FoundInRegistry, GuardedInRegistry, TeamInRegistry,
       WrittenInRegistry, TargetStays, LoggedInRegistry DEF ChangeStep
  <2> QED BY <1>3, <2>2, <2>3, <2>5, <2>6
<1> QED BY <1>1, <1>2, <1>3 DEF Next

\* The seeded database is the registry a seed run leaves.
LEMMA InitInRegistry == Init => Registry!Init
<1> SUFFICES ASSUME Init PROVE Registry!Init
  OBVIOUS
<1>1. \A r \in Requests : req[r].pc = "idle"
  BY DEF Init, Idle
<1>2. /\ \A u : ~Unfinished(u) /\ ~Recording(u)
      /\ \A t : ~Founding(t)
  BY <1>1 DEF Unfinished, Recording, Founding, Inserted, CatchSteps
<1>3. RegRole = SeedRole /\ RegLeader = SeedManager /\ RegLog = SeedRole
  BY <1>2, SeedAssumption DEF Init, RegRole, RegLeader, RegLog
<1>4. RegTeam = [u \in Users |-> IF SeedRole[u] \in Roles THEN SeedTeam[u] ELSE None]
  BY <1>2 DEF Init, RegTeam, Exists
<1>5. RegAsks = {}
  <2>1. Open = {}
    BY <1>1 DEF Open
  <2> QED BY <2>1 DEF RegAsks
<1> QED BY <1>3, <1>4, <1>5, SameRules DEF Registry!Init

\* Served one after another and without failures, the requests to create users and to
\* change roles come to the registry the admin pages rely on: each is answered in one
\* step under its sender's role of that moment, with the row, the team, its manager and
\* the log changing together, although the handlers write them one call at a time.
THEOREM ServiceIsRegistry ==
  ASSUME OneByOne
  PROVE  Spec => ImplementsRegistry
BY InitInRegistry, StepInRegistry, TypeCorrect, SerialCorrect, PTL
   DEF Spec, ImplementsRegistry, Registry!Spec

=============================================================================
