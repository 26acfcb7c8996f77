---------------------------- MODULE UsersSerial ----------------------------
(***************************************************************************)
(* What UsersService guarantees when the backend handles one request at a  *)
(* time, and what of it needs database calls that do not fail either: the  *)
(* properties, the inductive invariants behind them, and the mapping under *)
(* which the handlers implement UserRegistry.                              *)
(***************************************************************************)
EXTENDS UsersService

OneAtATime == \A r, s \in Requests : r = s

\* One request after another, none of whose database calls fails.
OneByOne == OneAtATime /\ MaxFaults = 0 /\ MaxCrashes = 0

-----------------------------------------------------------------------------
(* One request at a time, whatever fails.                                  *)

\* Nobody leads two teams, however often a user is promoted.
AtMostOneTeam ==
  \A t, s \in teams : manager[t] = manager[s] /\ manager[t] # None => t = s

\* With one request at a time a row is only changed by an actor whose role,
\* as it is now, outranks the row's.
OnlyOutrankedTouched ==
  [][\A u \in Users :
       Exists(u) /\ role'[u] \in Roles /\ role'[u] # role[u]
         => \E r \in Requests :
              /\ Outranks(role[req[r].actor], role[u])
              /\ req[r].actor # u]_vars

\* Request after request, a creation that succeeds is seen by whoever made it: the
\* list they fetch next has the new row, though create resolved its team by one
\* query and list resolves its scope by another.
CreatedIsListed ==
  [][\A r \in Requests :
       req[r].pc = "createAudit" /\ req'[r].pc = "idle"
         => \A us \in Listings(req[r].claim, req[r].actor) : req[r].target \in us]_vars
-----------------------------------------------------------------------------
(* One request after another, without failures.                            *)

Quiet == \A r \in Requests : req[r].pc = "idle"

\* Request after request, the audit log tells each user's current role.
AuditReplays ==
  Quiet => \A u \in Users : Exists(u) => audited[u] = role[u]

\* Whoever a team names as its manager has the role MANAGER: "demoting a manager
\* who still leads a team is blocked" (users.service.ts).
LeadersAreManagers ==
  Quiet => \A t \in teams : manager[t] # None => role[manager[t]] = "MANAGER"

\* A team created for a manager counts the manager among its members.
LeadersSitInTheirTeam ==
  Quiet => \A t \in teams :
    manager[t] # None /\ SeedManager[t] = None => team[manager[t]] = t

\* Whoever has the role MANAGER leads a team or is at least a member of one, also a
\* manager that was created into somebody else's team or had been an admin before.
ManagersBelong ==
  Quiet => \A u \in Users : role[u] = "MANAGER" => Led(u) # {} \/ team[u] # None

\* The tables as the registry the admin pages rely on.  A creation is seen when its
\* audit row is written, a change when its row is: the row of a creation in progress,
\* and a team whose manager still has its old role, are not there yet.
Unfinished(u) == \E r \in Requests : req[r].pc \in Inserted /\ req[r].target = u

Founding(t) ==
  \E r \in Requests :
    req[r].pc = "update" /\ req[r].target = manager[t] /\ req[r].seen # "MANAGER"

Recording(u) == \E r \in Requests : req[r].pc = "changeAudit" /\ req[r].target = u

RegRole == [u \in Users |-> IF Unfinished(u) THEN "unborn" ELSE role[u]]

RegTeam == [u \in Users |-> IF Exists(u) /\ ~Unfinished(u) THEN team[u] ELSE None]

RegLeader ==
  [t \in Teams |-> IF Unfinished(manager[t]) \/ Founding(t) THEN None ELSE manager[t]]

RegLog == [u \in Users |-> IF Recording(u) THEN role[u] ELSE audited[u]]

AskOf(q) == [by |-> q.actor, of |-> IF q.pc \in ChangeSteps THEN q.target ELSE None,
             want |-> q.want]

Open == {r \in Requests : req[r].pc \notin {"idle", "changeAudit"}}

RegAsks == {AskOf(req[r]) : r \in Open}

Registry == INSTANCE UserRegistry
              WITH role <- RegRole, team <- RegTeam, leader <- RegLeader, log <- RegLog,
                   asks <- RegAsks, SeedLeader <- SeedManager

\* create and changeRole, with all their separate database calls, come to single steps
\* of the registry: each request takes effect once, as a whole and as it was asked,
\* while its sender is still entitled to it, or not at all.
ImplementsRegistry == Registry!Spec

-----------------------------------------------------------------------------
\* The inductive invariant of one request at a time.  What a handler read stays as it
\* read it: the actor has the role of its claim, and the row at stake is another's ...
ActorInv(r) ==
  /\ req[r].pc # "idle" => role[req[r].actor] = req[r].claim
  /\ req[r].pc \in Inserted \cup Changing \cup {"changeAudit"} => req[r].target # req[r].actor

\* ... the gate of a creation still holds, and it has a team if it needs one ...
GateOpen(r) ==
  /\ req[r].pc \in {"checkTeam", "insert"} \cup Inserted
       => /\ CanCreate(req[r].claim, req[r].want)
          /\ \/ OrgOwner(req[r].claim)
             \/ req[r].claim = "MANAGER" /\ req[r].teamId \in Led(req[r].actor)
  /\ req[r].pc \in {"insert", "credential", "createAudit"}
       => IF req[r].teamId = None THEN req[r].want \notin Staff ELSE req[r].teamId \in teams
  /\ req[r].pc = "createAudit" /\ req[r].teamId = None => req[r].want # "MANAGER"

\* ... its row is as it was inserted, and leads the team it is given and no other ...
CreatingInv(r) ==
  /\ req[r].pc \in Inserted => role[req[r].target] = req[r].want
  /\ req[r].pc \in {"credential", "createTeam", "createAudit"}
       => team[req[r].target] = req[r].teamId
  /\ req[r].pc \in {"credential", "createTeam"} => Led(req[r].target) = {}
  /\ req[r].pc \in {"createTeam", "linkTeam"} => req[r].want = "MANAGER" /\ OrgOwner(req[r].claim)
  /\ req[r].pc = "linkTeam" => Led(req[r].target) = {req[r].teamId}
  /\ req[r].pc = "createAudit"
       => \/ Led(req[r].target) = {}
          \/ req[r].want = "MANAGER" /\ Led(req[r].target) = {req[r].teamId}

\* ... and the row of a change is as it was found until it is written.
ChangingInv(r) ==
  /\ req[r].pc \in Changing
       => /\ req[r].seen \in Roles /\ role[req[r].target] = req[r].seen
          /\ CanChange(req[r].claim, req[r].seen, req[r].want)
  /\ req[r].pc = "guard" => req[r].want # "MANAGER"
  /\ req[r].pc \in {"lookup", "newTeam"} => req[r].want = "MANAGER" /\ req[r].seen # "MANAGER"
  /\ req[r].pc \in {"guard", "lookup", "newTeam"} => team[req[r].target] = req[r].teamId
  /\ req[r].pc = "newTeam" => Led(req[r].target) = {}
  /\ req[r].pc = "changeAudit" => role[req[r].target] = req[r].want

\* A team's manager has its row: a creation leads no team before its row is there.
LeadersExist == \A t \in teams : manager[t] # None => Exists(manager[t])

SequentialInv ==
  /\ AtMostOneTeam /\ LeadersExist
  /\ \A r \in Requests : ActorInv(r) /\ GateOpen(r) /\ CreatingInv(r) /\ ChangingInv(r)

\* Without failures, what the handler in progress is about to write is all that is
\* missing from the tables.
Promoting(t) ==
  \E r \in Requests :
    req[r].pc = "update" /\ req[r].target = manager[t] /\ req[r].want = "MANAGER"

Linking(t) ==
  \E r \in Requests :
    req[r].pc \in {"linkTeam", "update"} /\ req[r].target = manager[t] /\ req[r].teamId = t

Auditing(u) ==
  \E r \in Requests : req[r].pc \in Inserted \cup {"changeAudit"} /\ req[r].target = u

Placing(u) ==
  \E r \in Requests :
    req[r].pc \in {"credential", "createTeam", "cleanup"} /\ req[r].target = u

TablesInv ==
  /\ \A t \in Teams : t \in teams <=> manager[t] # None
  /\ \A t \in teams :
       /\ role[manager[t]] = "MANAGER" \/ Promoting(t)
       /\ SeedManager[t] = None => team[manager[t]] = t \/ Linking(t)
  /\ \A u \in Users :
       /\ Exists(u) => audited[u] = role[u] \/ Auditing(u)
       /\ role[u] = "MANAGER" => Led(u) # {} \/ team[u] # None \/ Placing(u)

\* A row about to be written leads its new team only, or is left in the team it is in
\* and leads none unless it stays a manager.
UpdateInv(r) ==
  /\ req[r].pc = "update"
       => IF req[r].want = "MANAGER" /\ req[r].seen # "MANAGER"
          THEN Led(req[r].target) = {req[r].teamId}
          ELSE /\ team[req[r].target] = req[r].teamId
               /\ req[r].want # "MANAGER" => Led(req[r].target) = {}
  /\ req[r].pc = "cleanup" => Led(req[r].target) = {}

SerialInv == SequentialInv /\ TablesInv /\ \A r \in Requests : UpdateInv(r)

=============================================================================
