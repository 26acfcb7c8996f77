--------------------------- MODULE UsersService ---------------------------
(***************************************************************************)
(* User creation and role changes of apps/backend/src/users: the handlers  *)
(* create and changeRole of UsersService over the tables User, Account,    *)
(* Team and AuditLog.                                                      *)
(*                                                                         *)
(* Each awaited database call is one action: the handlers open no          *)
(* transaction around them, so the steps of two requests interleave, any   *)
(* of them may be refused, and the backend may stop between two.  With one *)
(* request slot requests run one after the other.                          *)
(***************************************************************************)
EXTENDS RoleRules

CONSTANTS
  Users,        \* the ids user.create can hand out, the seeded ones included
  Teams,        \* the ids team.create can hand out, the seeded ones included
  None,         \* SQL's NULL in teamId and managerId
  Requests,     \* request slots: how many requests the backend handles at once
  Wanted,       \* the roles a request body may ask for
  SeedRole,     \* the database a seed run leaves: each user's role,
  SeedTeam,     \* the team each user is a member of,
  SeedManager,  \* and each team's manager
  MaxFaults,    \* bound: database calls that are refused
  MaxCrashes    \* bound: stops of the backend process

\* A row that was never inserted and one that was deleted: ids are never reused.
Gone == {"unborn", "deleted"}

ASSUME SeedAssumption ==
  /\ None \notin Users /\ None \notin Teams
  /\ Wanted \subseteq Roles
  /\ SeedRole \in [Users -> Roles \cup {"unborn"}]
  /\ SeedTeam \in [Users -> Teams \cup {None}]
  /\ SeedManager \in [Teams -> Users \cup {None}]
  /\ MaxFaults \in Nat /\ MaxCrashes \in Nat

\* one_owner and seed.ts: there is one OWNER, and a seeded manager has its row and
\* leads one team, as every MANAGER does.
ASSUME SeedConsistent ==
  /\ \E o \in Users : \A u \in Users : SeedRole[u] = "OWNER" <=> u = o
  /\ \A t \in Teams : SeedManager[t] # None => SeedRole[SeedManager[t]] = "MANAGER"
  /\ \A u \in Users : SeedRole[u] = "MANAGER" => \E t \in Teams : SeedManager[t] = u
  /\ \A u \in Users : SeedTeam[u] # None => SeedManager[SeedTeam[u]] # None
  /\ \A t, s \in Teams : SeedManager[t] # None /\ SeedManager[t] = SeedManager[s] => t = s

VARIABLES
  role,      \* User.role, or why there is no row
  team,      \* User.teamId
  account,   \* the users with a credential Account: those who can sign in
  teams,     \* the rows of Team
  manager,   \* Team.managerId
  audited,   \* the role that replaying AuditLog gives each user
  req,       \* req[r]: the request in slot r, with the handler's locals
  faults,    \* how many database calls were refused
  crashes    \* how often the backend stopped

tables == <<role, team, account, teams, manager, audited>>
vars == <<tables, req, faults, crashes>>

-----------------------------------------------------------------------------
CreateSteps == {"resolve", "checkTeam", "insert", "credential", "createTeam",
                "linkTeam", "createAudit", "cleanup"}

ChangeSteps == {"find", "guard", "lookup", "newTeam", "update", "changeAudit"}

Request == [pc     : {"idle"} \cup CreateSteps \cup ChangeSteps,
            actor  : Users \cup {None},         \* JWT sub
            claim  : Roles \cup Gone,           \* JWT role
            want   : Roles \cup Gone,           \* dto.role
            target : Users \cup {None},         \* created.id, or the :id of the path
            seen   : Roles \cup Gone,           \* target.role as changeRole read it
            teamId : Teams \cup {None}]

Idle == [pc |-> "idle", actor |-> None, claim |-> "unborn", want |-> "unborn",
         target |-> None, seen |-> "unborn", teamId |-> None]

Exists(u) == role[u] \in Roles

\* team.findFirst({ managerId: u }): any of these.
Led(u) == {t \in teams : manager[t] = u}

OrgOwner(claim) == claim \in {"OWNER", "ADMIN"}

\* Faulty: a manager's scope is the team of its own row, as in the JWT.
ListingsByRow(claim, actor) ==
  IF OrgOwner(claim) THEN {{u \in Users : Exists(u)}}
  ELSE IF claim = "MANAGER" THEN {{u \in Users : Exists(u) /\ team[u] = team[actor]}}
  ELSE {{actor}}

\* list: what GET /users may answer, as sets of rows.  A manager's scope is the team
\* findFirst finds it leading, or nothing.
Listings(claim, actor) ==
  IF OrgOwner(claim) THEN {{u \in Users : Exists(u)}}
  ELSE IF claim = "MANAGER"
       THEN IF Led(actor) = {} THEN {{}}
            ELSE {{u \in Users : Exists(u) /\ team[u] = t} : t \in Led(actor)}
  ELSE {{actor}}

Goes(r, pc) == req' = [req EXCEPT ![r].pc = pc]

Ends(r) == req' = [req EXCEPT ![r] = Idle]

Init ==
  /\ role = SeedRole
  /\ team = SeedTeam
  /\ account = {u \in Users : SeedRole[u] \in Roles}
  /\ teams = {t \in Teams : SeedManager[t] # None}
  /\ manager = SeedManager
  /\ audited = SeedRole
  /\ req = [r \in Requests |-> Idle]
  /\ faults = 0 /\ crashes = 0

-----------------------------------------------------------------------------
\* The BFF looks the session up, signs a JWT with the role the User row has at
\* that moment and forwards the request.
SignedIn(a) == Exists(a) /\ a \in account

BeginCreate(r, a, want, dtoTeam) ==
  /\ req[r].pc = "idle"
  /\ SignedIn(a)
  /\ req' = [req EXCEPT ![r] = [Idle EXCEPT !.pc = "resolve", !.actor = a,
               !.claim = role[a], !.want = want, !.teamId = dtoTeam]]
  /\ UNCHANGED <<tables, faults, crashes>>

BeginChange(r, a, target, want) ==
  /\ req[r].pc = "idle"
  /\ SignedIn(a)
  /\ req' = [req EXCEPT ![r] = [Idle EXCEPT !.pc = "find", !.actor = a,
               !.claim = role[a], !.want = want, !.target = target]]
  /\ UNCHANGED <<tables, faults, crashes>>

-----------------------------------------------------------------------------
\* create, steps 1 and 2: the hierarchy gate refuses, a manager leads no team,
\* or an admin names no team for staff.
CreateRefused(r) ==
  /\ req[r].pc = "resolve"
  /\ \/ ~CanCreate(req[r].claim, req[r].want)
     \/ req[r].claim = "MANAGER" /\ Led(req[r].actor) = {}
     \/ OrgOwner(req[r].claim) /\ req[r].want \in Staff /\ req[r].teamId = None
  /\ Ends(r)
  /\ UNCHANGED <<tables, faults, crashes>>

\* Faulty: a team the body names is taken from a manager too.
ResolveManagersTeamNamed(r) ==
  /\ req[r].pc = "resolve"
  /\ CanCreate(req[r].claim, req[r].want)
  /\ req[r].claim = "MANAGER"
  /\ \E t \in Led(req[r].actor) :
       req' = [req EXCEPT ![r].pc = "checkTeam", ![r].teamId = IF @ = None THEN t ELSE @]
  /\ UNCHANGED <<tables, faults, crashes>>

\* A manager creates in the team it leads, whatever team the body names.
ResolveManagersTeam(r) ==
  /\ req[r].pc = "resolve"
  /\ CanCreate(req[r].claim, req[r].want)
  /\ req[r].claim = "MANAGER"
  /\ \E t \in Led(req[r].actor) :
       req' = [req EXCEPT ![r].pc = "checkTeam", ![r].teamId = t]
  /\ UNCHANGED <<tables, faults, crashes>>

ResolveNamedTeam(r) ==
  /\ req[r].pc = "resolve"
  /\ CanCreate(req[r].claim, req[r].want)
  /\ OrgOwner(req[r].claim)
  /\ req[r].want \in Staff => req[r].teamId # None
  /\ Goes(r, IF req[r].teamId = None THEN "insert" ELSE "checkTeam")
  /\ UNCHANGED <<tables, faults, crashes>>

\* Step 3: a teamId that is not a row is refused.
CheckTeam(r) ==
  /\ req[r].pc = "checkTeam"
  /\ IF req[r].teamId \in teams THEN Goes(r, "insert") ELSE Ends(r)
  /\ UNCHANGED <<tables, faults, crashes>>

\* Faulty: goes on without the id of the row that was created.
InsertUserUnrecorded(r, u) ==
  /\ req[r].pc = "insert"
  /\ role[u] = "unborn"
  /\ role' = [role EXCEPT ![u] = req[r].want]
  /\ team' = [team EXCEPT ![u] = req[r].teamId]
  /\ Goes(r, "credential")
  /\ UNCHANGED <<account, teams, manager, audited, faults, crashes>>

\* Step 4: user.create.
InsertUser(r, u) ==
  /\ req[r].pc = "insert"
  /\ role[u] = "unborn"
  /\ role' = [role EXCEPT ![u] = req[r].want]
  /\ team' = [team EXCEPT ![u] = req[r].teamId]
  /\ req' = [req EXCEPT ![r].pc = "credential", ![r].target = u]
  /\ UNCHANGED <<account, teams, manager, audited, faults, crashes>>

\* upsertCredentialAccount.  An org owner's teamId is still dto.teamId, so None
\* here means the body named no team and a new manager gets one of its own.
WriteCredential(r) ==
  /\ req[r].pc = "credential"
  /\ account' = account \cup {req[r].target}
  /\ Goes(r, IF /\ req[r].want = "MANAGER"
                /\ OrgOwner(req[r].claim)
                /\ req[r].teamId = None
             THEN "createTeam" ELSE "createAudit")
  /\ UNCHANGED <<role, team, teams, manager, audited, faults, crashes>>

\* team.create, with the target as manager: shared by create and changeRole.
NewTeam(r, t, next) ==
  /\ t \notin teams
  /\ teams' = teams \cup {t}
  /\ manager' = [manager EXCEPT ![t] = req[r].target]
  /\ req' = [req EXCEPT ![r].pc = next, ![r].teamId = t]
  /\ UNCHANGED <<role, team, account, audited, faults, crashes>>

CreateTeam(r, t) ==
  /\ req[r].pc = "createTeam"
  /\ NewTeam(r, t, "linkTeam")

\* Faulty: the new manager is left outside the team created for it.
LinkTeamForgotten(r) ==
  /\ req[r].pc = "linkTeam"
  /\ Goes(r, "createAudit")
  /\ UNCHANGED <<tables, faults, crashes>>

\* user.update({ teamId }): the role is not written again.
LinkTeam(r) ==
  /\ req[r].pc = "linkTeam"
  /\ team' = [team EXCEPT ![req[r].target] = req[r].teamId]
  /\ Goes(r, "createAudit")
  /\ UNCHANGED <<role, account, teams, manager, audited, faults, crashes>>

\* The audit row names the actor, which must still be a row of User.
CreateAudit(r) ==
  /\ req[r].pc = "createAudit"
  /\ IF Exists(req[r].actor)
     THEN /\ audited' = [audited EXCEPT ![req[r].target] = req[r].want]
          /\ Ends(r)
     ELSE /\ Goes(r, "cleanup")
          /\ UNCHANGED audited
  /\ UNCHANGED <<role, team, account, teams, manager, faults, crashes>>

\* Faulty: only the User row goes; the foreign keys of Account and Team allow it.
CleanupRowOnly(r) ==
  /\ req[r].pc = "cleanup"
  /\ role' = [role EXCEPT ![req[r].target] = "deleted"]
  /\ Ends(r)
  /\ UNCHANGED <<team, account, teams, manager, audited, faults, crashes>>

\* The catch block: user.delete, which cascades to Account and clears managerId.
Cleanup(r) ==
  /\ req[r].pc = "cleanup"
  /\ role' = [role EXCEPT ![req[r].target] = "deleted"]
  /\ team' = [team EXCEPT ![req[r].target] = None]
  /\ account' = account \ {req[r].target}
  /\ manager' = [t \in Teams |-> IF manager[t] = req[r].target THEN None ELSE manager[t]]
  /\ Ends(r)
  /\ UNCHANGED <<teams, audited, faults, crashes>>

-----------------------------------------------------------------------------
\* changeRole, steps 1 to 3: there is no such row, it is the actor's own, or the
\* hierarchy forbids the change.
MayChange(r) ==
  /\ Exists(req[r].target)
  /\ req[r].target # req[r].actor
  /\ CanChange(req[r].claim, role[req[r].target], req[r].want)

ChangeRefused(r) ==
  /\ req[r].pc = "find"
  /\ ~MayChange(r)
  /\ Ends(r)
  /\ UNCHANGED <<tables, faults, crashes>>

\* Faulty: creates a team whenever the new role is MANAGER.
AfterFindNewTeam(seen, want) ==
  IF seen = "MANAGER" /\ want # "MANAGER" THEN "guard"
  ELSE IF want = "MANAGER" THEN "newTeam"
  ELSE "update"

\* What step comes next for a target whose row had role seen.
AfterFind(seen, want) ==
  IF seen = "MANAGER" /\ want # "MANAGER" THEN "guard"
  ELSE IF want = "MANAGER" /\ seen # "MANAGER" THEN "lookup"
  ELSE "update"

FindTarget(r) ==
  /\ req[r].pc = "find"
  /\ MayChange(r)
  /\ LET u == req[r].target
     IN  req' = [req EXCEPT ![r].pc = AfterFind(role[u], req[r].want),
                            ![r].seen = role[u], ![r].teamId = team[u]]
  /\ UNCHANGED <<tables, faults, crashes>>

\* Faulty: demotes whoever leads a team.
DemotionUnguarded(r) ==
  /\ req[r].pc = "guard"
  /\ Goes(r, "update")
  /\ UNCHANGED <<tables, faults, crashes>>

\* Step 4: a manager who leads a team is not demoted.
DemotionGuard(r) ==
  /\ req[r].pc = "guard"
  /\ IF Led(req[r].target) # {} THEN Ends(r) ELSE Goes(r, "update")
  /\ UNCHANGED <<tables, faults, crashes>>

\* Faulty: a new manager is left in the team it was in, if any.
LookupTeamSkipped(r) ==
  /\ req[r].pc = "lookup"
  /\ Goes(r, "update")
  /\ UNCHANGED <<tables, faults, crashes>>

\* Step 5: a new manager who leads no team gets one.
LookupTeam(r) ==
  /\ req[r].pc = "lookup"
  /\ Goes(r, IF Led(req[r].target) # {} THEN "update" ELSE "newTeam")
  /\ UNCHANGED <<tables, faults, crashes>>

\* The foreign key refuses a manager whose row is gone.
ChangeTeam(r, t) ==
  /\ req[r].pc = "newTeam"
  /\ Exists(req[r].target)
  /\ NewTeam(r, t, "update")

\* user.update({ role, teamId }) by id: the role and team read before are not
\* compared, and the team is written back whatever it is now.
UpdateRole(r) ==
  /\ req[r].pc = "update"
  /\ Exists(req[r].target)
  /\ role' = [role EXCEPT ![req[r].target] = req[r].want]
  /\ team' = [team EXCEPT ![req[r].target] = req[r].teamId]
  /\ Goes(r, "changeAudit")
  /\ UNCHANGED <<account, teams, manager, audited, faults, crashes>>

\* team.create or user.update finds the target's row gone and throws.
TargetGone(r) ==
  /\ req[r].pc \in {"newTeam", "update"}
  /\ ~Exists(req[r].target)
  /\ Ends(r)
  /\ UNCHANGED <<tables, faults, crashes>>

\* Faulty: before and after change places.
ChangeAuditSwapped(r) ==
  /\ req[r].pc = "changeAudit"
  /\ audited' = [audited EXCEPT ![req[r].target] = req[r].seen]
  /\ Ends(r)
  /\ UNCHANGED <<role, team, account, teams, manager, faults, crashes>>

\* Step 6: the audit row, in a transaction of its own; if the actor's row is
\* gone it throws and the change stays.
ChangeAudit(r) ==
  /\ req[r].pc = "changeAudit"
  /\ audited' = IF Exists(req[r].actor)
                THEN [audited EXCEPT ![req[r].target] = req[r].want]
                ELSE audited
  /\ Ends(r)
  /\ UNCHANGED <<role, team, account, teams, manager, faults, crashes>>

-----------------------------------------------------------------------------
CatchSteps == {"credential", "createTeam", "linkTeam", "createAudit"}

\* Faulty: the handler has no catch block.
RefusedUncaught(r) ==
  /\ req[r].pc # "idle"
  /\ faults < MaxFaults
  /\ faults' = faults + 1
  /\ Ends(r)
  /\ UNCHANGED <<tables, crashes>>

\* A database call throws.  Inside create's try block the catch block runs; a
\* failure of its own delete is swallowed.
Throws(r) == IF req[r].pc \in CatchSteps THEN Goes(r, "cleanup") ELSE Ends(r)

\* Connection lost, statement timeout, an email that is taken.
Refused(r) ==
  /\ req[r].pc # "idle"
  /\ faults < MaxFaults
  /\ faults' = faults + 1
  /\ Throws(r)
  /\ UNCHANGED <<tables, crashes>>

\* Bound: an insert beyond the ids of Users and Teams is refused too, uncounted.
OutOfIds(r) ==
  /\ \/ req[r].pc = "insert" /\ "unborn" \notin {role[u] : u \in Users}
     \/ req[r].pc \in {"createTeam", "newTeam"} /\ teams = Teams
  /\ Throws(r)
  /\ UNCHANGED <<tables, faults, crashes>>

\* The backend process stops: the requests in progress are gone, no catch runs.
Crash ==
  /\ crashes < MaxCrashes
  /\ crashes' = crashes + 1
  /\ req' = [r \in Requests |-> Idle]
  /\ UNCHANGED <<tables, faults>>

CreateStep(r) ==
  \/ CreateRefused(r)
  \/ ResolveManagersTeam(r)
  \/ ResolveNamedTeam(r)
  \/ CheckTeam(r)
  \/ \E u \in Users : InsertUser(r, u)
  \/ WriteCredential(r)
  \/ \E t \in Teams : CreateTeam(r, t)
  \/ LinkTeam(r)
  \/ CreateAudit(r)
  \/ Cleanup(r)

ChangeStep(r) ==
  \/ ChangeRefused(r)
  \/ FindTarget(r)
  \/ DemotionGuard(r)
  \/ LookupTeam(r)
  \/ \E t \in Teams : ChangeTeam(r, t)
  \/ UpdateRole(r)
  \/ TargetGone(r)
  \/ ChangeAudit(r)

Begin(r) ==
  \E a \in Users, want \in Wanted :
    \/ \E t \in Teams \cup {None} : BeginCreate(r, a, want, t)
    \/ \E u \in Users : BeginChange(r, a, u, want)

Next ==
  \/ \E r \in Requests :
       Begin(r) \/ CreateStep(r) \/ ChangeStep(r) \/ Refused(r) \/ OutOfIds(r)
  \/ Crash

Spec == Init /\ [][Next]_vars

-----------------------------------------------------------------------------
TypeOK ==
  /\ role \in [Users -> Roles \cup Gone]
  /\ team \in [Users -> Teams \cup {None}]
  /\ account \subseteq Users
  /\ teams \subseteq Teams
  /\ manager \in [Teams -> Users \cup {None}]
  /\ audited \in [Users -> Roles \cup Gone]
  /\ req \in [Requests -> Request]
  /\ \A r \in Requests :
       /\ req[r].pc # "idle"
            => req[r].actor \in Users /\ req[r].claim \in Roles /\ req[r].want \in Wanted
       /\ req[r].pc \in CatchSteps \cup {"cleanup"} \cup ChangeSteps
            => req[r].target \in Users
  /\ faults \in 0..MaxFaults
  /\ crashes \in 0..MaxCrashes

\* Whatever requests interleave, fail or die, the one OWNER is the seeded one:
\* no sequence of creations and role changes, each checked against a role read
\* earlier, makes a second owner, demotes the owner or deletes its row.
OneOwner ==
  \A u \in Users : role[u] = "OWNER" <=> SeedRole[u] = "OWNER"

\* A role is only ever given by a request whose claim strictly outranks it, and
\* never to the actor itself, although the gate ran steps earlier on a row that
\* other requests may have rewritten since.
GrantOutranked ==
  \A u \in Users :
    role'[u] # role[u] /\ role'[u] \in Roles
      => \E r \in Requests :
           /\ req[r].pc \in {"insert", "update"}
           /\ Outranks(req[r].claim, role'[u])
           /\ req[r].actor # u

GrantsOutranked == [][GrantOutranked]_vars

\* "don't leave a user that can't sign in": as long as at most one database call
\* failed and the backend did not stop, a user without a credential is one whose
\* creation is still in progress.
NoUserWithoutCredential ==
  \A u \in Users :
    faults <= 1 /\ crashes = 0 /\ Exists(u) /\ u \notin account
      => \E r \in Requests :
           req[r].target = u /\ req[r].pc \in {"credential", "cleanup"}

\* The cleanup of a failed creation leaves nothing behind, even if the user
\* signed in meanwhile or another request was giving it a role and a team.
DeletedLeavesNothing ==
  \A u \in Users :
    role[u] = "deleted" => u \notin account /\ team[u] = None /\ Led(u) = {}

\* "MANAGER creates/changes TELECALLER/SALES_EXEC within their own team"
\* (header of roles.ts): a manager about to write a row leads that row's team.
ManagersStayInTeam ==
  \A r \in Requests :
    req[r].pc = "update" /\ req[r].claim = "MANAGER"
      => team[req[r].target] \in Led(req[r].actor)

\* "only OWNER touches ADMIN rows" (header of users.service.ts): the row that is
\* about to be written is not an ADMIN's, unless the actor is the owner.
AdminRowsOwnersOnly ==
  \A r \in Requests :
    req[r].pc = "update" /\ Exists(req[r].target) /\ role[req[r].target] = "ADMIN"
      => req[r].claim = "OWNER"

-----------------------------------------------------------------------------
\* The inductive invariants behind the properties that hold however requests
\* interleave.  What the gates established stays true of the request they let
\* pass, because no request can undo it: nobody becomes or stops being OWNER.
Inserted == CatchSteps \cup {"cleanup"}

Changing == {"guard", "lookup", "newTeam", "update"}

Gate(r) ==
  /\ req[r].pc \in {"checkTeam", "insert"} \cup Changing
       => req[r].want # "OWNER" /\ Outranks(req[r].claim, req[r].want)
  /\ req[r].pc \in Inserted \cup Changing => SeedRole[req[r].target] # "OWNER"
  /\ req[r].pc \in Changing => req[r].target # req[r].actor
  /\ req[r].pc # "idle" => role[req[r].actor] # "unborn"

GateInv == OneOwner /\ \A r \in Requests : Gate(r)

\* The row a creation inserted is its own until it ends: it exists, and no other
\* creation works on it.
CreatedInv ==
  /\ \A r \in Requests : req[r].pc \in Inserted => Exists(req[r].target)
  /\ \A r, s \in Requests :
       req[r].pc \in Inserted /\ req[s].pc \in Inserted /\ req[r].target = req[s].target
         => r = s
  /\ DeletedLeavesNothing

\* As NoUserWithoutCredential; a cleanup without a credential used up the fault.
CredentialInv ==
  \A u \in Users :
    faults <= 1 /\ crashes = 0 /\ Exists(u) /\ u \notin account
      => \E r \in Requests :
           /\ req[r].target = u
           /\ req[r].pc = "credential" \/ (req[r].pc = "cleanup" /\ faults = 1)

=============================================================================
