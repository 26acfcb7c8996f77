---------------------------- MODULE UserRegistry ----------------------------
(***************************************************************************)
(* What the admin pages rely on: the users, their teams and the audit log  *)
(* as one registry.  Each request to create a user or to give one another  *)
(* role is served in one step, under the role its sender has at that       *)
(* moment, or not at all.  No handler half way, no row that is created     *)
(* first and taken back later, no team whose manager is not one yet.       *)
(* UsersService implements this module when requests come one by one.      *)
(***************************************************************************)
EXTENDS RoleRules

CONSTANTS
  Users, Teams, None,
  SeedRole, SeedTeam, SeedLeader   \* the registry a seed run leaves

VARIABLES
  role,      \* the role of each user, "unborn" or "deleted"
  team,      \* the team each user is a member of
  leader,    \* the manager of each team; None: there is no such team yet
  log,       \* the role the audit log gives each user
  asks       \* the requests that are not answered

vars == <<role, team, leader, log, asks>>

\* A request to give the user "of" a role or, of None, to create one with it.
Ask == [by : Users, of : Users \cup {None}, want : Roles]

Exists(u) == role[u] \in Roles

Leads(u) == \E t \in Teams : leader[t] = u

Init ==
  /\ role = SeedRole
  /\ team = [u \in Users |-> IF SeedRole[u] \in Roles THEN SeedTeam[u] ELSE None]
  /\ leader = SeedLeader
  /\ log = SeedRole
  /\ asks = {}

Arrives(q) ==
  /\ Exists(q.by)
  /\ asks' = asks \cup {q}
  /\ UNCHANGED <<role, team, leader, log>>

Answered(q) == q \in asks /\ asks' = asks \ {q}

\* Refused: nothing happens.
Refuse(q) ==
  /\ Answered(q)
  /\ UNCHANGED <<role, team, leader, log>>

\* u comes to be, with a role below that of its creator; the log says so.
Create(q, u) ==
  /\ Answered(q) /\ q.of = None
  /\ role[u] = "unborn"
  /\ Exists(q.by) /\ CanCreate(role[q.by], q.want)
  /\ role' = [role EXCEPT ![u] = q.want]
  /\ log' = [log EXCEPT ![u] = q.want]

\* Into a team that has a leader: a manager's own, or any an admin names.
Join(q, u, t) ==
  /\ Create(q, u)
  /\ leader[t] # None
  /\ role[q.by] = "MANAGER" => leader[t] = q.by
  /\ team' = [team EXCEPT ![u] = t]
  /\ UNCHANGED leader

\* A manager for whom no team is named starts with one of its own ...
Found(q, u, t) ==
  /\ Create(q, u)
  /\ q.want = "MANAGER" /\ leader[t] = None
  /\ leader' = [leader EXCEPT ![t] = u]
  /\ team' = [team EXCEPT ![u] = t]

\* ... and only an admin may be outside every team.
Stay(q, u) ==
  /\ Create(q, u)
  /\ q.want = "ADMIN"
  /\ UNCHANGED <<team, leader>>

\* A creation that comes to nothing uses up an id.
Burn(q, u) ==
  /\ Answered(q) /\ q.of = None
  /\ role[u] = "unborn"
  /\ role' = [role EXCEPT ![u] = "deleted"]
  /\ UNCHANGED <<team, leader, log>>

\* Another role for a user, by somebody above both roles; the log says so.
Change(q) ==
  /\ Answered(q) /\ q.of \in Users \ {q.by}
  /\ Exists(q.by) /\ Exists(q.of)
  /\ CanChange(role[q.by], role[q.of], q.want)
  /\ role' = [role EXCEPT ![q.of] = q.want]
  /\ log' = [log EXCEPT ![q.of] = q.want]

\* Whoever becomes a manager gets a team of its own, having led none.
Promote(q, t) ==
  /\ Change(q)
  /\ q.want = "MANAGER" /\ role[q.of] # "MANAGER"
  /\ ~Leads(q.of) /\ leader[t] = None
  /\ leader' = [leader EXCEPT ![t] = q.of]
  /\ team' = [team EXCEPT ![q.of] = t]

\* Any other change leaves the user in its team; who leads one remains a manager.
Reassign(q) ==
  /\ Change(q)
  /\ IF q.want = "MANAGER" THEN role[q.of] = "MANAGER" ELSE ~Leads(q.of)
  /\ UNCHANGED <<team, leader>>

Next ==
  \/ \E q \in Ask : Arrives(q)
  \/ \E q \in asks :
       \/ Refuse(q)
       \/ Reassign(q)
       \/ \E t \in Teams : Promote(q, t)
       \/ \E u \in Users :
            \/ Stay(q, u) \/ Burn(q, u)
            \/ \E t \in Teams : Join(q, u, t) \/ Found(q, u, t)

Spec == Init /\ [][Next]_vars
=============================================================================
