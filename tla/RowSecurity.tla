---------------------------- MODULE RowSecurity ----------------------------
(***************************************************************************)
(* Row-level security: the policies of packages/database/prisma/rls and    *)
(* withRlsContext, which sets the variables they read inside a transaction *)
(* on a connection that other requests use before and after.               *)
(*                                                                         *)
(* PostgreSQL is modelled as far as the policies need it: the policies of  *)
(* a command are alternatives, no policy means no row, a statement that    *)
(* reads rows also needs the SELECT policies for them, foreign keys ignore *)
(* policies, and a variable that was set locally is the empty string, not  *)
(* NULL, once its transaction has ended.  An INSERT reads nothing unless   *)
(* it returns its row: Prisma's create does, createMany and raw SQL do not.*)
(***************************************************************************)
EXTENDS RoleRules

CONSTANTS
  Users,      \* the ids of users
  Teams,      \* the ids of teams
  Leads,      \* the ids of leads
  Children,   \* the tables that belong to a lead and are modelled
  Conns,      \* the connections of the pool
  Contexts,   \* the RlsContexts that handlers pass: user, role and team
  Null        \* null: a context without a team, no row, no context

Unset == "unset"   \* current_setting gives NULL
Blank == ""        \* ... or the empty string

NoRow == Null
NoContext == Null

\* The tables with a policy FOR ALL; the others can only be read and inserted.
ForAll == {"SiteVisit", "Booking"}

Lead == [owner : Users, team : Teams]

ASSUME ContextAssumption ==
  /\ Null \notin Contexts \cup Lead
  /\ Contexts \subseteq [user : Users, role : Roles, team : Teams \cup {Null}]
  /\ Users \cap {Unset, Blank} = {}
  /\ Teams \cap {Unset, Blank, Null} = {}
  /\ Children \subseteq ForAll \cup {"Activity", "Message", "Consent"}

VARIABLES
  setting,    \* setting[c]: app.user_id, app.user_role and app.user_team_id
  next,       \* next[c]: what the transaction on c does next, "none" without one
  ctx,        \* ctx[c]: the context withRlsContext was called with
  lead,       \* lead[l]: owner and team of a Lead row, or NoRow
  child,      \* child rows: <<table, lead>>, and
  reminder,   \* Reminder rows: <<lead, user>>; bound: no two alike
  audit       \* AuditLog rows: the user they name

rows == <<lead, child, reminder, audit>>
vars == <<setting, next, ctx, rows>>

-----------------------------------------------------------------------------
\* The policies.  s is the three variables of a connection.

LeadSelect(s, row) ==
  \/ s.role \in Staff /\ row.owner = s.user
  \/ s.role = "MANAGER" /\ row.team = s.team
  \/ s.role = "ADMIN"

\* Faulty: does not compare the team.
LeadInsertAnywhere(s, row) == s.role \in Staff \cup {"MANAGER", "ADMIN"}

LeadInsert(s, row) ==
  s.role \in Staff \cup {"MANAGER", "ADMIN"} /\ row.team = s.team

\* USING and WITH CHECK are the same in each of the three policies.
LeadUpdate(s, row) ==
  \/ s.role \in Staff /\ row.owner = s.user
  \/ s.role = "MANAGER" /\ row.team = s.team
  \/ s.role = "ADMIN"

LeadDelete(s) == s.role = "ADMIN"

SeesLead(s, l) == lead[l] # NoRow /\ LeadSelect(s, lead[l])

\* EXISTS (SELECT 1 FROM "Lead" ...): Lead's policies apply in the subquery, and
\* its condition for reading is theirs once more.
ReadsVia(s, l) == SeesLead(s, l)

\* Faulty: whoever reads a lead writes below it.
WritesViaRead(s, l) == SeesLead(s, l)

WritesVia(s, l) ==
  /\ SeesLead(s, l)
  /\ \/ s.role \in {"ADMIN", "MANAGER"} /\ lead[l].team = s.team
     \/ s.role \in Staff /\ lead[l].owner = s.user

ChildSelect(s, t, l) == ReadsVia(s, l) \/ (t \in ForAll /\ WritesVia(s, l))

\* Faulty: managers may write reminders for others.
ReminderWriteByManagers(s, u) == u = s.user \/ s.role = "MANAGER"

ReminderWrite(s, u) == u = s.user

ReminderSelect(s, u) ==
  u = s.user \/ s.role \in {"ADMIN", "MANAGER"} \/ ReminderWrite(s, u)

AuditSelect(s, u) == s.role = "ADMIN" \/ u = s.user

AuditInsert(s) == s.user # Unset

\* UPDATE and DELETE of a lead read it, by its id.  INSERT needs its own policy only,
\* and below a lead, as for reminders, whoever may write may read.
MayUpdateLead(s, l, row) ==
  SeesLead(s, l) /\ LeadUpdate(s, lead[l]) /\ LeadUpdate(s, row) /\ LeadSelect(s, row)

MayDeleteLead(s, l) == SeesLead(s, l) /\ LeadDelete(s)

-----------------------------------------------------------------------------
Init ==
  /\ setting = [c \in Conns |-> [user |-> Unset, role |-> Unset, team |-> Unset]]
  /\ next = [c \in Conns |-> "none"]
  /\ ctx = [c \in Conns |-> NoContext]
  /\ lead = [l \in Leads |-> NoRow]
  /\ child = {} /\ reminder = {} /\ audit = {}

\* withRlsContext opens a transaction; a role outside ROLES does not get here.
Begin(c, x) ==
  /\ next[c] = "none"
  /\ next' = [next EXCEPT ![c] = "user"]
  /\ ctx' = [ctx EXCEPT ![c] = x]
  /\ UNCHANGED <<setting, rows>>

\* Faulty: the owner keeps a role that no policy knows.
RlsRoleKept(role) == role

RlsRole(role) == IF role = "OWNER" THEN "ADMIN" ELSE role

\* Faulty: passes null on.
TeamValueKept(team) == team

TeamValue(team) == IF team = Null THEN Blank ELSE team

\* SET LOCAL app.user_id, then app.user_role, then app.user_team_id.
SetUser(c) ==
  /\ next[c] = "user"
  /\ setting' = [setting EXCEPT ![c].user = ctx[c].user]
  /\ next' = [next EXCEPT ![c] = "role"]
  /\ UNCHANGED <<ctx, rows>>

SetRole(c) ==
  /\ next[c] = "role"
  /\ setting' = [setting EXCEPT ![c].role = RlsRole(ctx[c].role)]
  /\ next' = [next EXCEPT ![c] = "team"]
  /\ UNCHANGED <<ctx, rows>>

SetTeam(c) ==
  /\ next[c] = "team"
  /\ setting' = [setting EXCEPT ![c].team = TeamValue(ctx[c].team)]
  /\ next' = [next EXCEPT ![c] = "fn"]
  /\ UNCHANGED <<ctx, rows>>

\* Faulty: SET where the code has SET LOCAL.
Kept(s) == s

\* What SET LOCAL leaves of a connection's variables after the transaction.
Reset(s) == [v \in {"user", "role", "team"} |-> IF s[v] = Unset THEN Unset ELSE Blank]

Ends(c) ==
  /\ setting' = [setting EXCEPT ![c] = Reset(setting[c])]
  /\ next' = [next EXCEPT ![c] = "none"]
  /\ ctx' = [ctx EXCEPT ![c] = NoContext]

\* Something threw, a statement was refused, or fn only read.
EndsWithoutWrite(c) ==
  /\ next[c] # "none"
  /\ Ends(c)
  /\ UNCHANGED rows

-----------------------------------------------------------------------------
\* A statement runs as the last of fn, and its transaction commits; or outside
\* withRlsContext, on the bare client, with what is set on the connection it gets.
CanRun(c) == next[c] \in {"fn", "none"}

InsertLead(c, l, row) ==
  /\ CanRun(c)
  /\ lead[l] = NoRow
  /\ LeadInsert(setting[c], row)
  /\ lead' = [lead EXCEPT ![l] = row]
  /\ Ends(c)
  /\ UNCHANGED <<child, reminder, audit>>

UpdateLead(c, l, row) ==
  /\ CanRun(c)
  /\ MayUpdateLead(setting[c], l, row)
  /\ lead' = [lead EXCEPT ![l] = row]
  /\ Ends(c)
  /\ UNCHANGED <<child, reminder, audit>>

\* The foreign keys of the rows below a lead cascade.
DeleteLead(c, l) ==
  /\ CanRun(c)
  /\ MayDeleteLead(setting[c], l)
  /\ lead' = [lead EXCEPT ![l] = NoRow]
  /\ child' = {r \in child : r[2] # l}
  /\ reminder' = {r \in reminder : r[1] # l}
  /\ Ends(c)
  /\ UNCHANGED audit

InsertChild(c, t, l) ==
  /\ CanRun(c)
  /\ <<t, l>> \notin child
  /\ WritesVia(setting[c], l)
  /\ child' = child \cup {<<t, l>>}
  /\ Ends(c)
  /\ UNCHANGED <<lead, reminder, audit>>

\* UPDATE of leadId: from lead l to lead k.
MoveChild(c, t, l, k) ==
  /\ CanRun(c)
  /\ t \in ForAll /\ <<t, l>> \in child
  /\ WritesVia(setting[c], l)
  /\ WritesVia(setting[c], k)
  /\ child' = (child \ {<<t, l>>}) \cup {<<t, k>>}
  /\ Ends(c)
  /\ UNCHANGED <<lead, reminder, audit>>

DeleteChild(c, t, l) ==
  /\ CanRun(c)
  /\ t \in ForAll /\ <<t, l>> \in child
  /\ WritesVia(setting[c], l)
  /\ child' = child \ {<<t, l>>}
  /\ Ends(c)
  /\ UNCHANGED <<lead, reminder, audit>>

InsertReminder(c, l, u) ==
  /\ CanRun(c)
  /\ lead[l] # NoRow /\ <<l, u>> \notin reminder
  /\ ReminderWrite(setting[c], u)
  /\ reminder' = reminder \cup {<<l, u>>}
  /\ Ends(c)
  /\ UNCHANGED <<lead, child, audit>>

DeleteReminder(c, l, u) ==
  /\ CanRun(c)
  /\ <<l, u>> \in reminder
  /\ ReminderWrite(setting[c], u)
  /\ reminder' = reminder \ {<<l, u>>}
  /\ Ends(c)
  /\ UNCHANGED <<lead, child, audit>>

InsertAudit(c, u) ==
  /\ CanRun(c)
  /\ AuditInsert(setting[c])
  /\ audit' = audit \cup {u}
  /\ Ends(c)
  /\ UNCHANGED <<lead, child, reminder>>

Statement(c) ==
  \/ \E l \in Leads, row \in Lead : InsertLead(c, l, row) \/ UpdateLead(c, l, row)
  \/ \E l \in Leads : DeleteLead(c, l)
  \/ \E t \in Children, l \in Leads : InsertChild(c, t, l) \/ DeleteChild(c, t, l)
  \/ \E t \in Children, l, k \in Leads : MoveChild(c, t, l, k)
  \/ \E l \in Leads, u \in Users : InsertReminder(c, l, u) \/ DeleteReminder(c, l, u)
  \/ \E u \in Users : InsertAudit(c, u)

Next ==
  \E c \in Conns :
    \/ \E x \in Contexts : Begin(c, x)
    \/ SetUser(c)
    \/ SetRole(c)
    \/ SetTeam(c)
    \/ Statement(c)
    \/ EndsWithoutWrite(c)

Spec == Init /\ [][Next]_vars

-----------------------------------------------------------------------------
Variables(vs) == vs \cup {Unset, Blank}

Settings == [user : Variables(Users), role : Variables(Roles \ {"OWNER"}),
             team : Variables(Teams)]

TypeOK ==
  /\ setting \in [Conns -> Settings]
  /\ next \in [Conns -> {"none", "user", "role", "team", "fn"}]
  /\ ctx \in [Conns -> Contexts \cup {NoContext}]
  /\ lead \in [Leads -> Lead \cup {NoRow}]
  /\ child \subseteq Children \X Leads
  /\ reminder \subseteq Leads \X Users
  /\ audit \subseteq Users

Admins == {"OWNER", "ADMIN"}

\* Whose leads a context is for, in terms of the roles of the application.
Entitled(x, row) ==
  \/ x.role \in Admins
  \/ x.role = "MANAGER" /\ row.team = x.team
  \/ x.role \in Staff /\ row.owner = x.user

\* A transaction reads the leads its own context is entitled to and the rows
\* below those, and the audit rows about its own user or, for admins, about anybody,
\* all of them and no others, whichever requests used the connection before it and
\* whatever other transactions commit meanwhile: "no cross-request bleed" (rls.ts),
\* and the OWNER reads as an ADMIN does.
SeesItsOwn ==
  \A c \in Conns : next[c] = "fn" =>
    /\ \A l \in Leads : lead[l] # NoRow =>
         /\ SeesLead(setting[c], l) <=> Entitled(ctx[c], lead[l])
         /\ \A t \in Children : ChildSelect(setting[c], t, l) <=> Entitled(ctx[c], lead[l])
    /\ \A u \in audit : AuditSelect(setting[c], u) <=> u = ctx[c].user \/ ctx[c].role \in Admins

\* Outside a transaction a statement reads nothing of these tables and writes nothing
\* but AuditLog rows, on a fresh connection, where the variables are NULL and AuditLog
\* is closed too, as on a used one, where they are empty and no longer NULL.
FailClosed ==
  \A c \in Conns : next[c] = "none" =>
    LET s == setting[c]
    IN  /\ \A l \in Leads : ~SeesLead(s, l) /\ ~MayDeleteLead(s, l)
        /\ \A row \in Lead : ~LeadInsert(s, row)
        /\ \A t \in Children, l \in Leads : ~ChildSelect(s, t, l) /\ ~WritesVia(s, l)
        /\ \A u \in Users : ~ReminderSelect(s, u) /\ ~ReminderWrite(s, u) /\ ~AuditSelect(s, u)
        /\ AuditInsert(s) => s.user = Blank

\* A lead starts in the team of the context that inserts it, with any owner.  Later
\* another owner comes only from an admin or from a manager of the lead's team,
\* another team never from a manager.  None of it happens outside withRlsContext.
LeadChangesHands ==
  \A l \in Leads : lead'[l] # lead[l] /\ lead'[l] # NoRow =>
    \E c \in Conns :
      /\ next[c] = "fn"
      /\ LET x == ctx[c]
         IN  IF lead[l] = NoRow
             THEN lead'[l].team = x.team
             ELSE /\ lead'[l].owner # lead[l].owner
                       => x.role \in Admins \/ (x.role = "MANAGER" /\ x.team = lead[l].team)
                  /\ lead'[l].team # lead[l].team => x.role # "MANAGER"

LeadsChangeHands == [][LeadChangesHands]_vars

\* Reminders are written by the user they are for, or go with their lead, though
\* managers and admins read all of them.
ReminderWritten ==
  \A r \in Leads \X Users : (r \in reminder) # (r \in reminder') =>
    \/ lead'[r[1]] = NoRow
    \/ \E c \in Conns : next[c] = "fn" /\ ctx[c].user = r[2]

RemindersAreOnesOwn == [][ReminderWritten]_vars

\* What the handlers rely on: the rows and whom each handler serves, without the
\* variables the policies read.
Book == INSTANCE LeadBook

\* Every write is one that the user its transaction was opened for may make by the
\* rules of the application, in one step: whichever transactions overlap, whichever
\* were on the connection before, and however the three variables stand while they
\* are being set.  A statement outside withRlsContext comes to nothing, or to a row
\* in the audit log.
ImplementsBook == Book!Spec

\* "Reminder (ownerId-scoped; team visibility for managers)" (policies.sql): a
\* manager reads reminders of users of its own team.
RemindersWithinTeam ==
  \A c \in Conns, r \in reminder :
    next[c] = "fn" /\ ctx[c].role = "MANAGER" /\ ReminderSelect(setting[c], r[2])
      => \E x \in Contexts : x.user = r[2] /\ x.team = ctx[c].team

\* The inductive invariant: the variables of a connection are those of the
\* transaction on it, as far as they have been set, and empty without one.
Cleared(s) == s.user \in {Unset, Blank} /\ s.role \in {Unset, Blank} /\ s.team \in {Unset, Blank}

ConnInv(c) ==
  /\ next[c] = "none" => Cleared(setting[c]) /\ ctx[c] = NoContext
  /\ next[c] # "none" => ctx[c] \in Contexts
  /\ next[c] \in {"role", "team", "fn"} => setting[c].user = ctx[c].user
  /\ next[c] \in {"team", "fn"} => setting[c].role = RlsRole(ctx[c].role)
  /\ next[c] = "fn" => setting[c].team = TeamValue(ctx[c].team)

ContextInv == \A c \in Conns : ConnInv(c)

=============================================================================
