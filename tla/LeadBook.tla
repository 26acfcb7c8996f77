------------------------------ MODULE LeadBook ------------------------------
(***************************************************************************)
(* What the handlers rely on when they pass an RlsContext: each serves one *)
(* user at a time and writes in one step what that very user may write by  *)
(* the rules of the application's own roles.  No session variables that    *)
(* outlive a request, no three statements to set them, no OWNER who        *)
(* travels as ADMIN.                                                       *)
(* RowSecurity implements this module.                                     *)
(***************************************************************************)
EXTENDS RoleRules

CONSTANTS
  Users, Teams, Leads, Children,
  ForAll,     \* the tables below a lead whose rows may also be moved and deleted
  Conns,      \* the handlers, by the connection each works on
  Contexts,   \* whom they may serve: user, role, and team or none
  NoContext, NoRow

VARIABLES
  ctx,        \* ctx[c]: whom the handler on c serves, if anybody
  lead, child, reminder, audit

rows == <<lead, child, reminder, audit>>
vars == <<ctx, rows>>

Lead == [owner : Users, team : Teams]

Admins == {"OWNER", "ADMIN"}

\* Whose lead it is: the admins', its team's manager's, its owner's.
Entitled(x, row) ==
  \/ x.role \in Admins
  \/ x.role = "MANAGER" /\ row.team = x.team
  \/ x.role \in Staff /\ row.owner = x.user

\* The rows below a lead are written by the lead's owner or, above staff, from
\* within its team: admins of another team read them only.
WritesBelow(x, row) ==
  IF x.role \in Staff THEN row.owner = x.user ELSE row.team = x.team

Init ==
  /\ ctx = [c \in Conns |-> NoContext]
  /\ lead = [l \in Leads |-> NoRow]
  /\ child = {} /\ reminder = {} /\ audit = {}

\* Everyone adds leads to their own team, in anybody's name.
AddLead(x, l, row) ==
  /\ lead[l] = NoRow
  /\ row.team = x.team
  /\ lead' = [lead EXCEPT ![l] = row]
  /\ UNCHANGED <<child, reminder, audit>>

\* A lead is theirs before the change and after it: a manager keeps it in the team,
\* staff keep it as their own, only admins give it away.
ChangeLead(x, l, row) ==
  /\ lead[l] # NoRow
  /\ Entitled(x, lead[l]) /\ Entitled(x, row)
  /\ lead' = [lead EXCEPT ![l] = row]
  /\ UNCHANGED <<child, reminder, audit>>

\* Only admins delete, and nothing below a lead outlives it.
RemoveLead(x, l) ==
  /\ lead[l] # NoRow /\ x.role \in Admins
  /\ lead' = [lead EXCEPT ![l] = NoRow]
  /\ child' = {r \in child : r[2] # l}
  /\ reminder' = {r \in reminder : r[1] # l}
  /\ UNCHANGED audit

AddChild(x, t, l) ==
  /\ lead[l] # NoRow /\ WritesBelow(x, lead[l])
  /\ child' = child \cup {<<t, l>>}
  /\ UNCHANGED <<lead, reminder, audit>>

MoveChild(x, t, l, k) ==
  /\ t \in ForAll /\ <<t, l>> \in child
  /\ lead[k] # NoRow /\ WritesBelow(x, lead[l]) /\ WritesBelow(x, lead[k])
  /\ child' = (child \ {<<t, l>>}) \cup {<<t, k>>}
  /\ UNCHANGED <<lead, reminder, audit>>

RemoveChild(x, t, l) ==
  /\ t \in ForAll /\ <<t, l>> \in child
  /\ WritesBelow(x, lead[l])
  /\ child' = child \ {<<t, l>>}
  /\ UNCHANGED <<lead, reminder, audit>>

\* Reminders are one's own, on any lead.
Remind(x, l) ==
  /\ lead[l] # NoRow
  /\ reminder' = reminder \cup {<<l, x.user>>}
  /\ UNCHANGED <<lead, child, audit>>

Forget(x, l) ==
  /\ reminder' = reminder \ {<<l, x.user>>}
  /\ UNCHANGED <<lead, child, audit>>

\* The audit log only grows, by rows about anybody: it is no witness of who wrote them.
Log(u) ==
  /\ audit' = audit \cup {u}
  /\ UNCHANGED <<lead, child, reminder>>

\* One write for x.
Write(x) ==
  \/ \E l \in Leads, row \in Lead : AddLead(x, l, row) \/ ChangeLead(x, l, row)
  \/ \E l \in Leads : RemoveLead(x, l) \/ Remind(x, l) \/ Forget(x, l)
  \/ \E t \in Children, l \in Leads : AddChild(x, t, l) \/ RemoveChild(x, t, l)
  \/ \E t \in Children, l, k \in Leads : MoveChild(x, t, l, k)
  \/ \E u \in Users : Log(u)

Takes(c, x) ==
  /\ ctx[c] = NoContext
  /\ ctx' = [ctx EXCEPT ![c] = x]
  /\ UNCHANGED rows

\* A handler writes once for the user it serves, or not at all.
Serves(c) ==
  /\ ctx[c] # NoContext
  /\ ctx' = [ctx EXCEPT ![c] = NoContext]
  /\ Write(ctx[c]) \/ UNCHANGED rows

\* Rows are added to the log, and nothing else is written, for nobody in particular.
Logs ==
  /\ \E u \in Users : Log(u)
  /\ UNCHANGED ctx

Next ==
  \/ \E c \in Conns : Serves(c) \/ \E x \in Contexts : Takes(c, x)
  \/ Logs

Spec == Init /\ [][Next]_vars
=============================================================================
