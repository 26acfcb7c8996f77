------------------------- MODULE RowSecurityProofs -------------------------
(***************************************************************************)
(* Theorems about RowSecurity, for any users, teams, leads, connections    *)
(* and contexts.                                                           *)
(***************************************************************************)
EXTENDS RowSecurity, TLAPS

\* What withRlsContext sets for a context is a value the policies know.
LEMMA ContextValues ==
  ASSUME NEW x \in Contexts
  PROVE  /\ x.user \in Users
         /\ x.role \in Roles
         /\ x.team \in Teams \cup {Null}
         /\ RlsRole(x.role) \in Roles \ {"OWNER"}
         /\ TeamValue(x.team) \in Teams \cup {Blank}
BY ContextAssumption DEF Roles, RlsRole, TeamValue

\* What a transaction leaves in the variables is one of the two empty values.
LEMMA ResetValues ==
  ASSUME NEW s \in Settings
  PROVE  Reset(s) \in Settings /\ Cleared(Reset(s))
BY DEF Reset, Settings, Variables, Cleared

\* Every writing statement runs in fn or outside a transaction, leaves none behind and
\* keeps the rows of the four kinds of table in their types.
LEMMA StatementEnds ==
  ASSUME TypeOK, NEW c \in Conns, Statement(c)
  PROVE  /\ CanRun(c)
         /\ Ends(c)
         /\ lead' \in [Leads -> Lead \cup {NoRow}]
         /\ child' \subseteq Children \X Leads
         /\ reminder' \subseteq Leads \X Users
         /\ audit' \subseteq Users
<1>1. ASSUME NEW l \in Leads, NEW row \in Lead, InsertLead(c, l, row) \/ UpdateLead(c, l, row)
      PROVE  /\ CanRun(c) /\ Ends(c)
             /\ lead' \in [Leads -> Lead \cup {NoRow}]
             /\ UNCHANGED <<child, reminder, audit>>
  BY <1>1 DEF TypeOK, InsertLead, UpdateLead
<1>2. ASSUME NEW l \in Leads, DeleteLead(c, l)
      PROVE  /\ CanRun(c) /\ Ends(c)
             /\ lead' \in [Leads -> Lead \cup {NoRow}]
             /\ child' \subseteq child /\ reminder' \subseteq reminder /\ audit' = audit
  BY <1>2 DEF TypeOK, DeleteLead
<1>3. ASSUME NEW t \in Children, NEW l \in Leads, NEW k \in Leads,
             InsertChild(c, t, l) \/ DeleteChild(c, t, l) \/ MoveChild(c, t, l, k)
      PROVE  /\ CanRun(c) /\ Ends(c)
             /\ child' \subseteq Children \X Leads
             /\ UNCHANGED <<lead, reminder, audit>>
  BY <1>3 DEF TypeOK, InsertChild, DeleteChild, MoveChild
<1>4. ASSUME NEW l \in Leads, NEW u \in Users, InsertReminder(c, l, u) \/ DeleteReminder(c, l, u)
      PROVE  /\ CanRun(c) /\ Ends(c)
             /\ reminder' \subseteq Leads \X Users
             /\ UNCHANGED <<lead, child, audit>>
  BY <1>4 DEF TypeOK, InsertReminder, DeleteReminder
<1>5. ASSUME NEW u \in Users, InsertAudit(c, u)
      PROVE  /\ CanRun(c) /\ Ends(c)
             /\ audit' \subseteq Users
             /\ UNCHANGED <<lead, child, reminder>>
  BY <1>5 DEF TypeOK, InsertAudit
<1> QED
  BY <1>1, <1>2, <1>3, <1>4, <1>5 DEF Statement, TypeOK

\* A step on one connection leaves the invariant of the others alone.
LEMMA OtherConn ==
  ASSUME NEW c \in Conns, NEW d \in Conns, d # c, TypeOK, ConnInv(d),
         \E s : setting' = [setting EXCEPT ![c] = s],
         \E n : next' = [next EXCEPT ![c] = n],
         \E x : ctx' = [ctx EXCEPT ![c] = x]
  PROVE  ConnInv(d)'
<1>1. setting'[d] = setting[d] /\ next'[d] = next[d] /\ ctx'[d] = ctx[d]
  BY DEF TypeOK
<1> QED
  BY <1>1 DEF ConnInv

\* The end of a transaction, with or without a write.
LEMMA EndKeeps ==
  ASSUME TypeOK, ContextInv, NEW c \in Conns, Ends(c)
  PROVE  /\ setting' \in [Conns -> Settings]
         /\ next' \in [Conns -> {"none", "user", "role", "team", "fn"}]
         /\ ctx' \in [Conns -> Contexts \cup {NoContext}]
         /\ ContextInv'
<1>1. setting[c] \in Settings
  BY DEF TypeOK
<1>2. Reset(setting[c]) \in Settings /\ Cleared(Reset(setting[c]))
  BY <1>1, ResetValues
<1>3. setting' \in [Conns -> Settings] /\ setting'[c] = Reset(setting[c])
  BY <1>2 DEF Ends, TypeOK
<1>4. /\ next' \in [Conns -> {"none", "user", "role", "team", "fn"}] /\ next'[c] = "none"
      /\ ctx' \in [Conns -> Contexts \cup {NoContext}] /\ ctx'[c] = NoContext
  BY DEF Ends, TypeOK
<1>5. ConnInv(c)'
  BY <1>2, <1>3, <1>4 DEF ConnInv
<1>6. ASSUME NEW d \in Conns, d # c PROVE ConnInv(d)'
  BY <1>6, OtherConn DEF Ends, ContextInv
<1> QED
  BY <1>3, <1>4, <1>5, <1>6 DEF ContextInv

\* The variables of every connection, its transaction and the rows stay in their
\* types, and the variables are those of the transaction, whatever contexts are
\* passed and whatever statements run.
LEMMA ContextInvariant == Spec => [](TypeOK /\ ContextInv)
<1>1. Init => TypeOK /\ ContextInv
  BY DEF Init, TypeOK, Settings, Variables, Lead, NoRow, NoContext, ContextInv, ConnInv, Cleared
<1>2. TypeOK /\ ContextInv /\ [Next]_vars => TypeOK' /\ ContextInv'
  <2> SUFFICES ASSUME TypeOK, ContextInv, [Next]_vars PROVE TypeOK' /\ ContextInv'
    OBVIOUS
  <2>1. CASE UNCHANGED vars
    BY <2>1 DEF TypeOK, vars, rows, ContextInv, ConnInv
  <2>2. ASSUME NEW c \in Conns, NEW x \in Contexts, Begin(c, x)
        PROVE  TypeOK' /\ ContextInv'
    <3>1. TypeOK'
      BY <2>2 DEF TypeOK, Begin, rows
    <3>2. ConnInv(c)'
      BY <2>2 DEF TypeOK, Begin, ConnInv
    <3>3. ASSUME NEW d \in Conns, d # c PROVE ConnInv(d)'
      <4>1. setting' = [setting EXCEPT ![c] = setting[c]]
        BY <2>2 DEF TypeOK, Begin
      <4> QED
        BY <2>2, <3>3, <4>1, OtherConn DEF Begin, ContextInv
    <3> QED
      BY <3>1, <3>2, <3>3 DEF ContextInv
  <2>3. ASSUME NEW c \in Conns, SetUser(c) \/ SetRole(c) \/ SetTeam(c)
        PROVE  TypeOK' /\ ContextInv'
    <3>1. ctx[c] \in Contexts /\ setting[c] \in Settings
      BY <2>3 DEF SetUser, SetRole, SetTeam, ContextInv, ConnInv, TypeOK
    <3>2. PICK s \in Settings : setting' = [setting EXCEPT ![c] = s]
      <4>1. CASE SetUser(c)
        <5>1. [setting[c] EXCEPT !.user = ctx[c].user] \in Settings
          BY <3>1, ContextValues DEF Settings, Variables
        <5>2. setting' = [setting EXCEPT ![c] = [setting[c] EXCEPT !.user = ctx[c].user]]
          BY <4>1 DEF SetUser
        <5> QED
          BY <5>1, <5>2
      <4>2. CASE SetRole(c)
        <5>1. [setting[c] EXCEPT !.role = RlsRole(ctx[c].role)] \in Settings
          BY <3>1, ContextValues DEF Settings, Variables
        <5>2. setting' = [setting EXCEPT ![c] = [setting[c] EXCEPT !.role = RlsRole(ctx[c].role)]]
          BY <4>2 DEF SetRole
        <5> QED
          BY <5>1, <5>2
      <4>3. CASE SetTeam(c)
        <5>1. [setting[c] EXCEPT !.team = TeamValue(ctx[c].team)] \in Settings
          BY <3>1, ContextValues DEF Settings, Variables
        <5>2. setting' = [setting EXCEPT ![c] = [setting[c] EXCEPT !.team = TeamValue(ctx[c].team)]]
          BY <4>3 DEF SetTeam
        <5> QED
          BY <5>1, <5>2
      <4> QED
        BY <2>3, <4>1, <4>2, <4>3
    <3>3. TypeOK'
      BY <2>3, <3>2 DEF TypeOK, SetUser, SetRole, SetTeam, rows
    <3>4. ConnInv(c)'
      BY <2>3, <3>1 DEF TypeOK, SetUser, SetRole, SetTeam, ContextInv, ConnInv, Settings
    <3>5. ASSUME NEW d \in Conns, d # c PROVE ConnInv(d)'
      <4>1. ctx' = [ctx EXCEPT ![c] = ctx[c]]
        BY <2>3 DEF TypeOK, SetUser, SetRole, SetTeam
      <4>2. \E n : next' = [next EXCEPT ![c] = n]
        BY <2>3 DEF SetUser, SetRole, SetTeam
      <4> QED
        BY <3>2, <3>5, <4>1, <4>2, OtherConn DEF ContextInv
    <3> QED
      BY <3>3, <3>4, <3>5 DEF ContextInv
  <2>4. ASSUME NEW c \in Conns, Statement(c) PROVE TypeOK' /\ ContextInv'
    BY <2>4, StatementEnds, EndKeeps DEF TypeOK
  <2>5. ASSUME NEW c \in Conns, EndsWithoutWrite(c) PROVE TypeOK' /\ ContextInv'
    BY <2>5, EndKeeps DEF TypeOK, EndsWithoutWrite, rows
  <2> QED
    BY <2>1, <2>2, <2>3, <2>4, <2>5 DEF Next
<1> QED
  BY <1>1, <1>2, PTL DEF Spec

\* TypeOK holds for any number of connections, users, teams and leads.
THEOREM TypeCorrect == Spec => []TypeOK
BY ContextInvariant, PTL

\* A transaction reads the leads its context is entitled to and what belongs to
\* them, all of it and nothing else, whoever used the connection before.
THEOREM ReadsItsOwn == Spec => []SeesItsOwn
<1>1. TypeOK /\ ContextInv => SeesItsOwn
  <2> SUFFICES ASSUME TypeOK, ContextInv, NEW c \in Conns, next[c] = "fn"
               PROVE  /\ \A l \in Leads : lead[l] # NoRow =>
                           /\ SeesLead(setting[c], l) <=> Entitled(ctx[c], lead[l])
                           /\ \A t \in Children :
                                ChildSelect(setting[c], t, l) <=> Entitled(ctx[c], lead[l])
                      /\ \A u \in audit : AuditSelect(setting[c], u)
                                            <=> u = ctx[c].user \/ ctx[c].role \in Admins
    BY DEF SeesItsOwn
  <2>1. /\ ctx[c] \in Contexts
        /\ setting[c].user = ctx[c].user
        /\ setting[c].role = RlsRole(ctx[c].role)
        /\ setting[c].team = TeamValue(ctx[c].team)
    BY DEF ContextInv, ConnInv
  <2>2. ctx[c].role \in Roles /\ ctx[c].team \in Teams \cup {Null}
    BY <2>1, ContextValues
  <2>3. ASSUME NEW l \in Leads, lead[l] # NoRow
        PROVE  /\ SeesLead(setting[c], l) <=> Entitled(ctx[c], lead[l])
               /\ \A t \in Children : ChildSelect(setting[c], t, l) <=> Entitled(ctx[c], lead[l])
    <3>1. lead[l].team \in Teams /\ lead[l].team # Blank /\ lead[l].team # Null
      BY <2>3, ContextAssumption DEF TypeOK, Lead
    <3>2. lead[l].team = setting[c].team <=> lead[l].team = ctx[c].team
      BY <2>1, <3>1 DEF TeamValue
    <3>3. SeesLead(setting[c], l) <=> Entitled(ctx[c], lead[l])
      BY <2>1, <2>2, <2>3, <3>2 DEF SeesLead, LeadSelect, Entitled, Admins, RlsRole, Roles, Staff
    <3> QED
      BY <3>3 DEF ChildSelect, ReadsVia, WritesVia
  <2>4. \A u \in audit : AuditSelect(setting[c], u) <=> u = ctx[c].user \/ ctx[c].role \in Admins
    BY <2>1, <2>2 DEF AuditSelect, RlsRole, Admins, Roles
  <2> QED
    BY <2>3, <2>4
<1> QED
  BY <1>1, ContextInvariant, PTL

\* On a connection without a transaction the policies admit no reading and no writing
\* but of AuditLog rows, and those only if the connection has been used.
LEMMA ClosedOutside ==
  ASSUME TypeOK, ContextInv, NEW c \in Conns, next[c] = "none", NEW s, s = setting[c]
  PROVE  /\ \A l \in Leads : ~SeesLead(s, l) /\ ~MayDeleteLead(s, l)
         /\ \A row \in Lead : ~LeadInsert(s, row)
         /\ \A t \in Children, l \in Leads : ~ChildSelect(s, t, l) /\ ~WritesVia(s, l)
         /\ \A u \in Users : ~ReminderSelect(s, u) /\ ~ReminderWrite(s, u) /\ ~AuditSelect(s, u)
         /\ AuditInsert(s) => s.user = Blank
<1>1. /\ s.user \in {Unset, Blank} /\ s.user \notin Users
      /\ s.role \notin Roles
  BY ContextAssumption DEF ContextInv, ConnInv, Cleared, Unset, Blank, Roles
<1>2. ASSUME NEW row PROVE ~LeadSelect(s, row)
  BY <1>1 DEF LeadSelect, Staff, Roles
<1>3. ASSUME NEW row PROVE ~LeadInsert(s, row)
  BY <1>1 DEF LeadInsert, Staff, Roles
<1> QED
  BY <1>1, <1>2, <1>3 DEF SeesLead, MayDeleteLead, ChildSelect, ReadsVia, WritesVia,
     ReminderSelect, ReminderWrite, AuditSelect, AuditInsert, Roles

\* Outside a transaction nothing of these tables is read, and nothing written but rows of
\* AuditLog, on connections that were used.
THEOREM NothingOutside == Spec => []FailClosed
<1>1. TypeOK /\ ContextInv => FailClosed
  BY ClosedOutside DEF FailClosed
<1> QED
  BY <1>1, ContextInvariant, PTL

-----------------------------------------------------------------------------
\* What a statement changes outside a transaction is the audit log.
LEMMA OutsideLogs ==
  ASSUME TypeOK, ContextInv, NEW c \in Conns, Statement(c), next[c] # "fn"
  PROVE  \E u \in Users : InsertAudit(c, u)
<1>1. next[c] = "none"
  BY StatementEnds DEF CanRun
<1>2. /\ \A l \in Leads : ~SeesLead(setting[c], l) /\ ~WritesVia(setting[c], l)
      /\ \A row \in Lead : ~LeadInsert(setting[c], row)
      /\ \A u \in Users : ~ReminderWrite(setting[c], u)
  BY <1>1, ClosedOutside DEF WritesVia
<1> QED
  BY <1>2 DEF Statement, InsertLead, UpdateLead, MayUpdateLead, DeleteLead, MayDeleteLead,
     InsertChild, DeleteChild, MoveChild, InsertReminder, DeleteReminder

\* A lead changes only by the three statements on Lead, in fn.
LEMMA LeadStatement ==
  ASSUME TypeOK, ContextInv, NEW c \in Conns, Statement(c),
         NEW l \in Leads, lead'[l] # lead[l], lead'[l] # NoRow
  PROVE  /\ next[c] = "fn"
         /\ lead[l] = NoRow => LeadInsert(setting[c], lead'[l])
         /\ lead[l] # NoRow => MayUpdateLead(setting[c], l, lead'[l])
<1>1. ASSUME NEW k \in Leads, NEW row \in Lead, InsertLead(c, k, row)
      PROVE  k = l /\ lead[l] = NoRow /\ LeadInsert(setting[c], lead'[l])
  BY <1>1 DEF TypeOK, InsertLead
<1>2. ASSUME NEW k \in Leads, NEW row \in Lead, UpdateLead(c, k, row)
      PROVE  k = l /\ lead[l] # NoRow /\ MayUpdateLead(setting[c], l, lead'[l])
  BY <1>2 DEF TypeOK, UpdateLead, MayUpdateLead, SeesLead
<1>3. ASSUME NEW k \in Leads, DeleteLead(c, k) PROVE FALSE
  BY <1>3 DEF TypeOK, DeleteLead
<1>4. ASSUME UNCHANGED lead PROVE FALSE
  BY <1>4
<1>5. next[c] = "fn"
  BY <1>4, OutsideLogs DEF InsertAudit
<1> QED
  BY <1>1, <1>2, <1>3, <1>4, <1>5
  DEF Statement, InsertChild, DeleteChild, MoveChild, InsertReminder, DeleteReminder, InsertAudit

\* The three variables in fn, as the context gives them.
LEMMA InFn ==
  ASSUME TypeOK, ContextInv, NEW c \in Conns, next[c] = "fn"
  PROVE  /\ ctx[c] \in Contexts
         /\ setting[c].user = ctx[c].user
         /\ setting[c].role = RlsRole(ctx[c].role)
         /\ \A t \in Teams : t = setting[c].team <=> t = ctx[c].team
BY ContextValues, ContextAssumption DEF ContextInv, ConnInv, TeamValue

\* Leads start in the team of the context that inserts them, and later change owner and
\* team only as LeadChangesHands allows, never outside withRlsContext.
THEOREM LeadsStayInHand == Spec => LeadsChangeHands
<1>1. TypeOK /\ ContextInv /\ [Next]_vars => [LeadChangesHands]_vars
  <2> SUFFICES ASSUME TypeOK, ContextInv, Next, NEW l \in Leads,
                      lead'[l] # lead[l], lead'[l] # NoRow
               PROVE  \E c \in Conns :
                        /\ next[c] = "fn"
                        /\ LET x == ctx[c]
                           IN  IF lead[l] = NoRow
                               THEN lead'[l].team = x.team
                               ELSE /\ lead'[l].owner # lead[l].owner
                                         => \/ x.role \in Admins
                                            \/ x.role = "MANAGER" /\ x.team = lead[l].team
                                    /\ lead'[l].team # lead[l].team => x.role # "MANAGER"
    BY DEF LeadChangesHands
  <2>1. PICK c \in Conns : Statement(c)
    BY DEF Next, Begin, SetUser, SetRole, SetTeam, EndsWithoutWrite, rows
  <2>2. lead'[l] \in Lead /\ lead[l] \in Lead \cup {NoRow}
    BY <2>1, StatementEnds DEF TypeOK
  <2>3. /\ next[c] = "fn"
        /\ lead[l] = NoRow => LeadInsert(setting[c], lead'[l])
        /\ lead[l] # NoRow => MayUpdateLead(setting[c], l, lead'[l])
    BY <2>1, LeadStatement
  <2>4. /\ ctx[c].role \in Roles
        /\ setting[c].user = ctx[c].user
        /\ setting[c].role = RlsRole(ctx[c].role)
        /\ \A t \in Teams : t = setting[c].team <=> t = ctx[c].team
    BY <2>3, InFn, ContextValues
  <2>5. CASE lead[l] = NoRow
    BY <2>2, <2>3, <2>4, <2>5
    DEF LeadInsert, Lead
  <2>6. CASE lead[l] # NoRow
    BY <2>2, <2>3, <2>4, <2>6
    DEF MayUpdateLead, LeadUpdate, LeadSelect, SeesLead, RlsRole, Roles, Staff, Admins, Lead
  <2> QED BY <2>5, <2>6
<1> QED BY <1>1, ContextInvariant, PTL DEF Spec, LeadsChangeHands

\* Nobody writes a reminder of somebody else's.
THEOREM RemindersKept == Spec => RemindersAreOnesOwn
<1>1. TypeOK /\ ContextInv /\ [Next]_vars => [ReminderWritten]_vars
  <2> SUFFICES ASSUME TypeOK, ContextInv, Next, NEW r \in Leads \X Users,
                      (r \in reminder) # (r \in reminder')
               PROVE  \/ lead'[r[1]] = NoRow
                      \/ \E c \in Conns : next[c] = "fn" /\ ctx[c].user = r[2]
    BY DEF ReminderWritten
  <2>1. PICK c \in Conns : Statement(c)
    BY DEF Next, Begin, SetUser, SetRole, SetTeam, EndsWithoutWrite, rows
  <2>2. ASSUME NEW l \in Leads, NEW u \in Users, InsertReminder(c, l, u) \/ DeleteReminder(c, l, u)
        PROVE  next[c] = "fn" /\ ctx[c].user = r[2]
    <3>1. r = <<l, u>> /\ ReminderWrite(setting[c], u)
      BY <2>2 DEF InsertReminder, DeleteReminder
    <3>2. next[c] = "fn"
      BY <2>1, <2>2, OutsideLogs DEF InsertAudit
    <3> QED
      BY <3>1, <3>2, InFn DEF ReminderWrite
  <2>3. ASSUME NEW l \in Leads, DeleteLead(c, l) PROVE lead'[r[1]] = NoRow
    BY <2>3 DEF DeleteLead, TypeOK
  <2> QED
    BY <2>1, <2>2, <2>3
    DEF Statement, InsertLead, UpdateLead, InsertChild, DeleteChild, MoveChild, InsertAudit
<1> QED BY <1>1, ContextInvariant, PTL DEF Spec, RemindersAreOnesOwn

-----------------------------------------------------------------------------
(* RowSecurity implements LeadBook.                                        *)

\* In fn the policies of Lead say what the application's rules say of the context.
LEMMA PoliciesAreRules ==
  ASSUME TypeOK, ContextInv, NEW c \in Conns, next[c] = "fn", NEW row \in Lead
  PROVE  /\ LeadSelect(setting[c], row) <=> Book!Entitled(ctx[c], row)
         /\ LeadUpdate(setting[c], row) <=> Book!Entitled(ctx[c], row)
         /\ LeadInsert(setting[c], row) => row.team = ctx[c].team
         /\ LeadDelete(setting[c]) <=> ctx[c].role \in Book!Admins
<1>1. /\ ctx[c].role \in Roles
      /\ setting[c].user = ctx[c].user /\ setting[c].role = RlsRole(ctx[c].role)
      /\ row.team = setting[c].team <=> row.team = ctx[c].team
  BY InFn, ContextValues DEF Lead
<1> QED
  BY <1>1 DEF LeadSelect, LeadUpdate, LeadInsert, LeadDelete, RlsRole, Roles, Staff,
              Book!Entitled, Book!Admins, Book!Staff

\* ... and so do those of the rows below a lead.
LEMMA BelowPoliciesAreRules ==
  ASSUME TypeOK, ContextInv, NEW c \in Conns, next[c] = "fn", NEW l \in Leads,
         WritesVia(setting[c], l)
  PROVE  lead[l] # NoRow /\ Book!WritesBelow(ctx[c], lead[l])
<1>1. SeesLead(setting[c], l)
  BY DEF WritesVia
<1>2. lead[l] \in Lead /\ lead[l] # NoRow
  BY <1>1 DEF SeesLead, TypeOK
<1>3. /\ ctx[c].role \in Roles
      /\ setting[c].user = ctx[c].user /\ setting[c].role = RlsRole(ctx[c].role)
      /\ lead[l].team = setting[c].team <=> lead[l].team = ctx[c].team
  BY <1>2, InFn, ContextValues DEF Lead
<1> QED
  BY <1>2, <1>3 DEF WritesVia, RlsRole, Roles, Staff, Book!WritesBelow, Book!Staff

\* Every write of a transaction is one step of the book by the user of its context,
\* though three statements set up who that is, on a connection others have used.
THEOREM RowsAreBook == Spec => ImplementsBook
<1>1. Init => Book!Init
  BY DEF Init, Book!Init
<1>2. TypeOK /\ ContextInv /\ [Next]_vars => [Book!Next]_(Book!vars)
  <2> SUFFICES ASSUME TypeOK, ContextInv, [Next]_vars PROVE [Book!Next]_(Book!vars)
    OBVIOUS
  <2>1. ASSUME NEW c \in Conns, Statement(c), next[c] = "fn" PROVE Book!Write(ctx[c])
    <3>0. next[c] = "fn" /\ ctx[c] \in Contexts /\ setting[c].user = ctx[c].user
      BY <2>1, InFn
    <3>1. ASSUME NEW l \in Leads, NEW row \in Lead, InsertLead(c, l, row) PROVE Book!Write(ctx[c])
      <4>1. Book!AddLead(ctx[c], l, row)
        BY <3>0, <3>1, PoliciesAreRules DEF InsertLead, Book!AddLead
      <4> QED BY <3>0, <4>1 DEF Book!Write, Lead, Book!Lead
    <3>2. ASSUME NEW l \in Leads, NEW row \in Lead, UpdateLead(c, l, row) PROVE Book!Write(ctx[c])
      <4>1. lead[l] \in Lead /\ lead[l] # NoRow
        BY <3>2 DEF UpdateLead, MayUpdateLead, SeesLead, TypeOK
      <4>2. Book!ChangeLead(ctx[c], l, row)
        BY <3>0, <3>2, <4>1, PoliciesAreRules DEF UpdateLead, MayUpdateLead, Book!ChangeLead
      <4> QED BY <3>0, <4>2 DEF Book!Write, Lead, Book!Lead
    <3>3. ASSUME NEW l \in Leads, DeleteLead(c, l) PROVE Book!Write(ctx[c])
      <4>1. lead[l] \in Lead /\ lead[l] # NoRow
        BY <3>3 DEF DeleteLead, MayDeleteLead, SeesLead, TypeOK
      <4>2. Book!RemoveLead(ctx[c], l)
        BY <3>0, <3>3, <4>1, PoliciesAreRules DEF DeleteLead, MayDeleteLead, Book!RemoveLead
      <4> QED BY <3>0, <4>2 DEF Book!Write
    <3>4. ASSUME NEW t \in Children, NEW l \in Leads, InsertChild(c, t, l) PROVE Book!Write(ctx[c])
      <4>1. Book!AddChild(ctx[c], t, l)
        BY <3>0, <3>4, BelowPoliciesAreRules DEF InsertChild, Book!AddChild
      <4> QED BY <3>0, <4>1 DEF Book!Write
    <3>5. ASSUME NEW t \in Children, NEW l \in Leads, DeleteChild(c, t, l) PROVE Book!Write(ctx[c])
      <4>1. Book!RemoveChild(ctx[c], t, l)
        BY <3>0, <3>5, BelowPoliciesAreRules DEF DeleteChild, Book!RemoveChild
      <4> QED BY <3>0, <4>1 DEF Book!Write
    <3>6. ASSUME NEW t \in Children, NEW l \in Leads, NEW k \in Leads, MoveChild(c, t, l, k)
          PROVE  Book!Write(ctx[c])
      <4>1. Book!MoveChild(ctx[c], t, l, k)
        BY <3>0, <3>6, BelowPoliciesAreRules DEF MoveChild, Book!MoveChild
      <4> QED BY <3>0, <4>1 DEF Book!Write
    <3>7. ASSUME NEW l \in Leads, NEW u \in Users, InsertReminder(c, l, u) PROVE Book!Write(ctx[c])
      <4>1. Book!Remind(ctx[c], l)
        BY <3>0, <3>7 DEF InsertReminder, ReminderWrite, Book!Remind
      <4> QED BY <3>0, <4>1 DEF Book!Write
    <3>8. ASSUME NEW l \in Leads, NEW u \in Users, DeleteReminder(c, l, u) PROVE Book!Write(ctx[c])
      <4>1. Book!Forget(ctx[c], l)
        BY <3>0, <3>8 DEF DeleteReminder, ReminderWrite, Book!Forget
      <4> QED BY <3>0, <4>1 DEF Book!Write
    <3>9. ASSUME NEW u \in Users, InsertAudit(c, u) PROVE Book!Write(ctx[c])
      <4>1. Book!Log(u)
        BY <3>9 DEF InsertAudit, Book!Log
      <4> QED BY <3>0, <4>1 DEF Book!Write
    <3> QED
      BY <2>1, <3>1, <3>2, <3>3, <3>4, <3>5, <3>6, <3>7, <3>8, <3>9 DEF Statement
  <2>2. ASSUME NEW c \in Conns, next[c] # "none", Ends(c),
               (next[c] = "fn" /\ Statement(c)) \/ UNCHANGED rows
        PROVE  Book!Next
    <3>1. ctx[c] # NoContext
      BY <2>2, ContextAssumption DEF ContextInv, ConnInv, NoContext
    <3>2. Book!Write(ctx[c]) \/ UNCHANGED rows
      BY <2>1, <2>2
    <3> QED BY <2>2, <3>1, <3>2 DEF Ends, rows, Book!Next, Book!Serves, Book!rows
  <2>3. ASSUME NEW c \in Conns, Statement(c) PROVE Book!Next
    <3>1. CASE next[c] = "fn"
      BY <2>2, <2>3, <3>1, StatementEnds
    <3>2. CASE next[c] # "fn"
      <4>1. next[c] = "none" /\ Ends(c)
        BY <2>3, <3>2, StatementEnds DEF CanRun
      <4>2. UNCHANGED ctx
        BY <4>1 DEF Ends, ContextInv, ConnInv, TypeOK
      <4>3. PICK u \in Users : InsertAudit(c, u)
        BY <2>3, <3>2, OutsideLogs
      <4> QED
        BY <4>2, <4>3 DEF InsertAudit, Book!Next, Book!Logs, Book!Log
    <3> QED BY <3>1, <3>2
  <2>4. CASE \E c \in Conns : EndsWithoutWrite(c)
    BY <2>2, <2>4 DEF EndsWithoutWrite
  <2>5. ASSUME NEW c \in Conns, NEW x \in Contexts, Begin(c, x) PROVE Book!Next
    <3>1. ctx[c] = NoContext
      BY <2>5 DEF Begin, ContextInv, ConnInv
    <3> QED BY <2>5, <3>1 DEF Begin, rows, Book!Next, Book!Takes, Book!rows
  <2>6. CASE UNCHANGED vars \/ \E c \in Conns : SetUser(c) \/ SetRole(c) \/ SetTeam(c)
    BY <2>6 DEF vars, rows, SetUser, SetRole, SetTeam, Book!vars, Book!rows
  <2> QED
    BY <2>3, <2>4, <2>5, <2>6 DEF Next
<1> QED BY <1>1, <1>2, ContextInvariant, PTL DEF Spec, ImplementsBook, Book!Spec

=============================================================================
