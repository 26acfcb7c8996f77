------------------------- MODULE UsersServiceProofs -------------------------
(***************************************************************************)
(* Proofs about UsersService, for every set of users, teams and request    *)
(* slots, every seeded database and any number of faults and crashes.      *)
(***************************************************************************)
EXTENDS UsersService, TLAPS

-----------------------------------------------------------------------------
(* The hierarchy of roles.ts against the table its comments give.          *)

\* "OWNER: any role except OWNER; ADMIN: MANAGER / TELECALLER / SALES_EXEC;
\* MANAGER: TELECALLER / SALES_EXEC; staff: nothing" (assertCanCreateRole).
Creatable ==
  [OWNER |-> {"ADMIN", "MANAGER", "TELECALLER", "SALES_EXEC"},
   ADMIN |-> {"MANAGER", "TELECALLER", "SALES_EXEC"},
   MANAGER |-> Staff, TELECALLER |-> {}, SALES_EXEC |-> {}]

\* Whoever may create a role may create exactly what the comment's table says.
LEMMA CreateTable ==
  \A actor, want \in Roles : CanCreate(actor, want) <=> want \in Creatable[actor]
BY DEF Roles, CanCreate, Outranks, RANK, Creatable, Staff

\* The guards of assertCanChangeRole are the creation gate, for both roles.
LEMMA ChangeTable ==
  \A actor, seen, want \in Roles :
    CanChange(actor, seen, want)
      <=> seen \in Creatable[actor] /\ want \in Creatable[actor]
BY DEF Roles, CanChange, Outranks, RANK, Creatable, Staff

-----------------------------------------------------------------------------
(* Type correctness.                                                       *)

\* What TypeOK says of one request.
RequestTyped(q) ==
  /\ q \in Request
  /\ q.pc # "idle" => q.actor \in Users /\ q.claim \in Roles /\ q.want \in Wanted
  /\ q.pc \in CatchSteps \cup {"cleanup"} \cup ChangeSteps => q.target \in Users

\* A slot without a request is well typed.
LEMMA IdleTyped == RequestTyped(Idle)
BY DEF RequestTyped, Idle, Request, Gone, CatchSteps, ChangeSteps

\* A slot given a well-typed value leaves all slots well typed.
LEMMA RequestUpdate ==
  ASSUME TypeOK, NEW r \in Requests, NEW q, RequestTyped(q),
         req' = [req EXCEPT ![r] = q]
  PROVE  /\ req' \in [Requests -> Request]
         /\ \A s \in Requests : RequestTyped(req'[s])
<1>1. \A s \in Requests : RequestTyped(req[s])
  BY DEF TypeOK, RequestTyped
<1>2. \A s \in Requests : req'[s] = IF s = r THEN q ELSE req[s]
  BY DEF TypeOK
<1>3. \A s \in Requests : RequestTyped(req'[s])
  BY <1>1, <1>2
<1>4. req' \in [Requests -> Request]
  BY <1>2, <1>3 DEF TypeOK, RequestTyped
<1> QED BY <1>3, <1>4

\* Ending a request keeps the slots well typed.
LEMMA EndsTyped ==
  ASSUME TypeOK, NEW r \in Requests, Ends(r)
  PROVE  /\ req' \in [Requests -> Request]
         /\ \A s \in Requests : RequestTyped(req'[s])
BY IdleTyped, RequestUpdate DEF Ends

\* Moving a request on keeps the slots well typed if it has the target it needs.
LEMMA GoesTyped ==
  ASSUME TypeOK, NEW r \in Requests, NEW pc \in CreateSteps \cup ChangeSteps,
         Goes(r, pc), req[r].pc # "idle",
         pc \in CatchSteps \cup {"cleanup"} \cup ChangeSteps => req[r].target \in Users
  PROVE  /\ req' \in [Requests -> Request]
         /\ \A s \in Requests : RequestTyped(req'[s])
<1> DEFINE q == [req[r] EXCEPT !.pc = pc]
<1>1. req' = [req EXCEPT ![r] = q]
  BY DEF Goes
<1>2. RequestTyped(q)
  BY DEF RequestTyped, TypeOK, Request
<1> QED BY <1>1, <1>2, RequestUpdate

\* A refused call ends the request or sends it to the catch block.
LEMMA ThrowsTyped ==
  ASSUME TypeOK, NEW r \in Requests, Throws(r), req[r].pc # "idle"
  PROVE  /\ req' \in [Requests -> Request]
         /\ \A s \in Requests : RequestTyped(req'[s])
<1>1. CASE req[r].pc \in CatchSteps
  <2>1. Goes(r, "cleanup") /\ req[r].target \in Users
    BY <1>1 DEF Throws, TypeOK
  <2>2. "cleanup" \in CreateSteps \cup ChangeSteps
    BY DEF CreateSteps
  <2> QED BY <2>1, <2>2, GoesTyped
<1>2. CASE req[r].pc \notin CatchSteps
  BY <1>2, EndsTyped DEF Throws
<1> QED BY <1>1, <1>2

\* What TypeOK says of the tables and the counters.
TablesTyped ==
  /\ role \in [Users -> Roles \cup Gone]
  /\ team \in [Users -> Teams \cup {None}]
  /\ account \subseteq Users
  /\ teams \subseteq Teams
  /\ manager \in [Teams -> Users \cup {None}]
  /\ audited \in [Users -> Roles \cup Gone]
  /\ faults \in 0..MaxFaults
  /\ crashes \in 0..MaxCrashes

\* TypeOK is what it says of the tables and of each request.
LEMMA TypeParts ==
  TypeOK <=> /\ TablesTyped
             /\ req \in [Requests -> Request]
             /\ \A r \in Requests : RequestTyped(req[r])
BY DEF TypeOK, TablesTyped, RequestTyped

\* The steps of create.
LEMMA CreateTyped ==
  ASSUME TypeOK, NEW r \in Requests, CreateStep(r)
  PROVE  TypeOK'
<1> DEFINE Typed == /\ req' \in [Requests -> Request]
                   /\ \A s \in Requests : RequestTyped(req'[s])
<1>0. TablesTyped /\ RequestTyped(req[r]) /\ req[r] \in Request
  BY TypeParts DEF RequestTyped
<1>g. \A pc \in CreateSteps :
        Goes(r, pc) /\ req[r].pc # "idle"
          /\ (pc \in CatchSteps \cup {"cleanup"} => req[r].target \in Users)
        => Typed
  BY GoesTyped DEF CreateSteps, ChangeSteps, CatchSteps
<1>q. SUFFICES TablesTyped' /\ Typed
  BY TypeParts DEF TypeOK, TablesTyped, RequestTyped
<1>1. CASE CreateRefused(r)
  BY <1>0, <1>1, EndsTyped DEF CreateRefused, TablesTyped, tables
<1>2. CASE ResolveManagersTeam(r)
  <2>1. PICK t \in Led(req[r].actor) :
          req' = [req EXCEPT ![r] = [@ EXCEPT !.pc = "checkTeam", !.teamId = t]]
    BY <1>2 DEF ResolveManagersTeam
  <2>2. t \in Teams
    BY <1>0 DEF Led, TablesTyped
  <2>3. RequestTyped([req[r] EXCEPT !.pc = "checkTeam", !.teamId = t])
    BY <1>0, <1>2, <2>2
       DEF ResolveManagersTeam, RequestTyped, Request, CreateSteps, ChangeSteps, CatchSteps
  <2>4. Typed
    BY <2>1, <2>3, RequestUpdate
  <2> QED BY <1>0, <1>2, <2>4 DEF ResolveManagersTeam, TablesTyped, tables
<1>3. CASE ResolveNamedTeam(r)
  BY <1>0, <1>3, <1>g DEF ResolveNamedTeam, TablesTyped, tables, CreateSteps, CatchSteps
<1>4. CASE CheckTeam(r)
  BY <1>0, <1>4, <1>g, EndsTyped DEF CheckTeam, TablesTyped, tables, CreateSteps, CatchSteps
<1>5. ASSUME NEW u \in Users, InsertUser(r, u) PROVE TablesTyped' /\ Typed
  <2>1. RequestTyped([req[r] EXCEPT !.pc = "credential", !.target = u])
    BY <1>0, <1>5 DEF InsertUser, RequestTyped, Request, CreateSteps, CatchSteps, ChangeSteps
  <2>2. Typed
    BY <1>5, <2>1, RequestUpdate DEF InsertUser
  <2>3. req[r].want \in Roles /\ req[r].teamId \in Teams \cup {None}
    BY <1>0, <1>5, SeedAssumption DEF InsertUser, RequestTyped, Request
  <2> QED BY <1>0, <1>5, <2>2, <2>3 DEF InsertUser, TablesTyped
<1>6. CASE WriteCredential(r)
  <2>1. req[r].target \in Users
    BY <1>0, <1>6 DEF WriteCredential, RequestTyped, CatchSteps
  <2> QED BY <1>0, <1>6, <1>g, <2>1
             DEF WriteCredential, TablesTyped, CreateSteps, CatchSteps
<1>7. ASSUME NEW t \in Teams, CreateTeam(r, t) PROVE TablesTyped' /\ Typed
  <2>1. req[r].target \in Users
    BY <1>0, <1>7 DEF CreateTeam, RequestTyped, CatchSteps
  <2>2. RequestTyped([req[r] EXCEPT !.pc = "linkTeam", !.teamId = t])
    BY <1>0, <1>7 DEF CreateTeam, RequestTyped, Request, CreateSteps, CatchSteps, ChangeSteps
  <2>3. Typed
    BY <1>7, <2>2, RequestUpdate DEF CreateTeam, NewTeam
  <2> QED BY <1>0, <1>7, <2>1, <2>3 DEF CreateTeam, NewTeam, TablesTyped
<1>8. CASE LinkTeam(r)
  <2>1. req[r].target \in Users /\ req[r].teamId \in Teams \cup {None}
    BY <1>0, <1>8 DEF LinkTeam, RequestTyped, CatchSteps, Request
  <2> QED BY <1>0, <1>8, <1>g, <2>1 DEF LinkTeam, TablesTyped, CreateSteps, CatchSteps
<1>9. CASE CreateAudit(r)
  <2>1. req[r].target \in Users /\ req[r].want \in Roles
    BY <1>0, <1>9, SeedAssumption DEF CreateAudit, RequestTyped, CatchSteps
  <2> QED BY <1>0, <1>9, <1>g, <2>1, EndsTyped
             DEF CreateAudit, TablesTyped, CreateSteps, CatchSteps
<1>10. CASE Cleanup(r)
  BY <1>0, <1>10, EndsTyped DEF Cleanup, TablesTyped, Gone
<1> QED
  BY <1>1, <1>2, <1>3, <1>4, <1>5, <1>6, <1>7, <1>8, <1>9, <1>10 DEF CreateStep

\* The steps of changeRole.
LEMMA ChangeTyped ==
  ASSUME TypeOK, NEW r \in Requests, ChangeStep(r)
  PROVE  TypeOK'
<1> DEFINE Typed == /\ req' \in [Requests -> Request]
                   /\ \A s \in Requests : RequestTyped(req'[s])
<1>0. TablesTyped /\ RequestTyped(req[r]) /\ req[r] \in Request
  BY TypeParts DEF RequestTyped
<1>t. req[r].pc \in ChangeSteps
        => req[r].target \in Users /\ req[r].want \in Roles /\ req[r].pc # "idle"
  BY <1>0, SeedAssumption DEF RequestTyped, ChangeSteps
<1>g. \A pc \in ChangeSteps :
        Goes(r, pc) /\ req[r].pc \in ChangeSteps => Typed
  BY <1>t, GoesTyped
<1>q. SUFFICES TablesTyped' /\ Typed
  BY TypeParts DEF TypeOK, TablesTyped, RequestTyped
<1>1. CASE ChangeRefused(r)
  BY <1>0, <1>1, EndsTyped DEF ChangeRefused, TablesTyped, tables
<1>2. CASE FindTarget(r)
  <2> DEFINE u == req[r].target
             pc == AfterFind(role[u], req[r].want)
  <2>1. /\ u \in Users /\ role[u] \in Roles /\ team[u] \in Teams \cup {None}
        /\ pc \in ChangeSteps
    BY <1>0, <1>t, <1>2
       DEF FindTarget, MayChange, Exists, TablesTyped, ChangeSteps, AfterFind
  <2>2. req' = [req EXCEPT ![r] =
                  [@ EXCEPT !.pc = pc, !.seen = role[u], !.teamId = team[u]]]
    BY <1>2 DEF FindTarget
  <2>3. RequestTyped([req[r] EXCEPT !.pc = pc, !.seen = role[u], !.teamId = team[u]])
    <3> HIDE DEF pc
    <3> QED BY <1>0, <1>2, <2>1 DEF FindTarget, RequestTyped, Request
  <2>4. Typed
    BY <2>2, <2>3, RequestUpdate
  <2> QED BY <1>0, <1>2, <2>4 DEF FindTarget, TablesTyped, tables
<1>3. CASE DemotionGuard(r)
  BY <1>0, <1>3, <1>g, EndsTyped DEF DemotionGuard, TablesTyped, tables, ChangeSteps
<1>4. CASE LookupTeam(r)
  BY <1>0, <1>4, <1>g DEF LookupTeam, TablesTyped, tables, ChangeSteps
<1>5. ASSUME NEW t \in Teams, ChangeTeam(r, t) PROVE TablesTyped' /\ Typed
  <2>1. req[r].target \in Users
    BY <1>t, <1>5 DEF ChangeTeam, ChangeSteps
  <2>2. RequestTyped([req[r] EXCEPT !.pc = "update", !.teamId = t])
    BY <1>0, <1>5 DEF ChangeTeam, RequestTyped, Request, CreateSteps, CatchSteps, ChangeSteps
  <2>3. Typed
    BY <1>5, <2>2, RequestUpdate DEF ChangeTeam, NewTeam
  <2> QED BY <1>0, <1>5, <2>1, <2>3 DEF ChangeTeam, NewTeam, TablesTyped
<1>6. CASE UpdateRole(r)
  <2>1. /\ req[r].target \in Users /\ req[r].want \in Roles
        /\ req[r].teamId \in Teams \cup {None}
    BY <1>0, <1>t, <1>6 DEF UpdateRole, ChangeSteps, Request
  <2> QED BY <1>0, <1>6, <1>g, <2>1 DEF UpdateRole, TablesTyped, ChangeSteps
<1>7. CASE TargetGone(r)
  BY <1>0, <1>7, EndsTyped DEF TargetGone, TablesTyped, tables
<1>8. CASE ChangeAudit(r)
  BY <1>0, <1>t, <1>8, EndsTyped DEF ChangeAudit, TablesTyped, ChangeSteps
<1> QED
  BY <1>1, <1>2, <1>3, <1>4, <1>5, <1>6, <1>7, <1>8 DEF ChangeStep

\* The variables stay in their types.
THEOREM TypeCorrect == Spec => []TypeOK
<1>1. Init => TypeOK
  <2> SUFFICES ASSUME Init PROVE TablesTyped /\ req \in [Requests -> Request]
                               /\ \A r \in Requests : RequestTyped(req[r])
    BY TypeParts
  <2>1. TablesTyped
    BY SeedAssumption DEF Init, TablesTyped, Gone
  <2> QED BY <2>1, IdleTyped DEF Init, RequestTyped
<1>2. TypeOK /\ [Next]_vars => TypeOK'
  <2> SUFFICES ASSUME TypeOK, [Next]_vars PROVE TypeOK'
    OBVIOUS
  <2>0. TablesTyped
    BY TypeParts
  <2>q. TablesTyped' /\ req' \in [Requests -> Request]
          /\ (\A r \in Requests : RequestTyped(req'[r])) => TypeOK'
    BY DEF TypeOK, TablesTyped, RequestTyped
  <2>1. ASSUME NEW r \in Requests, NEW a \in Users, NEW want \in Wanted,
               NEW t \in Teams \cup {None}, BeginCreate(r, a, want, t)
        PROVE  TypeOK'
    <3> DEFINE v == [Idle EXCEPT !.pc = "resolve", !.actor = a, !.claim = role[a],
                                 !.want = want, !.teamId = t]
    <3>1. RequestTyped(v)
      BY <2>1, SeedAssumption
         DEF BeginCreate, SignedIn, Exists, RequestTyped, Request, Idle, Gone,
             CreateSteps, CatchSteps, ChangeSteps
    <3>2. req' = [req EXCEPT ![r] = v]
      BY <2>1 DEF BeginCreate
    <3> HIDE DEF v
    <3>3. TablesTyped'
      BY <2>0, <2>1 DEF BeginCreate, TablesTyped, tables
    <3> QED BY <2>q, <3>1, <3>2, <3>3, RequestUpdate
  <2>2. ASSUME NEW r \in Requests, NEW a \in Users, NEW want \in Wanted,
               NEW u \in Users, BeginChange(r, a, u, want)
        PROVE  TypeOK'
    <3> DEFINE v == [Idle EXCEPT !.pc = "find", !.actor = a, !.claim = role[a],
                                 !.want = want, !.target = u]
    <3>1. RequestTyped(v)
      BY <2>2, SeedAssumption
         DEF BeginChange, SignedIn, Exists, RequestTyped, Request, Idle, Gone,
             CreateSteps, CatchSteps, ChangeSteps
    <3>2. req' = [req EXCEPT ![r] = v]
      BY <2>2 DEF BeginChange
    <3> HIDE DEF v
    <3>3. TablesTyped'
      BY <2>0, <2>2 DEF BeginChange, TablesTyped, tables
    <3> QED BY <2>q, <3>1, <3>2, <3>3, RequestUpdate
  <2>3. ASSUME NEW r \in Requests, Refused(r) PROVE TypeOK'
    <3>1. TablesTyped'
      BY <2>0, <2>3, SeedAssumption DEF Refused, TablesTyped, tables
    <3> QED BY <2>3, <2>q, <3>1, ThrowsTyped DEF Refused
  <2>4. ASSUME NEW r \in Requests, OutOfIds(r) PROVE TypeOK'
    <3>1. TablesTyped'
      BY <2>0, <2>4 DEF OutOfIds, TablesTyped, tables
    <3> QED BY <2>4, <2>q, <3>1, ThrowsTyped DEF OutOfIds
  <2>5. CASE Crash
    <3>1. TablesTyped'
      BY <2>0, <2>5, SeedAssumption DEF Crash, TablesTyped, tables
    <3>2. req' \in [Requests -> Request] /\ \A r \in Requests : RequestTyped(req'[r])
      BY <2>5, IdleTyped DEF Crash, RequestTyped
    <3> QED BY <2>q, <3>1, <3>2
  <2>6. CASE UNCHANGED vars
    BY <2>6 DEF vars, tables, TypeOK
  <2> QED
    BY <2>1, <2>2, <2>3, <2>4, <2>5, <2>6, CreateTyped, ChangeTyped DEF Next, Begin
<1> QED BY <1>1, <1>2, PTL DEF Spec

-----------------------------------------------------------------------------
(* What the gates established of a request stays true while others run.    *)

\* No row goes back to not having been inserted.
BornStays == \A u \in Users : role[u] # "unborn" => role'[u] # "unborn"

\* It is enough to look at the slot that moves and at the roles.
LEMMA GateStep ==
  ASSUME TypeOK, GateInv, NEW r \in Requests,
         \A s \in Requests : s # r => req'[s] = req[s],
         Gate(r)', OneOwner', BornStays
  PROVE  GateInv'
<1>1. ASSUME NEW s \in Requests, s # r PROVE Gate(s)'
  <2>1. req'[s] = req[s] /\ Gate(s) /\ (req[s].pc # "idle" => req[s].actor \in Users)
    BY <1>1 DEF GateInv, TypeOK
  <2> QED BY <2>1 DEF Gate, BornStays
<1> QED BY <1>1 DEF GateInv

\* A slot without a request has passed no gate.
LEMMA IdleGate ==
  ASSUME NEW r \in Requests, req'[r] = Idle
  PROVE  Gate(r)'
BY DEF Gate, Idle, Inserted, Changing, CatchSteps

\* Ending a request, when the roles allow it, keeps the invariant.
LEMMA EndsGate ==
  ASSUME TypeOK, GateInv, NEW r \in Requests, Ends(r), OneOwner', BornStays
  PROVE  GateInv'
<1>1. req'[r] = Idle /\ \A s \in Requests : s # r => req'[s] = req[s]
  BY DEF Ends, TypeOK
<1> QED BY <1>1, IdleGate, GateStep

\* The fields of a slot that moves on.
LEMMA GoesFields ==
  ASSUME TypeOK, NEW r \in Requests, NEW pc, Goes(r, pc)
  PROVE  /\ req'[r].pc = pc /\ req'[r].actor = req[r].actor
         /\ req'[r].claim = req[r].claim /\ req'[r].want = req[r].want
         /\ req'[r].target = req[r].target /\ req'[r].teamId = req[r].teamId
         /\ \A s \in Requests : s # r => req'[s] = req[s]
<1>1. req'[r] = [req[r] EXCEPT !.pc = pc] /\ \A s \in Requests : s # r => req'[s] = req[s]
  BY DEF Goes, TypeOK
<1>2. req[r] \in Request
  BY DEF TypeOK
<1> QED BY <1>1, <1>2 DEF Request

\* The steps of create keep it.
LEMMA CreateGate ==
  ASSUME TypeOK, GateInv, NEW r \in Requests, CreateStep(r)
  PROVE  GateInv'
<1>0. Gate(r) /\ OneOwner /\ req[r] \in Request /\ role \in [Users -> Roles \cup Gone]
  BY DEF GateInv, TypeOK
<1>a. req[r].pc # "idle" => req[r].actor \in Users
  BY DEF TypeOK
<1>u. UNCHANGED role => OneOwner' /\ BornStays
  BY <1>0 DEF OneOwner, BornStays
<1>1. CASE CreateRefused(r)
  BY <1>1, <1>u, EndsGate DEF CreateRefused, tables
<1>2. CASE ResolveManagersTeam(r)
  <2>1. PICK t \in Led(req[r].actor) :
          req' = [req EXCEPT ![r] = [@ EXCEPT !.pc = "checkTeam", !.teamId = t]]
    BY <1>2 DEF ResolveManagersTeam
  <2>2. /\ req'[r].pc = "checkTeam" /\ req'[r].want = req[r].want
        /\ req'[r].claim = req[r].claim /\ req'[r].actor = req[r].actor
        /\ \A s \in Requests : s # r => req'[s] = req[s]
    BY <1>0, <2>1 DEF TypeOK, Request
  <2>3. UNCHANGED role /\ CanCreate(req[r].claim, req[r].want) /\ req[r].pc = "resolve"
    BY <1>2 DEF ResolveManagersTeam, tables
  <2>4. Gate(r)'
    BY <1>0, <2>2, <2>3 DEF Gate, CanCreate, Inserted, Changing, CatchSteps
  <2> QED BY <1>u, <2>2, <2>3, <2>4, GateStep
<1>3. CASE ResolveNamedTeam(r)
  <2>1. PICK pc \in {"insert", "checkTeam"} : Goes(r, pc)
    BY <1>3 DEF ResolveNamedTeam
  <2>2. UNCHANGED role /\ CanCreate(req[r].claim, req[r].want) /\ req[r].pc = "resolve"
    BY <1>3 DEF ResolveNamedTeam, tables
  <2>3. Gate(r)'
    BY <1>0, <2>1, <2>2, GoesFields DEF Gate, CanCreate, Inserted, Changing, CatchSteps
  <2> QED BY <1>u, <2>1, <2>2, <2>3, GoesFields, GateStep
<1>4. CASE CheckTeam(r)
  <2>1. UNCHANGED role /\ req[r].pc = "checkTeam"
    BY <1>4 DEF CheckTeam, tables
  <2>2. CASE Goes(r, "insert")
    <3>1. Gate(r)'
      BY <1>0, <2>1, <2>2, GoesFields DEF Gate, Inserted, Changing, CatchSteps
    <3> QED BY <1>u, <2>1, <2>2, <3>1, GoesFields, GateStep
  <2> QED BY <1>4, <1>u, <2>1, <2>2, EndsGate DEF CheckTeam
<1>5. ASSUME NEW u \in Users, InsertUser(r, u) PROVE GateInv'
  <2>1. /\ req'[r].pc = "credential" /\ req'[r].target = u
        /\ req'[r].actor = req[r].actor
        /\ \A s \in Requests : s # r => req'[s] = req[s]
    BY <1>0, <1>5 DEF InsertUser, TypeOK, Request
  <2>2. /\ req[r].pc = "insert" /\ req[r].want # "OWNER" /\ req[r].want \in Roles
        /\ role[u] = "unborn"
        /\ \A v \in Users : role'[v] = IF v = u THEN req[r].want ELSE role[v]
    BY <1>0, <1>5, SeedAssumption DEF InsertUser, Gate, TypeOK
  <2>3. SeedRole[u] # "OWNER"
    BY <1>0, <2>2 DEF OneOwner
  <2>4. OneOwner' /\ BornStays
    BY <1>0, <2>2, <2>3 DEF OneOwner, BornStays, Roles
  <2>5. Gate(r)'
    BY <1>0, <1>a, <2>1, <2>2, <2>3, <2>4 DEF Gate, BornStays, Inserted, Changing, CatchSteps
  <2> QED BY <2>1, <2>4, <2>5, GateStep
<1>6. ASSUME NEW pc \in Inserted, Goes(r, pc), req[r].pc \in Inserted, UNCHANGED role
      PROVE  GateInv'
  <2>1. Gate(r)'
    BY <1>0, <1>6, GoesFields DEF Gate, Inserted, Changing, CatchSteps
  <2> QED BY <1>u, <1>6, <2>1, GoesFields, GateStep
<1>7. CASE WriteCredential(r)
  BY <1>6, <1>7 DEF WriteCredential, Inserted, CatchSteps
<1>8. ASSUME NEW t \in Teams, CreateTeam(r, t) PROVE GateInv'
  <2>1. /\ req'[r].pc = "linkTeam" /\ req'[r].target = req[r].target
        /\ req'[r].actor = req[r].actor
        /\ \A s \in Requests : s # r => req'[s] = req[s]
    BY <1>0, <1>8 DEF CreateTeam, NewTeam, TypeOK, Request
  <2>2. UNCHANGED role /\ req[r].pc = "createTeam"
    BY <1>8 DEF CreateTeam, NewTeam
  <2>3. Gate(r)'
    BY <1>0, <2>1, <2>2 DEF Gate, Inserted, Changing, CatchSteps
  <2> QED BY <1>u, <2>1, <2>2, <2>3, GateStep
<1>9. CASE LinkTeam(r)
  BY <1>6, <1>9 DEF LinkTeam, Inserted, CatchSteps
<1>10. CASE CreateAudit(r)
  <2>1. UNCHANGED role /\ req[r].pc \in Inserted /\ "cleanup" \in Inserted
    BY <1>10 DEF CreateAudit, Inserted, CatchSteps
  <2> QED BY <1>u, <1>6, <1>10, <2>1, EndsGate DEF CreateAudit
<1>11. CASE Cleanup(r)
  <2>1. /\ Ends(r) /\ SeedRole[req[r].target] # "OWNER"
        /\ \A v \in Users : role'[v] = IF v = req[r].target THEN "deleted" ELSE role[v]
    BY <1>0, <1>11 DEF Cleanup, Gate, Inserted
  <2>2. OneOwner' /\ BornStays
    BY <1>0, <2>1 DEF OneOwner, BornStays
  <2> QED BY <2>1, <2>2, EndsGate
<1> QED
  BY <1>1, <1>2, <1>3, <1>4, <1>5, <1>7, <1>8, <1>9, <1>10, <1>11 DEF CreateStep

\* The steps of changeRole keep it.
LEMMA ChangeGate ==
  ASSUME TypeOK, GateInv, NEW r \in Requests, ChangeStep(r)
  PROVE  GateInv'
<1>0. Gate(r) /\ OneOwner /\ req[r] \in Request /\ role \in [Users -> Roles \cup Gone]
  BY DEF GateInv, TypeOK
<1>t. req[r].pc \in ChangeSteps => req[r].target \in Users /\ req[r].want \in Roles
  BY SeedAssumption DEF TypeOK, ChangeSteps
<1>u. UNCHANGED role => OneOwner' /\ BornStays
  BY <1>0 DEF OneOwner, BornStays
<1>1. CASE ChangeRefused(r)
  BY <1>1, <1>u, EndsGate DEF ChangeRefused, tables
<1>2. CASE FindTarget(r)
  <2> DEFINE u == req[r].target
             pc == AfterFind(role[u], req[r].want)
  <2>1. req' = [req EXCEPT ![r] =
                  [@ EXCEPT !.pc = pc, !.seen = role[u], !.teamId = team[u]]]
    BY <1>2 DEF FindTarget
  <2>2. /\ UNCHANGED role /\ req[r].pc = "find" /\ u # req[r].actor
        /\ CanChange(req[r].claim, role[u], req[r].want)
    BY <1>2 DEF FindTarget, MayChange, tables
  <2>3. pc \in Changing
    BY DEF AfterFind, Changing
  <2> HIDE DEF pc
  <2>4. /\ req'[r].pc = pc /\ req'[r].want = req[r].want /\ req'[r].target = u
        /\ req'[r].claim = req[r].claim /\ req'[r].actor = req[r].actor
        /\ \A s \in Requests : s # r => req'[s] = req[s]
    BY <1>0, <2>1 DEF TypeOK, Request
  <2>5. u \in Users /\ SeedRole[u] # "OWNER"
    BY <1>0, <1>t, <2>2 DEF CanChange, OneOwner, ChangeSteps
  <2>6. Gate(r)'
    BY <1>0, <2>2, <2>3, <2>4, <2>5 DEF Gate, CanChange, Changing, Inserted, CatchSteps
  <2> QED BY <1>u, <2>2, <2>4, <2>6, GateStep
<1>3. ASSUME NEW pc \in Changing, Goes(r, pc), req[r].pc \in Changing, UNCHANGED role
      PROVE  GateInv'
  <2>1. Gate(r)'
    BY <1>0, <1>3, GoesFields DEF Gate, Inserted, Changing, CatchSteps
  <2> QED BY <1>u, <1>3, <2>1, GoesFields, GateStep
<1>4. CASE DemotionGuard(r)
  <2>1. UNCHANGED role /\ req[r].pc \in Changing /\ "update" \in Changing
    BY <1>4 DEF DemotionGuard, Changing, tables
  <2> QED BY <1>3, <1>4, <1>u, <2>1, EndsGate DEF DemotionGuard
<1>5. CASE LookupTeam(r)
  BY <1>3, <1>5 DEF LookupTeam, Changing, tables
<1>6. ASSUME NEW t \in Teams, ChangeTeam(r, t) PROVE GateInv'
  <2>1. /\ req'[r].pc = "update" /\ req'[r].target = req[r].target
        /\ req'[r].actor = req[r].actor /\ req'[r].want = req[r].want
        /\ req'[r].claim = req[r].claim
        /\ \A s \in Requests : s # r => req'[s] = req[s]
    BY <1>0, <1>6 DEF ChangeTeam, NewTeam, TypeOK, Request
  <2>2. UNCHANGED role /\ req[r].pc = "newTeam"
    BY <1>6 DEF ChangeTeam, NewTeam
  <2>3. Gate(r)'
    BY <1>0, <2>1, <2>2 DEF Gate, Inserted, Changing, CatchSteps
  <2> QED BY <1>u, <2>1, <2>2, <2>3, GateStep
<1>7. CASE UpdateRole(r)
  <2>1. /\ Goes(r, "changeAudit") /\ req[r].pc = "update"
        /\ req[r].want # "OWNER" /\ req[r].want \in Roles
        /\ SeedRole[req[r].target] # "OWNER"
        /\ \A v \in Users : role'[v] = IF v = req[r].target THEN req[r].want ELSE role[v]
    BY <1>0, <1>t, <1>7 DEF UpdateRole, Gate, Changing, ChangeSteps
  <2>2. OneOwner' /\ BornStays
    BY <1>0, <2>1 DEF OneOwner, BornStays, Roles
  <2>3. req[r].actor \in Users
    BY <2>1 DEF TypeOK
  <2>4. Gate(r)'
    BY <1>0, <2>1, <2>2, <2>3, GoesFields DEF Gate, BornStays, Inserted, Changing, CatchSteps
  <2> QED BY <2>1, <2>2, <2>4, GoesFields, GateStep
<1>8. CASE TargetGone(r)
  BY <1>8, <1>u, EndsGate DEF TargetGone, tables
<1>9. CASE ChangeAudit(r)
  BY <1>9, <1>u, EndsGate DEF ChangeAudit
<1> QED
  BY <1>1, <1>2, <1>4, <1>5, <1>6, <1>7, <1>8, <1>9 DEF ChangeStep

\* What the gates established holds in every reachable state.
LEMMA GateInvariant == Spec => []GateInv
<1>1. Init => GateInv
  BY DEF Init, GateInv, OneOwner, Gate, Idle, Inserted, Changing, CatchSteps
<1>2. TypeOK /\ GateInv /\ [Next]_vars => GateInv'
  <2> SUFFICES ASSUME TypeOK, GateInv, [Next]_vars PROVE GateInv'
    OBVIOUS
  <2>u. UNCHANGED role => OneOwner' /\ BornStays
    BY DEF GateInv, OneOwner, BornStays
  <2>1. ASSUME NEW r \in Requests, NEW a \in Users, NEW want \in Wanted,
               NEW t \in Teams \cup {None}, BeginCreate(r, a, want, t)
        PROVE  GateInv'
    <3>1. /\ req'[r].pc = "resolve" /\ req'[r].actor = a
          /\ \A s \in Requests : s # r => req'[s] = req[s]
          /\ UNCHANGED role /\ role[a] \in Roles
      BY <2>1 DEF BeginCreate, SignedIn, Exists, TypeOK, Idle, tables
    <3>2. Gate(r)'
      BY <3>1 DEF Gate, Inserted, Changing, CatchSteps, Roles
    <3> QED BY <2>u, <3>1, <3>2, GateStep
  <2>2. ASSUME NEW r \in Requests, NEW a \in Users, NEW want \in Wanted,
               NEW u \in Users, BeginChange(r, a, u, want)
        PROVE  GateInv'
    <3>1. /\ req'[r].pc = "find" /\ req'[r].actor = a
          /\ \A s \in Requests : s # r => req'[s] = req[s]
          /\ UNCHANGED role /\ role[a] \in Roles
      BY <2>2 DEF BeginChange, SignedIn, Exists, TypeOK, Idle, tables
    <3>2. Gate(r)'
      BY <3>1 DEF Gate, Inserted, Changing, CatchSteps, Roles
    <3> QED BY <2>u, <3>1, <3>2, GateStep
  <2>3. ASSUME NEW r \in Requests, Throws(r), UNCHANGED role, req[r].pc # "idle"
        PROVE  GateInv'
    <3>1. CASE req[r].pc \in CatchSteps
      <4>1. Goes(r, "cleanup") /\ Gate(r)
        BY <2>3, <3>1 DEF Throws, GateInv
      <4>2. Gate(r)'
        BY <2>3, <3>1, <4>1, GoesFields DEF Gate, Inserted, Changing, CatchSteps
      <4> QED BY <2>u, <2>3, <4>1, <4>2, GoesFields, GateStep
    <3>2. CASE req[r].pc \notin CatchSteps
      BY <2>u, <2>3, <3>2, EndsGate DEF Throws
    <3> QED BY <3>1, <3>2
  <2>4. ASSUME NEW r \in Requests, Refused(r) PROVE GateInv'
    BY <2>3, <2>4 DEF Refused, tables
  <2>5. ASSUME NEW r \in Requests, OutOfIds(r) PROVE GateInv'
    BY <2>3, <2>5 DEF OutOfIds, tables
  <2>6. CASE Crash
    <3>1. UNCHANGED role /\ \A r \in Requests : req'[r] = Idle
      BY <2>6 DEF Crash, tables
    <3> QED BY <2>u, <3>1, IdleGate DEF GateInv
  <2>7. CASE UNCHANGED vars
    BY <2>7 DEF vars, tables, GateInv, OneOwner, Gate
  <2> QED
    BY <2>1, <2>2, <2>4, <2>5, <2>6, <2>7, CreateGate, ChangeGate DEF Next, Begin
<1> QED BY <1>1, <1>2, TypeCorrect, PTL DEF Spec

\* However requests interleave, fail or die, the OWNER is the seeded one: nobody
\* else becomes OWNER, and the owner is neither demoted nor deleted.
THEOREM OwnerIsSeeded == Spec => []OneOwner
<1>1. GateInv => OneOwner
  BY DEF GateInv
<1> QED BY <1>1, GateInvariant, PTL

-----------------------------------------------------------------------------
(* Who gives a role outranks it.                                           *)

\* A step that writes no role gives none.
LEMMA NoRoleWritten == UNCHANGED role => GrantOutranked
BY DEF GrantOutranked

\* A user is created by an actor whose claim outranks the new role.
LEMMA InsertOutranked ==
  ASSUME TypeOK, GateInv, NEW r \in Requests, NEW u \in Users, InsertUser(r, u)
  PROVE  GrantOutranked
<1>1. /\ req[r].pc = "insert" /\ Outranks(req[r].claim, req[r].want)
      /\ role[u] = "unborn" /\ role[req[r].actor] # "unborn"
      /\ \A v \in Users : role'[v] = IF v = u THEN req[r].want ELSE role[v]
  BY DEF InsertUser, TypeOK, GateInv, Gate
<1> QED BY <1>1 DEF GrantOutranked

\* A role is changed by another user, whose claim outranks the new role.
LEMMA UpdateOutranked ==
  ASSUME TypeOK, GateInv, NEW r \in Requests, UpdateRole(r)
  PROVE  GrantOutranked
<1>1. /\ req[r].pc = "update" /\ Outranks(req[r].claim, req[r].want)
      /\ req[r].target # req[r].actor
      /\ \A v \in Users : role'[v] = IF v = req[r].target THEN req[r].want ELSE role[v]
  BY DEF UpdateRole, TypeOK, GateInv, Gate, Changing
<1> QED BY <1>1 DEF GrantOutranked

\* A cleanup gives no role.
LEMMA CleanupOutranked ==
  ASSUME TypeOK, NEW r \in Requests, Cleanup(r)
  PROVE  GrantOutranked
<1>1. \A v \in Users : role'[v] = IF v = req[r].target THEN "deleted" ELSE role[v]
  BY DEF Cleanup, TypeOK
<1> QED BY <1>1 DEF GrantOutranked, Roles

\* Whatever interleaves, a role is only given by a request of another user whose
\* claim strictly outranks it.
THEOREM RolesGivenFromAbove == Spec => GrantsOutranked
<1>1. TypeOK /\ GateInv /\ [Next]_vars => [GrantOutranked]_vars
  <2> SUFFICES ASSUME TypeOK, GateInv, Next PROVE GrantOutranked
    OBVIOUS
  <2>1. ASSUME NEW r \in Requests, CreateStep(r) PROVE GrantOutranked
    BY <2>1, NoRoleWritten, InsertOutranked, CleanupOutranked
       DEF CreateStep, CreateRefused, ResolveManagersTeam, ResolveNamedTeam, CheckTeam,
           WriteCredential, CreateTeam, NewTeam, LinkTeam, CreateAudit, tables
  <2>2. ASSUME NEW r \in Requests, ChangeStep(r) PROVE GrantOutranked
    BY <2>2, NoRoleWritten, UpdateOutranked
       DEF ChangeStep, ChangeRefused, FindTarget, DemotionGuard, LookupTeam, ChangeTeam,
           NewTeam, TargetGone, ChangeAudit, tables
  <2>3. ASSUME NEW r \in Requests, Begin(r) \/ Refused(r) \/ OutOfIds(r) \/ Crash
        PROVE  GrantOutranked
    BY <2>3, NoRoleWritten
       DEF Begin, BeginCreate, BeginChange, Refused, OutOfIds, Crash, tables
  <2>4. ASSUME Crash PROVE GrantOutranked
    BY <2>4, NoRoleWritten DEF Crash, tables
  <2> QED BY <2>1, <2>2, <2>3, <2>4 DEF Next
<1> QED BY <1>1, TypeCorrect, GateInvariant, PTL DEF Spec, GrantsOutranked

-----------------------------------------------------------------------------
(* A created user can sign in, or is on the way to being deleted.          *)

\* Steps that keep the tables Account and User, or finish a credential.
LEMMA CredentialStep ==
  ASSUME TypeOK, CredentialInv, NEW r \in Requests,
         \A s \in Requests : s # r => req'[s] = req[s],
         faults' = faults, crashes' = crashes,
         account \subseteq account',
         \A u \in Users : Exists(u)' => Exists(u),
         req[r].pc \in {"credential", "cleanup"} => req[r].target \in account'
  PROVE  CredentialInv'
BY DEF CredentialInv

\* The invariant holds of the seeded users, who all have a credential, and is
\* kept by every step.
LEMMA CredentialInvariant == Spec => []CredentialInv
<1>1. Init => CredentialInv
  BY DEF Init, CredentialInv, Exists
<1>2. TypeOK /\ CredentialInv /\ [Next]_vars => CredentialInv'
  <2> SUFFICES ASSUME TypeOK, CredentialInv, [Next]_vars PROVE CredentialInv'
    OBVIOUS
  <2>1. ASSUME NEW r \in Requests, NEW q, req' = [req EXCEPT ![r] = q],
               UNCHANGED <<role, account, faults, crashes>>,
               req[r].pc \notin {"credential", "cleanup"}
        PROVE  CredentialInv'
    <3>1. \A s \in Requests : s # r => req'[s] = req[s]
      BY <2>1 DEF TypeOK
    <3> QED BY <2>1, <3>1, CredentialStep DEF Exists
  <2>2. ASSUME NEW r \in Requests, CreateStep(r) PROVE CredentialInv'
    <3>1. ASSUME NEW u \in Users, InsertUser(r, u) PROVE CredentialInv'
      <4>1. /\ req'[r].pc = "credential" /\ req'[r].target = u
            /\ req[r].pc = "insert" /\ UNCHANGED <<account, faults, crashes>>
            /\ \A s \in Requests : s # r => req'[s] = req[s]
            /\ \A v \in Users : v # u => role'[v] = role[v]
        BY <3>1 DEF InsertUser, TypeOK, Request
      <4> QED BY <4>1 DEF CredentialInv, Exists
    <3>2. CASE WriteCredential(r)
      <4>1. /\ account' = account \cup {req[r].target} /\ UNCHANGED <<role, faults, crashes>>
            /\ \A s \in Requests : s # r => req'[s] = req[s]
        BY <3>2 DEF WriteCredential, Goes, TypeOK
      <4> QED BY <4>1, CredentialStep DEF Exists
    <3>3. CASE Cleanup(r)
      <4>1. /\ account' = account \ {req[r].target} /\ UNCHANGED <<faults, crashes>>
            /\ \A v \in Users : role'[v] = IF v = req[r].target THEN "deleted" ELSE role[v]
            /\ \A s \in Requests : s # r => req'[s] = req[s]
        BY <3>3 DEF Cleanup, Ends, TypeOK
      <4> QED BY <4>1 DEF CredentialInv, Exists, Roles
    <3> QED
      BY <2>1, <2>2, <3>1, <3>2, <3>3
         DEF CreateStep, CreateRefused, ResolveManagersTeam, ResolveNamedTeam, CheckTeam,
             CreateTeam, NewTeam, LinkTeam, CreateAudit, Goes, Ends, tables
  <2>3. ASSUME NEW r \in Requests, ChangeStep(r) PROVE CredentialInv'
    <3>1. CASE UpdateRole(r)
      <4>1. /\ UNCHANGED <<account, faults, crashes>> /\ req[r].pc = "update"
            /\ Exists(req[r].target)
            /\ \A v \in Users : v # req[r].target => role'[v] = role[v]
            /\ \A s \in Requests : s # r => req'[s] = req[s]
        BY <3>1 DEF UpdateRole, Goes, TypeOK
      <4> QED BY <4>1, CredentialStep DEF Exists
    <3> QED
      BY <2>1, <2>3, <3>1
         DEF ChangeStep, ChangeRefused, FindTarget, DemotionGuard, LookupTeam, ChangeTeam,
             NewTeam, TargetGone, ChangeAudit, Goes, Ends, tables
  <2>4. ASSUME NEW r \in Requests, Begin(r) PROVE CredentialInv'
    BY <2>1, <2>4 DEF Begin, BeginCreate, BeginChange, tables
  <2>5. ASSUME NEW r \in Requests, Refused(r) PROVE CredentialInv'
    <3>1. /\ faults' = faults + 1 /\ faults \in Nat /\ UNCHANGED <<role, account, crashes>>
          /\ \A s \in Requests : s # r => req'[s] = req[s]
      BY <2>5, SeedAssumption DEF Refused, Throws, Goes, Ends, tables, TypeOK
    <3>2. req[r].pc = "credential" => req'[r].pc = "cleanup" /\ req'[r].target = req[r].target
      BY <2>5, GoesFields DEF Refused, Throws, CatchSteps
    <3> QED BY <3>1, <3>2 DEF CredentialInv, Exists
  <2>6. ASSUME NEW r \in Requests, OutOfIds(r) PROVE CredentialInv'
    BY <2>1, <2>6 DEF OutOfIds, Throws, Goes, Ends, tables
  <2>7. CASE Crash
    BY <2>7 DEF Crash, CredentialInv, TypeOK
  <2>8. CASE UNCHANGED vars
    BY <2>8 DEF vars, tables, CredentialInv, Exists
  <2> QED
    BY <2>2, <2>3, <2>4, <2>5, <2>6, <2>7, <2>8 DEF Next
<1> QED BY <1>1, <1>2, TypeCorrect, PTL DEF Spec

\* As long as at most one database call failed and the backend did not stop, a
\* user without a credential is one whose creation is still in progress.
THEOREM CreatedUsersCanSignIn == Spec => []NoUserWithoutCredential
<1>1. CredentialInv => NoUserWithoutCredential
  BY DEF CredentialInv, NoUserWithoutCredential
<1> QED BY <1>1, CredentialInvariant, PTL

-----------------------------------------------------------------------------
(* A deleted user leaves nothing behind.                                   *)

\* It is enough to look at the row of the request that moves: it worked on that
\* row before, or the row is new.
LEMMA CreatedStep ==
  ASSUME TypeOK, CreatedInv, NEW r \in Requests,
         \A s \in Requests : s # r => req'[s] = req[s],
         \A s \in Requests :
           s # r /\ req[s].pc \in Inserted => role'[req[s].target] \in Roles,
         req'[r].pc \in Inserted
           => /\ role'[req'[r].target] \in Roles
              /\ \/ req[r].pc \in Inserted /\ req'[r].target = req[r].target
                 \/ role[req'[r].target] = "unborn",
         DeletedLeavesNothing'
  PROVE  CreatedInv'
<1>1. \A s \in Requests : req'[s].pc \in Inserted => role'[req'[s].target] \in Roles
  OBVIOUS
<1>2. ASSUME NEW s \in Requests, s # r, req'[s].pc \in Inserted, req'[r].pc \in Inserted,
             req'[s].target = req'[r].target
      PROVE  FALSE
  BY <1>2 DEF CreatedInv, Exists, Roles
<1>3. \A s, t \in Requests :
        req'[s].pc \in Inserted /\ req'[t].pc \in Inserted
          /\ req'[s].target = req'[t].target => s = t
  BY <1>2 DEF CreatedInv
<1> QED BY <1>1, <1>3 DEF CreatedInv, Exists

\* Steps that leave the rows, their accounts and the managers alone.
LEMMA CreatedFrame ==
  ASSUME TypeOK, CreatedInv, NEW r \in Requests,
         UNCHANGED <<role, team, account, teams, manager>>,
         \A s \in Requests : s # r => req'[s] = req[s],
         req'[r].pc \in Inserted
           => req[r].pc \in Inserted /\ req'[r].target = req[r].target
  PROVE  CreatedInv'
<1>1. DeletedLeavesNothing'
  BY DEF CreatedInv, DeletedLeavesNothing, Led
<1>2. \A s \in Requests : req[s].pc \in Inserted => role'[req[s].target] \in Roles
  BY DEF CreatedInv, Exists
<1>3. req'[r].pc \in Inserted => role'[req'[r].target] \in Roles
  BY DEF CreatedInv, Exists
<1> QED BY <1>1, <1>2, <1>3, CreatedStep

\* Ending a request works on no row any more.
LEMMA EndsSlot ==
  ASSUME TypeOK, NEW r \in Requests, Ends(r)
  PROVE  /\ req'[r].pc \notin Inserted
         /\ \A s \in Requests : s # r => req'[s] = req[s]
BY DEF Ends, Idle, TypeOK, Inserted, CatchSteps

\* The steps of create keep the invariant.
LEMMA CreateKeepsRows ==
  ASSUME TypeOK, CreatedInv, NEW r \in Requests, CreateStep(r)
  PROVE  CreatedInv'
<1>0. req[r] \in Request /\ (req[r].pc \in Inserted => req[r].target \in Users)
  BY DEF TypeOK, Inserted
<1>e. Ends(r) /\ UNCHANGED <<role, team, account, teams, manager>> => CreatedInv'
  BY EndsSlot, CreatedFrame
<1>g. \A pc \in CreateSteps :
        Goes(r, pc) /\ UNCHANGED <<role, team, account, teams, manager>>
          /\ (pc \in Inserted => req[r].pc \in Inserted)
        => CreatedInv'
  BY GoesFields, CreatedFrame
<1>1. CASE CreateRefused(r)
  BY <1>1, <1>e DEF CreateRefused, tables
<1>2. CASE ResolveManagersTeam(r)
  <2>1. /\ req'[r].pc \notin Inserted
        /\ \A s \in Requests : s # r => req'[s] = req[s]
    BY <1>0, <1>2 DEF ResolveManagersTeam, TypeOK, Request, Inserted, CatchSteps
  <2> QED BY <1>2, <2>1, CreatedFrame DEF ResolveManagersTeam, tables
<1>3. CASE ResolveNamedTeam(r)
  BY <1>3, <1>g DEF ResolveNamedTeam, tables, CreateSteps, Inserted, CatchSteps
<1>4. CASE CheckTeam(r)
  BY <1>4, <1>e, <1>g DEF CheckTeam, tables, CreateSteps, Inserted, CatchSteps
<1>5. ASSUME NEW u \in Users, InsertUser(r, u) PROVE CreatedInv'
  <2>1. /\ req'[r].target = u /\ role[u] = "unborn" /\ req[r].want \in Roles
        /\ \A v \in Users : role'[v] = IF v = u THEN req[r].want ELSE role[v]
        /\ \A v \in Users : v # u => team'[v] = team[v]
        /\ UNCHANGED <<account, teams, manager>>
        /\ \A s \in Requests : s # r => req'[s] = req[s]
    BY <1>0, <1>5, SeedAssumption DEF InsertUser, TypeOK, Request
  <2>2. DeletedLeavesNothing'
    BY <2>1 DEF CreatedInv, DeletedLeavesNothing, Led, Roles
  <2>3. \A s \in Requests : s # r /\ req[s].pc \in Inserted => role'[req[s].target] \in Roles
    BY <2>1 DEF CreatedInv, Exists, TypeOK, Inserted
  <2> QED BY <2>1, <2>2, <2>3, CreatedStep
<1>6. ASSUME req[r].pc \in Inserted, UNCHANGED role, DeletedLeavesNothing',
             \A s \in Requests : s # r => req'[s] = req[s],
             req'[r].target = req[r].target
      PROVE  CreatedInv'
  <2>1. \A s \in Requests : req[s].pc \in Inserted => role'[req[s].target] \in Roles
    BY <1>6 DEF CreatedInv, Exists
  <2>2. role'[req'[r].target] \in Roles
    BY <1>6 DEF CreatedInv, Exists
  <2> QED BY <1>6, <2>1, <2>2, CreatedStep
<1>7. CASE WriteCredential(r)
  <2>1. /\ req[r].pc \in Inserted /\ account' = account \cup {req[r].target}
        /\ UNCHANGED <<role, team, teams, manager>> /\ \E pc : Goes(r, pc)
    BY <1>7 DEF WriteCredential, Inserted, CatchSteps
  <2>2. DeletedLeavesNothing'
    BY <1>0, <2>1 DEF CreatedInv, DeletedLeavesNothing, Led, Exists, Roles
  <2> QED BY <1>6, <2>1, <2>2, GoesFields
<1>8. ASSUME NEW t \in Teams, CreateTeam(r, t) PROVE CreatedInv'
  <2>1. /\ req[r].pc \in Inserted /\ teams' = teams \cup {t}
        /\ \A s \in Teams : manager'[s] = IF s = t THEN req[r].target ELSE manager[s]
        /\ UNCHANGED <<role, team, account>>
        /\ req'[r].target = req[r].target
        /\ \A s \in Requests : s # r => req'[s] = req[s]
    BY <1>0, <1>8 DEF CreateTeam, NewTeam, TypeOK, Request, Inserted, CatchSteps
  <2>2. Exists(req[r].target) /\ teams \subseteq Teams
    BY <2>1 DEF CreatedInv, TypeOK
  <2>3. DeletedLeavesNothing'
    BY <2>1, <2>2 DEF CreatedInv, DeletedLeavesNothing, Led, Exists, Roles
  <2> QED BY <1>6, <2>1, <2>3
<1>9. CASE LinkTeam(r)
  <2>1. /\ req[r].pc \in Inserted
        /\ \A v \in Users : v # req[r].target => team'[v] = team[v]
        /\ UNCHANGED <<role, account, teams, manager>> /\ \E pc : Goes(r, pc)
    BY <1>9 DEF LinkTeam, Inserted, CatchSteps, TypeOK
  <2>2. DeletedLeavesNothing'
    BY <1>0, <2>1 DEF CreatedInv, DeletedLeavesNothing, Led, Exists, Roles
  <2> QED BY <1>6, <2>1, <2>2, GoesFields
<1>10. CASE CreateAudit(r)
  BY <1>10, <1>e, <1>g DEF CreateAudit, CreateSteps, Inserted, CatchSteps
<1>11. CASE Cleanup(r)
  <2>1. /\ req[r].pc \in Inserted /\ req[r].target \in Users /\ Ends(r)
        /\ \A v \in Users : role'[v] = IF v = req[r].target THEN "deleted" ELSE role[v]
        /\ \A v \in Users : team'[v] = IF v = req[r].target THEN None ELSE team[v]
        /\ account' = account \ {req[r].target} /\ teams' = teams
        /\ \A t \in Teams : manager'[t] = IF manager[t] = req[r].target THEN None
                                                                       ELSE manager[t]
    BY <1>0, <1>11 DEF Cleanup, Inserted, TypeOK
  <2>2. teams \subseteq Teams /\ None \notin Users
    BY SeedAssumption DEF TypeOK
  <2>3. DeletedLeavesNothing'
    BY <2>1, <2>2 DEF CreatedInv, DeletedLeavesNothing, Led
  <2>4. \A s \in Requests : s # r /\ req[s].pc \in Inserted => role'[req[s].target] \in Roles
    BY <2>1 DEF CreatedInv, Exists, TypeOK, Inserted
  <2> QED BY <2>1, <2>3, <2>4, EndsSlot, CreatedStep
<1> QED
  BY <1>1, <1>2, <1>3, <1>4, <1>5, <1>7, <1>8, <1>9, <1>10, <1>11 DEF CreateStep

\* The steps of changeRole keep it: a team and a role are only given to a row that
\* exists.
LEMMA ChangeKeepsRows ==
  ASSUME TypeOK, CreatedInv, NEW r \in Requests, ChangeStep(r)
  PROVE  CreatedInv'
<1>0. /\ req[r] \in Request
      /\ req[r].pc \in ChangeSteps => req[r].target \in Users /\ req[r].want \in Roles
  BY SeedAssumption DEF TypeOK, ChangeSteps
<1>e. Ends(r) /\ UNCHANGED <<role, team, account, teams, manager>> => CreatedInv'
  BY EndsSlot, CreatedFrame
<1>g. \A pc \in ChangeSteps :
        Goes(r, pc) /\ UNCHANGED <<role, team, account, teams, manager>> => CreatedInv'
  BY GoesFields, CreatedFrame DEF ChangeSteps, Inserted, CatchSteps
<1>1. CASE ChangeRefused(r)
  BY <1>1, <1>e DEF ChangeRefused, tables
<1>2. CASE FindTarget(r)
  <2> DEFINE pc == AfterFind(role[req[r].target], req[r].want)
  <2>1. pc \notin Inserted
    BY DEF AfterFind, Inserted, CatchSteps
  <2>2. req'[r].pc = pc /\ \A s \in Requests : s # r => req'[s] = req[s]
    BY <1>0, <1>2 DEF FindTarget, TypeOK, Request
  <2> HIDE DEF pc
  <2> QED BY <1>2, <2>1, <2>2, CreatedFrame DEF FindTarget, tables
<1>3. CASE DemotionGuard(r)
  BY <1>3, <1>e, <1>g DEF DemotionGuard, tables, ChangeSteps
<1>4. CASE LookupTeam(r)
  BY <1>4, <1>g DEF LookupTeam, tables, ChangeSteps
<1>5. ASSUME NEW t \in Teams, ChangeTeam(r, t) PROVE CreatedInv'
  <2>1. /\ Exists(req[r].target) /\ teams' = teams \cup {t}
        /\ \A s \in Teams : manager'[s] = IF s = t THEN req[r].target ELSE manager[s]
        /\ UNCHANGED <<role, team, account>> /\ req'[r].pc \notin Inserted
        /\ \A s \in Requests : s # r => req'[s] = req[s]
    BY <1>0, <1>5 DEF ChangeTeam, NewTeam, TypeOK, Request, Inserted, CatchSteps
  <2>2. teams \subseteq Teams
    BY DEF TypeOK
  <2>3. DeletedLeavesNothing'
    BY <2>1, <2>2 DEF CreatedInv, DeletedLeavesNothing, Led, Exists, Roles
  <2>4. \A s \in Requests : req[s].pc \in Inserted => role'[req[s].target] \in Roles
    BY <2>1 DEF CreatedInv, Exists
  <2> QED BY <2>1, <2>3, <2>4, CreatedStep
<1>6. CASE UpdateRole(r)
  <2>1. /\ Exists(req[r].target) /\ req[r].want \in Roles /\ Goes(r, "changeAudit")
        /\ \A v \in Users : role'[v] = IF v = req[r].target THEN req[r].want ELSE role[v]
        /\ \A v \in Users : v # req[r].target => team'[v] = team[v]
        /\ UNCHANGED <<account, teams, manager>>
    BY <1>0, <1>6 DEF UpdateRole, TypeOK, ChangeSteps
  <2>2. DeletedLeavesNothing'
    BY <2>1 DEF CreatedInv, DeletedLeavesNothing, Led, Roles
  <2>3. \A s \in Requests : req[s].pc \in Inserted => role'[req[s].target] \in Roles
    BY <2>1 DEF CreatedInv, Exists, TypeOK, Inserted
  <2>4. req'[r].pc \notin Inserted /\ \A s \in Requests : s # r => req'[s] = req[s]
    BY <2>1, GoesFields DEF Inserted, CatchSteps
  <2> QED BY <2>2, <2>3, <2>4, CreatedStep
<1>7. CASE TargetGone(r)
  BY <1>7, <1>e DEF TargetGone, tables
<1>8. CASE ChangeAudit(r)
  BY <1>8, <1>e DEF ChangeAudit
<1> QED
  BY <1>1, <1>2, <1>3, <1>4, <1>5, <1>6, <1>7, <1>8 DEF ChangeStep

\* Each creation in progress owns a row that exists; deleted rows left nothing.
LEMMA CreatedInvariant == Spec => []CreatedInv
<1>1. Init => CreatedInv
  <2> SUFFICES ASSUME Init PROVE CreatedInv
    OBVIOUS
  <2>1. \A u \in Users : role[u] # "deleted"
    BY SeedAssumption DEF Init, Roles
  <2> QED BY <2>1 DEF Init, CreatedInv, DeletedLeavesNothing, Idle, Inserted, CatchSteps
<1>2. TypeOK /\ CreatedInv /\ [Next]_vars => CreatedInv'
  <2> SUFFICES ASSUME TypeOK, CreatedInv, [Next]_vars PROVE CreatedInv'
    OBVIOUS
  <2>1. ASSUME NEW r \in Requests, Begin(r) PROVE CreatedInv'
    <3>1. /\ req'[r].pc \notin Inserted
          /\ \A s \in Requests : s # r => req'[s] = req[s]
          /\ UNCHANGED tables
      BY <2>1 DEF Begin, BeginCreate, BeginChange, TypeOK, Idle, Inserted, CatchSteps
    <3> QED BY <3>1, CreatedFrame DEF tables
  <2>2. ASSUME NEW r \in Requests, Throws(r), UNCHANGED tables PROVE CreatedInv'
    <3>1. CASE Ends(r)
      BY <2>2, <3>1, EndsSlot, CreatedFrame DEF tables
    <3>2. CASE Goes(r, "cleanup") /\ req[r].pc \in CatchSteps
      BY <2>2, <3>2, GoesFields, CreatedFrame DEF tables, Inserted
    <3> QED BY <2>2, <3>1, <3>2 DEF Throws
  <2>3. ASSUME NEW r \in Requests, Refused(r) \/ OutOfIds(r) PROVE CreatedInv'
    BY <2>2, <2>3 DEF Refused, OutOfIds
  <2>4. CASE Crash
    <3>1. \A r \in Requests : req'[r].pc \notin Inserted
      BY <2>4 DEF Crash, Idle, Inserted, CatchSteps
    <3>2. DeletedLeavesNothing'
      BY <2>4 DEF Crash, tables, CreatedInv, DeletedLeavesNothing, Led
    <3> QED BY <3>1, <3>2 DEF CreatedInv
  <2>5. CASE UNCHANGED vars
    BY <2>5 DEF vars, tables, CreatedInv, DeletedLeavesNothing, Led, Exists
  <2> QED
    BY <2>1, <2>3, <2>4, <2>5, CreateKeepsRows, ChangeKeepsRows DEF Next
<1> QED BY <1>1, <1>2, TypeCorrect, PTL DEF Spec

\* The cleanup of a failed creation leaves no credential, membership or team
\* behind, whatever other requests were doing with the user.
THEOREM DeletedUsersLeaveNothing == Spec => []DeletedLeavesNothing
<1>1. CreatedInv => DeletedLeavesNothing
  BY DEF CreatedInv
<1> QED BY <1>1, CreatedInvariant, PTL

=============================================================================
