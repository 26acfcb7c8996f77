------------------------------- MODULE Pages -------------------------------
(***************************************************************************)
(* What the pages of apps/web show: who may see what (lib/session.ts), what *)
(* each page asks of the backend, and what it makes of the answers.  Pages *)
(* hold no state of their own that survives them, so everything here is an *)
(* operator; WebTab has the tab, its session and its query cache.          *)
(***************************************************************************)
EXTENDS RoleRules, Integers

\* A role that is no role: no user is signed in.
NoRole == "none"

\* normalizeRole: what a session payload says of its user's role, or staff.
NormalizeRole(raw) == IF raw \in Roles THEN raw ELSE "TELECALLER"

-----------------------------------------------------------------------------
(* lib/session.ts.                                                         *)
IsAdminLike(role) == role \in {"ADMIN", "OWNER"}
CanReassign(role) == IsAdminLike(role) \/ role = "MANAGER"
CanApproveBookings(role) == IsAdminLike(role) \/ role = "MANAGER"
CanViewAudit(role) == IsAdminLike(role)
CanManageUsers(role) == IsAdminLike(role) \/ role = "MANAGER"
CanScheduleVisits(role) == IsAdminLike(role) \/ role \in {"MANAGER", "TELECALLER"}

Outcomes == {"COMPLETED", "NO_SHOW", "CANCELLED", "RESCHEDULED"}

CanLogVisitOutcome(role, outcome) ==
  \/ IsAdminLike(role) \/ role = "MANAGER"
  \/ role = "SALES_EXEC" /\ outcome # "NO_SHOW"
  \/ role = "TELECALLER" /\ outcome = "NO_SHOW"

-----------------------------------------------------------------------------
(* Queries.  A query is named by its key; the backend route it asks follows *)
(* from the key.                                                           *)
UsersQuery == [of |-> "users", by |-> "all"]

\* hooks/queries/crm.ts: the keys in use, with the route each one asks.
CrmRoute(query) ==
  IF query.by = "lead" /\ query.of = "leads" THEN "leads/:id"
  ELSE IF query.by = "activities" /\ query.of = "leads" THEN "leads/:id/activities"
  ELSE IF query.by = "lead" /\ query.of = "chat" THEN "chat/:id"
  ELSE query.of

\* The modules of app.module.ts that answer their list route with a placeholder.
StubRoutes == {"leads", "visits", "chat", "bookings", "reminders", "notifications", "audit"}

\* What the backend answers a GET: an array, an object, or 404.
BackendAnswer(route) ==
  IF route = "users" THEN "rows"
  ELSE IF route \in StubRoutes THEN "other"
  ELSE "unbuilt"

\* onSuccess of a mutation invalidates every query whose key starts with its module.
Invalidated(module, queries) == {q \in queries : q.of = module}

-----------------------------------------------------------------------------
(* The state of a query as its page reads it from useQuery.                *)
DataKinds == {"none", "rows", "other"}
ErrorKinds == {"none", "unbuilt", "failed"}   \* "unbuilt": ApiError 404 or 501

QueryState == [data : DataKinds, error : ErrorKinds, fetching : BOOLEAN]

IsLoading(s) == s.fetching /\ s.data = "none"

\* ModulePending: "pending" is the badge "Not built yet".
ModulePending(error, isLoading) ==
  IF isLoading THEN "loading"
  ELSE IF error = "failed" THEN "failed"
  ELSE "pending"

\* LeadInboxPage, the pattern of the list pages.
LeadInbox(s) ==
  IF IsLoading(s) THEN "loading"
  ELSE IF s.data = "rows" THEN "rows"
  ELSE ModulePending(s.error, FALSE)

NotificationsPage(s) == LeadInbox(s)

\* VisitsPage: the week's grid stands above the badge as well, empty.
VisitsPage(s) == LeadInbox(s)

AuditPage(role, s) == IF CanViewAudit(role) THEN LeadInbox(s) ELSE "unauthorized"

\* LeadDetailPage takes any answer but null for the lead.
LeadDetail(s) == IF s.data # "none" THEN "lead" ELSE ModulePending(s.error, IsLoading(s))

\* The timeline and the chat are drawn beside the lead's data, and no lead is ever
\* answered: what their queries say is not shown.
LeadPage(query, s) ==
  IF query = [of |-> "leads", by |-> "lead"] THEN LeadDetail(s) ELSE "hidden"

\* UsersPage: the only live list; its failures are shown as they come.
UsersPage(role, s) ==
  IF ~CanManageUsers(role) THEN "unauthorized"
  ELSE IF IsLoading(s) THEN "loading"
  ELSE IF s.data = "rows" THEN "rows"
  ELSE "failed"

\* The sections of the home page ignore what they read, only how it failed.
Section(s) == ModulePending(s.error, IsLoading(s))

ManagerReads == {[of |-> "leads", by |-> "first200"], [of |-> "visits", by |-> "all"],
                 [of |-> "bookings", by |-> "HOLD"]}

AdminReads == {[of |-> "leads", by |-> "first200"], [of |-> "audit", by |-> "last10"]}

InboxReads == {[of |-> "leads", by |-> "first50"]}

\* DashboardPage
HomeReads(role) ==
  IF role = NoRole THEN {}
  ELSE IF IsAdminLike(role) THEN AdminReads
  ELSE IF role = "MANAGER" THEN ManagerReads
  ELSE InboxReads

LeadReads == {[of |-> "leads", by |-> "lead"], [of |-> "leads", by |-> "activities"],
              [of |-> "chat", by |-> "lead"]}

InboxQuery == [of |-> "leads", by |-> "inbox"]

VisitsQuery == [of |-> "visits", by |-> "week"]

AuditQuery == [of |-> "audit", by |-> "last50"]

NotificationsQuery == [of |-> "notifications", by |-> "all"]

\* InventoryPage draws a sample of its columns and asks for nothing.
InventoryReads == {}

PagePaths == {"/", "/users", "/leads", "/leads/:id", "/visits", "/audit", "/notifications",
              "/inventory"}

\* The queries the page of a path mounts.  Hooks run before a page's gate, so the pages that
\* turn a role away ask for their data nevertheless.
PageReads(path, role) ==
  IF path = "/" THEN HomeReads(role)
  ELSE IF path = "/users" THEN {UsersQuery}
  ELSE IF path = "/leads" THEN {InboxQuery}
  ELSE IF path = "/leads/:id" THEN LeadReads
  ELSE IF path = "/visits" THEN {VisitsQuery}
  ELSE IF path = "/audit" THEN {AuditQuery}
  ELSE IF path = "/notifications" THEN {NotificationsQuery}
  ELSE InventoryReads

\* What a page shows of a query it mounts.
Shows(path, role, query, s) ==
  IF path = "/" THEN Section(s)
  ELSE IF path = "/users" THEN UsersPage(role, s)
  ELSE IF path = "/leads/:id" THEN LeadPage(query, s)
  ELSE IF path = "/audit" THEN AuditPage(role, s)
  ELSE LeadInbox(s)

\* A query whose fetch has ended with what the backend answers its route.
Answered(query) ==
  LET answer == BackendAnswer(CrmRoute(query))
  IN  [data     |-> IF answer = "unbuilt" THEN "none" ELSE answer,
       error    |-> IF answer = "unbuilt" THEN "unbuilt" ELSE "none",
       fetching |-> FALSE]

-----------------------------------------------------------------------------
(* What is offered.                                                        *)
NavItems == {"/", "/leads", "/visits", "/inventory", "/notifications"}

\* AppHeader: the links of the navigation.
NavLinks(role) ==
  NavItems \cup (IF CanManageUsers(role) THEN {"/users"} ELSE {})
           \cup (IF CanViewAudit(role) THEN {"/audit"} ELSE {})

\* The roles the create form lists.
CreatableRoles(role) ==
  IF IsAdminLike(role) THEN {"MANAGER", "TELECALLER", "SALES_EXEC"}
                       ELSE {"TELECALLER", "SALES_EXEC"}

\* CreateUserForm: what it can post.  It knows no team.
CreateOffers(role) == IF CanManageUsers(role) THEN CreatableRoles(role) ELSE {}

\* The backend's gates on a creation that names no team (UsersService.create), by an
\* actor who leads a team or leads none.
CreateAccepted(role, newRole, leadsTeam) ==
  /\ CanCreate(role, newRole)
  /\ role = "MANAGER" => leadsTeam
  /\ ~(IsAdminLike(role) /\ newRole \in Staff)

\* UserTable: the other roles the select of a row offers; none on one's own row.
ChangeOffers(role, rowRole, isSelf) ==
  IF isSelf \/ ~CanManageUsers(role) THEN {} ELSE CreatableRoles(role) \ {rowRole}

-----------------------------------------------------------------------------
(* The calendar.  For the weeks, days are numbered from a Monday, day 0.   *)
HOURS == {9, 10, 11, 12, 14, 15, 16, 17}

GetDay(day) == (day + 1) % 7      \* Date.getDay(): Sunday is 0

StartOfWeek(day) == day - ((GetDay(day) + 6) % 7)

\* shiftWeek, by its two buttons.
ShiftWeek(weekStart, delta) == weekStart + delta * 7

\* The grid works on dates: a day of the week shown, and the moment of a visit, which
\* may be missing from what the backend answers.
CalendarDay == [year : Int, month : 0..11, date : 1..31]

Moment == [year : Int, month : 0..11, date : 1..31, hour : 0..23]

Undefined == "undefined"

\* getDate and getMonth of the two agree.
SameDate(day, moment) == day.date = moment.date /\ day.month = moment.month

\* WeekGrid: the cells of its days that a visit is drawn in.
Cells(days, scheduledAt) ==
  {cell \in days \X HOURS :
     /\ scheduledAt # Undefined
     /\ SameDate(cell[1], scheduledAt) /\ scheduledAt.hour = cell[2]}

=============================================================================
