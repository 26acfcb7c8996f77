---------------------------- MODULE PagesProofs ----------------------------
(***************************************************************************)
(* What the pages of apps/web promise to each role, for every role, page   *)
(* and query: the frontend's gates (lib/session.ts, the pages) against one *)
(* another, against the backend's (RoleRules), and against what the        *)
(* backend answers.                                                        *)
(***************************************************************************)
EXTENDS Pages, TLAPS

-----------------------------------------------------------------------------
(* Navigation.                                                             *)

\* The header links no role to a page that turns it away, whatever state the page's
\* queries are in: app-header.tsx and the pages gate alike.
THEOREM LinksOpen ==
  ASSUME NEW role \in Roles, NEW path \in NavLinks(role),
         NEW query \in PageReads(path, role), NEW s \in QueryState
  PROVE  Shows(path, role, query, s) # "unauthorized"
<1>1. CASE path = "/users"
  <2>1. CanManageUsers(role)  BY <1>1 DEF NavLinks, NavItems
  <2> QED  BY <1>1, <2>1 DEF Shows, UsersPage
<1>2. CASE path = "/audit"
  <2>1. CanViewAudit(role)  BY <1>2 DEF NavLinks, NavItems
  <2> QED  BY <1>2, <2>1 DEF Shows, AuditPage, LeadInbox, ModulePending
<1>3. CASE path \in NavItems
  BY <1>3 DEF NavItems, Shows, Section, LeadInbox, ModulePending
<1> QED  BY <1>1, <1>2, <1>3 DEF NavLinks

-----------------------------------------------------------------------------
(* Modules the backend has not built.                                      *)

\* What a page makes of an answered query, by the kind of the answer.
LEMMA ShowsAnswered ==
  ASSUME NEW query, BackendAnswer(CrmRoute(query)) # "rows"
  PROVE  /\ LeadInbox(Answered(query)) = "pending"
         /\ Section(Answered(query)) = "pending"
BY DEF Answered, LeadInbox, Section, ModulePending, IsLoading, BackendAnswer

\* Only the users query is answered with rows.
LEMMA OnlyUsersLive ==
  ASSUME NEW role, NEW path \in PagePaths \ {"/users"},
         NEW query \in PageReads(path, role)
  PROVE  BackendAnswer(CrmRoute(query)) # "rows"
<1>1. /\ query.of \in {"leads", "visits", "bookings", "audit", "notifications", "chat"}
      /\ query.by = "lead" => query.of \in {"leads", "chat"}
  <2>1. CASE path = "/"
    <3>1. query \in AdminReads \cup ManagerReads \cup InboxReads
      BY <2>1 DEF PageReads, HomeReads
    <3> QED  BY <3>1 DEF ManagerReads, AdminReads, InboxReads
  <2>2. CASE path = "/leads/:id"
    <3>1. query \in LeadReads  BY <2>2 DEF PageReads
    <3> QED  BY <3>1 DEF LeadReads
  <2>3. CASE path = "/leads"          BY <2>3 DEF PageReads, InboxQuery
  <2>4. CASE path = "/visits"         BY <2>4 DEF PageReads, VisitsQuery
  <2>5. CASE path = "/audit"          BY <2>5 DEF PageReads, AuditQuery
  <2>6. CASE path = "/notifications"  BY <2>6 DEF PageReads, NotificationsQuery
  <2>7. CASE path = "/inventory"      BY <2>7 DEF PageReads, InventoryReads
  <2> QED  BY <2>1, <2>2, <2>3, <2>4, <2>5, <2>6, <2>7 DEF PagePaths
<1>2. CrmRoute(query) # "users"  BY <1>1 DEF CrmRoute
<1> QED  BY <1>2 DEF BackendAnswer

\* A placeholder, an object in a list's place or a 404 reads "Not built yet" on
\* every page that a role may open, and never as rows, as loading or as a failure
\* (hooks/queries/crm.ts: pages render an honest pending state); the lead page
\* says so once for its three queries.
THEOREM HonestStates ==
  ASSUME NEW role \in Roles, NEW path \in PagePaths \ {"/users"},
         path = "/audit" => CanViewAudit(role),
         NEW query \in PageReads(path, role)
  PROVE  Shows(path, role, query, Answered(query)) =
           IF path = "/leads/:id" /\ query # [of |-> "leads", by |-> "lead"]
           THEN "hidden" ELSE "pending"
<1>1. BackendAnswer(CrmRoute(query)) # "rows"  BY OnlyUsersLive
<1>2. CASE path = "/leads/:id"
  <2>1. CASE query = [of |-> "leads", by |-> "lead"]
    <3>1. BackendAnswer(CrmRoute(query)) = "unbuilt"
      BY <2>1 DEF CrmRoute, BackendAnswer, StubRoutes
    <3> QED  BY <1>2, <2>1, <3>1 DEF Shows, LeadPage, LeadDetail, Answered, ModulePending, IsLoading
  <2>2. CASE query # [of |-> "leads", by |-> "lead"]
    BY <1>2, <2>2 DEF Shows, LeadPage
  <2> QED  BY <2>1, <2>2
<1>3. CASE path = "/"
  BY <1>1, <1>3, ShowsAnswered DEF Shows
<1>4. CASE path \in {"/leads", "/visits", "/notifications", "/inventory"}
  BY <1>1, <1>4, ShowsAnswered DEF Shows
<1>5. CASE path = "/audit"
  BY <1>1, <1>5, ShowsAnswered DEF Shows, AuditPage
<1> QED  BY <1>2, <1>3, <1>4, <1>5 DEF PagePaths

-----------------------------------------------------------------------------
(* The users page against the backend's rules.                             *)

\* Every creation the form offers a manager passes the backend's gates if the manager
\* leads a team, and none if it leads none, as one created with an explicit teamId.
THEOREM ManagerOffersPass ==
  \A newRole \in CreateOffers("MANAGER"), leadsTeam \in BOOLEAN :
    CreateAccepted("MANAGER", newRole, leadsTeam) <=> leadsTeam
BY DEF CreateOffers, CanManageUsers, IsAdminLike, CreatableRoles, CreateAccepted,
       CanCreate, Outranks, RANK, Staff

\* Of those it offers an owner or an admin only the managers do: the form has no
\* field for the team the backend requires with staff.
THEOREM AdminOffersFail ==
  ASSUME NEW role \in {"ADMIN", "OWNER"}, NEW leadsTeam \in BOOLEAN
  PROVE  {r \in CreateOffers(role) : CreateAccepted(role, r, leadsTeam)} = {"MANAGER"}
<1>1. CreateOffers(role) = {"MANAGER", "TELECALLER", "SALES_EXEC"}
  BY DEF CreateOffers, CanManageUsers, IsAdminLike, CreatableRoles
<1>2. CreateAccepted(role, "MANAGER", leadsTeam)
  BY DEF CreateAccepted, CanCreate, Outranks, RANK, Staff
<1>3. \A r \in Staff : ~CreateAccepted(role, r, leadsTeam)
  BY DEF CreateAccepted, IsAdminLike
<1> QED  BY <1>1, <1>2, <1>3 DEF Staff

\* The role select of a row offers only changes the backend's hierarchy allows,
\* when the row is somebody's the viewer outranks ...
THEOREM OutrankedOffersPass ==
  ASSUME NEW role \in Roles, NEW rowRole \in Roles, Outranks(role, rowRole),
         NEW newRole \in ChangeOffers(role, rowRole, FALSE)
  PROVE  CanChange(role, rowRole, newRole)
BY DEF Roles, Outranks, ChangeOffers, CanManageUsers, IsAdminLike, CreatableRoles,
       CanChange, RANK

\* ... and on any other row, an owner's or a peer's, it offers some although the
\* backend refuses them all.
THEOREM OtherOffersFail ==
  ASSUME NEW role \in Roles, CanManageUsers(role),
         NEW rowRole \in Roles, ~Outranks(role, rowRole)
  PROVE  /\ ChangeOffers(role, rowRole, FALSE) # {}
         /\ \A newRole \in ChangeOffers(role, rowRole, FALSE) :
              ~CanChange(role, rowRole, newRole)
<1>1. \E newRole \in Staff : newRole \in ChangeOffers(role, rowRole, FALSE)
  BY DEF Staff, ChangeOffers, CreatableRoles
<1> QED  BY <1>1 DEF CanChange

-----------------------------------------------------------------------------
(* The calendar of the visits page.                                        *)

\* startOfWeek goes back to the Monday of the day's week, over Sunday as well.
THEOREM WeekStartsOnMonday ==
  ASSUME NEW day \in Int
  PROVE  /\ StartOfWeek(day) % 7 = 0
         /\ StartOfWeek(day) <= day /\ day <= StartOfWeek(day) + 6
BY DEF StartOfWeek, GetDay

\* The two buttons move between Mondays.
THEOREM ShiftKeepsMonday ==
  ASSUME NEW day \in Int, NEW delta \in {-1, 1}
  PROVE  ShiftWeek(StartOfWeek(day), delta) = StartOfWeek(day + 7 * delta)
BY DEF ShiftWeek, StartOfWeek, GetDay

\* In a grid whose days differ in date or month, as those of a week do, a visit is drawn
\* in one cell at most, and in none just if no day has its date and month or no row its
\* hour: the grid has none for 13 h, nor before 9 h or after 17 h.  A visit of another
\* year is drawn like one of this week, so the page relies on the backend's filter.
THEOREM DrawnOnce ==
  ASSUME NEW days \in SUBSET CalendarDay,
         \A d, e \in days : SameDate(d, e) => d = e,
         NEW at \in Moment, at # Undefined
  PROVE  /\ \A a, b \in Cells(days, at) : a = b
         /\ Cells(days, at) # {} <=> at.hour \in HOURS /\ \E d \in days : SameDate(d, at)
<1>1. ASSUME NEW a \in Cells(days, at), NEW b \in Cells(days, at) PROVE a = b
  <2>1. /\ a \in days \X HOURS /\ b \in days \X HOURS
        /\ SameDate(a[1], at) /\ SameDate(b[1], at)
        /\ a[2] = b[2]
    BY <1>1 DEF Cells
  <2>2. a[1] = b[1]
    BY <2>1 DEF SameDate
  <2> QED  BY <2>1, <2>2
<1>2. ASSUME at.hour \in HOURS, NEW d \in days, SameDate(d, at)
      PROVE  <<d, at.hour>> \in Cells(days, at)
  BY <1>2 DEF Cells
<1>3. ASSUME NEW a \in Cells(days, at)
      PROVE  at.hour \in HOURS /\ \E d \in days : SameDate(d, at)
  BY <1>3 DEF Cells
<1> QED  BY <1>1, <1>2, <1>3

=============================================================================
