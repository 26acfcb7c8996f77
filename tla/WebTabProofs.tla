--------------------------- MODULE WebTabProofs ---------------------------
(***************************************************************************)
(* Theorems about WebTab for any users, roles, pages and queries: its type *)
(* invariant, that what counts as fresh is current, and that no page says  *)
(* anything of a query nobody asked.                                       *)
(***************************************************************************)
EXTENDS WebTab, PagesProofs

-----------------------------------------------------------------------------
(* The inductive invariant.                                                *)

\* Where the tab may be: at the login form while the form is in use, and with
\* nothing under way on the offline page.
PlaceInv ==
  /\ form # "idle" => page = Login
  /\ page = Offline => /\ next \in Paths \cup {Login}
                       /\ change = "no" /\ stray = "no"
                       /\ \A q \in Queries : fetch[q].at = "no"

\* The cookie is nobody else's than the last sign-in's.
KnownInv == SignedIn(session) => session = known

\* A request sent by a user was sent by the one who is signed in, and is served as
\* of the last acknowledged change, unless everything was invalidated meanwhile.
AskedInv(q) ==
  /\ fetch[q].at \in {"no", "paused"} => fetch[q].as = Nobody
  /\ fetch[q].at = "ok" => fetch[q].as \in Users
  /\ fetch[q].at \in {"sent", "ok"} /\ ~fetch[q].late /\ fetch[q].as \in Users
       => fetch[q].as = known
  /\ fetch[q].at = "ok" /\ ~fetch[q].late /\ q.of = "users" => fetch[q].v >= acked

\* Only a query the backend answers with rows has rows.
RowsInv(q) == entry[q].data = "rows" => BackendAnswer(CrmRoute(q)) = "rows"

\* A mounted query that has nothing has been asked for.
MountInv(q) ==
  q \in Mounted(page) /\ entry[q].data = "none" /\ entry[q].error = "none"
    => fetch[q].at # "no"

\* FreshIsCurrent, of one query.
FreshInv(q) ==
  entry[q].data # "none" /\ ~entry[q].stale /\ ~entry[q].late
    => entry[q].by = known /\ (q.of = "users" => entry[q].v >= acked)

QueryInv(q) ==
  /\ entry[q] \in Entry /\ fetch[q] \in Request
  /\ AskedInv(q) /\ RowsInv(q) /\ MountInv(q) /\ FreshInv(q)

TabInv ==
  /\ TabTypeOK /\ PlaceInv /\ KnownInv
  /\ \A q \in Queries : QueryInv(q)

-----------------------------------------------------------------------------
(* Helpers.                                                                *)

LEMMA Bounds == MaxVersion \in Nat /\ MaxSignIns \in Nat /\ MaxLoads \in Nat
BY WebAssumption

LEMMA Distinct == Users \cap {NoCookie, Dead, Nobody} = {}
BY WebAssumption DEF NoCookie, Dead, Nobody

\* The login form and the offline page are none of the pages, and read nothing.
LEMMA OtherPlaces ==
  /\ Login \notin Paths /\ Offline \notin Paths /\ Login # Offline /\ "" \notin Paths
  /\ Login # "" /\ Offline # ""
  /\ \A role : PageReads(Login, role) = {} /\ PageReads(Offline, role) = {}
BY WebAssumption DEF Login, Offline, PagePaths, PageReads, InventoryReads

LEMMA MountedQueries == \A p : Mounted(p) \subseteq Queries
BY DEF Mounted

LEMMA NothingMounted == Mounted(Login) = {} /\ Mounted(Offline) = {}
BY OtherPlaces DEF Mounted

LEMMA EmptyType == Empty \in Entry /\ Empty.data = "none" /\ Empty.error = "none"
BY WebAssumption DEF Empty, Entry, DataKinds, ErrorKinds

LEMMA QuietType == Quiet \in Request /\ Quiet.at = "no" /\ Quiet.as = Nobody /\ ~Quiet.late
BY WebAssumption DEF Quiet, Request, Stages

\* What a new request is.
LEMMA AskedType ==
  ASSUME session \in Users \cup {NoCookie, Dead}, NEW net \in Nets
  PROVE  /\ Asked(net) \in Request
         /\ Asked(net).at = net /\ ~Asked(net).late
         /\ Asked(net).as = IF net = "sent" THEN session ELSE Nobody
BY WebAssumption DEF Asked, Request, Stages, Nets

\* An answer is of a kind a page knows, and rows only from a live route.
LEMMA AnsweredType ==
  ASSUME NEW q
  PROVE  /\ Answered(q).data \in DataKinds /\ Answered(q).error \in ErrorKinds
         /\ Answered(q).data = "none" => Answered(q).error # "none"
         /\ Answered(q).data = "rows" => BackendAnswer(CrmRoute(q)) = "rows"
BY DEF Answered, BackendAnswer, DataKinds, ErrorKinds

\* The proxy sends a page to itself or to the login form.
LEMMA GateType ==
  ASSUME NEW p \in Paths \cup {Login}, NEW cookie \in BOOLEAN
  PROVE  Gate(p, cookie) \in {p, Login}
BY DEF Gate

-----------------------------------------------------------------------------
(* One query in a step: it stays, it is asked for, it is forgotten.        *)

LEMMA QueryStays ==
  ASSUME NEW q, QueryInv(q), UNCHANGED <<known, acked>>,
         entry'[q] = entry[q], fetch'[q] = fetch[q],
         (q \in Mounted(page)' /\ entry[q].data = "none" /\ entry[q].error = "none"
            => q \in Mounted(page) \/ fetch[q].at # "no")
  PROVE  QueryInv(q)'
<1>1. (entry[q] \in Entry /\ fetch[q] \in Request)'  BY DEF QueryInv, Entry, Request
<1>2. AskedInv(q)'  BY DEF QueryInv, AskedInv
<1>3. RowsInv(q)'   BY DEF QueryInv, RowsInv
<1>4. MountInv(q)'  BY DEF QueryInv, MountInv
<1>5. FreshInv(q)'  BY DEF QueryInv, FreshInv
<1> QED  BY <1>1, <1>2, <1>3, <1>4, <1>5 DEF QueryInv

LEMMA QueryAsked ==
  ASSUME NEW q, QueryInv(q), KnownInv, session \in Users \cup {NoCookie, Dead},
         UNCHANGED <<known, acked>>,
         NEW net \in Nets, fetch'[q] = Asked(net),
         entry'[q] = entry[q] \/ entry'[q] = Empty
  PROVE  QueryInv(q)'
<1>1. /\ Asked(net) \in Request /\ Asked(net).at \in {"sent", "paused"} /\ ~Asked(net).late
      /\ Asked(net).as = IF Asked(net).at = "sent" THEN session ELSE Nobody
  BY AskedType DEF Nets
<1>2. (entry[q] \in Entry /\ fetch[q] \in Request)'
  BY <1>1, EmptyType DEF QueryInv, Entry, Request
<1>3. AskedInv(q)'  BY <1>1, Distinct DEF AskedInv, KnownInv, SignedIn
<1>4. RowsInv(q)'   BY EmptyType DEF QueryInv, RowsInv
<1>5. MountInv(q)'  BY <1>1 DEF MountInv
<1>6. FreshInv(q)'  BY EmptyType DEF QueryInv, FreshInv
<1> QED  BY <1>2, <1>3, <1>4, <1>5, <1>6 DEF QueryInv

LEMMA QueryForgotten ==
  ASSUME NEW q, UNCHANGED <<known, acked>>,
         fetch'[q] = Quiet, entry'[q] = Empty, q \notin Mounted(page)'
  PROVE  QueryInv(q)'
<1>1. (entry[q] \in Entry /\ fetch[q] \in Request)'  BY EmptyType, QuietType DEF Entry, Request
<1>2. AskedInv(q)'  BY QuietType DEF AskedInv
<1>3. RowsInv(q)'   BY EmptyType DEF RowsInv
<1>4. MountInv(q)'  BY DEF MountInv
<1>5. FreshInv(q)'  BY EmptyType DEF FreshInv
<1> QED  BY <1>1, <1>2, <1>3, <1>4, <1>5 DEF QueryInv

\* What is mounted depends on the page and on who is signed in.
LEMMA MountedSame ==
  ASSUME UNCHANGED known, NEW p
  PROVE  Mounted(p)' = Mounted(p)
BY DEF Mounted, RoleShown

\* Asking for some queries that have or have not been asked for.
LEMMA AskKeeps ==
  ASSUME TabInv, NEW net \in Nets, NEW qs, Ask(qs, net),
         UNCHANGED <<session, known, acked>>,
         \A q \in Queries : q \in Mounted(page)' /\ fetch[q].at = "no"
                            /\ entry[q].data = "none" /\ q \notin qs => q \in Mounted(page)
  PROVE  /\ \A q \in Queries : QueryInv(q)'
         /\ entry' \in [Queries -> Entry] /\ fetch' \in [Queries -> Request]
<1>1. ASSUME NEW q \in Queries  PROVE QueryInv(q)'
  <2>0. QueryInv(q) /\ KnownInv /\ session \in Users \cup {NoCookie, Dead}
    BY DEF TabInv, TabTypeOK
  <2>1. CASE q \in qs
    <3>1. fetch'[q] = Asked(net) /\ (entry'[q] = entry[q] \/ entry'[q] = Empty)
      BY <2>1 DEF Ask
    <3> QED  BY <2>0, <3>1, QueryAsked
  <2>2. CASE q \notin qs
    <3>1. fetch'[q] = fetch[q] /\ entry'[q] = entry[q]  BY <2>2 DEF Ask
    <3> QED  BY <2>0, <2>2, <3>1, QueryStays
  <2> QED  BY <2>1, <2>2
<1>2. entry' \in [Queries -> Entry] /\ fetch' \in [Queries -> Request]
  <2>1. entry' = [q \in Queries |-> entry'[q]] /\ fetch' = [q \in Queries |-> fetch'[q]]
    BY DEF Ask
  <2> QED  BY <1>1, <2>1 DEF QueryInv
<1> QED  BY <1>1, <1>2

LEMMA ShowKeeps ==
  ASSUME TabInv, NEW p, Show(p), UNCHANGED <<session, known, acked>>
  PROVE  /\ \A q \in Queries : QueryInv(q)'
         /\ entry' \in [Queries -> Entry] /\ fetch' \in [Queries -> Request]
<1> DEFINE qs == {q \in Mounted(p) : fetch[q].at = "no" /\ MountFetches(q)}
<1>1. PICK net \in Nets : Ask(qs, net)  BY DEF Show
<1>2. Mounted(page)' = Mounted(p)  BY DEF Show, Mounted, RoleShown
<1>3. \A q \in Queries : q \in Mounted(page)' /\ fetch[q].at = "no" /\ entry[q].data = "none"
        => q \in qs
  BY <1>2 DEF MountFetches
<1> QED  BY <1>1, <1>3, AskKeeps

LEMMA LoadKeeps ==
  ASSUME TabInv, NEW p, NEW from, Load(p, from), UNCHANGED <<session, known, acked>>
  PROVE  /\ \A q \in Queries : QueryInv(q)'
         /\ entry' \in [Queries -> Entry] /\ fetch' \in [Queries -> Request]
<1> DEFINE at == Gate(p, session # NoCookie)
<1>1. PICK net \in Nets :
        fetch' = [q \in Queries |-> IF q \in Mounted(at) THEN Asked(net) ELSE Quiet]
  BY DEF Load
<1>2. page' = at /\ entry' = [q \in Queries |-> Empty]  BY DEF Load
<1>3. Mounted(page)' = Mounted(at)  BY <1>2 DEF Mounted, RoleShown
<1>4. ASSUME NEW q \in Queries  PROVE QueryInv(q)'
  <2>0. QueryInv(q) /\ KnownInv /\ session \in Users \cup {NoCookie, Dead}
    BY DEF TabInv, TabTypeOK
  <2>1. CASE q \in Mounted(at)  BY <1>1, <1>2, <2>0, <2>1, QueryAsked
  <2>2. CASE q \notin Mounted(at)  BY <1>1, <1>2, <1>3, <2>2, QueryForgotten
  <2> QED  BY <2>1, <2>2
<1>5. entry' \in [Queries -> Entry] /\ fetch' \in [Queries -> Request]
  BY <1>1, <1>2, <1>4 DEF QueryInv
<1> QED  BY <1>4, <1>5

-----------------------------------------------------------------------------
(* The initial states and the steps.                                       *)

LEMMA InitInv == Init => TabInv
<1> SUFFICES ASSUME Init PROVE TabInv
  OBVIOUS
<1>1. PICK p \in Paths \cup {Login} :
        /\ page = Gate(p, session # NoCookie)
        /\ next = IF page = Login /\ p # Login THEN p ELSE ""
        /\ fetch = [q \in Queries |-> IF q \in Mounted(page) THEN Asked("sent") ELSE Quiet]
  BY DEF Init
<1>2. session \in Users \cup {NoCookie, Dead} /\ entry = [q \in Queries |-> Empty]
  BY DEF Init
<1>3. KnownInv  BY Distinct DEF Init, KnownInv, SignedIn
<1>4. page \in {p, Login}  BY <1>1, GateType
<1>5. ASSUME NEW q \in Queries  PROVE QueryInv(q)
  <2>1. entry[q] = Empty  BY <1>2
  <2>2. "sent" \in Nets /\ "sent" # "ok"  BY DEF Nets
  <2>3. fetch[q] = IF q \in Mounted(page) THEN Asked("sent") ELSE Quiet  BY <1>1
  <2>4. Asked("sent") \in Request /\ Asked("sent").at = "sent" /\ Asked("sent").as = session
    BY <1>2, <2>2, AskedType
  <2>5. AskedInv(q)  BY <1>3, <2>3, <2>4, QuietType DEF AskedInv, KnownInv, SignedIn
  <2>6. RowsInv(q) /\ FreshInv(q)  BY <2>1, EmptyType DEF RowsInv, FreshInv
  <2>7. MountInv(q)  BY <2>3, <2>4 DEF MountInv
  <2> QED  BY <2>1, <2>3, <2>4, <2>5, <2>6, <2>7, EmptyType, QuietType DEF QueryInv
<1>6. entry \in [Queries -> Entry] /\ fetch \in [Queries -> Request]
  BY <1>1, <1>2, <1>5 DEF QueryInv
<1>7. TabTypeOK
  <2>1. version \in 0..MaxVersion /\ acked \in 0..version
        /\ signIns \in 0..MaxSignIns /\ loads \in 0..MaxLoads
    <3>1. version = 0 /\ acked = 0 /\ signIns = 0 /\ loads = 0  BY DEF Init
    <3> QED  BY <3>1, Bounds
  <2>2. next \in Paths \cup {Login, ""} /\ page \in Paths \cup {Login}  BY <1>1, <1>4
  <2>3. known \in Users \cup {Nobody}  BY <1>2 DEF Init, SignedIn
  <2> QED  BY <1>2, <1>6, <2>1, <2>2, <2>3 DEF Init, TabTypeOK, Forms
<1>8. PlaceInv  BY <1>4, OtherPlaces DEF Init, PlaceInv
<1> QED  BY <1>3, <1>5, <1>7, <1>8 DEF TabInv

\* What a load does to the tab besides its cache.
LEMMA LoadPlaces ==
  ASSUME TabInv, NEW p \in Paths \cup {Login}, NEW from \in Paths \cup {Login, ""},
         Load(p, from)
  PROVE  /\ page' \in Paths \cup {Login} /\ next' \in Paths \cup {Login, ""}
         /\ form' = "idle" /\ threw' = FALSE /\ change' = "no" /\ stray' = "no"
         /\ PlaceInv'
<1>1. page' \in {p, Login}  BY GateType DEF Load
<1>2. next' \in {"", from, p}  BY DEF Load
<1>3. form' = "idle" /\ threw' = FALSE /\ change' = "no" /\ stray' = "no"  BY DEF Load
<1>4. page' # Offline  BY <1>1, OtherPlaces
<1> QED  BY <1>1, <1>2, <1>3, <1>4 DEF PlaceInv

LEMMA VisitStep == ASSUME TabInv, NEW p \in Paths \cup {Login}, Visit(p)  PROVE TabInv'
<1>1. UNCHANGED <<session, version, known, acked, signIns>> /\ loads' = loads + 1 /\ loads < MaxLoads
      /\ Load(p, "")
  BY DEF Visit, server
<1>2. /\ \A q \in Queries : QueryInv(q)'
      /\ entry' \in [Queries -> Entry] /\ fetch' \in [Queries -> Request]
  BY <1>1, LoadKeeps
<1>3. /\ page' \in Paths \cup {Login} /\ next' \in Paths \cup {Login, ""}
      /\ form' = "idle" /\ threw' = FALSE /\ change' = "no" /\ stray' = "no" /\ PlaceInv'
  BY <1>1, LoadPlaces
<1>4. loads \in 0..MaxLoads  BY DEF TabInv, TabTypeOK
<1>5. loads' = loads + 1 /\ loads < MaxLoads  BY DEF Visit
<1>8. loads' \in 0..MaxLoads  BY <1>5, <1>4, Bounds
<1>6. TabTypeOK'  BY <1>1, <1>2, <1>3, <1>8 DEF TabInv, TabTypeOK, Forms
<1>7. KnownInv'  BY <1>1 DEF TabInv, KnownInv, SignedIn
<1> QED  BY <1>2, <1>3, <1>6, <1>7 DEF TabInv

LEMMA VisitOfflineStep ==
  ASSUME TabInv, NEW p \in Paths \cup {Login}, VisitOffline(p)  PROVE TabInv'
<1>1. /\ UNCHANGED <<session, version, known, acked, signIns>>
      /\ loads' = loads + 1 /\ loads < MaxLoads
      /\ page' = Offline /\ next' = p /\ form' = "idle" /\ threw' = FALSE
      /\ change' = "no" /\ stray' = "no"
      /\ entry' = [q \in Queries |-> Empty] /\ fetch' = [q \in Queries |-> Quiet]
  BY DEF VisitOffline, server
<1>2. Mounted(page)' = {}  BY <1>1, NothingMounted DEF Mounted, RoleShown
<1>3. ASSUME NEW q \in Queries PROVE QueryInv(q)'  BY <1>1, <1>2, QueryForgotten
<1>4. TabTypeOK'
  <2>1. loads \in 0..MaxLoads  BY DEF TabInv, TabTypeOK
  <2>2. loads' \in 0..MaxLoads  BY <1>1, <2>1, Bounds
  <2>3. entry' \in [Queries -> Entry] /\ fetch' \in [Queries -> Request]
    BY <1>1, EmptyType, QuietType
  <2> QED  BY <1>1, <2>2, <2>3 DEF TabInv, TabTypeOK, Forms
<1>5. KnownInv'  BY <1>1 DEF TabInv, KnownInv, SignedIn
<1>6. PlaceInv'  BY <1>1, QuietType DEF PlaceInv
<1> QED  BY <1>3, <1>4, <1>5, <1>6 DEF TabInv

\* The loads that are nobody's choice.
LEMMA LoadStep ==
  ASSUME TabInv, NEW p \in Paths \cup {Login}, NEW from \in Paths \cup {Login, ""},
         Load(p, from), UNCHANGED <<session, version, acked, known, signIns, loads>>
  PROVE  TabInv'
<1>1. /\ \A q \in Queries : QueryInv(q)'
      /\ entry' \in [Queries -> Entry] /\ fetch' \in [Queries -> Request]
  BY LoadKeeps
<1>2. /\ page' \in Paths \cup {Login} /\ next' \in Paths \cup {Login, ""}
      /\ form' = "idle" /\ threw' = FALSE /\ change' = "no" /\ stray' = "no" /\ PlaceInv'
  BY LoadPlaces
<1>3. TabTypeOK'  BY <1>1, <1>2 DEF TabInv, TabTypeOK, Forms
<1>4. KnownInv'  BY DEF TabInv, KnownInv, SignedIn
<1> QED  BY <1>1, <1>2, <1>3, <1>4 DEF TabInv

\* The navigations without a load.
LEMMA ShowStep ==
  ASSUME TabInv, NEW p \in Paths \cup {Login}, Show(p), next' \in Paths \cup {Login, ""},
         UNCHANGED <<session, version, change, stray, acked, known, signIns, loads>>
  PROVE  TabInv'
<1>1. /\ \A q \in Queries : QueryInv(q)'
      /\ entry' \in [Queries -> Entry] /\ fetch' \in [Queries -> Request]
  BY ShowKeeps
<1>2. page' = p /\ form' = "idle" /\ threw' = FALSE  BY DEF Show
<1>3. TabTypeOK'  BY <1>1, <1>2 DEF TabInv, TabTypeOK, Forms
<1>4. KnownInv'  BY DEF TabInv, KnownInv, SignedIn
<1>5. PlaceInv'  BY <1>2, OtherPlaces DEF PlaceInv
<1> QED  BY <1>1, <1>3, <1>4, <1>5 DEF TabInv

\* The steps of the queries of a page.
LEMMA CacheStep ==
  ASSUME TabInv, page # Offline, \A q \in Queries : QueryInv(q)',
         entry' \in [Queries -> Entry], fetch' \in [Queries -> Request],
         UNCHANGED <<session, version, page, next, form, threw, change, stray, acked, known,
                     signIns, loads>>
  PROVE  TabInv'
<1>1. TabTypeOK'  BY DEF TabInv, TabTypeOK
<1>2. KnownInv'  BY DEF TabInv, KnownInv, SignedIn
<1>3. PlaceInv'  BY DEF TabInv, PlaceInv
<1> QED  BY <1>1, <1>2, <1>3 DEF TabInv

\* The steps that leave the cache, the page and the user alone.
LEMMA CacheSame ==
  ASSUME TabInv, UNCHANGED <<entry, fetch, page, known, acked>>
  PROVE  \A q \in Queries : QueryInv(q)'
<1> SUFFICES ASSUME NEW q \in Queries  PROVE QueryInv(q)'
  OBVIOUS
<1>1. QueryInv(q)  BY DEF TabInv
<1>2. Mounted(page)' = Mounted(page)  BY DEF Mounted, RoleShown
<1> QED  BY <1>1, <1>2, QueryStays

LEMMA RetryStep == ASSUME TabInv, Retry  PROVE TabInv'
<1>1. page = Offline /\ next \in Paths \cup {Login}  BY DEF Retry, TabInv, PlaceInv
<1>2. Load(next, "") /\ UNCHANGED <<session, version, acked, known, signIns, loads>>
  BY DEF Retry, server, counts
<1>3. "" \in Paths \cup {Login, ""}  OBVIOUS
<1> QED  BY <1>1, <1>2, <1>3, LoadStep

LEMMA ArriveRefusalStep ==
  ASSUME TabInv, NEW q \in Queries, ArriveRefusal(q)  PROVE TabInv'
<1>1. fetch[q].at = "refused"  BY DEF ArriveRefusal
<1>2. page \in Paths \cup {Login, ""}  BY <1>1 DEF TabInv, TabTypeOK, PlaceInv
<1>3. Load(Login, page) /\ UNCHANGED <<session, version, acked, known, signIns, loads>>
  BY DEF ArriveRefusal, server, counts
<1>4. Login \in Paths \cup {Login}  OBVIOUS
<1> QED  BY <1>2, <1>3, <1>4, LoadStep

LEMMA OtherRefusedStep == ASSUME TabInv, OtherRefused  PROVE TabInv'
<1>1. change # "no" \/ stray # "no"  BY DEF OtherRefused
<1>2. page \in Paths \cup {Login, ""}  BY <1>1 DEF TabInv, TabTypeOK, PlaceInv
<1>3. Load(Login, page) /\ UNCHANGED <<session, version, acked, known, signIns, loads>>
  BY DEF OtherRefused, server, counts
<1>4. Login \in Paths \cup {Login}  OBVIOUS
<1> QED  BY <1>2, <1>3, <1>4, LoadStep

LEMMA FollowStep == ASSUME TabInv, NEW p \in Paths, Follow(p)  PROVE TabInv'
<1>1. UNCHANGED <<session, version, change, stray, acked, known, signIns, loads>>
  BY DEF Follow, server, others, counts
<1>2. PICK at \in {p, Gate(p, session # NoCookie)} :
        Show(at) /\ next' = IF at = Login THEN p ELSE ""
  BY DEF Follow
<1>3. at \in Paths \cup {Login}  BY <1>2, GateType
<1>4. next' \in Paths \cup {Login, ""}  BY <1>2
<1> QED  BY <1>1, <1>2, <1>3, <1>4, ShowStep

LEMMA BackStep == ASSUME TabInv, NEW p \in Paths, Back(p)  PROVE TabInv'
<1>1. /\ UNCHANGED <<session, version, change, stray, acked, known, signIns, loads>>
      /\ Show(p) /\ next' = ""
  BY DEF Back, server, others, counts
<1> QED  BY <1>1, ShowStep

LEMMA SignInAgainStep == ASSUME TabInv, SignInAgain  PROVE TabInv'
<1>1. /\ UNCHANGED <<session, version, change, stray, acked, known, signIns, loads>>
      /\ Show(Login) /\ next' = ""
  BY DEF SignInAgain, server, others, counts
<1>2. Login \in Paths \cup {Login}  OBVIOUS
<1> QED  BY <1>1, <1>2, ShowStep

LEMMA LeaveLoginStep == ASSUME TabInv, LeaveLogin  PROVE TabInv'
<1>1. /\ UNCHANGED <<session, version, change, stray, acked, known, signIns, loads>>
      /\ next' = "" /\ form = "accepted"
  BY DEF LeaveLogin, server, others, counts
<1>2. CASE SafeNext(next) = Login
  <2>1. form' = "hung" /\ UNCHANGED <<page, threw, entry, fetch>>
    BY <1>2 DEF LeaveLogin, cache
  <2>2. page = Login  BY <1>1 DEF TabInv, PlaceInv
  <2>3. TabTypeOK'  BY <1>1, <2>1 DEF TabInv, TabTypeOK, Forms
  <2>4. PlaceInv'  BY <2>1, <2>2, OtherPlaces DEF PlaceInv
  <2>5. KnownInv'  BY <1>1 DEF TabInv, KnownInv, SignedIn
  <2>6. \A q \in Queries : QueryInv(q)'  BY <1>1, <2>1, CacheSame
  <2> QED  BY <2>3, <2>4, <2>5, <2>6 DEF TabInv
<1>3. CASE SafeNext(next) # Login
  <2>1. PICK p : p = Gate(SafeNext(next), session # NoCookie)  OBVIOUS
  <2>2. SafeNext(next) \in Paths \cup {Login}
    BY WebAssumption DEF TabInv, TabTypeOK, SafeNext
  <2>3. p \in Paths \cup {Login}  BY <2>1, <2>2, GateType
  <2>4. Show(p)  BY <1>3, <2>1 DEF LeaveLogin
  <2> QED  BY <1>1, <2>3, <2>4, ShowStep
<1> QED  BY <1>2, <1>3

LEMMA RefetchStep == ASSUME TabInv, NEW q \in Queries, Refetch(q)  PROVE TabInv'
<1>1. /\ UNCHANGED <<session, version, page, next, form, threw, change, stray, acked, known,
                     signIns, loads>>
      /\ q \in Mounted(page)
  BY DEF Refetch, server, others, counts
<1>2. PICK net \in Nets : Ask({q}, net)  BY DEF Refetch
<1>3. Mounted(page)' = Mounted(page)  BY <1>1 DEF Mounted, RoleShown
<1>4. /\ \A r \in Queries : QueryInv(r)'
      /\ entry' \in [Queries -> Entry] /\ fetch' \in [Queries -> Request]
  BY <1>1, <1>2, <1>3, AskKeeps
<1>5. page # Offline  BY <1>1, NothingMounted
<1> QED  BY <1>1, <1>4, <1>5, CacheStep

\* The steps of the request of one query.
LEMMA RequestStep ==
  ASSUME TabInv, NEW q \in Queries, fetch[q].at # "no",
         NEW e, NEW f, entry' = [entry EXCEPT ![q] = e], fetch' = [fetch EXCEPT ![q] = f],
         QueryInv(q)',
         UNCHANGED <<session, version, page, next, form, threw, change, stray, acked, known,
                     signIns, loads>>
  PROVE  TabInv'
<1>1. entry \in [Queries -> Entry] /\ fetch \in [Queries -> Request]
  BY DEF TabInv, TabTypeOK
<1>2. page # Offline  BY DEF TabInv, PlaceInv
<1>3. Mounted(page)' = Mounted(page)  BY DEF Mounted, RoleShown
<1>4. ASSUME NEW r \in Queries  PROVE QueryInv(r)'
  <2>1. CASE r = q  BY <2>1
  <2>2. CASE r # q
    <3>1. entry'[r] = entry[r] /\ fetch'[r] = fetch[r] /\ QueryInv(r)
      BY <1>1, <2>2 DEF TabInv
    <3> QED  BY <1>3, <3>1, QueryStays
  <2> QED  BY <2>1, <2>2
<1>5. entry' \in [Queries -> Entry] /\ fetch' \in [Queries -> Request]
  BY <1>1, <1>4 DEF QueryInv
<1> QED  BY <1>2, <1>4, <1>5, CacheStep

LEMMA Unchanged ==
  ASSUME TabInv, NEW q \in Queries
  PROVE  entry = [entry EXCEPT ![q] = entry[q]] /\ QueryInv(q)
         /\ entry[q] \in Entry /\ fetch[q] \in Request
<1>1. entry \in [Queries -> Entry] /\ fetch \in [Queries -> Request]
  BY DEF TabInv, TabTypeOK
<1> QED  BY <1>1 DEF TabInv

LEMMA ResumeStep == ASSUME TabInv, NEW q \in Queries, Resume(q)  PROVE TabInv'
<1>1. /\ UNCHANGED <<session, version, page, next, form, threw, change, stray, acked, known,
                     signIns, loads, entry>>
      /\ fetch[q].at = "paused" /\ fetch' = [fetch EXCEPT ![q] = Asked("sent")]
  BY DEF Resume, server, others, counts
<1>2. /\ QueryInv(q) /\ KnownInv /\ session \in Users \cup {NoCookie, Dead}
      /\ fetch \in [Queries -> Request]
  BY DEF TabInv, TabTypeOK
<1>3. fetch'[q] = Asked("sent") /\ entry'[q] = entry[q] /\ "sent" \in Nets
  BY <1>1, <1>2 DEF Nets
<1>4. QueryInv(q)'  BY <1>1, <1>2, <1>3, QueryAsked
<1> QED  BY <1>1, <1>4, RequestStep, Unchanged

LEMMA ServeStep == ASSUME TabInv, NEW q \in Queries, Serve(q)  PROVE TabInv'
<1>1. /\ UNCHANGED <<session, version, page, next, form, threw, change, stray, acked, known,
                     signIns, loads, entry>>
      /\ fetch[q].at = "sent"
  BY DEF Serve, server, others, counts
<1>2. PICK fate \in Fates(fetch[q].as) :
        fetch' = [fetch EXCEPT ![q] =
          [@ EXCEPT !.at = fate, !.v = IF fate = "ok" /\ q.of = "users" THEN version ELSE 0]]
  BY DEF Serve
<1> DEFINE v == IF fate = "ok" /\ q.of = "users" THEN version ELSE 0
           f == [fetch[q] EXCEPT !.at = fate, !.v = v]
<1>3. fetch[q] \in Request /\ fetch \in [Queries -> Request]
  BY DEF TabInv, TabTypeOK
<1>4. fetch' = [fetch EXCEPT ![q] = f]  BY <1>2
<1>5. fetch'[q] = f /\ entry'[q] = entry[q]  BY <1>1, <1>3, <1>4
<1>6. version \in 0..MaxVersion /\ acked \in 0..version  BY DEF TabInv, TabTypeOK
<1>7. QueryInv(q)'
  <2>1. fate \in {"ok", "failed", "refused"} /\ (fate = "ok" => fetch[q].as \in Users)
    BY <1>2 DEF Fates, SignedIn
  <2>0. f.at = fate /\ f.as = fetch[q].as /\ f.v = v /\ f.late = fetch[q].late
    BY <1>3 DEF Request
  <2>2. f \in Request
    <3>1. v \in 0..MaxVersion  BY <1>6, Bounds
    <3>2. fate \in Stages  BY <2>1 DEF Stages
    <3> QED  BY <1>3, <3>1, <3>2 DEF Request
  <2>3. QueryInv(q)  BY DEF TabInv
  <2>4. (entry[q] \in Entry /\ fetch[q] \in Request)'
    BY <1>5, <2>2, <2>3 DEF QueryInv, Entry, Request
  <2>5. AskedInv(q)'
    <3>1. f.at # "no" /\ f.at # "paused" /\ f.at # "sent"  BY <2>0, <2>1
    <3>2. f.at = "ok" => f.as \in Users  BY <2>0, <2>1
    <3>3. f.at = "ok" /\ ~f.late => f.as = known
      BY <1>1, <2>0, <2>1, <2>3 DEF QueryInv, AskedInv
    <3>4. f.at = "ok" /\ q.of = "users" => f.v >= acked
      <4>1. version >= acked  BY <1>6, Bounds
      <4> QED  BY <2>0, <4>1
    <3> QED  BY <1>1, <1>5, <3>1, <3>2, <3>3, <3>4 DEF AskedInv
  <2>6. RowsInv(q)' /\ FreshInv(q)'
    BY <1>1, <1>5, <2>3 DEF QueryInv, RowsInv, FreshInv
  <2>7. MountInv(q)'
    <3>1. f.at # "no"  BY <2>0, <2>1
    <3> QED  BY <1>5, <3>1 DEF MountInv
  <2> QED  BY <2>4, <2>5, <2>6, <2>7 DEF QueryInv
<1> QED  BY <1>1, <1>4, <1>7, RequestStep, Unchanged

LEMMA ArriveDataStep == ASSUME TabInv, NEW q \in Queries, ArriveData(q)  PROVE TabInv'
<1> DEFINE e == [data |-> Answered(q).data, error |-> Answered(q).error, stale |-> FALSE,
                 by |-> fetch[q].as, v |-> fetch[q].v, late |-> fetch[q].late]
<1>1. /\ UNCHANGED <<session, version, page, next, form, threw, change, stray, acked, known,
                     signIns, loads>>
      /\ fetch[q].at = "ok"
      /\ entry' = [entry EXCEPT ![q] = e] /\ fetch' = [fetch EXCEPT ![q] = Quiet]
  BY DEF ArriveData, server, others, counts
<1>2. /\ QueryInv(q) /\ entry \in [Queries -> Entry] /\ fetch \in [Queries -> Request]
  BY DEF TabInv, TabTypeOK
<1>3. entry'[q] = e /\ fetch'[q] = Quiet  BY <1>1, <1>2
<1>4. fetch[q].as \in Users /\ (~fetch[q].late => fetch[q].as = known)
      /\ (~fetch[q].late /\ q.of = "users" => fetch[q].v >= acked)
  BY <1>1, <1>2 DEF QueryInv, AskedInv
<1>5. QueryInv(q)'
  <2>1. e \in Entry
    <3>1. e.data \in DataKinds /\ e.error \in ErrorKinds  BY AnsweredType
    <3>2. e.by \in Users \cup {Nobody} /\ e.v \in 0..MaxVersion /\ e.late \in BOOLEAN
      BY <1>2, <1>4 DEF Request
    <3> QED  BY <3>1, <3>2 DEF Entry
  <2>2. (entry[q] \in Entry /\ fetch[q] \in Request)'
    BY <1>3, <2>1, QuietType DEF Entry, Request
  <2>3. AskedInv(q)'  BY <1>3, QuietType DEF AskedInv
  <2>4. RowsInv(q)'   BY <1>3, AnsweredType DEF RowsInv
  <2>5. MountInv(q)'  BY <1>3, AnsweredType DEF MountInv
  <2>6. FreshInv(q)'  BY <1>1, <1>3, <1>4 DEF FreshInv
  <2> QED  BY <2>2, <2>3, <2>4, <2>5, <2>6 DEF QueryInv
<1> QED  BY <1>1, <1>5, RequestStep

LEMMA ArriveFailureStep == ASSUME TabInv, NEW q \in Queries, ArriveFailure(q)  PROVE TabInv'
<1> DEFINE e == [entry[q] EXCEPT !.error = "failed", !.stale = TRUE]
<1>1. /\ UNCHANGED <<session, version, page, next, form, threw, change, stray, acked, known,
                     signIns, loads>>
      /\ fetch[q].at = "failed" /\ fetch' = [fetch EXCEPT ![q] = Quiet]
      /\ entry' = [entry EXCEPT ![q] = [@ EXCEPT !.error = "failed", !.stale = TRUE]]
  BY DEF ArriveFailure, server, others, counts
<1>2. /\ QueryInv(q) /\ entry \in [Queries -> Entry] /\ fetch \in [Queries -> Request]
  BY DEF TabInv, TabTypeOK
<1>3. entry' = [entry EXCEPT ![q] = e]  BY <1>1
<1>4. entry'[q] = e /\ fetch'[q] = Quiet  BY <1>1, <1>2, <1>3
<1>5. QueryInv(q)'
  <2>1. e \in Entry /\ e.data = entry[q].data /\ e.error = "failed" /\ e.stale = TRUE
    BY <1>2 DEF Entry, ErrorKinds
  <2>2. (entry[q] \in Entry /\ fetch[q] \in Request)'
    BY <1>4, <2>1, QuietType DEF Entry, Request
  <2>3. AskedInv(q)'  BY <1>4, QuietType DEF AskedInv
  <2>4. RowsInv(q)'   BY <1>2, <1>4, <2>1 DEF QueryInv, RowsInv
  <2>5. MountInv(q)'  BY <1>4, <2>1 DEF MountInv
  <2>6. FreshInv(q)'  BY <1>4, <2>1 DEF FreshInv
  <2> QED  BY <2>2, <2>3, <2>4, <2>5, <2>6 DEF QueryInv
<1> QED  BY <1>1, <1>3, <1>5, RequestStep

-----------------------------------------------------------------------------
(* The steps that leave the cache alone.                                   *)

LEMMA AloneStep ==
  ASSUME TabInv,
         UNCHANGED <<session, page, next, entry, fetch, acked, known, loads>>,
         form' \in Forms, threw' \in BOOLEAN, form' # "idle" => page = Login,
         change' \in {"no", "live", "dead"}, stray' \in {"no", "live", "dead", "refused"},
         page = Offline => change' = "no" /\ stray' = "no",
         version' \in 0..MaxVersion, version' >= version, signIns' \in 0..MaxSignIns
  PROVE  TabInv'
<1>1. \A q \in Queries : QueryInv(q)'  BY CacheSame
<1>2. KnownInv'  BY DEF TabInv, KnownInv, SignedIn
<1>3. PlaceInv'  BY DEF TabInv, PlaceInv
<1>4. acked' \in 0..version'
  <2>1. version \in 0..MaxVersion /\ acked \in 0..version  BY DEF TabInv, TabTypeOK
  <2> QED  BY <2>1, Bounds
<1>5. TabTypeOK'  BY <1>4 DEF TabInv, TabTypeOK
<1> QED  BY <1>1, <1>2, <1>3, <1>5 DEF TabInv

\* The types AloneStep asks for, before the step.
LEMMA AloneTypes ==
  ASSUME TabInv
  PROVE  /\ form \in Forms /\ threw \in BOOLEAN /\ (form # "idle" => page = Login)
         /\ change \in {"no", "live", "dead"} /\ stray \in {"no", "live", "dead", "refused"}
         /\ (page = Offline => change = "no" /\ stray = "no")
         /\ version \in 0..MaxVersion /\ version >= version
         /\ signIns \in 0..MaxSignIns
<1>1. version \in 0..MaxVersion  BY DEF TabInv, TabTypeOK
<1>2. version >= version  BY <1>1, Bounds
<1> QED  BY <1>1, <1>2 DEF TabInv, TabTypeOK, PlaceInv

LEMMA SendChangeStep == ASSUME TabInv, SendChange  PROVE TabInv'
<1>1. /\ UNCHANGED <<session, page, next, entry, fetch, acked, known, loads,
                     form, threw, stray, version, signIns>>
      /\ page = "/users" /\ change' \in {"live", "dead"}
  BY DEF SendChange, server, cache, counts
<1>2. page # Offline  BY <1>1 DEF Offline
<1> QED  BY <1>1, <1>2, AloneTypes, AloneStep

LEMMA ChangeFailedStep == ASSUME TabInv, ChangeFailed  PROVE TabInv'
<1>1. /\ UNCHANGED <<session, page, next, entry, fetch, acked, known, loads,
                     form, threw, stray, version, signIns>>
      /\ change' = "no"
  BY DEF ChangeFailed, server, cache, counts
<1> QED  BY <1>1, AloneTypes, AloneStep

LEMMA StrayEndsStep == ASSUME TabInv, StrayEnds  PROVE TabInv'
<1>1. /\ UNCHANGED <<session, page, next, entry, fetch, acked, known, loads,
                     form, threw, change, version, signIns>>
      /\ stray' = "no"
  BY DEF StrayEnds, server, cache, counts
<1> QED  BY <1>1, AloneTypes, AloneStep

LEMMA OthersChangeStep == ASSUME TabInv, OthersChange  PROVE TabInv'
<1>1. UNCHANGED <<session, page, next, entry, fetch, acked, known, loads,
                  form, threw, change, stray, signIns>>
  BY DEF OthersChange, cache, others, counts
<1>2. version' \in 0..MaxVersion /\ version' >= version
  <2>1. version \in 0..MaxVersion  BY DEF TabInv, TabTypeOK
  <2>2. version < MaxVersion /\ version' = version + 1  BY DEF OthersChange
  <2> QED  BY <2>1, <2>2, Bounds
<1> QED  BY <1>1, <1>2, AloneTypes, AloneStep

LEMMA SubmitStep == ASSUME TabInv, Submit  PROVE TabInv'
<1>1. /\ UNCHANGED <<session, page, next, entry, fetch, acked, known, loads,
                     threw, change, stray, version>>
      /\ page = Login /\ form' = "sending"
  BY DEF Submit, server, cache, others
<1>2. signIns' \in 0..MaxSignIns
  <2>1. signIns \in 0..MaxSignIns  BY DEF TabInv, TabTypeOK
  <2>2. signIns < MaxSignIns /\ signIns' = signIns + 1  BY DEF Submit
  <2> QED  BY <2>1, <2>2, Bounds
<1>3. form' \in Forms  BY <1>1 DEF Forms
<1> QED  BY <1>1, <1>2, <1>3, AloneTypes, AloneStep

LEMMA SignInRefusedStep == ASSUME TabInv, SignInRefused  PROVE TabInv'
<1>1. /\ UNCHANGED <<session, page, next, entry, fetch, acked, known, loads,
                     threw, change, stray, version, signIns>>
      /\ form' = "idle"
  BY DEF SignInRefused, server, cache, others, counts
<1>2. form' \in Forms  BY <1>1 DEF Forms
<1> QED  BY <1>1, <1>2, AloneTypes, AloneStep

LEMMA SignInThrowsStep == ASSUME TabInv, SignInThrows  PROVE TabInv'
<1>1. /\ UNCHANGED <<session, page, next, entry, fetch, acked, known, loads,
                     change, stray, version, signIns>>
      /\ form = "sending" /\ form' = "hung" /\ threw' = TRUE
  BY DEF SignInThrows, server, cache, others, counts
<1>2. form' \in Forms /\ page = Login  BY <1>1 DEF Forms, TabInv, PlaceInv
<1> QED  BY <1>1, <1>2, AloneTypes, AloneStep

-----------------------------------------------------------------------------
(* Invalidation, and the end of a session.                                 *)

\* What Invalidate does to one query.
LEMMA InvalidatedQuery ==
  ASSUME TabInv, NEW qs, Invalidate(qs), NEW q \in Queries
  PROVE  /\ entry'[q] = IF q \in qs THEN [entry[q] EXCEPT !.stale = TRUE] ELSE entry[q]
         /\ \/ q \in qs /\ Replaces(q) /\ \E net \in Nets : fetch'[q] = Asked(net)
            \/ q \in qs /\ ~Replaces(q) /\ Sent(q)
               /\ fetch'[q] = [fetch[q] EXCEPT !.late = TRUE]
            \/ (q \in qs => ~Replaces(q) /\ ~Sent(q)) /\ fetch'[q] = fetch[q]
BY DEF Invalidate

LEMMA InvalidateTypes ==
  ASSUME TabInv, NEW qs, Invalidate(qs)
  PROVE  /\ entry' \in [Queries -> Entry] /\ fetch' \in [Queries -> Request]
         /\ stray' \in {"no", "live", "dead", "refused"}
<1>1. entry \in [Queries -> Entry] /\ fetch \in [Queries -> Request]
      /\ session \in Users \cup {NoCookie, Dead}
      /\ stray \in {"no", "live", "dead", "refused"}
  BY DEF TabInv, TabTypeOK
<1>2. ASSUME NEW q \in Queries  PROVE entry'[q] \in Entry /\ fetch'[q] \in Request
  <2>1. [entry[q] EXCEPT !.stale = TRUE] \in Entry  BY <1>1 DEF Entry
  <2>2. [fetch[q] EXCEPT !.late = TRUE] \in Request  BY <1>1 DEF Request
  <2>3. \A net \in Nets : Asked(net) \in Request  BY <1>1, AskedType
  <2> QED  BY <1>1, <2>1, <2>2, <2>3, InvalidatedQuery
<1>3. entry' = [q \in Queries |-> entry'[q]] /\ fetch' = [q \in Queries |-> fetch'[q]]
  BY DEF Invalidate
<1>4. stray' \in {"no", "live", "dead", "refused"}
  BY <1>1 DEF Invalidate, Straying
<1> QED  BY <1>2, <1>3, <1>4

\* The invariant of a query that Invalidate touches, but for its fresh data.
LEMMA InvalidateRest ==
  ASSUME TabInv, NEW qs, Invalidate(qs), NEW q \in Queries, Mounted(page)' = Mounted(page)
  PROVE  (RowsInv(q) /\ MountInv(q))' /\ (q \in qs => FreshInv(q)')
<1>1. QueryInv(q) /\ entry[q] \in Entry /\ fetch[q] \in Request
      /\ session \in Users \cup {NoCookie, Dead}
  BY DEF TabInv, TabTypeOK
<1>2. /\ entry'[q].data = entry[q].data /\ entry'[q].error = entry[q].error
      /\ q \in qs => entry'[q].stale = TRUE
  <2> DEFINE e == [entry[q] EXCEPT !.stale = TRUE]
  <2>1. e.data = entry[q].data /\ e.error = entry[q].error /\ e.stale = TRUE
    BY <1>1 DEF Entry
  <2>2. entry'[q] = IF q \in qs THEN e ELSE entry[q]  BY InvalidatedQuery
  <2> QED  BY <2>1, <2>2
<1>3. fetch[q].at # "no" => fetch'[q].at # "no"
  <2>1. \A net \in Nets : Asked(net).at # "no"  BY <1>1, AskedType DEF Nets
  <2>2. [fetch[q] EXCEPT !.late = TRUE].at = fetch[q].at  BY <1>1 DEF Request
  <2> QED  BY <2>1, <2>2, InvalidatedQuery
<1>4. RowsInv(q)'  BY <1>1, <1>2 DEF QueryInv, RowsInv
<1>5. MountInv(q)'  BY <1>1, <1>2, <1>3 DEF QueryInv, MountInv
<1>6. q \in qs => FreshInv(q)'  BY <1>2 DEF FreshInv
<1> QED  BY <1>4, <1>5, <1>6

LEMMA ChangeDoneStep == ASSUME TabInv, ChangeDone  PROVE TabInv'
<1> DEFINE qs == Invalidated("users", Queries)
<1>1. /\ UNCHANGED <<session, page, next, form, threw, known, signIns, loads>>
      /\ change = "live" /\ version < MaxVersion /\ version' = version + 1
      /\ acked' = version + 1 /\ change' = "no" /\ Invalidate(qs)
  BY DEF ChangeDone, counts
<1>2. /\ entry' \in [Queries -> Entry] /\ fetch' \in [Queries -> Request]
      /\ stray' \in {"no", "live", "dead", "refused"}
  BY <1>1, InvalidateTypes
<1>3. Mounted(page)' = Mounted(page)  BY <1>1 DEF Mounted, RoleShown
<1>4. ASSUME NEW q \in Queries  PROVE QueryInv(q)'
  <2>0. /\ QueryInv(q) /\ KnownInv /\ fetch[q] \in Request
        /\ session \in Users \cup {NoCookie, Dead}
    BY DEF TabInv, TabTypeOK
  <2>1. (RowsInv(q) /\ MountInv(q))' /\ (q \in qs => FreshInv(q)')
    BY <1>1, <1>3, InvalidateRest
  <2>2. AskedInv(q)'
    <3>1. ASSUME NEW net \in Nets, fetch'[q] = Asked(net)  PROVE AskedInv(q)'
      <4>1. /\ Asked(net).at \in {"sent", "paused"} /\ ~Asked(net).late
            /\ Asked(net).as = IF Asked(net).at = "sent" THEN session ELSE Nobody
        BY <2>0, AskedType DEF Nets
      <4> QED  BY <1>1, <2>0, <3>1, <4>1, Distinct DEF AskedInv, KnownInv, SignedIn
    <3>2. CASE Sent(q) /\ fetch'[q] = [fetch[q] EXCEPT !.late = TRUE]
      <4>1. fetch'[q].late = TRUE /\ fetch'[q].at = fetch[q].at /\ fetch'[q].as = fetch[q].as
        BY <2>0, <3>2 DEF Request
      <4> QED  BY <2>0, <4>1 DEF QueryInv, AskedInv
    <3>3. CASE (q \in qs => ~Sent(q)) /\ fetch'[q] = fetch[q]
      <4>1. q.of = "users" => fetch[q].at \in {"no", "paused"}
        BY <3>3 DEF Sent, Invalidated
      <4> QED  BY <1>1, <2>0, <3>3, <4>1 DEF QueryInv, AskedInv
    <3> QED  BY <1>1, <3>1, <3>2, <3>3, InvalidatedQuery
  <2>3. FreshInv(q)'
    <3>1. CASE q \in qs  BY <2>1, <3>1
    <3>2. CASE q \notin qs
      <4>1. q.of # "users"  BY <3>2 DEF Invalidated
      <4>2. entry'[q] = entry[q]  BY <1>1, <3>2, InvalidatedQuery
      <4> QED  BY <1>1, <2>0, <4>1, <4>2 DEF QueryInv, FreshInv
    <3> QED  BY <3>1, <3>2
  <2>4. (entry[q] \in Entry /\ fetch[q] \in Request)'  BY <1>2 DEF Entry, Request
  <2> QED  BY <2>1, <2>2, <2>3, <2>4 DEF QueryInv
<1>5. page # Offline  BY <1>1 DEF TabInv, PlaceInv
<1>6. KnownInv' /\ PlaceInv'  BY <1>1, <1>5 DEF TabInv, KnownInv, SignedIn, PlaceInv
<1>7. version' \in 0..MaxVersion /\ acked' \in 0..version'
  <2>1. version \in 0..MaxVersion  BY DEF TabInv, TabTypeOK
  <2>2. version < MaxVersion /\ version' = version + 1 /\ acked' = version + 1  BY <1>1
  <2> QED  BY <2>1, <2>2, Bounds
<1>8. TabTypeOK'  BY <1>1, <1>2, <1>7 DEF TabInv, TabTypeOK
<1> QED  BY <1>4, <1>6, <1>8 DEF TabInv

LEMMA SignInAcceptedStep == ASSUME TabInv, NEW u \in Users, SignInAccepted(u)  PROVE TabInv'
<1>1. /\ UNCHANGED <<version, page, next, threw, change, acked, signIns, loads>>
      /\ form = "sending" /\ session' = u /\ known' = u
      /\ Invalidate(Queries) /\ form' = "accepted"
  BY DEF SignInAccepted, counts
<1>2. page = Login /\ page' = Login  BY <1>1 DEF TabInv, PlaceInv
<1>3. Mounted(page) = {}  BY <1>2, NothingMounted
<1>4. Mounted(page)' = {}  BY <1>2, OtherPlaces DEF Mounted
<1>5. /\ entry' \in [Queries -> Entry] /\ fetch' \in [Queries -> Request]
      /\ stray' \in {"no", "live", "dead", "refused"}
  BY <1>1, InvalidateTypes
<1>6. ASSUME NEW q \in Queries  PROVE QueryInv(q)'
  <2>0. QueryInv(q) /\ fetch[q] \in Request  BY DEF TabInv, TabTypeOK
  <2>1. (RowsInv(q) /\ MountInv(q) /\ FreshInv(q))'
    BY <1>1, <1>3, <1>4, InvalidateRest
  <2>2. AskedInv(q)'
    <3>1. ~Replaces(q)  BY <1>3 DEF Replaces
    <3>2. CASE Sent(q) /\ fetch'[q] = [fetch[q] EXCEPT !.late = TRUE]
      <4>1. fetch'[q].late = TRUE /\ fetch'[q].at = fetch[q].at /\ fetch'[q].as = fetch[q].as
        BY <2>0, <3>2 DEF Request
      <4> QED  BY <2>0, <4>1 DEF QueryInv, AskedInv
    <3>3. CASE ~Sent(q) /\ fetch'[q] = fetch[q]
      BY <2>0, <3>3 DEF QueryInv, AskedInv, Sent
    <3> QED  BY <1>1, <3>1, <3>2, <3>3, InvalidatedQuery
  <2>3. (entry[q] \in Entry /\ fetch[q] \in Request)'  BY <1>5 DEF Entry, Request
  <2> QED  BY <2>1, <2>2, <2>3 DEF QueryInv
<1>7. KnownInv' /\ PlaceInv'  BY <1>1, <1>2, OtherPlaces DEF KnownInv, PlaceInv
<1>8. TabTypeOK'  BY <1>1, <1>5 DEF TabInv, TabTypeOK, Forms
<1> QED  BY <1>6, <1>7, <1>8 DEF TabInv

\* A session that ends leaves every query's invariant as it is.
LEMMA UnservedKeeps ==
  ASSUME TabInv, fetch' = Unserved, UNCHANGED <<entry, known, acked>>,
         Mounted(page)' \subseteq Mounted(page)
  PROVE  /\ \A q \in Queries : QueryInv(q)'
         /\ fetch' \in [Queries -> Request]
         /\ \A q \in Queries : fetch'[q].at = fetch[q].at
<1>1. ASSUME NEW q \in Queries
      PROVE  QueryInv(q)' /\ fetch'[q] \in Request /\ fetch'[q].at = fetch[q].at
  <2>0. QueryInv(q) /\ fetch[q] \in Request  BY DEF TabInv, TabTypeOK
  <2>1. CASE fetch[q].at = "sent"
    <3> DEFINE f == [fetch[q] EXCEPT !.as = Dead]
    <3>1. f \in Request /\ f.at = "sent" /\ f.as = Dead  BY <2>0, <2>1 DEF Request
    <3>2. fetch'[q] = f  BY <2>1 DEF Unserved
    <3>3. AskedInv(q)'  BY <3>1, <3>2, Distinct DEF AskedInv
    <3>4. (RowsInv(q) /\ MountInv(q) /\ FreshInv(q))'
      BY <2>0, <3>1, <3>2 DEF QueryInv, RowsInv, MountInv, FreshInv
    <3>5. (entry[q] \in Entry /\ fetch[q] \in Request)'
      BY <2>0, <3>1, <3>2 DEF QueryInv, Entry, Request
    <3> QED  BY <2>1, <3>1, <3>2, <3>3, <3>4, <3>5 DEF QueryInv
  <2>2. CASE fetch[q].at # "sent"
    <3>1. fetch'[q] = fetch[q]  BY <2>2 DEF Unserved
    <3> QED  BY <2>0, <3>1, QueryStays
  <2> QED  BY <2>1, <2>2
<1>2. fetch' = [q \in Queries |-> fetch'[q]]  BY DEF Unserved
<1> QED  BY <1>1, <1>2

LEMMA ExpireStep == ASSUME TabInv, Expire  PROVE TabInv'
<1>1. /\ UNCHANGED <<version, page, next, form, threw, entry, acked, known, signIns, loads>>
      /\ fetch' = Unserved
      /\ \E s \in {NoCookie, Dead} : SessionEnds(s)
  BY DEF Expire, SessionEnds, counts
<1>2. /\ session' \in {NoCookie, Dead}
      /\ change' \in IF change = "live" THEN {"live", "dead"} ELSE {change}
      /\ stray' \in IF stray = "live" THEN {"live", "dead"} ELSE {stray}
  BY <1>1 DEF SessionEnds
<1>3. Mounted(page)' = Mounted(page)  BY <1>1 DEF Mounted, RoleShown
<1>4. /\ \A q \in Queries : QueryInv(q)'
      /\ fetch' \in [Queries -> Request]
      /\ \A q \in Queries : fetch'[q].at = fetch[q].at
  BY <1>1, <1>3, UnservedKeeps
<1>5. KnownInv'  BY <1>2, Distinct DEF KnownInv, SignedIn
<1>6. PlaceInv'  BY <1>1, <1>2, <1>4 DEF TabInv, PlaceInv
<1>7. TabTypeOK'  BY <1>1, <1>2, <1>4 DEF TabInv, TabTypeOK
<1> QED  BY <1>4, <1>5, <1>6, <1>7 DEF TabInv

LEMMA SignOutStep == ASSUME TabInv, SignOut  PROVE TabInv'
<1>1. /\ UNCHANGED <<version, entry, acked, known, signIns, loads>>
      /\ page' = Login /\ next' = "" /\ form' = "idle" /\ threw' = FALSE
  BY DEF SignOut, SessionEnds, server, counts
<1>2. Mounted(page)' = {}  BY <1>1, OtherPlaces DEF Mounted
<1>3. PlaceInv'  BY <1>1, OtherPlaces DEF PlaceInv
<1>4. CASE SessionEnds(NoCookie) /\ fetch' = Unserved
  <2>1. /\ session' = NoCookie
        /\ change' \in IF change = "live" THEN {"live", "dead"} ELSE {change}
        /\ stray' \in IF stray = "live" THEN {"live", "dead"} ELSE {stray}
    BY <1>4 DEF SessionEnds
  <2>2. (\A q \in Queries : QueryInv(q)') /\ fetch' \in [Queries -> Request]
    BY <1>1, <1>2, <1>4, UnservedKeeps
  <2>3. KnownInv'  BY <2>1, Distinct DEF KnownInv, SignedIn
  <2>4. TabTypeOK'  BY <1>1, <2>1, <2>2 DEF TabInv, TabTypeOK, Forms
  <2> QED  BY <1>3, <2>2, <2>3, <2>4 DEF TabInv
<1>5. CASE UNCHANGED <<server, others, fetch>>
  <2>1. UNCHANGED <<session, change, stray, fetch>>  BY <1>5 DEF server, others
  <2>2. ASSUME NEW q \in Queries  PROVE QueryInv(q)'
    <3>1. QueryInv(q)  BY DEF TabInv
    <3> QED  BY <1>1, <1>2, <2>1, <3>1, QueryStays
  <2>3. KnownInv'  BY <1>1, <2>1 DEF TabInv, KnownInv, SignedIn
  <2>4. TabTypeOK'  BY <1>1, <2>1 DEF TabInv, TabTypeOK, Forms
  <2> QED  BY <1>3, <2>2, <2>3, <2>4 DEF TabInv
<1> QED  BY <1>4, <1>5 DEF SignOut

-----------------------------------------------------------------------------
(* The theorems.                                                           *)

LEMMA NextInv == TabInv /\ [Next]_vars => TabInv'
<1> SUFFICES ASSUME TabInv, [Next]_vars  PROVE TabInv'
  OBVIOUS
<1>1. CASE \E p \in Paths \cup {Login} : Visit(p) \/ VisitOffline(p)
  BY <1>1, VisitStep, VisitOfflineStep
<1>2. CASE Retry \/ SignInAgain \/ LeaveLogin
  BY <1>2, RetryStep, SignInAgainStep, LeaveLoginStep
<1>3. CASE \E p \in Paths : Follow(p) \/ Back(p)
  BY <1>3, FollowStep, BackStep
<1>4. CASE \E q \in Queries : \/ Refetch(q) \/ Resume(q) \/ Serve(q)
                              \/ ArriveData(q) \/ ArriveFailure(q) \/ ArriveRefusal(q)
  BY <1>4, RefetchStep, ResumeStep, ServeStep, ArriveDataStep, ArriveFailureStep,
     ArriveRefusalStep
<1>5. CASE SendChange \/ ChangeDone \/ ChangeFailed \/ OtherRefused \/ StrayEnds \/ OthersChange
  BY <1>5, SendChangeStep, ChangeDoneStep, ChangeFailedStep, OtherRefusedStep,
     StrayEndsStep, OthersChangeStep
<1>6. CASE Expire \/ SignOut
  BY <1>6, ExpireStep, SignOutStep
<1>7. CASE Submit \/ SignInRefused \/ SignInThrows
  BY <1>7, SubmitStep, SignInRefusedStep, SignInThrowsStep
<1>8. CASE \E u \in Users : SignInAccepted(u)
  BY <1>8, SignInAcceptedStep
<1>9. CASE UNCHANGED vars
  <2>1. UNCHANGED <<session, version, page, next, form, threw, entry, fetch, change, stray,
                    acked, known, signIns, loads>>
    BY <1>9 DEF vars, server, cache, others, counts
  <2>2. \A q \in Queries : QueryInv(q)'  BY <2>1, CacheSame
  <2>3. KnownInv'  BY <2>1 DEF TabInv, KnownInv, SignedIn
  <2>4. PlaceInv'  BY <2>1 DEF TabInv, PlaceInv
  <2>5. TabTypeOK'  BY <2>1 DEF TabInv, TabTypeOK
  <2> QED  BY <2>2, <2>3, <2>4, <2>5 DEF TabInv
<1> QED  BY <1>1, <1>2, <1>3, <1>4, <1>5, <1>6, <1>7, <1>8, <1>9 DEF Next

LEMMA TabInvariant == Spec => []TabInv
BY InitInv, NextInv, PTL DEF Spec

\* The variables of the tab keep their types: no step invents a page, an answer or a
\* version.
THEOREM TabTypes == Spec => []TabTypeOK
<1>1. TabInv => TabTypeOK  BY DEF TabInv
<1> QED  BY TabInvariant, <1>1, PTL

\* Whoever signs in after whom, whatever is changed meanwhile and in whatever order
\* the answers arrive: what the cache holds as fresh is the signed-in user's, and no
\* older than the last change the backend acknowledged to this tab.
THEOREM FreshDataIsCurrent == Spec => []FreshIsCurrent
<1>1. TabInv => FreshIsCurrent  BY DEF TabInv, QueryInv, FreshInv, FreshIsCurrent
<1> QED  BY TabInvariant, <1>1, PTL

\* A query with nothing under way, nothing answered and no error is on no page.
LEMMA SaidOfAnswers == TabInv => NothingSaidUnasked
<1> SUFFICES ASSUME TabInv, NEW q \in Mounted(page), entry[q].data # "other",
                    entry[q].error = "none", fetch[q].at # "paused"
             PROVE  Shows(page, RoleShown, q, StateOf(q)) \notin {"pending", "failed"}
  BY DEF NothingSaidUnasked
<1> DEFINE s == StateOf(q)
<1>1. /\ q \in Queries /\ q \in PageReads(page, RoleShown)
      /\ QueryInv(q) /\ page \in Paths \cup {Login, Offline}
  BY DEF Mounted, TabInv, TabTypeOK
<1>2. page \in PagePaths
  BY <1>1, OtherPlaces, WebAssumption
<1>3. s.data = entry[q].data /\ s.data \in {"none", "rows"} /\ s.error = "none"
  BY <1>1 DEF QueryInv, Entry, DataKinds, StateOf
<1>4. s.data = "none" => IsLoading(s)
  <2>1. s.data = "none" => fetch[q].at # "no"
    BY <1>1, <1>3 DEF QueryInv, MountInv
  <2> QED  BY <2>1 DEF IsLoading, StateOf
<1>5. CASE page = "/users"
  <2>1. UsersPage(RoleShown, s) \in {"unauthorized", "loading", "rows"}
    BY <1>3, <1>4 DEF UsersPage
  <2> QED  BY <1>5, <2>1 DEF Shows
<1>6. CASE page # "/users"
  <2>1. s.data # "rows"
    BY <1>1, <1>2, <1>3, <1>6, OnlyUsersLive DEF QueryInv, RowsInv
  <2>2. IsLoading(s)  BY <1>3, <1>4, <2>1
  <2>3. LeadInbox(s) = "loading" /\ Section(s) = "loading" /\ LeadDetail(s) = "loading"
    BY <1>3, <2>1, <2>2 DEF LeadInbox, Section, LeadDetail, ModulePending
  <2>4. AuditPage(RoleShown, s) \in {"loading", "unauthorized"}
        /\ LeadPage(q, s) \in {"loading", "hidden"}
    BY <2>3 DEF AuditPage, LeadPage
  <2> QED  BY <1>6, <2>3, <2>4 DEF Shows
<1> QED  BY <1>5, <1>6

\* No page tells its user that a module is not built, or that it failed to load,
\* before the query it shows has been asked and answered or waits for the network.
THEOREM PagesSayWhatTheyKnow == Spec => []NothingSaidUnasked
BY TabInvariant, SaidOfAnswers, PTL

=============================================================================
