------------------------------- MODULE WebTab -------------------------------
(***************************************************************************)
(* One browser tab of apps/web: its session cookie, the proxy that gates   *)
(* navigations, the login form, the query cache, and the requests the tab  *)
(* sends through the BFF.  A request is served at one moment and its       *)
(* answer arrives at a later one; the session may end, another user sign   *)
(* in, the page change and the data move on in between.                    *)
(*                                                                         *)
(* TanStack Query and better-auth are libraries: what they do is modelled  *)
(* as the code uses them.  No other tab shares the cookie.                 *)
(***************************************************************************)
EXTENDS Pages

CONSTANTS
  Users,
  RoleOf,        \* RoleOf[u]: the role in u's row
  Paths,         \* bound: the pages the tab visits
  Queries,       \* bound: the queries whose cache entries are followed
  MaxVersion,    \* bound: changes made to the users table
  MaxSignIns,    \* bound: times somebody submits the login form
  MaxLoads       \* bound: full page loads the user asks for

ASSUME WebAssumption ==
  /\ RoleOf \in [Users -> Roles]
  /\ Users \cap {"noCookie", "dead", "nobody"} = {}
  /\ "/" \in Paths /\ Paths \subseteq PagePaths
  /\ MaxVersion \in Nat /\ MaxSignIns \in Nat /\ MaxLoads \in Nat

VARIABLES
  session,   \* what the cookie stands for: nothing sent, no live row, or a user
  page,      \* the path the tab is at
  next,      \* the login form's ?next=
  form,      \* the login form
  threw,     \* whether a sign-in call of this form threw
  entry,     \* the query cache
  fetch,     \* the request under way for each query
  change,    \* a create or role-change request under way
  stray,     \* a request under way whose query was fetched anew meanwhile
  version,   \* the users table on the server, as a count of its changes
  acked,     \* the version a successful change was last acknowledged with
  known,     \* the user who last signed in here
  signIns, loads

cache == <<entry, fetch>>
server == <<session, version>>
counts == <<signIns, loads>>
others == <<change, stray>>
vars == <<server, page, next, form, threw, cache, others, acked, known, counts>>

-----------------------------------------------------------------------------
Login == "/login"
NoCookie == "noCookie"    \* the browser has none
Dead == "dead"            \* the row of the cookie is expired or deleted
Nobody == "nobody"
Offline == "/offline"

SignedIn(s) == s \in Users

RoleShown == IF known \in Users THEN RoleOf[known] ELSE NoRole

\* "sending": waiting for the answer; "accepted": signed in, about to leave;
\* "hung": pending is still true and nothing is under way.
Forms == {"idle", "sending", "accepted", "hung"}

Empty == [data |-> "none", by |-> Nobody, v |-> 0, late |-> FALSE, stale |-> FALSE,
          error |-> "none"]

Quiet == [at |-> "no", as |-> Nobody, v |-> 0, late |-> FALSE]

\* A request waits for the network, is sent, then served: with data ("ok"),
\* with a 401 ("refused") or not at all ("failed": a 5xx, a lost answer).
Stages == {"no", "paused", "sent", "ok", "refused", "failed"}

Nets == {"sent", "paused"}

Entry == [data : DataKinds, by : Users \cup {Nobody}, v : 0..MaxVersion, late : BOOLEAN,
          stale : BOOLEAN, error : ErrorKinds]

Request == [at : Stages, as : Users \cup {Nobody, NoCookie, Dead}, v : 0..MaxVersion,
            late : BOOLEAN]

\* The queries of the page at path p that are followed.
Mounted(p) == PageReads(p, RoleShown) \cap Queries

\* How a page reads its query.
StateOf(q) == [data     |-> entry[q].data,
               error    |-> entry[q].error,
               fetching |-> fetch[q].at \notin {"no", "paused"}]

-----------------------------------------------------------------------------
\* Faulty: a matcher that lets the proxy see /login, as its header has it.
GateAll(p, cookie) == IF p = Login THEN (IF cookie THEN "/" ELSE Login)
                                   ELSE (IF cookie THEN p ELSE Login)

\* proxy() behind its matcher, which leaves out /login and the offline page:
\* where a navigation to p ends.  A cookie is enough, whatever it stands for.
Gate(p, cookie) == IF cookie \/ p = Login THEN p ELSE Login

\* Faulty: the path is taken as it comes.
SafeNextRaw(p) == p

\* isSafeNextPath: without ?next= it is the home page.
SafeNext(p) == IF p = "" THEN "/" ELSE p

\* The fates of a request that was sent as s: the BFF finds no live session, or
\* mints a token the guard takes, and the backend answers; or it fails.
Fates(s) == IF SignedIn(s) THEN {"ok", "failed"} ELSE {"refused", "failed"}

\* The request of a query starts, now or when the network is back.
Asked(net) ==
  [at |-> net, as |-> IF net = "sent" THEN session ELSE Nobody, v |-> 0, late |-> FALSE]

\* Faulty: mounting fetches only what was invalidated.
MountFetchesStale(q) == entry[q].stale

\* A mounted query fetches what it has no data for and what is invalidated.
MountFetches(q) == entry[q].data = "none" \/ entry[q].stale

\* Requests start for the queries in qs; one that has no data forgets its error.
Ask(qs, net) ==
  /\ fetch' = [q \in Queries |-> IF q \in qs THEN Asked(net) ELSE fetch[q]]
  /\ entry' = [q \in Queries |->
                 IF q \in qs /\ entry[q].data = "none" THEN Empty ELSE entry[q]]

\* The tab shows path p without a load; a query whose request is under way joins it.
Show(p) ==
  /\ page' = p
  /\ \E net \in Nets : Ask({q \in Mounted(p) : fetch[q].at = "no" /\ MountFetches(q)}, net)
  /\ form' = "idle"
  /\ threw' = FALSE

\* A full load of path p: the proxy decides where it ends, everything in memory
\* is gone, and the page mounts.  from: the ?next= of a load of the login page.
Load(p, from) ==
  LET at == Gate(p, session # NoCookie)
  IN  /\ page' = at
      /\ next' = IF at # Login THEN "" ELSE IF p = Login THEN from ELSE p
      /\ entry' = [q \in Queries |-> Empty]
      /\ \E net \in Nets :
           fetch' = [q \in Queries |-> IF q \in Mounted(at) THEN Asked(net) ELSE Quiet]
      /\ form' = "idle"
      /\ threw' = FALSE
      /\ change' = "no" /\ stray' = "no"

Sent(q) == fetch[q].at \notin {"no", "paused"}

\* Invalidating q fetches it anew if it is mounted, in place of a request under
\* way if it has data.
Replaces(q) == q \in Mounted(page) /\ (fetch[q].at = "no" \/ entry[q].data # "none")

\* What becomes of a request that is replaced.
Straying(f) == IF f.at = "refused" THEN "refused" ELSE IF SignedIn(f.as) THEN "live" ELSE "dead"

\* queryClient.invalidateQueries: marks the entries and fetches the mounted ones.
\* Any other request that was sent before goes on, and its answer will count as
\* fresh.  A request that is replaced goes on too, but nobody waits for its data.
Invalidate(qs) ==
  /\ entry' = [q \in Queries |-> IF q \in qs THEN [entry[q] EXCEPT !.stale = TRUE] ELSE entry[q]]
  /\ \E net \in Nets :
       fetch' = [q \in Queries |->
         IF q \in qs /\ Replaces(q) THEN Asked(net)
         ELSE IF q \in qs /\ Sent(q) THEN [fetch[q] EXCEPT !.late = TRUE]
         ELSE fetch[q]]
  /\ LET replaced == {q \in qs : Replaces(q) /\ Sent(q)}
     IN  IF replaced = {} THEN UNCHANGED stray
         ELSE \E q \in replaced : stray' = IF stray = "refused" THEN stray ELSE Straying(fetch[q])

-----------------------------------------------------------------------------
\* A tab is opened at path p, in a browser whose cookie may stand for anything.
Init ==
  /\ session \in Users \cup {NoCookie, Dead}
  /\ known = IF SignedIn(session) THEN session ELSE Nobody
  /\ \E p \in Paths \cup {Login} :
       /\ page = Gate(p, session # NoCookie)
       /\ next = IF page = Login /\ p # Login THEN p ELSE ""
       /\ fetch = [q \in Queries |-> IF q \in Mounted(page) THEN Asked("sent") ELSE Quiet]
  /\ entry = [q \in Queries |-> Empty]
  /\ form = "idle" /\ threw = FALSE /\ change = "no" /\ stray = "no"
  /\ version = 0 /\ acked = 0
  /\ signIns = 0 /\ loads = 0

\* The user enters an address or reloads.
Visit(p) ==
  /\ loads < MaxLoads
  /\ loads' = loads + 1
  /\ Load(p, "")
  /\ UNCHANGED <<server, acked, known, signIns>>

\* The same without a network: the service worker answers with the offline page,
\* under the address asked for ...
VisitOffline(p) ==
  /\ loads < MaxLoads
  /\ loads' = loads + 1
  /\ page' = Offline /\ next' = p
  /\ entry' = [q \in Queries |-> Empty]
  /\ fetch' = [q \in Queries |-> Quiet]
  /\ form' = "idle" /\ threw' = FALSE /\ change' = "no" /\ stray' = "no"
  /\ UNCHANGED <<server, acked, known, signIns>>

\* ... and its Retry button loads that address.
Retry ==
  /\ page = Offline
  /\ Load(next, "")
  /\ UNCHANGED <<server, acked, known, counts>>

\* A link of the navigation, through the proxy or from the router's own cache.
Follow(p) ==
  /\ page \notin {Login, Offline}
  /\ \E at \in {p, Gate(p, session # NoCookie)} :
       /\ Show(at)
       /\ next' = IF at = Login THEN p ELSE ""
  /\ UNCHANGED <<server, others, acked, known, counts>>

\* The Back button at the login form.
Back(p) ==
  /\ page = Login
  /\ form \in {"idle", "hung"}
  /\ Show(p)
  /\ next' = ""
  /\ UNCHANGED <<server, others, acked, known, counts>>

\* "Session expired. Sign in again", on the home page.
SignInAgain ==
  /\ page = "/" /\ ~SignedIn(session)
  /\ Show(Login)
  /\ next' = ""
  /\ UNCHANGED <<server, others, acked, known, counts>>

-----------------------------------------------------------------------------
\* A query of the page is fetched again: it has aged, the window gets the focus,
\* the network is back, or its interval is over.
Refetch(q) ==
  /\ q \in Mounted(page)
  /\ fetch[q].at = "no"
  /\ \E net \in Nets : Ask({q}, net)
  /\ UNCHANGED <<server, page, next, form, threw, others, acked, known, counts>>

Resume(q) ==
  /\ fetch[q].at = "paused"
  /\ fetch' = [fetch EXCEPT ![q] = Asked("sent")]
  /\ UNCHANGED <<server, page, next, form, threw, entry, others, acked, known, counts>>

\* The BFF and the backend serve the request of query q.
Serve(q) ==
  /\ fetch[q].at = "sent"
  /\ \E fate \in Fates(fetch[q].as) :
       fetch' = [fetch EXCEPT ![q] =
         [@ EXCEPT !.at = fate, !.v = IF fate = "ok" /\ q.of = "users" THEN version ELSE 0]]
  /\ UNCHANGED <<server, page, next, form, threw, entry, others, acked, known, counts>>

\* api() resolves: the answer replaces the entry.
ArriveData(q) ==
  /\ fetch[q].at = "ok"
  /\ entry' = [entry EXCEPT ![q] =
       [data |-> Answered(q).data, error |-> Answered(q).error, stale |-> FALSE,
        by |-> fetch[q].as, v |-> fetch[q].v, late |-> fetch[q].late]]
  /\ fetch' = [fetch EXCEPT ![q] = Quiet]
  /\ UNCHANGED <<server, page, next, form, threw, others, acked, known, counts>>

\* api() throws: older data stays, marked.
ArriveFailure(q) ==
  /\ fetch[q].at = "failed"
  /\ entry' = [entry EXCEPT ![q] = [@ EXCEPT !.error = "failed", !.stale = TRUE]]
  /\ fetch' = [fetch EXCEPT ![q] = Quiet]
  /\ UNCHANGED <<server, page, next, form, threw, others, acked, known, counts>>

\* A 401: api() sends the whole tab to the login form, from wherever it is.
ArriveRefusal(q) ==
  /\ fetch[q].at = "refused"
  /\ Load(Login, page)
  /\ UNCHANGED <<server, acked, known, counts>>

-----------------------------------------------------------------------------
\* The create form or a role select of the users page posts.
SendChange ==
  /\ page = "/users" /\ change = "no"
  /\ CanManageUsers(RoleShown)
  /\ change' = IF SignedIn(session) THEN "live" ELSE "dead"
  /\ UNCHANGED <<server, page, next, form, threw, cache, stray, acked, known, counts>>

\* onSuccess invalidates the users query, even after its page is gone.
ChangeDone ==
  /\ change = "live"
  /\ version < MaxVersion
  /\ version' = version + 1
  /\ acked' = version + 1
  /\ change' = "no"
  /\ Invalidate(Invalidated("users", Queries))
  /\ UNCHANGED <<session, page, next, form, threw, known, counts>>

ChangeFailed ==
  /\ change # "no"
  /\ change' = "no"
  /\ UNCHANGED <<server, page, next, form, threw, cache, stray, acked, known, counts>>

\* The answer to a create or role change, or to a replaced request, is a 401.
OtherRefused ==
  /\ "dead" \in {change, stray} \/ stray = "refused"
  /\ Load(Login, page)
  /\ UNCHANGED <<server, acked, known, counts>>

StrayEnds ==
  /\ stray \in {"live", "dead"}
  /\ stray' = "no"
  /\ UNCHANGED <<server, page, next, form, threw, cache, change, acked, known, counts>>

\* Somebody else changes the users table, or a change of ours that was reported
\* as failed takes effect.
OthersChange ==
  /\ version < MaxVersion
  /\ version' = version + 1
  /\ UNCHANGED <<session, page, next, form, threw, cache, others, acked, known, counts>>

-----------------------------------------------------------------------------
\* The session's row goes: what was sent with its cookie and not served yet will
\* be refused.
SessionEnds(s) ==
  /\ session' = s
  /\ change' \in IF change = "live" THEN {"live", "dead"} ELSE {change}
  /\ stray' \in IF stray = "live" THEN {"live", "dead"} ELSE {stray}
  /\ UNCHANGED version

Unserved == [q \in Queries |-> IF fetch[q].at = "sent" THEN [fetch[q] EXCEPT !.as = Dead] ELSE fetch[q]]

\* It expires, the cookie with it or later; or an administrator revokes it.
Expire ==
  /\ SignedIn(session)
  /\ \E s \in {NoCookie, Dead} : SessionEnds(s)
  /\ fetch' = Unserved
  /\ UNCHANGED <<page, next, form, threw, entry, acked, known, counts>>

\* signOut, then router.replace('/login'), whether or not the call succeeded.
SignOut ==
  /\ page \notin {Login, Offline}
  /\ \/ SessionEnds(NoCookie) /\ fetch' = Unserved
     \/ UNCHANGED <<server, others, fetch>>
  /\ page' = Login /\ next' = ""
  /\ form' = "idle" /\ threw' = FALSE
  /\ UNCHANGED <<entry, acked, known, counts>>

\* onSubmit, up to the await of signIn.
Submit ==
  /\ page = Login /\ form = "idle"
  /\ signIns < MaxSignIns
  /\ signIns' = signIns + 1
  /\ form' = "sending"
  /\ UNCHANGED <<server, page, next, threw, cache, others, acked, known, loads>>

\* Faulty: the form is not enabled again.
SignInRefusedHangs ==
  /\ form = "sending"
  /\ form' = "hung"
  /\ UNCHANGED <<server, page, next, threw, cache, others, acked, known, counts>>

\* Wrong e-mail or password.
SignInRefused ==
  /\ form = "sending"
  /\ form' = "idle"
  /\ UNCHANGED <<server, page, next, threw, cache, others, acked, known, counts>>

\* The call rejects (no network): nothing catches it.
SignInThrows ==
  /\ form = "sending"
  /\ form' = "hung" /\ threw' = TRUE
  /\ UNCHANGED <<server, page, next, cache, others, acked, known, counts>>

\* Faulty: goes on with the cache of whoever was signed in before.
SignInAcceptedKeeping(u) ==
  /\ form = "sending"
  /\ session' = u /\ known' = u
  /\ form' = "accepted"
  /\ UNCHANGED <<version, page, next, threw, cache, others, acked, counts>>

\* The cookie is set; every query is invalidated, none of which is mounted here ...
SignInAccepted(u) ==
  /\ form = "sending"
  /\ session' = u /\ known' = u
  /\ Invalidate(Queries)
  /\ form' = "accepted"
  /\ UNCHANGED <<version, page, next, threw, change, acked, counts>>

\* ... and the router goes on.  The form stays as it is if that is the login page.
LeaveLogin ==
  /\ form = "accepted"
  /\ IF SafeNext(next) = Login
     THEN form' = "hung" /\ UNCHANGED <<page, threw, cache>>
     ELSE Show(Gate(SafeNext(next), session # NoCookie))
  /\ next' = ""
  /\ UNCHANGED <<server, others, acked, known, counts>>

-----------------------------------------------------------------------------
Next ==
  \/ \E p \in Paths \cup {Login} : Visit(p) \/ VisitOffline(p)
  \/ Retry
  \/ \E p \in Paths : Follow(p) \/ Back(p)
  \/ SignInAgain
  \/ \E q \in Queries :
       Refetch(q) \/ Resume(q) \/ Serve(q) \/ ArriveData(q) \/ ArriveFailure(q) \/ ArriveRefusal(q)
  \/ SendChange \/ ChangeDone \/ ChangeFailed \/ OtherRefused \/ StrayEnds \/ OthersChange
  \/ Expire \/ SignOut
  \/ Submit \/ SignInRefused \/ SignInThrows \/ LeaveLogin
  \/ \E u \in Users : SignInAccepted(u)

Spec == Init /\ [][Next]_vars

\* A request is served and its answer arrives, a paused one after the network is
\* back; a sign-in call settles, and its continuation runs.  Nothing is assumed
\* of the user.
Fairness ==
  /\ \A q \in Queries :
       /\ WF_vars(Resume(q)) /\ WF_vars(Serve(q))
       /\ WF_vars(ArriveData(q) \/ ArriveFailure(q) \/ ArriveRefusal(q))
  /\ WF_vars(SignInRefused \/ SignInThrows \/ \E u \in Users : SignInAccepted(u))
  /\ WF_vars(LeaveLogin) /\ WF_vars(OtherRefused)

FairSpec == Spec /\ Fairness

-----------------------------------------------------------------------------
TabTypeOK ==
  /\ session \in Users \cup {NoCookie, Dead}
  /\ page \in Paths \cup {Login, Offline}
  /\ next \in Paths \cup {Login, ""}
  /\ form \in Forms /\ threw \in BOOLEAN
  /\ entry \in [Queries -> Entry]
  /\ fetch \in [Queries -> Request]
  /\ change \in {"no", "live", "dead"} /\ stray \in {"no", "live", "dead", "refused"}
  /\ version \in 0..MaxVersion /\ acked \in 0..version
  /\ known \in Users \cup {Nobody}
  /\ signIns \in 0..MaxSignIns /\ loads \in 0..MaxLoads

\* An entry that counts as fresh was fetched for the user who is signed in, and
\* its users are as of their last acknowledged change or later, however sign-ins,
\* changes, navigations and answers interleave.  The exception is an answer whose
\* request was under way, and could not be replaced, when everything it says was
\* invalidated.
FreshIsCurrent ==
  \A q \in Queries :
    entry[q].data # "none" /\ ~entry[q].stale /\ ~entry[q].late
      => /\ entry[q].by = known
         /\ q.of = "users" => entry[q].v >= acked

\* A page that shows neither rows nor "Loading" has got an answer or waits for the
\* network: "Not built yet" and "Failed to load" are never said of a query that
\* nobody has asked, whatever navigations, failures and redirects came before.
NothingSaidUnasked ==
  \A q \in Mounted(page) :
    Shows(page, RoleShown, q, StateOf(q)) \in {"pending", "failed"}
      => entry[q].data = "other" \/ entry[q].error # "none" \/ fetch[q].at = "paused"

\* A request that was answered 401 brings the tab to the login form, even with the
\* dead cookie still there, if the user enters no other address meanwhile: the
\* redirect is neither lost to a navigation or a newer request nor turned around
\* by the proxy.
RefusedReachesLogin ==
  \A q \in Queries : fetch[q].at = "refused" /\ loads = MaxLoads ~> page = Login

\* A submitted login form is left or enabled again, unless the call threw or the
\* form was to go back to itself.
FormSettles ==
  form = "sending" ~> form = "idle" \/ page # Login \/ threw \/ next = Login

\* "Already signed in? bounce straight to the target" (LoginForm.tsx), "Session
\* cookie + /login: redirect to /" (proxy.ts).
SignedInLeavesLogin ==
  page = Login /\ SignedIn(session) ~> page # Login \/ ~SignedIn(session)

=============================================================================
