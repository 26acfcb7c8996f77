# A TLA+ model of the real-estate CRM starter

This directory holds a model of the program in `src/`: TLA+ modules, TLC runs
that check them on small instances, and proofs, checked by TLAPS, that some of
their properties hold on every instance. Paths below are relative to `src/`.

1. [The system](#1-the-system)
2. [The modules](#2-the-modules)
3. [The runs](#3-the-runs)
4. [The proofs](#4-the-proofs)
5. [Where the code and its documents disagree](#5-where-the-code-and-its-documents-disagree)
6. [What is not modelled](#6-what-is-not-modelled)
7. [Plan](#7-plan)

## 1. The system

A Next.js web application (a PWA) talks to a NestJS backend through a
backend-for-frontend route (the BFF) that turns a session cookie into a
JWT; both use one PostgreSQL database through Prisma and PgBouncer. Forms that
must work without a network go through a queue in IndexedDB.

| component | state it keeps | operations | hard behaviours | what makes it correct |
|---|---|---|---|---|
| Mutation queue (`packages/offline-store/src/mutation-queue.ts`) | one array of mutations under one IndexedDB key | `enqueue`, `replay`, `prune`, `all`, `subscribe` | load and save are separate awaits, so calls of page and worker overlap; pages close in the middle of a replay; replies fail | nothing accepted is lost or comes back, list order, retries kept, the queue drains |
| `withOffline` (`apps/web/src/lib/with-offline.ts`) | none of its own | post, and enqueue on a 5xx or a recognised network error | a request that was applied and whose reply was lost is enqueued too | what a form is told is true: synced is applied once, queued is not lost |
| Photo store, IndexedDB stores (`packages/offline-store/src`) | blobs; one shared open promise | save with eviction, get, remove; open, upgrade, reset | quota evictions of blobs still referred to; a connection closed under its users | a queued mutation's photo is there |
| Role hierarchy (`apps/backend/src/users/roles.ts`) | none | `outranks`, two assertions | - | strict order, OWNER untouchable |
| Users service, credentials (`apps/backend/src/users`) | tables User, Account, Team, AuditLog | `create`, `changeRole`, `list` | up to seven awaited database calls with no transaction around them; every one can fail; requests interleave; the process stops | one OWNER; roles come from above; no user who cannot sign in; leaders are managers; the audit log is true |
| BFF, JWT bridge, guard (`apps/web/src/app/api/bff`, `packages/auth-client/src/jwt.ts`, `apps/backend/src/auth`) | sessions | forward, issue, verify | role and team in a token are those of the moment it was signed | the claim is the row's |
| Session gate and login (`apps/web/src/proxy.ts`, `login/LoginForm.tsx`, `lib/session.ts`) | cookie, form state | redirects, sign-in, sign-out | cookie present but session dead; a sign-in call that throws; a redirect overtaken by another navigation | a refused request reaches the login form, the form never hangs |
| Pages, navigation and queries (`apps/web/src/app/(app)`, `components`, `hooks/queries`) | the TanStack Query cache of a tab | fetch, refetch, invalidate; create and change users; log a visit | answers that arrive after an invalidation, a sign-out or a page change; modules that answer with placeholders | fresh data is current and the user's own; pages say only what they know; offers agree with the backend's rules |
| Row-level security (`packages/database/prisma/rls/policies.sql`, `src/rls.ts`) | session variables of a connection | policies per table and command, `withRlsContext` | pooled connections, OWNER travelling as ADMIN, tables with FORCE and no ENABLE | each role sees and writes exactly its rows |
| Seed, boot check (`packages/database/src`) | the seeded rows | upserts in sequence | re-runs, runs that stop half-way | a re-run repairs |
| Redis lock (`apps/backend/src/redis/redis.module.ts`) | one key per lock | acquire with TTL, compare-and-delete release | TTL against a slow holder | a release never frees another's lock |
| Install prompt, service worker | browser and library state | offline fallback | mostly the libraries' | - |
| Stub modules (leads, visits, bookings, audit, webhooks, realtime, chat, reminders) | none | placeholder answers | - | - |

How they interact: a form calls `withOffline`, which posts or enqueues; the page
or the service worker replays the queue later. A page's request goes through
the BFF, which reads the session and the User row and signs the JWT the
backend's guard verifies; the users service then works on the tables, writing
the audit row inside `withRlsContext`. An answer 401 sends the whole tab to the login
form; a successful change of a user invalidates the list every page shares. The seed
leaves the database all of this starts from.

`PROJECT.json` lists every component with its status, and under `hazards` what
in this code is hard to test, each at its line.

## 2. The modules

| module | models | extends |
|---|---|---|
| `MutationQueue` | the queue, its callers' calls and their deaths | `Naturals`, `Sequences` |
| `MCMutationQueue` | call slots and symmetry for TLC | `MutationQueue` |
| `DurableOutbox` | what a caller of the queue relies on: the abstract specification | `Naturals` |
| `OfflineForms` | `withOffline`, the queue and the server behind them, composed | `MutationQueue` |
| `MCOfflineForms` | forms, call slots and symmetry | `OfflineForms` |
| `OfflineFormsProofs` | theorems about what a form may conclude | `OfflineForms`, `MutationQueueProofs` |
| `MutationQueueProofs` | theorems about the queue, and that it implements `DurableOutbox` | `MutationQueue`, `TLAPS` |
| `RoleRules` | `roles.ts` as predicates | `Naturals` |
| `UsersService` | `create`, `changeRole` and `list` over the tables | `RoleRules` |
| `UserRegistry` | users, teams and audit log with one step per request: the abstract specification | `RoleRules` |
| `UsersSerial` | what the users service promises one request at a time, and how it maps onto `UserRegistry` | `UsersService` |
| `MCUsersService` | the seeded databases, wanted roles, symmetry | `UsersSerial` |
| `UsersServiceProofs` | theorems about the users service, requests interleaved | `UsersService`, `TLAPS` |
| `UsersSerialProofs` | theorems about it, one request at a time | `UsersSerial`, `UsersServiceProofs` |
| `UserRegistryProofs` | that it then implements `UserRegistry` | `UsersSerialProofs` |
| `LeadBook` | one write at a time under the application's own roles: the abstract specification | `RoleRules` |
| `RowSecurity` | the row-level-security policies, and `withRlsContext` on pooled connections | `RoleRules` |
| `MCRowSecurity` | contexts, a lead, two connections | `RowSecurity` |
| `RowSecurityProofs` | theorems about the policies | `RowSecurity`, `TLAPS` |
| `Pages` | what each page asks, shows and offers to each role: operators, no state | `RoleRules` |
| `PagesProofs` | theorems about the pages, the offers and the calendar | `Pages`, `TLAPS` |
| `WebTab` | a browser tab: session, proxy, login form, query cache, requests | `Pages` |
| `MCWebTab` | two users, two pages, queries | `WebTab` |
| `WebTabProofs` | theorems about the tab | `WebTab`, `PagesProofs` |

Definitions whose comment starts with "Faulty:" are not part of any model. They
stand next to the definition they vary and show that a property would notice
that bug; `PROJECT.json` names the property each of them breaks.

### MutationQueue

`store` is the array in IndexedDB. A *call slot* `c` is one invocation of a
queue operation somewhere (a tab, the service worker); `call[c]` holds its
local variables under the source's names (`all`, `remaining`, `succeeded`, and
`next`, the position in the loop). idb-keyval's `get` and `set` are one IndexedDB
transaction each, so each is one step, and everything else may happen between
them:

| code | actions |
|---|---|
| `enqueue` | `EnqueueLoad`, `EnqueueSave` |
| `replay` | `ReplayLoad`, `ReplayFetch` once per mutation and reply, `ReplaySave` |
| `prune` | `PruneLoad`, `PruneSave` |
| the page goes away, a transaction is refused | `Abort` |

A mutation is its id, its retry counter and which kind of error it was last
marked with; method, URL, body and timestamp do not influence the queue.
`crypto.randomUUID()` becomes a number in the order of the enqueues' loads.
A reply is `ok` (2xx, 3xx), `client` (4xx) or `transient` (anything else, or an
exception). `fate` is a history variable: what the *callers* were told about
each mutation, which the properties compare with the array. A mutation counts
as delivered when the replay that delivered it has saved: a replay that dies
after the server accepted a mutation sends it again, as the code does (the
queue delivers at least once).

### DurableOutbox and OfflineForms

`DurableOutbox` has two variables and two actions: a mutation is accepted once, and
some of what is owed is settled, for good. `MutationQueue` maps its history onto it
(`Outbox == INSTANCE DurableOutbox WITH ...`: owed is what `fate` calls queued, settled
what was delivered or dismissed); with one slot every step of the queue is then an
`Accept`, a `Settle` or a stutter, although the array is copied, rewritten and dropped
in between.

`OfflineForms` puts callers and a server around the queue. `form[f]` is what `mutate()`
has told form `f` so far, `applied[f]` how often the server has applied it. Each
answer of `fetch` comes with whether the server applied the request behind it
(`MayHaveApplied`): a 2xx always, a 4xx never, a 5xx or a lost connection either way.
That is the fault model, and it is external: a form's request leaves by the rewrite of
`next.config.ts` (100-104), past the BFF, and what the backend makes of it is outside this
module. `doubt` and `overlapped` are history: which
forms the server applied without the queue hearing of it, and whether two queue calls
ever overlapped.

| code | actions |
|---|---|
| `fetch` and its classification (`with-offline.ts` 46-59, 67-77) | `Post`, `AfterPost` |
| `queue.enqueue` (61, 69) | `QueueForm`, `FormQueued` |
| replay and prune on behalf of pages and the worker | `StartReplay`, `Send`, `StartPrune`, `Saves` |
| a page or worker dies | `Dies` |

### UsersService

The tables are functions: `role[u]` is `User.role`, or why there is no row;
`team[u]`, `account` (who has a credential), `teams`, `manager[t]`.
`audited[u]` is what replaying the AuditLog rows in order says of `u`'s role.
`req[r]` is the request in slot `r`, with the handler's locals: the JWT's `sub`
and `role`, the body's `role`, the target's id, the target's role as it was
read, the team being resolved. `pc` names the database call that comes next.

| code (`users.service.ts`) | actions |
|---|---|
| BFF session lookup, JWT, guard, controller | `BeginCreate`, `BeginChange` |
| `create`, role gate and team resolution (53-87) | `CreateRefused`, `ResolveManagersTeam`, `ResolveNamedTeam` |
| `create`, teamId exists (89-95) | `CheckTeam` |
| `user.create` (99) | `InsertUser` |
| `upsertCredentialAccount` (110) | `WriteCredential` |
| `team.create`, `user.update` (115-126) | `CreateTeam`, `LinkTeam` |
| audit row (129) | `CreateAudit` |
| catch block (150-154) | `Cleanup` |
| `changeRole`, read and gates (170-187) | `FindTarget`, `ChangeRefused` |
| demotion guard (190) | `DemotionGuard` |
| promotion: `team.findFirst`, `team.create` (204-213) | `LookupTeam`, `ChangeTeam` |
| `user.update` (216) | `UpdateRole`, `TargetGone` |
| audit row (223) | `ChangeAudit` |
| a call is refused (connection, timeout, e-mail taken) | `Refused` |
| the process stops | `Crash` |

A gate that needs no database call is part of the action of the call after it.
The delete of the catch block cascades to Account and clears `Team.managerId`, as
the foreign keys of the init migration say, so it is one action on four tables.
E-mails, names, passwords and the hash are data and left out; an e-mail that is
taken is one of the refusals of `InsertUser`'s step. Ids are never reused.

Team rows are read and written by the application role: `policies.sql` puts
FORCE ROW LEVEL SECURITY on Team but never ENABLEs it, so PostgreSQL applies no
policy there, and the model has none.

### UserRegistry and UsersSerial

`UserRegistry` is what the admin pages take for granted: users with a role and a team,
teams with a leader, a log, and `asks`, the requests not answered yet. `Arrives` is a
request; it is then refused (`Refuse`) or takes effect in one step, under the role its
sender has at that step. A creation joins a team that has a leader (`Join`), founds one
(`Found`), makes an admin outside every team (`Stay`) or comes to nothing and uses up an
id (`Burn`); a change gives a new manager a team (`Promote`) or leaves teams as they are
(`Reassign`).

`UsersSerial` has the properties of one request at a time and the mapping. A creation is
seen by the registry when its audit row is written: until then `RegRole` hides the row
and `RegLeader` the team that was made for it. A change is seen when `user.update`
writes the row: until then `RegLeader` hides the new manager's team, and `RegLog` has
the change from then on although its audit row is still to come.

| code | step of `UserRegistry` |
|---|---|
| `BeginCreate`, `BeginChange` | `Arrives` |
| `CreateRefused`, `ChangeRefused`, a missing team, a leader not to be demoted | `Refuse` |
| `CreateAudit` | `Join`, `Found` or `Stay` |
| `Cleanup` | `Burn` |
| `UpdateRole` | `Promote` or `Reassign` |
| every other step | none |

### RowSecurity

`setting[c]` are the three variables (`app.user_id`, `app.user_role`,
`app.user_team_id`) of connection `c`, `next[c]` what the transaction on it does next,
`ctx[c]` the context it was opened with. The tables are `lead` (owner and team of
each row), `child` (which of the tables below a lead have a row on it), `reminder`
and `audit`.

| code | definitions |
|---|---|
| policies of Lead (`policies.sql` 28-84) | `LeadSelect`, `LeadInsert`, `LeadUpdate`, `LeadDelete` |
| policies of Activity, SiteVisit, Message, Booking, Consent | `ReadsVia`, `WritesVia`, `ChildSelect`, `ForAll` |
| policies of Reminder and AuditLog | `ReminderSelect`, `ReminderWrite`, `AuditSelect`, `AuditInsert` |
| `withRlsContext` (`rls.ts` 78-101) | `Begin`, `SetUser`, `SetRole`, `SetTeam`, `Ends`, `EndsWithoutWrite` |
| what `fn` may do, and any statement outside `withRlsContext` | `InsertLead` ... `InsertAudit`, guarded by `CanRun` |

The four child tables and Consent have the same conditions and differ only in
their commands, so one operator stands for the policies of all five. The model
lets `fn` issue any one statement and commit; `users.service.ts`, the only caller
so far, inserts one audit row. A handler that uses the bare client instead may issue the same
statements on a connection without a transaction, with whatever is set there. Because a transaction of one statement becomes
visible at its commit and PostgreSQL re-checks a row that changed under a
waiting UPDATE, statement and commit are one step. What PostgreSQL adds to the text of
the policies is named in the module's header and in the definitions marked external:
a statement that reads the rows it writes, as UPDATE and DELETE by id do, needs the SELECT
policies too, and policies apply inside the policies' subqueries. An INSERT needs its own
policy only: Prisma's `create` returns the row and so asks for more, but `createMany` and raw
SQL, which `fn` may use as well, do not. (Where the SELECT policy refuses what the INSERT
policy admits, `create` fails, which is `EndsWithoutWrite`.) Two consequences are in the model:
staff may insert a lead in the name of somebody else, and anybody may write an audit row about
anybody.
MoveChild with one lead moves a row to the lead it is on; the proofs have any
number of leads.

`LeadBook` is the same tables without sessions: a handler takes a user (`Takes`) and
makes one write for that very user, or none (`Serves`), by rules stated in the
application's roles (`Entitled`, `WritesBelow`), where OWNER is not an ADMIN in
disguise. Its audit log takes rows about anybody, from handlers (`Log`) and from elsewhere
(`Logs`), and keeps them all. `RowSecurity` maps onto it with its own `ctx` and tables; what has to be shown is
that the three settings a policy reads always stand for `ctx[c]`, whoever used the
connection before.

### Pages

Pages of the application keep no state that outlives them, so this module has operators
only: `PageReads(path, role)` is the queries a page mounts, `Shows(path, role, query, s)`
what it makes of a query in state `s`, `BackendAnswer` what the backend answers today.
Three things in the code shape them. Hooks run before a page's gate, so a page that turns a
role away still asks for its data. Most list routes answer with a placeholder object where
the page expects an array, which the pages read as "Not built yet" (`ModulePending`). And
the lead page draws its timeline and its chat beside the lead, which is never answered, so
these two panes stay hidden.

| code | definitions |
|---|---|
| `lib/session.ts` | `NormalizeRole`, `IsAdminLike`, `CanReassign` ... `CanLogVisitOutcome` |
| `hooks/queries/crm.ts`, `hooks/queries/users.ts` | `CrmRoute`, `UsersQuery`, `Invalidated` |
| the pages under `(app)` | `HomeReads`, `LeadReads`, `InboxQuery` ... `InventoryReads`, `PageReads`, `Section`, `LeadInbox`, `LeadDetail`, `UsersPage`, `Shows` |
| `app-header.tsx`, `users/page.tsx` | `NavLinks`, `CreatableRoles`, `CreateOffers`, `ChangeOffers` |
| `visits/page.tsx` | `StartOfWeek`, `ShiftWeek`, `CalendarDay`, `Moment`, `SameDate`, `Cells` |

Days are numbered from a Monday where weeks are counted, and are dates in the grid: it compares
day of the month, month and hour, and no year. That no other year's visit appears depends on the
backend's filter for the week the page asks for, which is not built. The filters of a page
share its key here: they choose rows, and no module but users has any.

### WebTab

One tab. `session` is what its cookie stands for: no cookie, a cookie whose session is
expired or revoked (`Dead`), or a user. `page`, `next` (the login form's `?next=`), `form`
and `threw` are the place and the form; `entry[q]` and `fetch[q]` the cache entry of query
`q` and the request under way for it; `change` a create or role change under way; `stray` a
request whose query was fetched anew before it was answered, which goes on, and whose 401 still moves
the tab. A request is served at one step (`Serve`) and arrives at a later one. `version`
counts changes of the users table on the server; `acked`, `known`, and the fields `by`, `v`
and `late` of an entry are history variables of the properties.

| code | definitions |
|---|---|
| `proxy.ts` with its matcher | `Gate` |
| full loads, navigation links, Back | `Visit`, `Load`, `Follow`, `Back`, `Show` |
| `LoginForm.tsx` | `Submit`, `SignInRefused`, `SignInThrows`, `SignInAccepted`, `LeaveLogin`, `SafeNext` |
| `apis/client.ts` | `Asked`, `ArriveData`, `ArriveFailure`, `ArriveRefusal` |
| the BFF and the guard | `Fates`, `Serve` |
| `hooks/queries/users.ts` | `SendChange`, `ChangeDone`, `ChangeFailed`, `OtherRefused` |
| `lib/query-client/lib.ts` and the library behind it | `MountFetches`, `Ask`, `Refetch`, `Resume`, `Invalidate`, `Replaces`, `Straying` |
| `app-header.tsx`, the home page | `SignOut`, `SignInAgain` |
| `sw.ts` and `offline/page.tsx` | `VisitOffline`, `Retry` |

What TanStack Query does is external and stated by these definitions as the code uses it:
a mounted query without data or with invalidated data is fetched, a mounting page joins a
request that is already under way, invalidation replaces the request of a mounted query that has
data and leaves any other to arrive, and a query without a network waits (`paused`).

## 3. The runs

| run | question | bounds | result |
|---|---|---|---|
| `queue_serial` | single writer: is the array exactly what was accepted and neither delivered nor dismissed; are retries kept; does a pass skip nothing; does it drain; is it a `DurableOutbox`? | 1 slot, 3 mutations, retries saturate at 2, 2 calls die | holds |
| `queue_concurrent` | forms, two overlapping calls, a server whose answers get lost: what is true of what a form is told, and what survives of the queue? | 2 forms, 2 slots, 2 mutations, 1 call dies | holds |
| `queue_overlap` | is nothing lost with overlapping calls? | 2 slots, 2 mutations | violated |
| `queue_resend` | is a 4xx never sent again? | 1 slot, 2 mutations | violated |
| `users_serial` | one request after another: leaders, membership, lists, audit log, rank; is it a `UserRegistry`? | the 5 seeded users and one to create, 3 teams, all roles | holds |
| `users_concurrent` | two requests interleaved, refused calls, a stop: which guarantees need no transaction? | owner, manager and one id to create, 2 teams, 3 roles, 2 refused calls, 1 stop | holds |
| `users_scope` | do managers stay in their team? | as `users_serial` | violated |
| `users_stale` | are ADMIN rows written by the owner only? | as `users_concurrent`, no failures | violated |
| `rows_context` | reused connections: does each transaction read and write what its own context is for, nothing but audit rows get in outside one, and all of it follow `LeadBook`? | 2 connections, 4 contexts (owner, manager with and without a team, telecaller), 2 teams, 1 lead, 2 child tables | holds |
| `rows_reminders` | do managers read their own team's reminders only? | as `rows_context` | violated |
| `web_tab` | is fresh data current and the user's own; do pages claim only what they know; do refused requests and submitted forms come to an end? | 2 users (manager, telecaller), 2 pages and the login form, the users query, 1 change, 1 sign-in, 1 address entered | holds |
| `login_bounce` | does a signed-in user leave the login form? | as `web_tab`, no changes | violated |

**Queue.** `StoreIsQueued` says more than "nothing is lost": nothing comes back
either, so no mutation is sent twice unless the call that sent it died.
`RetriesNeverForgotten` compares each array with the next one: the counter is
kept in memory during a pass, and passes die. `NothingPassedOver` is what is left of
first-in-first-out, since the loop goes on after a failure: a pass that delivers anything has
sent everything that is queued, and the same save records the failure of whatever stays. A
mutation that others have overtaken can be told by its `lastError` and `retries`. `InsertionOrder` and
`UnsavedNeverStored` are what is left when the single-writer assumption is
dropped: copies of different ages overwrite each other, yet the array never lists a
mutation twice or out of order, and never one whose enqueue has not saved it.
Three mutations are what it takes for one to be kept, one delivered and one
enqueued around the same pass; ids are treated alike, slots are symmetric; two
deaths allow a pass to die and its repetition too. A cap of 2 on `retries` lets
the counter move twice before it saturates, and saturation makes endless
failing a loop that TLC can see, which `QueueDrains` needs.

**Fairness.** `queue_serial` assumes the following; for the tab see below. Saves and fetches that are awaited
settle (WF: a fetch that never settled would end as an exception when the
browser times out). The page replays again and again (SF on `ReplayLoad`, since
other calls take the slot in between): the queue has no timer of its own, the
header of `mutation-queue.ts` leaves that to `online` events and Background
Sync. And a mutation sent over and over is accepted, or the user dismisses it
in the end (SF on `Delivers \/ Dismisses`): the header gives a mutation refused
for good to the user "to resolve manually". Deaths are bounded, as without a bound
a page that is closed during every pass never saves one. Nothing is assumed about enqueues.

**Users, one at a time.** `users_serial` starts from what `seed.ts` leaves and
lets any of six users send any creation or role change. `LeadersAreManagers`
is what the demotion guard is for; `AtMostOneTeam` what the lookup before
`team.create` is for; `AuditReplays` compares the log with the rows; and
`OnlyOutrankedTouched` compares both rows at the moment of the write. `CreatedIsListed` relates
`create` to `list`, which find a manager's team by two different queries. Six
users give each role a seeded holder and one user whose whole life the run
sees; teams are one per possible leader plus the seeded one.
`ManagersBelong` is what is left of "managers always lead exactly one team": one created
with a `teamId` leads none, and is at least a member of the one it was given.
`ImplementsRegistry` relates all of it: whatever the tables look like between two awaits,
each request comes to one step of `UserRegistry`, under the role its sender has then.

The run has no faults, because five of its properties do not survive them: a failed audit
write of `changeRole` leaves the change in place and the log behind, and a refused
`user.update` after `team.create` leaves a team led by someone who is no manager.
`AtMostOneTeam`, `OnlyOutrankedTouched` and `CreatedIsListed` do survive them, which is
proved and not run.

**Users, interleaved.** `OneOwner`, `GrantsOutranked`, `NoUserWithoutCredential`
and `DeletedLeavesNothing` hold however two requests interleave.
`NoUserWithoutCredential` is the promise of the catch block, "don't leave a user
that can't sign in". It holds while at most one call has failed and the
process has not stopped: a second failure can hit the cleanup's own delete,
whose error is swallowed. The run allows two failures and a stop so that the states
beyond the promise are visited as well. Three users and three wanted roles keep
the run around a minute; the proofs of the same properties have no bounds.
A request slot is reused, so two slots give any sequence of requests of which two overlap.

`LeadersAreManagers` and `AtMostOneTeam` fail with two slots: a user promoted
twice at the same time gets two teams, and a promotion whose `team.create` runs
after a demotion's guard looked leaves a leader who is not a manager (a
behaviour of 13 states). `LeadersSitInTheirTeam` and `AuditReplays` fail with
two slots for the same reason, a value read at the start and used at the end.

**Rows.** `SeesItsOwn` states entitlement in the application's terms (OWNER and
ADMIN everything, a manager its team, staff their own) and compares it with what
PostgreSQL would return on that connection at that moment. `FailClosed` is the other
half: a statement outside `withRlsContext`, on a connection whose history is
arbitrary. It reads nothing and writes nothing but, on a connection that was used before, a row
of AuditLog. `LeadsChangeHands` says over any sequence of statements who can have
given a lead its owner and team. `ImplementsBook` states both sides at once for every
write of every table, inside transactions and outside. One lead suffices as no policy compares two;
two connections let one transaction change the lead between another's
variables and its statement; one child table has a FOR ALL policy and the other has not.

**Forms.** `SyncedOnce`, `RepeatsNeedDoubt` and `LossNeedsOverlap` say what a form may
conclude from what it was told, each with its exact exceptions: a repeated application
needs an application nobody heard of, or overlapping calls; the loss of a queued form
needs overlapping calls. Two forms and two slots with one death reach all of these
exceptions. A form that is told "failed" may still have been applied (an unreadable 2xx,
an error whose message is not one of the two the code knows): nothing is promised there, and
no property claims it.

**Tab.** `FreshIsCurrent` compares the cache with the server: data that counts as fresh was
fetched for the user who is signed in, and, for the users list, is not older than the last
change this tab was told succeeded. The exception, `late`, is an answer whose request was
under way when everything it says was invalidated and that could not be replaced: the
library then takes it for fresh. `NothingSaidUnasked` compares what a page shows with
what has been asked. Two users with different roles, the home page (which reads other
queries for each role) and the users page (which both mount, and only one may see), one
followed query, one change, one sign-in and one address entered by the user give every
action its turn; the invariants are proved without these bounds.

`RefusedReachesLogin` and `FormSettles` are liveness. Assumed: a request that was sent is
served and its answer delivered, a paused one resumes, a sign-in call settles, and its
continuation runs (WF each, `OtherRefused` included: a 401 to a change also arrives). Browsers
time requests out, so each of these ends, if only as a failure. Nothing is assumed
of the user, who may navigate or sign out for ever, but for the bounded number of
addresses entered: a tab reloaded again and again loses every answer. `FormSettles`
excludes the two ways in which the form does hang, see section 5.

## 4. The proofs

TLAPS checks these for every value of the constants, under the assumptions
`BoundsAssumption` (queue), `SeedAssumption` and `SeedConsistent` (users),
`ContextAssumption` (rows) and `WebAssumption` (tab) that the modules state and TLC
evaluates on their instances.

| theorem | says | argument |
|---|---|---|
| `MutationQueueProofs!TypeCorrect` | `TypeOK`, any number of slots and mutations | one step per action; lemmas on what `Append`, `Kept` and `Without` return |
| `OrderKept`, `NoUnsavedVisible` | `InsertionOrder`, `UnsavedNeverStored` | `OrderInv` |
| `SerialQueueExact`, `SerialNothingLost` | `StoreIsQueued`, `NoLostMutation` if there is at most one slot (`SingleWriter`) | `SerialInv` on top of `OrderInv` |
| `PassesSkipNothing` | `NothingPassedOver`, with `SingleWriter` | `SerialInv`: a pass that saves has sent the whole array; `MarkInv`: what it keeps carries the mark of its reply |
| `RetriesKept` | `RetriesNeverForgotten`, with `SingleWriter` | `SerialInv`, and a bound from below on the counters of the copy a replay works on |
| `QueueIsOutbox` | `ImplementsOutbox`, with `SingleWriter` | each action maps to `Accept`, `Settle` or a stutter |
| `OfflineFormsProofs!SyncedStaysOnce`, `RepeatsExplained`, `LossExplained` | `SyncedOnce`, `RepeatsNeedDoubt`, `LossNeedsOverlap`, any number of forms, overlapping calls and mutations | `FormsInv`, on top of the queue's theorems: every step of the forms is one of the queue's (`FormsUseQueue`) |
| `UsersServiceProofs!TypeCorrect` | `TypeOK`, any seed, any number of requests, refusals and stops | one step per action |
| `OwnerIsSeeded` | `OneOwner` | `GateInv` |
| `RolesGivenFromAbove` | `GrantsOutranked`, an action property | `GateInv` and the two writes of a role |
| `CreatedUsersCanSignIn` | `NoUserWithoutCredential` | `CredentialInv` |
| `DeletedUsersLeaveNothing` | `DeletedLeavesNothing` | `CreatedInv` |
| `UsersSerialProofs!SequentialCorrect` | `SequentialInv`, if requests run one after another (`OneAtATime`), whatever fails or stops | one lemma per step of the slot |
| `OneTeamEach`; `TouchedOutranked`, `CreatedListed` | `AtMostOneTeam`; `OnlyOutrankedTouched`, `CreatedIsListed`, action properties, with `OneAtATime` | `SequentialInv`, and the one step that matters |
| `LogIsComplete`, `LeadersManage`, `LeadersSit`, `ManagersHaveTeams` | `AuditReplays`, `LeadersAreManagers`, `LeadersSitInTheirTeam`, `ManagersBelong`, if moreover no call is refused and nothing stops (`OneByOne`) | `SerialInv` of `UsersSerial` |
| `UserRegistryProofs!ServiceIsRegistry` | `ImplementsRegistry`, with `OneByOne` | each action maps to a step of `UserRegistry` or to none, from `SerialInv` |
| `RowSecurityProofs!TypeCorrect`, `ReadsItsOwn`, `NothingOutside` | `TypeOK`, `SeesItsOwn`, `FailClosed` | `ContextInv` |
| `LeadsStayInHand`, `RemindersKept` | `LeadsChangeHands`, `RemindersAreOnesOwn`, action properties | `ContextInv`, what each statement may do, and that outside a transaction it is an audit row (`OutsideLogs`) |
| `RowsAreBook` | `ImplementsBook` | `ContextInv`; each policy, read with the settings of a context, is a rule of `LeadBook` about that context |
| `WebTabProofs!TabTypes` | `TabTypeOK`, any users, roles, pages, queries | `TabInv` |
| `FreshDataIsCurrent` | `FreshIsCurrent` | `TabInv` |
| `PagesSayWhatTheyKnow` | `NothingSaidUnasked` | `TabInv`, and what each page makes of a query's state |
| `PagesProofs!LinksOpen`, `HonestStates` | the header links to no page that turns the role away; an unbuilt module reads "Not built yet" everywhere | by role and page |
| `ManagerOffersPass`, `AdminOffersFail`, `OutrankedOffersPass`, `OtherOffersFail` | which creations and role changes the users page offers that the backend takes, and which it refuses | by rank |
| `WeekStartsOnMonday`, `ShiftKeepsMonday` | the weeks of the calendar | arithmetic |
| `DrawnOnce` | the grid draws a visit once if a day shown has its date and month and a row its hour, otherwise nowhere | assumes that the seven days differ in date or month, as those of any week do |

Why the invariants need strengthening:

- `InsertionOrder` speaks of arrays; to see that a save keeps it one must know
  that an enqueue in progress holds an id above everything it loaded, that no two
  enqueues hold the same one, and that what a replay keeps is among what it has
  already sent. `OrderInv` says that of every slot, and that every copy holds saved
  mutations only.
- `StoreIsQueued` needs that the one call's copy *is* the array, and that a replay
  has either kept or delivered each mutation it has sent, never both (`SerialInv`).
- `OneOwner` is not inductive: `UpdateRole` writes whatever role the request
  carries over whatever row it names. `GateInv` carries along what the gate
  established when it ran (the wanted role is not OWNER, the target was not the
  owner), and that stays true *because* nobody becomes or stops being OWNER.
  Contrast `AdminRowsOwnersOnly`, where the same argument breaks: rows do become
  ADMIN's, and `users_stale` shows it.
- `NoUserWithoutCredential` needs that a cleanup whose user has no credential has
  used up the one refusal (`CredentialInv`).
- `DeletedLeavesNothing` needs that the row a creation inserted exists, and is
  no other creation's, until the creation ends (`CreatedInv`): only then can no
  write land on it after its cleanup.
- `FreshIsCurrent` and `NothingSaidUnasked` speak of the cache; what keeps them true is
  known of the requests. `TabInv` says of each query that a request was sent by the user who
  is signed in and was served as of the last acknowledged change, unless it is marked late
  (`AskedInv`); that a mounted query with neither data nor error has been asked (`MountInv`);
  that only the route of a live module answers with rows (`RowsInv`); and of the tab that no request is
  under way behind the offline page and that a live session is the last one signed in
  (`PlaceInv`, `KnownInv`).
- `RepeatsNeedDoubt` and `LossNeedsOverlap` except overlapping calls, so the proof needs what
  is true *until* calls overlap: the queue has one writer although it has many slots
  (`Alone`), and then the single writer's `SerialInv` holds. `FormsInv` adds that whatever the queue
  was told is delivered has been applied, and what was applied once in nobody's doubt is
  delivered or about to be (`AppliedInv`).
- `NothingPassedOver` needs that the array a replay saves holds, of what it sent, only
  entries marked with the reply just received (`MarkInv`).
- `OnlyOutrankedTouched`, `CreatedIsListed` and `AtMostOneTeam` need that what a handler
  read is still so when it writes: the actor has the role of its claim (`ActorInv`), the
  gate that let a creation pass would still do so (`GateOpen`), the new row is as inserted
  (`CreatingInv`), the changed one as found (`ChangingInv`). Another request could undo
  each of the four, and no failure can: a call that is refused ends the request or leads to its
  cleanup. So `SequentialInv` needs `OneAtATime` alone.
- The tables between requests are another matter: within a request they are broken
  (`team.create` runs before `user.update` makes the leader a manager, and the audit row
  comes last), and a failure there leaves them so. `SerialInv` adds which write
  is still to come (`Promoting`, `Linking`, `Auditing`, `Placing`) and what the row about to be
  written leads (`UpdateInv`), and needs that it does come: `OneByOne`.
- `ServiceIsRegistry` uses `SerialInv` at each step: `UpdateRole` is a `Promote` because the team
  made for the target is the only one it leads, and `CreateAudit` a `Join`
  because the actor still leads the team that was resolved. `SeedConsistent` states what `seed.ts`
  does: no seeded user leads two teams, every seeded manager leads one.
- `SeesItsOwn` needs that the variables of a connection agree with the context as far
  as they have been set, and `FailClosed` that they are empty without a transaction
  (`ContextInv`). `ImplementsBook` also needs that a connection without a transaction
  has no context.

Model-checked only: `QueueDrains`, `RefusedReachesLogin` and `FormSettles`
are liveness properties, out of the prover's reach, as are ENABLED and induction over data; no module
declares a RECURSIVE operator.

## 5. Where the code and its documents disagree

Shown by a run:

- `queue_overlap`: "Both reads and writes are sequential awaits so we won't
  interleave" (`mutation-queue.ts:19`). The awaits of one call are sequential, those
  of two calls are not: an enqueue whose caller was told "queued" disappears under
  the save of a replay that loaded before it.
- `queue_resend`: "4xx: client error, do NOT retry" (`mutation-queue.ts:28`). The
  replay loop sends every mutation in the array, marked or not.
- `users_scope`: "MANAGER creates/changes TELECALLER/SALES_EXEC within their own
  team" (`roles.ts:7`). `changeRole` compares ranks, never teams.
- `users_stale`: "only OWNER touches ADMIN rows (rank check covers this)"
  (`users.service.ts:8`). The check runs on a row read earlier; the update goes by id.
- `rows_reminders`: "Reminder (ownerId-scoped; team visibility for managers)"
  (`policies.sql:246`). The policy compares no team for managers.
- `login_bounce`: "Session cookie + /login -> redirect to /" (`proxy.ts:5`) and "Already
  signed in? bounce straight to the target" (`LoginForm.tsx:12`). The proxy's own matcher
  (`proxy.ts:66`) leaves `/login` out and the form looks at no session.

Proved of `Pages` or part of `WebTab`:

- The create form posts no team (`users/page.tsx:171`) and `create` requires one of OWNER
  and ADMIN for staff (`users.service.ts:83-87`): of the roles it offers them, MANAGER alone
  is accepted (`AdminOffersFail`).
- The role select of a row offers changes on the rows of owners and peers too, which the
  backend refuses one and all (`OtherOffersFail`).
- A manager that leads no team is offered TELECALLER and SALES_EXEC like any other, and refused
  both (`users.service.ts:70-75`, `ManagerOffersPass`).
- Visits at 13 h, before 9 h and after 17 h have no row in the grid, and a visit of another year
  is drawn on its date in this one if the backend sends it (`visits/page.tsx:178-179`, `DrawnOnce`).
- "auditlog_insert_any_authenticated" (`policies.sql:288`) asks that `app.user_id` is not NULL,
  and it is the empty string on a connection that any transaction used before: an insert that
  returns nothing then succeeds outside every transaction, authenticated or not, and inside one
  it may name another user (`InsertAudit`; `Log` and `Logs` of `LeadBook`).
- The login form hangs in two ways (`FormSettles` names both): the call to `signIn` rejects
  and nothing catches it; or a 401 arrived while the tab was at `/login`, so that `?next=` is `/login`
  itself and the form "leaves" to where it is.
- A page whose query waits for the network says "Not built yet" (the third case of
  `NothingSaidUnasked`): `isLoading` is false while a query is paused.
- An answer asked for before a sign-in, and arriving after it, counts as fresh (`late` in
  `FreshIsCurrent`).

Read in the code:

- "managers always lead exactly one team" (`users.service.ts:201-202`): a MANAGER
  created with an explicit `teamId` leads none.
- "Team is RLS-FORCED with zero policies, so the app role cannot write it inside
  an RLS context" (`users.service.ts:14-16`): forced but never enabled, see section 2.
- "ADMIN x Lead x INSERT - succeeds" (`rls-isolation.test.ts:40`, a case still to be
  written): the policy (`policies.sql:48-53`) also asks for the session's team, and
  an ADMIN usually has none.
- The grid of visits reads `scheduledAt` (`visits/page.tsx:174-176`); the schema and the DTOs of
  visits call the field `scheduledFor` (`schema.prisma:351`, `api-types/src/visits.ts:17`). A row
  under that name is drawn nowhere.
- A manager as seeded has `teamId` null and leads its team through
  `Team.managerId`; its context carries no team, so the policies show it no lead
  (`MCRowSecurity` has this context).
- `parseBody` of `users.controller.ts:28` is never called, so a body that fails
  validation is not the 400 its comment announces.
- "Refetch when component mounts (even if data is fresh)" is not what
  `refetchOnMount: true` does: the library refetches what is stale.
- The offline page's "State B", with cached pages to show, is unreachable: nothing writes
  the key it looks for.
- Forms that use `withOffline` would post to `/api/backend`, which `next.config.ts:100-104` rewrites to the backend's
  root: past the BFF, so without a token, and without the backend's `/api` prefix.
- `audit.module.ts:3-5` wants audit writes in the transaction of the change;
  `changeRole` commits the change first.

## 6. What is not modelled

- better-auth's own endpoints (sign-up, password checks, admin plugin) also write User; they
  are library code that the users service does not call.
- `subscribe` and notifications of the queue: nothing in the repository subscribes.
- The photo store, the shared open promise of the IndexedDB stores, the conflict resolver
  and the Redis lock: primitives nothing in the repository calls. What an eviction, a closed
  connection or an expired lock breaks depends on code that is not there yet.
- Re-runs of the seed, which an operator starts and watches; the boot check, one
  comparison of an environment variable; the compliance strings, pure text; the install
  prompt, a flag in local storage that nothing else reads.
- The service worker's runtime caches: strategies of the Serwist library over the browser's
  cache. Of the worker the model has the offline fallback.
- Of the web application: other tabs that share the cookie (a sign-out elsewhere acts like
  `Expire`); the window in which `useSession` lags behind the cookie; Back while a
  sign-in is under way; filters, tables and layout; the component gallery under `/dev`; the
  event stream of the realtime module and the webhook's signature check, which keep no state.
- Bounds with no counterpart in the code: `MaxMutations`, `MaxAborts`, `RetryCap`,
  `MaxFaults`, `MaxCrashes`, `MaxVersion`, `MaxSignIns`, `MaxLoads`, and `OutOfIds`, which
  refuses an insert once the ids of an instance are used up.

## 7. Plan

Done: the queue with its abstract specification and its callers, the users service and
the registry it implements, row-level security and the book it implements, the pages and the tab; theirs are the places where the program keeps
state under concurrency and failure. What could follow:

1. What of `UserRegistry` survives failures: with refused calls a request may take effect in
   part, and the registry would need the parts as steps of its own.
2. The modules that are stubs today, once they are built: the policies they will run
   under are modelled already (`RowSecurity`), and a lead, visit or booking service would extend it.
3. `PhotoStore`, `RedisLock` and `Seed`, once code depends on what they promise.
