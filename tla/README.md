# ContriSkill: a formal model

ContriSkill is a marketplace of small contributions: a user publishes a post
with a credit offer, others apply, one application is accepted and becomes a
collaboration.  The repository holds an Express API (`src/apps/api`), a Next.js
client (`src/apps/web`) and shared packages (`src/packages`).  The API keeps its
data in Postgres, or in `Map`s when there is no `DATABASE_URL`; drafts,
projections, mutations and everything of the realtime layer live in the memory of
the one API process; the client keeps optimistic copies of drafts and
projections and queues of pending mutations.

This directory holds the TLA+ modules that model it, the TLC instances that check
them and the proofs TLAPS checks.  `PROJECT.json` ties every definition to the
lines it models, every property to a run, and every run property to a mutant: a
definition `X_Y` of a module is `X` with one plausible bug, `Y`, in it, kept beside
`X` to show that the property can fail.  Mutants are used nowhere else.

## The parts of the system

| part | state | operations | what is hard | what makes it correct |
|---|---|---|---|---|
| contribution domain (`packages/domain`) | none | transition table, creation / application / acceptance policies | - | the tables are what the service asks, at the right moment |
| contribution service, repositories, unit of work (`apps/api/src/modules/contribution`, `db/postgres.ts`) | four tables (or Maps), the pool | create, update, cancel, transition, submit, accept, list | handlers interleave at every query; the unit of work does not enclose its queries; pool exhaustion; failing query, dying process | the log follows the lifecycle, parties of a collaboration, answers tell the truth, broadcasts are durable, every request is answered |
| auth sessions (`modules/auth`) | session rows, or Maps; the latch of the resilient store | sign-in, refresh (rotate), sign-out, revoke, resolve, touch | reads and updates by id are apart; fallback to memory is one-way | a revoked session stays revoked; an answered token works until it is rotated, revoked or expired |
| realtime server (`apps/api/src/realtime`) | connections, subscriptions by topic and by connection, presence rooms, workspace sessions, reconnect snapshots, sequences | upgrade, subscribe, unsubscribe, message, ack, heartbeat, close, stop, broadcast | five registries change together; the upgrade awaits the session resolver; stale connections; reconnection before the loss is noticed | the registries agree; nothing is left of a connection that is gone |
| realtime client (`apps/web/src/lib/realtime`) | the socket, wanted subscriptions, last sequence per topic | connect, reconnect, subscribe, receive | events of a replaced socket; server restarts | an event is shown at most once and in order; a gap is noticed |
| intake of mutations, drafts, projections (`modules/{mutation,draft,projection}`) | versions, stored results by patch id | submit, snapshot | retries, restart | a patch is applied once; a stale base is refused |
| optimistic client stores (`apps/web/src/lib/{drafts,projections,mutations}`) | remote fields and version, overlay of pending patches, queue | enqueue, result, realtime event, hydrate, retry, rollback | answers, events and snapshots arrive in any order | what the user sees is the server's state plus what is still pending |
| web session (`providers/session-*.tsx`, `lib/session`, `lib/routing`) | the local storage, the session of each tab | restore, bootstrap, sign-in, sign-out, the guards | requests are in flight while the user acts; several tabs share the storage; a logout may fail | what the user did last stands |
| list of contributions (`contributions/page.tsx`, `listPosts`) | the posts shown, cursor, filter, requests under way | load, load more, filter, retry, create | loads overlap; a filter's load fails; the cursor is coarser than the column | paging loses and repeats nothing |
| rate limiter (`security/rate-limiter.ts`) | a window per key | consume | window boundary | (nothing but its unit test constructs it) |
| capabilities and roles (`modules/auth/capabilities.ts`) | none | lookup | - | static tables |

Calls and messages between them: the web client calls the API over HTTP with an
access token, which `middleware/request-actor` resolves into an actor at the start of a
request; a token that leads to no session leaves the actor to the `x-actor` headers. Handlers of
the contribution routes publish the service's events into the realtime broadcaster; the intake
services publish nothing, although the stores of the client can take their answers as events,
too. The websocket upgrade resolves the same access token once.

## Modules

| module | what it is |
|---|---|
| `ContributionDomain` | the pure rules of `packages/domain`, as operators |
| `ContributionService` | the contribution service on its repositories, pool and unit of work, several requests in flight |
| `PostLifecycle` | the abstract specification: what a post promises when each command takes effect in one step |
| `MCContributionService` | symmetry for the TLC instances of `ContributionService` |
| `ContributionServiceProofs` | the inductive invariant of the service and the theorems; on top of it what answers promise and what the event log explains, and the refinement of `PostLifecycle` by the memory backend |
| `AuthSession` | accounts and sessions: the middleware, the auth handlers and the two resilient stores, cut at their queries |
| `MCAuthSession` | one TLC instance of sessions and of accounts, where one of two people has the other's e-mail for a username |
| `AuthSessionProofs` | the inductive invariants of tokens, of the pairs of one session and of accounts, and the theorems |
| `RealtimeRuntime` | the realtime runtime of the API with its connection, presence and workspace session registries |
| `MCRealtimeRuntime` | symmetry for its TLC instance |
| `RealtimeRuntimeProofs` | the inductive invariant of the registries and the theorems |
| `DraftSync` | the shared draft of a post: service, optimistic stores and pages composed over an unreliable network |
| `ProjectionSync` | the shared projection, which is `DraftSync` instantiated once more (`Store == INSTANCE DraftSync WITH ...`) |
| `MutationSync` | the mutation intake and the client's queue with its reconciliation engine |
| `MCSync` | one TLC instance of the three |
| `DraftSyncProofs`, `SyncProofs` | the inductive invariants of drafts and of mutations, and the theorems; projections by an instance of the first |
| `RealtimeClient` | a tab's realtime client and provider against sequences, subscriptions and reconnect snapshots of the server |
| `WebSession` | the session of the web app in several tabs |
| `ContributionList` | the list page and the keyset query |
| `MCWeb` | one TLC instance of the three |
| `RealtimeClientProofs` | the inductive invariant of lines, clients and subscriptions, and the theorems |
| `WebSessionProofs` | the inductive invariant of `WebSession` and the theorem |
| `WebProofs` | the inductive invariant of `ContributionList` and the theorem on paging; the three invariants of the web app side by side |

Modules that model one side in detail name the other side's module where they reduce it:
`RealtimeClient` keeps of the server what a client can tell (`RealtimeRuntime` has the rest), and
`WebSession` keeps of the server the set of valid tokens (`AuthSession` has the rest).

### ContributionService

One request is a value of `Requests`; `stage[r]` says at which await its handler
is suspended, or its answer.  Each action is what runs between two awaits:

    Receive    authentication and body validation, creation policy
    LoadPost   getPostById and the checks that follow   (load)
    ListApplications   listApplicationsByPost and its checks (list)
    Connect    pool.connect, begin                      (connect)
    RereadPost / UpdatePostDetails / UpdatePostState / CreatePost /
    CreateApplication / CreateCollaboration  one statement each (reread, write, pair)
    AppendEvent  one insert into contribution_events    (append)
    PublishRealtime                                      (publish)
    Commit / Rollback                                    (commit, rollback)
    QueryFails, Restart   the faults

`snapshot[r]` is the row the handler has read: it stays while the table moves on.
`acceptApplication` and `transitionContribution` check the snapshot and then write
`where id = $2`; the model writes unconditionally in the same way.

The unit of work is modelled as it is written, not as it is meant: `unit-of-work.ts:14`
calls `transaction(async () => work())` and drops the transactional client, so
every query inside asks the pool for another client and commits on its own.
Hence there is no isolation and no rollback to model; there is a pool client
(`Holders`) kept from `Connect` to `Commit` or `Rollback`, and `ClientFree` as a guard of
every query.  A query that finds a free client is one atomic step.

`acceptApplication` appends its three events with `Promise.all`: `pending[r]` is the set
of inserts still running, in any order; when one fails the handler goes on to its
error answer and the others still happen.

The memory backend (`Backend = "memory"`) awaits only settled promises: a handler runs
to its end before the next request is read, so it is checked with one request in
flight and has no unit of work, no check constraint and no failing query.

Abstractions: type, description and difficulty of a post behave as its title; ids of
rows are those of the requests that insert them; the event's payload and timestamp are
left out; a request that fails validation is one that never arrives
(`Inputs` holds valid bodies only; `creditOffer` may be any finite number in a PATCH,
`validation.ts`, hence 0 is an input of `edit` and `serial`).  Reading (get, list) changes nothing and
is left out here; the keyset query of the list is in `ContributionList`.

### RealtimeRuntime

Every handler of `runtime.ts` is synchronous but the upgrade, which awaits the session
resolver.  So an action is a whole handler with the broadcasts it makes, and an upgrade
is two actions:

    StartUpgrade                 onUpgrade up to the await
    FinishUpgrade, RejectUpgrade the rest: accept, register, replay of a snapshot
    Subscribe, Unsubscribe, HeartbeatAck   messages
    SocketCloses                 onClose, for sockets the server knows as open or closing
    Heartbeat                    sendHeartbeat: snapshots, sessions, stale connections
    Stop                         stop()
    PeerLeaves, Tick             the environment: the peer is gone, time passes

The eight maps of the three registries are the variables `contexts` to `bound`, under the
names of the code where they are short; what a map without an entry and a map with an
empty set have in common is the empty set.  `connectionIdsByScope` is left out: after
`isTopicScopeCompatible` and `authorizeSubscription` a user has one scope per topic, so
a topic stands for the pair.  `link` is the websocket as it is, which the
registries learn later: `silent` is a peer that vanished, `closing` a closing handshake.
A handler that walks over several connections, subscriptions or sessions is one step on
their set; the order within it cannot be seen after it, except for the last broadcast,
which is the one `Farewell` and `Welcome` compute.

Times are ages in heartbeat intervals, counted up to `Horizon`, above which the code
does not tell them apart.  A heartbeat is echoed by the client with the time the server
sent (`lib/realtime/client.ts:171`); `HeartbeatAck` therefore sets the age of the connection
to any smaller one, while `touchConnection` sets the sessions' to zero.  Whoever answers
with another time than the one sent is outside the model.

`roster` is what the two client stores of a room (`lib/realtime/presence.ts`,
`lib/realtime/workspace-sessions.ts`) show: it is replaced by a snapshot and changed by the
broadcasts after it, which a websocket delivers in order.  It is emptied when the client leaves the room.  The
store keys participants by session id and the model by actor; both remove and
add the same, since the messages of one session precede those of the next.

Only subscriptions with presence distinguish topics, so a topic is a room
(`contribution:<id>`) or not (`contribution:list`, `system.actor`).  Which subscriptions a user may make is
decided before any state changes and is not modelled: every authenticated role has
the capabilities asked for.

### AuthSession

One request is a value of `Requests`, `stage[r]` the query at which its handler is suspended, `at[r]`
the store that query went to.  A request resolves its access token first, as the middleware does,
which is a read and, when it finds a session, a touch; a token that is not found makes the actor of
the `x-actor` headers (`header`), so that such a request passes the guards of the route if its headers do.
Then comes the handler:

    Receive, Resolve, Touch, Dispatch        middleware/request-actor, the guards
    Register, FindAccount, CreateSession     register, login
    RotateRead, RotateWrite, RotateInMemory  refresh: rotateByRefreshToken
    RevokeRead, RevokeWrite, RevokeInMemory  logout: revokeByAccessToken
    SessionQueryFails, IdentityQueryFails    runWithFallback, of each store
    CommitUnheard                            a statement commits, its result is lost
    Restart, Tick                            the process, time

A read of Postgres and the update by id that follows are two steps with anybody's steps between them; the
conditions of the update statements are those of the code.  A memory store awaits settled promises
only, so a handler that has reached one finishes before the event loop turns (`Settled`, `Turn`).
When a query fails the whole operation starts again on the memory store, and every later one goes there until
the process restarts: `fallback` and `idFallback` are the two latches.  A statement may also commit and its
result be lost (`CommitUnheard`); the handler then finds its query failed and starts again in memory, or dies.
A rotation of this kind leaves a pair that nobody has (`NoPair`).  A duplicate registration is no conflict on
Postgres: the client wraps the unique violation as it does every error (`db/postgres.ts:43-61`), the repository
looks for the code 23505 in vain (`identity.ts:161`) and takes to memory (`Register`).

A session is named by the login that opened it and a pair of tokens by the request that
minted it, since the code draws both at random.  A client may present any token anybody was ever
answered with, or, with headers, one that nobody was.  `earlier[r]` is history: the requests that had been answered when `r` began, hence
"after" and "in flight together" in the properties are what a client can observe.

Abstractions: `state` and `revoked_at` change together and are one field; `last_seen_at` decides
nothing, its query is kept because it may fail; a password is what the code keeps of it, its
length (`password-hasher.ts` makes a hash that depends on nothing else); names are folded as the
two repositories fold them, which they do differently (`TakenInTable`, `TakenInMemory`).
`revokeBySessionId` has no caller on Postgres.

### DraftSync, ProjectionSync, MutationSync

`DraftSync` composes the in-memory service (`draft/service.ts`), the optimistic store of each client
(`lib/drafts/sync-store.ts`) and the part of the post's page that fetches and sends
(`contributions/[id]/page.tsx`).  The service is synchronous, so a call is one step
(`SubmitPatch`: replay of a remembered answer, refusal of a stale base or another target, or acceptance).  The network
is what makes it hard: a call for a patch that was once made may reach the service at any time and any number of
times, an answer may be lost or come after the page has given up, a snapshot may be overtaken
(`fetched` is a set), and events (`ApplyRealtimeLifecycle`) carry whatever the service remembers,
whenever.  `Restart` empties the service and leaves the pages as they are.

    OnSyncDraft, SyncSucceeds, SyncIsTurnedDown, SyncFails   the page's handler around its await
    LoadDraftSnapshot, GetSnapshot                            the fetch
    EnqueueOptimisticPatch, ApplyPatchResult, Mark...,
    HydrateRemoteSnapshot, RollbackPatch                      the store

`SyncIsTurnedDown` is what the code does with a 409, not what its documents say (see the
disagreements).  The order of the pending list is only displayed and left out, and the local draft,
which the store derives from the remote one and the pending patches at each change, with it.
`logs` is history: the patches accepted in each life of the service.

`ProjectionSync` is the same code once more for workspace projections: the two services, stores and
halves of the page are equal but for names, so the module instantiates `DraftSync` and maps
each operation to the lines of the projection's own files.

`MutationSync` is the intake (`mutation/service.ts`), which numbers mutations per target and changes nothing else, and the
queue and reconciliation engine of the client.

    TurnAway                 401, another actor's envelope, another actor's id: no trace is left
    Repeat                   the remembered result
    Forbid, Turn, Take       a rejection, a conflict or an acknowledgement, each remembered under the id
    Enqueue .. Remove        the queue, as the engine or its caller uses it
    ApplyResult, HandleRealtimeLifecycleEvent   the engine

The service is modelled with all the checks it makes, also those that the guards of its route make before it
(nobody signed in, a capability missing).  Results are remembered by id alone, so another actor's
envelope of the same id is one of the mutations of the instance.  No page calls the engine or the queue, only their tests do,
and neither looks at the status of an entry it is told to mark, roll back, enqueue again or remove: in the model the caller may do
each of these at any time.  The guards are those of the code, `existing` and, in `ApplyResult`, the terminal states and older
acknowledgements; `Enqueued`, `MaxAttempts` and `MaxCrashes` are bounds.

### RealtimeClient

One tab.  A line is a WebSocket with what travels on it in both directions (`up`, `down`); a client
object is kept per access token, as the provider does; the server is its sequences, what each line is
subscribed to and the snapshots it keeps by reconnect token.

    SignIn, SignOut, Visit, Render          the effects of the provider and of the mounted hooks
    OnOpen, OnMessage, OnClose, TimerFires  the handlers of the client object
    Upgrade, ServerTakes, ServerNotices     the server's side of a line
    Publish                                 a broadcast of an update
    Break, Restart                          the network, the server process

A line that breaks loses what travels on it and each end notices in its own time, so the server may
learn of the old line after it has accepted the new one.  `OnMessage` is the ordering guard and
what the mounted page does with the event: `Applies` compares with the last sequence of the scope of the event, as the code does,
although the server counts per topic.  Left out: heartbeats, presence and workspace snapshots (in
`RealtimeRuntime`) and the ten minutes after which an event is stale.

### WebSession

`tabs[b]` is a tab: the page it is on, the session in memory, and the bootstrap, sign-in and
sign-out requests in flight, each at one of its two awaits; `storage` is the
local storage all tabs share.  A page load starts with nothing restored; `Restore` reads the storage and
sends the bootstrap; `BootReturns` sets the session *it was sent with* again, whatever happened
meanwhile, as `session-bootstrap.tsx` does.  `acted`, `outcome` and `overlapped` are history for the
one property.  A storage event of another tab changes nothing: no code listens.

### ContributionList

`rows` are the posts in the order of creation, with the microsecond the column keeps; `ListPosts` is
the keyset query with its cursor, a JavaScript date that has lost the microseconds
(`Cut`): `Found` is its condition, and `Newest` the order and the limit.  `view` is the state of the list page and `requests` what it has asked: loads from the start
replace the list, loads from a cursor are appended to whatever the list is when they
return.  Filters by state and difficulty work like the one by type and are left out, and
with them changes of a post: only creations move the list.

## Runs

| run | instance | what it shows |
|---|---|---|
| `accept` | 4 requests, 2 in flight, 2 users and a guest, 1 post, 3 clients, 1 fault; create, submit, cancel, accept, transition to accepted | the seven safety properties of the concurrent service |
| `edit` | 3 requests, all in flight on 3 clients, 1 user and a guest, 2 titles, credits 0 and 1, 1 fault; create, update, cancel; `FairSpec` | edits, and the only way not to be answered |
| `serial` | memory backend, 4 requests one by one, 2 users, credits 0 and 1, transitions to three states | refinement of `PostLifecycle` and its consequence `OneCollaborationPerPost` |
| `all_or_nothing` | one request in flight, one fault | counterexample: a post is created, the commit fails and the client reads "conflict"; the rollback undoes nothing, the post and its event are in the tables |
| `accept_twice` | 4 requests, no fault | counterexample: two overlapping acceptances, two collaborations of one application |
| `pool_deadlock` | 3 requests, 2 in flight, 2 clients, no fault | counterexample under fairness: both clients held by transactions that wait for a client |
| `registries` | 3 connections of 2 users, a room and another topic, stale after 0 intervals, sessions after 1, tokens kept for 1 | the registries agree, tokens are held once, and the clients show what the registries hold, after every handler |
| `sessions` | sessions: 4 requests, 2 in flight, on Postgres, one of them with an actor of its headers, lifetime 1, time up to 1, 1 fault; or accounts: 3 registrations, logins and reads, 2 in flight, "ann" registered and a second person with her e-mail for a username who is not, 1 fault | what is left of a token after rotation, revocation, expiry, a lost result, the switch to memory and a restart; who may be refused with their own e-mail and password |
| `sync` | drafts: 2 pages, 2 patches of one and 1 of the other, all on one field, one snapshot under way, one restart; or projections: an update of each page, one of them a removal, one rolled back; or mutations: 4 of one post, from no base and bases 0 and 1, by two actors, two of them under one id, one queue, 2 attempts, one restart | an edit counts once, on the version it was made from, and a client only holds as acknowledged what was applied |
| `conflict_retrying` | the same instance | counterexample: an edit the service answered with a conflict is left as one that is being retried |
| `web` | the connection: 1 post and the list, up to 2 sign-ins and 3 lines, four combinations of updates, page changes, renders, breaks and restarts; or the session: 2 tabs, 2 tokens, 2 loads of each, 1 failing request; or the list: 3 posts of 2 types, 2 microseconds in a millisecond, 1 row per answer, 3 requests, 1 failing | subscriptions reach the server and connections come back; the user's last act stands; paging loses nothing |
| `sequences_mixed` | 2 posts, 1 line, 5 updates, a visit of the list and one of a post | counterexample: after a visit of the list the page of a post drops its updates as out of order |

#### Bounds

Four requests are create, apply and two that race, the shortest history in which an
acceptance can be overtaken by an acceptance, a cancellation or a move; two in flight because
every check-then-write race of this code is between two handlers; one post because no statement
touches two; one fault because a handler has at most one recovery path, the catch block.
`PoolSize` is 3 in `accept` so that the pool is never exhausted there: a transaction and
its queries need two clients, and at most two hold one.  In `edit` it equals the
requests in flight so that it can be.  Users and requests are symmetric
(`MCContributionService`) in the runs without liveness.

`registries` has three connections so that two of one user can be in a room while a third
watches or reconnects with a token one of them had; a connection id is used once, as
the code draws fresh ones.  Two topics tell a room from the rest, and rooms do not
interact but through a connection that leaves, which the second topic stands for.  The thresholds are the smallest
that keep the code's order 45 s <= 90 s apart in whole intervals and let a token expire.
A heartbeat may be late by any number of intervals, which covers a blocked event loop.
The deadlock check is on: time can always pass.

`sessions` has four requests because the longest interesting history is a login, a refresh or logout
that races with another, and a request afterwards that shows who won.  One fault is a switch to memory, a lost
result or a restart; two of them, a switch and then a restart, only lead to the table again.  The lifetime of 1 lets a session
expire between the two queries of one handler.  The headers make nobody or a user; the roles above a user may do
no more on these routes, and `public` is refused by them; one request with such headers is a bound of
the instance: it may come at any point of a behaviour, and two of them race like any two requests that were let in.  A behaviour of `sessions` is about sessions or about accounts (`subject`, drawn at
the start; an account only meets a session where a login opens one).  The accounts are of two
people whose names are equal only once folded, which is enough for the two ways of folding to differ, and
three requests let a registration come between, or before, two logins.

`sync` keeps its three subjects apart: they share no state, so a behaviour follows one of them
(`subject`, drawn at the start) and the instance is the sum of the three and not their product.  Two patches of one page
and one of another are the least with which an acknowledgement can be both late for its own page
and stale for the other; one snapshot under way can overtake, and be overtaken by, each of them.
One field makes every edit compete with every other.  Of the mutations one is in a queue, since the entries of a queue
do not touch each other; it starts from base 1, with which it may be acknowledged in either of two places, turned down or,
when its id is taken, refused.  The deadlock check is off, here and in `web`: when every edit has been
made and answered, when the user has left, nothing more has to happen.

`web` keeps its three subjects apart in the same way.  What happens to the connection is bounded by a
`Budget`, and the four of `MCBudgets` are the combinations that interact: two sessions with a line that
breaks, one session with a restart of the server, updates and renders over two sessions, two
breaks with a render between them.  The product of all of them has nothing that one of the four has not,
and does not fit into minutes.  One row per answer and two microseconds in a millisecond make every
row the last of an answer and every second one a neighbour within its millisecond.

#### Reading the properties

`TypeOK` is one per module.  `AnswersAreTruthful` is about both kinds of answers: what a 2xx promises,
and that a refusal by a check leaves nothing.  `StateIsLogged` excludes faults, since a failing
insert leaves a state nobody logged: that is `AllOrNothing`'s counterexample.
`IllegalMovesAreStale` says precisely what the missing condition in `updatePostState` costs: a row leaves the
lifecycle table only by the hand of an overtaken writer, which is why `EventsFollowLifecycle` still
holds of the log (the event carries the state the handler read) while the rows do not
follow the lifecycle.

#### Fairness

`FairSpec` has weak fairness of every handler's next step: the event loop
runs what is ready, and `pg` serves waiters of the pool in order.  A handler blocked on the pool
is not enabled, so nothing is assumed of it.  No client is obliged to send a request and no
fault is fair.  `edit` and `pool_deadlock` switch the deadlock check off: an exhausted pool
stops the system, and that is what the two runs are about.

`web` assumes `FeedFairness`: weak fairness of the reconnect timer, and of the answer of the server to an upgrade, onopen and
onclose together.  A browser fires its timers and reports what has become of a socket, and a running
server answers an upgrade; the bounds let lines break and the server restart only finitely often,
without which no reconnection could be promised.  Nothing is assumed of the user, of messages, or of
the server noticing a lost line.  A line opens and closes once, so that fairness to the
disjunction is fairness to each.

## Disagreements between code and documents

Five have a run: the unit of work that encloses nothing (`all_or_nothing`), the second
collaboration of one response (`accept_twice`), the pool without timeout
(`pool_deadlock`), the conflict that the page takes for a lost call
(`conflict_retrying`) and the
sequences of one scope that two topics count apart (`sequences_mixed`).  The others have none of their own: most
can be read off a single handler, and of the first three a property of a passing run says how far they go.

- `auth-session-runbook.md:87-91` says of a logout that neither token works after it; one that is overtaken by a refresh of its session updates no row (`session.ts:306`), is told `revoked: true` all the same, and the session lives on with the next pair.  `LogoutMissesOnlyOverlap` says that nothing else lets a session survive its logout.
- `auth.test.ts:39-54` expects 409 of a second registration, without a database; with one, the Postgres client has wrapped the unique violation as `DB_QUERY_FAILED` (`db/postgres.ts:43-61`), which `identity.ts:161` does not recognise, so that the repository leaves Postgres and the person is registered again in memory.  `OwnEmailLogsIn` says whom that locks out.
- `collaborative-mutation-foundation/implementation-checklist.md:89` has accepted mutations finalize cleanly; `markRetrying` and `enqueueOptimistic` (`pending-queue.ts:60-87`) mark an acknowledged entry too, and `applyResult` then takes a late conflict or rejection.  `ResultsMoveForward` says that it takes such a mark, and that even then no older acknowledgement comes back.
- `auth-session-runbook.md:92` has all requests after a logout answered with 401; a token that leads to no session, as after a switch of the store, leaves the actor to the `x-actor` headers (`request-actor.ts:136`), and `capability-enforcement-guide.md:455` calls it bad to trust them.
- nothing keeps a username from being somebody else's e-mail (`controller.ts:29` asks for a text), and a login finds either: `OwnEmailLogsIn` makes an exception of it.
- `mutation-contracts.md:71` makes `mutationId + actorId` the idempotency key; the service remembers by `mutationId` and refuses another actor's mutation of the same id.
- `contribution-engine.md:66` asks for one valid response before `open -> accepted`; `transitionContribution` asks only the table.
- `db-relationship-validation.md:23` allows one active application per user and post; `submitApplication` inserts without looking and the table has no unique constraint.
- `contribution-persistence-strategy.md:58` refuses stale updates with a conflict; `updatePostState` and `updatePostDetails` write unconditionally.
- `realtime-event-contracts.md:49` publishes after commit; `publishRealtime` is awaited inside the unit of work.
- `presence-system.md:25` lets a revoked session end its presence at once, and `implementation-checklist.md:175` its connection; the actor of a websocket is resolved once, at the upgrade, and nothing looks at the session again.
- when one of two connections of a user in a room closes, `removeConnection` shortens the session's `connectionIds` and tells nobody (an explicit unsubscribe broadcasts `updated`): the ids other clients show are stale until the next change. Participants, which is what the client displays, stay right.
- the migration checks `credit_offer > 0`; the memory repository accepts 0 in a PATCH.

## Proofs

`ContributionServiceProofs` proves, for any users, posts, requests, pool size, fault bound and both
backends, from the assumptions `ServiceAssumption` and `NullAssumption` of the module:

- `Invariance`: `Spec => []IInv`, from which `TypeCorrect`, `LifecycleLogged`, `PartiesCorrect` and `BroadcastDurable` follow;
- `OnlyStaleWritersBreakLifecycle`: the action property `IllegalMovesAreStale`;
- `CreditPositive`: on Postgres `[]CreditStaysPositive`.

`TypeOK` is not inductive: `Moved(r)` has the type of an event only if the handler's snapshot
is a post, and no conjunct of `TypeOK` says so at the stages where it is used.  `IInv` adds what a
*suspended* handler may rely on (`Suspended`): which inputs can be at which stage, that its
snapshot is a post with the creator the table still has, that an acceptance between
its checks and its writes has a matching application by somebody else, and that the move it is
about to log was legal from the state it read.  Creators never change and
rows never disappear, so these facts survive the steps of other requests; the current
state of the post does not, and is nowhere in `IInv`, which is the point of
`IllegalMovesAreStale`.

It proves from the same assumptions, again for any concurrency and faults, `AnswersCorrect`
(`AnswersAreTruthful`), `StatesExplained` (`StateIsLogged`) and the action property `EditsCorrect` (`EditsKeepState`).
`AnswersAreTruthful` speaks of answers only; its strengthening `AInv` says what a handler has left behind wherever it is
suspended (`Left`): no row, event or entry to append before its first write, all of them from its last row on, events to
append that are its own, and an acceptance that only writes when it has found its application.  One lemma, `Elsewhere`,
says that the steps of one handler do not touch this of another; the rest is one lemma per phase of a
handler, and one for a restart.  For `StateIsLogged` the handler that moved a post last is the witness (`Explains`): what it has built
never shrinks unless something fails, and that is why the property excludes faults.

Its last part proves the refinement of `PostLifecycle` and its consequence `OneCollaborationPerPost` under

    Serial == Backend = "memory" /\ MaxInFlight = 1

that is, for the memory backend, for any users, posts, requests and bodies.  `SInv` says that the one handler
in flight is alone (`Alone`) and that the row it has read is the row it is about to write (`Current`), which is
exactly what fails with two requests in flight.  Each first write of a handler is then one command of
the abstract specification (`CreateImplements`, `EditImplements`, `MoveImplements`, `ApplyImplements`,
`AcceptImplements`), and the second row of an acceptance and every insert of an event are stutters
(`PairStutters`, `AppendStutters`), since the mapping counts them from the first write on.  `OneCollaborationPerPost`
follows from the abstract steps alone: accepted is entered from `open` and `in_review` only, and no transition leads
from any other state to one of these (`NeverReoffered`).

`RealtimeRuntimeProofs` proves for any connections, users, topics, rooms and thresholds, from
`RuntimeAssumption` and `NullsAssumption`, each of the six properties of `registries`
as a theorem of `Spec`.  One inductive invariant carries them:

    IInv == TypeOK /\ Agreement /\ Upgraded /\ TokenHeldOnce /\ RosterIsCurrent

- `Agreement` adds `SeenTogether` to the three agreements: a workspace session was seen
  at least as lately as each of its connections.  Without it `SessionsAgree` is not
  inductive, since `cleanupStaleSessions` evicts sessions without looking at connections.  With it, an evicted
  session is idle for more than `SessionStaleAfter`, hence so is each of its connections, hence, by
  `StaleAfter <= SessionStaleAfter` (45 s and 90 s in the code), the same heartbeat disconnects them
  all.  This is the only use of that assumption, and lowering the 90 s below the 45 s breaks it.
- `Upgraded` says that nothing is registered and no token given out before its upgrade has
  ended, so the token a new connection draws is nobody's.

The proof has one lemma for joining (`JoinStep`, a message or a replay), one for leaving
(`LeaveStep`, a set of connections and the evicted sessions), one for `Unsubscribe`, one for handlers that touch
no registry, and then one per handler.

`AuthSessionProofs` proves for any requests, people, names, headers, lifetimes, faults and both backends, from
`AuthAssumption`, `AuthNulls` and `AuthClients`: `TypeCorrect`, `IndexCorrect`, `RotationIsOnce` (`ReplaysOverlap`), `LogoutIsHonoured`
(`NoActorAfterLogout`) and the action property `RevocationIsFinal` (`RevokedStaysRevoked`).  None of the last three
is inductive, since each compares requests that are over.  `IInv` says what is left in the
stores instead: the refresh token of a rotation that committed is in neither store (`Spent`), and
what is found under the access token of a logout that succeeded is revoked (`Dead`).  A token
never comes back because a new pair is named by a request that has not been answered, or is one that nobody
has (`Held`, `StoresApart`): a rotation whose answer was lost puts `NoPair` into its row, and no request can present it.
A request that began after the rotation or the logout then finds nothing, or a revoked
session, at its first read, and `AfterRotation` and `AfterLogout` follow it from there to its answer; a request that
finds nothing is followed only if its headers make nobody, since otherwise they make its actor.  `RotatingOne` and
`RevokingRows` are what lies between the read and the write of the two operations on Postgres:
nobody else can have come by the token meanwhile, although the session itself may have been rotated or revoked.

`LogoutRevokes` (`LogoutMissesOnlyOverlap`) and `TokensLiveOn` (`TokensDieByRotation`) are about the successive pairs of one
session, and `IInv` says nothing of who replaced whom.  `Lineage` does.  A pair is written whole, and the request that
minted the pair of a row has read that row, so that the pair of every row is the last link of a chain of
rotations, up to one that nobody heard of, which ends it.  A rotation or a logout about to write finds the session as it
read it, or a rotation of this session that was not over when it began has written in between; the rotations that count are
those that have committed (`Rotations`), answered or not.  The properties follow request by request, each with that rotation
as its witness, because "in flight together" is settled only when one of the two has been answered.
Every action is shown to keep the lineage: those that touch no row, a rotation, heard or unheard, and a revocation.

`OwnersLogIn` is the action property `OwnEmailLogsIn`, for any people and any names, from the assumption
alone that the rows Postgres starts with satisfy its two unique constraints (`AuthAssumption`).  `Directory` is its invariant:
the rows of Postgres satisfy them ever after, nobody who was registered disappears, and a process that has left Postgres did so for a
fault or because of a registration that clashes with another (`Duplicate`).  That a username may be another's e-mail, which nothing
forbids, is one of the exceptions of the property and not a hypothesis.

`DraftSyncProofs` proves for any clients, patches, fields, targets, snapshots under way and restarts,
from `DraftAssumption` and `DraftNulls`, the four invariants of `DraftSync`.

    IInv == DraftTypeOK /\ DraftIsItsEdits /\ AcceptedWereMade /\ EditsFollowTheirBase
            /\ NothingFromTheFuture /\ AcknowledgedWasApplied /\ ReturnedWasApplied

`EditsFollowTheirBase` needs an upper bound of every version a page may hold, and a page may take one from a
snapshot under way or from an acknowledgement: `NothingFromTheFuture` bounds all of them by the version of the
draft in the first life of the service.  `ReturnedWasApplied` carries `AcknowledgedWasApplied` over
the answer that is still on its way when the service restarts.

`SyncProofs` proves `MutationsCountOnce` and the action property `ResultsMoveForward` for any
mutations, actors, ids, targets, bases, attempts and restarts, from `MutationAssumption` and `MutationNulls`; the
type invariant, which says by which answer an entry is shown as settled, is what the second one needs.  That what the
service remembers of a counted mutation is never written over, although an id may be used by two, is one
lemma for all the ways of answering (`AnsweredStep`).
It also proves `ProjectionIsItsUpdates` (`ProjectionCorrect`), from `ProjectionAssumption` and `ProjectionNulls`: `Twin` is `DraftSyncProofs` with the
constants and variables of projections, every action of `ProjectionSync` is shown to be one of `Twin`
(`TwinNext`), and the invariant of drafts is then that of projections.

`RealtimeClientProofs` proves for any posts, sessions, lines and budgets, from the assumptions of `RealtimeClient`,

    FeedIInv == Typed /\ Wired /\ Reached /\ Counts

and from it `OneLine` (`OneLineOfTheSession`), `PagesAreServed` (`SubscriptionsReach`) and `FeedTypes`.  The first needs `Wired`, which ties
each line to the client whose socket it is, and a timer to the client of the session that has no socket: a late
onclose or a timer of an earlier session finds the client closed for good.  The second is a claim about lines whose frames have all been
taken, and is inductive only as a claim about all lines: `Asked` says of each topic what the server *will* hold when it has
taken the frames on their way, that is, what the last frame about it asks for (`Stands`).  What the
page wants is then one set in three places, the provider's reference, the client's subscriptions and the page (`Reached`).  That a page
loads at most once per update, though an update may come by two topics and after a reconnect by two lines, is a count: loads so far,
with the updates that are on a line in use and were not seen yet (`Pending`), are at most the updates published.

`WebSessionProofs` proves `LastActStands` for any number of tabs, sign-ins, page loads and failing requests, from
`WebSessionAssumption`.  `InOrder` is the strengthening: nobody acts on a page that has not
restored its session, and an act while the bootstrap is out is known to overlap it.

`WebProofs` proves `PagesCover` (`PagesCoverTheList`) for any types, posts, sizes of a page, microseconds in a millisecond, requests and
failures, from `ContributionListAssumption`, with

    ListIInv == ListTyped /\ Ascending /\ Standing /\ Straight

`Standing` says of what is on the page or on its way to it that it speaks of rows there are, and of each answer what
it was made of (`IsPage`): rows that were asked for, each once, and all of those down to its last.  `Straight` is the
property while a request is out as well, with what makes the next answer fit: a request for more goes on from the
cursor the list still has (`Fits`), and the list ends with the row of its cursor (`Covered`).  Two lemmas do the work.
`ListPostsIsPage` is about the query: the rank of a row among those found is its place in the answer, so the answer
is what a page has to be (`Ranks`, `NewestProperties`).  `AfterRow` is about the cursor that has lost its
microseconds: a row below the last one is either after the cursor or in the millisecond of that last
row, and this is the exception the property makes.

`WebTypes` (`WebTypeOK`) is about the composition `MCWeb`: a step of the connection, of the session or of the list leaves the other
two alone, so that the three invariants hold side by side (`WebInvariance`).

Every invariant and every action property of the runs is a theorem.  Only model-checked, because they are out of the prover's reach: the
liveness properties `AnsweredOrExhausted` and `Reconnects`.  Not checked: that a lost peer is
noticed in the end by the server.  It needs fairness of its timer and of the clock, and with the three
connections the safety properties need, the check takes longer than the rest of the runs together.

## Not modelled

- The rate limiter: nothing but its unit test constructs it.
- Request middleware, input validation and the texts of errors: stateless checks of one request; a request that
  fails them is one that never arrives.
- Server lifecycle and configuration: wiring.  A restart of the process is an action of every module whose
  state it clears.
- Wire contracts: declarations and constants, which the modules use.
- The markup of the pages; of the page of a post, the applications, edits and transitions, each of which sends one request and shows
  its answer.
- The local draft and projection a store derives for display, times and reasons of a queue entry, `removeAcknowledged`, and the
  predicates `shouldRetryMutation` and `selectReplayablePendingMutations`, which nothing calls.
- On the client, presence and workspace frames, heartbeats and the age at which an event is stale.
- The composition of `AuthSession` with `RealtimeRuntime`: the runtime resolves an actor once and never
  looks at the session again, so the composition would show that and nothing more.

## Plan

Done, in this order: `ContributionService`, `RealtimeRuntime`, `AuthSession`, `DraftSync` with
`ProjectionSync`, `MutationSync`, `RealtimeClient`, `WebSession`, `ContributionList`, and the proof modules listed
above.  Left:

1. A list whose posts change state while it is paged.
2. The sequences of updates (`sequences_mixed`) as a theorem: under which visits no update is dropped.
3. Theorems on the composition of drafts, projections and mutations in `MCSync`, as there is one on that of the web app.
