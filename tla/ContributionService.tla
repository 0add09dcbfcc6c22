------------------------ MODULE ContributionService ------------------------
(***************************************************************************)
(* The contribution application service of apps/api                        *)
(* (modules/contribution/service.ts) on its repositories, its unit of work *)
(* and the Postgres client, with several requests in flight.               *)
(*                                                                         *)
(* A request is a sequence of steps cut at the awaits of its handler: each *)
(* query of the repository is one step, and other requests run between two *)
(* of them.  The row a handler has read stays in snapshot[r] while the     *)
(* table moves on.                                                         *)
(*                                                                         *)
(* The unit of work takes a client from the pool and sends begin and       *)
(* commit on it, but the repositories keep the client they were built      *)
(* with: every query inside the unit of work asks the pool for another     *)
(* client and commits on its own.  Hence a write is visible as soon as it  *)
(* is made, a rollback undoes nothing, and a query made in a transaction   *)
(* needs a client no transaction holds.                                    *)
(*                                                                         *)
(* Backend = "memory" is the service without DATABASE_URL: Maps instead of *)
(* tables, no unit of work, no check constraint, no failing query.  There  *)
(* a handler awaits only settled promises, so it runs to its end before    *)
(* the next request is read: that backend is checked with MaxInFlight = 1. *)
(***************************************************************************)
EXTENDS ContributionDomain, FiniteSets

CONSTANTS
  Users,        \* authenticated users; every role but public may do all of this
  Guest,        \* the actor of a request without a valid session
  Posts,        \* the post ids that may be created
  Requests,     \* the requests that may be received, each handled once
  Titles,       \* values of an editable text field
  Credits,      \* values of creditOffer a body may carry
  Keep,         \* a field a PATCH body leaves out
  NoPost, NoInput,
  Ops,          \* the operations this instance receives
  Targets,      \* the states a transition request may ask for
  Backend,      \* "postgres" or "memory"
  PoolSize,     \* clients in the pg pool
  MaxInFlight,  \* bound: requests handled at one time
  MaxFaults     \* bound: failed queries, failed publications and restarts

AllOps == {"create", "update", "cancel", "transition", "submit", "accept"}

ASSUME ServiceAssumption ==
  /\ Guest \notin Users
  /\ Credits \subseteq Int
  /\ Keep \notin Titles \cup Credits
  /\ Ops \subseteq AllOps
  /\ Targets \subseteq PostStates
  /\ Backend \in {"postgres", "memory"}
  /\ PoolSize \in Nat \ {0}
  /\ MaxInFlight \in Nat \ {0}
  /\ MaxFaults \in Nat

VARIABLES
  posts,           \* contribution_posts
  applications,    \* contribution_applications; an id is that of the request
  collaborations,  \* contribution_collaborations
  events,          \* contribution_events
  published,       \* events handed to the realtime broadcaster
  stage,           \* where the handler of each request is, or its answer
  input,           \* the actor, route parameters and body of each request
  snapshot,        \* the post row a handler last read
  pending,         \* events a handler has built and not yet appended
  faults

tables == <<posts, applications, collaborations, events>>
vars == <<posts, applications, collaborations, events, published,
          stage, input, snapshot, pending, faults>>

-----------------------------------------------------------------------------
Post == [creator: Users, title: Titles, credit: Int, state: PostStates]

Application == [id: Requests, post: Posts, applicant: Users]

Collaboration ==
  [id: Requests, post: Posts, requester: Users, contributor: Users]

EventTypes ==
  {"post.created", "post.updated", "post.state_changed",
   "application.submitted", "application.accepted", "collaboration.started"}

NoState == "none"

\* "by" stands for the random event id: no request appends two of one type.
Event ==
  [by: Requests, type: EventTypes, post: Posts,
   from: PostStates \cup {NoState}, to: PostStates \cup {NoState}]

Actors == Users \cup {Guest}

Inputs ==
  {i \in      [op: {"create"}, actor: Actors, title: Titles, credit: Credits]
         \cup [op: {"update"}, actor: Actors, post: Posts,
               title: Titles \cup {Keep}, credit: Credits \cup {Keep}]
         \cup [op: {"cancel", "submit"}, actor: Actors, post: Posts]
         \cup [op: {"transition"}, actor: Actors, post: Posts, target: Targets]
         \cup [op: {"accept"}, actor: Actors, post: Posts, app: Requests] :
     /\ i.op \in Ops
     /\ i.op = "update" => i.title # Keep \/ i.credit # Keep}

ASSUME NullAssumption == NoPost \notin Post /\ NoInput \notin Inputs

Answers ==
  {"ok", "unauthenticated", "forbidden", "not_found", "invalid", "conflict",
   "lost"}

\* The stages at which a request holds the client its unit of work took.
TransactionStages ==
  {"reread", "write", "pair", "append", "publish", "commit", "rollback"}

Stages ==
  {"idle", "load", "list", "connect"} \cup TransactionStages \cup Answers

TypeOK ==
  /\ posts \in [Posts -> Post \cup {NoPost}]
  /\ applications \subseteq Application
  /\ collaborations \subseteq Collaboration
  /\ events \subseteq Event
  /\ published \subseteq Event
  /\ stage \in [Requests -> Stages]
  /\ input \in [Requests -> Inputs \cup {NoInput}]
  /\ snapshot \in [Requests -> Post \cup {NoPost}]
  /\ pending \in [Requests -> SUBSET Event]
  /\ faults \in Nat

-----------------------------------------------------------------------------
InFlight == {r \in Requests : stage[r] \notin {"idle"} \cup Answers}

Holders == {r \in Requests : stage[r] \in TransactionStages}

\* A query, and the connect of a unit of work, waits for a client that no
\* transaction holds: the pool has no timeout, and a client that only runs a
\* query goes back to the pool by itself.
ClientFree == Backend = "postgres" => Cardinality(Holders) < PoolSize

\* Where a handler goes when its checks have passed: unitOfWork.run, or the
\* write at once when there is no unit of work.
BeginWork == IF Backend = "postgres" THEN "connect" ELSE "write"

\* Where it goes when the last event is published.
EndWork == IF Backend = "postgres" THEN "commit" ELSE "ok"

Goto(r, s) == stage' = [stage EXCEPT ![r] = s]

EventOf(r, type, p, from, to) ==
  [by |-> r, type |-> type, post |-> p, from |-> from, to |-> to]

Plain(r, type, p) == EventOf(r, type, p, NoState, NoState)

\* Ends the write of r: the events to append are built.
Built(r, es) == pending' = [pending EXCEPT ![r] = es]

-----------------------------------------------------------------------------
\* Authentication and, for a new post, the policy on its credit offer: the
\* checks made before anything is read.
Admission(i) ==
  CASE i.actor = Guest -> "unauthenticated"
    [] i.actor # Guest /\ i.op = "create" ->
         IF PositiveCredit(i.credit) THEN BeginWork ELSE "invalid"
    [] OTHER -> "load"

PostsBooked ==
  {r \in Requests : input[r] # NoInput /\ input[r].op = "create"}

\* A request arrives.  Bounds: MaxInFlight, and no more creations than ids.
Receive(r, i) ==
  /\ stage[r] = "idle"
  /\ Cardinality(InFlight) < MaxInFlight
  /\ i.op = "create" => Cardinality(PostsBooked) < Cardinality(Posts)
  /\ input' = [input EXCEPT ![r] = i]
  /\ Goto(r, Admission(i))
  /\ UNCHANGED <<tables, published, snapshot, pending, faults>>

\* Mutants of Verdict: a transition request skips the transition table;
\* applications are taken on any post.
Verdict_MoveAnything(i, post) ==
  CASE post = NoPost -> "not_found"
    [] post # NoPost /\ i.op = "accept" -> "list"
    [] post # NoPost /\ i.op = "submit" ->
         IF CanSubmitApplication(post, i.actor) THEN BeginWork ELSE "invalid"
    [] OTHER ->
         IF post.creator # i.actor THEN "forbidden"
         ELSE IF i.op = "cancel" /\ ~CanTransition(post.state, "cancelled")
              THEN "invalid"
              ELSE BeginWork

Verdict_ApplyAnytime(i, post) ==
  CASE post = NoPost -> "not_found"
    [] post # NoPost /\ i.op = "accept" -> "list"
    [] post # NoPost /\ i.op = "submit" ->
         IF post.creator # i.actor THEN BeginWork ELSE "invalid"
    [] OTHER ->
         IF post.creator # i.actor THEN "forbidden"
         ELSE IF \/ i.op = "cancel" /\ ~CanTransition(post.state, "cancelled")
                 \/ i.op = "transition" /\ ~CanTransition(post.state, i.target)
              THEN "invalid"
              ELSE BeginWork

\* What a handler decides from the row it has just read.
Verdict(i, post) ==
  CASE post = NoPost -> "not_found"
    [] post # NoPost /\ i.op = "accept" -> "list"
    [] post # NoPost /\ i.op = "submit" ->
         IF CanSubmitApplication(post, i.actor) THEN BeginWork ELSE "invalid"
    [] OTHER ->
         IF post.creator # i.actor THEN "forbidden"
         ELSE IF \/ i.op = "cancel" /\ ~CanTransition(post.state, "cancelled")
                 \/ i.op = "transition" /\ ~CanTransition(post.state, i.target)
              THEN "invalid"
              ELSE BeginWork

\* getPostById and the checks that follow it.
LoadPost(r) ==
  /\ stage[r] = "load"
  /\ ClientFree
  /\ snapshot' = [snapshot EXCEPT ![r] = posts[input[r].post]]
  /\ Goto(r, Verdict(input[r], posts[input[r].post]))
  /\ UNCHANGED <<tables, published, input, pending, faults>>

\* The rows listApplicationsByPost returns, restricted to the id of the route.
Wanted(i) ==
  {a \in applications : a.id = i.app /\ a.post = i.post}

\* Mutant: acceptApplication does not ask the transition table.
ListApplications_Unchecked(r) ==
  /\ stage[r] = "list"
  /\ ClientFree
  /\ Goto(r, IF Wanted(input[r]) = {} THEN "not_found"
             ELSE IF ~CanAcceptApplication(snapshot[r], input[r].actor)
                  THEN "forbidden"
             ELSE BeginWork)
  /\ UNCHANGED <<tables, published, input, snapshot, pending, faults>>

\* listApplicationsByPost and the checks of acceptApplication, made against
\* the post read by the query before.
ListApplications(r) ==
  /\ stage[r] = "list"
  /\ ClientFree
  /\ Goto(r, IF Wanted(input[r]) = {} THEN "not_found"
             ELSE IF ~CanAcceptApplication(snapshot[r], input[r].actor)
                  THEN "forbidden"
             ELSE IF ~CanTransition(snapshot[r].state, "accepted") THEN "invalid"
             ELSE BeginWork)
  /\ UNCHANGED <<tables, published, input, snapshot, pending, faults>>

\* transaction(): a client is taken from the pool and kept, begin is sent.
Connect(r) ==
  /\ stage[r] = "connect"
  /\ ClientFree
  /\ Goto(r, IF input[r].op = "update" THEN "reread" ELSE "write")
  /\ UNCHANGED <<tables, published, input, snapshot, pending, faults>>

-----------------------------------------------------------------------------
CreatePost(r) ==
  /\ stage[r] = "write" /\ input[r].op = "create"
  /\ ClientFree
  /\ \E p \in Posts :
       /\ posts[p] = NoPost
       /\ posts' = [posts EXCEPT ![p] =
                      [creator |-> input[r].actor, title |-> input[r].title,
                       credit |-> input[r].credit, state |-> "open"]]
       /\ Built(r, {Plain(r, "post.created", p)})
  /\ Goto(r, "append")
  /\ UNCHANGED <<applications, collaborations, events, published, input,
                 snapshot, faults>>

\* The first query of updatePostDetails reads the row again.
RereadPost(r) ==
  /\ stage[r] = "reread"
  /\ ClientFree
  /\ snapshot' = [snapshot EXCEPT ![r] = posts[input[r].post]]
  /\ Goto(r, "write")
  /\ UNCHANGED <<tables, published, input, pending, faults>>

Field(patch, old) == IF patch = Keep THEN old ELSE patch

\* Mutant: the whole row read before is written back.
Patched_WholeRow(r, row) ==
  LET base == IF Backend = "postgres" THEN snapshot[r] ELSE row
  IN [base EXCEPT !.title  = Field(input[r].title, base.title),
                  !.credit = Field(input[r].credit, base.credit)]

\* The row the second query of updatePostDetails writes: every editable column,
\* those the body leaves out with the value read before.  The Map of the memory
\* backend is read and written in one step.
Patched(r, row) ==
  LET base == IF Backend = "postgres" THEN snapshot[r] ELSE row
  IN [row EXCEPT !.title  = Field(input[r].title, base.title),
                 !.credit = Field(input[r].credit, base.credit)]

\* Mutant: the column has no check.
RowAccepted_Always(row) == row # NoPost

\* check (credit_offer > 0) of the migration.
RowAccepted(row) == Backend = "postgres" => PositiveCredit(row.credit)

UpdatePostDetails(r) ==
  /\ stage[r] = "write" /\ input[r].op = "update"
  /\ ClientFree
  /\ LET p == input[r].post
         row == Patched(r, posts[p])
     IN IF RowAccepted(row)
        THEN /\ posts' = [posts EXCEPT ![p] = row]
             /\ Built(r, {Plain(r, "post.updated", p)})
             /\ Goto(r, "append")
        ELSE /\ Goto(r, "rollback")
             /\ UNCHANGED <<posts, pending>>
  /\ UNCHANGED <<applications, collaborations, events, published, input,
                 snapshot, faults>>

NextState(i) ==
  CASE i.op = "cancel"     -> "cancelled"
    [] i.op = "transition" -> i.target
    [] OTHER               -> "accepted"

Moved(r) ==
  EventOf(r, "post.state_changed", input[r].post, snapshot[r].state,
          NextState(input[r]))

\* updatePostState: the statement names the post and not the state it was in.
UpdatePostState(r) ==
  /\ stage[r] = "write" /\ input[r].op \in {"cancel", "transition", "accept"}
  /\ ClientFree
  /\ posts' = [posts EXCEPT ![input[r].post].state = NextState(input[r])]
  /\ IF input[r].op = "accept"
     THEN Goto(r, "pair") /\ UNCHANGED pending
     ELSE Goto(r, "append") /\ Built(r, {Moved(r)})
  /\ UNCHANGED <<applications, collaborations, events, published, input,
                 snapshot, faults>>

CreateApplication(r) ==
  /\ stage[r] = "write" /\ input[r].op = "submit"
  /\ ClientFree
  /\ applications' = applications \cup
       {[id |-> r, post |-> input[r].post, applicant |-> input[r].actor]}
  /\ Built(r, {Plain(r, "application.submitted", input[r].post)})
  /\ Goto(r, "append")
  /\ UNCHANGED <<posts, collaborations, events, published, input, snapshot,
                 faults>>

\* Mutant: the move of the post is not logged.
AcceptEvents_NoMove(r) ==
  {Plain(r, "application.accepted", input[r].post),
   Plain(r, "collaboration.started", input[r].post)}

AcceptEvents(r) ==
  {Plain(r, "application.accepted", input[r].post), Moved(r),
   Plain(r, "collaboration.started", input[r].post)}

\* Mutant: the id of the application takes the place of its applicant.
NewCollaborations_RowId(r) ==
  {[id |-> r, post |-> input[r].post, requester |-> snapshot[r].creator,
    contributor |-> a.id] : a \in Wanted(input[r])}

\* createCollaboration, with the parties read before the unit of work began.
NewCollaborations(r) ==
  {[id |-> r, post |-> input[r].post, requester |-> snapshot[r].creator,
    contributor |-> a.applicant] : a \in Wanted(input[r])}

CreateCollaboration(r) ==
  /\ stage[r] = "pair"
  /\ ClientFree
  /\ collaborations' = collaborations \cup NewCollaborations(r)
  /\ Built(r, AcceptEvents(r))
  /\ Goto(r, "append")
  /\ UNCHANGED <<posts, applications, events, published, input, snapshot,
                 faults>>

-----------------------------------------------------------------------------
\* Mutant: the handler goes on when the first of its inserts has settled.
AppendEvent_First(r, e) ==
  /\ e \in pending[r]
  /\ ClientFree
  /\ events' = events \cup {e}
  /\ pending' = [pending EXCEPT ![r] = @ \ {e}]
  /\ IF stage[r] = "append" THEN Goto(r, "publish") ELSE UNCHANGED stage
  /\ UNCHANGED <<posts, applications, collaborations, published, input,
                 snapshot, faults>>

\* One insert into contribution_events.  acceptApplication starts its three at
\* once and awaits them together.  When one has failed the others still run,
\* after the handler has gone on: then only the row appears.
AppendEvent(r, e) ==
  /\ e \in pending[r]
  /\ ClientFree
  /\ events' = events \cup {e}
  /\ pending' = [pending EXCEPT ![r] = @ \ {e}]
  /\ IF stage[r] = "append" /\ pending[r] = {e}
     THEN Goto(r, "publish")
     ELSE UNCHANGED stage
  /\ UNCHANGED <<posts, applications, collaborations, published, input,
                 snapshot, faults>>

\* The event types the publisher of routes.ts broadcasts.
LiveTypes == {"post.created", "post.updated", "post.state_changed"}

\* The events the handler of r has built, appended by now or not.
BuiltEvents(r) == {e \in events : e.by = r} \cup pending[r]

\* publishRealtime: an exception of the broadcaster is logged and dropped.
PublishRealtime(r) ==
  /\ stage[r] = "publish"
  /\ \/ /\ published' = published \cup {e \in BuiltEvents(r) : e.type \in LiveTypes}
        /\ UNCHANGED faults
     \/ /\ faults < MaxFaults
        /\ faults' = faults + 1
        /\ UNCHANGED published
  /\ Goto(r, EndWork)
  /\ UNCHANGED <<tables, input, snapshot, pending>>

\* commit on the client of the transaction, release, response.
Commit(r) ==
  /\ stage[r] = "commit"
  /\ Goto(r, "ok")
  /\ UNCHANGED <<tables, published, input, snapshot, pending, faults>>

\* The catch block: rollback on a client that made none of the writes, release,
\* and an error answer.
Rollback(r) ==
  /\ stage[r] = "rollback"
  /\ Goto(r, "conflict")
  /\ UNCHANGED <<tables, published, input, snapshot, pending, faults>>

-----------------------------------------------------------------------------
\* Mutants: a failed insert is taken for a finished one; a failed insert leaves
\* its handler waiting.
QueryFails_Swallowed(r) ==
  /\ Backend = "postgres"
  /\ faults < MaxFaults
  /\ faults' = faults + 1
  /\ \E e \in pending[r] :
       /\ pending' = [pending EXCEPT ![r] = @ \ {e}]
       /\ IF stage[r] = "append" /\ pending[r] = {e}
          THEN Goto(r, "publish")
          ELSE UNCHANGED stage
  /\ UNCHANGED <<tables, published, input, snapshot>>

QueryFails_Hangs(r) ==
  /\ Backend = "postgres"
  /\ faults < MaxFaults
  /\ faults' = faults + 1
  /\ \E e \in pending[r] : pending' = [pending EXCEPT ![r] = @ \ {e}]
  /\ UNCHANGED <<tables, published, input, snapshot, stage>>

\* A query is rejected and has had no effect.  PersistenceRuntimeError is no
\* service error: the client is told of a conflict.
QueryFails(r) ==
  /\ Backend = "postgres"
  /\ faults < MaxFaults
  /\ faults' = faults + 1
  /\ \/ /\ stage[r] \in {"load", "list", "connect"}
        /\ Goto(r, "conflict")
        /\ UNCHANGED pending
     \/ /\ stage[r] \in {"reread", "write", "pair", "commit"}
        /\ Goto(r, "rollback")
        /\ UNCHANGED pending
     \/ \E e \in pending[r] :
        /\ pending' = [pending EXCEPT ![r] = @ \ {e}]
        /\ IF stage[r] = "append" THEN Goto(r, "rollback") ELSE UNCHANGED stage
  /\ UNCHANGED <<tables, published, input, snapshot>>

\* The API process dies and starts again: the tables stay.
Restart ==
  /\ Backend = "postgres"
  /\ InFlight # {}
  /\ faults < MaxFaults
  /\ faults' = faults + 1
  /\ stage' = [r \in Requests |-> IF r \in InFlight THEN "lost" ELSE stage[r]]
  /\ pending' = [r \in Requests |-> {}]
  /\ UNCHANGED <<tables, published, input, snapshot>>

\* All requests are answered: nothing more happens in a bounded instance.
Finished ==
  /\ \A r \in Requests : stage[r] \in Answers /\ pending[r] = {}
  /\ UNCHANGED vars

-----------------------------------------------------------------------------
Init ==
  /\ posts = [p \in Posts |-> NoPost]
  /\ applications = {}
  /\ collaborations = {}
  /\ events = {}
  /\ published = {}
  /\ stage = [r \in Requests |-> "idle"]
  /\ input = [r \in Requests |-> NoInput]
  /\ snapshot = [r \in Requests |-> NoPost]
  /\ pending = [r \in Requests |-> {}]
  /\ faults = 0

\* A step of the handler of r.
Handle(r) ==
  \/ LoadPost(r)
  \/ ListApplications(r)
  \/ Connect(r)
  \/ CreatePost(r)
  \/ RereadPost(r)
  \/ UpdatePostDetails(r)
  \/ UpdatePostState(r)
  \/ CreateApplication(r)
  \/ CreateCollaboration(r)
  \/ \E e \in pending[r] : AppendEvent(r, e)
  \/ PublishRealtime(r)
  \/ Commit(r)
  \/ Rollback(r)

Next ==
  \/ \E r \in Requests, i \in Inputs : Receive(r, i)
  \/ \E r \in Requests : Handle(r) \/ QueryFails(r)
  \/ Restart
  \/ Finished

Spec == Init /\ [][Next]_vars

\* The event loop runs every handler whose promise has settled, and the pool
\* serves its waiters in order; nothing obliges a client to send a request or a
\* query to fail.
Fairness == \A r \in Requests : WF_vars(Handle(r))

FairSpec == Spec /\ Fairness
-----------------------------------------------------------------------------
(***************************************************************************)
(* Properties that hold with any number of requests in flight.             *)
(***************************************************************************)
MovesOf(es) == {e \in es : e.type = "post.state_changed"}

TraceOf(r) == {e \in events : e.by = r}

\* Every state change in the event table is a step of the lifecycle table,
\* although the state it starts from was read two awaits before the event is
\* written (transitionPostState, then updatePostState, then appendEvent).
EventsFollowLifecycle ==
  \A e \in MovesOf(events) : CanTransition(e.from, e.to)

\* A collaboration joins the creator of the post and somebody else who applied
\* to this very post, whatever other requests did between the reads and the
\* writes of acceptApplication.
CollaborationParties ==
  \A c \in collaborations :
    /\ posts[c.post] # NoPost
    /\ c.requester = posts[c.post].creator
    /\ c.contributor # c.requester
    /\ \E a \in applications : a.post = c.post /\ a.applicant = c.contributor

\* Subscribers are told only of events that are in the event table, also when
\* an insert, the commit or the process fails.
PublishedAreDurable == published \subseteq events

Durable(r) ==
  /\ pending[r] = {}
  /\ TraceOf(r) # {}
  /\ input[r].op = "submit" => \E a \in applications : a.id = r
  /\ input[r].op = "accept" =>
       /\ \E c \in collaborations : c.id = r
       /\ {e.type : e \in TraceOf(r)} =
            {"application.accepted", "post.state_changed", "collaboration.started"}

NoTrace(r) ==
  /\ pending[r] = {}
  /\ TraceOf(r) = {}
  /\ \A x \in applications \cup collaborations : x.id # r

\* A 2xx answer means that every row and every event of the request is durable;
\* a request refused by a check has left neither row nor event.
AnswersAreTruthful ==
  \A r \in Requests :
    /\ stage[r] = "ok" => Durable(r)
    /\ stage[r] \in {"unauthenticated", "forbidden", "not_found", "invalid"}
         => NoTrace(r)

\* As long as no query fails, the state of a post is one the event log explains:
\* the initial one, or the target of an event that is in the table or that a
\* handler is about to append.  Concurrent writers do not break this.
StateIsLogged ==
  faults = 0 =>
    \A p \in Posts :
      \/ posts[p] = NoPost
      \/ posts[p].state = "open"
      \/ \E r \in Requests :
           \/ \E e \in MovesOf(BuiltEvents(r)) : e.post = p /\ e.to = posts[p].state
           \/ stage[r] = "pair" /\ input[r].post = p /\ posts[p].state = "accepted"

\* The row of p is about to be written from a snapshot in another state.
StaleWrite(p) ==
  \E r \in Requests :
    /\ stage[r] = "write" /\ stage'[r] # "write"
    /\ input[r].post = p
    /\ snapshot[r].state # posts[p].state

MovesLegalOrStale ==
  \A p \in Posts :
    posts[p] # NoPost /\ posts'[p].state # posts[p].state =>
      CanTransition(posts[p].state, posts'[p].state) \/ StaleWrite(p)

\* A row leaves the lifecycle table only by a writer that was overtaken: one whose
\* snapshot is no longer the state of the row it overwrites.
IllegalMovesAreStale == [][MovesLegalOrStale]_vars

\* The check constraint keeps creditOffer positive although the PATCH body may
\* carry any number (validateUpdateContributionBody).
CreditStaysPositive ==
  \A p \in Posts : posts[p] # NoPost => PositiveCredit(posts[p].credit)

\* An edit that was overtaken by a cancellation does not bring the post back: the
\* write of an update leaves the state as it finds it, not as it read it.
EditsKeepState ==
  [][\A r \in Requests :
       stage[r] = "write" /\ input[r].op = "update" /\ stage'[r] = "append" =>
         posts'[input[r].post].state = posts[input[r].post].state]_vars

(***************************************************************************)
(* With one request at a time and no failing query the service implements  *)
(* PostLifecycle.  A command takes effect with the write of its first row: *)
(* the rows and events its handler still has to write count as written.    *)
(***************************************************************************)
Accepting == {r \in Requests : stage[r] = "pair"}

Lifecycle ==
  INSTANCE PostLifecycle WITH
    collaborations <- collaborations \cup (UNION {NewCollaborations(r) : r \in Accepting}),
    log <- events \cup (UNION {pending[r] : r \in Requests})
                  \cup (UNION {AcceptEvents(r) : r \in Accepting})

ImplementsPostLifecycle == Lifecycle!Spec

\* A post is given to one contributor at most, because accepted is reached once:
\* no path of the lifecycle table leads back to it.
OneCollaborationPerPost ==
  \A c, d \in collaborations : c.post = d.post => c = d

(***************************************************************************)
(* Liveness, under FairSpec.                                               *)
(***************************************************************************)
\* Every request that was received is answered (see AnsweredOrExhausted).
AllAnswered ==
  \A r \in Requests : stage[r] # "idle" ~> stage[r] \in Answers

\* There is one way only not to be answered: all clients of the pool are held by
\* transactions, each waiting for another client.  With fewer requests in flight than
\* clients that cannot be, so AllAnswered holds.
AnsweredOrExhausted ==
  \/ <>[](\A r \in Requests : stage[r] \in Answers \cup {"idle"})
  \/ <>[](Cardinality(Holders) = PoolSize)

(***************************************************************************)
(* What the documentation says and the code does not do.                   *)
(***************************************************************************)
\* docs/03-engineering/phase2/contribution-persistence-strategy.md:36-39: either
\* all writes of a workflow commit or none.  A request that was told it failed has
\* left no row and no event; one that was cut off by a restart none, or all.
AllOrNothing ==
  \A r \in Requests :
    /\ stage[r] = "conflict" => NoTrace(r)
    /\ stage[r] = "lost" => NoTrace(r) \/ Durable(r)

\* docs/02-architecture/database-design.md:118: an accepted response creates one
\* collaboration.
OneCollaborationPerResponse ==
  \A c, d \in collaborations :
    c.post = d.post /\ c.contributor = d.contributor => c = d

=============================================================================
