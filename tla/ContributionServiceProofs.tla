---------------------- MODULE ContributionServiceProofs ----------------------
(***************************************************************************)
(* Safety of ContributionService for any number of users, posts, requests  *)
(* in flight, pool clients and faults, and for both backends; what its      *)
(* answers promise; and, of the memory backend, that it implements           *)
(* PostLifecycle.                                                            *)
(***************************************************************************)
EXTENDS ContributionService, FiniteSetTheorems, TLAPS

\* The stages between the check of a handler and its last write.
Writing == {"connect", "reread", "write", "pair"}

Moving == {"cancel", "transition", "accept"}

\* What the handler of r may rely on, wherever it was suspended: its post exists
\* and has the creator it read, and the checks it made still hold of its
\* snapshot, though not of the row.
Suspended(r) ==
  /\ stage[r] # "idle" => input[r] \in Inputs
  /\ stage[r] \notin {"idle", "unauthenticated"} => input[r].actor \in Users
  /\ stage[r] = "load" => input[r].op # "create"
  /\ stage[r] \in {"list", "pair"} => input[r].op = "accept"
  /\ stage[r] = "reread" => input[r].op = "update"
  /\ stage[r] \in Writing \cup {"list"} /\ input[r].op # "create" =>
       /\ snapshot[r] \in Post
       /\ posts[input[r].post] \in Post
       /\ snapshot[r].creator = posts[input[r].post].creator
  /\ stage[r] \in Writing /\ input[r].op \in Moving =>
       CanTransition(snapshot[r].state, NextState(input[r]))
  /\ stage[r] \in Writing /\ input[r].op = "submit" =>
       snapshot[r].creator # input[r].actor
  /\ stage[r] \in Writing /\ input[r].op = "create" =>
       PositiveCredit(input[r].credit)

\* A handler that publishes, commits or has answered "ok" has nothing to append.
Settled(r) == stage[r] \in {"publish", "commit", "ok"} => pending[r] = {}

LegalMoves ==
  /\ EventsFollowLifecycle
  /\ \A r \in Requests, e \in Event :
       e \in MovesOf(pending[r]) => CanTransition(e.from, e.to)

\* Applications are never made by the creator of the post.
ForeignApplicants ==
  \A a \in applications :
    posts[a.post] \in Post /\ a.applicant # posts[a.post].creator

IInv ==
  /\ TypeOK
  /\ \A r \in Requests : Suspended(r)
  /\ \A r \in Requests : Settled(r)
  /\ LegalMoves
  /\ ForeignApplicants
  /\ CollaborationParties
  /\ PublishedAreDurable
-----------------------------------------------------------------------------
\* What the fields of a request are, by its operation: the only facts about
\* Inputs the proofs use.
LEMMA InputShape ==
  ASSUME NEW i \in Inputs
  PROVE  /\ i.op \in Ops /\ i.op \in AllOps
         /\ i.actor \in Actors
         /\ i.op # "create" => i.post \in Posts
         /\ i.op = "create" => i.title \in Titles /\ i.credit \in Credits
         /\ i.op = "update" => /\ i.title \in Titles \cup {Keep}
                               /\ i.credit \in Credits \cup {Keep}
         /\ i.op = "transition" => i.target \in Targets
         /\ i.op = "accept" => i.app \in Requests
<1>1. i.op \in Ops
  BY DEF Inputs
<1>2. CASE i \in [op: {"create"}, actor: Actors, title: Titles, credit: Credits]
  BY <1>1, <1>2 DEF AllOps
<1>3. CASE i \in [op: {"update"}, actor: Actors, post: Posts,
                  title: Titles \cup {Keep}, credit: Credits \cup {Keep}]
  BY <1>1, <1>3 DEF AllOps
<1>4. CASE i \in [op: {"cancel", "submit"}, actor: Actors, post: Posts]
  BY <1>1, <1>4 DEF AllOps
<1>5. CASE i \in [op: {"transition"}, actor: Actors, post: Posts, target: Targets]
  BY <1>1, <1>5 DEF AllOps
<1>6. CASE i \in [op: {"accept"}, actor: Actors, post: Posts, app: Requests]
  BY <1>1, <1>6 DEF AllOps
<1>7. QED
  BY <1>2, <1>3, <1>4, <1>5, <1>6 DEF Inputs

\* An event a handler builds is an event.
LEMMA EventShape ==
  ASSUME NEW r \in Requests, NEW p \in Posts, NEW type \in EventTypes,
         NEW from \in PostStates \cup {NoState}, NEW to \in PostStates \cup {NoState}
  PROVE  /\ EventOf(r, type, p, from, to) \in Event
         /\ Plain(r, type, p) \in Event
  BY DEF EventOf, Plain, Event

\* The state a handler moves its post to is a state.
LEMMA NextStateShape ==
  ASSUME NEW i \in Inputs
  PROVE  NextState(i) \in PostStates
<1>1. i.op = "transition" => i.target \in PostStates
  BY InputShape, ServiceAssumption
<1>2. "cancelled" \in PostStates /\ "accepted" \in PostStates
  BY DEF PostStates
<1>3. QED
  BY <1>1, <1>2 DEF NextState

\* The empty tables and idle requests satisfy the inductive invariant.
THEOREM InitIInv == Init => IInv
<1> SUFFICES ASSUME Init PROVE IInv
  OBVIOUS
<1>1. TypeOK
  BY DEF Init, TypeOK, Stages
<1>2. \A r \in Requests : Suspended(r)
  BY DEF Init, Suspended, Writing
<1>3. \A r \in Requests : Settled(r)
  BY DEF Init, Settled
<1>4. LegalMoves
  BY DEF Init, LegalMoves, EventsFollowLifecycle, MovesOf
<1>5. ForeignApplicants /\ CollaborationParties /\ PublishedAreDurable
  BY DEF Init, ForeignApplicants, CollaborationParties, PublishedAreDurable
<1>6. QED
  BY <1>1, <1>2, <1>3, <1>4, <1>5 DEF IInv
-----------------------------------------------------------------------------
\* The stages a check may lead to.
LEMMA AnswerStages ==
  /\ \A i \in Inputs : Admission(i) \in Stages
  /\ \A i \in Inputs, post \in Post \cup {NoPost} : Verdict(i, post) \in Stages
  /\ BeginWork \in Stages /\ EndWork \in Stages
  BY DEF Admission, Verdict, BeginWork, EndWork, Stages, TransactionStages, Answers

\* Every step keeps the types.  The invariant is needed beside the types: the row
\* updatePostState writes to exists because the handler has seen it.
LEMMA TypeStep ==
  ASSUME IInv, Next
  PROVE  TypeOK'
<1> USE DEF IInv, TypeOK
<1>1. ASSUME NEW r \in Requests, NEW i \in Inputs, Receive(r, i)
      PROVE  TypeOK'
  BY <1>1, AnswerStages DEF Receive, Goto, tables
<1>2. ASSUME NEW r \in Requests, LoadPost(r)
      PROVE  TypeOK'
  <2>1. input[r] \in Inputs /\ input[r].post \in Posts
    BY <1>2, InputShape DEF LoadPost, Suspended
  <2>2. QED
    BY <1>2, <2>1, AnswerStages DEF LoadPost, Goto, tables
<1>3. ASSUME NEW r \in Requests, ListApplications(r)
      PROVE  TypeOK'
  BY <1>3, AnswerStages DEF ListApplications, Goto, tables, Stages, Answers
<1>4. ASSUME NEW r \in Requests, Connect(r)
      PROVE  TypeOK'
  BY <1>4 DEF Connect, Goto, tables, Stages, TransactionStages
<1>5. ASSUME NEW r \in Requests, CreatePost(r)
      PROVE  TypeOK'
  <2>1. PICK p \in Posts :
          /\ posts' = [posts EXCEPT ![p] =
                         [creator |-> input[r].actor, title |-> input[r].title,
                          credit |-> input[r].credit, state |-> "open"]]
          /\ Built(r, {Plain(r, "post.created", p)})
    BY <1>5 DEF CreatePost
  <2>2. /\ input[r].actor \in Users
        /\ input[r].title \in Titles
        /\ input[r].credit \in Int
    BY <1>5, InputShape, ServiceAssumption DEF CreatePost, Suspended
  <2>3. posts' \in [Posts -> Post \cup {NoPost}]
    BY <2>1, <2>2 DEF Post, PostStates
  <2>4. pending' \in [Requests -> SUBSET Event]
    BY <2>1, EventShape DEF Built, EventTypes
  <2>5. QED
    BY <1>5, <2>3, <2>4 DEF CreatePost, Goto, Stages, TransactionStages
<1>6. ASSUME NEW r \in Requests, RereadPost(r)
      PROVE  TypeOK'
  <2>1. input[r] \in Inputs /\ input[r].post \in Posts
    BY <1>6, InputShape DEF RereadPost, Suspended
  <2>2. QED
    BY <1>6, <2>1 DEF RereadPost, Goto, tables, Stages, TransactionStages
<1>7. ASSUME NEW r \in Requests, UpdatePostDetails(r)
      PROVE  TypeOK'
  <2> DEFINE p == input[r].post
             row == Patched(r, posts[p])
  <2>1. /\ input[r] \in Inputs
        /\ p \in Posts /\ posts[p] \in Post /\ snapshot[r] \in Post
        /\ input[r].title \in Titles \cup {Keep}
        /\ input[r].credit \in Credits \cup {Keep}
    BY <1>7, InputShape DEF UpdatePostDetails, Suspended, Writing
  <2>2. row \in Post
    BY <2>1, ServiceAssumption DEF Patched, Field, Post
  <2>3. posts' \in [Posts -> Post \cup {NoPost}]
    BY <1>7, <2>1, <2>2 DEF UpdatePostDetails
  <2>4. pending' \in [Requests -> SUBSET Event]
    <3>1. Plain(r, "post.updated", p) \in Event
      BY <2>1, EventShape DEF EventTypes
    <3>2. \/ pending' = [pending EXCEPT ![r] = {Plain(r, "post.updated", p)}]
          \/ pending' = pending
      BY <1>7 DEF UpdatePostDetails, Built
    <3>3. QED
      BY <3>1, <3>2
  <2>5. stage' \in [Requests -> Stages]
    BY <1>7 DEF UpdatePostDetails, Goto, Stages, TransactionStages
  <2>6. QED
    BY <1>7, <2>3, <2>4, <2>5 DEF UpdatePostDetails
<1>8. ASSUME NEW r \in Requests, UpdatePostState(r)
      PROVE  TypeOK'
  <2>1. /\ input[r] \in Inputs /\ input[r].post \in Posts
        /\ posts[input[r].post] \in Post /\ snapshot[r] \in Post
    BY <1>8, InputShape DEF UpdatePostState, Suspended, Writing
  <2>2. NextState(input[r]) \in PostStates
    BY <2>1, NextStateShape
  <2>3. posts' \in [Posts -> Post \cup {NoPost}]
    BY <1>8, <2>1, <2>2 DEF UpdatePostState, Post
  <2>4. Moved(r) \in Event
    BY <2>1, <2>2, EventShape DEF Moved, EventTypes, Post
  <2>5. pending' \in [Requests -> SUBSET Event]
    BY <1>8, <2>4 DEF UpdatePostState, Built
  <2>6. stage' \in [Requests -> Stages]
    BY <1>8 DEF UpdatePostState, Goto, Stages, TransactionStages
  <2>7. QED
    BY <1>8, <2>3, <2>5, <2>6 DEF UpdatePostState
<1>9. ASSUME NEW r \in Requests, CreateApplication(r)
      PROVE  TypeOK'
  <2>1. /\ input[r] \in Inputs /\ input[r].post \in Posts
        /\ input[r].actor \in Users
    BY <1>9, InputShape DEF CreateApplication, Suspended
  <2>2. applications' \subseteq Application
    BY <1>9, <2>1 DEF CreateApplication, Application
  <2>3. pending' \in [Requests -> SUBSET Event]
    BY <1>9, <2>1, EventShape DEF CreateApplication, Built, EventTypes
  <2>4. QED
    BY <1>9, <2>2, <2>3 DEF CreateApplication, Goto, Stages, TransactionStages
<1>10. ASSUME NEW r \in Requests, CreateCollaboration(r)
       PROVE  TypeOK'
  <2>1. /\ input[r] \in Inputs /\ input[r].post \in Posts
        /\ snapshot[r] \in Post
        /\ input[r].op = "accept"
    BY <1>10, InputShape DEF CreateCollaboration, Suspended, Writing
  <2>2. NewCollaborations(r) \subseteq Collaboration
    BY <2>1 DEF NewCollaborations, Collaboration, Wanted, Application, Post
  <2>3. Moved(r) \in Event
    BY <2>1, NextStateShape, EventShape DEF Moved, EventTypes, Post
  <2>4. AcceptEvents(r) \subseteq Event
    BY <2>1, <2>3, EventShape DEF AcceptEvents, EventTypes
  <2>5. collaborations' \subseteq Collaboration
    BY <1>10, <2>2 DEF CreateCollaboration
  <2>6. pending' \in [Requests -> SUBSET Event]
    BY <1>10, <2>4 DEF CreateCollaboration, Built
  <2>7. QED
    BY <1>10, <2>5, <2>6 DEF CreateCollaboration, Goto, Stages, TransactionStages
<1>11. ASSUME NEW r \in Requests, NEW e \in pending[r], AppendEvent(r, e)
       PROVE  TypeOK'
  <2>1. events' \subseteq Event /\ pending' \in [Requests -> SUBSET Event]
    BY <1>11 DEF AppendEvent
  <2>2. stage' \in [Requests -> Stages]
    BY <1>11 DEF AppendEvent, Goto, Stages, TransactionStages
  <2>3. QED
    BY <1>11, <2>1, <2>2 DEF AppendEvent
<1>12. ASSUME NEW r \in Requests, PublishRealtime(r)
       PROVE  TypeOK'
  <2>1. BuiltEvents(r) \subseteq Event
    BY DEF BuiltEvents
  <2>2. published' \subseteq Event /\ faults' \in Nat
    BY <1>12, <2>1 DEF PublishRealtime
  <2>3. QED
    BY <1>12, <2>2, AnswerStages DEF PublishRealtime, Goto, tables
<1>13. ASSUME NEW r \in Requests, Commit(r) \/ Rollback(r)
       PROVE  TypeOK'
  BY <1>13 DEF Commit, Rollback, Goto, tables, Stages, Answers
<1>14. ASSUME NEW r \in Requests, QueryFails(r)
       PROVE  TypeOK'
  <2>1. pending' \in [Requests -> SUBSET Event] /\ faults' \in Nat
    BY <1>14 DEF QueryFails
  <2>2. stage' \in [Requests -> Stages]
    BY <1>14 DEF QueryFails, Goto, Stages, TransactionStages, Answers
  <2>3. QED
    BY <1>14, <2>1, <2>2 DEF QueryFails, tables
<1>15. CASE Restart
  BY <1>15 DEF Restart, tables, Stages, Answers
<1>16. CASE Finished
  BY <1>16 DEF Finished, vars
<1>17. QED
  BY <1>1, <1>2, <1>3, <1>4, <1>5, <1>6, <1>7, <1>8, <1>9, <1>10, <1>11, <1>12,
     <1>13, <1>14, <1>15, <1>16 DEF Next, Handle
-----------------------------------------------------------------------------
\* No step removes a row or gives it to another creator.
RowsKept ==
  \A p \in Posts :
    posts[p] # NoPost => posts'[p] \in Post /\ posts'[p].creator = posts[p].creator

\* No step of the service breaks it: no handler deletes a post, and no update writes
\* the creator.
LEMMA RowsKeptStep ==
  ASSUME IInv, Next
  PROVE  RowsKept
<1> USE NullAssumption DEF IInv, TypeOK, RowsKept
<1>1. CASE UNCHANGED posts
  BY <1>1
<1>2. ASSUME NEW r \in Requests, CreatePost(r)
      PROVE  RowsKept
  BY <1>2 DEF CreatePost
<1>3. ASSUME NEW r \in Requests, UpdatePostDetails(r)
      PROVE  RowsKept
  <2> DEFINE p == input[r].post
             row == Patched(r, posts[p])
  <2>1. /\ input[r] \in Inputs
        /\ p \in Posts /\ posts[p] \in Post /\ snapshot[r] \in Post
        /\ input[r].title \in Titles \cup {Keep}
        /\ input[r].credit \in Credits \cup {Keep}
    BY <1>3, InputShape DEF UpdatePostDetails, Suspended, Writing
  <2>2. row \in Post /\ row.creator = posts[p].creator
    BY <2>1, ServiceAssumption DEF Patched, Field, Post
  <2>3. posts' = [posts EXCEPT ![p] = row] \/ posts' = posts
    BY <1>3 DEF UpdatePostDetails
  <2>4. QED
    BY <2>1, <2>2, <2>3
<1>4. ASSUME NEW r \in Requests, UpdatePostState(r)
      PROVE  RowsKept
  <2>1. /\ input[r] \in Inputs /\ input[r].post \in Posts
        /\ posts[input[r].post] \in Post
    BY <1>4, InputShape DEF UpdatePostState, Suspended, Writing
  <2>2. NextState(input[r]) \in PostStates
    BY <2>1, NextStateShape
  <2>3. QED
    BY <1>4, <2>1, <2>2 DEF UpdatePostState, Post
<1>5. QED
  BY <1>1, <1>2, <1>3, <1>4
     DEF Next, Handle, Receive, LoadPost, ListApplications, Connect, RereadPost,
         CreateApplication, CreateCollaboration, AppendEvent, PublishRealtime,
         Commit, Rollback, QueryFails, Restart, Finished, tables, vars

\* A handler that another request overtakes keeps what it relies on.
LEMMA SuspendedElsewhere ==
  ASSUME IInv, RowsKept, NEW q \in Requests,
         stage'[q] = stage[q], input'[q] = input[q], snapshot'[q] = snapshot[q]
  PROVE  Suspended(q)'
<1>1. Suspended(q)
  BY DEF IInv
<1>2. stage[q] \in Writing \cup {"list"} => stage[q] \notin {"idle", "unauthenticated"}
  BY DEF Writing
<1>3. input[q] \in Inputs /\ input[q].op # "create" => input[q].post \in Posts
  BY InputShape
<1>4. QED
  BY <1>1, <1>2, <1>3, NullAssumption DEF Suspended, RowsKept, IInv, TypeOK, Writing
-----------------------------------------------------------------------------
\* The stages where a handler relies on nothing but its input.
Relaxed ==
  {"append", "publish", "commit", "rollback"} \cup (Answers \ {"unauthenticated"})

\* Whoever has left its last write relies on its input only.
LEMMA SuspendedRelaxed ==
  ASSUME NEW r \in Requests, Suspended(r), stage[r] \notin {"idle", "unauthenticated"},
         input'[r] = input[r], stage'[r] \in Relaxed
  PROVE  Suspended(r)'
  BY DEF Suspended, Relaxed, Answers, Writing

\* What a handler relies on is there whenever it goes on: its own steps establish
\* it, the steps of others do not take it away.
LEMMA SuspendedStep ==
  ASSUME IInv, Next, NEW q \in Requests
  PROVE  Suspended(q)'
<1> USE DEF IInv, TypeOK
<1>r. RowsKept
  BY RowsKeptStep
<1>s. Suspended(q)
  OBVIOUS
<1>o. CASE stage'[q] = stage[q] /\ input'[q] = input[q] /\ snapshot'[q] = snapshot[q]
  BY <1>o, <1>r, SuspendedElsewhere
<1>1. ASSUME NEW i \in Inputs, Receive(q, i)
      PROVE  Suspended(q)'
  <2>1. stage'[q] = Admission(i) /\ input'[q] = i
    BY <1>1 DEF Receive, Goto
  <2>2. i.actor \in Users \cup {Guest}
    BY InputShape DEF Actors
  <2>3. QED
    BY <2>1, <2>2 DEF Admission, BeginWork, Suspended, Writing, Moving
<1>2. ASSUME LoadPost(q)
      PROVE  Suspended(q)'
  <2> DEFINE i == input[q]
             row == posts[i.post]
  <2>1. /\ i \in Inputs /\ i.actor \in Users
        /\ i.op # "create" /\ i.post \in Posts /\ i.op \in AllOps
    BY <1>2, InputShape DEF LoadPost, Suspended
  <2>2. /\ stage'[q] = Verdict(i, row) /\ snapshot'[q] = row
        /\ input'[q] = i /\ posts' = posts
    BY <1>2 DEF LoadPost, Goto, tables
  <2>3. row \in Post \/ row = NoPost
    BY <2>1
  <2>4. CASE row = NoPost
    BY <2>1, <2>2, <2>4 DEF Verdict, Suspended, Writing
  <2>5. CASE row # NoPost /\ i.op = "accept"
    BY <2>1, <2>2, <2>3, <2>5 DEF Verdict, Suspended, Writing
  <2>6. CASE row # NoPost /\ i.op = "submit"
    <3>1. \/ stage'[q] = "invalid"
          \/ row.creator # i.actor /\ stage'[q] \in {"connect", "write"}
      BY <2>2, <2>6 DEF Verdict, BeginWork, CanSubmitApplication
    <3>2. QED
      BY <2>1, <2>2, <2>3, <2>6, <3>1 DEF Suspended, Writing, Moving
  <2>7. CASE row # NoPost /\ i.op \in {"update", "cancel", "transition"}
    <3>1. \/ stage'[q] \in {"forbidden", "invalid"}
          \/ /\ stage'[q] \in {"connect", "write"}
             /\ i.op # "update" => CanTransition(row.state, NextState(i))
      BY <2>2, <2>7 DEF Verdict, BeginWork, NextState
    <3>2. QED
      BY <2>1, <2>2, <2>3, <2>7, <3>1 DEF Suspended, Writing, Moving, NextState
  <2>8. QED
    BY <2>1, <2>4, <2>5, <2>6, <2>7 DEF AllOps
<1>3. ASSUME ListApplications(q)
      PROVE  Suspended(q)'
  <2>1. input[q].op = "accept" /\ input[q] \in Inputs /\ input[q].actor \in Users
    BY <1>3 DEF ListApplications, Suspended
  <2>2. \/ stage'[q] \in {"not_found", "forbidden", "invalid"}
        \/ /\ stage'[q] \in {"connect", "write"}
           /\ CanTransition(snapshot[q].state, "accepted")
    BY <1>3 DEF ListApplications, Goto, BeginWork
  <2>3. /\ snapshot' = snapshot /\ input' = input /\ posts' = posts
    BY <1>3 DEF ListApplications, tables
  <2>4. QED
    BY <1>3, <2>1, <2>2, <2>3
       DEF ListApplications, Suspended, Writing, Moving, NextState
<1>4. ASSUME Connect(q)
      PROVE  Suspended(q)'
  <2>1. /\ snapshot' = snapshot /\ input' = input /\ posts' = posts
    BY <1>4 DEF Connect, tables
  <2>2. \/ stage'[q] = "reread" /\ input[q].op = "update"
        \/ stage'[q] = "write"
    BY <1>4 DEF Connect, Goto
  <2>3. QED
    BY <1>4, <2>1, <2>2 DEF Connect, Suspended, Writing, Moving
<1>5. ASSUME RereadPost(q)
      PROVE  Suspended(q)'
  <2>1. /\ input[q].op = "update" /\ input[q].post \in Posts
        /\ posts[input[q].post] \in Post
    BY <1>5, InputShape DEF RereadPost, Suspended, Writing
  <2>2. /\ snapshot'[q] = posts[input[q].post] /\ stage'[q] = "write"
        /\ input' = input /\ posts' = posts
    BY <1>5 DEF RereadPost, Goto, tables
  <2>3. QED
    BY <1>5, <2>1, <2>2 DEF RereadPost, Suspended, Writing, Moving
<1>6. ASSUME UpdatePostState(q)
      PROVE  Suspended(q)'
  <2>1. CASE input[q].op = "accept"
    <3>1. /\ input[q].post \in Posts /\ posts[input[q].post] \in Post
      BY <1>6, InputShape DEF UpdatePostState, Suspended, Writing
    <3>2. /\ posts'[input[q].post] \in Post
          /\ posts'[input[q].post].creator = posts[input[q].post].creator
      BY <3>1, <1>r, NullAssumption DEF RowsKept
    <3>3. /\ stage'[q] = "pair" /\ input' = input /\ snapshot' = snapshot
      BY <1>6, <2>1 DEF UpdatePostState, Goto
    <3>4. QED
      BY <1>6, <2>1, <3>2, <3>3 DEF UpdatePostState, Suspended, Writing, Moving
  <2>2. CASE input[q].op # "accept"
    BY <1>6, <2>2, SuspendedRelaxed DEF UpdatePostState, Goto, Relaxed
  <2>3. QED
    BY <2>1, <2>2
<1>7. ASSUME CreatePost(q) \/ CreateApplication(q) \/ CreateCollaboration(q)
      PROVE  Suspended(q)'
  BY <1>7, SuspendedRelaxed
     DEF CreatePost, CreateApplication, CreateCollaboration, Goto, Relaxed
<1>8. ASSUME UpdatePostDetails(q)
      PROVE  Suspended(q)'
  BY <1>8, SuspendedRelaxed DEF UpdatePostDetails, Goto, Relaxed
<1>9. ASSUME NEW e \in pending[q], AppendEvent(q, e)
      PROVE  Suspended(q)'
  BY <1>9, <1>o, SuspendedRelaxed DEF AppendEvent, Goto, Relaxed
<1>10. ASSUME PublishRealtime(q) \/ Commit(q) \/ Rollback(q)
       PROVE  Suspended(q)'
  BY <1>10, SuspendedRelaxed
     DEF PublishRealtime, Commit, Rollback, Goto, Relaxed, EndWork, Answers
<1>11. ASSUME QueryFails(q)
       PROVE  Suspended(q)'
  BY <1>11, <1>o, SuspendedRelaxed DEF QueryFails, Goto, Relaxed, Answers
<1>12. CASE Restart
  BY <1>12, <1>o, SuspendedRelaxed DEF Restart, Relaxed, Answers, InFlight
<1>13. CASE Finished
  BY <1>13, <1>o DEF Finished, vars
<1>14. ASSUME NEW r \in Requests, r # q,
              Handle(r) \/ QueryFails(r) \/ (\E i \in Inputs : Receive(r, i))
       PROVE  Suspended(q)'
  <2>1. stage'[q] = stage[q] /\ input'[q] = input[q] /\ snapshot'[q] = snapshot[q]
    BY <1>14 DEF Handle, Receive, LoadPost, ListApplications, Connect, CreatePost,
       RereadPost, UpdatePostDetails, UpdatePostState, CreateApplication,
       CreateCollaboration, AppendEvent, PublishRealtime, Commit, Rollback,
       QueryFails, Goto
  <2>2. QED
    BY <2>1, <1>o
<1>15. QED
  BY <1>1, <1>2, <1>3, <1>4, <1>5, <1>6, <1>7, <1>8, <1>9, <1>10, <1>11, <1>12,
     <1>13, <1>14 DEF Next, Handle
-----------------------------------------------------------------------------
\* No handler publishes, commits or answers while it still has events to append.
LEMMA SettledStep ==
  ASSUME IInv, Next, NEW q \in Requests
  PROVE  Settled(q)'
<1> USE DEF IInv, TypeOK
<1>1. Settled(q)
  OBVIOUS
<1>o. CASE stage'[q] = stage[q] /\ pending'[q] \subseteq pending[q]
  BY <1>o, <1>1 DEF Settled
<1>n. CASE stage'[q] \notin {"publish", "commit", "ok"}
  BY <1>n DEF Settled
<1>2. ASSUME NEW e \in pending[q], AppendEvent(q, e)
      PROVE  Settled(q)'
  BY <1>2, <1>o DEF AppendEvent, Goto, Settled
<1>3. ASSUME PublishRealtime(q) \/ Commit(q)
      PROVE  Settled(q)'
  BY <1>3, <1>1 DEF PublishRealtime, Commit, Goto, Settled
<1>4. ASSUME LoadPost(q)
      PROVE  Settled(q)'
  BY <1>4, <1>n DEF LoadPost, Goto, Verdict, BeginWork
<1>5. ASSUME ListApplications(q) \/ Connect(q) \/ RereadPost(q) \/ Rollback(q)
      PROVE  Settled(q)'
  BY <1>5, <1>n
     DEF ListApplications, Connect, RereadPost, Rollback, Goto, BeginWork
<1>6. ASSUME \/ CreatePost(q) \/ UpdatePostDetails(q) \/ UpdatePostState(q)
             \/ CreateApplication(q) \/ CreateCollaboration(q)
      PROVE  Settled(q)'
  BY <1>6, <1>n
     DEF CreatePost, UpdatePostDetails, UpdatePostState, CreateApplication,
         CreateCollaboration, Goto
<1>7. ASSUME NEW i \in Inputs, Receive(q, i)
      PROVE  Settled(q)'
  BY <1>7, <1>n DEF Receive, Goto, Admission, BeginWork
<1>8. ASSUME QueryFails(q)
      PROVE  Settled(q)'
  <2>1. \/ stage'[q] \in {"conflict", "rollback"}
        \/ stage'[q] = stage[q] /\ pending'[q] \subseteq pending[q]
    BY <1>8 DEF QueryFails, Goto
  <2>2. QED
    BY <2>1, <1>o, <1>n
<1>9. CASE Restart
  BY <1>9 DEF Restart, Settled
<1>10. CASE Finished
  BY <1>10, <1>o DEF Finished, vars
<1>11. ASSUME NEW r \in Requests, r # q,
              Handle(r) \/ QueryFails(r) \/ (\E i \in Inputs : Receive(r, i))
       PROVE  Settled(q)'
  <2>1. stage'[q] = stage[q] /\ pending'[q] = pending[q]
    BY <1>11 DEF Handle, Receive, LoadPost, ListApplications, Connect, CreatePost,
       RereadPost, UpdatePostDetails, UpdatePostState, CreateApplication,
       CreateCollaboration, AppendEvent, PublishRealtime, Commit, Rollback,
       QueryFails, Goto, Built
  <2>2. QED
    BY <2>1, <1>o
<1>12. QED
  BY <1>2, <1>3, <1>4, <1>5, <1>6, <1>7, <1>8, <1>9, <1>10, <1>11
     DEF Next, Handle

\* The events a step may add to those waiting to be appended are legal moves.
LEMMA LegalMovesStep ==
  ASSUME IInv, Next
  PROVE  LegalMoves'
<1> USE DEF IInv, TypeOK
<1> DEFINE Legal(e) == e.type = "post.state_changed" => CanTransition(e.from, e.to)
<1>e. \A e \in events : Legal(e)
  BY DEF LegalMoves, EventsFollowLifecycle, MovesOf
<1>p. \A r \in Requests : \A e \in pending[r] : Legal(e)
  BY DEF LegalMoves, MovesOf
<1>m. ASSUME NEW r \in Requests, stage[r] \in Writing, input[r].op \in Moving
      PROVE  Legal(Moved(r))
  BY <1>m DEF Moved, EventOf, Suspended
<1>l. \A r \in Requests, p \in Posts, t \in EventTypes \ {"post.state_changed"} :
        Legal(Plain(r, t, p))
  BY DEF Plain, EventOf
<1>1. \A e \in events' : Legal(e)
  <2>1. ASSUME NEW r \in Requests, NEW e \in pending[r], AppendEvent(r, e)
        PROVE  \A d \in events' : Legal(d)
    BY <2>1, <1>e, <1>p DEF AppendEvent
  <2>2. CASE UNCHANGED events
    BY <2>2, <1>e
  <2>3. QED
    BY <2>1, <2>2
       DEF Next, Handle, Receive, LoadPost, ListApplications, Connect, CreatePost,
       RereadPost, UpdatePostDetails, UpdatePostState, CreateApplication,
       CreateCollaboration, PublishRealtime, Commit, Rollback, QueryFails,
       Restart, Finished, tables, vars
<1>2. ASSUME NEW q \in Requests, NEW d \in pending'[q]
      PROVE  Legal(d)
  <2>o. CASE d \in pending[q]
    BY <2>o, <1>p
  <2>1. CASE CreatePost(q)
    <3>1. PICK p \in Posts : pending' = [pending EXCEPT ![q] = {Plain(q, "post.created", p)}]
      BY <2>1 DEF CreatePost, Built
    <3>2. QED
      BY <3>1, <1>2, <1>l DEF EventTypes
  <2>2. CASE UpdatePostDetails(q)
    <3>1. input[q].post \in Posts
      BY <2>2, InputShape DEF UpdatePostDetails, Suspended
    <3>2. \/ pending' = pending
          \/ pending' = [pending EXCEPT ![q] = {Plain(q, "post.updated", input[q].post)}]
      BY <2>2 DEF UpdatePostDetails, Built
    <3>3. QED
      BY <3>1, <3>2, <1>2, <1>l, <2>o DEF EventTypes
  <2>3. CASE UpdatePostState(q)
    <3>1. stage[q] \in Writing /\ input[q].op \in Moving
      BY <2>3 DEF UpdatePostState, Writing, Moving
    <3>2. pending' = pending \/ pending' = [pending EXCEPT ![q] = {Moved(q)}]
      BY <2>3 DEF UpdatePostState, Built
    <3>3. QED
      BY <3>1, <3>2, <1>2, <1>m, <2>o
  <2>4. CASE CreateApplication(q)
    <3>1. input[q].post \in Posts
      BY <2>4, InputShape DEF CreateApplication, Suspended
    <3>2. pending' = [pending EXCEPT ![q] = {Plain(q, "application.submitted", input[q].post)}]
      BY <2>4 DEF CreateApplication, Built
    <3>3. QED
      BY <3>1, <3>2, <1>2, <1>l DEF EventTypes
  <2>5. CASE CreateCollaboration(q)
    <3>1. /\ input[q].post \in Posts
          /\ stage[q] \in Writing /\ input[q].op \in Moving
      BY <2>5, InputShape DEF CreateCollaboration, Suspended, Writing, Moving
    <3>2. pending' = [pending EXCEPT ![q] = AcceptEvents(q)]
      BY <2>5 DEF CreateCollaboration, Built
    <3>3. d \in AcceptEvents(q)
      BY <3>2, <1>2
    <3>4. QED
      BY <3>1, <3>3, <1>l, <1>m DEF AcceptEvents, EventTypes
  <2>6. CASE pending'[q] \subseteq pending[q]
    BY <2>6, <1>2, <2>o
  <2>7. ASSUME NEW r \in Requests, r # q, Handle(r)
        PROVE  pending'[q] \subseteq pending[q]
    BY <2>7 DEF Handle, LoadPost, ListApplications, Connect, CreatePost,
       RereadPost, UpdatePostDetails, UpdatePostState, CreateApplication,
       CreateCollaboration, AppendEvent, PublishRealtime, Commit, Rollback, Built
  <2>8. ASSUME \/ \E r \in Requests : QueryFails(r) \/ \E i \in Inputs : Receive(r, i)
               \/ Restart \/ Finished
        PROVE  pending'[q] \subseteq pending[q]
    BY <2>8 DEF QueryFails, Receive, Restart, Finished, vars
  <2>9. QED
    BY <2>1, <2>2, <2>3, <2>4, <2>5, <2>6, <2>7, <2>8
       DEF Next, Handle, LoadPost, ListApplications, Connect, RereadPost,
           AppendEvent, PublishRealtime, Commit, Rollback
<1>3. QED
  BY <1>1, <1>2 DEF LegalMoves, EventsFollowLifecycle, MovesOf

\* An application is inserted after the check that its applicant is not the creator,
\* and the creator of a row never changes.
LEMMA ForeignApplicantsStep ==
  ASSUME IInv, Next
  PROVE  ForeignApplicants'
<1> USE DEF IInv, TypeOK
<1>1. ASSUME NEW a \in Application, posts[a.post] \in Post,
             a.applicant # posts[a.post].creator
      PROVE  posts'[a.post] \in Post /\ a.applicant # posts'[a.post].creator
  BY <1>1, RowsKeptStep, NullAssumption DEF RowsKept, Application
<1>2. CASE UNCHANGED applications
  BY <1>1, <1>2 DEF ForeignApplicants
<1>3. ASSUME NEW r \in Requests, CreateApplication(r)
      PROVE  ForeignApplicants'
  <2> DEFINE a == [id |-> r, post |-> input[r].post, applicant |-> input[r].actor]
  <2>1. /\ input[r].post \in Posts /\ posts[input[r].post] \in Post
        /\ posts[input[r].post].creator # input[r].actor
        /\ input[r].actor \in Users
    BY <1>3, InputShape DEF CreateApplication, Suspended, Writing
  <2>2. applications' = applications \cup {a}
    BY <1>3 DEF CreateApplication
  <2>3. a \in Application
    BY <2>1 DEF Application
  <2>4. QED
    BY <1>1, <2>1, <2>2, <2>3 DEF ForeignApplicants
<1>4. QED
  BY <1>2, <1>3
     DEF Next, Handle, Receive, LoadPost, ListApplications, Connect, CreatePost,
     RereadPost, UpdatePostDetails, UpdatePostState, CreateCollaboration,
     AppendEvent, PublishRealtime, Commit, Rollback, QueryFails, Restart,
     Finished, tables, vars

\* createCollaboration uses the parties read before the unit of work; they are
\* still those of the rows.
LEMMA CollaborationPartiesStep ==
  ASSUME IInv, Next
  PROVE  CollaborationParties'
<1> USE DEF IInv, TypeOK
<1> DEFINE Good(c) ==
             /\ posts[c.post] # NoPost
             /\ c.requester = posts[c.post].creator
             /\ c.contributor # c.requester
             /\ \E a \in applications : a.post = c.post /\ a.applicant = c.contributor
<1>1. ASSUME NEW c \in Collaboration, Good(c)
      PROVE  Good(c)'
  <2>1. applications \subseteq applications'
    BY DEF Next, Handle, Receive, LoadPost, ListApplications, Connect, CreatePost,
       RereadPost, UpdatePostDetails, UpdatePostState, CreateApplication,
       CreateCollaboration, AppendEvent, PublishRealtime, Commit, Rollback,
       QueryFails, Restart, Finished, tables, vars
  <2>2. /\ posts'[c.post] \in Post
        /\ posts'[c.post].creator = posts[c.post].creator
    BY <1>1, RowsKeptStep DEF RowsKept, Collaboration
  <2>3. QED
    BY <1>1, <2>1, <2>2, NullAssumption
<1>2. CASE UNCHANGED collaborations
  BY <1>1, <1>2 DEF CollaborationParties
<1>3. ASSUME NEW r \in Requests, CreateCollaboration(r)
      PROVE  CollaborationParties'
  <2>1. /\ input[r].post \in Posts
        /\ posts[input[r].post] # NoPost
        /\ snapshot[r] \in Post
        /\ snapshot[r].creator = posts[input[r].post].creator
        /\ input[r].op = "accept"
    BY <1>3, InputShape, NullAssumption DEF CreateCollaboration, Suspended, Writing
  <2>2. collaborations' = collaborations \cup NewCollaborations(r)
    BY <1>3 DEF CreateCollaboration
  <2>3. ASSUME NEW a \in Wanted(input[r])
        PROVE  /\ [id |-> r, post |-> input[r].post,
                   requester |-> snapshot[r].creator,
                   contributor |-> a.applicant] \in Collaboration
               /\ Good([id |-> r, post |-> input[r].post,
                        requester |-> snapshot[r].creator,
                        contributor |-> a.applicant])
    BY <2>1 DEF Wanted, ForeignApplicants, Collaboration, Application, Post
  <2>4. \A c \in collaborations' : c \in Collaboration /\ Good(c)
    BY <2>2, <2>3 DEF NewCollaborations, CollaborationParties
  <2>5. QED
    BY <1>1, <2>4 DEF CollaborationParties
<1>4. QED
  BY <1>2, <1>3
     DEF Next, Handle, Receive, LoadPost, ListApplications, Connect, CreatePost,
     RereadPost, UpdatePostDetails, UpdatePostState, CreateApplication,
     AppendEvent, PublishRealtime, Commit, Rollback, QueryFails, Restart,
     Finished, tables, vars

\* A handler publishes only when all its events are in the table.
LEMMA PublishedAreDurableStep ==
  ASSUME IInv, Next
  PROVE  PublishedAreDurable'
<1> USE DEF IInv, TypeOK
<1>1. events \subseteq events'
  BY DEF Next, Handle, Receive, LoadPost, ListApplications, Connect, CreatePost,
     RereadPost, UpdatePostDetails, UpdatePostState, CreateApplication,
     CreateCollaboration, AppendEvent, PublishRealtime, Commit, Rollback,
     QueryFails, Restart, Finished, tables, vars
<1>2. CASE UNCHANGED published
  BY <1>1, <1>2 DEF PublishedAreDurable
<1>3. ASSUME NEW r \in Requests, PublishRealtime(r)
      PROVE  PublishedAreDurable'
  <2>1. BuiltEvents(r) \subseteq events
    BY <1>3 DEF PublishRealtime, Settled, BuiltEvents
  <2>2. QED
    BY <1>1, <1>3, <2>1 DEF PublishRealtime, PublishedAreDurable
<1>4. QED
  BY <1>2, <1>3
     DEF Next, Handle, Receive, LoadPost, ListApplications, Connect, CreatePost,
     RereadPost, UpdatePostDetails, UpdatePostState, CreateApplication,
     CreateCollaboration, AppendEvent, Commit, Rollback, QueryFails, Restart,
     Finished, tables, vars
-----------------------------------------------------------------------------
\* A step that changes nothing keeps the inductive invariant.
LEMMA IInvStutter ==
  ASSUME IInv, UNCHANGED vars
  PROVE  IInv'
  BY DEF vars, IInv, TypeOK, Suspended, Settled, LegalMoves,
         EventsFollowLifecycle, ForeignApplicants, CollaborationParties,
         PublishedAreDurable, Wanted

\* The inductive invariant: what every handler may rely on when it goes on,
\* whoever ran meanwhile.
THEOREM Invariance == Spec => []IInv
<1>1. IInv /\ [Next]_vars => IInv'
  <2> SUFFICES ASSUME IInv, [Next]_vars PROVE IInv'
    OBVIOUS
  <2>1. CASE Next
    <3>1. TypeOK' /\ LegalMoves' /\ ForeignApplicants'
      BY <2>1, TypeStep, LegalMovesStep, ForeignApplicantsStep
    <3>2. CollaborationParties' /\ PublishedAreDurable'
      BY <2>1, CollaborationPartiesStep, PublishedAreDurableStep
    <3>3. \A q \in Requests : Suspended(q)' /\ Settled(q)'
      BY <2>1, SuspendedStep, SettledStep
    <3>4. QED
      BY <3>1, <3>2, <3>3 DEF IInv
  <2>2. CASE UNCHANGED vars
    BY <2>2, IInvStutter
  <2>3. QED
    BY <2>1, <2>2
<1>2. QED
  BY <1>1, InitIInv, PTL DEF Spec

\* Type correctness of the service for every instance.
THEOREM TypeCorrect == Spec => []TypeOK
<1>1. IInv => TypeOK
  BY DEF IInv
<1>2. QED
  BY <1>1, Invariance, PTL

\* The event table holds only moves of the lifecycle table, although the state a
\* handler logs was read two awaits before.
THEOREM LifecycleLogged == Spec => []EventsFollowLifecycle
<1>1. IInv => EventsFollowLifecycle
  BY DEF IInv, LegalMoves
<1>2. QED
  BY <1>1, Invariance, PTL

\* acceptApplication pairs the creator of the post with a foreign applicant of
\* that post, whatever runs between its reads and its writes.
THEOREM PartiesCorrect == Spec => []CollaborationParties
<1>1. IInv => CollaborationParties
  BY DEF IInv
<1>2. QED
  BY <1>1, Invariance, PTL

\* Only events of the event table are broadcast.
THEOREM BroadcastDurable == Spec => []PublishedAreDurable
<1>1. IInv => PublishedAreDurable
  BY DEF IInv
<1>2. QED
  BY <1>1, Invariance, PTL

\* A row leaves the lifecycle table only when the writer's snapshot is stale: the
\* lost update is the only way to an illegal move.
THEOREM OnlyStaleWritersBreakLifecycle == Spec => IllegalMovesAreStale
<1>1. IInv /\ [Next]_vars => [MovesLegalOrStale]_vars
  <2> SUFFICES ASSUME IInv, Next, NEW p \in Posts,
                      posts[p] # NoPost, posts'[p].state # posts[p].state
               PROVE  CanTransition(posts[p].state, posts'[p].state) \/ StaleWrite(p)
    BY DEF MovesLegalOrStale
  <2> USE DEF IInv, TypeOK
  <2>1. PICK r \in Requests :
          CreatePost(r) \/ UpdatePostDetails(r) \/ UpdatePostState(r)
    BY DEF Next, Handle, Receive, LoadPost, ListApplications, Connect, RereadPost,
       CreateApplication, CreateCollaboration, AppendEvent, PublishRealtime,
       Commit, Rollback, QueryFails, Restart, Finished, tables, vars
  <2>2. ~CreatePost(r)
    BY DEF CreatePost
  <2>3. ~UpdatePostDetails(r)
    <3> SUFFICES ASSUME UpdatePostDetails(r) PROVE FALSE
      OBVIOUS
    <3>1. /\ input[r].post \in Posts /\ posts[input[r].post] \in Post
      BY InputShape DEF UpdatePostDetails, Suspended, Writing
    <3>2. Patched(r, posts[input[r].post]).state = posts[input[r].post].state
      BY <3>1 DEF Patched, Post
    <3>3. \/ posts' = [posts EXCEPT ![input[r].post] = Patched(r, posts[input[r].post])]
          \/ posts' = posts
      BY DEF UpdatePostDetails
    <3>4. QED
      BY <3>1, <3>2, <3>3
  <2>4. /\ UpdatePostState(r)
        /\ input[r].post \in Posts /\ posts[input[r].post] \in Post
    BY <2>1, <2>2, <2>3, InputShape DEF UpdatePostState, Suspended, Writing
  <2>5. p = input[r].post /\ posts'[p].state = NextState(input[r])
    BY <2>4 DEF UpdatePostState, Post
  <2>6. CanTransition(snapshot[r].state, posts'[p].state)
    BY <2>4, <2>5 DEF UpdatePostState, Suspended, Writing, Moving
  <2>7. stage[r] = "write" /\ stage'[r] # "write"
    BY <2>4 DEF UpdatePostState, Goto
  <2>8. QED
    BY <2>5, <2>6, <2>7 DEF StaleWrite
<1>2. QED
  BY <1>1, Invariance, PTL DEF Spec, IllegalMovesAreStale
-----------------------------------------------------------------------------
\* The check constraint refuses what the PATCH validation lets through.
LEMMA CreditStep ==
  ASSUME Backend = "postgres", IInv, CreditStaysPositive, Next
  PROVE  CreditStaysPositive'
<1> USE DEF IInv, TypeOK
<1>1. CASE UNCHANGED posts
  BY <1>1 DEF CreditStaysPositive
<1>2. ASSUME NEW r \in Requests, CreatePost(r)
      PROVE  CreditStaysPositive'
  <2>1. PositiveCredit(input[r].credit)
    BY <1>2 DEF CreatePost, Suspended, Writing
  <2>2. QED
    BY <1>2, <2>1 DEF CreatePost, CreditStaysPositive
<1>3. ASSUME NEW r \in Requests, UpdatePostDetails(r)
      PROVE  CreditStaysPositive'
  <2> DEFINE p == input[r].post
             row == Patched(r, posts[p])
  <2>1. \/ posts' = posts
        \/ posts' = [posts EXCEPT ![p] = row] /\ PositiveCredit(row.credit)
    BY <1>3 DEF UpdatePostDetails, RowAccepted
  <2>2. QED
    BY <2>1 DEF CreditStaysPositive
<1>4. ASSUME NEW r \in Requests, UpdatePostState(r)
      PROVE  CreditStaysPositive'
  <2>1. input[r].post \in Posts /\ posts[input[r].post] \in Post
    BY <1>4, InputShape DEF UpdatePostState, Suspended, Writing
  <2>2. posts' = [posts EXCEPT ![input[r].post].state = NextState(input[r])]
    BY <1>4 DEF UpdatePostState
  <2>3. \A p \in Posts : posts[p] # NoPost => posts'[p].credit = posts[p].credit
    BY <2>1, <2>2 DEF Post
  <2>4. \A p \in Posts : posts'[p] # NoPost => posts[p] # NoPost
    BY <2>1, <2>2, NullAssumption
  <2>5. QED
    BY <2>3, <2>4 DEF CreditStaysPositive
<1>5. QED
  BY <1>1, <1>2, <1>3, <1>4
     DEF Next, Handle, Receive, LoadPost, ListApplications, Connect, RereadPost,
         CreateApplication, CreateCollaboration, AppendEvent, PublishRealtime,
         Commit, Rollback, QueryFails, Restart, Finished, tables, vars

\* On Postgres the credit offer of a post is positive, although updateContribution
\* makes no check of it.
THEOREM CreditPositive ==
  ASSUME Backend = "postgres"
  PROVE  Spec => []CreditStaysPositive
<1>1. Init => CreditStaysPositive
  BY DEF Init, CreditStaysPositive
<1>2. IInv /\ CreditStaysPositive /\ [Next]_vars => CreditStaysPositive'
  <2> SUFFICES ASSUME IInv, CreditStaysPositive, [Next]_vars
               PROVE  CreditStaysPositive'
    OBVIOUS
  <2>1. CASE Next
    BY <2>1, CreditStep
  <2>2. CASE UNCHANGED vars
    BY <2>2 DEF vars, CreditStaysPositive
  <2>3. QED
    BY <2>1, <2>2
<1>3. QED
  BY <1>1, <1>2, Invariance, PTL DEF Spec

-----------------------------------------------------------------------------
(***************************************************************************)
(* What an answer says of the rows and events of its request, and which    *)
(* states the event log explains.                                          *)
(***************************************************************************)
\* The stages before the first write of a handler, and the answers of its checks.
Unwritten ==
  {"idle", "load", "list", "connect", "reread", "write",
   "unauthenticated", "forbidden", "not_found", "invalid"}

\* The stages after its last row, unless a query failed.
Written == {"append", "publish", "commit", "ok"}

\* The row of r and its events, appended by now or not.
Complete(r) ==
  /\ BuiltEvents(r) # {}
  /\ input[r].op = "submit" => \E a \in applications : a.id = r
  /\ input[r].op = "accept" =>
       /\ \E c \in collaborations : c.id = r
       /\ {e.type : e \in BuiltEvents(r)} =
            {"application.accepted", "post.state_changed", "collaboration.started"}

\* What a handler has left behind, wherever it was suspended.
Left(r) ==
  /\ \A e \in pending[r] : e.by = r
  /\ stage[r] \in Unwritten => NoTrace(r)
  /\ stage[r] = "pair" => pending[r] = {} /\ TraceOf(r) = {}
  /\ stage[r] \in Written => Complete(r)
  /\ stage[r] \in Writing /\ input[r].op = "accept" => Wanted(input[r]) # {}

AInv == \A r \in Requests : Left(r)
-----------------------------------------------------------------------------
\* Nobody else has added to what q has left.
Untouched(q) ==
  /\ input'[q] = input[q] /\ pending'[q] = pending[q]
  /\ \A e \in Event : e.by = q => (e \in events' <=> e \in events)
  /\ applications \subseteq applications'
  /\ collaborations \subseteq collaborations'
  /\ \A a \in applications' : a.id = q => a \in applications
  /\ \A c \in collaborations' : c.id = q => c \in collaborations

\* Then what holds of it goes on to hold, at this stage and at those that ask for
\* nothing more.
LEMMA LeftUntouched ==
  ASSUME IInv, TypeOK', NEW q \in Requests, Left(q), Untouched(q),
         stage'[q] \in Unwritten => stage[q] \in Unwritten,
         stage'[q] = "pair" => stage[q] \in {"pair", "write"},
         stage'[q] \in Written => stage[q] \in Written,
         stage'[q] \in Writing /\ input[q].op = "accept" => Wanted(input[q]) # {}
  PROVE  Left(q)'
<1> USE DEF IInv, TypeOK
<1>1. TraceOf(q)' = TraceOf(q) /\ BuiltEvents(q)' = BuiltEvents(q)
  BY DEF Untouched, TraceOf, BuiltEvents
<1>2. \A e \in pending'[q] : e.by = q
  BY DEF Left, Untouched
<1>3. stage'[q] \in Unwritten => NoTrace(q)'
  <2> SUFFICES ASSUME stage'[q] \in Unwritten PROVE NoTrace(q)'
    OBVIOUS
  <2>1. NoTrace(q)
    BY DEF Left
  <2>2. \A x \in applications' \cup collaborations' : x.id # q
    BY <2>1 DEF NoTrace, Untouched
  <2>3. QED
    BY <1>1, <2>1, <2>2 DEF NoTrace, Untouched
<1>4. stage'[q] = "pair" => pending'[q] = {} /\ TraceOf(q)' = {}
  BY <1>1 DEF Left, Untouched, Unwritten, NoTrace
<1>5. stage'[q] \in Written => Complete(q)'
  <2> SUFFICES ASSUME stage'[q] \in Written PROVE Complete(q)'
    OBVIOUS
  <2>1. Complete(q)
    BY DEF Left
  <2>2. QED
    BY <1>1, <2>1 DEF Complete, Untouched
<1>6. stage'[q] \in Writing /\ input'[q].op = "accept" => Wanted(input[q])' # {}
  BY DEF Untouched, Wanted
<1>7. QED
  BY <1>2, <1>3, <1>4, <1>5, <1>6 DEF Left, Untouched

\* The steps of one handler leave the others' rows and events alone.
LEMMA Elsewhere ==
  ASSUME IInv, AInv, NEW q \in Requests, NEW r \in Requests, r # q,
         Handle(r) \/ QueryFails(r) \/ (\E i \in Inputs : Receive(r, i))
  PROVE  Untouched(q) /\ stage'[q] = stage[q]
<1> USE DEF IInv, TypeOK, Untouched
<1>1. ASSUME CreatePost(r) \/ UpdatePostDetails(r) \/ UpdatePostState(r)
      PROVE  Untouched(q) /\ stage'[q] = stage[q]
  BY <1>1 DEF CreatePost, UpdatePostDetails, UpdatePostState, Goto, Built
<1>2. ASSUME CreateApplication(r)
      PROVE  Untouched(q) /\ stage'[q] = stage[q]
  BY <1>2 DEF CreateApplication, Goto, Built
<1>3. ASSUME CreateCollaboration(r)
      PROVE  Untouched(q) /\ stage'[q] = stage[q]
  <2>1. \A c \in NewCollaborations(r) : c.id = r
    BY DEF NewCollaborations
  <2>2. QED
    BY <1>3, <2>1 DEF CreateCollaboration, Goto, Built
<1>4. ASSUME NEW e \in pending[r], AppendEvent(r, e)
      PROVE  Untouched(q) /\ stage'[q] = stage[q]
  <2>1. e.by = r
    BY DEF AInv, Left
  <2>2. QED
    BY <1>4, <2>1 DEF AppendEvent, Goto
<1>5. ASSUME \/ LoadPost(r) \/ ListApplications(r) \/ Connect(r) \/ RereadPost(r)
             \/ PublishRealtime(r) \/ Commit(r) \/ Rollback(r) \/ QueryFails(r)
             \/ \E i \in Inputs : Receive(r, i)
      PROVE  Untouched(q) /\ stage'[q] = stage[q]
  BY <1>5 DEF LoadPost, ListApplications, Connect, RereadPost, PublishRealtime, Commit,
     Rollback, QueryFails, Receive, Goto, tables
<1>6. QED
  BY <1>1, <1>2, <1>3, <1>4, <1>5 DEF Handle

\* A handler between its arrival and its first write has written nothing, and an
\* acceptance writes only when it has found its application.
LEMMA ReadingLeaves ==
  ASSUME IInv, TypeOK', NEW q \in Requests, Left(q),
         \/ \E i \in Inputs : Receive(q, i)
         \/ LoadPost(q) \/ ListApplications(q) \/ Connect(q) \/ RereadPost(q)
  PROVE  Left(q)'
<1> USE DEF IInv, TypeOK
<1>1. ASSUME NEW i \in Inputs, Receive(q, i)
      PROVE  Left(q)'
  <2>1. /\ stage[q] = "idle" /\ stage'[q] = Admission(i) /\ input'[q] = i
        /\ UNCHANGED <<tables, pending>>
    BY <1>1 DEF Receive, Goto
  <2>2. NoTrace(q)' /\ \A e \in pending'[q] : e.by = q
    BY <2>1 DEF Left, Unwritten, NoTrace, TraceOf, tables
  <2>3. /\ stage'[q] \in Unwritten
        /\ stage'[q] \in Writing => i.op # "accept"
    BY <2>1 DEF Admission, BeginWork, Unwritten, Writing
  <2>4. QED
    BY <2>1, <2>2, <2>3 DEF Left, Unwritten, Written
<1>2. ASSUME LoadPost(q) \/ ListApplications(q) \/ Connect(q) \/ RereadPost(q)
      PROVE  Left(q)'
  <2>1. Untouched(q) /\ stage[q] \in Unwritten
    BY <1>2 DEF LoadPost, ListApplications, Connect, RereadPost, Untouched, tables,
       Unwritten
  <2>2. stage'[q] \in Unwritten
    BY <1>2 DEF LoadPost, ListApplications, Connect, RereadPost, Goto, Verdict,
       BeginWork, Unwritten
  <2>3. stage'[q] \in Writing /\ input[q].op = "accept" => Wanted(input[q]) # {}
    <3>1. CASE LoadPost(q)
      BY <3>1 DEF LoadPost, Goto, Verdict, Writing
    <3>2. CASE ListApplications(q)
      BY <3>2 DEF ListApplications, Goto, Writing
    <3>3. CASE Connect(q) \/ RereadPost(q)
      BY <3>3 DEF Connect, RereadPost, Left, Writing
    <3>4. QED
      BY <1>2, <3>1, <3>2, <3>3
  <2>4. QED
    BY <2>1, <2>2, <2>3, LeftUntouched DEF Unwritten, Written
<1>3. QED
  BY <1>1, <1>2

\* Events are told apart by their types.
LEMMA EventFields ==
  ASSUME NEW r, NEW type, NEW p, NEW from, NEW to
  PROVE  /\ EventOf(r, type, p, from, to).by = r
         /\ EventOf(r, type, p, from, to).type = type
         /\ EventOf(r, type, p, from, to).post = p
         /\ EventOf(r, type, p, from, to).to = to
         /\ Plain(r, type, p).by = r /\ Plain(r, type, p).type = type
  BY DEF EventOf, Plain

\* A handler that ends its writes has its row, and its events to append.
LEMMA WritingLeaves ==
  ASSUME IInv, TypeOK', NEW q \in Requests, Left(q),
         \/ CreatePost(q) \/ UpdatePostDetails(q) \/ UpdatePostState(q)
         \/ CreateApplication(q) \/ CreateCollaboration(q)
  PROVE  Left(q)'
<1> USE DEF IInv, TypeOK
<1>b. ASSUME pending'[q] # {}, \A e \in pending'[q] : e.by = q,
             stage'[q] = "append", input'[q] = input[q],
             input[q].op = "submit" => \E a \in applications' : a.id = q,
             input[q].op = "accept" =>
               /\ \E c \in collaborations' : c.id = q
               /\ {e.type : e \in pending'[q]} =
                    {"application.accepted", "post.state_changed",
                     "collaboration.started"}
               /\ TraceOf(q) = {} /\ events' = events
      PROVE  Left(q)'
  <2>1. BuiltEvents(q)' = TraceOf(q)' \cup pending'[q]
    BY <1>b DEF BuiltEvents, TraceOf
  <2>2. Complete(q)'
    <3>1. CASE input[q].op = "accept"
      <4>1. BuiltEvents(q)' = pending'[q]
        BY <1>b, <2>1, <3>1 DEF TraceOf
      <4>2. QED
        BY <1>b, <3>1, <4>1 DEF Complete
    <3>2. CASE input[q].op # "accept"
      BY <1>b, <2>1, <3>2 DEF Complete
    <3>3. QED
      BY <3>1, <3>2
  <2>3. QED
    BY <1>b, <2>2 DEF Left, Unwritten, Writing
<1>1. CASE CreatePost(q)
  <2>1. PICK p \in Posts : pending' = [pending EXCEPT ![q] = {Plain(q, "post.created", p)}]
    BY <1>1 DEF CreatePost, Built
  <2>2. /\ pending'[q] = {Plain(q, "post.created", p)} /\ stage'[q] = "append"
        /\ input'[q] = input[q] /\ input[q].op = "create"
    BY <1>1, <2>1 DEF CreatePost, Goto
  <2>3. \A e \in pending'[q] : e.by = q
    BY <2>2, EventFields
  <2>4. QED
    BY <1>b, <2>2, <2>3
<1>2. CASE UpdatePostDetails(q)
  <2>1. input'[q] = input[q] /\ input[q].op = "update"
    BY <1>2 DEF UpdatePostDetails
  <2>2. CASE stage'[q] = "append"
    <3>1. pending'[q] = {Plain(q, "post.updated", input[q].post)}
      BY <1>2, <2>2 DEF UpdatePostDetails, Built, Goto
    <3>2. \A e \in pending'[q] : e.by = q
      BY <3>1, EventFields
    <3>3. QED
      BY <1>b, <2>1, <2>2, <3>1, <3>2
  <2>3. CASE stage'[q] # "append"
    <3>1. stage'[q] = "rollback" /\ pending'[q] = pending[q]
      BY <1>2, <2>3 DEF UpdatePostDetails, Goto
    <3>2. QED
      BY <2>1, <3>1 DEF Left, Unwritten, Written, Writing
  <2>4. QED
    BY <2>2, <2>3
<1>3. CASE UpdatePostState(q)
  <2>1. /\ input'[q] = input[q] /\ events' = events /\ applications' = applications
        /\ stage[q] = "write" /\ collaborations' = collaborations
        /\ input[q].op \in {"cancel", "transition", "accept"}
    BY <1>3 DEF UpdatePostState
  <2>2. CASE input[q].op = "accept"
    <3>1. stage'[q] = "pair" /\ pending'[q] = pending[q]
      BY <1>3, <2>2 DEF UpdatePostState, Goto
    <3>2. Untouched(q)
      BY <2>1, <3>1 DEF Untouched
    <3>3. Wanted(input[q]) # {}
      BY <2>1, <2>2 DEF Left, Writing
    <3>4. QED
      BY <2>1, <3>1, <3>2, <3>3, LeftUntouched DEF Unwritten, Written
  <2>3. CASE input[q].op # "accept"
    <3>1. stage'[q] = "append" /\ pending'[q] = {Moved(q)}
      BY <1>3, <2>3 DEF UpdatePostState, Goto, Built
    <3>2. Moved(q).by = q
      BY EventFields DEF Moved
    <3>3. QED
      BY <1>b, <2>1, <2>3, <3>1, <3>2
  <2>4. QED
    BY <2>2, <2>3
<1>4. CASE CreateApplication(q)
  <2>1. /\ input'[q] = input[q] /\ input[q].op = "submit" /\ stage'[q] = "append"
        /\ pending'[q] = {Plain(q, "application.submitted", input[q].post)}
    BY <1>4 DEF CreateApplication, Goto, Built
  <2>2. \E a \in applications' : a.id = q
    <3>1. [id |-> q, post |-> input[q].post, applicant |-> input[q].actor]
            \in applications'
      BY <1>4 DEF CreateApplication
    <3>2. QED
      BY <3>1
  <2>3. \A e \in pending'[q] : e.by = q
    BY <2>1, EventFields
  <2>4. QED
    BY <1>b, <2>1, <2>2, <2>3
<1>5. CASE CreateCollaboration(q)
  <2>1. /\ stage[q] = "pair" /\ stage'[q] = "append" /\ pending'[q] = AcceptEvents(q)
        /\ input'[q] = input[q] /\ events' = events
        /\ collaborations' = collaborations \cup NewCollaborations(q)
    BY <1>5 DEF CreateCollaboration, Goto, Built
  <2>2. input[q].op = "accept" /\ Wanted(input[q]) # {} /\ TraceOf(q) = {}
    BY <2>1 DEF Suspended, Left, Writing
  <2>3. \E c \in collaborations' : c.id = q
    <3>1. PICK a \in Wanted(input[q]) : TRUE
      BY <2>2
    <3>2. [id |-> q, post |-> input[q].post, requester |-> snapshot[q].creator,
           contributor |-> a.applicant] \in collaborations'
      BY <2>1, <3>1 DEF NewCollaborations
    <3>3. QED
      BY <3>2
  <2>4. /\ \A e \in AcceptEvents(q) : e.by = q
        /\ {e.type : e \in AcceptEvents(q)} =
             {"application.accepted", "post.state_changed", "collaboration.started"}
        /\ AcceptEvents(q) # {}
    BY EventFields DEF AcceptEvents, Moved
  <2>5. QED
    BY <1>b, <2>1, <2>2, <2>3, <2>4
<1>6. QED
  BY <1>1, <1>2, <1>3, <1>4, <1>5

\* From its last row to its answer a handler loses nothing, or fails.
LEMMA AppendingLeaves ==
  ASSUME IInv, TypeOK', NEW q \in Requests, Left(q),
         \/ \E e \in pending[q] : AppendEvent(q, e)
         \/ PublishRealtime(q) \/ Commit(q) \/ Rollback(q) \/ QueryFails(q)
  PROVE  Left(q)'
<1> USE DEF IInv, TypeOK
<1>n. ASSUME \A e \in pending'[q] : e.by = q,
             stage'[q] \in {"rollback", "conflict", "lost"}
      PROVE  Left(q)'
  BY <1>n DEF Left, Unwritten, Written, Writing
<1>1. ASSUME NEW e \in pending[q], AppendEvent(q, e)
      PROVE  Left(q)'
  <2>1. /\ e.by = q
        /\ events' = events \cup {e} /\ pending'[q] = pending[q] \ {e}
        /\ applications' = applications /\ collaborations' = collaborations
        /\ input'[q] = input[q]
    BY <1>1 DEF AppendEvent, Left
  <2>2. BuiltEvents(q)' = BuiltEvents(q)
    BY <2>1 DEF BuiltEvents
  <2>3. stage[q] \notin Unwritten \cup {"pair"}
    BY DEF Left, NoTrace
  <2>4. \/ stage'[q] = stage[q]
        \/ stage[q] = "append" /\ stage'[q] = "publish"
    BY <1>1 DEF AppendEvent, Goto
  <2>5. stage'[q] \in Written => Complete(q)'
    BY <2>1, <2>2, <2>4 DEF Left, Complete, Written
  <2>6. stage'[q] \notin Unwritten \cup {"pair"}
    BY <2>3, <2>4 DEF Unwritten
  <2>7. \A d \in pending'[q] : d.by = q
    BY <2>1 DEF Left
  <2>8. stage'[q] \in Writing => Wanted(input[q])' # {} \/ input'[q].op # "accept"
    BY <2>1, <2>6 DEF Unwritten, Writing
  <2>9. QED
    BY <2>1, <2>5, <2>6, <2>7, <2>8 DEF Left
<1>2. CASE PublishRealtime(q) \/ Commit(q)
  <2>1. Untouched(q) /\ stage[q] \in Written /\ stage'[q] \in {"commit", "ok"}
    BY <1>2 DEF PublishRealtime, Commit, Goto, EndWork, Untouched, tables, Written
  <2>2. QED
    BY <2>1, LeftUntouched DEF Unwritten, Writing
<1>3. CASE Rollback(q)
  BY <1>3, <1>n DEF Rollback, Goto, Left
<1>4. CASE QueryFails(q)
  <2>1. CASE stage'[q] \in {"conflict", "rollback"}
    <3>1. pending'[q] \subseteq pending[q]
      BY <1>4 DEF QueryFails
    <3>2. QED
      BY <2>1, <3>1, <1>n DEF Left
  <2>2. CASE stage'[q] \notin {"conflict", "rollback"}
    <3>1. PICK e \in pending[q] :
            /\ stage[q] # "append" /\ stage'[q] = stage[q]
            /\ pending' = [pending EXCEPT ![q] = @ \ {e}]
      BY <1>4, <2>2 DEF QueryFails, Goto
    <3>2. stage[q] \notin Unwritten \cup {"pair"} \cup Written
      BY <3>1 DEF Left, NoTrace, Settled, Written
    <3>3. \A d \in pending'[q] : d.by = q
      BY <3>1 DEF Left
    <3>4. stage[q] \notin Writing
      BY <3>2 DEF Unwritten, Writing
    <3>5. QED
      BY <3>1, <3>2, <3>3, <3>4 DEF Left
  <2>3. QED
    BY <2>1, <2>2
<1>5. QED
  BY <1>1, <1>2, <1>3, <1>4

\* A restart takes the handlers away and what they had still to append.
LEMMA RestartLeaves ==
  ASSUME IInv, TypeOK', NEW q \in Requests, Left(q), Restart
  PROVE  Left(q)'
<1> USE DEF IInv, TypeOK
<1>1. /\ pending'[q] = {} /\ input'[q] = input[q]
      /\ UNCHANGED <<applications, collaborations, events>>
      /\ stage'[q] = IF q \in InFlight THEN "lost" ELSE stage[q]
  BY DEF Restart, tables
<1>2. CASE stage'[q] = "lost"
  BY <1>1, <1>2 DEF Left, Unwritten, Written, Writing
<1>3. CASE stage'[q] # "lost"
  <2>1. stage'[q] = stage[q] /\ stage[q] \in {"idle"} \cup Answers
    BY <1>1, <1>3 DEF InFlight
  <2>2. stage[q] \in Unwritten \cup Written => pending[q] = {}
    BY <2>1 DEF Left, NoTrace, Settled, Written, Answers
  <2>3. CASE stage[q] \in Unwritten \cup Written
    <3>1. Untouched(q)
      BY <1>1, <2>2, <2>3 DEF Untouched
    <3>2. stage[q] \notin Writing
      BY <2>1 DEF Answers, Writing
    <3>3. QED
      BY <2>1, <3>1, <3>2, LeftUntouched
  <2>4. CASE stage[q] \notin Unwritten \cup Written
    <3>1. stage[q] \notin Writing \cup {"pair"}
      BY <2>1 DEF Answers, Writing
    <3>2. QED
      BY <1>1, <2>1, <2>4, <3>1 DEF Left
  <2>5. QED
    BY <2>3, <2>4
<1>4. QED
  BY <1>2, <1>3

\* The empty tables.
LEMMA InitLeft == Init => AInv
  BY DEF Init, AInv, Left, NoTrace, TraceOf, Written, Writing

\* What a handler has left behind stays, whoever runs.
THEOREM NextLeft == IInv /\ AInv /\ [Next]_vars => AInv'
<1> SUFFICES ASSUME IInv, AInv, [Next]_vars, NEW q \in Requests
             PROVE  Left(q)'
  BY DEF AInv
<1>1. Left(q)
  BY DEF AInv
<1>2. CASE UNCHANGED vars
  BY <1>1, <1>2
     DEF vars, Left, NoTrace, TraceOf, Complete, BuiltEvents, Wanted
<1>3. CASE Next
  <2>t. TypeOK'
    BY <1>3, TypeStep
  <2>1. CASE Restart
    BY <1>1, <2>t, <2>1, RestartLeaves
  <2>2. CASE Finished
    BY <1>1, <2>2
       DEF Finished, vars, Left, NoTrace, TraceOf, Complete, BuiltEvents, Wanted
  <2>3. ASSUME Handle(q) \/ QueryFails(q) \/ (\E i \in Inputs : Receive(q, i))
        PROVE  Left(q)'
    BY <1>1, <2>t, <2>3, ReadingLeaves, WritingLeaves, AppendingLeaves DEF Handle
  <2>4. ASSUME NEW r \in Requests, r # q,
               Handle(r) \/ QueryFails(r) \/ (\E i \in Inputs : Receive(r, i))
        PROVE  Left(q)'
    <3>1. Untouched(q) /\ stage'[q] = stage[q]
      BY <2>4, Elsewhere
    <3>2. QED
      BY <1>1, <2>t, <3>1, LeftUntouched DEF Left
  <2>5. QED
    BY <1>3, <2>1, <2>2, <2>3, <2>4 DEF Next
<1>4. QED
  BY <1>2, <1>3

\* No handler leaves more or less behind than it should.
THEOREM AnswersInvariance == Spec => []AInv
  BY InitLeft, NextLeft, Invariance, PTL DEF Spec

\* A 2xx answer means that every row and every event of the request is in the
\* tables, and a refusal that none is, whatever failed or ran meanwhile.
THEOREM AnswersCorrect == Spec => []AnswersAreTruthful
<1>1. IInv /\ AInv => AnswersAreTruthful
  <2> SUFFICES ASSUME IInv, AInv, NEW r \in Requests
               PROVE  /\ stage[r] = "ok" => Durable(r)
                      /\ stage[r] \in {"unauthenticated", "forbidden", "not_found",
                                       "invalid"} => NoTrace(r)
    BY DEF AnswersAreTruthful
  <2>1. Left(r) /\ Settled(r)
    BY DEF AInv, IInv
  <2>2. ASSUME stage[r] = "ok" PROVE Durable(r)
    <3>1. pending[r] = {} /\ Complete(r)
      BY <2>1, <2>2 DEF Settled, Left, Written
    <3>2. BuiltEvents(r) = TraceOf(r)
      BY <3>1 DEF BuiltEvents, TraceOf
    <3>3. QED
      BY <3>1, <3>2 DEF Complete, Durable
  <2>3. QED
    BY <2>1, <2>2 DEF Left, Unwritten
<1>2. QED
  BY <1>1, Invariance, AnswersInvariance, PTL
-----------------------------------------------------------------------------
\* r accounts for the state of p, by an event it has built or is about to build.
Explains(r, p) ==
  \/ \E e \in MovesOf(BuiltEvents(r)) : e.post = p /\ e.to = posts[p].state
  \/ stage[r] = "pair" /\ input[r].post = p /\ posts[p].state = "accepted"

\* Without a fault no event a handler has built is lost: it waits for nothing when
\* it builds.
LEMMA BuiltStays ==
  ASSUME IInv, AInv, NEW q \in Requests,
         Handle(q) \/ (\E i \in Inputs : Receive(q, i))
  PROVE  BuiltEvents(q) \subseteq BuiltEvents(q)'
<1> USE DEF IInv, TypeOK
<1>1. ASSUME \/ CreatePost(q) \/ UpdatePostDetails(q) \/ UpdatePostState(q)
             \/ CreateApplication(q) \/ CreateCollaboration(q)
      PROVE  BuiltEvents(q) \subseteq BuiltEvents(q)'
  <2>1. /\ stage[q] \in {"write", "pair"} /\ events' = events
    BY <1>1 DEF CreatePost, UpdatePostDetails, UpdatePostState, CreateApplication,
       CreateCollaboration
  <2>2. pending[q] = {}
    BY <2>1 DEF AInv, Left, NoTrace, Unwritten
  <2>3. QED
    BY <2>1, <2>2 DEF BuiltEvents
<1>2. ASSUME NEW e \in pending[q], AppendEvent(q, e)
      PROVE  BuiltEvents(q) \subseteq BuiltEvents(q)'
  <2>1. e.by = q /\ events' = events \cup {e} /\ pending'[q] = pending[q] \ {e}
    BY <1>2 DEF AppendEvent, AInv, Left
  <2>2. QED
    BY <2>1 DEF BuiltEvents
<1>3. ASSUME \/ LoadPost(q) \/ ListApplications(q) \/ Connect(q) \/ RereadPost(q)
             \/ PublishRealtime(q) \/ Commit(q) \/ Rollback(q)
             \/ \E i \in Inputs : Receive(q, i)
      PROVE  BuiltEvents(q) \subseteq BuiltEvents(q)'
  BY <1>3 DEF LoadPost, ListApplications, Connect, RereadPost, PublishRealtime, Commit,
     Rollback, Receive, tables, BuiltEvents
<1>4. QED
  BY <1>1, <1>2, <1>3 DEF Handle

\* Who accounts for a state does so as long as the row has it.
LEMMA ExplainsOn ==
  ASSUME IInv, AInv, NEW p \in Posts, NEW q \in Requests, Explains(q, p),
         posts'[p].state = posts[p].state, NEW r \in Requests,
         Handle(r) \/ (\E i \in Inputs : Receive(r, i))
  PROVE  Explains(q, p)'
<1> USE DEF IInv, TypeOK
<1>1. CASE r # q
  <2>1. Untouched(q) /\ stage'[q] = stage[q]
    BY <1>1, Elsewhere
  <2>2. BuiltEvents(q) \subseteq BuiltEvents(q)'
    BY <2>1 DEF Untouched, BuiltEvents
  <2>3. QED
    BY <2>1, <2>2 DEF Explains, MovesOf, Untouched
<1>2. CASE r = q
  <2>1. CASE \E e \in MovesOf(BuiltEvents(q)) : e.post = p /\ e.to = posts[p].state
    BY <1>2, <2>1, BuiltStays DEF Explains, MovesOf
  <2>2. CASE stage[q] = "pair" /\ input[q].post = p /\ posts[p].state = "accepted"
    <3>1. CASE CreateCollaboration(q)
      <4>1. pending'[q] = AcceptEvents(q) /\ input[q].op = "accept"
        BY <2>2, <3>1 DEF CreateCollaboration, Built, Suspended
      <4>2. /\ Moved(q).type = "post.state_changed" /\ Moved(q).post = p
            /\ Moved(q).to = "accepted"
        BY <2>2, <4>1 DEF Moved, EventOf, NextState
      <4>3. Moved(q) \in MovesOf(BuiltEvents(q)')
        BY <4>1, <4>2 DEF AcceptEvents, BuiltEvents, MovesOf
      <4>4. QED
        BY <2>2, <4>2, <4>3 DEF Explains, MovesOf
    <3>2. CASE \E e \in pending[q] : AppendEvent(q, e)
      BY <2>2, <3>2 DEF AInv, Left
    <3>3. QED
      BY <1>2, <2>2, <3>1, <3>2
         DEF Handle, Receive, LoadPost, ListApplications, Connect, CreatePost,
             RereadPost, UpdatePostDetails, UpdatePostState, CreateApplication,
             PublishRealtime, Commit, Rollback
  <2>3. QED
    BY <2>1, <2>2 DEF Explains
<1>3. QED
  BY <1>1, <1>2

\* A row is in another state than before only if it is new, or if the handler that
\* moved it accounts for that.
LEMMA NewStateExplained ==
  ASSUME IInv, AInv, NEW p \in Posts, NEW r \in Requests,
         Handle(r) \/ (\E i \in Inputs : Receive(r, i))
  PROVE  \/ posts'[p] = posts[p]
         \/ posts[p] # NoPost /\ posts'[p].state = posts[p].state
         \/ posts'[p].state = "open"
         \/ Explains(r, p)'
<1> USE DEF IInv, TypeOK
<1>1. CASE UNCHANGED posts
  BY <1>1
<1>2. CASE CreatePost(r)
  <2>1. PICK n \in Posts :
          posts' = [posts EXCEPT ![n] =
                     [creator |-> input[r].actor, title |-> input[r].title,
                      credit |-> input[r].credit, state |-> "open"]]
    BY <1>2 DEF CreatePost
  <2>2. QED
    BY <2>1
<1>3. CASE UpdatePostDetails(r)
  <2>1. /\ input[r].post \in Posts /\ posts[input[r].post] \in Post
    BY <1>3, InputShape DEF UpdatePostDetails, Suspended, Writing
  <2>2. Patched(r, posts[input[r].post]).state = posts[input[r].post].state
    BY <2>1 DEF Patched, Post
  <2>3. \/ posts' = [posts EXCEPT ![input[r].post] = Patched(r, posts[input[r].post])]
        \/ posts' = posts
    BY <1>3 DEF UpdatePostDetails
  <2>4. QED
    BY <2>1, <2>2, <2>3, NullAssumption
<1>4. CASE UpdatePostState(r)
  <2>1. /\ input[r].post \in Posts /\ posts[input[r].post] \in Post
        /\ input[r].op \in {"cancel", "transition", "accept"}
    BY <1>4, InputShape DEF UpdatePostState, Suspended, Writing
  <2>2. posts' = [posts EXCEPT ![input[r].post].state = NextState(input[r])]
    BY <1>4 DEF UpdatePostState
  <2>3. input' = input
    BY <1>4 DEF UpdatePostState
  <2>4. CASE p # input[r].post
    BY <2>2, <2>4
  <2>5. CASE p = input[r].post /\ input[r].op = "accept"
    <3>1. stage'[r] = "pair"
      BY <1>4, <2>5 DEF UpdatePostState, Goto
    <3>2. posts'[p].state = "accepted"
      BY <2>1, <2>2, <2>5 DEF NextState, Post
    <3>3. QED
      BY <2>3, <2>5, <3>1, <3>2 DEF Explains
  <2>6. CASE p = input[r].post /\ input[r].op # "accept"
    <3>1. pending'[r] = {Moved(r)}
      BY <1>4, <2>6 DEF UpdatePostState, Built
    <3>2. posts'[p].state = NextState(input[r])
      BY <2>1, <2>2, <2>6 DEF Post
    <3>3. /\ Moved(r).type = "post.state_changed" /\ Moved(r).post = p
          /\ Moved(r).to = NextState(input[r])
      BY <2>6 DEF Moved, EventOf
    <3>4. Moved(r) \in MovesOf(BuiltEvents(r)')
      BY <3>1, <3>3 DEF BuiltEvents, MovesOf
    <3>5. QED
      BY <3>2, <3>3, <3>4 DEF Explains, MovesOf
  <2>7. QED
    BY <2>4, <2>5, <2>6
<1>5. QED
  BY <1>1, <1>2, <1>3, <1>4
     DEF Handle, Receive, LoadPost, ListApplications, Connect, RereadPost,
         CreateApplication, CreateCollaboration, AppendEvent, PublishRealtime,
         Commit, Rollback, tables

\* As long as nothing fails the log explains the state of every post, under any
\* number of concurrent writers.
THEOREM StatesExplained == Spec => []StateIsLogged
<1> DEFINE Explained ==
      faults = 0 =>
        \A p \in Posts :
          posts[p] = NoPost \/ posts[p].state = "open" \/ \E r \in Requests : Explains(r, p)
<1>1. StateIsLogged <=> Explained
  BY DEF StateIsLogged, Explains
<1>2. Init => Explained
  BY DEF Init
<1>3. IInv /\ AInv /\ Explained /\ [Next]_vars => Explained'
  <2> SUFFICES ASSUME IInv, AInv, Explained, [Next]_vars, faults' = 0, NEW p \in Posts
               PROVE  \/ posts'[p] = NoPost \/ posts'[p].state = "open"
                      \/ \E r \in Requests : Explains(r, p)'
    OBVIOUS
  <2> USE DEF IInv, TypeOK
  <2>1. CASE UNCHANGED vars
    BY <2>1 DEF vars, Explains, MovesOf, BuiltEvents
  <2>2. ASSUME NEW r \in Requests, Handle(r) \/ (\E i \in Inputs : Receive(r, i))
        PROVE  \/ posts'[p] = NoPost \/ posts'[p].state = "open"
               \/ \E q \in Requests : Explains(q, p)'
    <3>1. faults = 0
      BY <2>2 DEF Handle, Receive, LoadPost, ListApplications, Connect, CreatePost,
         RereadPost, UpdatePostDetails, UpdatePostState, CreateApplication,
         CreateCollaboration, AppendEvent, PublishRealtime, Commit, Rollback
    <3>2. \/ posts[p] = NoPost \/ posts[p].state = "open"
          \/ \E q \in Requests : Explains(q, p)
      BY <3>1
    <3>3. QED
      BY <2>2, <3>2, NewStateExplained, ExplainsOn
  <2>3. ~Restart /\ \A r \in Requests : ~QueryFails(r)
    BY DEF Restart, QueryFails
  <2>4. CASE Finished
    BY <2>1, <2>4 DEF Finished
  <2>5. QED
    BY <2>1, <2>2, <2>3, <2>4 DEF Next
<1> HIDE DEF Explained
<1>4. Spec => []Explained
  BY <1>2, <1>3, Invariance, AnswersInvariance, PTL DEF Spec
<1>5. QED
  BY <1>1, <1>4, PTL

\* An edit never brings back a state it read before.
THEOREM EditsCorrect == Spec => EditsKeepState
<1> DEFINE Kept ==
      \A r \in Requests :
        stage[r] = "write" /\ input[r].op = "update" /\ stage'[r] = "append" =>
          posts'[input[r].post].state = posts[input[r].post].state
<1>1. IInv /\ AInv /\ [Next]_vars => [Kept]_vars
  <2> SUFFICES ASSUME IInv, AInv, Next, NEW r \in Requests,
                      stage[r] = "write", input[r].op = "update", stage'[r] = "append"
               PROVE  posts'[input[r].post].state = posts[input[r].post].state
    OBVIOUS
  <2> USE DEF IInv, TypeOK
  <2>1. UpdatePostDetails(r)
    <3>1. ~\E q \in Requests :
             q # r /\ (Handle(q) \/ QueryFails(q) \/ \E i \in Inputs : Receive(q, i))
      BY Elsewhere
    <3>2. ~QueryFails(r) /\ ~Restart /\ ~Finished
      BY DEF QueryFails, Restart, Finished, Goto, vars
    <3>3. ~\E e \in pending[r] : AppendEvent(r, e)
      BY DEF AppendEvent
    <3>4. Handle(r)
      BY <3>1, <3>2 DEF Next, Receive
    <3>5. QED
      BY <3>3, <3>4
         DEF Handle, LoadPost, ListApplications, Connect, CreatePost, RereadPost,
             UpdatePostState, CreateApplication, CreateCollaboration,
             PublishRealtime, Commit, Rollback
  <2>2. input[r].post \in Posts /\ posts[input[r].post] \in Post
    BY <2>1, InputShape DEF UpdatePostDetails, Suspended, Writing
  <2>3. Patched(r, posts[input[r].post]).state = posts[input[r].post].state
    BY <2>2 DEF Patched, Post
  <2>4. QED
    BY <2>1, <2>2, <2>3 DEF UpdatePostDetails
<1>2. QED
  BY <1>1, Invariance, AnswersInvariance, PTL DEF Spec, EditsKeepState
-----------------------------------------------------------------------------
(***************************************************************************)
(* One request at a time, on Maps: the service implements PostLifecycle, and *)
(* gives a post away once.                                                   *)
(***************************************************************************)
\* The memory backend, which reads the next request when it has answered the last.
Serial == Backend = "memory" /\ MaxInFlight = 1

Alone == \A q, r \in InFlight : q = r

\* Nobody has written since a handler read: the row it decided on is the row it
\* writes, and what it found allowed is allowed.
Current(r) ==
  /\ stage[r] \in {"list", "connect", "reread", "write"} /\ input[r].op # "create" =>
       snapshot[r] = posts[input[r].post]
  /\ stage[r] \in {"connect", "write"} /\ input[r].op = "submit" =>
       CanSubmitApplication(snapshot[r], input[r].actor)

\* Ids of applications are those of their requests.
OneApplicationPerRequest ==
  \A a, b \in applications : a.id = b.id => a = b

\* Rows hold values of the bodies that made and changed them.
RowsFromBodies ==
  \A p \in Posts : posts[p] # NoPost =>
    posts[p].title \in Titles /\ posts[p].credit \in Credits

SInv ==
  /\ Alone
  /\ \A r \in Requests : Current(r)
  /\ OneApplicationPerRequest
  /\ RowsFromBodies

\* The collaborations and the log that the refinement reads off a state.
Given == collaborations \cup (UNION {NewCollaborations(r) : r \in Accepting})

Logged ==
  events \cup (UNION {pending[r] : r \in Requests})
         \cup (UNION {AcceptEvents(r) : r \in Accepting})

\* What has been given away is no longer offered, and was given once.
GivenOnce ==
  /\ \A c, d \in Given : c.post = d.post => c = d
  /\ \A c \in Given : /\ c.post \in Posts /\ posts[c.post] # NoPost
                      /\ posts[c.post].state \notin {"open", "in_review"}
-----------------------------------------------------------------------------

\* No query fails and nothing restarts on Maps: a step is that of a request.
LEMMA SerialSteps ==
  ASSUME Serial, [Next]_vars
  PROVE  \/ \E r \in Requests, i \in Inputs : Receive(r, i)
         \/ \E r \in Requests : Handle(r)
         \/ UNCHANGED vars
  BY DEF Serial, Next, QueryFails, Restart, Finished

\* A handler is in flight at every stage it leaves; an insert may be late.
LEMMA StepsRun ==
  ASSUME NEW r \in Requests, Handle(r)
  PROVE  \/ r \in InFlight
         \/ \E e \in pending[r] : AppendEvent(r, e) /\ UNCHANGED stage
<1> USE DEF InFlight, Answers
<1>1. CASE \E e \in pending[r] : AppendEvent(r, e)
  BY <1>1 DEF AppendEvent
<1>2. QED
  BY <1>1 DEF Handle, LoadPost, ListApplications, Connect, CreatePost, RereadPost,
     UpdatePostDetails, UpdatePostState, CreateApplication, CreateCollaboration,
     PublishRealtime, Commit, Rollback

\* The next request is read when nobody is in flight.
LEMMA ReceiveAlone ==
  ASSUME Serial, Alone, NEW r \in Requests, NEW i \in Inputs, Receive(r, i)
  PROVE  InFlight = {}
<1> SUFFICES ASSUME NEW q \in InFlight PROVE FALSE
  OBVIOUS
<1>1. InFlight = {q}
  BY DEF Alone
<1>2. Cardinality(InFlight) = 1
  BY <1>1, FS_Singleton
<1>3. QED
  BY <1>2 DEF Receive, Serial

\* Only the stage of r moves, and never from an answer back into flight.
LEMMA OthersStay ==
  ASSUME IInv, NEW r \in Requests,
         Handle(r) \/ (\E i \in Inputs : Receive(r, i))
  PROVE  \A q \in Requests : q # r => stage'[q] = stage[q]
  BY DEF IInv, TypeOK, Handle, Receive, LoadPost, ListApplications, Connect,
     CreatePost, RereadPost, UpdatePostDetails, UpdatePostState, CreateApplication,
     CreateCollaboration, AppendEvent, PublishRealtime, Commit, Rollback, Goto

\* The memory backend takes a request when it has answered the last.
LEMMA AloneStep ==
  ASSUME Serial, IInv, Alone, [Next]_vars
  PROVE  Alone'
<1>1. CASE UNCHANGED vars
  BY <1>1 DEF vars, Alone, InFlight
<1>2. ASSUME NEW r \in Requests, NEW i \in Inputs, Receive(r, i)
      PROVE  Alone'
  BY <1>2, ReceiveAlone, OthersStay DEF Alone, InFlight
<1>3. ASSUME NEW r \in Requests, Handle(r)
      PROVE  Alone'
  <2>1. CASE r \in InFlight
    BY <1>3, <2>1, OthersStay DEF Alone, InFlight
  <2>2. CASE UNCHANGED stage
    BY <2>2 DEF Alone, InFlight
  <2>3. QED
    BY <1>3, <2>1, <2>2, StepsRun
<1>4. QED
  BY <1>1, <1>2, <1>3, SerialSteps

\* The one handler in flight reads the row it will write, and nobody else writes.
LEMMA CurrentStep ==
  ASSUME Serial, IInv, SInv, [Next]_vars, NEW q \in Requests
  PROVE  Current(q)'
<1> USE DEF IInv, TypeOK
<1>1. CASE UNCHANGED vars
  BY <1>1 DEF vars, SInv, Current
<1>2. ASSUME q \notin InFlight, stage'[q] = stage[q]
      PROVE  Current(q)'
  BY <1>2 DEF Current, InFlight, Answers
<1>3. ASSUME NEW i \in Inputs, Receive(q, i)
      PROVE  Current(q)'
  BY <1>3 DEF Receive, Goto, Admission, BeginWork, Current
<1>4. ASSUME Handle(q)
      PROVE  Current(q)'
  <2>1. CASE LoadPost(q)
    <3>1. /\ snapshot'[q] = posts[input[q].post] /\ posts' = posts /\ input' = input
          /\ stage'[q] = Verdict(input[q], posts[input[q].post])
      BY <2>1 DEF LoadPost, Goto, tables
    <3>2. stage'[q] \in {"connect", "write"} /\ input[q].op = "submit" =>
            CanSubmitApplication(snapshot'[q], input[q].actor)
      BY <3>1 DEF Verdict, BeginWork
    <3>3. QED
      BY <3>1, <3>2 DEF Current
  <2>2. CASE ListApplications(q) \/ Connect(q)
    <3>1. UNCHANGED <<posts, input, snapshot>>
      BY <2>2 DEF ListApplications, Connect, tables
    <3>2. stage[q] = "list" => input[q].op = "accept"
      BY DEF Suspended
    <3>3. Current(q)
      BY DEF SInv
    <3>4. stage[q] \in {"list", "connect"}
      BY <2>2 DEF ListApplications, Connect
    <3>5. QED
      BY <2>2, <3>1, <3>2, <3>3, <3>4 DEF ListApplications, Connect, Goto, Current
  <2>3. CASE RereadPost(q)
    BY <2>3 DEF RereadPost, Goto, tables, Current, Suspended
  <2>4. ASSUME NEW e \in pending[q], AppendEvent(q, e)
        PROVE  Current(q)'
    BY <2>4 DEF AppendEvent, Goto, SInv, Current
  <2>5. CASE \/ CreatePost(q) \/ UpdatePostDetails(q) \/ UpdatePostState(q)
             \/ CreateApplication(q) \/ CreateCollaboration(q)
             \/ PublishRealtime(q) \/ Commit(q) \/ Rollback(q)
    <3>1. stage'[q] \in {"append", "rollback", "pair", "commit", "ok", "conflict"}
      BY <2>5 DEF CreatePost, UpdatePostDetails, UpdatePostState, CreateApplication,
         CreateCollaboration, PublishRealtime, Commit, Rollback, Goto, EndWork
    <3>2. QED
      BY <3>1 DEF Current
  <2>6. QED
    BY <1>4, <2>1, <2>2, <2>3, <2>4, <2>5 DEF Handle
<1>5. ASSUME NEW r \in Requests, r # q, NEW i \in Inputs, Receive(r, i)
      PROVE  Current(q)'
  BY <1>2, <1>5, OthersStay, ReceiveAlone DEF SInv
<1>6. ASSUME NEW r \in Requests, r # q, Handle(r)
      PROVE  Current(q)'
  <2>1. CASE r \in InFlight
    BY <1>2, <1>6, <2>1, OthersStay DEF SInv, Alone
  <2>2. ASSUME NEW e \in pending[r], AppendEvent(r, e), UNCHANGED stage
        PROVE  Current(q)'
    BY <2>2 DEF AppendEvent, SInv, Current
  <2>3. QED
    BY <1>6, <2>1, <2>2, StepsRun
<1>7. QED
  BY <1>1, <1>3, <1>4, <1>5, <1>6, SerialSteps

\* A request adds its application once: before that it has left nothing.
LEMMA ApplicationsStep ==
  ASSUME IInv, AInv, OneApplicationPerRequest, Serial, [Next]_vars
  PROVE  OneApplicationPerRequest'
<1>1. ASSUME NEW r \in Requests, CreateApplication(r)
      PROVE  OneApplicationPerRequest'
  <2>1. \A a \in applications : a.id # r
    BY <1>1 DEF CreateApplication, AInv, Left, Unwritten, NoTrace
  <2>2. QED
    BY <1>1, <2>1 DEF CreateApplication, OneApplicationPerRequest
<1>2. CASE UNCHANGED applications
  BY <1>2 DEF OneApplicationPerRequest
<1>3. QED
  BY <1>1, <1>2, SerialSteps
     DEF Handle, Receive, LoadPost, ListApplications, Connect, CreatePost, RereadPost,
         UpdatePostDetails, UpdatePostState, CreateCollaboration, AppendEvent,
         PublishRealtime, Commit, Rollback, tables, vars

\* On Maps an edit replaces two fields of the row by values of bodies.
LEMMA EditWrites ==
  ASSUME Serial, IInv, RowsFromBodies, NEW r \in Requests, UpdatePostDetails(r)
  PROVE  /\ input[r].post \in Posts
         /\ posts[input[r].post] \in Post /\ posts[input[r].post] # NoPost
         /\ stage'[r] = "append"
         /\ pending' = [pending EXCEPT ![r] = {Plain(r, "post.updated", input[r].post)}]
         /\ \E t \in Titles, c \in Credits :
              posts' = [posts EXCEPT ![input[r].post].title = t,
                                     ![input[r].post].credit = c]
<1> USE DEF IInv, TypeOK
<1> DEFINE p == input[r].post
           row == Patched(r, posts[p])
<1>1. input[r] \in Inputs /\ input[r].op = "update" /\ stage[r] = "write"
  BY DEF UpdatePostDetails, Suspended
<1>2. p \in Posts /\ posts[p] \in Post /\ posts[p] # NoPost
  BY <1>1, InputShape, NullAssumption DEF Suspended, Writing
<1>3. RowAccepted(row)
  BY DEF RowAccepted, Serial
<1>4. /\ posts' = [posts EXCEPT ![p] = row]
      /\ pending' = [pending EXCEPT ![r] = {Plain(r, "post.updated", p)}]
      /\ stage'[r] = "append"
  BY <1>3 DEF UpdatePostDetails, Built, Goto
<1> DEFINE t == Field(input[r].title, posts[p].title)
           c == Field(input[r].credit, posts[p].credit)
<1>5. row = [posts[p] EXCEPT !.title = t, !.credit = c]
  BY DEF Patched, Serial
<1>6. t \in Titles /\ c \in Credits
  BY <1>1, <1>2, InputShape DEF Field, RowsFromBodies
<1>7. posts' = [posts EXCEPT ![p].title = t, ![p].credit = c]
  <2> HIDE DEF t, c, row, p
  <2>1. [posts EXCEPT ![p].title = t, ![p].credit = c]
          = [posts EXCEPT ![p] = [posts[p] EXCEPT !.title = t, !.credit = c]]
    BY <1>2 DEF Post
  <2>2. QED
    BY <1>4, <1>5, <2>1
<1>8. \E x \in Titles, y \in Credits :
        posts' = [posts EXCEPT ![p].title = x, ![p].credit = y]
  <2> HIDE DEF t, c, p
  <2>1. QED
    BY <1>6, <1>7
<1>9. QED
  BY <1>2, <1>4, <1>8

\* What is written into a row comes from a body that passed validation.
LEMMA RowsStep ==
  ASSUME Serial, IInv, RowsFromBodies, [Next]_vars
  PROVE  RowsFromBodies'
<1> USE DEF IInv, TypeOK
<1>1. ASSUME NEW r \in Requests, CreatePost(r)
      PROVE  RowsFromBodies'
  <2>1. input[r] \in Inputs /\ input[r].op = "create"
    BY <1>1 DEF CreatePost, Suspended
  <2>2. input[r].title \in Titles /\ input[r].credit \in Credits
    BY <2>1, InputShape
  <2>3. QED
    BY <1>1, <2>2 DEF CreatePost, RowsFromBodies
<1>2. ASSUME NEW r \in Requests, UpdatePostDetails(r)
      PROVE  RowsFromBodies'
  <2>1. PICK t \in Titles, c \in Credits :
          posts' = [posts EXCEPT ![input[r].post].title = t,
                                 ![input[r].post].credit = c]
    BY <1>2, EditWrites
  <2>2. input[r].post \in Posts /\ posts[input[r].post] \in Post
    BY <1>2, EditWrites
  <2>3. posts'[input[r].post].title = t /\ posts'[input[r].post].credit = c
    BY <2>1, <2>2 DEF Post
  <2>4. \A p \in Posts : p # input[r].post => posts'[p] = posts[p]
    BY <2>1
  <2>5. QED
    BY <2>3, <2>4 DEF RowsFromBodies
<1>3. ASSUME NEW r \in Requests, UpdatePostState(r)
      PROVE  RowsFromBodies'
  <2>1. input[r].post \in Posts /\ posts[input[r].post] \in Post
    BY <1>3, InputShape DEF UpdatePostState, Suspended, Writing
  <2>2. posts' = [posts EXCEPT ![input[r].post].state = NextState(input[r])]
    BY <1>3 DEF UpdatePostState
  <2>3. /\ posts'[input[r].post].title = posts[input[r].post].title
        /\ posts'[input[r].post].credit = posts[input[r].post].credit
    BY <2>1, <2>2 DEF Post
  <2>4. \A p \in Posts : p # input[r].post => posts'[p] = posts[p]
    BY <2>2
  <2>5. posts[input[r].post] # NoPost
    BY <2>1, NullAssumption
  <2>6. QED
    BY <2>3, <2>4, <2>5 DEF RowsFromBodies
<1>4. CASE UNCHANGED posts
  BY <1>4 DEF RowsFromBodies
<1>5. QED
  BY <1>1, <1>2, <1>3, <1>4, SerialSteps
     DEF Handle, Receive, LoadPost, ListApplications, Connect, RereadPost,
         CreateApplication, CreateCollaboration, AppendEvent,
         PublishRealtime, Commit, Rollback, tables, vars

\* With one request at a time on Maps a handler is alone, and its snapshot current.
THEOREM SerialInvariance == ASSUME Serial PROVE Spec => []SInv
<1>1. Init => SInv
  <2> SUFFICES ASSUME Init PROVE SInv
    OBVIOUS
  <2>1. InFlight = {}
    BY DEF Init, InFlight
  <2>2. QED
    BY <2>1 DEF Init, SInv, Alone, Current, OneApplicationPerRequest, RowsFromBodies
<1>2. IInv /\ AInv /\ SInv /\ [Next]_vars => SInv'
  BY AloneStep, CurrentStep, ApplicationsStep, RowsStep DEF SInv
<1>3. QED
  BY <1>1, <1>2, Invariance, AnswersInvariance, PTL DEF Spec
-----------------------------------------------------------------------------
(***************************************************************************)
(* The refinement: a write of a first row is the command, every other step *)
(* is a stutter.                                                           *)
(***************************************************************************)
\* The abstract state, and the rules of the lifecycle seen from there.
LEMMA LifecycleState ==
  /\ Lifecycle!vars = <<posts, applications, Given, Logged>>
  /\ \A s, t : Lifecycle!CanTransition(s, t) <=> CanTransition(s, t)
  /\ \A c : Lifecycle!PositiveCredit(c) <=> PositiveCredit(c)
  /\ \A row, u : Lifecycle!CanSubmitApplication(row, u) <=> CanSubmitApplication(row, u)
  /\ \A r, type, p, from, to :
       Lifecycle!Entry(r, type, p, from, to) = EventOf(r, type, p, from, to)
  /\ Lifecycle!PostStates = PostStates
  BY DEF Lifecycle!vars, Given, Logged, Lifecycle!CanTransition, CanTransition,
     Lifecycle!PostTransitions, PostTransitions, Lifecycle!PostStates, PostStates,
     Lifecycle!PositiveCredit, PositiveCredit, Lifecycle!CanSubmitApplication,
     CanSubmitApplication, Lifecycle!Entry, EventOf

\* The mapping reads four things of a state; where they stay, so does the abstract state.
LEMMA SameLifecycle ==
  ASSUME UNCHANGED <<posts, applications, Given, Logged>>
  PROVE  UNCHANGED Lifecycle!vars
  BY DEF Lifecycle!vars, Given, Logged

\* What a handler that is about to write finds: no acceptance between its two rows,
\* and no entry of its own in the log.
LEMMA BeforeWrite ==
  ASSUME IInv, AInv, SInv, NEW r \in Requests, stage[r] = "write"
  PROVE  /\ Accepting = {}
         /\ Given = collaborations
         /\ Logged = events \cup (UNION {pending[q] : q \in Requests})
         /\ pending[r] = {}
         /\ \A e \in Logged : e.by # r
<1>1. Accepting = {}
  BY DEF SInv, Alone, InFlight, Accepting, Answers
<1>2. /\ Given = collaborations
      /\ Logged = events \cup (UNION {pending[q] : q \in Requests})
  BY <1>1 DEF Given, Logged
<1>3. NoTrace(r)
  BY DEF AInv, Left, Unwritten
<1>4. \A e \in events : e.by # r
  BY <1>3 DEF NoTrace, TraceOf
<1>5. ASSUME NEW q \in Requests, NEW e \in pending[q]
      PROVE  e.by # r
  BY <1>3, <1>5 DEF AInv, Left, NoTrace
<1>6. QED
  BY <1>1, <1>2, <1>3, <1>4, <1>5 DEF NoTrace

\* A write that is followed by its insert adds its entries to the log.
LEMMA WriteLogs ==
  ASSUME IInv, AInv, SInv, NEW r \in Requests, stage[r] = "write", NEW es,
         \A q \in Requests : q # r => stage'[q] = stage[q],
         stage'[r] = "append", events' = events, collaborations' = collaborations,
         pending' = [pending EXCEPT ![r] = es]
  PROVE  /\ Given' = Given
         /\ Logged' = Logged \cup es
<1> USE DEF IInv, TypeOK
<1>1. Accepting = {} /\ pending[r] = {}
  BY BeforeWrite
<1>2. Accepting' = {}
  BY <1>1 DEF Accepting
<1>3. /\ Given = collaborations
      /\ Logged = events \cup (UNION {pending[q] : q \in Requests})
  BY BeforeWrite
<1>4. Given' = collaborations'
  BY <1>2 DEF Given
<1>5. Logged' = events' \cup (UNION {pending'[q] : q \in Requests})
  BY <1>2 DEF Logged
<1>6. (UNION {pending'[q] : q \in Requests})
        = (UNION {pending[q] : q \in Requests}) \cup es
  <2>1. /\ \A q \in Requests : q # r => pending'[q] = pending[q]
        /\ pending'[r] = es
    OBVIOUS
  <2>2. ASSUME NEW e
        PROVE  (\E q \in Requests : e \in pending'[q])
                 <=> (\E q \in Requests : e \in pending[q]) \/ e \in es
    BY <1>1, <2>1
  <2>3. QED
    BY <2>2
<1>7. QED
  BY <1>3, <1>4, <1>5, <1>6

\* The insert of a post is the abstract creation.
LEMMA CreateImplements ==
  ASSUME IInv, AInv, SInv, NEW r \in Requests, CreatePost(r)
  PROVE  Lifecycle!Next
<1> USE DEF IInv, TypeOK
<1>1. /\ stage[r] = "write" /\ input[r].op = "create" /\ stage'[r] = "append"
      /\ UNCHANGED <<applications, collaborations, events>>
  BY DEF CreatePost, Goto
<1>2. PICK p \in Posts :
        /\ posts[p] = NoPost
        /\ posts' = [posts EXCEPT ![p] =
                      [creator |-> input[r].actor, title |-> input[r].title,
                       credit |-> input[r].credit, state |-> "open"]]
        /\ pending' = [pending EXCEPT ![r] = {Plain(r, "post.created", p)}]
  BY DEF CreatePost, Built
<1>3. /\ Given' = Given
      /\ Logged' = Logged \cup {Plain(r, "post.created", p)}
  <2>1. \A q \in Requests : q # r => stage'[q] = stage[q]
    BY DEF CreatePost, Goto
  <2>2. QED
    BY <1>1, <1>2, <2>1, WriteLogs
<1>4. \A e \in Logged : e.by # r
  BY <1>1, BeforeWrite
<1>5. /\ input[r].actor \in Users /\ input[r].title \in Titles
      /\ input[r].credit \in Credits /\ PositiveCredit(input[r].credit)
  BY <1>1, InputShape DEF Suspended, Writing
<1>6. Lifecycle!Create(r, p, input[r].actor, input[r].title, input[r].credit)
  BY <1>1, <1>2, <1>3, <1>4, <1>5, LifecycleState
     DEF Lifecycle!Create, Lifecycle!Record, Given, Logged, Plain, NoState
<1>7. QED
  BY <1>5, <1>6 DEF Lifecycle!Next

\* The update of the details is the abstract edit of the row as it is.
LEMMA EditImplements ==
  ASSUME Serial, IInv, AInv, SInv, NEW r \in Requests, UpdatePostDetails(r)
  PROVE  Lifecycle!Next
<1> USE DEF IInv, TypeOK
<1> DEFINE p == input[r].post
<1>1. /\ stage[r] = "write" /\ UNCHANGED <<applications, collaborations, events>>
      /\ \A q \in Requests : q # r => stage'[q] = stage[q]
  BY DEF UpdatePostDetails, Goto
<1>2. /\ p \in Posts /\ posts[p] # NoPost /\ stage'[r] = "append"
      /\ pending' = [pending EXCEPT ![r] = {Plain(r, "post.updated", p)}]
  BY EditWrites DEF SInv
<1>3. PICK t \in Titles, c \in Credits :
        posts' = [posts EXCEPT ![p].title = t, ![p].credit = c]
  BY EditWrites DEF SInv
<1>4. /\ Given' = Given
      /\ Logged' = Logged \cup {Plain(r, "post.updated", p)}
  BY <1>1, <1>2, WriteLogs
<1>5. \A e \in Logged : e.by # r
  BY <1>1, BeforeWrite
<1>6. Lifecycle!Edit(r, p, t, c)
  BY <1>1, <1>2, <1>3, <1>4, <1>5, LifecycleState
     DEF Lifecycle!Edit, Lifecycle!Record, Given, Logged, Plain, NoState
<1>7. QED
  BY <1>2, <1>6 DEF Lifecycle!Next

\* The insert of an application is the abstract application.
LEMMA ApplyImplements ==
  ASSUME IInv, AInv, SInv, NEW r \in Requests, CreateApplication(r)
  PROVE  Lifecycle!Next
<1> USE DEF IInv, TypeOK
<1> DEFINE p == input[r].post
           u == input[r].actor
<1>1. /\ stage[r] = "write" /\ input[r].op = "submit" /\ stage'[r] = "append"
      /\ UNCHANGED <<posts, collaborations, events>>
      /\ applications' = applications \cup {[id |-> r, post |-> p, applicant |-> u]}
      /\ pending' = [pending EXCEPT ![r] = {Plain(r, "application.submitted", p)}]
      /\ \A q \in Requests : q # r => stage'[q] = stage[q]
  BY DEF CreateApplication, Goto, Built
<1>2. p \in Posts /\ u \in Users /\ posts[p] # NoPost
  BY <1>1, InputShape, NullAssumption DEF Suspended, Writing
<1>3. CanSubmitApplication(posts[p], u)
  BY <1>1 DEF SInv, Current
<1>4. /\ Given' = Given
      /\ Logged' = Logged \cup {Plain(r, "application.submitted", p)}
  BY <1>1, WriteLogs
<1>5. \A e \in Logged : e.by # r
  BY <1>1, BeforeWrite
<1>6. Lifecycle!Apply(r, p, u)
  BY <1>1, <1>2, <1>3, <1>4, <1>5, LifecycleState
     DEF Lifecycle!Apply, Lifecycle!Record, Given, Logged, Plain, NoState
<1>7. QED
  BY <1>2, <1>6 DEF Lifecycle!Next

\* What a handler relies on when it moves a post, with the row it has read current.
LEMMA MoveFacts ==
  ASSUME IInv, SInv, NEW r \in Requests, UpdatePostState(r)
  PROVE  /\ input[r].post \in Posts
         /\ posts[input[r].post] # NoPost
         /\ snapshot[r] = posts[input[r].post]
         /\ CanTransition(posts[input[r].post].state, NextState(input[r]))
         /\ NextState(input[r]) \in PostStates
         /\ posts' = [posts EXCEPT ![input[r].post].state = NextState(input[r])]
         /\ \A q \in Requests : q # r => stage'[q] = stage[q]
<1> USE DEF IInv, TypeOK
<1>1. /\ stage[r] = "write" /\ input[r].op \in {"cancel", "transition", "accept"}
      /\ posts' = [posts EXCEPT ![input[r].post].state = NextState(input[r])]
      /\ \A q \in Requests : q # r => stage'[q] = stage[q]
  BY DEF UpdatePostState, Goto
<1>2. /\ input[r] \in Inputs /\ posts[input[r].post] \in Post
      /\ CanTransition(snapshot[r].state, NextState(input[r]))
  BY <1>1 DEF Suspended, Writing, Moving
<1>3. snapshot[r] = posts[input[r].post]
  BY <1>1 DEF SInv, Current
<1>4. input[r].post \in Posts /\ NextState(input[r]) \in PostStates
  BY <1>1, <1>2, InputShape, NextStateShape
<1>5. QED
  BY <1>1, <1>2, <1>3, <1>4, NullAssumption

\* The update of the state is an abstract transition, from the state the row has.
LEMMA MoveImplements ==
  ASSUME IInv, AInv, SInv, NEW r \in Requests, UpdatePostState(r),
         input[r].op # "accept"
  PROVE  Lifecycle!Next
<1> USE DEF IInv, TypeOK
<1> DEFINE p == input[r].post
           s == NextState(input[r])
<1>1. /\ stage[r] = "write" /\ stage'[r] = "append"
      /\ UNCHANGED <<applications, collaborations, events>>
      /\ pending' = [pending EXCEPT ![r] = {Moved(r)}]
  BY DEF UpdatePostState, Goto, Built
<1>2. /\ p \in Posts /\ posts[p] # NoPost /\ snapshot[r] = posts[p]
      /\ CanTransition(posts[p].state, s) /\ s \in PostStates
      /\ posts' = [posts EXCEPT ![p].state = s]
      /\ \A q \in Requests : q # r => stage'[q] = stage[q]
  BY MoveFacts
<1>3. Given' = Given /\ Logged' = Logged \cup {Moved(r)}
  BY <1>1, <1>2, WriteLogs
<1>4. Moved(r) = EventOf(r, "post.state_changed", p, posts[p].state, s)
  BY <1>2 DEF Moved
<1>5. \A e \in Logged : e.by # r
  BY <1>1, BeforeWrite
<1>6. Lifecycle!Move(r, p, s)
  <2> HIDE DEF p, s
  <2>1. QED
    BY <1>1, <1>2, <1>3, <1>4, <1>5, LifecycleState
       DEF Lifecycle!Move, Lifecycle!Record, Given, Logged
<1>7. QED
  BY <1>2, <1>6, LifecycleState DEF Lifecycle!Next

\* An acceptance is one command: its two rows and three entries count from its
\* first write on.
LEMMA AcceptImplements ==
  ASSUME IInv, AInv, SInv, NEW r \in Requests, UpdatePostState(r),
         input[r].op = "accept"
  PROVE  Lifecycle!Next
<1> USE DEF IInv, TypeOK
<1> DEFINE p == input[r].post
<1>1. /\ stage[r] = "write" /\ stage'[r] = "pair"
      /\ UNCHANGED <<applications, collaborations, events, pending, input, snapshot>>
  BY DEF UpdatePostState, Goto
<1>2. /\ p \in Posts /\ posts[p] # NoPost /\ snapshot[r] = posts[p]
      /\ CanTransition(posts[p].state, "accepted")
      /\ posts' = [posts EXCEPT ![p].state = "accepted"]
      /\ \A q \in Requests : q # r => stage'[q] = stage[q]
  BY MoveFacts DEF NextState
<1>3. PICK a \in applications : Wanted(input[r]) = {a} /\ a.post = p
  <2>1. Wanted(input[r]) # {}
    BY <1>1 DEF AInv, Left, Writing
  <2>2. QED
    BY <2>1 DEF Wanted, SInv, OneApplicationPerRequest
<1>4. NewCollaborations(r) =
        {[id |-> r, post |-> p, requester |-> posts[p].creator,
          contributor |-> a.applicant]}
  BY <1>2, <1>3 DEF NewCollaborations
<1>5. AcceptEvents(r) =
        {EventOf(r, "application.accepted", p, "none", "none"),
         EventOf(r, "post.state_changed", p, posts[p].state, "accepted"),
         EventOf(r, "collaboration.started", p, "none", "none")}
  BY <1>2 DEF AcceptEvents, Moved, Plain, NoState, NextState
<1>6. /\ Given' = Given \cup NewCollaborations(r)
      /\ Logged' = Logged \cup AcceptEvents(r)
  <2>1. Accepting = {} /\ Accepting' = {r}
    BY <1>1, <1>2, BeforeWrite DEF Accepting
  <2>2. NewCollaborations(r)' = NewCollaborations(r) /\ AcceptEvents(r)' = AcceptEvents(r)
    BY <1>1 DEF NewCollaborations, Wanted, AcceptEvents, Plain, Moved, EventOf
  <2>3. /\ {NewCollaborations(q)' : q \in Accepting'} = {NewCollaborations(r)}
        /\ {AcceptEvents(q)' : q \in Accepting'} = {AcceptEvents(r)}
    BY <2>1, <2>2
  <2>4. /\ Given' = collaborations \cup NewCollaborations(r)
        /\ Logged' = events \cup (UNION {pending[q] : q \in Requests}) \cup AcceptEvents(r)
    BY <1>1, <2>3 DEF Given, Logged
  <2>5. QED
    BY <1>1, <2>4, BeforeWrite
<1>7. \A e \in Logged : e.by # r
  BY <1>1, BeforeWrite
<1>8. Lifecycle!Accept(r, a)
  BY <1>1, <1>2, <1>3, <1>4, <1>5, <1>6, <1>7, LifecycleState
     DEF Lifecycle!Accept, Lifecycle!Record, Given, Logged
<1>9. QED
  BY <1>8 DEF Lifecycle!Next

\* The second row and the entries of an acceptance have been counted already.
LEMMA PairStutters ==
  ASSUME IInv, AInv, SInv, NEW r \in Requests, CreateCollaboration(r)
  PROVE  UNCHANGED Lifecycle!vars
<1> USE DEF IInv, TypeOK
<1>1. /\ stage[r] = "pair" /\ stage' = [stage EXCEPT ![r] = "append"]
      /\ UNCHANGED <<posts, applications, events>>
      /\ collaborations' = collaborations \cup NewCollaborations(r)
      /\ pending' = [pending EXCEPT ![r] = AcceptEvents(r)]
  BY DEF CreateCollaboration, Goto, Built
<1>2. Accepting = {r} /\ Accepting' = {}
  BY <1>1 DEF Accepting, SInv, Alone, InFlight, Answers
<1>3. pending[r] = {}
  BY <1>1 DEF AInv, Left
<1>4. Given' = Given
  <2>1. {NewCollaborations(q) : q \in Accepting} = {NewCollaborations(r)}
    BY <1>2
  <2>2. Given = collaborations \cup NewCollaborations(r)
    BY <2>1 DEF Given
  <2>3. Given' = collaborations'
    BY <1>2 DEF Given
  <2>4. QED
    BY <1>1, <2>2, <2>3
<1>5. Logged' = Logged
  <2>1. {AcceptEvents(q) : q \in Accepting} = {AcceptEvents(r)}
    BY <1>2
  <2>2. Logged = events \cup (UNION {pending[q] : q \in Requests}) \cup AcceptEvents(r)
    BY <2>1 DEF Logged
  <2>3. Logged' = events' \cup (UNION {pending'[q] : q \in Requests})
    BY <1>2 DEF Logged
  <2>4. /\ \A q \in Requests : q # r => pending'[q] = pending[q]
        /\ pending'[r] = AcceptEvents(r)
    BY <1>1
  <2>5. ASSUME NEW e
        PROVE  (\E q \in Requests : e \in pending'[q])
                 <=> (\E q \in Requests : e \in pending[q]) \/ e \in AcceptEvents(r)
    BY <1>3, <2>4
  <2>6. (UNION {pending'[q] : q \in Requests})
          = (UNION {pending[q] : q \in Requests}) \cup AcceptEvents(r)
    BY <2>5
  <2>7. QED
    BY <1>1, <2>2, <2>3, <2>6
<1>6. QED
  BY <1>1, <1>4, <1>5, SameLifecycle

\* An insert into the event table takes an entry from those that count already.
LEMMA AppendStutters ==
  ASSUME IInv, NEW r \in Requests, NEW e \in pending[r], AppendEvent(r, e)
  PROVE  UNCHANGED Lifecycle!vars
<1> USE DEF IInv, TypeOK
<1>1. /\ UNCHANGED <<posts, applications, collaborations, input, snapshot>>
      /\ events' = events \cup {e}
      /\ pending' = [pending EXCEPT ![r] = @ \ {e}]
      /\ stage' = stage \/ (stage[r] = "append" /\ stage' = [stage EXCEPT ![r] = "publish"])
  BY DEF AppendEvent, Goto
<1>2. Accepting' = Accepting
  BY <1>1 DEF Accepting
<1>3. \A q \in Requests : /\ NewCollaborations(q)' = NewCollaborations(q)
                          /\ AcceptEvents(q)' = AcceptEvents(q)
  BY <1>1 DEF NewCollaborations, Wanted, AcceptEvents, Plain, Moved, EventOf
<1>4. Given' = Given
  BY <1>1, <1>2, <1>3 DEF Given, Accepting
<1>5. Logged' = Logged
  <2>1. /\ \A q \in Requests : q # r => pending'[q] = pending[q]
        /\ pending'[r] = pending[r] \ {e}
    BY <1>1
  <2>2. ASSUME NEW d
        PROVE  d \in events' \/ (\E q \in Requests : d \in pending'[q])
                 <=> d \in events \/ (\E q \in Requests : d \in pending[q])
    BY <1>1, <2>1
  <2>3. events' \cup (UNION {pending'[q] : q \in Requests})
          = events \cup (UNION {pending[q] : q \in Requests})
    BY <2>2
  <2>4. (UNION {AcceptEvents(q)' : q \in Accepting'})
          = (UNION {AcceptEvents(q) : q \in Accepting})
    BY <1>2, <1>3 DEF Accepting
  <2>5. QED
    BY <2>3, <2>4 DEF Logged
<1>6. QED
  BY <1>1, <1>4, <1>5, SameLifecycle

\* A step that leaves the tables, the event table and the events to append, and
\* the acceptance between its rows if there is one, is none of the lifecycle.
LEMMA QuietStutters ==
  ASSUME UNCHANGED <<tables, pending>>,
         Accepting' = Accepting,
         \A q \in Accepting : input'[q] = input[q] /\ snapshot'[q] = snapshot[q]
  PROVE  UNCHANGED Lifecycle!vars
<1>1. \A q \in Accepting : /\ NewCollaborations(q)' = NewCollaborations(q)
                           /\ AcceptEvents(q)' = AcceptEvents(q)
  BY DEF NewCollaborations, Wanted, AcceptEvents, Plain, Moved, EventOf, tables
<1>2. /\ (UNION {NewCollaborations(q)' : q \in Accepting'})
           = (UNION {NewCollaborations(q) : q \in Accepting})
      /\ (UNION {AcceptEvents(q)' : q \in Accepting'})
           = (UNION {AcceptEvents(q) : q \in Accepting})
  BY <1>1
<1>3. Given' = Given /\ Logged' = Logged
  BY <1>2 DEF Given, Logged, tables
<1>4. QED
  BY <1>3, SameLifecycle DEF tables

\* Reading, publishing and answering are such steps.
LEMMA ReadsStutter ==
  ASSUME IInv, NEW r \in Requests,
         \/ \E i \in Inputs : Receive(r, i)
         \/ LoadPost(r) \/ ListApplications(r) \/ Connect(r) \/ RereadPost(r)
         \/ PublishRealtime(r) \/ Commit(r) \/ Rollback(r)
  PROVE  UNCHANGED Lifecycle!vars
<1> USE DEF IInv, TypeOK
<1>1. /\ UNCHANGED <<tables, pending>>
      /\ stage[r] # "pair"
      /\ \A q \in Requests : q # r =>
           /\ stage'[q] = stage[q]
           /\ input'[q] = input[q] /\ snapshot'[q] = snapshot[q]
  BY DEF Receive, LoadPost, ListApplications, Connect, RereadPost, PublishRealtime,
     Commit, Rollback, Goto, tables
<1>2. stage'[r] # "pair"
  <2>1. ASSUME NEW i \in Inputs, Receive(r, i)
        PROVE  stage'[r] # "pair"
    BY <2>1 DEF Receive, Goto, Admission, BeginWork
  <2>2. CASE LoadPost(r)
    BY <2>2 DEF LoadPost, Goto, Verdict, BeginWork
  <2>3. CASE ListApplications(r) \/ Connect(r) \/ RereadPost(r)
    BY <2>3 DEF ListApplications, Connect, RereadPost, Goto, BeginWork
  <2>4. CASE PublishRealtime(r) \/ Commit(r) \/ Rollback(r)
    BY <2>4 DEF PublishRealtime, Commit, Rollback, Goto, EndWork
  <2>5. QED
    BY <2>1, <2>2, <2>3, <2>4
<1>3. Accepting' = Accepting /\ r \notin Accepting
  BY <1>1, <1>2 DEF Accepting
<1>4. QED
  BY <1>1, <1>3, QuietStutters DEF Accepting

\* Every step is a step of PostLifecycle or changes nothing of it.
LEMMA StepImplements ==
  ASSUME Serial, IInv, AInv, SInv, [Next]_vars
  PROVE  [Lifecycle!Next]_Lifecycle!vars
<1>1. CASE UNCHANGED vars
  <2>1. UNCHANGED <<tables, pending>> /\ UNCHANGED <<stage, input, snapshot>>
    BY <1>1 DEF vars, tables
  <2>2. QED
    BY <2>1, QuietStutters DEF Accepting
<1>2. ASSUME NEW r \in Requests, Handle(r)
      PROVE  [Lifecycle!Next]_Lifecycle!vars
  BY <1>2, CreateImplements, EditImplements, MoveImplements, AcceptImplements,
     ApplyImplements, PairStutters, AppendStutters, ReadsStutter DEF Handle
<1>3. ASSUME NEW r \in Requests, NEW i \in Inputs, Receive(r, i)
      PROVE  [Lifecycle!Next]_Lifecycle!vars
  BY <1>3, ReadsStutter
<1>4. QED
  BY <1>1, <1>2, <1>3, SerialSteps

\* One request at a time and no failing query: the service is the lifecycle, every
\* command one step of it although its handler writes rows and events one by one.
THEOREM SerialImplements == ASSUME Serial PROVE Spec => ImplementsPostLifecycle
<1>1. Init => Lifecycle!Init
  <2> SUFFICES ASSUME Init PROVE Lifecycle!Init
    OBVIOUS
  <2>1. Accepting = {}
    BY DEF Init, Accepting
  <2>2. /\ (UNION {NewCollaborations(r) : r \in Accepting}) = {}
        /\ (UNION {AcceptEvents(r) : r \in Accepting}) = {}
        /\ (UNION {pending[r] : r \in Requests}) = {}
    BY <2>1 DEF Init
  <2>3. QED
    BY <2>2 DEF Init, Lifecycle!Init
<1>2. Serial /\ IInv /\ AInv /\ SInv /\ [Next]_vars => [Lifecycle!Next]_Lifecycle!vars
  BY StepImplements
<1>3. QED
  BY <1>1, <1>2, Invariance, AnswersInvariance, SerialInvariance, PTL
     DEF Spec, ImplementsPostLifecycle, Lifecycle!Spec
-----------------------------------------------------------------------------
\* A post is never offered again: no path of the lifecycle leads back to a state
\* it can be accepted from.
LEMMA NeverReoffered ==
  /\ \A s \in PostStates : CanTransition(s, "accepted") => s \in {"open", "in_review"}
  /\ \A s \in PostStates \ {"open", "in_review"} :
       \A t : CanTransition(s, t) => t \notin {"open", "in_review"}
  BY DEF CanTransition, PostTransitions, PostStates

\* No command of the lifecycle gives away what is given.
LEMMA GivenOnceStep ==
  ASSUME IInv, GivenOnce, [Lifecycle!Next]_Lifecycle!vars
  PROVE  GivenOnce'
<1> USE DEF IInv, TypeOK
<1> DEFINE Offered(p) == posts[p].state \in {"open", "in_review"}
<1>s. ASSUME Given' = Given,
             \A c \in Given : posts'[c.post] # NoPost /\ ~Offered(c.post)'
      PROVE  GivenOnce'
  BY <1>s DEF GivenOnce
<1>t. \A p \in Posts : posts[p] # NoPost => posts[p] \in Post /\ posts[p].state \in PostStates
  BY DEF Post
<1>1. CASE UNCHANGED Lifecycle!vars
  BY <1>1 DEF GivenOnce, Given, Lifecycle!vars
<1>2. ASSUME NEW r \in Requests, NEW p \in Posts, NEW u \in Users, NEW t \in Titles,
             NEW c \in Credits, Lifecycle!Create(r, p, u, t, c)
      PROVE  GivenOnce'
  <2>1. /\ Given' = Given /\ posts[p] = NoPost
        /\ \A q \in Posts : q # p => posts'[q] = posts[q]
    BY <1>2 DEF Lifecycle!Create, Given
  <2>2. QED
    BY <1>s, <2>1 DEF GivenOnce
<1>3. ASSUME NEW r \in Requests, NEW p \in Posts, NEW t \in Titles,
             NEW c \in Credits, Lifecycle!Edit(r, p, t, c)
      PROVE  GivenOnce'
  <2>1. /\ Given' = Given /\ posts[p] \in Post
        /\ posts' = [posts EXCEPT ![p].title = t, ![p].credit = c]
    BY <1>3, <1>t DEF Lifecycle!Edit, Given
  <2>2. \A q \in Posts : q # p => posts'[q] = posts[q]
    BY <2>1
  <2>3. posts'[p] = [posts[p] EXCEPT !.title = t, !.credit = c]
    BY <2>1 DEF Post
  <2>4. /\ posts'[p].state = posts[p].state
        /\ posts'[p] \in [creator: Users, title: Titles, credit: Credits, state: PostStates]
    BY <2>1, <2>3 DEF Post
  <2>5. posts'[p] # NoPost
    BY <2>4, NullAssumption, ServiceAssumption DEF Post
  <2>6. QED
    BY <1>s, <2>1, <2>2, <2>4, <2>5 DEF GivenOnce
<1>4. ASSUME NEW r \in Requests, NEW p \in Posts, NEW s \in PostStates,
             Lifecycle!Move(r, p, s)
      PROVE  GivenOnce'
  <2>1. /\ Given' = Given /\ posts[p] \in Post /\ posts[p].state \in PostStates
        /\ CanTransition(posts[p].state, s)
        /\ posts' = [posts EXCEPT ![p].state = s]
    BY <1>4, <1>t, LifecycleState DEF Lifecycle!Move, Given
  <2>2. \A q \in Posts : q # p => posts'[q] = posts[q]
    BY <2>1
  <2>3. posts'[p].state = s /\ posts'[p] \in Post
    BY <2>1 DEF Post
  <2>4. ~Offered(p) => ~Offered(p)'
    BY <2>1, <2>3, NeverReoffered
  <2>5. QED
    BY <1>s, <2>1, <2>2, <2>3, <2>4, NullAssumption DEF GivenOnce
<1>5. ASSUME NEW r \in Requests, NEW p \in Posts, NEW u \in Users,
             Lifecycle!Apply(r, p, u)
      PROVE  GivenOnce'
  BY <1>5 DEF Lifecycle!Apply, GivenOnce, Given
<1>6. ASSUME NEW r \in Requests, NEW a \in applications, Lifecycle!Accept(r, a)
      PROVE  GivenOnce'
  <2> DEFINE p == a.post
             new == [id |-> r, post |-> p, requester |-> posts[p].creator,
                     contributor |-> a.applicant]
  <2>1. p \in Posts
    BY DEF Application
  <2>2. /\ posts[p] \in Post /\ CanTransition(posts[p].state, "accepted")
        /\ posts' = [posts EXCEPT ![p].state = "accepted"]
        /\ Given' = Given \cup {new}
    BY <1>6, <1>t, <2>1, LifecycleState DEF Lifecycle!Accept, Given
  <2>3. \A c \in Given : c.post # p
    BY <2>1, <2>2, <1>t, NeverReoffered, NullAssumption DEF GivenOnce
  <2>4. \A q \in Posts : q # p => posts'[q] = posts[q]
    BY <2>2
  <2>5. posts'[p].state = "accepted" /\ posts'[p] \in Post
    BY <2>1, <2>2 DEF Post, PostStates
  <2>6. new.post = p
    OBVIOUS
  <2> HIDE DEF new, p
  <2>7. QED
    BY <2>1, <2>2, <2>3, <2>4, <2>5, <2>6, NullAssumption DEF GivenOnce
<1>7. QED
  BY <1>1, <1>2, <1>3, <1>4, <1>5, <1>6, LifecycleState DEF Lifecycle!Next

\* One request at a time: a post is given to one contributor.  This is the part of
\* the refinement a client sees, and what concurrent acceptances break.
THEOREM SerialGivesOnce == ASSUME Serial PROVE Spec => []OneCollaborationPerPost
<1>1. Init => GivenOnce
  <2> SUFFICES ASSUME Init PROVE GivenOnce
    OBVIOUS
  <2>1. Given = {}
    BY DEF Init, Given, Accepting
  <2>2. QED
    BY <2>1 DEF GivenOnce
<1>2. IInv /\ GivenOnce /\ [Lifecycle!Next]_Lifecycle!vars => GivenOnce'
  BY GivenOnceStep
<1>3. GivenOnce => OneCollaborationPerPost
  BY DEF GivenOnce, Given, OneCollaborationPerPost
<1>4. QED
  BY <1>1, <1>2, <1>3, Invariance, SerialImplements, PTL
     DEF Spec, ImplementsPostLifecycle, Lifecycle!Spec
=============================================================================
