---------------------------- MODULE PostLifecycle ----------------------------
(***************************************************************************)
(* What the contribution service promises of a post: every command takes   *)
(* effect in one step, on the row as it is at that step, together with its *)
(* entries in the log.                                                     *)
(***************************************************************************)
EXTENDS ContributionDomain

CONSTANTS Users, Posts, Requests, Titles, Credits, NoPost

VARIABLES posts, applications, collaborations, log

vars == <<posts, applications, collaborations, log>>

Entry(r, type, p, from, to) ==
  [by |-> r, type |-> type, post |-> p, from |-> from, to |-> to]

\* The entries of one command, all of them new.
Record(r, es) ==
  /\ \A e \in log : e.by # r
  /\ log' = log \cup es

Create(r, p, u, t, c) ==
  /\ posts[p] = NoPost
  /\ PositiveCredit(c)
  /\ posts' = [posts EXCEPT ![p] =
                 [creator |-> u, title |-> t, credit |-> c, state |-> "open"]]
  /\ Record(r, {Entry(r, "post.created", p, "none", "none")})
  /\ UNCHANGED <<applications, collaborations>>

Edit(r, p, t, c) ==
  /\ posts[p] # NoPost
  /\ posts' = [posts EXCEPT ![p].title = t, ![p].credit = c]
  /\ Record(r, {Entry(r, "post.updated", p, "none", "none")})
  /\ UNCHANGED <<applications, collaborations>>

Move(r, p, s) ==
  /\ posts[p] # NoPost
  /\ CanTransition(posts[p].state, s)
  /\ posts' = [posts EXCEPT ![p].state = s]
  /\ Record(r, {Entry(r, "post.state_changed", p, posts[p].state, s)})
  /\ UNCHANGED <<applications, collaborations>>

Apply(r, p, u) ==
  /\ posts[p] # NoPost
  /\ CanSubmitApplication(posts[p], u)
  /\ applications' = applications \cup {[id |-> r, post |-> p, applicant |-> u]}
  /\ Record(r, {Entry(r, "application.submitted", p, "none", "none")})
  /\ UNCHANGED <<posts, collaborations>>

\* Acceptance moves the post and starts the collaboration at once.
Accept(r, a) ==
  LET p == a.post IN
  /\ posts[p] # NoPost
  /\ CanTransition(posts[p].state, "accepted")
  /\ posts' = [posts EXCEPT ![p].state = "accepted"]
  /\ collaborations' = collaborations \cup
       {[id |-> r, post |-> p, requester |-> posts[p].creator,
         contributor |-> a.applicant]}
  /\ Record(r, {Entry(r, "application.accepted", p, "none", "none"),
                Entry(r, "post.state_changed", p, posts[p].state, "accepted"),
                Entry(r, "collaboration.started", p, "none", "none")})
  /\ UNCHANGED applications

Init ==
  /\ posts = [p \in Posts |-> NoPost]
  /\ applications = {}
  /\ collaborations = {}
  /\ log = {}

Next ==
  \E r \in Requests :
    \/ \E p \in Posts, u \in Users, t \in Titles, c \in Credits :
         Create(r, p, u, t, c)
    \/ \E p \in Posts, t \in Titles, c \in Credits : Edit(r, p, t, c)
    \/ \E p \in Posts, s \in PostStates : Move(r, p, s)
    \/ \E p \in Posts, u \in Users : Apply(r, p, u)
    \/ \E a \in applications : Accept(r, a)

Spec == Init /\ [][Next]_vars
=============================================================================
