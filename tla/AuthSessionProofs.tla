-------------------------- MODULE AuthSessionProofs --------------------------
(***************************************************************************)
(* Tokens die when they are rotated away or their session is revoked, and no *)
(* sooner; for any requests, people, names, lifetimes and faults, on either  *)
(* backend.  IInv is about the tokens a store holds and the requests that    *)
(* present them, Lineage about the rotations of one session, Directory about *)
(* accounts.                                                                 *)
(***************************************************************************)
EXTENDS AuthSession, TLAPS

\* What a handler may rely on where it is suspended: the kind of its request, what
\* it has read, and that the tokens it was sent had been answered to somebody.
Suspended(r) ==
  /\ stage[r] \in {"insert", "inserted"} => input[r].op = "register"
  /\ stage[r] \in {"find", "create"} => input[r].op = "login"
  /\ stage[r] \in {"resolve", "touch"} => input[r].op \in BearerOps
  /\ stage[r] \in {"rotate", "rotating", "rotated"} => input[r].op = "refresh"
  /\ stage[r] \in {"revoke", "revoking", "revoked"} => input[r].op = "logout"
  /\ answer[r] = "revoked" => input[r].op = "logout"
  /\ stage[r] \in {"touch", "rotating"} => seen[r] # None
  /\ stage[r] = "create" => account[r] # NoUser
  /\ answer[r] # "none" => stage[r] = "answered"
  /\ stage[r] = "idle" => earlier[r] = {} /\ input[r].op = "me"
  /\ stage[r] # "idle" => Presents(r, input[r])
  /\ \A q \in earlier[r] : stage[q] \in {"answered", "lost"}
  /\ Unheard(r) => /\ input[r].op = "refresh"
                   /\ stage[r] \in {"rotated", "rotate", "answered", "lost"}

Known(p) == p \in Requests /\ Issued(p)

\* A store holds sessions whose login and whose pairs have been answered, but for the
\* pairs in the table that reached nobody.
Held ==
  \A s \in Requests :
    /\ rows[s] # None =>
         /\ Issued(s)
         /\ rows[s].access = NoPair \/ Known(rows[s].access)
         /\ rows[s].refresh = NoPair \/ Known(rows[s].refresh)
    /\ memory[s] # None =>
         Issued(s) /\ Known(memory[s].access) /\ Known(memory[s].refresh)

\* Two sessions of the table never share a refresh token that somebody has.
RefreshUnique ==
  \A s, t \in Requests :
    /\ rows[s] # None /\ rows[t] # None
    /\ rows[s].refresh = rows[t].refresh /\ rows[s].refresh # NoPair
    => s = t

\* No token is in the table and in memory.
StoresApart ==
  \A s, t \in Requests :
    rows[s] # None /\ memory[t] # None =>
      rows[s].access # memory[t].access /\ rows[s].refresh # memory[t].refresh

\* Between the read and the write of a rotation no other session comes by its token.
RotatingOne(r) ==
  stage[r] = "rotating" =>
    /\ rows[seen[r].id] # None
    /\ \A t \in Requests \ {seen[r].id} :
         rows[t] # None => rows[t].refresh # input[r].refresh
    /\ \A t \in Requests : memory[t] # None => memory[t].refresh # input[r].refresh

\* Nor does memory come by the token a revocation has found in the table.
RevokingRows(r) ==
  stage[r] = "revoking" =>
    \A t \in Requests : memory[t] # None => memory[t].access # input[r].token

\* A refresh token that was good for a rotation is gone from both stores.
Spent(q) ==
  q \in Rotations =>
    \A s \in Requests :
      /\ rows[s] # None => rows[s].refresh # input[q].refresh
      /\ memory[s] # None => memory[s].refresh # input[q].refresh

\* What is still found under the token of a logout that succeeded is revoked.
Dead(l) ==
  answer[l] = "revoked" =>
    \A s \in Requests :
      /\ rows[s] # None /\ rows[s].access = input[l].token => rows[s].revoked
      /\ memory[s] # None /\ memory[s].access = input[l].token => memory[s].revoked

\* A request that began after rotation q and has its token gets nowhere.
AfterRotation(q, r) ==
  q \in Rotations /\ q \in earlier[r] /\ input[r].op = "refresh"
    /\ input[r].refresh = input[q].refresh =>
      r \notin Rotations /\ stage[r] # "rotating"

PastStages == {"rotate", "rotating", "rotated", "revoke", "revoking", "revoked"}

\* A request that began after logout l and has its token, and no actor of its own,
\* stops at the middleware.
AfterLogout(l, r) ==
  answer[l] = "revoked" /\ l \in earlier[r] /\ input[r].op \in BearerOps
    /\ input[r].token = input[l].token /\ input[r].header = "anonymous" =>
      /\ answer[r] \in {"none", "unauthenticated"}
      /\ stage[r] \notin PastStages
      /\ stage[r] = "touch" => seen[r].session.revoked

Stores ==
  /\ IndexAgrees /\ Held
  /\ RefreshUnique /\ StoresApart

IInv ==
  /\ TypeOK
  /\ Stores
  /\ \A r \in Requests : Suspended(r)
  /\ \A r \in Requests : RotatingOne(r) /\ RevokingRows(r)
  /\ \A r \in Requests : Spent(r) /\ Dead(r)
  /\ \A q, r \in Requests : AfterRotation(q, r) /\ AfterLogout(q, r)

-----------------------------------------------------------------------------
(***************************************************************************)
(* What every step of a request shares.                                    *)
(***************************************************************************)
\* Nothing is left of a session in nobody's name, and no rotation is its own.
LEMMA InitIInv == Init => IInv
<1> SUFFICES ASSUME Init PROVE IInv
  OBVIOUS
<1>1. TypeOK
  <2>1. input \in [Requests -> Inputs]
    BY DEF Init, Inputs, Pairs, Actors
  <2>2. now \in 0..Horizon /\ faults \in 0..MaxFaults
    BY AuthAssumption DEF Init
  <2>3. /\ identities \subseteq Users /\ recalled \subseteq Users
        /\ at \in [Requests -> {"db", "memory"}]
    BY AuthAssumption DEF Init
  <2>4. QED
    BY <2>1, <2>2, <2>3 DEF Init, TypeOK, Pairs, Stages, Answers
<1>2. Stores
  BY AuthNulls DEF Init, Stores, IndexAgrees, Held, RefreshUnique, StoresApart, Pairs
<1>3. \A r \in Requests : Suspended(r)
  BY DEF Init, Suspended, Unheard
<1>4. \A r \in Requests : RotatingOne(r) /\ RevokingRows(r)
  BY DEF Init, RotatingOne, RevokingRows
<1>5. \A r \in Requests : Spent(r) /\ Dead(r)
  BY DEF Init, Spent, Dead
<1>6. \A q, r \in Requests : AfterRotation(q, r) /\ AfterLogout(q, r)
  BY DEF Init, AfterRotation, AfterLogout
<1>7. QED
  BY <1>1, <1>2, <1>3, <1>4, <1>5, <1>6 DEF IInv

\* The handlers of the other requests stay where they are.
OthersWait(r) ==
  \A q \in Requests \ {r} :
    /\ input'[q] = input[q] /\ stage'[q] = stage[q] /\ seen'[q] = seen[q]
    /\ account'[q] = account[q] /\ answer'[q] = answer[q] /\ earlier'[q] = earlier[q]

\* The session with the pair r, good until e.
Renewed(session, r, e) ==
  [session EXCEPT !.access = r, !.refresh = r, !.expiresAt = e]

\* A session keeps being one, and its revocation, with a new pair and a new expiry.
LEMMA RenewedSession ==
  ASSUME NEW session \in Session, NEW r \in Tokens, NEW e \in Times
  PROVE  /\ Renewed(session, r, e) \in Session /\ Renewed(session, r, e) # None
         /\ Renewed(session, r, e).access = r /\ Renewed(session, r, e).refresh = r
         /\ Renewed(session, r, e).revoked = session.revoked
<1> DEFINE a == [session EXCEPT !.access = r]
           b == [a EXCEPT !.refresh = r]
           c == [b EXCEPT !.expiresAt = e]
<1>1. a \in Session /\ a.access = r /\ a.revoked = session.revoked
  BY DEF Session
<1> HIDE DEF a
<1>2. /\ b \in Session /\ b.access = r /\ b.refresh = r
      /\ b.revoked = session.revoked
  BY <1>1 DEF Session
<1> HIDE DEF b
<1>3. /\ c \in Session /\ c.access = r /\ c.refresh = r
      /\ c.revoked = session.revoked
  BY <1>2 DEF Session, Pairs
<1>4. c # None
  BY <1>3, AuthNulls
<1> HIDE DEF c
<1>5. Renewed(session, r, e) = c
  BY Zenon DEF a, b, c, Renewed
<1>6. QED
  BY <1>3, <1>4, <1>5

\* A session that a handler gives a new pair, or has just made, is a session.
LEMMA SessionValues ==
  ASSUME TypeOK, NEW r \in Requests
  PROVE  /\ \A u \in Users : Fresh(r, u) \in Session /\ Fresh(r, u) # None
         /\ \A session \in Session :
              /\ Rotated(r, session) \in Session /\ Rotated(r, session) # None
              /\ Rotated(r, session).access = r /\ Rotated(r, session).refresh = r
         /\ \A s \in Requests, session \in Session :
              [id |-> s, session |-> session] \in Seen /\ [id |-> s, session |-> session] # None
<1>1. now + Ttl \in Times
  BY AuthAssumption DEF TypeOK, Times
<1>2. \A u \in Users : Fresh(r, u) \in Session
  BY <1>1 DEF Fresh, Session, Tokens, Pairs
<1>3. \A session \in Session :
        /\ Rotated(r, session) \in Session
        /\ Rotated(r, session).access = r /\ Rotated(r, session).refresh = r
  <2> TAKE session \in Session
  <2>1. Rotated(r, session) = Renewed(session, r, now + Ttl)
    BY Zenon DEF Rotated, Renewed
  <2>2. QED
    BY <1>1, <2>1, RenewedSession DEF Tokens, Pairs
<1>4. \A s \in Requests, session \in Session : [id |-> s, session |-> session] \in Seen
  BY DEF Seen
<1>5. QED
  BY <1>2, <1>3, <1>4, AuthNulls

\* Whose handler has not ended stands for no token and no logout, for a rotation only
\* after its commit, and no request began after its end.
LEMMA Unanswered ==
  ASSUME IInv, NEW r \in Requests, stage[r] \notin {"answered", "lost"}
  PROVE  /\ answer[r] = "none" /\ ~Issued(r)
         /\ stage[r] \notin {"rotated", "rotate"} => ~Unheard(r) /\ r \notin Rotations
         /\ \A q \in Requests : r \notin earlier[q]
         /\ \A s \in Requests :
              /\ rows[s] # None =>
                   s # r /\ rows[s].access # r /\ rows[s].refresh # r
              /\ memory[s] # None =>
                   s # r /\ memory[s].access # r /\ memory[s].refresh # r
<1>1. answer[r] = "none" /\ ~Issued(r)
  BY DEF IInv, Suspended, Issued
<1>2. stage[r] \notin {"rotated", "rotate"} => ~Unheard(r) /\ r \notin Rotations
  BY <1>1 DEF IInv, Suspended, Rotations
<1>3. QED
  BY <1>1, <1>2, AuthNulls DEF IInv, Stores, Held, Known, Suspended

\* Who has read a session has not committed a rotation unheard, unless that is what it
\* has kept.
LEMMA NotUnheard ==
  ASSUME NEW r \in Requests, NEW x, x.session.access \in Requests,
         seen' = [seen EXCEPT ![r] = x], seen \in [Requests -> Seen \cup {None}]
  PROVE  ~Unheard(r)'
BY AuthNulls DEF Unheard

\* A step of one request disturbs the invariant through that request and the stores
\* alone.
LEMMA RequestStep ==
  ASSUME IInv, NEW r \in Requests, stage[r] \notin {"answered", "lost"}, OthersWait(r),
         TypeOK', Stores', Suspended(r)',
         \A q \in Requests : RotatingOne(q)' /\ RevokingRows(q)',
         \A q \in Requests : Spent(q)' /\ Dead(q)',
         \A q \in Requests : AfterRotation(q, r)' /\ AfterLogout(q, r)'
  PROVE  IInv'
<1>1. /\ answer[r] = "none" /\ ~Issued(r)
      /\ \A q \in Requests : r \notin earlier[q]
  BY Unanswered
<1>2. \A q \in Requests :
        stage[q] \in {"answered", "lost"} => stage'[q] \in {"answered", "lost"}
  BY DEF OthersWait
<1>3. \A q \in Requests : Issued(q) => Issued(q)'
  BY <1>1 DEF OthersWait, Issued
<1>4. ASSUME NEW q \in Requests \ {r}
      PROVE  Suspended(q)'
  <2>1. Suspended(q) /\ earlier[q] \subseteq Requests
    BY DEF IInv, TypeOK
  <2>2. /\ input'[q] = input[q] /\ stage'[q] = stage[q] /\ seen'[q] = seen[q]
        /\ account'[q] = account[q] /\ answer'[q] = answer[q] /\ earlier'[q] = earlier[q]
    BY DEF OthersWait
  <2>3. stage[q] # "idle" => Presents(q, input[q])'
    <3>1. input[q] \in Inputs
      BY DEF IInv, TypeOK
    <3>2. input[q].op = "refresh" => input[q].refresh \in Requests
      BY <3>1 DEF Inputs, Pairs
    <3>3. input[q].op \in BearerOps => input[q].token \in Requests
      BY <3>1 DEF Inputs, Pairs, BearerOps
    <3>4. QED
      BY <1>3, <2>1, <2>2, <3>2, <3>3 DEF Suspended, Presents, BearerOps
  <2>4. \A p \in earlier[q] : stage'[p] \in {"answered", "lost"}
    BY <1>2, <2>1 DEF Suspended
  <2>5. Unheard(q)' <=> Unheard(q)
    BY <2>2 DEF Unheard
  <2>6. QED
    BY <2>1, <2>2, <2>3, <2>4, <2>5 DEF Suspended
<1>5. ASSUME NEW p \in Requests, NEW q \in Requests \ {r}
      PROVE  AfterRotation(p, q)' /\ AfterLogout(p, q)'
  <2>1. CASE p = r
    BY <1>1, <2>1 DEF OthersWait, AfterRotation, AfterLogout
  <2>2. CASE p # r
    <3>1. AfterRotation(p, q) /\ AfterLogout(p, q)
      BY DEF IInv
    <3>2. /\ input'[q] = input[q] /\ stage'[q] = stage[q] /\ seen'[q] = seen[q]
          /\ answer'[q] = answer[q] /\ earlier'[q] = earlier[q]
          /\ input'[p] = input[p] /\ answer'[p] = answer[p] /\ seen'[p] = seen[p]
      BY <2>2 DEF OthersWait
    <3>3. /\ p \in Rotations' <=> p \in Rotations
          /\ q \in Rotations' <=> q \in Rotations
      BY <3>2 DEF Rotations, Issued, Unheard
    <3>4. QED
      BY <3>1, <3>2, <3>3 DEF AfterRotation, AfterLogout, Issued
  <2>3. QED
    BY <2>1, <2>2
<1>6. QED
  BY <1>4, <1>5 DEF IInv

\* A step that leaves the stores alone and answers with no token and no revocation
\* disturbs what is said of its own request only.
LEMMA QuietStep ==
  ASSUME IInv, NEW r \in Requests, stage[r] \notin {"answered", "lost"}, OthersWait(r),
         UNCHANGED <<rows, memory, byAccess, byRefresh>>,
         TypeOK', Suspended(r)', answer'[r] \notin {"issued", "revoked"},
         Unheard(r)' => Unheard(r), input'[r] = input[r] \/ ~Unheard(r),
         RotatingOne(r)', RevokingRows(r)',
         \A q \in Requests : AfterRotation(q, r)' /\ AfterLogout(q, r)'
  PROVE  IInv'
<1>1. answer[r] = "none"
  BY Unanswered
<1>2. \A q \in Requests : /\ Issued(q)' <=> Issued(q)
                          /\ answer'[q] = "revoked" <=> answer[q] = "revoked"
  BY <1>1 DEF OthersWait, Issued
<1>3. Stores'
  <2>1. Stores
    BY DEF IInv
  <2>2. IndexAgrees' /\ RefreshUnique' /\ StoresApart'
    BY <2>1 DEF Stores, IndexAgrees, RefreshUnique, StoresApart
  <2>3. Held'
    BY <1>2, <2>1 DEF Stores, Held, Known
  <2>4. QED
    BY <2>2, <2>3 DEF Stores
<1>4. ASSUME NEW q \in Requests
      PROVE  RotatingOne(q)' /\ RevokingRows(q)'
  <2>1. CASE q = r
    BY <2>1
  <2>2. CASE q # r
    BY <2>2 DEF IInv, OthersWait, RotatingOne, RevokingRows
  <2>3. QED
    BY <2>1, <2>2
<1>5. ASSUME NEW q \in Requests
      PROVE  Spent(q)' /\ Dead(q)'
  <2>1. q \in Rotations' => q \in Rotations /\ input'[q] = input[q]
    <3>1. CASE q = r
      BY <1>1, <1>2, <3>1 DEF Rotations, Issued, IInv, Suspended
    <3>2. CASE q # r
      BY <1>2, <3>2 DEF Rotations, OthersWait, Unheard
    <3>3. QED
      BY <3>1, <3>2
  <2>2. answer'[q] = "revoked" => answer[q] = "revoked" /\ input'[q] = input[q]
    BY <1>1, <1>2 DEF OthersWait
  <2>3. Spent(q) /\ Dead(q)
    BY DEF IInv
  <2>4. QED
    BY <2>1, <2>2, <2>3 DEF Spent, Dead
<1>6. QED
  BY <1>3, <1>4, <1>5, RequestStep

\* A request that is past the middleware, or never comes to it, has the token of no
\* logout that was answered before it began.
LEMMA PastMiddleware ==
  ASSUME IInv, NEW r \in Requests, OthersWait(r),
         stage[r] \in PastStages \cup {"insert", "inserted", "find", "create"},
         input'[r] = input[r], earlier'[r] = earlier[r]
  PROVE  \A l \in Requests : AfterLogout(l, r)'
<1> TAKE l \in Requests
<1>1. /\ AfterLogout(l, r) /\ Suspended(r)
      /\ r \notin earlier[r]
  BY Unanswered DEF IInv, PastStages
<1>2. CASE l = r
  BY <1>1, <1>2 DEF AfterLogout
<1>3. CASE l # r
  <2>1. input'[l] = input[l] /\ answer'[l] = answer[l]
    BY <1>3 DEF OthersWait
  <2>2. stage[r] \in {"insert", "inserted", "find", "create"} => input[r].op \notin BearerOps
    BY <1>1 DEF Suspended, BearerOps
  <2>3. QED
    BY <1>1, <2>1, <2>2 DEF AfterLogout
<1>4. QED
  BY <1>2, <1>3

\* A step that answers with something else than tokens, or goes anywhere but to the
\* write of a rotation, keeps to what a spent refresh token is good for.
LEMMA NoRotation ==
  ASSUME IInv, NEW r \in Requests, OthersWait(r), stage[r] \notin {"answered", "lost"},
         answer'[r] # "issued", stage'[r] # "rotating", Unheard(r)' => Unheard(r),
         input'[r] = input[r], earlier'[r] = earlier[r]
  PROVE  \A q \in Requests : AfterRotation(q, r)'
<1> TAKE q \in Requests
<1>1. AfterRotation(q, r) /\ r \notin earlier[r]
  BY Unanswered DEF IInv
<1>2. r \in Rotations' => r \in Rotations
  BY DEF Rotations, Issued
<1>3. q # r => (q \in Rotations' <=> q \in Rotations) /\ input'[q] = input[q]
  BY DEF OthersWait, Rotations, Issued, Unheard
<1>4. QED
  BY <1>1, <1>2, <1>3 DEF AfterRotation

-----------------------------------------------------------------------------
(***************************************************************************)
(* Steps that leave the stores alone.                                      *)
(***************************************************************************)
\* The store an operation is sent to is one of the two.
LEMMA StoreType ==
  ASSUME NEW s PROVE StoreFor(s) \in {"db", "memory"}
BY DEF StoreFor

\* A request arrives with tokens that have been answered.
LEMMA ReceiveStep ==
  ASSUME IInv, NEW r \in Requests, Receive(r)
  PROVE  IInv'
<1>1. PICK i \in Inputs :
        /\ Presents(r, i)
        /\ input' = [input EXCEPT ![r] = i]
        /\ stage' = [stage EXCEPT ![r] = FirstStage(i.op)]
        /\ at' = [at EXCEPT ![r] = StoreFor(FirstStage(i.op))]
  BY DEF Receive
<1>2. /\ stage[r] = "idle" /\ answer[r] = "none" /\ ~Issued(r) /\ ~Unheard(r)
      /\ \A q \in Requests : r \notin earlier[q]
  BY Unanswered DEF Receive
<1>3. /\ earlier' = [earlier EXCEPT ![r] = {q \in Requests : stage[q] \in {"answered", "lost"}}]
      /\ seen' = seen /\ account' = account /\ answer' = answer
      /\ UNCHANGED <<tables, process, bounds>>
  BY DEF Receive
<1>4. TypeOK
  BY DEF IInv
<1>5. /\ input'[r] = i /\ stage'[r] = FirstStage(i.op)
      /\ earlier'[r] = {q \in Requests : stage[q] \in {"answered", "lost"}}
      /\ answer'[r] = "none"
  BY <1>1, <1>2, <1>3, <1>4 DEF TypeOK
<1>6. /\ i.op = "register" => FirstStage(i.op) = "insert"
      /\ i.op = "login" => FirstStage(i.op) = "find"
      /\ i.op \in BearerOps => FirstStage(i.op) = "resolve"
      /\ i.op \in BearerOps \cup {"register", "login"}
  BY DEF Inputs, FirstStage, BearerOps
<1>7. FirstStage(i.op) \in {"insert", "find", "resolve"}
  BY <1>6
<1>8. OthersWait(r)
  BY <1>1, <1>3, <1>4 DEF OthersWait, TypeOK
<1>9. TypeOK'
  <2>1. input' \in [Requests -> Inputs] /\ earlier' \in [Requests -> SUBSET Requests]
    BY <1>1, <1>3, <1>4 DEF TypeOK
  <2>2. stage' \in [Requests -> Stages]
    BY <1>1, <1>4, <1>7 DEF TypeOK, Stages, IdentityStages, SessionStages
  <2>3. at' \in [Requests -> {"db", "memory"}]
    BY <1>1, <1>4, StoreType DEF TypeOK
  <2>4. QED
    BY <1>3, <1>4, <2>1, <2>2, <2>3 DEF TypeOK, tables, process, bounds
<1>10. Suspended(r)'
  <2>1. Presents(r, input[r])'
    BY <1>1, <1>3, <1>5 DEF Presents, Issued
  <2>2. \A q \in earlier'[r] : stage'[q] \in {"answered", "lost"}
    BY <1>2, <1>5, <1>8 DEF OthersWait
  <2>3. QED
    BY <1>2, <1>3, <1>5, <1>6, <1>7, <2>1, <2>2 DEF Suspended, BearerOps, Unheard
<1>11. \A q \in Requests : AfterRotation(q, r)' /\ AfterLogout(q, r)'
  BY <1>2, <1>3, <1>5, <1>7 DEF AfterRotation, AfterLogout, PastStages, Rotations, Issued, Unheard
<1>12. RotatingOne(r)' /\ RevokingRows(r)'
  BY <1>5, <1>7 DEF RotatingOne, RevokingRows
<1>13. UNCHANGED <<rows, memory, byAccess, byRefresh>>
  BY <1>3 DEF tables, process
<1>14. Unheard(r)' => Unheard(r)
  BY <1>3 DEF Unheard
<1>15. QED
  BY <1>14, <1>2, <1>5, <1>8, <1>9, <1>10, <1>11, <1>12, <1>13, QuietStep

\* What a token leads to in a store is a session of that store that has the token.
LEMMA FoundByToken ==
  ASSUME IInv, NEW store \in {"db", "memory"}, NEW p \in Requests
  PROVE  /\ ByAccess(store, p) # NoSession =>
              /\ ByAccess(store, p) \in Requests
              /\ Read(store, ByAccess(store, p)) \in Session
              /\ Read(store, ByAccess(store, p)).access = p
         /\ ByRefresh(store, p) # NoSession =>
              /\ ByRefresh(store, p) \in Requests
              /\ Read(store, ByRefresh(store, p)) \in Session
              /\ Read(store, ByRefresh(store, p)).refresh = p
<1>1. TypeOK /\ IndexAgrees
  BY DEF IInv, Stores
<1>2. CASE store = "memory"
  BY <1>1, <1>2 DEF TypeOK, IndexAgrees, ByAccess, ByRefresh, Read, Pairs
<1>3. CASE store # "memory"
  <2> DEFINE A == {s \in Requests : rows[s] # None /\ rows[s].access = p}
             R == {s \in Requests : rows[s] # None /\ rows[s].refresh = p}
  <2>1. A # {} => (CHOOSE s \in A : TRUE) \in A
    OBVIOUS
  <2>2. R # {} => (CHOOSE s \in R : TRUE) \in R
    OBVIOUS
  <2>3. /\ ByAccess(store, p) = IF A = {} THEN NoSession ELSE CHOOSE s \in A : TRUE
        /\ ByRefresh(store, p) = IF R = {} THEN NoSession ELSE CHOOSE s \in R : TRUE
    BY <1>3 DEF ByAccess, ByRefresh
  <2>4. \A s \in Requests : rows[s] # None => rows[s] \in Session
    BY <1>1 DEF TypeOK
  <2>5. /\ ByAccess(store, p) # NoSession => ByAccess(store, p) \in A
        /\ ByRefresh(store, p) # NoSession => ByRefresh(store, p) \in R
    BY <2>1, <2>2, <2>3
  <2>6. QED
    BY <1>3, <2>4, <2>5 DEF Read
<1>4. QED
  BY <1>2, <1>3

\* An answer ends its request and no other.
LEMMA AnswerEffect ==
  ASSUME TypeOK, NEW r \in Requests, NEW a \in Answers, Answer(r, a)
  PROVE  /\ input' = input /\ earlier' = earlier
         /\ stage' \in [Requests -> Stages] /\ at' \in [Requests -> {"db", "memory"}]
         /\ answer' \in [Requests -> Answers]
         /\ \A q \in Requests \ {r} : stage'[q] = stage[q] /\ answer'[q] = answer[q]
         /\ stage'[r] = "answered" /\ answer'[r] = a
BY AuthAssumption DEF TypeOK, Answer, Stages

\* A handler that goes on to a query goes to that query.
LEMMA GotoEffect ==
  ASSUME TypeOK, NEW r \in Requests, NEW s \in IdentityStages \cup SessionStages, Goto(r, s)
  PROVE  /\ input' = input /\ earlier' = earlier /\ answer' = answer
         /\ stage' \in [Requests -> Stages] /\ at' \in [Requests -> {"db", "memory"}]
         /\ \A q \in Requests \ {r} : stage'[q] = stage[q]
         /\ stage'[r] = s
BY StoreType DEF TypeOK, Goto, Stages

\* The guards of a route let nobody through but an actor.
LEMMA DispatchEffect ==
  ASSUME TypeOK, NEW r \in Requests, NEW actor \in Actors, Dispatch(r, actor)
  PROVE  /\ input' = input /\ earlier' = earlier
         /\ stage' \in [Requests -> Stages] /\ at' \in [Requests -> {"db", "memory"}]
         /\ answer' \in [Requests -> Answers]
         /\ \A q \in Requests \ {r} : stage'[q] = stage[q] /\ answer'[q] = answer[q]
         /\ \/ /\ actor = "anonymous"
               /\ stage'[r] = "answered" /\ answer'[r] = "unauthenticated"
            \/ /\ actor # "anonymous"
               /\ \/ stage'[r] = "answered" /\ answer'[r] \in {"forbidden", "actor"}
                  \/ /\ input[r].op = "refresh" /\ stage'[r] = "rotate"
                     /\ answer'[r] = answer[r]
                  \/ /\ input[r].op = "logout" /\ stage'[r] = "revoke"
                     /\ answer'[r] = answer[r]
<1>1. \/ actor = "anonymous" /\ Answer(r, "unauthenticated")
      \/ /\ actor # "anonymous"
         /\ \/ Answer(r, "forbidden") \/ Answer(r, "actor")
            \/ input[r].op = "refresh" /\ Goto(r, "rotate")
            \/ input[r].op = "logout" /\ Goto(r, "revoke")
  BY DEF Dispatch, RequireAuth
<1>2. answer \in [Requests -> Answers]
  BY DEF TypeOK
<1>3. CASE actor = "anonymous" /\ Answer(r, "unauthenticated")
  BY <1>3, AnswerEffect DEF Answers
<1>4. CASE actor # "anonymous" /\ (Answer(r, "forbidden") \/ Answer(r, "actor"))
  BY <1>4, AnswerEffect DEF Answers
<1>5. CASE actor # "anonymous" /\ input[r].op = "refresh" /\ Goto(r, "rotate")
  BY <1>2, <1>5, GotoEffect DEF SessionStages
<1>6. CASE actor # "anonymous" /\ input[r].op = "logout" /\ Goto(r, "revoke")
  BY <1>2, <1>6, GotoEffect DEF SessionStages
<1>7. QED
  BY <1>1, <1>3, <1>4, <1>5, <1>6

\* A handler on its way holds the tokens it came with, and came after who it came after.
LEMMA StillPresents ==
  ASSUME IInv, NEW r \in Requests, OthersWait(r), stage[r] \notin {"idle", "answered", "lost"},
         input'[r] = input[r], earlier'[r] = earlier[r]
  PROVE  /\ Presents(r, input[r])'
         /\ \A q \in earlier'[r] : stage'[q] \in {"answered", "lost"}
<1>1. /\ Presents(r, input[r]) /\ input[r] \in Inputs /\ ~Issued(r)
      /\ \A q \in earlier[r] : stage[q] \in {"answered", "lost"}
      /\ r \notin earlier[r] /\ earlier[r] \subseteq Requests
  BY Unanswered DEF IInv, Suspended, TypeOK
<1>2. \A q \in Requests : Issued(q) => answer'[q] = "issued"
  BY <1>1 DEF OthersWait, Issued
<1>3. /\ input[r].op = "refresh" => input[r].refresh \in Requests
      /\ input[r].op \in BearerOps => input[r].token \in Requests
  BY <1>1 DEF Inputs, Pairs, BearerOps
<1>4. Presents(r, input[r])'
  BY <1>1, <1>2, <1>3 DEF Presents, Issued
<1>5. QED
  BY <1>1, <1>4 DEF OthersWait

\* Where a request goes, or is answered, past the guards of its route.
LEMMA Dispatched ==
  ASSUME IInv, NEW r \in Requests, stage[r] \in {"resolve", "touch"}, NEW actor \in Actors,
         Dispatch(r, actor),
         seen' \in [Requests -> Seen \cup {None}],
         \A q \in Requests \ {r} : seen'[q] = seen[q],
         Unheard(r)' => Unheard(r),
         UNCHANGED <<tables, process, account, bounds>>,
         \A l \in Requests : actor # "anonymous" => AfterLogout(l, r)'
  PROVE  IInv'
<1>1. /\ TypeOK /\ Suspended(r)
      /\ answer[r] = "none" /\ ~Unheard(r) /\ \A q \in Requests : r \notin earlier[q]
  BY Unanswered DEF IInv
<1>2. /\ input' = input /\ earlier' = earlier
      /\ stage' \in [Requests -> Stages] /\ at' \in [Requests -> {"db", "memory"}]
      /\ answer' \in [Requests -> Answers]
      /\ \A q \in Requests \ {r} : stage'[q] = stage[q] /\ answer'[q] = answer[q]
      /\ \/ /\ actor = "anonymous"
            /\ stage'[r] = "answered" /\ answer'[r] = "unauthenticated"
         \/ /\ actor # "anonymous"
            /\ \/ stage'[r] = "answered" /\ answer'[r] \in {"forbidden", "actor"}
               \/ /\ input[r].op = "refresh" /\ stage'[r] = "rotate"
                  /\ answer'[r] = answer[r]
               \/ /\ input[r].op = "logout" /\ stage'[r] = "revoke"
                  /\ answer'[r] = answer[r]
  BY <1>1, DispatchEffect
<1>3. TypeOK'
  BY <1>1, <1>2 DEF TypeOK, tables, process, bounds
<1>4. OthersWait(r)
  BY <1>1, <1>2 DEF OthersWait
<1>5. Suspended(r)'
  BY <1>1, <1>2, <1>4, StillPresents DEF Suspended
<1>6. ASSUME NEW l \in Requests
      PROVE  AfterLogout(l, r)'
  <2>1. CASE actor = "anonymous"
    BY <1>2, <2>1 DEF AfterLogout, PastStages
  <2>2. QED
    BY <2>1
<1>7. \A q \in Requests : AfterRotation(q, r)'
  BY <1>1, <1>2, <1>4, NoRotation
<1>8. RotatingOne(r)' /\ RevokingRows(r)'
  BY <1>2 DEF RotatingOne, RevokingRows
<1>9. UNCHANGED <<rows, memory, byAccess, byRefresh>>
  BY DEF tables, process
<1>10. QED
  BY <1>1, <1>2, <1>3, <1>4, <1>5, <1>6, <1>7, <1>8, <1>9, QuietStep

\* Who presents the token of a logout that succeeded is found revoked, or not found.
LEMMA ResolveStep ==
  ASSUME IInv, NEW r \in Requests, Resolve(r)
  PROVE  IInv'
<1> DEFINE s == ByAccess(at[r], input[r].token)
           session == Read(at[r], s)
<1>1. /\ TypeOK /\ Suspended(r) /\ stage[r] = "resolve"
      /\ UNCHANGED <<tables, process, account, bounds>>
  BY DEF IInv, Resolve
<1>2. /\ answer[r] = "none" /\ ~Unheard(r) /\ \A q \in Requests : r \notin earlier[q]
  BY <1>1, Unanswered
<1>3. /\ input[r].op \in BearerOps /\ input[r].token \in Requests
      /\ input[r].header \in Actors
  BY <1>1 DEF Suspended, TypeOK, Inputs, BearerOps, Pairs
<1>4. at[r] \in {"db", "memory"}
  BY <1>1 DEF TypeOK
<1>5. s # NoSession =>
        s \in Requests /\ session \in Session /\ session.access = input[r].token
  BY <1>3, <1>4, FoundByToken
<1>6. UNCHANGED <<rows, memory, byAccess, byRefresh>>
  BY <1>1 DEF tables, process
<1> HIDE DEF s, session
<1>7. CASE s = NoSession
  <2>1. Dispatch(r, input[r].header) /\ seen' = seen
    BY <1>7 DEF Resolve, s
  <2>2. input' = input
    BY <1>1, <1>3, <2>1, DispatchEffect
  <2>3. \A l \in Requests : input[r].header # "anonymous" => AfterLogout(l, r)'
    BY <2>2 DEF AfterLogout
  <2>4. Unheard(r)' => Unheard(r)
    BY <2>1 DEF Unheard
  <2>5. QED
    BY <1>1, <1>3, <2>1, <2>3, <2>4, Dispatched DEF TypeOK
<1>8. CASE s # NoSession
  <2>1. seen' = [seen EXCEPT ![r] = [id |-> s, session |-> session]] /\ Goto(r, "touch")
    BY <1>8 DEF Resolve, s, session
  <2>2. /\ input' = input /\ earlier' = earlier /\ answer' = answer
        /\ stage' \in [Requests -> Stages] /\ at' \in [Requests -> {"db", "memory"}]
        /\ \A q \in Requests \ {r} : stage'[q] = stage[q]
        /\ stage'[r] = "touch"
    BY <1>1, <2>1, GotoEffect DEF SessionStages
  <2>3. /\ seen' \in [Requests -> Seen \cup {None}]
        /\ seen'[r].session = session /\ seen'[r] # None
        /\ \A q \in Requests \ {r} : seen'[q] = seen[q]
    <3>1. /\ [id |-> s, session |-> session] \in Seen
          /\ [id |-> s, session |-> session] # None
      BY <1>1, <1>5, <1>8, SessionValues
    <3>2. QED
      BY <1>1, <2>1, <3>1 DEF TypeOK
  <2>4. TypeOK'
    BY <1>1, <2>2, <2>3 DEF TypeOK, tables, process, bounds
  <2>5. OthersWait(r)
    BY <1>1, <2>2, <2>3 DEF OthersWait
  <2>6. ~Unheard(r)'
    BY <1>3, <1>5, <1>8, <2>3, AuthNulls DEF Unheard
  <2>7. Suspended(r)'
    BY <1>1, <1>2, <1>3, <2>2, <2>3, <2>5, <2>6, StillPresents DEF Suspended
  <2>8. ASSUME NEW l \in Requests
        PROVE  AfterLogout(l, r)'
    <3>1. SUFFICES ASSUME answer[l] = "revoked", input[r].token = input[l].token
                   PROVE  session.revoked
      BY <1>2, <2>2, <2>3 DEF AfterLogout, PastStages
    <3>2. Dead(l)
      BY DEF IInv
    <3>3. \/ s \in Requests /\ session = memory[s] /\ memory[s] # None
          \/ s \in Requests /\ session = rows[s] /\ rows[s] # None
      BY <1>5, <1>8, AuthNulls DEF session, Read
    <3>4. QED
      BY <1>5, <1>8, <3>1, <3>2, <3>3 DEF Dead
  <2>9. \A q \in Requests : AfterRotation(q, r)'
    BY <1>1, <1>2, <2>2, <2>5, <2>6, NoRotation
  <2>10. RotatingOne(r)' /\ RevokingRows(r)'
    BY <2>2 DEF RotatingOne, RevokingRows
  <2>11. QED
    BY <1>1, <1>2, <1>6, <2>2, <2>4, <2>5, <2>6, <2>7, <2>8, <2>9, <2>10, QuietStep
<1>9. QED
  BY <1>7, <1>8

\* Who was found revoked does not pass.
LEMMA TouchStep ==
  ASSUME IInv, NEW r \in Requests, Touch(r)
  PROVE  IInv'
<1> DEFINE actor == ActorOf(seen[r].session)
<1>1. /\ TypeOK /\ stage[r] = "touch" /\ Dispatch(r, actor)
      /\ seen' = [seen EXCEPT ![r] = IF input[r].op = "me" THEN None ELSE @]
      /\ UNCHANGED <<tables, process, account, bounds>>
  BY DEF IInv, Touch
<1>2. /\ answer[r] = "none" /\ \A q \in Requests : r \notin earlier[q]
  BY <1>1, Unanswered
<1>3. actor \in Actors /\ (actor # "anonymous" => ~seen[r].session.revoked)
  BY DEF ActorOf, Actors, Valid
<1> HIDE DEF actor
<1>4. /\ seen' \in [Requests -> Seen \cup {None}]
      /\ \A q \in Requests \ {r} : seen'[q] = seen[q]
      /\ seen'[r] = None \/ seen'[r] = seen[r]
  BY <1>1 DEF TypeOK
<1>5. Unheard(r)' => Unheard(r)
  BY <1>4 DEF Unheard
<1>6. /\ input' = input /\ earlier' = earlier
      /\ \A q \in Requests \ {r} : answer'[q] = answer[q]
      /\ answer'[r] # "revoked"
  BY <1>1, <1>2, <1>3, DispatchEffect
<1>7. ASSUME NEW l \in Requests, actor # "anonymous"
      PROVE  AfterLogout(l, r)'
  <2>1. AfterLogout(l, r)
    BY DEF IInv
  <2>2. ~(answer[l] = "revoked" /\ l \in earlier[r] /\ input[r].op \in BearerOps
            /\ input[r].token = input[l].token /\ input[r].header = "anonymous")
    BY <1>1, <1>3, <1>7, <2>1 DEF AfterLogout
  <2>3. QED
    BY <1>6, <2>2 DEF AfterLogout
<1>8. QED
  BY <1>1, <1>3, <1>4, <1>5, <1>7, Dispatched

\* An answer without tokens past the middleware changes nothing for anybody.
LEMMA RefusalStep ==
  ASSUME IInv, NEW r \in Requests, NEW a \in Answers \ {"none", "issued", "revoked"},
         stage[r] \in {"insert", "find", "rotate", "rotating", "revoke"}, Answer(r, a),
         identities' \subseteq Users, recalled' \subseteq Users,
         UNCHANGED <<rows, memory, byAccess, byRefresh, fallback, idFallback, seen,
                     account, bounds>>
  PROVE  IInv'
<1>1. TypeOK /\ Suspended(r)
  BY DEF IInv
<1>2. /\ input' = input /\ earlier' = earlier
      /\ stage' \in [Requests -> Stages] /\ at' \in [Requests -> {"db", "memory"}]
      /\ answer' \in [Requests -> Answers]
      /\ \A q \in Requests \ {r} : stage'[q] = stage[q] /\ answer'[q] = answer[q]
      /\ stage'[r] = "answered" /\ answer'[r] = a
  BY <1>1, AnswerEffect
<1>3. TypeOK'
  BY <1>1, <1>2 DEF TypeOK, bounds
<1>4. OthersWait(r)
  BY <1>2 DEF OthersWait
<1>5. Unheard(r)' <=> Unheard(r)
  BY DEF Unheard
<1>6. Suspended(r)'
  BY <1>1, <1>2, <1>4, <1>5, StillPresents DEF Suspended
<1>7. \A q \in Requests : AfterRotation(q, r)' /\ AfterLogout(q, r)'
  BY <1>2, <1>4, <1>5, NoRotation, PastMiddleware DEF PastStages
<1>8. RotatingOne(r)' /\ RevokingRows(r)'
  BY <1>2 DEF RotatingOne, RevokingRows
<1>9. QED
  BY <1>2, <1>3, <1>4, <1>5, <1>6, <1>7, <1>8, QuietStep

\* A registration touches accounts only; one that meets a duplicate in the table starts
\* again in memory.
LEMMA RegisterStep ==
  ASSUME IInv, NEW r \in Requests, Register(r)
  PROVE  IInv'
<1>1. /\ input[r].who \in Users /\ TypeOK /\ Suspended(r) /\ stage[r] = "insert"
  BY DEF IInv, Suspended, TypeOK, Inputs, Register
<1>2. UNCHANGED <<rows, memory, byAccess, byRefresh, fallback, seen, account, bounds>>
  BY DEF Register
<1>3. CASE /\ identities' \subseteq Users /\ recalled' \subseteq Users
           /\ Answer(r, "conflict") \/ Answer(r, "registered")
           /\ idFallback' = idFallback
  BY <1>1, <1>2, <1>3, RefusalStep DEF Answers
<1>4. CASE /\ idFallback' = TRUE
           /\ at' = [at EXCEPT ![r] = "memory"]
           /\ UNCHANGED <<identities, recalled, input, stage, answer, earlier>>
  <2>1. answer[r] = "none" /\ ~Unheard(r)
    BY <1>1, Unanswered
  <2>2. TypeOK'
    BY <1>1, <1>2, <1>4 DEF TypeOK, bounds
  <2>3. OthersWait(r)
    BY <1>2, <1>4 DEF OthersWait
  <2>4. Unheard(r)' <=> Unheard(r)
    BY <1>2 DEF Unheard
  <2>5. Suspended(r)'
    BY <1>1, <1>2, <1>4, <2>1, <2>3, <2>4, StillPresents DEF Suspended
  <2>6. \A q \in Requests : AfterRotation(q, r)' /\ AfterLogout(q, r)'
    BY <1>1, <1>4, <2>1, <2>3, <2>4, NoRotation, PastMiddleware
  <2>7. RotatingOne(r)' /\ RevokingRows(r)'
    BY <1>1, <1>4 DEF RotatingOne, RevokingRows
  <2>8. QED
    BY <1>1, <1>2, <1>4, <2>1, <2>2, <2>3, <2>4, <2>5, <2>6, <2>7, QuietStep
<1>5. QED
  BY <1>1, <1>3, <1>4 DEF Register, TypeOK

\* A login that finds its account goes on to make a session for it.
LEMMA FindAccountStep ==
  ASSUME IInv, NEW r \in Requests, FindAccount(r)
  PROVE  IInv'
<1>1. /\ TypeOK /\ Suspended(r) /\ stage[r] = "find"
      /\ UNCHANGED <<tables, process, seen, bounds>>
  BY DEF IInv, FindAccount
<1>2. answer[r] = "none" /\ (Unheard(r)' <=> Unheard(r))
  BY <1>1, Unanswered DEF Unheard
<1>3. CASE Answer(r, "refused") /\ UNCHANGED account
  BY <1>1, <1>3, RefusalStep DEF Answers, TypeOK, tables, process
<1>4. ASSUME NEW u \in Users, Goto(r, "create"), account' = [account EXCEPT ![r] = u]
      PROVE  IInv'
  <2>1. /\ input' = input /\ earlier' = earlier /\ answer' = answer
        /\ stage' \in [Requests -> Stages] /\ at' \in [Requests -> {"db", "memory"}]
        /\ \A q \in Requests \ {r} : stage'[q] = stage[q]
        /\ stage'[r] = "create"
    BY <1>1, <1>4, GotoEffect DEF SessionStages
  <2>2. /\ account' \in [Requests -> Users \cup {NoUser}]
        /\ account'[r] # NoUser
        /\ \A q \in Requests \ {r} : account'[q] = account[q]
    BY <1>1, <1>4, AuthNulls DEF TypeOK
  <2>3. TypeOK'
    BY <1>1, <2>1, <2>2 DEF TypeOK, tables, process, bounds
  <2>4. OthersWait(r)
    BY <1>1, <2>1, <2>2 DEF OthersWait
  <2>5. Suspended(r)'
    BY <1>1, <1>2, <2>1, <2>2, <2>4, StillPresents DEF Suspended
  <2>6. \A q \in Requests : AfterRotation(q, r)' /\ AfterLogout(q, r)'
    BY <1>1, <1>2, <2>1, <2>4, NoRotation, PastMiddleware
  <2>7. RotatingOne(r)' /\ RevokingRows(r)'
    BY <2>1 DEF RotatingOne, RevokingRows
  <2>8. UNCHANGED <<rows, memory, byAccess, byRefresh>>
    BY <1>1 DEF tables, process
  <2>9. QED
    BY <1>1, <1>2, <2>1, <2>3, <2>4, <2>5, <2>6, <2>7, <2>8, QuietStep
<1>5. \/ Answer(r, "refused") /\ UNCHANGED account
      \/ \E u \in Users : Goto(r, "create") /\ account' = [account EXCEPT ![r] = u]
  BY <1>1 DEF FindAccount, FoundInMemory, FoundInTable, TypeOK
<1>6. QED
  BY <1>3, <1>4, <1>5

\* A rotation that has found its session has found the only one with its token, and
\* the token has not been used up.
LEMMA RotateReadStep ==
  ASSUME IInv, NEW r \in Requests, RotateRead(r)
  PROVE  IInv'
<1> DEFINE s == ByRefresh("db", input[r].refresh)
           new == Rotated(r, rows[s])
<1>1. /\ TypeOK /\ Suspended(r) /\ stage[r] = "rotate"
      /\ UNCHANGED <<tables, process, account, bounds>>
  BY DEF IInv, RotateRead
<1>2. answer[r] = "none" /\ \A q \in Requests : r \notin earlier[q]
  BY <1>1, Unanswered
<1>3. input[r].op = "refresh" /\ input[r].refresh \in Requests
  BY <1>1 DEF Suspended, TypeOK, Inputs, Pairs
<1>4. s # NoSession =>
        /\ s \in Requests /\ rows[s] \in Session /\ rows[s] # None
        /\ rows[s].refresh = input[r].refresh
  BY <1>3, FoundByToken, AuthNulls DEF Read
<1>5. UNCHANGED <<rows, memory, byAccess, byRefresh>>
  BY <1>1 DEF tables, process
<1>6. CASE ~Rotatable(s, "db")
  BY <1>1, <1>6, RefusalStep DEF RotateRead, Answers, TypeOK, tables, process
<1>7. CASE Rotatable(s, "db")
  <2>1. s # NoSession
    BY <1>7 DEF Rotatable
  <2>2. /\ seen' = [seen EXCEPT ![r] = [id |-> s, session |-> new]]
        /\ Continue(r, "rotating")
    BY <1>7 DEF RotateRead
  <2>3. [id |-> s, session |-> new] \in Seen /\ [id |-> s, session |-> new] # None
    BY <1>1, <1>4, <2>1, SessionValues
  <2> HIDE DEF s, new
  <2>4. /\ input' = input /\ earlier' = earlier /\ answer' = answer /\ at' = at
        /\ stage' \in [Requests -> Stages]
        /\ \A q \in Requests \ {r} : stage'[q] = stage[q]
        /\ stage'[r] = "rotating"
    BY <1>1, <2>2 DEF Continue, TypeOK, Stages, SessionStages
  <2>5. /\ seen' \in [Requests -> Seen \cup {None}]
        /\ seen'[r].id = s /\ seen'[r] # None
        /\ \A q \in Requests \ {r} : seen'[q] = seen[q]
        /\ seen'[r].session = new
    BY <1>1, <2>2, <2>3 DEF TypeOK
  <2>6. new.access = r
    BY <1>1, <1>4, <2>1, SessionValues DEF new
  <2>7. ~Unheard(r)' /\ ~Unheard(r)
    <3>1. r \notin Rotations
      BY <1>4, <2>1 DEF IInv, Spent
    <3>2. QED
      BY <1>3, <2>5, <2>6, <3>1, AuthNulls DEF Unheard, Rotations
  <2>8. TypeOK'
    BY <1>1, <2>4, <2>5 DEF TypeOK, tables, process, bounds
  <2>9. OthersWait(r)
    BY <1>1, <2>4, <2>5 DEF OthersWait
  <2>10. Suspended(r)'
    BY <1>1, <1>2, <1>3, <2>4, <2>5, <2>7, <2>9, StillPresents DEF Suspended
  <2>11. ASSUME NEW q \in Requests
        PROVE  AfterRotation(q, r)'
    <3>1. Spent(q)
      BY DEF IInv
    <3>2. q \in Rotations' => q \in Rotations
      BY <2>4, <2>7, <2>9 DEF Rotations, Issued, OthersWait, Unheard
    <3>3. q \in Rotations => input[q].refresh # input[r].refresh
      BY <1>4, <2>1, <3>1 DEF Spent
    <3>4. QED
      BY <2>4, <3>2, <3>3 DEF AfterRotation
  <2>12. \A l \in Requests : AfterLogout(l, r)'
    BY <1>1, <2>4, <2>9, PastMiddleware DEF PastStages
  <2>13. RotatingOne(r)' /\ RevokingRows(r)'
    <3>1. RefreshUnique /\ StoresApart
      BY DEF IInv, Stores
    <3>2. QED
      BY <1>3, <1>4, <1>5, <2>1, <2>4, <2>5, <3>1, AuthNulls
         DEF RotatingOne, RevokingRows, RefreshUnique, StoresApart
  <2>14. \A q \in Requests : AfterRotation(q, r)' /\ AfterLogout(q, r)'
    BY <2>11, <2>12
  <2>15. QED
    BY <1>1, <1>2, <1>5, <2>4, <2>7, <2>8, <2>9, <2>10, <2>13, <2>14, QuietStep
<1>8. QED
  BY <1>6, <1>7

\* A revocation that has found its session in the table has not lost it to memory.
LEMMA RevokeReadStep ==
  ASSUME IInv, NEW r \in Requests, RevokeRead(r)
  PROVE  IInv'
<1> DEFINE s == ByAccess("db", input[r].token)
<1>1. /\ TypeOK /\ Suspended(r) /\ stage[r] = "revoke"
      /\ UNCHANGED <<tables, process, account, bounds>>
  BY DEF IInv, RevokeRead
<1>2. answer[r] = "none" /\ ~Unheard(r)
  BY <1>1, Unanswered
<1>3. input[r].op = "logout" /\ input[r].token \in Requests
  BY <1>1 DEF Suspended, TypeOK, Inputs, Pairs
<1>4. s # NoSession =>
        /\ s \in Requests /\ rows[s] \in Session /\ rows[s] # None
        /\ rows[s].access = input[r].token
  BY <1>3, FoundByToken, AuthNulls DEF Read
<1>5. UNCHANGED <<rows, memory, byAccess, byRefresh>>
  BY <1>1 DEF tables, process
<1>6. CASE ~Revocable(s, "db")
  BY <1>1, <1>6, RefusalStep DEF RevokeRead, Answers, TypeOK, tables, process
<1>7. CASE Revocable(s, "db")
  <2>1. /\ s # NoSession /\ Continue(r, "revoking")
        /\ seen' = [seen EXCEPT ![r] = [id |-> s, session |-> rows[s]]]
    BY <1>7 DEF Revocable, RevokeRead
  <2>2. [id |-> s, session |-> rows[s]] \in Seen /\ [id |-> s, session |-> rows[s]] # None
    BY <1>1, <1>4, <2>1, SessionValues
  <2> HIDE DEF s
  <2>3. /\ input' = input /\ earlier' = earlier /\ answer' = answer /\ at' = at
        /\ stage' \in [Requests -> Stages]
        /\ \A q \in Requests \ {r} : stage'[q] = stage[q]
        /\ stage'[r] = "revoking"
    BY <1>1, <2>1 DEF Continue, TypeOK, Stages, SessionStages
  <2>4. /\ seen' \in [Requests -> Seen \cup {None}]
        /\ seen'[r].session = rows[s]
        /\ \A q \in Requests \ {r} : seen'[q] = seen[q]
    BY <1>1, <2>1, <2>2 DEF TypeOK
  <2>5. ~Unheard(r)'
    BY <1>3, <1>4, <2>1, <2>4, AuthNulls DEF Unheard
  <2>6. TypeOK'
    BY <1>1, <2>3, <2>4 DEF TypeOK, tables, process, bounds
  <2>7. OthersWait(r)
    BY <1>1, <2>3, <2>4 DEF OthersWait
  <2>8. Suspended(r)'
    BY <1>1, <1>2, <1>3, <2>3, <2>5, <2>7, StillPresents DEF Suspended
  <2>9. \A q \in Requests : AfterRotation(q, r)' /\ AfterLogout(q, r)'
    BY <1>1, <1>2, <2>3, <2>5, <2>7, NoRotation, PastMiddleware DEF PastStages
  <2>10. RotatingOne(r)' /\ RevokingRows(r)'
    BY <1>4, <1>5, <2>1, <2>3
       DEF IInv, Stores, RotatingOne, RevokingRows, StoresApart
  <2>11. QED
    BY <1>1, <1>2, <1>5, <2>3, <2>5, <2>6, <2>7, <2>8, <2>9, <2>10, QuietStep
<1>8. QED
  BY <1>6, <1>7

\* An operation that starts again in memory has nothing but its request.
LEMMA RerunStep ==
  ASSUME IInv, NEW r \in Requests, NEW stages \in SUBSET (IdentityStages \cup SessionStages),
         RerunInMemory(r, stages), fallback' \in BOOLEAN, idFallback' \in BOOLEAN
  PROVE  IInv'
<1>1. /\ TypeOK /\ Suspended(r) /\ stage[r] \in IdentityStages \cup SessionStages
      /\ stage' = [stage EXCEPT ![r] = Anew(stage[r])]
      /\ at' = [at EXCEPT ![r] = "memory"]
      /\ faults' = faults \/ (faults < MaxFaults /\ faults' = faults + 1)
      /\ UNCHANGED <<tables, memory, byAccess, byRefresh, recalled, input, seen,
                     account, answer, earlier, now>>
  BY DEF IInv, RerunInMemory, Counted
<1>2. stage[r] \notin {"idle", "answered", "lost"}
  BY <1>1 DEF IdentityStages, SessionStages
<1>3. answer[r] = "none" /\ (Unheard(r)' <=> Unheard(r))
  BY <1>1, <1>2, Unanswered DEF Unheard
<1>4. /\ stage'[r] = Anew(stage[r])
      /\ \A q \in Requests \ {r} : stage'[q] = stage[q]
  BY <1>1 DEF TypeOK
<1>5. /\ stage[r] \in {"rotating", "rotated"} => Anew(stage[r]) = "rotate"
      /\ stage[r] \in {"revoking", "revoked"} => Anew(stage[r]) = "revoke"
      /\ stage[r] = "inserted" => Anew(stage[r]) = "insert"
      /\ stage[r] \notin {"rotating", "rotated", "revoking", "revoked", "inserted"} =>
           Anew(stage[r]) = stage[r]
  BY DEF Anew
<1>6. TypeOK'
  <2>1. Anew(stage[r]) \in Stages
    BY <1>1, <1>5 DEF Stages, SessionStages, IdentityStages
  <2>2. stage' \in [Requests -> Stages]
    BY <1>1, <2>1 DEF TypeOK
  <2>3. faults' \in 0..MaxFaults /\ at' \in [Requests -> {"db", "memory"}]
    BY <1>1, AuthAssumption DEF TypeOK
  <2>4. QED
    BY <1>1, <2>2, <2>3 DEF TypeOK, tables
<1>7. OthersWait(r)
  BY <1>1, <1>4 DEF OthersWait
<1>8. Suspended(r)'
  BY <1>1, <1>2, <1>3, <1>4, <1>5, <1>7, StillPresents DEF Suspended
<1>9. ASSUME NEW l \in Requests
      PROVE  AfterLogout(l, r)'
  <2>1. AfterLogout(l, r)
    BY DEF IInv
  <2>2. QED
    BY <1>1, <1>4, <1>5, <2>1 DEF AfterLogout, PastStages
<1>10. \A q \in Requests : AfterRotation(q, r)'
  <2>1. stage'[r] # "rotating"
    BY <1>4, <1>5
  <2>2. QED
    BY <1>1, <1>2, <1>3, <1>7, <2>1, NoRotation
<1>11. RotatingOne(r)' /\ RevokingRows(r)'
  BY <1>4, <1>5 DEF RotatingOne, RevokingRows
<1>12. rows' = rows /\ answer'[r] = "none"
  BY <1>1, <1>3 DEF tables
<1>13. QED
  BY <1>1, <1>2, <1>3, <1>6, <1>7, <1>8, <1>9, <1>10, <1>11, <1>12, QuietStep

-----------------------------------------------------------------------------
(***************************************************************************)
(* Steps that write the stores.                                            *)
(***************************************************************************)
\* Nobody has been sent the pair that a request will mint.
LEMMA PairIsNew ==
  ASSUME IInv, NEW r \in Requests, stage[r] \notin {"answered", "lost"}, NEW q \in Requests
  PROVE  /\ q # r /\ stage[q] # "idle" /\ input[q].op \in BearerOps => input[q].token # r
         /\ stage[q] # "idle" /\ input[q].op = "refresh" => input[q].refresh # r
BY Unanswered DEF IInv, Suspended, Presents, BearerOps

\* A request puts a pair in a store: it is answered with its own, or its commit goes
\* unheard.
PlacesPair(r, pair) ==
  /\ stage[r] \notin {"answered", "lost"} /\ OthersWait(r)
  /\ input'[r] = input[r]
  /\ \/ pair = r /\ stage'[r] = "answered" /\ answer'[r] = "issued"
     \/ pair = NoPair /\ stage'[r] = "rotated" /\ answer'[r] = answer[r]

\* The answers and the rotations of the others stand when request r places a pair.
LEMMA StillIssued ==
  ASSUME IInv, NEW r \in Requests, NEW pair, PlacesPair(r, pair), NEW q \in Requests
  PROVE  /\ Issued(q) => Issued(q)'
         /\ pair = r => Issued(r)'
         /\ q # r => /\ q \in Rotations' <=> q \in Rotations
                     /\ answer'[q] = answer[q] /\ input'[q] = input[q]
                     /\ stage'[q] = stage[q] /\ seen'[q] = seen[q]
BY AuthNulls DEF PlacesPair, OthersWait, Issued, Rotations, Unheard

\* The new pair, in the table or in memory, is nobody else's, spent or dead.
LEMMA PairIsPlaced ==
  ASSUME IInv, NEW r \in Requests, NEW pair \in {r, NoPair}, PlacesPair(r, pair),
         NEW s \in Requests, NEW new \in Session,
         new.access = pair, new.refresh = pair, Issued(s) \/ (s = r /\ pair = r),
         IndexAgrees',
         \/ rows' = [rows EXCEPT ![s] = new] /\ memory' = memory
         \/ pair = r /\ memory' = [memory EXCEPT ![s] = new] /\ rows' = rows
  PROVE  /\ Stores'
         /\ \A q \in Requests : RotatingOne(q)' /\ RevokingRows(q)'
         /\ \A q \in Requests \ {r} : Spent(q)' /\ Dead(q)'
<1>1. /\ TypeOK /\ Stores /\ stage[r] \notin {"answered", "lost"} /\ new # None
      /\ r # NoPair
  BY AuthNulls DEF IInv, PlacesPair
<1>2. /\ \A t \in Requests :
           /\ rows'[t] = rows[t] \/ (t = s /\ rows'[t] = new)
           /\ memory'[t] = memory[t] \/ (t = s /\ memory'[t] = new /\ pair = r)
      /\ rows' = rows \/ memory' = memory
  <2>1. /\ rows \in [Requests -> Session \cup {None}]
        /\ memory \in [Requests -> Session \cup {None}]
    BY <1>1 DEF TypeOK
  <2>2. CASE rows' = [rows EXCEPT ![s] = new] /\ memory' = memory
    <3>1. rows'[s] = new
      BY <2>1, <2>2
    <3>2. \A t \in Requests \ {s} : rows'[t] = rows[t]
      BY <2>1, <2>2
    <3>3. QED
      BY <2>2, <3>1, <3>2
  <2>3. CASE pair = r /\ memory' = [memory EXCEPT ![s] = new] /\ rows' = rows
    <3>1. memory'[s] = new
      BY <2>1, <2>3
    <3>2. \A t \in Requests \ {s} : memory'[t] = memory[t]
      BY <2>1, <2>3
    <3>3. QED
      BY <2>3, <3>1, <3>2
  <2>4. QED
    BY <2>2, <2>3
<1>3. \A t \in Requests :
        /\ rows[t] # None => rows[t].access # r /\ rows[t].refresh # r
        /\ memory[t] # None =>
             /\ memory[t].access # r /\ memory[t].refresh # r
             /\ memory[t].access # NoPair /\ memory[t].refresh # NoPair
  BY <1>1, Unanswered, AuthNulls DEF Stores, Held, Known
<1>4. Stores'
  <2>1. Held'
    <3>1. /\ \A q \in Requests : answer[q] = "issued" => answer'[q] = "issued"
          /\ pair = r => answer'[r] = "issued"
      BY StillIssued DEF Issued
    <3>2. answer'[s] = "issued"
      BY <3>1 DEF Issued
    <3>3. \A t \in Requests :
            /\ rows[t] # None =>
                 /\ answer'[t] = "issued"
                 /\ \/ rows[t].access = NoPair
                    \/ rows[t].access \in Requests /\ answer'[rows[t].access] = "issued"
                 /\ \/ rows[t].refresh = NoPair
                    \/ rows[t].refresh \in Requests /\ answer'[rows[t].refresh] = "issued"
            /\ memory[t] # None =>
                 /\ answer'[t] = "issued"
                 /\ memory[t].access \in Requests /\ answer'[memory[t].access] = "issued"
                 /\ memory[t].refresh \in Requests /\ answer'[memory[t].refresh] = "issued"
      BY <1>1, <3>1 DEF Stores, Held, Known, Issued
    <3>4. QED
      BY <1>2, <3>1, <3>2, <3>3 DEF Held, Known, Issued
  <2>2. RefreshUnique'
    BY <1>1, <1>2, <1>3 DEF Stores, RefreshUnique
  <2>3. StoresApart'
    BY <1>1, <1>2, <1>3 DEF Stores, StoresApart
  <2>4. QED
    BY <2>1, <2>2, <2>3 DEF Stores
<1>5. \A q \in Requests \ {r} :
        /\ q \in Rotations \/ stage[q] = "rotating" => input[q].refresh # pair
        /\ answer[q] = "revoked" \/ stage[q] = "revoking" => input[q].token # pair
  <2> TAKE q \in Requests \ {r}
  <2>1. Suspended(q) /\ input[q] \in Inputs
    BY <1>1 DEF IInv, TypeOK
  <2>2. /\ q \in Rotations \/ stage[q] = "rotating" =>
             stage[q] # "idle" /\ input[q].op = "refresh" /\ input[q].refresh \in Requests
        /\ answer[q] = "revoked" \/ stage[q] = "revoking" =>
             stage[q] # "idle" /\ input[q].op = "logout" /\ input[q].token \in Requests
    BY <2>1 DEF Suspended, Rotations, Issued, Inputs, Pairs
  <2>3. QED
    BY <1>1, <2>2, PairIsNew, AuthNulls DEF BearerOps
<1>6. ASSUME NEW q \in Requests
      PROVE  RotatingOne(q)' /\ RevokingRows(q)'
  <2>1. CASE q = r
    BY <2>1 DEF PlacesPair, RotatingOne, RevokingRows
  <2>2. CASE q # r
    <3>1. /\ stage'[q] = stage[q] /\ input'[q] = input[q] /\ seen'[q] = seen[q]
          /\ RotatingOne(q) /\ RevokingRows(q) /\ Suspended(q)
      BY <2>2, StillIssued DEF IInv
    <3>2. stage[q] = "rotating" => seen[q].id \in Requests
      BY <1>1, <3>1 DEF Suspended, TypeOK, Seen
    <3>6. /\ stage[q] = "rotating" => input[q].refresh # pair
          /\ stage[q] = "revoking" => input[q].token # pair
      BY <1>5, <2>2
    <3>3. RotatingOne(q)'
      BY <1>1, <1>2, <3>1, <3>2, <3>6 DEF RotatingOne
    <3>4. RevokingRows(q)'
      BY <1>1, <1>2, <3>1, <3>6 DEF RevokingRows
    <3>5. QED
      BY <3>3, <3>4
  <2>3. QED
    BY <2>1, <2>2
<1>7. ASSUME NEW q \in Requests \ {r}
      PROVE  Spent(q)' /\ Dead(q)'
  <2>1. /\ q \in Rotations' <=> q \in Rotations
        /\ answer'[q] = answer[q] /\ input'[q] = input[q]
        /\ Spent(q) /\ Dead(q)
    BY StillIssued DEF IInv
  <2>6. /\ q \in Rotations => input[q].refresh # pair
        /\ answer[q] = "revoked" => input[q].token # pair
    BY <1>5
  <2>2. Spent(q)'
    BY <1>1, <1>2, <2>1, <2>6 DEF Spent
  <2>3. Dead(q)'
    BY <1>1, <1>2, <2>1, <2>6 DEF Dead
  <2>4. QED
    BY <2>2, <2>3
<1>8. QED
  BY <1>4, <1>6, <1>7

\* A login ends with a session of its own, in either store.
LEMMA CreateSessionStep ==
  ASSUME IInv, NEW r \in Requests, CreateSession(r)
  PROVE  IInv'
<1> DEFINE new == Fresh(r, account[r])
<1>1. /\ TypeOK /\ Suspended(r) /\ stage[r] = "create"
      /\ Answer(r, "issued")
      /\ seen' = [seen EXCEPT ![r] = [id |-> r, session |-> new]]
      /\ account' = [account EXCEPT ![r] = NoUser]
      /\ UNCHANGED <<identities, recalled, fallback, idFallback, bounds>>
      /\ \/ /\ rows' = [rows EXCEPT ![r] = new]
            /\ UNCHANGED <<memory, byAccess, byRefresh>>
         \/ /\ Index(r, new)
            /\ UNCHANGED rows
  BY DEF IInv, CreateSession
<1>2. /\ answer[r] = "none" /\ ~Issued(r)
      /\ \A s \in Requests : memory[s] # None =>
           s # r /\ memory[s].access # r /\ memory[s].refresh # r
  BY <1>1, Unanswered
<1>3. account[r] \in Users /\ input[r].op = "login"
  BY <1>1 DEF Suspended, TypeOK
<1>4. /\ new \in Session /\ new # None
      /\ [id |-> r, session |-> new] \in Seen
  BY <1>1, <1>3, SessionValues
<1>5. new.access = r /\ new.refresh = r
  BY DEF Fresh
<1> HIDE DEF new
<1>6. /\ input' = input /\ earlier' = earlier
      /\ stage' \in [Requests -> Stages] /\ at' \in [Requests -> {"db", "memory"}]
      /\ answer' \in [Requests -> Answers]
      /\ \A q \in Requests \ {r} : stage'[q] = stage[q] /\ answer'[q] = answer[q]
      /\ stage'[r] = "answered" /\ answer'[r] = "issued"
  BY <1>1, AnswerEffect DEF Answers
<1>7. /\ seen' \in [Requests -> Seen \cup {None}]
      /\ account' \in [Requests -> Users \cup {NoUser}]
      /\ \A q \in Requests \ {r} : seen'[q] = seen[q] /\ account'[q] = account[q]
  BY <1>1, <1>4 DEF TypeOK
<1>8. OthersWait(r) /\ PlacesPair(r, r)
  BY <1>1, <1>6, <1>7 DEF OthersWait, PlacesPair
<1>9. IndexAgrees'
  <2>1. IndexAgrees
    BY DEF IInv, Stores
  <2>2. CASE UNCHANGED <<memory, byAccess, byRefresh>>
    BY <2>1, <2>2 DEF IndexAgrees
  <2>3. CASE Index(r, new)
    <3>1. /\ memory' = [memory EXCEPT ![r] = new]
          /\ byAccess' = [byAccess EXCEPT ![r] = r]
          /\ byRefresh' = [byRefresh EXCEPT ![r] = r]
      BY <1>5, <2>3 DEF Index
    <3>2. memory[r] = None
      BY <1>2
    <3>3. QED
      BY <1>1, <1>2, <1>4, <1>5, <2>1, <3>1, <3>2 DEF IndexAgrees, TypeOK, Pairs
  <2>4. QED
    BY <1>1, <2>2, <2>3
<1>10. TypeOK'
  <2>1. rows' \in [Requests -> Session \cup {None}]
    BY <1>1, <1>4 DEF TypeOK
  <2>2. memory' \in [Requests -> Session \cup {None}]
    BY <1>1, <1>4 DEF TypeOK, Index
  <2>3. /\ byAccess' \in [Pairs -> Requests \cup {NoSession}]
        /\ byRefresh' \in [Pairs -> Requests \cup {NoSession}]
    BY <1>1 DEF TypeOK, Index, Pairs
  <2>4. QED
    BY <1>1, <1>6, <1>7, <2>1, <2>2, <2>3 DEF TypeOK, bounds
<1>11. /\ Stores'
       /\ \A q \in Requests : RotatingOne(q)' /\ RevokingRows(q)'
       /\ \A q \in Requests \ {r} : Spent(q)' /\ Dead(q)'
  BY <1>1, <1>4, <1>5, <1>8, <1>9, PairIsPlaced DEF Index
<1>12. Spent(r)' /\ Dead(r)'
  BY <1>3, <1>6 DEF Spent, Dead, Rotations
<1>13. ~Unheard(r)'
  BY <1>1, <1>4, <1>5, AuthNulls DEF Unheard, TypeOK
<1>14. Suspended(r)'
  BY <1>1, <1>6, <1>8, <1>13, StillPresents DEF Suspended
<1>15. \A q \in Requests : AfterRotation(q, r)' /\ AfterLogout(q, r)'
  BY <1>1, <1>3, <1>6, <1>8, PastMiddleware DEF AfterRotation, Rotations
<1>16. QED
  BY <1>1, <1>8, <1>10, <1>11, <1>12, <1>14, <1>15, RequestStep

\* The update of a rotation, heard of or not, gives the pair to the one session it has
\* read, or to none.
LEMMA RotatedRow ==
  ASSUME IInv, NEW r \in Requests, stage[r] = "rotating", NEW pair \in {r, NoPair},
         rows' = RotateInto(r, pair)
  PROVE  /\ seen[r] \in Seen /\ seen[r].id \in Requests
         /\ rows[seen[r].id] # None /\ rows[seen[r].id] \in Session
         /\ RotateRows(r) = {} => rows' = rows
         /\ RotateRows(r) # {} =>
              /\ ~rows[seen[r].id].revoked
              /\ \E new \in Session :
                   /\ new # None /\ new.access = pair /\ new.refresh = pair
                   /\ rows' = [rows EXCEPT ![seen[r].id] = new]
<1> DEFINE s == seen[r].id
           new == Renewed(rows[s], pair, seen[r].session.expiresAt)
<1>1. TypeOK /\ Suspended(r) /\ RotatingOne(r)
  BY DEF IInv
<1>2. rows' = [t \in Requests |->
                 IF t \in RotateRows(r)
                 THEN Renewed(rows[t], pair, seen[r].session.expiresAt)
                 ELSE rows[t]]
  BY Zenon DEF RotateInto, Renewed
<1>3. /\ seen[r] \in Seen /\ s \in Requests /\ seen[r].session.expiresAt \in Times
      /\ rows[s] # None /\ rows[s] \in Session
  BY <1>1 DEF Suspended, RotatingOne, TypeOK, Seen, Session
<1>4. CASE RotateRows(r) = {}
  BY <1>1, <1>2, <1>3, <1>4 DEF TypeOK
<1>5. CASE RotateRows(r) # {}
  <2>1. RotateRows(r) = {s} /\ ~rows[s].revoked
    BY <1>3, <1>5 DEF RotateRows
  <2>2. new \in Session /\ new # None /\ new.access = pair /\ new.refresh = pair
    <3>1. pair \in Tokens
      BY DEF Tokens, Pairs
    <3>2. QED
      BY <1>3, <3>1, RenewedSession
  <2>3. rows' = [rows EXCEPT ![s] = new]
    BY <1>1, <1>2, <1>3, <2>1 DEF TypeOK
  <2> HIDE DEF new
  <2>4. QED
    BY <1>3, <1>5, <2>1, <2>2, <2>3
<1>6. QED
  BY <1>4, <1>5

\* A rotation that has put its pair in the table has taken its token away.
LEMMA RotationCommits ==
  ASSUME IInv, NEW r \in Requests, stage[r] = "rotating", NEW pair \in {r, NoPair},
         PlacesPair(r, pair), rows' = RotateInto(r, pair), RotateRows(r) # {},
         UNCHANGED <<memory, byAccess, byRefresh>>, earlier'[r] = earlier[r],
         TypeOK', Suspended(r)'
  PROVE  IInv'
<1> DEFINE s == seen[r].id
<1>1. /\ TypeOK /\ Suspended(r)
      /\ \A t \in Requests \ {s} : rows[t] # None => rows[t].refresh # input[r].refresh
      /\ \A t \in Requests : memory[t] # None => memory[t].refresh # input[r].refresh
  BY DEF IInv, RotatingOne
<1>2. /\ input[r].op = "refresh" /\ input[r].refresh # r
      /\ input[r].refresh # NoPair
  BY <1>1, PairIsNew, AuthNulls DEF Suspended, TypeOK, Inputs, Pairs
<1>3. s \in Requests /\ rows[s] # None
  BY RotatedRow
<1>4. PICK new \in Session :
        /\ new # None /\ new.access = pair /\ new.refresh = pair
        /\ rows' = [rows EXCEPT ![s] = new]
  BY RotatedRow
<1> HIDE DEF s
<1>5. Issued(s) /\ IndexAgrees'
  BY <1>3 DEF IInv, Stores, Held, IndexAgrees
<1>6. /\ Stores'
      /\ \A q \in Requests : RotatingOne(q)' /\ RevokingRows(q)'
      /\ \A q \in Requests \ {r} : Spent(q)' /\ Dead(q)'
  BY <1>3, <1>4, <1>5, PairIsPlaced
<1>7. answer[r] = "none" /\ answer'[r] # "revoked" /\ stage'[r] \in {"answered", "rotated"}
  BY Unanswered DEF PlacesPair
<1>8. Spent(r)' /\ Dead(r)'
  <2>1. \A t \in Requests : rows'[t] # None => rows'[t].refresh # input[r].refresh
    BY <1>1, <1>2, <1>3, <1>4 DEF TypeOK
  <2>2. input'[r] = input[r]
    BY DEF PlacesPair
  <2>3. QED
    BY <1>1, <1>7, <2>1, <2>2 DEF Spent, Dead
<1>9. \A q \in Requests : AfterLogout(q, r)'
  BY PastMiddleware DEF PlacesPair, PastStages
<1>10. ASSUME NEW q \in Requests
       PROVE  AfterRotation(q, r)'
  <2>1. AfterRotation(q, r) /\ r \notin earlier[r]
    BY Unanswered DEF IInv
  <2>2. q # r => (q \in Rotations' <=> q \in Rotations) /\ input'[q] = input[q]
    BY StillIssued
  <2>3. QED
    BY <2>1, <2>2 DEF AfterRotation, PlacesPair
<1>11. OthersWait(r)
  BY DEF PlacesPair
<1>12. QED
  BY <1>6, <1>8, <1>9, <1>10, <1>11, RequestStep

\* The write of a rotation takes the token away from the one session that has it, or
\* from one that another rotation has already taken it from.
LEMMA RotateWriteStep ==
  ASSUME IInv, NEW r \in Requests, RotateWrite(r)
  PROVE  IInv'
<1>1. /\ TypeOK /\ Suspended(r) /\ stage[r] = "rotating" /\ rows' = RotateInto(r, r)
      /\ Answer(r, IF RotateRows(r) = {} THEN "notIssued" ELSE "issued")
      /\ UNCHANGED <<identities, process, seen, account, bounds>>
  BY DEF IInv, RotateWrite
<1>2. CASE RotateRows(r) = {}
  <2>1. rows' = rows
    BY <1>1, <1>2, RotatedRow
  <2>2. QED
    BY <1>1, <1>2, <2>1, RefusalStep DEF Answers, TypeOK, process
<1>3. CASE RotateRows(r) # {}
  <2>1. /\ input' = input /\ earlier' = earlier
        /\ stage' \in [Requests -> Stages] /\ at' \in [Requests -> {"db", "memory"}]
        /\ answer' \in [Requests -> Answers]
        /\ \A q \in Requests \ {r} : stage'[q] = stage[q] /\ answer'[q] = answer[q]
        /\ stage'[r] = "answered" /\ answer'[r] = "issued"
    BY <1>1, <1>3, AnswerEffect DEF Answers
  <2>2. OthersWait(r) /\ PlacesPair(r, r)
    BY <1>1, <2>1 DEF OthersWait, PlacesPair
  <2>3. rows' \in [Requests -> Session \cup {None}]
    <3>1. \E new \in Session : rows' = [rows EXCEPT ![seen[r].id] = new]
      BY <1>1, <1>3, RotatedRow
    <3>2. QED
      BY <1>1, <3>1 DEF TypeOK
  <2>4. TypeOK'
    BY <1>1, <2>1, <2>3 DEF TypeOK, process, bounds
  <2>5. ~Unheard(r)'
    BY <1>1, Unanswered DEF Unheard
  <2>6. Suspended(r)'
    BY <1>1, <2>1, <2>2, <2>5, StillPresents DEF Suspended
  <2>7. UNCHANGED <<memory, byAccess, byRefresh>>
    BY <1>1 DEF process
  <2>8. QED
    BY <1>1, <1>3, <2>1, <2>2, <2>4, <2>6, <2>7, RotationCommits
<1>4. QED
  BY <1>2, <1>3

\* A rotation in memory takes the old pair from the maps and from the session.
LEMMA RotateInMemoryStep ==
  ASSUME IInv, NEW r \in Requests, RotateInMemory(r)
  PROVE  IInv'
<1> DEFINE s == byRefresh[input[r].refresh]
           new == Rotated(r, memory[s])
<1>1. /\ TypeOK /\ Suspended(r) /\ stage[r] = "rotate" /\ Stores
      /\ UNCHANGED <<tables, recalled, fallback, idFallback, account, bounds>>
  BY DEF IInv, RotateInMemory
<1>2. /\ input[r].op = "refresh" /\ input[r].refresh \in Requests
      /\ input[r].refresh # r
  BY <1>1, PairIsNew DEF Suspended, TypeOK, Inputs, Pairs
<1>3. /\ \A q \in Requests : r \notin earlier[q]
      /\ \A t \in Requests : memory[t] # None =>
           /\ memory[t].access # r /\ memory[t].refresh # r
  BY <1>1, Unanswered
<1>4. s # NoSession =>
        /\ s \in Requests /\ memory[s] \in Session /\ memory[s] # None
        /\ memory[s].refresh = input[r].refresh /\ memory[s].access \in Requests
  BY <1>1, <1>2 DEF TypeOK, Stores, Held, Known, IndexAgrees, Pairs
<1>5. CASE ~Rotatable(s, "memory")
  BY <1>1, <1>5, RefusalStep DEF RotateInMemory, Answers, TypeOK, tables
<1>6. CASE Rotatable(s, "memory")
  <2>1. /\ s # NoSession
        /\ memory' = [memory EXCEPT ![s] = new]
        /\ byAccess' = [byAccess EXCEPT ![memory[s].access] = NoSession, ![r] = s]
        /\ byRefresh' = [byRefresh EXCEPT ![memory[s].refresh] = NoSession, ![r] = s]
        /\ seen' = [seen EXCEPT ![r] = [id |-> s, session |-> new]]
        /\ Answer(r, "issued")
    BY <1>6 DEF RotateInMemory, Rotatable, Reindexed
  <2>2. /\ new \in Session /\ new # None /\ new.access = r /\ new.refresh = r
        /\ [id |-> s, session |-> new] \in Seen
    BY <1>1, <1>4, <2>1, SessionValues
  <2> HIDE DEF new, s
  <2>3. /\ input' = input /\ earlier' = earlier
        /\ stage' \in [Requests -> Stages] /\ at' \in [Requests -> {"db", "memory"}]
        /\ answer' \in [Requests -> Answers]
        /\ \A q \in Requests \ {r} : stage'[q] = stage[q] /\ answer'[q] = answer[q]
        /\ stage'[r] = "answered" /\ answer'[r] = "issued"
    BY <1>1, <2>1, AnswerEffect DEF Answers
  <2>4. /\ seen' \in [Requests -> Seen \cup {None}]
        /\ \A q \in Requests \ {r} : seen'[q] = seen[q]
        /\ ~Unheard(r)'
    BY <1>1, <2>1, <2>2, AuthNulls DEF TypeOK, Unheard
  <2>5. OthersWait(r) /\ PlacesPair(r, r)
    BY <1>1, <2>3, <2>4 DEF OthersWait, PlacesPair
  <2>6. /\ memory'[s] = new
        /\ \A t \in Requests \ {s} : memory'[t] = memory[t]
    BY <1>1, <1>4, <2>1 DEF TypeOK
  <2>7. \A p \in Requests :
          /\ byAccess'[p] = IF p = r THEN s
                            ELSE IF p = memory[s].access THEN NoSession ELSE byAccess[p]
          /\ byRefresh'[p] = IF p = r THEN s
                             ELSE IF p = memory[s].refresh THEN NoSession ELSE byRefresh[p]
    BY <1>1, <1>2, <1>4, <2>1 DEF TypeOK, Pairs
  <2>8. IndexAgrees'
    <3>1. IndexAgrees
      BY <1>1 DEF Stores
    <3>2. ASSUME NEW p \in Requests, NEW t \in Requests
          PROVE  byAccess'[p] = t <=> memory'[t] # None /\ memory'[t].access = p
      <4>1. CASE p = r
        <5>1. byAccess'[p] = s
          BY <2>7, <4>1
        <5>2. CASE t = s
          BY <2>2, <2>6, <4>1, <5>1, <5>2
        <5>3. CASE t # s
          BY <1>3, <2>6, <4>1, <5>1, <5>3
        <5>4. QED
          BY <5>2, <5>3
      <4>2. CASE p # r /\ t = s
        <5>1. /\ ~(memory'[t].access = p)
              /\ p # memory[s].access => byAccess[p] # s
          BY <1>4, <2>1, <2>2, <2>6, <3>1, <4>2 DEF IndexAgrees, Pairs
        <5>2. byAccess'[p] # s
          BY <1>4, <2>1, <2>7, <4>2, <5>1
        <5>3. QED
          BY <4>2, <5>1, <5>2
      <4>3. CASE p # r /\ t # s
        <5>1. memory'[t] = memory[t] /\ NoSession # t
          BY <2>6, <4>3, AuthNulls
        <5>2. byAccess[p] = t <=> memory[t] # None /\ memory[t].access = p
          BY <3>1 DEF IndexAgrees, Pairs
        <5>3. p = memory[s].access => byAccess[p] = s
          BY <1>4, <2>1, <3>1 DEF IndexAgrees, Pairs
        <5>4. QED
          BY <2>7, <4>3, <5>1, <5>2, <5>3
      <4>4. QED
        BY <4>1, <4>2, <4>3
    <3>3. ASSUME NEW p \in Requests, NEW t \in Requests
          PROVE  byRefresh'[p] = t <=> memory'[t] # None /\ memory'[t].refresh = p
      <4>1. CASE p = r
        <5>1. byRefresh'[p] = s
          BY <2>7, <4>1
        <5>2. CASE t = s
          BY <2>2, <2>6, <4>1, <5>1, <5>2
        <5>3. CASE t # s
          BY <1>3, <2>6, <4>1, <5>1, <5>3
        <5>4. QED
          BY <5>2, <5>3
      <4>2. CASE p # r /\ t = s
        <5>1. /\ ~(memory'[t].refresh = p)
              /\ p # memory[s].refresh => byRefresh[p] # s
          BY <1>4, <2>1, <2>2, <2>6, <3>1, <4>2 DEF IndexAgrees, Pairs
        <5>2. byRefresh'[p] # s
          BY <1>4, <2>1, <2>7, <4>2, <5>1
        <5>3. QED
          BY <4>2, <5>1, <5>2
      <4>3. CASE p # r /\ t # s
        <5>1. memory'[t] = memory[t] /\ NoSession # t
          BY <2>6, <4>3, AuthNulls
        <5>2. byRefresh[p] = t <=> memory[t] # None /\ memory[t].refresh = p
          BY <3>1 DEF IndexAgrees, Pairs
        <5>3. p = memory[s].refresh => byRefresh[p] = s
          BY <1>4, <2>1, <3>1 DEF IndexAgrees, Pairs
        <5>4. QED
          BY <2>7, <4>3, <5>1, <5>2, <5>3
      <4>4. QED
        BY <4>1, <4>2, <4>3
    <3>4. QED
      BY <3>2, <3>3 DEF IndexAgrees, Pairs
  <2>9. TypeOK'
    <3>1. memory' \in [Requests -> Session \cup {None}]
      BY <1>1, <2>1, <2>2 DEF TypeOK
    <3>2. /\ byAccess' \in [Pairs -> Requests \cup {NoSession}]
          /\ byRefresh' \in [Pairs -> Requests \cup {NoSession}]
      BY <1>1, <1>4, <2>1 DEF TypeOK, Pairs
    <3>3. QED
      BY <1>1, <2>3, <2>4, <3>1, <3>2 DEF TypeOK, tables, bounds
  <2>10. rows' = rows
    BY <1>1 DEF tables
  <2>11. Issued(s)
    BY <1>1, <1>4, <2>1 DEF Stores, Held
  <2>12. /\ Stores'
         /\ \A q \in Requests : RotatingOne(q)' /\ RevokingRows(q)'
         /\ \A q \in Requests \ {r} : Spent(q)' /\ Dead(q)'
    BY <1>4, <2>1, <2>2, <2>5, <2>8, <2>10, <2>11, PairIsPlaced
  <2>13. Spent(r)' /\ Dead(r)'
    <3>1. \A t \in Requests : memory'[t] # None => memory'[t].refresh # input[r].refresh
      BY <1>1, <1>2, <1>4, <2>1, <2>2, <2>6 DEF Stores, IndexAgrees, Pairs
    <3>2. \A t \in Requests : rows[t] # None => rows[t].refresh # input[r].refresh
      BY <1>1, <1>4, <2>1 DEF Stores, StoresApart
    <3>3. QED
      BY <2>3, <2>10, <3>1, <3>2 DEF Spent, Dead
  <2>14. Suspended(r)'
    BY <1>1, <2>3, <2>4, <2>5, StillPresents DEF Suspended
  <2>15. \A q \in Requests : AfterLogout(q, r)'
    BY <1>1, <2>3, <2>5, PastMiddleware DEF PastStages
  <2>16. ASSUME NEW q \in Requests
         PROVE  AfterRotation(q, r)'
    <3>1. Spent(q) /\ r \notin earlier[r]
      BY <1>3 DEF IInv
    <3>2. q # r => (q \in Rotations' <=> q \in Rotations)
      BY <2>5, StillIssued
    <3>3. q \in Rotations => input[q].refresh # input[r].refresh
      BY <1>4, <2>1, <3>1 DEF Spent
    <3>4. QED
      BY <2>3, <3>1, <3>2, <3>3 DEF AfterRotation
  <2>17. QED
    BY <1>1, <2>5, <2>9, <2>12, <2>13, <2>14, <2>15, <2>16, RequestStep
<1>7. QED
  BY <1>5, <1>6

\* A revocation, heard of or not, leaves all tokens where they are.
LEMMA RevocationStep ==
  ASSUME IInv, NEW r \in Requests, stage[r] \in {"revoke", "revoking"}, OthersWait(r),
         TypeOK', input'[r] = input[r], earlier'[r] = earlier[r],
         \/ stage'[r] = "answered" /\ answer'[r] = "revoked"
         \/ stage'[r] = "revoked" /\ answer'[r] = answer[r],
         ~Unheard(r)',
         \A t \in Requests :
           /\ rows'[t] = None <=> rows[t] = None
           /\ rows[t] # None =>
                /\ rows'[t].access = rows[t].access /\ rows'[t].refresh = rows[t].refresh
                /\ rows[t].revoked => rows'[t].revoked
           /\ memory'[t] = None <=> memory[t] = None
           /\ memory[t] # None =>
                /\ memory'[t].access = memory[t].access
                /\ memory'[t].refresh = memory[t].refresh
                /\ memory[t].revoked => memory'[t].revoked,
         Dead(r)', UNCHANGED <<byAccess, byRefresh>>
  PROVE  IInv'
<1>1. TypeOK /\ Suspended(r) /\ Stores
  BY DEF IInv
<1>2. answer[r] = "none" /\ ~Issued(r)
  BY Unanswered
<1>3. \A q \in Requests \ {r} :
        /\ input'[q] = input[q] /\ stage'[q] = stage[q] /\ seen'[q] = seen[q]
        /\ answer'[q] = answer[q]
  BY DEF OthersWait
<1>4. Stores'
  <2>1. Held'
    <3>1. \A q \in Requests : answer[q] = "issued" => answer'[q] = "issued"
      BY <1>2, <1>3
    <3>2. QED
      BY <1>1, <3>1 DEF Stores, Held, Known, Issued
  <2>2. IndexAgrees'
    BY <1>1 DEF Stores, IndexAgrees
  <2>3. RefreshUnique' /\ StoresApart'
    BY <1>1 DEF Stores, RefreshUnique, StoresApart
  <2>4. QED
    BY <2>1, <2>2, <2>3 DEF Stores
<1>5. ASSUME NEW q \in Requests
      PROVE  RotatingOne(q)' /\ RevokingRows(q)'
  <2>1. RotatingOne(q) /\ RevokingRows(q)
    BY DEF IInv
  <2>2. stage'[q] \in {"rotating", "revoking"} => q # r
    OBVIOUS
  <2>3. stage[q] = "rotating" => seen[q].id \in Requests
    BY <1>1 DEF IInv, Suspended, TypeOK, Seen
  <2>4. QED
    BY <1>3, <2>1, <2>2, <2>3 DEF RotatingOne, RevokingRows
<1>6. ASSUME NEW q \in Requests
      PROVE  Spent(q)' /\ Dead(q)'
  <2>1. Spent(q) /\ Dead(q)
    BY DEF IInv
  <2>2. q \in Rotations' => q \in Rotations /\ q # r
    BY <1>2, <1>3 DEF Rotations, Issued, Unheard
  <2>3. Spent(q)'
    BY <1>3, <2>1, <2>2 DEF Spent
  <2>4. q # r => Dead(q)'
    BY <1>3, <2>1 DEF Dead
  <2>5. QED
    BY <2>3, <2>4
<1>7. Suspended(r)'
  <2>1. input[r].op = "logout"
    BY <1>1 DEF Suspended
  <2>2. QED
    BY <1>1, <1>2, <2>1, StillPresents DEF Suspended
<1>8. \A q \in Requests : AfterRotation(q, r)' /\ AfterLogout(q, r)'
  BY <1>2, NoRotation, PastMiddleware DEF PastStages
<1>9. QED
  BY <1>4, <1>5, <1>6, <1>7, <1>8, RequestStep

\* The session, revoked.
Ended(session) == [session EXCEPT !.revoked = TRUE]

\* A session keeps being one, and its tokens, when it is revoked.
LEMMA EndedSession ==
  ASSUME NEW session \in Session
  PROVE  /\ Ended(session) \in Session /\ Ended(session) # None /\ Ended(session).revoked
         /\ Ended(session).access = session.access
         /\ Ended(session).refresh = session.refresh
<1>1. /\ Ended(session) \in Session /\ Ended(session).revoked
      /\ Ended(session).access = session.access
      /\ Ended(session).refresh = session.refresh
  BY DEF Ended, Session
<1>2. QED
  BY <1>1, AuthNulls

\* The update of a logout revokes every row that has its token.
LEMMA RevokedRows ==
  ASSUME IInv, NEW r \in Requests, rows' = Revoked(r)
  PROVE  /\ rows' \in [Requests -> Session \cup {None}]
         /\ \A t \in Requests :
              /\ rows'[t] = None <=> rows[t] = None
              /\ rows[t] # None =>
                   /\ rows'[t].access = rows[t].access /\ rows'[t].refresh = rows[t].refresh
                   /\ rows[t].revoked => rows'[t] = rows[t]
                   /\ rows[t].access = input[r].token => rows'[t].revoked
<1>1. TypeOK /\ rows' = [t \in Requests |->
                           IF t \in RevokeRows(r) THEN Ended(rows[t]) ELSE rows[t]]
  BY DEF IInv, Revoked, Ended
<1>2. \A t \in Requests : rows[t] # None =>
        /\ rows[t] \in Session /\ Ended(rows[t]) \in Session /\ Ended(rows[t]) # None
        /\ Ended(rows[t]).access = rows[t].access
        /\ Ended(rows[t]).refresh = rows[t].refresh
        /\ Ended(rows[t]).revoked
  BY <1>1, EndedSession DEF TypeOK
<1>3. \A t \in RevokeRows(r) : rows[t] # None /\ ~rows[t].revoked
  BY DEF RevokeRows
<1>4. rows' \in [Requests -> Session \cup {None}]
  BY <1>1, <1>2, <1>3 DEF TypeOK
<1>5. ASSUME NEW t \in Requests
      PROVE  /\ rows'[t] = None <=> rows[t] = None
             /\ rows[t] # None =>
                  /\ rows'[t].access = rows[t].access /\ rows'[t].refresh = rows[t].refresh
                  /\ rows[t].revoked => rows'[t] = rows[t]
                  /\ rows[t].access = input[r].token => rows'[t].revoked
  <2>1. CASE t \in RevokeRows(r)
    BY <1>1, <1>2, <1>3, <2>1
  <2>2. CASE t \notin RevokeRows(r)
    <3>1. rows'[t] = rows[t]
      BY <1>1, <2>2
    <3>2. rows[t] # None /\ rows[t].access = input[r].token => rows[t].revoked
      BY <2>2 DEF RevokeRows
    <3>3. QED
      BY <3>1, <3>2
  <2>3. QED
    BY <2>1, <2>2
<1>6. QED
  BY <1>4, <1>5

\* A revocation of rows leaves none that is found under its token and is not revoked.
LEMMA RevocationCommits ==
  ASSUME IInv, NEW r \in Requests, stage[r] = "revoking", rows' = Revoked(r),
         OthersWait(r), input'[r] = input[r], earlier'[r] = earlier[r],
         \/ stage'[r] = "answered" /\ answer'[r] = "revoked"
         \/ stage'[r] = "revoked" /\ answer'[r] = answer[r],
         stage' \in [Requests -> Stages], at' \in [Requests -> {"db", "memory"}],
         answer' \in [Requests -> Answers], input' = input, earlier' = earlier,
         faults' \in 0..MaxFaults,
         UNCHANGED <<identities, process, seen, account, now>>
  PROVE  IInv'
<1>1. /\ TypeOK /\ RevokingRows(r) /\ rows' \in [Requests -> Session \cup {None}]
      /\ UNCHANGED <<memory, byAccess, byRefresh>>
  BY RevokedRows DEF IInv, process
<1>2. TypeOK'
  BY <1>1 DEF TypeOK, process
<1>3. ~Unheard(r)'
  BY Unanswered DEF Unheard
<1>4. \A t \in Requests :
        /\ rows'[t] = None <=> rows[t] = None
        /\ rows[t] # None =>
             /\ rows'[t].access = rows[t].access /\ rows'[t].refresh = rows[t].refresh
             /\ rows[t].revoked => rows'[t].revoked
             /\ rows[t].access = input[r].token => rows'[t].revoked
  BY RevokedRows
<1>5. Dead(r)'
  BY <1>1, <1>4 DEF Dead, RevokingRows
<1>6. QED
  BY <1>1, <1>2, <1>3, <1>4, <1>5, RevocationStep

\* The answer of a revocation in the table.
LEMMA RevokeWriteStep ==
  ASSUME IInv, NEW r \in Requests, RevokeWrite(r)
  PROVE  IInv'
<1>1. /\ TypeOK /\ stage[r] = "revoking" /\ Answer(r, "revoked") /\ rows' = Revoked(r)
      /\ UNCHANGED <<identities, process, seen, account, bounds>>
  BY DEF IInv, RevokeWrite
<1>2. /\ input' = input /\ earlier' = earlier
      /\ stage' \in [Requests -> Stages] /\ at' \in [Requests -> {"db", "memory"}]
      /\ answer' \in [Requests -> Answers]
      /\ \A q \in Requests \ {r} : stage'[q] = stage[q] /\ answer'[q] = answer[q]
      /\ stage'[r] = "answered" /\ answer'[r] = "revoked"
  BY <1>1, AnswerEffect DEF Answers
<1>3. OthersWait(r)
  BY <1>1, <1>2 DEF OthersWait
<1>4. QED
  BY <1>1, <1>2, <1>3, RevocationCommits DEF TypeOK, bounds

\* A revocation in memory revokes the one session its token leads to.
LEMMA RevokeInMemoryStep ==
  ASSUME IInv, NEW r \in Requests, RevokeInMemory(r)
  PROVE  IInv'
<1> DEFINE s == byAccess[input[r].token]
           new == Ended(memory[s])
<1>1. /\ TypeOK /\ Suspended(r) /\ stage[r] = "revoke" /\ Stores
      /\ UNCHANGED <<tables, byAccess, byRefresh, recalled, fallback, idFallback,
                     account, bounds>>
  BY DEF IInv, RevokeInMemory
<1>2. input[r].op = "logout" /\ input[r].token \in Requests
  BY <1>1 DEF Suspended, TypeOK, Inputs, Pairs
<1>3. s # NoSession =>
        /\ s \in Requests /\ memory[s] \in Session /\ memory[s] # None
        /\ memory[s].access = input[r].token
  BY <1>1, <1>2 DEF TypeOK, Stores, IndexAgrees, Pairs
<1>4. CASE ~Revocable(s, "memory")
  BY <1>1, <1>4, RefusalStep DEF RevokeInMemory, Answers, TypeOK, tables
<1>5. CASE Revocable(s, "memory")
  <2>1. /\ s # NoSession /\ memory' = [memory EXCEPT ![s] = new] /\ Answer(r, "revoked")
        /\ seen' = [seen EXCEPT ![r] = [id |-> s, session |-> memory[s]]]
    BY <1>5 DEF RevokeInMemory, Revocable, Ended
  <2>2. /\ new \in Session /\ new # None /\ new.revoked
        /\ new.access = memory[s].access /\ new.refresh = memory[s].refresh
        /\ [id |-> s, session |-> memory[s]] \in Seen
    BY <1>1, <1>3, <2>1, EndedSession, SessionValues
  <2> HIDE DEF new, s
  <2>3. /\ memory' \in [Requests -> Session \cup {None}]
        /\ memory'[s] = new /\ \A t \in Requests \ {s} : memory'[t] = memory[t]
    BY <1>1, <1>3, <2>1, <2>2 DEF TypeOK
  <2>4. \A t \in Requests :
          /\ memory'[t] = None <=> memory[t] = None
          /\ memory[t] # None =>
               /\ memory'[t].access = memory[t].access
               /\ memory'[t].refresh = memory[t].refresh
               /\ memory[t].revoked => memory'[t].revoked
    BY <1>3, <2>1, <2>2, <2>3
  <2>5. /\ input' = input /\ earlier' = earlier
        /\ stage' \in [Requests -> Stages] /\ at' \in [Requests -> {"db", "memory"}]
        /\ answer' \in [Requests -> Answers]
        /\ \A q \in Requests \ {r} : stage'[q] = stage[q] /\ answer'[q] = answer[q]
        /\ stage'[r] = "answered" /\ answer'[r] = "revoked"
    BY <1>1, <2>1, AnswerEffect DEF Answers
  <2>6. /\ seen' \in [Requests -> Seen \cup {None}]
        /\ \A q \in Requests \ {r} : seen'[q] = seen[q]
        /\ seen'[r].session = memory[s]
    BY <1>1, <2>1, <2>2 DEF TypeOK
  <2>7. OthersWait(r)
    BY <1>1, <2>5, <2>6 DEF OthersWait
  <2>8. TypeOK'
    BY <1>1, <2>3, <2>5, <2>6 DEF TypeOK, tables, bounds
  <2>9. ~Unheard(r)'
    BY <1>2, <1>3, <2>1, <2>6, AuthNulls DEF Unheard
  <2>10. Dead(r)'
    <3>1. \A t \in Requests :
            memory'[t] # None /\ memory'[t].access = input[r].token => memory'[t].revoked
      <4> TAKE t \in Requests
      <4>1. CASE t = s
        BY <2>2, <2>3, <4>1
      <4>2. CASE t # s
        <5>1. byAccess[input[r].token] = s
          BY <1>1, <1>2, <1>3, <2>1 DEF Stores, IndexAgrees, Pairs
        <5>2. memory[t] # None => memory[t].access # input[r].token
          BY <1>1, <1>2, <4>2, <5>1 DEF Stores, IndexAgrees, Pairs
        <5>3. QED
          BY <2>3, <4>2, <5>2
      <4>3. QED
        BY <4>1, <4>2
    <3>2. \A t \in Requests : rows[t] # None => rows[t].access # input[r].token
      BY <1>1, <1>3, <2>1 DEF Stores, StoresApart
    <3>3. QED
      BY <1>1, <2>5, <3>1, <3>2 DEF Dead, tables
  <2>11. \A t \in Requests : rows'[t] = rows[t]
    BY <1>1 DEF tables
  <2>12. UNCHANGED <<byAccess, byRefresh>>
    BY <1>1
  <2>13. QED
    BY <1>1, <2>4, <2>5, <2>7, <2>8, <2>9, <2>10, <2>11, <2>12, RevocationStep
<1>6. QED
  BY <1>4, <1>5

\* The session a request has read, with the pair that reached nobody.
LEMMA SeveredSeen ==
  ASSUME NEW r \in Requests, seen \in [Requests -> Seen \cup {None}], seen[r] \in Seen,
         seen' = [seen EXCEPT ![r].session =
                    [@ EXCEPT !.access = NoPair, !.refresh = NoPair]]
  PROVE  /\ seen' \in [Requests -> Seen \cup {None}]
         /\ seen'[r] # None /\ seen'[r].id = seen[r].id
         /\ seen'[r].session.access = NoPair
         /\ \A q \in Requests \ {r} : seen'[q] = seen[q]
<1> DEFINE a == [seen[r].session EXCEPT !.access = NoPair]
           b == [a EXCEPT !.refresh = NoPair]
           x == [seen[r] EXCEPT !.session = b]
<1>1. a \in Session /\ a.access = NoPair
  BY DEF Seen, Session, Tokens
<1> HIDE DEF a
<1>2. b \in Session /\ b.access = NoPair
  BY <1>1 DEF Session, Tokens
<1> HIDE DEF b
<1>3. x \in Seen /\ x.id = seen[r].id /\ x.session.access = NoPair
  BY <1>2 DEF Seen
<1>4. seen' = [seen EXCEPT ![r] = x]
  BY Zenon DEF a, b, x
<1> HIDE DEF x
<1>5. QED
  BY <1>3, <1>4, AuthNulls

\* A commit that goes unheard has done what it does; its handler waits for an error.
LEMMA CommitUnheardStep ==
  ASSUME IInv, NEW r \in Requests, CommitUnheard(r)
  PROVE  IInv'
<1>1. /\ TypeOK /\ Suspended(r) /\ faults' \in 0..MaxFaults
      /\ UNCHANGED <<process, account, now>>
      /\ UNCHANGED <<memory, byAccess, byRefresh>>
      /\ UNCHANGED <<recalled, fallback, idFallback>>
  BY AuthAssumption DEF IInv, CommitUnheard, TypeOK, process
<1>2. ASSUME NEW s \in SessionStages \cup IdentityStages, Continue(r, s)
      PROVE  /\ input' = input /\ earlier' = earlier /\ answer' = answer /\ at' = at
             /\ stage' \in [Requests -> Stages]
             /\ \A q \in Requests \ {r} : stage'[q] = stage[q]
             /\ stage'[r] = s
  BY <1>1, <1>2 DEF Continue, TypeOK, Stages
<1>3. CASE /\ stage[r] = "insert"
           /\ identities' = identities \cup {input[r].who}
           /\ Continue(r, "inserted")
           /\ UNCHANGED <<rows, seen>>
  <2>1. /\ input' = input /\ earlier' = earlier /\ answer' = answer /\ at' = at
        /\ stage' \in [Requests -> Stages]
        /\ \A q \in Requests \ {r} : stage'[q] = stage[q]
        /\ stage'[r] = "inserted"
    BY <1>2, <1>3 DEF IdentityStages
  <2>2. input[r].who \in Users /\ answer[r] = "none" /\ (Unheard(r)' <=> Unheard(r))
    BY <1>1, <1>3, Unanswered DEF Suspended, TypeOK, Inputs, Unheard
  <2>3. TypeOK'
    BY <1>1, <1>3, <2>1, <2>2 DEF TypeOK
  <2>4. OthersWait(r)
    BY <1>1, <1>3, <2>1 DEF OthersWait
  <2>5. Suspended(r)'
    BY <1>1, <1>3, <2>1, <2>2, <2>4, Unanswered, StillPresents DEF Suspended
  <2>6. \A q \in Requests : AfterRotation(q, r)' /\ AfterLogout(q, r)'
    BY <1>3, <2>1, <2>2, <2>4, NoRotation, PastMiddleware
  <2>7. RotatingOne(r)' /\ RevokingRows(r)'
    BY <2>1 DEF RotatingOne, RevokingRows
  <2>8. QED
    BY <1>1, <1>3, <2>1, <2>2, <2>3, <2>4, <2>5, <2>6, <2>7, QuietStep
<1>4. CASE /\ stage[r] = "rotating" /\ RotateRows(r) # {}
           /\ rows' = RotateInto(r, NoPair)
           /\ seen' = [seen EXCEPT ![r].session =
                         [@ EXCEPT !.access = NoPair, !.refresh = NoPair]]
           /\ Continue(r, "rotated")
           /\ UNCHANGED identities
  <2>1. /\ input' = input /\ earlier' = earlier /\ answer' = answer /\ at' = at
        /\ stage' \in [Requests -> Stages]
        /\ \A q \in Requests \ {r} : stage'[q] = stage[q]
        /\ stage'[r] = "rotated"
    BY <1>2, <1>4 DEF SessionStages
  <2>2. /\ seen' \in [Requests -> Seen \cup {None}]
        /\ \A q \in Requests \ {r} : seen'[q] = seen[q]
    BY <1>1, <1>4, RotatedRow, SeveredSeen DEF TypeOK
  <2>3. rows' \in [Requests -> Session \cup {None}]
    <3>1. \E new \in Session : rows' = [rows EXCEPT ![seen[r].id] = new]
      BY <1>4, RotatedRow
    <3>2. QED
      BY <1>1, <3>1 DEF TypeOK
  <2>4. TypeOK'
    BY <1>1, <1>4, <2>1, <2>2, <2>3 DEF TypeOK
  <2>5. OthersWait(r)
    BY <1>1, <2>1, <2>2 DEF OthersWait
  <2>6. PlacesPair(r, NoPair)
    BY <1>4, <2>1, <2>5 DEF PlacesPair
  <2>7. Suspended(r)'
    BY <1>1, <1>4, <2>1, <2>5, Unanswered, StillPresents DEF Suspended
  <2>8. QED
    BY <1>1, <1>4, <2>1, <2>4, <2>6, <2>7, RotationCommits
<1>5. CASE /\ stage[r] = "revoking" /\ rows' = Revoked(r)
           /\ Continue(r, "revoked")
           /\ UNCHANGED <<identities, seen>>
  <2>1. /\ input' = input /\ earlier' = earlier /\ answer' = answer /\ at' = at
        /\ stage' \in [Requests -> Stages]
        /\ \A q \in Requests \ {r} : stage'[q] = stage[q]
        /\ stage'[r] = "revoked"
    BY <1>2, <1>5 DEF SessionStages
  <2>2. OthersWait(r)
    BY <1>1, <1>5, <2>1 DEF OthersWait
  <2>3. QED
    BY <1>1, <1>5, <2>1, <2>2, RevocationCommits DEF TypeOK
<1>6. QED
  BY <1>3, <1>4, <1>5 DEF CommitUnheard

\* A restart forgets what is in memory and under way, and gives nothing back.
LEMMA RestartStep ==
  ASSUME IInv, Restart
  PROVE  IInv'
<1>1. /\ TypeOK /\ Stores
      /\ memory' = [s \in Requests |-> None]
      /\ byAccess' = [p \in Pairs |-> NoSession]
      /\ byRefresh' = [p \in Pairs |-> NoSession]
      /\ recalled' = {} /\ fallback' = FALSE /\ idFallback' = FALSE
      /\ stage' = [r \in Requests |-> IF r \in Running THEN "lost" ELSE stage[r]]
      /\ at' = [r \in Requests |-> Backend]
      /\ account' = [r \in Requests |-> NoUser]
      /\ \/ faults' = faults
         \/ faults < MaxFaults /\ faults' = faults + 1
      /\ UNCHANGED <<tables, input, seen, answer, earlier, now>>
  BY DEF IInv, Restart, Counted
<1>2. \A r \in Requests :
        /\ stage'[r] \in {"idle", "answered", "lost"}
        /\ stage[r] \in {"answered", "lost"} => stage'[r] = stage[r]
        /\ stage'[r] = "idle" <=> stage[r] = "idle"
        /\ stage'[r] \in {"answered", "lost"} \/ ~Unheard(r)
  BY <1>1 DEF IInv, TypeOK, Stages, Running, IdentityStages, SessionStages, Suspended
<1>3. TypeOK'
  <2>1. stage' \in [Requests -> Stages]
    BY <1>1, <1>2 DEF Stages
  <2>2. at' \in [Requests -> {"db", "memory"}] /\ faults' \in 0..MaxFaults
    BY <1>1, AuthAssumption DEF TypeOK
  <2>3. QED
    BY <1>1, <2>1, <2>2 DEF TypeOK, tables
<1>4. Stores'
  <2>1. IndexAgrees'
    BY <1>1, AuthNulls DEF IndexAgrees, Pairs
  <2>2. Held'
    BY <1>1 DEF Stores, Held, Known, Issued, tables
  <2>3. RefreshUnique' /\ StoresApart'
    BY <1>1 DEF Stores, RefreshUnique, StoresApart, tables
  <2>4. QED
    BY <2>1, <2>2, <2>3 DEF Stores
<1>5. ASSUME NEW r \in Requests
      PROVE  Suspended(r)'
  <2>1. Suspended(r) /\ earlier[r] \subseteq Requests
    BY <1>1 DEF IInv, TypeOK
  <2>2. stage'[r] # "idle" => Presents(r, input[r])'
    BY <1>1, <1>2, <2>1 DEF Suspended, Presents, Issued
  <2>3. \A q \in earlier[r] : stage'[q] \in {"answered", "lost"}
    BY <1>2, <2>1 DEF Suspended
  <2>4. Unheard(r)' <=> Unheard(r)
    BY <1>1 DEF Unheard
  <2>5. QED
    BY <1>1, <1>2, <2>1, <2>2, <2>3, <2>4 DEF Suspended
<1>6. \A r \in Requests : RotatingOne(r)' /\ RevokingRows(r)'
  BY <1>2 DEF RotatingOne, RevokingRows
<1>7. \A r \in Requests : Spent(r)' /\ Dead(r)'
  BY <1>1 DEF IInv, Spent, Dead, Rotations, Issued, Unheard, tables
<1>8. \A q, r \in Requests : AfterRotation(q, r)' /\ AfterLogout(q, r)'
  <2> TAKE q, r \in Requests
  <2>1. AfterRotation(q, r) /\ AfterLogout(q, r)
    BY DEF IInv
  <2>2. stage'[r] \notin PastStages \cup {"touch"}
    BY <1>2 DEF PastStages
  <2>3. AfterRotation(q, r)'
    BY <1>1, <2>1, <2>2 DEF AfterRotation, Rotations, Issued, Unheard, PastStages
  <2>4. AfterLogout(q, r)'
    BY <1>1, <2>1, <2>2 DEF AfterLogout
  <2>5. QED
    BY <2>3, <2>4
<1>9. QED
  BY <1>3, <1>4, <1>5, <1>6, <1>7, <1>8 DEF IInv

\* Time is no part of it but in the types.
LEMMA TickStep ==
  ASSUME IInv, Tick
  PROVE  IInv'
<1>1. /\ TypeOK /\ now < Horizon /\ now' = now + 1
      /\ UNCHANGED <<tables, process, handlers, faults>>
  BY DEF IInv, Tick
<1>2. TypeOK'
  <2>1. now' \in 0..Horizon
    BY <1>1, AuthAssumption DEF TypeOK
  <2>2. QED
    BY <1>1, <2>1 DEF TypeOK, tables, process, handlers
<1>3. UNCHANGED <<tables, process, handlers>>
  BY <1>1
<1>4. Stores'
  BY <1>3 DEF IInv, Stores, IndexAgrees, Held, Known, RefreshUnique, StoresApart,
              Issued, tables, process, handlers
<1>5. \A r \in Requests : Suspended(r)'
  BY <1>3 DEF IInv, Suspended, Presents, Issued, Unheard, handlers
<1>6. \A r \in Requests : RotatingOne(r)' /\ RevokingRows(r)'
  BY <1>3 DEF IInv, RotatingOne, RevokingRows, tables, process, handlers
<1>7. \A r \in Requests : Spent(r)' /\ Dead(r)'
  BY <1>3 DEF IInv, Spent, Dead, Rotations, Issued, Unheard, tables, process, handlers
<1>8. \A q, r \in Requests : AfterRotation(q, r)' /\ AfterLogout(q, r)'
  BY <1>3 DEF IInv, AfterRotation, AfterLogout, Rotations, Issued, Unheard, PastStages,
               handlers
<1>9. QED
  BY <1>2, <1>4, <1>5, <1>6, <1>7, <1>8 DEF IInv

\* Nothing moves, and nothing changes.
LEMMA StutterStep ==
  ASSUME IInv, UNCHANGED vars
  PROVE  IInv'
<1>1. UNCHANGED <<tables, process, handlers, bounds>>
  BY DEF vars
<1>2. TypeOK'
  BY <1>1 DEF IInv, TypeOK, tables, process, handlers, bounds
<1>3. Stores'
  BY <1>1 DEF IInv, Stores, IndexAgrees, Held, Known, RefreshUnique, StoresApart,
              Issued, tables, process, handlers
<1>4. \A r \in Requests : Suspended(r)'
  BY <1>1 DEF IInv, Suspended, Presents, Issued, Unheard, handlers
<1>5. \A r \in Requests : RotatingOne(r)' /\ RevokingRows(r)'
  BY <1>1 DEF IInv, RotatingOne, RevokingRows, tables, process, handlers
<1>6. \A r \in Requests : Spent(r)' /\ Dead(r)'
  BY <1>1 DEF IInv, Spent, Dead, Rotations, Issued, Unheard, tables, process, handlers
<1>7. \A q, r \in Requests : AfterRotation(q, r)' /\ AfterLogout(q, r)'
  BY <1>1 DEF IInv, AfterRotation, AfterLogout, Rotations, Issued, Unheard, PastStages,
               handlers
<1>8. QED
  BY <1>2, <1>3, <1>4, <1>5, <1>6, <1>7 DEF IInv

-----------------------------------------------------------------------------
(***************************************************************************)
(* Theorems.                                                               *)
(***************************************************************************)
\* Every step keeps the invariant.
LEMMA NextIInv ==
  IInv /\ [Next]_vars => IInv'
<1> SUFFICES ASSUME IInv, [Next]_vars PROVE IInv'
  OBVIOUS
<1>1. ASSUME NEW r \in Requests, Step(r)
      PROVE  IInv'
  <2>1. CASE SessionQueryFails(r)
    <3>1. SessionStages \in SUBSET (IdentityStages \cup SessionStages)
      OBVIOUS
    <3>2. RerunInMemory(r, SessionStages) /\ fallback' \in BOOLEAN /\ idFallback' \in BOOLEAN
      BY <2>1 DEF SessionQueryFails, IInv, TypeOK
    <3>3. QED
      BY <3>1, <3>2, RerunStep
  <2>2. CASE IdentityQueryFails(r)
    <3>1. IdentityStages \in SUBSET (IdentityStages \cup SessionStages)
      OBVIOUS
    <3>2. RerunInMemory(r, IdentityStages) /\ fallback' \in BOOLEAN /\ idFallback' \in BOOLEAN
      BY <2>2 DEF IdentityQueryFails, IInv, TypeOK
    <3>3. QED
      BY <3>1, <3>2, RerunStep
  <2>3. QED
    BY <1>1, <2>1, <2>2, ReceiveStep, ResolveStep, TouchStep, RegisterStep,
       FindAccountStep, CreateSessionStep, RotateReadStep, RotateWriteStep,
       RotateInMemoryStep, RevokeReadStep, RevokeWriteStep, RevokeInMemoryStep,
       CommitUnheardStep DEF Step
<1>2. CASE Done \/ UNCHANGED vars
  BY <1>2, StutterStep DEF Done
<1>3. QED
  BY <1>1, <1>2, RestartStep, TickStep DEF Next

\* The invariant holds of every state of the specification.
THEOREM Invariance == Spec => []IInv
BY InitIInv, NextIInv, PTL DEF Spec

\* Every variable keeps its type.
THEOREM TypeCorrect == Spec => []TypeOK
<1>1. IInv => TypeOK
  BY DEF IInv
<1>2. QED
  BY <1>1, Invariance, PTL

\* The token maps of the memory store and its sessions agree.
THEOREM IndexCorrect == Spec => []IndexAgrees
<1>1. IInv => IndexAgrees
  BY DEF IInv, Stores
<1>2. QED
  BY <1>1, Invariance, PTL

\* After a logout that succeeded its token leads to revoked sessions only, and serves
\* nobody but the actor of a header.
THEOREM LogoutIsHonoured == Spec => []NoActorAfterLogout
<1>1. IInv => NoActorAfterLogout
  <2> SUFFICES ASSUME IInv, NEW l \in Requests, answer[l] = "revoked"
               PROVE  /\ \A store \in {"db", "memory"} :
                           LET s == ByAccess(store, input[l].token)
                           IN s # NoSession => Read(store, s).revoked
                      /\ \A r \in Requests :
                           /\ l \in earlier[r] /\ input[r].op \in BearerOps
                           /\ input[r].token = input[l].token
                           /\ input[r].header = "anonymous"
                           => answer[r] \in {"none", "unauthenticated"}
    BY DEF NoActorAfterLogout
  <2>1. Dead(l) /\ input[l].op = "logout" /\ input[l] \in Inputs
    BY DEF IInv, Suspended, TypeOK
  <2>2. input[l].token \in Pairs
    BY <2>1 DEF Inputs
  <2>3. ASSUME NEW store \in {"db", "memory"},
               ByAccess(store, input[l].token) # NoSession
        PROVE  Read(store, ByAccess(store, input[l].token)).revoked
    BY <2>1, <2>2, <2>3, FoundByToken, AuthNulls DEF Dead, Read, Pairs
  <2>4. \A r \in Requests : AfterLogout(l, r)
    BY DEF IInv
  <2>5. QED
    BY <2>3, <2>4 DEF AfterLogout
<1>2. QED
  BY <1>1, Invariance, PTL

\* Two rotations that commit with one refresh token were in flight together.
THEOREM RotationIsOnce == Spec => []ReplaysOverlap
<1>1. IInv => ReplaysOverlap
  <2> SUFFICES ASSUME IInv, NEW q \in Rotations, NEW r \in Rotations,
                      input[q].refresh = input[r].refresh
               PROVE  Overlap(q, r)
    BY DEF ReplaysOverlap
  <2>1. q \in Requests /\ r \in Requests
    BY DEF Rotations
  <2>2. AfterRotation(q, r) /\ AfterRotation(r, q)
    BY <2>1 DEF IInv
  <2>3. QED
    BY <2>2 DEF AfterRotation, Rotations, Overlap
<1>2. QED
  BY <1>1, Invariance, PTL

\* No step touches a row that is revoked.
LEMMA RevokedRowsStay ==
  ASSUME IInv, [Next]_vars, NEW s \in Requests, rows[s] # None, rows[s].revoked
  PROVE  rows'[s] = rows[s]
<1>1. stage[s] = "answered" /\ rows \in [Requests -> Session \cup {None}]
  BY DEF IInv, Stores, Held, Suspended, Issued, TypeOK
<1>2. ASSUME NEW r \in Requests, NEW pair, rows' = RotateInto(r, pair)
      PROVE  rows'[s] = rows[s]
  <2>1. s \notin RotateRows(r)
    BY DEF RotateRows
  <2>2. QED
    BY <1>2, <2>1 DEF RotateInto
<1>3. ASSUME NEW r \in Requests, rows' = Revoked(r)
      PROVE  rows'[s] = rows[s]
  BY <1>3, RevokedRows
<1>4. ASSUME NEW r \in Requests, Step(r), rows' # rows
      PROVE  rows'[s] = rows[s]
  <2>1. CASE CreateSession(r)
    BY <1>1, <1>4, <2>1 DEF CreateSession
  <2>2. CASE RotateWrite(r) \/ RevokeWrite(r) \/ CommitUnheard(r)
    <3>1. \/ rows' = RotateInto(r, r) \/ rows' = RotateInto(r, NoPair)
          \/ rows' = Revoked(r)
      BY <1>4, <2>2 DEF RotateWrite, RevokeWrite, CommitUnheard
    <3>2. QED
      BY <1>2, <1>3, <3>1
  <2>3. QED
    BY <1>4, <2>1, <2>2
       DEF Step, Receive, Resolve, Touch, Register, FindAccount, RotateRead,
           RotateInMemory, RevokeRead, RevokeInMemory, SessionQueryFails,
           IdentityQueryFails, RerunInMemory, tables
<1>5. CASE Restart \/ Tick \/ Done \/ UNCHANGED vars
  BY <1>5 DEF Restart, Tick, Done, vars, tables
<1>6. QED
  BY <1>4, <1>5 DEF Next

\* A revoked session stays revoked with the tokens it had.
THEOREM RevocationIsFinal == Spec => RevokedStaysRevoked
<1>1. IInv /\ [Next]_vars =>
        [\A s \in Requests :
           rows[s] # None /\ rows[s].revoked => rows'[s] = rows[s]]_vars
  BY RevokedRowsStay
<1>2. QED
  BY <1>1, Invariance, PTL DEF Spec, RevokedStaysRevoked

-----------------------------------------------------------------------------
(***************************************************************************)
(* Pairs of one session: which request overtook which.                     *)
(***************************************************************************)
\* A pair is written whole; a session is in one store; the request that minted the
\* pair of a session has read that session.
PairsOfOne ==
  \A s \in Requests :
    /\ rows[s] # None =>
         /\ rows[s].access = rows[s].refresh
         /\ rows[s].access = NoPair \/ seen[rows[s].access].id = s
    /\ memory[s] # None =>
         memory[s].access = memory[s].refresh /\ seen[memory[s].access].id = s
    /\ rows[s] = None \/ memory[s] = None

\* Whoever was answered with tokens or with a revocation, or has rotated unheard,
\* knows the session, and its login was answered.
Opener(p) ==
  Issued(p) \/ answer[p] = "revoked" \/ Unheard(p) =>
    seen[p] # None /\ Issued(seen[p].id)

\* A rotation that is about to write replaces its own token, or one that came while
\* it was in flight.
Overtaken(r) ==
  stage[r] = "rotating" =>
    \/ rows[seen[r].id].access = input[r].refresh
    \/ rows[seen[r].id].access \notin earlier[r]

\* A revocation that is about to write finds its token in the row it has read, or a
\* rotation of that session has come while it was in flight.
Leaving(l) ==
  stage[l] = "revoking" =>
    /\ seen[l] # None /\ rows[seen[l].id] # None
    /\ \/ rows[seen[l].id].access = input[l].token
       \/ \E r \in Rotations : seen[r].id = seen[l].id /\ r \notin earlier[l]

\* LogoutMissesOnlyOverlap of one logout.
Missed(l) ==
  answer[l] = "revoked" /\ rows[seen[l].id] # None =>
    \/ rows[seen[l].id].revoked
    \/ \E r \in Rotations : r # l /\ seen[r].id = seen[l].id /\ Overlap(l, r)

\* TokensDieByRotation of one pair.
Replaced(p) ==
  Issued(p) /\ rows[seen[p].id] # None /\ rows[seen[p].id].access # p =>
    \E r \in Rotations :
      /\ r # p /\ seen[r].id = seen[p].id
      /\ input[r].refresh = p \/ Overlap(p, r)

Lineage ==
  /\ PairsOfOne
  /\ \A r \in Requests :
       Opener(r) /\ Overtaken(r) /\ Leaving(r) /\ Missed(r) /\ Replaced(r)

\* The session s has the pair of r, who has just been answered with it.
Minted(r, s, session) ==
  /\ session.access = r /\ session.refresh = r
  /\ answer'[r] = "issued" /\ seen'[r] # None /\ seen'[r].id = s
  /\ input'[r] = input[r] /\ earlier'[r] = earlier[r]

\* The session s has lost its pair to a rotation of r that nobody has heard of.
Severed(r, s, session) ==
  /\ session.access = NoPair /\ session.refresh = NoPair
  /\ Unheard(r)' /\ seen'[r].id = s
  /\ input'[r] = input[r] /\ earlier'[r] = earlier[r]

SamePair(old, new) == new.access = old.access /\ new.refresh = old.refresh

\* What a step of r may do to the row s.
RowFollows(r, s) ==
  \/ rows'[s] = rows[s]
  \/ /\ rows[s] # None /\ rows'[s] # None
     /\ SamePair(rows[s], rows'[s])
  \/ /\ rows[s] = None /\ rows'[s] # None
     /\ s = r /\ Minted(r, s, rows'[s])
  \/ /\ rows[s] # None /\ rows'[s] # None
     /\ input[r].op = "refresh"
     /\ Minted(r, s, rows'[s]) \/ Severed(r, s, rows'[s])
     /\ rows[s].access = input[r].refresh \/ rows[s].access \notin earlier[r]

\* And to the session s of the memory store.
MemoryFollows(r, s) ==
  \/ memory'[s] = memory[s]
  \/ /\ memory[s] # None /\ memory'[s] # None
     /\ SamePair(memory[s], memory'[s])
  \/ /\ memory[s] # None \/ s = r
     /\ memory'[s] # None /\ Minted(r, s, memory'[s])

StoresFollow(r) ==
  /\ \A s \in Requests : RowFollows(r, s) /\ MemoryFollows(r, s)
  /\ \A s \in Requests : rows[s] # None /\ rows[s].revoked => rows'[s] = rows[s]
  /\ rows' = rows \/ memory' = memory

\* A request whose rotation has committed unheard goes on without another.
Stands(r) ==
  Unheard(r) =>
    input'[r] = input[r] /\ seen'[r] = seen[r] /\ earlier'[r] = earlier[r]

\* Who opened a session, and with what, is on record for every token in a store.
LEMMA OnRecord ==
  ASSUME IInv, Lineage, NEW s \in Requests
  PROVE  /\ rows[s] # None =>
              /\ rows[s] \in Session /\ answer[s] = "issued" /\ stage[s] = "answered"
              /\ \/ rows[s].access = NoPair
                 \/ /\ rows[s].access \in Requests
                    /\ answer[rows[s].access] = "issued"
                    /\ stage[rows[s].access] = "answered"
                    /\ seen[rows[s].access].id = s
              /\ rows[s].refresh = rows[s].access
              /\ memory[s] = None
         /\ memory[s] # None =>
              /\ memory[s] \in Session /\ answer[s] = "issued" /\ stage[s] = "answered"
              /\ memory[s].access \in Requests
              /\ answer[memory[s].access] = "issued"
              /\ stage[memory[s].access] = "answered"
              /\ memory[s].refresh = memory[s].access /\ seen[memory[s].access].id = s
              /\ rows[s] = None
<1>1. /\ rows[s] # None => rows[s] \in Session
      /\ memory[s] # None => memory[s] \in Session
  BY DEF IInv, TypeOK
<1>2. \A q \in Requests : answer[q] = "issued" => stage[q] = "answered"
  BY DEF IInv, Suspended
<1>3. QED
  BY <1>1, <1>2 DEF IInv, Stores, Held, Known, Issued, Lineage, PairsOfOne

\* The session of an issued pair is one that was opened.
LEMMA OpenerType ==
  ASSUME IInv, NEW p \in Requests, seen[p] # None
  PROVE  seen[p].id \in Requests
BY DEF IInv, TypeOK, Seen

\* A step that follows leaves every pair whole, in one store and on record.
LEMMA PairsFollow ==
  ASSUME IInv, Lineage, NEW r \in Requests, stage[r] \notin {"answered", "lost"}, OthersWait(r),
         StoresFollow(r)
  PROVE  PairsOfOne'
<1> SUFFICES ASSUME NEW s \in Requests
             PROVE  /\ rows'[s] # None =>
                         /\ rows'[s].access = rows'[s].refresh
                         /\ rows'[s].access = NoPair \/ seen'[rows'[s].access].id = s
                    /\ memory'[s] # None =>
                         /\ memory'[s].access = memory'[s].refresh
                         /\ seen'[memory'[s].access].id = s
                    /\ rows'[s] = None \/ memory'[s] = None
  BY DEF PairsOfOne
<1>1. RowFollows(r, s) /\ MemoryFollows(r, s) /\ (rows' = rows \/ memory' = memory)
  BY DEF StoresFollow
<1>2. answer[r] # "issued"
  BY Unanswered
<1>3. \A q \in Requests : answer[q] = "issued" => seen'[q] = seen[q]
  BY <1>2 DEF OthersWait
<1>4. rows'[s] # None =>
        /\ rows'[s].access = rows'[s].refresh
        /\ rows'[s].access = NoPair \/ seen'[rows'[s].access].id = s
  BY <1>1, <1>3, OnRecord DEF RowFollows, Minted, Severed, SamePair
<1>5. memory'[s] # None =>
        memory'[s].access = memory'[s].refresh /\ seen'[memory'[s].access].id = s
  BY <1>1, <1>3, OnRecord DEF MemoryFollows, Minted, SamePair
<1>6. rows'[s] = None \/ memory'[s] = None
  <2>1. s = r => rows[s] = None /\ memory[s] = None
    BY Unanswered
  <2>2. CASE rows' = rows
    BY <1>1, <2>1, <2>2, OnRecord DEF MemoryFollows
  <2>3. CASE memory' = memory
    BY <1>1, <2>1, <2>3, OnRecord DEF RowFollows
  <2>4. QED
    BY <1>1, <2>2, <2>3
<1>7. QED
  BY <1>4, <1>5, <1>6

\* A rotation that has committed stays one, of the same session, and goes on
\* overlapping with whom it overlapped.
LEMMA RotationsStay ==
  ASSUME IInv, NEW r \in Requests, stage[r] \notin {"answered", "lost"}, OthersWait(r),
         Stands(r), NEW q \in Rotations
  PROVE  /\ q \in Requests /\ q \in Rotations'
         /\ seen'[q] = seen[q] /\ input'[q] = input[q] /\ earlier'[q] = earlier[q]
<1>1. q \in Requests /\ (q = r => Unheard(q))
  BY Unanswered DEF Rotations
<1>2. seen'[q] = seen[q] /\ input'[q] = input[q] /\ earlier'[q] = earlier[q]
  BY <1>1 DEF OthersWait, Stands
<1>3. q # r => answer'[q] = answer[q]
  BY <1>1 DEF OthersWait
<1>4. QED
  BY <1>1, <1>2, <1>3 DEF Rotations, Unheard, Issued

\* A step that follows disturbs nothing of what is said of the other requests.
LEMMA OthersFollow ==
  ASSUME IInv, Lineage, NEW r \in Requests, stage[r] \notin {"answered", "lost"}, OthersWait(r),
         Stands(r), StoresFollow(r), NEW q \in Requests \ {r}
  PROVE  (Opener(q) /\ Overtaken(q) /\ Leaving(q) /\ Missed(q) /\ Replaced(q))'
<1>1. /\ Opener(q) /\ Overtaken(q) /\ Leaving(q) /\ Missed(q) /\ Replaced(q)
      /\ Suspended(q) /\ RotatingOne(q) /\ earlier[q] \subseteq Requests
  BY DEF Lineage, IInv, TypeOK
<1>2. /\ input'[q] = input[q] /\ stage'[q] = stage[q] /\ seen'[q] = seen[q]
      /\ answer'[q] = answer[q] /\ earlier'[q] = earlier[q]
  BY DEF OthersWait
<1>3. /\ answer[r] = "none" /\ \A p \in Requests : r \notin earlier[p]
      /\ rows[r] = None
  BY Unanswered
<1>4. \A p \in Requests : answer[p] = "issued" => p # r /\ answer'[p] = "issued"
  BY <1>3 DEF OthersWait
<1>5. seen[q] # None => seen[q].id \in Requests
  BY OpenerType
<1>6. Opener(q)'
  BY <1>1, <1>2, <1>4, <1>5 DEF Opener, Issued, Unheard
<1>7. \A s \in Requests : RowFollows(r, s)
  BY DEF StoresFollow
<1>8. ASSUME NEW s \in Requests, rows[s] # None
      PROVE  /\ rows'[s] # None
             /\ \/ rows'[s].access = rows[s].access
                \/ /\ rows'[s].access \in {r, NoPair}
                   /\ r \in Rotations' /\ seen'[r].id = s
                   /\ input'[r] = input[r] /\ earlier'[r] = earlier[r]
                   /\ rows[s].access = input[r].refresh \/ rows[s].access \notin earlier[r]
  BY <1>7, <1>8 DEF RowFollows, Minted, Severed, SamePair, Rotations, Issued
<1>9. Overtaken(q)'
  <2> SUFFICES ASSUME stage[q] = "rotating"
               PROVE  \/ rows'[seen[q].id].access = input[q].refresh
                      \/ rows'[seen[q].id].access \notin earlier[q]
    BY <1>2 DEF Overtaken
  <2>1. seen[q].id \in Requests /\ rows[seen[q].id] # None
    BY <1>1, <1>5 DEF Suspended, RotatingOne
  <2>2. rows'[seen[q].id].access \in {rows[seen[q].id].access, r, NoPair}
    BY <1>8, <2>1
  <2>3. NoPair \notin earlier[q]
    BY <1>1, AuthNulls
  <2>4. QED
    BY <1>1, <1>3, <2>2, <2>3 DEF Overtaken
<1>10. Leaving(q)'
  <2> SUFFICES ASSUME stage[q] = "revoking"
               PROVE  /\ seen[q] # None /\ rows'[seen[q].id] # None
                      /\ \/ rows'[seen[q].id].access = input[q].token
                         \/ \E p \in Rotations' :
                              seen'[p].id = seen[q].id /\ p \notin earlier[q]
    BY <1>2 DEF Leaving
  <2>1. /\ seen[q] # None /\ seen[q].id \in Requests /\ rows[seen[q].id] # None
        /\ \/ rows[seen[q].id].access = input[q].token
           \/ \E p \in Rotations : seen[p].id = seen[q].id /\ p \notin earlier[q]
    BY <1>1, <1>5 DEF Leaving
  <2>2. rows'[seen[q].id] # None
    BY <1>8, <2>1
  <2>3. CASE rows[seen[q].id].access = input[q].token
    BY <1>3, <1>8, <2>1, <2>2, <2>3
  <2>4. ASSUME NEW p \in Rotations, seen[p].id = seen[q].id, p \notin earlier[q]
        PROVE  \E o \in Rotations' : seen'[o].id = seen[q].id /\ o \notin earlier[q]
    BY <2>4, RotationsStay
  <2>5. QED
    BY <2>1, <2>2, <2>3, <2>4
<1>11. Missed(q)'
  <2> SUFFICES ASSUME answer[q] = "revoked", rows'[seen[q].id] # None
               PROVE  \/ rows'[seen[q].id].revoked
                      \/ \E p \in Rotations' : /\ p # q /\ seen'[p].id = seen[q].id
                                               /\ Overlap(q, p)'
    BY <1>2 DEF Missed
  <2>1. seen[q].id \in Requests /\ answer[seen[q].id] = "issued"
    BY <1>1, <1>5 DEF Opener, Issued
  <2>2. rows[seen[q].id] # None
    BY <1>4, <1>7, <2>1 DEF RowFollows
  <2>3. CASE rows[seen[q].id].revoked
    BY <2>1, <2>2, <2>3 DEF StoresFollow
  <2>4. ASSUME NEW p \in Rotations, p # q, seen[p].id = seen[q].id, Overlap(q, p)
        PROVE  \E o \in Rotations' : o # q /\ seen'[o].id = seen[q].id /\ Overlap(q, o)'
    <3>1. p \in Rotations' /\ seen'[p].id = seen[q].id /\ Overlap(q, p)'
      BY <1>2, <2>4, RotationsStay DEF Overlap
    <3>2. QED
      BY <2>4, <3>1
  <2>5. QED
    BY <1>1, <2>2, <2>3, <2>4 DEF Missed
<1>12. Replaced(q)'
  <2> SUFFICES ASSUME answer[q] = "issued", rows'[seen[q].id] # None,
                      rows'[seen[q].id].access # q
               PROVE  \E p \in Rotations' :
                        /\ p # q /\ seen'[p].id = seen[q].id
                        /\ input'[p].refresh = q \/ Overlap(q, p)'
    BY <1>2 DEF Replaced, Issued
  <2> DEFINE s == seen[q].id
  <2>1. s \in Requests /\ answer[s] = "issued"
    BY <1>1, <1>5 DEF Opener, Issued
  <2>2. rows[s] # None
    BY <1>4, <1>7, <2>1 DEF RowFollows
  <2>3. CASE rows[s].access # q
    <3>1. PICK p \in Rotations :
            /\ p # q /\ seen[p].id = seen[q].id
            /\ input[p].refresh = q \/ Overlap(q, p)
      BY <1>1, <2>2, <2>3 DEF Replaced, Issued
    <3>2. /\ p \in Rotations' /\ seen'[p].id = seen[q].id
          /\ input'[p].refresh = q \/ Overlap(q, p)'
      BY <1>2, <3>1, RotationsStay DEF Overlap
    <3>3. QED
      BY <3>1, <3>2
  <2>4. CASE rows[s].access = q
    <3>1. /\ r \in Rotations' /\ seen'[r].id = s
          /\ input'[r] = input[r] /\ earlier'[r] = earlier[r]
          /\ input[r].refresh = q \/ q \notin earlier[r]
      BY <1>8, <2>1, <2>2, <2>4
    <3>2. r # q /\ r \notin earlier'[q]
      BY <1>2, <1>3
    <3>3. QED
      BY <3>1, <3>2 DEF Overlap
  <2>5. QED
    BY <2>3, <2>4
<1>13. QED
  BY <1>6, <1>9, <1>10, <1>11, <1>12

\* A step of r keeps what is said of pairs when it keeps it of r.
LEMMA LineageStep ==
  ASSUME IInv, Lineage, NEW r \in Requests, stage[r] \notin {"answered", "lost"}, OthersWait(r),
         Stands(r), StoresFollow(r),
         (Opener(r) /\ Overtaken(r) /\ Leaving(r) /\ Missed(r) /\ Replaced(r))'
  PROVE  Lineage'
BY PairsFollow, OthersFollow DEF Lineage

\* A step that leaves the stores alone, and does not answer with tokens or with a
\* revocation.
LEMMA QuietLineage ==
  ASSUME IInv, Lineage, NEW r \in Requests, stage[r] \notin {"answered", "lost"}, OthersWait(r),
         Stands(r), rows' = rows, memory' = memory, answer'[r] \notin {"issued", "revoked"},
         Unheard(r)' => Unheard(r), Overtaken(r)', Leaving(r)'
  PROVE  Lineage'
<1>1. StoresFollow(r)
  BY DEF StoresFollow, RowFollows, MemoryFollows
<1>2. Missed(r)' /\ Replaced(r)'
  BY DEF Missed, Replaced, Issued
<1>3. Opener(r)'
  <2> SUFFICES ASSUME Unheard(r)
               PROVE  seen'[r] # None /\ answer'[seen'[r].id] = "issued"
    BY DEF Opener, Issued
  <2>1. /\ seen'[r] = seen[r] /\ seen[r] # None
        /\ Issued(seen[r].id) /\ seen[r].id \in Requests
    BY OpenerType DEF Lineage, Opener, Stands, Unheard
  <2>2. answer'[seen[r].id] = "issued"
    BY <2>1, Unanswered DEF OthersWait, Issued
  <2>3. QED
    BY <2>1, <2>2
<1>4. QED
  BY <1>1, <1>2, <1>3, LineageStep

\* Who has committed a rotation unheard finds nothing more under its token.
LEMMA UnheardStands ==
  ASSUME IInv, NEW r \in Requests, Step(r)
  PROVE  Stands(r)
<1> SUFFICES ASSUME Unheard(r)
             PROVE  input'[r] = input[r] /\ seen'[r] = seen[r] /\ earlier'[r] = earlier[r]
  BY DEF Stands
<1>1. /\ Suspended(r) /\ Spent(r) /\ TypeOK /\ IndexAgrees
      /\ stage[r] \in {"rotated", "rotate", "answered", "lost"}
      /\ input[r].op = "refresh" /\ r \in Rotations
  BY DEF IInv, Stores, Suspended, Rotations
<1>2. input[r].refresh \in Requests
  BY <1>1 DEF TypeOK, Inputs, Pairs
<1>3. CASE RotateRead(r)
  <2>1. ByRefresh("db", input[r].refresh) = NoSession
    BY <1>1, <1>2, FoundByToken, AuthNulls DEF Spent, Read
  <2>2. Answer(r, "notIssued") /\ seen' = seen
    BY <1>3, <2>1 DEF RotateRead, Rotatable
  <2>3. QED
    BY <2>2 DEF Answer
<1>4. CASE RotateInMemory(r)
  <2>1. byRefresh[input[r].refresh] = NoSession
    BY <1>1, <1>2 DEF Spent, IndexAgrees, TypeOK, Pairs
  <2>2. Answer(r, "notIssued") /\ seen' = seen
    BY <1>4, <2>1 DEF RotateInMemory, Rotatable
  <2>3. QED
    BY <2>2 DEF Answer
<1>5. CASE SessionQueryFails(r) \/ IdentityQueryFails(r)
  BY <1>5 DEF SessionQueryFails, IdentityQueryFails, RerunInMemory
<1>6. QED
  BY <1>1, <1>3, <1>4, <1>5
     DEF Step, Receive, Resolve, Touch, Register, FindAccount, CreateSession, RotateWrite,
         RevokeRead, RevokeWrite, RevokeInMemory, CommitUnheard, SessionQueryFails,
         IdentityQueryFails, RerunInMemory, SessionStages, IdentityStages

\* A request takes a step of its own, and only before its answer.
LEMMA StepWaits ==
  ASSUME IInv, NEW r \in Requests, Step(r)
  PROVE  OthersWait(r) /\ stage[r] \notin {"answered", "lost"}
<1>1. TypeOK
  BY DEF IInv
<1>2. ASSUME NEW a, Answer(r, a)
      PROVE  \A q \in Requests \ {r} :
               /\ input'[q] = input[q] /\ stage'[q] = stage[q]
               /\ answer'[q] = answer[q] /\ earlier'[q] = earlier[q]
  BY <1>1, <1>2 DEF TypeOK, Answer
<1>3. ASSUME NEW a, Goto(r, a)
      PROVE  \A q \in Requests \ {r} :
               /\ input'[q] = input[q] /\ stage'[q] = stage[q]
               /\ answer'[q] = answer[q] /\ earlier'[q] = earlier[q]
  BY <1>1, <1>3 DEF TypeOK, Goto
<1>4. ASSUME NEW a, Continue(r, a)
      PROVE  \A q \in Requests \ {r} :
               /\ input'[q] = input[q] /\ stage'[q] = stage[q]
               /\ answer'[q] = answer[q] /\ earlier'[q] = earlier[q]
  BY <1>1, <1>4 DEF TypeOK, Continue
<1>5. CASE Receive(r)
  BY <1>1, <1>5 DEF Receive, TypeOK, OthersWait
<1>6. CASE Resolve(r) \/ Touch(r)
  <2>1. \/ Answer(r, "unauthenticated") \/ Answer(r, "forbidden") \/ Answer(r, "actor")
        \/ Goto(r, "rotate") \/ Goto(r, "revoke") \/ Goto(r, "touch")
    BY <1>6 DEF Resolve, Touch, Dispatch
  <2>2. QED
    BY <1>1, <1>2, <1>3, <1>6, <2>1 DEF Resolve, Touch, TypeOK, OthersWait
<1>7. CASE Register(r)
  <2>1. \/ Answer(r, "registered") \/ Answer(r, "conflict")
        \/ UNCHANGED <<input, stage, answer, earlier>>
    BY <1>7 DEF Register
  <2>2. QED
    BY <1>1, <1>2, <1>7, <2>1 DEF Register, OthersWait
<1>8. CASE FindAccount(r)
  BY <1>1, <1>2, <1>3, <1>8 DEF FindAccount, TypeOK, OthersWait
<1>9. CASE CreateSession(r)
  BY <1>1, <1>2, <1>9 DEF CreateSession, TypeOK, OthersWait
<1>10. CASE RotateRead(r)
  BY <1>1, <1>2, <1>4, <1>10 DEF RotateRead, TypeOK, OthersWait
<1>11. CASE RotateWrite(r)
  BY <1>1, <1>2, <1>11 DEF RotateWrite, OthersWait
<1>12. CASE RotateInMemory(r)
  BY <1>1, <1>2, <1>12 DEF RotateInMemory, TypeOK, OthersWait
<1>13. CASE RevokeRead(r)
  BY <1>1, <1>2, <1>4, <1>13 DEF RevokeRead, TypeOK, OthersWait
<1>14. CASE RevokeWrite(r)
  BY <1>1, <1>2, <1>14 DEF RevokeWrite, OthersWait
<1>15. CASE RevokeInMemory(r)
  BY <1>1, <1>2, <1>15 DEF RevokeInMemory, TypeOK, OthersWait
<1>16. CASE CommitUnheard(r)
  <2>1. /\ Continue(r, "inserted") \/ Continue(r, "rotated") \/ Continue(r, "revoked")
        /\ \A q \in Requests \ {r} : seen'[q] = seen[q]
        /\ account' = account /\ stage[r] \in {"insert", "rotating", "revoking"}
    BY <1>1, <1>16 DEF CommitUnheard, TypeOK
  <2>2. QED
    BY <1>4, <2>1 DEF OthersWait
<1>17. CASE SessionQueryFails(r) \/ IdentityQueryFails(r)
  BY <1>1, <1>17 DEF SessionQueryFails, IdentityQueryFails, RerunInMemory, TypeOK,
     OthersWait, SessionStages, IdentityStages
<1>18. QED
  BY <1>5, <1>6, <1>7, <1>8, <1>9, <1>10, <1>11, <1>12, <1>13, <1>14, <1>15, <1>16, <1>17
     DEF Step

\* A request that goes anywhere but to a write has nothing to say of pairs.
LEMMA Elsewhere ==
  ASSUME NEW r \in Requests, stage'[r] \notin {"rotating", "revoking"}
  PROVE  Overtaken(r)' /\ Leaving(r)'
BY DEF Overtaken, Leaving

\* Nothing is said yet of a request that has only arrived.
LEMMA ReceiveLineage ==
  ASSUME IInv, Lineage, NEW r \in Requests, Receive(r)
  PROVE  Lineage'
<1>1. /\ OthersWait(r) /\ Stands(r) /\ stage[r] = "idle"
      /\ answer' = answer /\ answer[r] = "none" /\ seen' = seen
  BY StepWaits, UnheardStands, Unanswered DEF Step, Receive
<1>2. rows' = rows /\ memory' = memory
  BY DEF Receive, tables, process
<1>3. stage'[r] \in {"insert", "find", "resolve"}
  BY DEF Receive, FirstStage, IInv, TypeOK
<1>4. Unheard(r)' => Unheard(r)
  BY <1>1 DEF Unheard
<1>5. QED
  BY <1>1, <1>2, <1>3, <1>4, Elsewhere, QuietLineage

\* Finding a session disturbs none.
LEMMA ResolveLineage ==
  ASSUME IInv, Lineage, NEW r \in Requests, Resolve(r)
  PROVE  Lineage'
<1> DEFINE s == ByAccess(at[r], input[r].token)
<1>1. /\ OthersWait(r) /\ Stands(r) /\ stage[r] = "resolve" /\ answer[r] = "none"
      /\ TypeOK /\ Suspended(r)
  BY StepWaits, UnheardStands, Unanswered DEF Step, Resolve, IInv
<1>2. rows' = rows /\ memory' = memory
  BY DEF Resolve, tables, process
<1>3. input[r].op \in BearerOps /\ input[r].token \in Requests /\ input[r].header \in Actors
  BY <1>1 DEF Suspended, TypeOK, Inputs, Pairs, BearerOps
<1>4. CASE s = NoSession
  <2>1. Dispatch(r, input[r].header) /\ seen' = seen
    BY <1>4 DEF Resolve
  <2>2. /\ stage'[r] \in {"answered", "rotate", "revoke"}
        /\ answer'[r] \notin {"issued", "revoked"}
    BY <1>1, <1>3, <2>1, DispatchEffect
  <2>3. Unheard(r)' => Unheard(r)
    BY <2>1 DEF Unheard
  <2>4. QED
    BY <1>1, <1>2, <2>2, <2>3, Elsewhere, QuietLineage
<1>5. CASE s # NoSession
  <2>1. /\ seen' = [seen EXCEPT ![r] = [id |-> s, session |-> Read(at[r], s)]]
        /\ Goto(r, "touch")
    BY <1>5 DEF Resolve
  <2>2. answer' = answer /\ stage'[r] = "touch"
    BY <1>1, <2>1, GotoEffect DEF SessionStages
  <2>3. at[r] \in {"db", "memory"}
    BY <1>1 DEF TypeOK
  <2>4. Read(at[r], s).access \in Requests
    BY <1>3, <1>5, <2>3, FoundByToken
  <2> HIDE DEF s
  <2>5. ~Unheard(r)'
    BY <1>1, <2>1, <2>4, NotUnheard DEF TypeOK
  <2>6. QED
    BY <1>1, <1>2, <2>2, <2>5, Elsewhere, QuietLineage
<1>6. QED
  BY <1>4, <1>5

\* Past the middleware nothing is written yet.
LEMMA TouchLineage ==
  ASSUME IInv, Lineage, NEW r \in Requests, Touch(r)
  PROVE  Lineage'
<1>1. /\ OthersWait(r) /\ Stands(r) /\ stage[r] = "touch" /\ answer[r] = "none" /\ TypeOK
  BY StepWaits, UnheardStands, Unanswered DEF Step, Touch, IInv
<1>2. rows' = rows /\ memory' = memory
  BY DEF Touch, tables, process
<1>3. PICK actor \in Actors : Dispatch(r, actor)
  BY DEF Touch, ActorOf, Actors
<1>4. /\ stage'[r] \in {"answered", "rotate", "revoke"}
      /\ answer'[r] \notin {"issued", "revoked"}
  BY <1>1, <1>3, DispatchEffect
<1>5. seen'[r] \in {None, seen[r]}
  BY <1>1 DEF Touch, TypeOK
<1>6. Unheard(r)' => Unheard(r)
  BY <1>5 DEF Unheard
<1>7. QED
  BY <1>1, <1>2, <1>4, <1>6, Elsewhere, QuietLineage

\* Accounts have no tokens.
LEMMA AccountLineage ==
  ASSUME IInv, Lineage, NEW r \in Requests, Register(r) \/ FindAccount(r)
  PROVE  Lineage'
<1>1. /\ OthersWait(r) /\ Stands(r) /\ stage[r] \in {"insert", "find"} /\ answer[r] = "none"
      /\ TypeOK
  BY StepWaits, UnheardStands, Unanswered DEF Step, Register, FindAccount, IInv
<1>2. rows' = rows /\ memory' = memory /\ seen' = seen
  BY DEF Register, FindAccount, tables, process
<1>3. \/ Answer(r, "conflict") \/ Answer(r, "registered") \/ Answer(r, "refused")
      \/ Goto(r, "create") \/ UNCHANGED <<stage, answer>>
  BY DEF Register, FindAccount
<1>4. /\ stage'[r] \in {"answered", "create", "insert", "find"}
      /\ answer'[r] \notin {"issued", "revoked"}
  BY <1>1, <1>3, AnswerEffect, GotoEffect DEF Answers, SessionStages
<1>5. Unheard(r)' => Unheard(r)
  BY <1>2 DEF Unheard
<1>6. QED
  BY <1>1, <1>2, <1>4, <1>5, Elsewhere, QuietLineage

\* Tokens are answered to whoever has opened the session or rotated it.
LEMMA IssuedLineage ==
  ASSUME IInv, Lineage, NEW r \in Requests, stage[r] \notin {"answered", "lost"}, OthersWait(r),
         Stands(r), StoresFollow(r), answer'[r] = "issued", stage'[r] = "answered",
         NEW s \in Requests, answer[s] = "issued" \/ s = r,
         seen'[r] # None, seen'[r].id = s, rows'[s] = None \/ rows'[s].access = r
  PROVE  Lineage'
<1>1. s # r => answer'[s] = "issued"
  BY DEF OthersWait
<1>2. (Opener(r) /\ Replaced(r))'
  BY <1>1 DEF Opener, Replaced, Issued
<1>3. (Overtaken(r) /\ Leaving(r) /\ Missed(r))'
  BY DEF Overtaken, Leaving, Missed
<1>4. QED
  BY <1>2, <1>3, LineageStep

\* A login opens a session that nobody had.
LEMMA CreateSessionLineage ==
  ASSUME IInv, Lineage, NEW r \in Requests, CreateSession(r)
  PROVE  Lineage'
<1> DEFINE new == Fresh(r, account[r])
<1>1. /\ TypeOK /\ Suspended(r) /\ stage[r] = "create" /\ OthersWait(r)
      /\ Stands(r) /\ Answer(r, "issued")
      /\ seen' = [seen EXCEPT ![r] = [id |-> r, session |-> new]]
      /\ \/ rows' = [rows EXCEPT ![r] = new] /\ memory' = memory
         \/ Index(r, new) /\ rows' = rows
  BY StepWaits, UnheardStands DEF IInv, Step, CreateSession
<1>2. rows[r] = None /\ memory[r] = None
  BY <1>1, Unanswered
<1>3. account[r] \in Users /\ input[r].op = "login"
  BY <1>1 DEF Suspended, TypeOK
<1>4. /\ new \in Session /\ new # None /\ [id |-> r, session |-> new] # None
      /\ new.access = r /\ new.refresh = r
  BY <1>1, <1>3, SessionValues DEF Fresh
<1> HIDE DEF new
<1>5. /\ input' = input /\ earlier' = earlier
      /\ stage'[r] = "answered" /\ answer'[r] = "issued"
  BY <1>1, AnswerEffect DEF Answers
<1>6. seen'[r] # None /\ seen'[r].id = r
  BY <1>1, <1>4 DEF TypeOK
<1>7. \/ rows' = [rows EXCEPT ![r] = new] /\ memory' = memory
      \/ memory' = [memory EXCEPT ![r] = new] /\ rows' = rows
  BY <1>1 DEF Index
<1>8. rows'[r] = None \/ rows'[r].access = r
  BY <1>1, <1>2, <1>4, <1>7 DEF TypeOK
<1>9. StoresFollow(r)
  <2>1. \A s \in Requests : RowFollows(r, s) /\ MemoryFollows(r, s)
    BY <1>1, <1>2, <1>4, <1>5, <1>6, <1>7 DEF RowFollows, MemoryFollows, Minted, TypeOK
  <2>2. \A s \in Requests : rows[s] # None => rows'[s] = rows[s]
    BY <1>1, <1>2, <1>7 DEF TypeOK
  <2>3. QED
    BY <1>7, <2>1, <2>2 DEF StoresFollow
<1>10. QED
  BY <1>1, <1>5, <1>6, <1>8, <1>9, IssuedLineage

\* What a rotation reads is its own token.
LEMMA RotateReadLineage ==
  ASSUME IInv, Lineage, NEW r \in Requests, RotateRead(r)
  PROVE  Lineage'
<1> DEFINE s == ByRefresh("db", input[r].refresh)
           new == Rotated(r, rows[s])
<1>1. /\ TypeOK /\ Suspended(r) /\ stage[r] = "rotate" /\ OthersWait(r)
      /\ answer[r] = "none" /\ Stands(r)
  BY StepWaits, UnheardStands, Unanswered DEF IInv, Step, RotateRead
<1>2. rows' = rows /\ memory' = memory
  BY DEF RotateRead, tables, process
<1>3. input[r].op = "refresh" /\ input[r].refresh \in Requests
  BY <1>1 DEF Suspended, TypeOK, Inputs, Pairs
<1>4. s # NoSession =>
        /\ s \in Requests /\ rows[s] \in Session /\ rows[s] # None
        /\ rows[s].refresh = input[r].refresh
  BY <1>3, FoundByToken, AuthNulls DEF Read
<1>5. CASE ~Rotatable(s, "db")
  <2>1. Answer(r, "notIssued") /\ seen' = seen
    BY <1>5 DEF RotateRead
  <2>2. stage'[r] = "answered" /\ answer'[r] = "notIssued"
    BY <1>1, <2>1, AnswerEffect DEF Answers
  <2>3. Unheard(r)' => Unheard(r)
    BY <2>1 DEF Unheard
  <2>4. QED
    BY <1>1, <1>2, <2>2, <2>3, Elsewhere, QuietLineage
<1>6. CASE Rotatable(s, "db")
  <2>1. /\ s # NoSession
        /\ seen' = [seen EXCEPT ![r] = [id |-> s, session |-> new]]
        /\ Continue(r, "rotating")
    BY <1>6 DEF RotateRead, Rotatable
  <2>2. new.access \in Requests
    BY <1>1, <1>4, <2>1, SessionValues
  <2> HIDE DEF s, new
  <2>3. seen'[r].id = s
    BY <1>1, <2>1 DEF TypeOK
  <2>4. rows[s].access = input[r].refresh
    BY <1>4, <2>1, OnRecord
  <2>5. input' = input /\ answer' = answer /\ stage'[r] = "rotating"
    BY <1>1, <2>1 DEF Continue, TypeOK
  <2>6. Overtaken(r)' /\ Leaving(r)'
    BY <1>2, <1>1, <1>3, <2>3, <2>4, <2>5 DEF Overtaken, Leaving
  <2>7. ~Unheard(r)'
    BY <1>1, <2>1, <2>2, NotUnheard DEF TypeOK
  <2>8. QED
    BY <1>1, <1>2, <2>5, <2>6, <2>7, QuietLineage
<1>7. QED
  BY <1>5, <1>6

\* What a rotation replaces was its own token, or came while it was in flight.
LEMMA RotationFollows ==
  ASSUME IInv, Lineage, NEW r \in Requests, stage[r] = "rotating",
         NEW pair \in {r, NoPair}, rows' = RotateInto(r, pair), RotateRows(r) # {},
         memory' = memory, input'[r] = input[r], earlier'[r] = earlier[r],
         seen'[r] # None, seen'[r].id = seen[r].id,
         \/ pair = r /\ answer'[r] = "issued"
         \/ pair = NoPair /\ Unheard(r)'
  PROVE  /\ StoresFollow(r)
         /\ seen[r].id \in Requests /\ answer[seen[r].id] = "issued"
         /\ rows'[seen[r].id] # None /\ rows'[seen[r].id].access = pair
<1> DEFINE s == seen[r].id
<1>1. TypeOK /\ Suspended(r) /\ Overtaken(r) /\ r # NoPair
  BY AuthNulls DEF IInv, Lineage
<1>2. input[r].op = "refresh"
  BY <1>1 DEF Suspended
<1>3. s \in Requests /\ rows[s] # None /\ ~rows[s].revoked
  BY RotatedRow
<1>4. PICK new \in Session :
        /\ new # None /\ new.access = pair /\ new.refresh = pair
        /\ rows' = [rows EXCEPT ![s] = new]
  BY RotatedRow
<1>5. rows[s].access = input[r].refresh \/ rows[s].access \notin earlier[r]
  BY <1>1 DEF Overtaken
<1> HIDE DEF s
<1>6. rows'[s] = new /\ \A t \in Requests \ {s} : rows'[t] = rows[t]
  BY <1>1, <1>3, <1>4 DEF TypeOK
<1>7. RowFollows(r, s)
  <2>1. CASE pair = r
    BY <1>1, <1>2, <1>3, <1>4, <1>5, <1>6, <2>1 DEF RowFollows, Minted, s
  <2>2. CASE pair = NoPair
    BY <1>1, <1>2, <1>3, <1>4, <1>5, <1>6, <2>2 DEF RowFollows, Severed, s
  <2>3. QED
    BY <2>1, <2>2
<1>8. StoresFollow(r)
  <2>1. \A t \in Requests : RowFollows(r, t) /\ MemoryFollows(r, t)
    BY <1>6, <1>7 DEF RowFollows, MemoryFollows
  <2>2. \A t \in Requests : rows[t] # None /\ rows[t].revoked => rows'[t] = rows[t]
    BY <1>3, <1>6
  <2>3. QED
    BY <2>1, <2>2 DEF StoresFollow
<1>9. answer[s] = "issued"
  BY <1>3, OnRecord
<1>10. QED
  BY <1>3, <1>4, <1>6, <1>8, <1>9 DEF s

\* A rotation that is answered has the pair it was answered with.
LEMMA RotateWriteLineage ==
  ASSUME IInv, Lineage, NEW r \in Requests, RotateWrite(r)
  PROVE  Lineage'
<1>1. /\ TypeOK /\ Suspended(r) /\ stage[r] = "rotating" /\ OthersWait(r) /\ Stands(r)
      /\ Answer(r, IF RotateRows(r) = {} THEN "notIssued" ELSE "issued")
      /\ memory' = memory /\ seen' = seen /\ rows' = RotateInto(r, r)
  BY StepWaits, UnheardStands DEF IInv, Step, RotateWrite, process
<1>2. CASE RotateRows(r) = {}
  <2>1. rows' = rows
    BY <1>1, <1>2, RotatedRow
  <2>2. stage'[r] = "answered" /\ answer'[r] = "notIssued"
    BY <1>1, <1>2, AnswerEffect DEF Answers
  <2>3. Unheard(r)' => Unheard(r)
    BY <1>1 DEF Unheard
  <2>4. QED
    BY <1>1, <2>1, <2>2, <2>3, Elsewhere, QuietLineage
<1>3. CASE RotateRows(r) # {}
  <2>1. /\ input' = input /\ earlier' = earlier
        /\ stage'[r] = "answered" /\ answer'[r] = "issued"
    BY <1>1, <1>3, AnswerEffect DEF Answers
  <2>2. seen'[r] # None /\ seen'[r].id = seen[r].id
    BY <1>1 DEF Suspended
  <2>3. /\ StoresFollow(r)
        /\ seen[r].id \in Requests /\ answer[seen[r].id] = "issued"
        /\ rows'[seen[r].id].access = r
    BY <1>1, <1>3, <2>1, <2>2, RotationFollows
  <2>4. QED
    BY <1>1, <2>1, <2>2, <2>3, IssuedLineage
<1>4. QED
  BY <1>2, <1>3

\* A session that is rotated in memory is not in the table.
LEMMA RotateInMemoryLineage ==
  ASSUME IInv, Lineage, NEW r \in Requests, RotateInMemory(r)
  PROVE  Lineage'
<1> DEFINE s == byRefresh[input[r].refresh]
           new == Rotated(r, memory[s])
<1>1. /\ TypeOK /\ Suspended(r) /\ stage[r] = "rotate" /\ Stores /\ OthersWait(r)
      /\ Stands(r) /\ rows' = rows
  BY StepWaits, UnheardStands DEF IInv, Step, RotateInMemory, tables
<1>2. input[r].op = "refresh" /\ input[r].refresh \in Requests
  BY <1>1 DEF Suspended, TypeOK, Inputs, Pairs
<1>3. s # NoSession => s \in Requests /\ memory[s] \in Session /\ memory[s] # None
  BY <1>1, <1>2 DEF TypeOK, Stores, IndexAgrees, Pairs
<1>4. CASE ~Rotatable(s, "memory")
  <2>1. Answer(r, "notIssued") /\ memory' = memory /\ seen' = seen
    BY <1>4 DEF RotateInMemory
  <2>2. stage'[r] = "answered" /\ answer'[r] = "notIssued"
    BY <1>1, <2>1, AnswerEffect DEF Answers
  <2>3. Unheard(r)' => Unheard(r)
    BY <2>1 DEF Unheard
  <2>4. QED
    BY <1>1, <2>1, <2>2, <2>3, Elsewhere, QuietLineage
<1>5. CASE Rotatable(s, "memory")
  <2>1. /\ s # NoSession /\ memory' = [memory EXCEPT ![s] = new]
        /\ seen' = [seen EXCEPT ![r] = [id |-> s, session |-> new]]
        /\ Answer(r, "issued")
    BY <1>5 DEF RotateInMemory, Rotatable
  <2>2. /\ new \in Session /\ new # None /\ new.access = r /\ new.refresh = r
        /\ [id |-> s, session |-> new] # None
    BY <1>1, <1>3, <2>1, SessionValues
  <2> HIDE DEF new, s
  <2>3. /\ input' = input /\ earlier' = earlier
        /\ stage'[r] = "answered" /\ answer'[r] = "issued"
    BY <1>1, <2>1, AnswerEffect DEF Answers
  <2>4. seen'[r] # None /\ seen'[r].id = s
    BY <1>1, <2>1, <2>2 DEF TypeOK
  <2>5. StoresFollow(r)
    BY <1>1, <1>3, <2>1, <2>2, <2>3, <2>4
       DEF StoresFollow, RowFollows, MemoryFollows, Minted, TypeOK
  <2>6. rows'[s] = None /\ answer[s] = "issued"
    BY <1>1, <1>3, <2>1, OnRecord
  <2>7. QED
    BY <1>1, <1>3, <2>1, <2>3, <2>4, <2>5, <2>6, IssuedLineage
<1>6. QED
  BY <1>4, <1>5

\* A logout that has found its session goes on to revoke it.
LEMMA RevokeReadLineage ==
  ASSUME IInv, Lineage, NEW r \in Requests, RevokeRead(r)
  PROVE  Lineage'
<1> DEFINE s == ByAccess("db", input[r].token)
<1>1. /\ TypeOK /\ Suspended(r) /\ stage[r] = "revoke" /\ OthersWait(r) /\ Stands(r)
      /\ answer[r] = "none"
  BY StepWaits, UnheardStands, Unanswered DEF IInv, Step, RevokeRead
<1>2. rows' = rows /\ memory' = memory
  BY DEF RevokeRead, tables, process
<1>3. input[r].op = "logout" /\ input[r].token \in Requests
  BY <1>1 DEF Suspended, TypeOK, Inputs, Pairs
<1>4. s # NoSession =>
        /\ s \in Requests /\ rows[s] \in Session /\ rows[s] # None
        /\ rows[s].access = input[r].token
  BY <1>3, FoundByToken, AuthNulls DEF Read
<1>5. CASE ~Revocable(s, "db")
  <2>1. Answer(r, "notRevoked") /\ seen' = seen
    BY <1>5 DEF RevokeRead
  <2>2. stage'[r] = "answered" /\ answer'[r] = "notRevoked"
    BY <1>1, <2>1, AnswerEffect DEF Answers
  <2>3. Unheard(r)' => Unheard(r)
    BY <2>1 DEF Unheard
  <2>4. QED
    BY <1>1, <1>2, <2>2, <2>3, Elsewhere, QuietLineage
<1>6. CASE Revocable(s, "db")
  <2>1. /\ s # NoSession
        /\ seen' = [seen EXCEPT ![r] = [id |-> s, session |-> rows[s]]]
        /\ Continue(r, "revoking")
    BY <1>6 DEF RevokeRead, Revocable
  <2>2. [id |-> s, session |-> rows[s]] # None
    BY <1>1, <1>4, <2>1, SessionValues
  <2> HIDE DEF s
  <2>3. seen'[r] # None /\ seen'[r].id = s
    BY <1>1, <2>1, <2>2 DEF TypeOK
  <2>4. input' = input /\ answer' = answer /\ stage'[r] = "revoking"
    BY <1>1, <2>1 DEF Continue, TypeOK
  <2>5. Overtaken(r)' /\ Leaving(r)'
    BY <1>2, <1>4, <2>1, <2>3, <2>4 DEF Overtaken, Leaving
  <2>6. ~Unheard(r)'
    BY <1>1, <1>3, <1>4, <2>1, NotUnheard DEF TypeOK
  <2>7. QED
    BY <1>1, <1>2, <2>4, <2>5, <2>6, QuietLineage
<1>7. QED
  BY <1>5, <1>6

\* The update of a logout takes no pair away.
LEMMA RevocationFollows ==
  ASSUME IInv, NEW r \in Requests, rows' = Revoked(r), memory' = memory
  PROVE  StoresFollow(r)
BY RevokedRows DEF StoresFollow, RowFollows, MemoryFollows, SamePair

\* Who is told that the session is revoked has revoked it, or has overlapped with a
\* rotation that took its token away.
LEMMA RevokeWriteLineage ==
  ASSUME IInv, Lineage, NEW r \in Requests, RevokeWrite(r)
  PROVE  Lineage'
<1>1. /\ TypeOK /\ Suspended(r) /\ stage[r] = "revoking" /\ Answer(r, "revoked")
      /\ OthersWait(r) /\ Stands(r) /\ Leaving(r)
      /\ memory' = memory /\ seen' = seen /\ rows' = Revoked(r)
  BY StepWaits, UnheardStands DEF IInv, Lineage, Step, RevokeWrite, process
<1>2. /\ input' = input /\ earlier' = earlier
      /\ stage'[r] = "answered" /\ answer'[r] = "revoked"
  BY <1>1, AnswerEffect DEF Answers
<1>3. /\ seen[r] # None /\ seen[r].id \in Requests /\ rows[seen[r].id] # None
      /\ \/ rows[seen[r].id].access = input[r].token
         \/ \E q \in Rotations : seen[q].id = seen[r].id /\ q \notin earlier[r]
  BY <1>1, OpenerType DEF Leaving
<1>4. answer[seen[r].id] = "issued" /\ answer[r] = "none"
  BY <1>1, <1>3, OnRecord, Unanswered
<1>5. Opener(r)'
  BY <1>1, <1>3, <1>4 DEF Opener, Issued, OthersWait
<1>6. (Overtaken(r) /\ Leaving(r) /\ Replaced(r))'
  BY <1>2 DEF Overtaken, Leaving, Replaced, Issued
<1>7. Missed(r)'
  <2>1. CASE rows[seen[r].id].access = input[r].token
    BY <1>1, <1>3, <2>1, RevokedRows DEF Missed
  <2>2. ASSUME NEW q \in Rotations, seen[q].id = seen[r].id, q \notin earlier[r]
        PROVE  Missed(r)'
    <3>1. q \in Rotations' /\ seen'[q].id = seen[r].id
      BY <1>1, <2>2, RotationsStay
    <3>2. q # r
      BY <1>1 DEF Suspended, Rotations
    <3>3. Overlap(r, q)'
      BY <1>1, <1>2, <2>2, Unanswered DEF Overlap, Rotations
    <3>4. QED
      BY <1>1, <3>1, <3>2, <3>3 DEF Missed
  <2>3. QED
    BY <1>3, <2>1, <2>2
<1>8. StoresFollow(r)
  BY <1>1, RevocationFollows
<1>9. QED
  BY <1>1, <1>5, <1>6, <1>7, <1>8, LineageStep

\* A session that is revoked in memory is not in the table.
LEMMA RevokeInMemoryLineage ==
  ASSUME IInv, Lineage, NEW r \in Requests, RevokeInMemory(r)
  PROVE  Lineage'
<1> DEFINE s == byAccess[input[r].token]
           new == Ended(memory[s])
<1>1. /\ TypeOK /\ Suspended(r) /\ stage[r] = "revoke" /\ Stores /\ OthersWait(r)
      /\ Stands(r) /\ answer[r] = "none" /\ rows' = rows
  BY StepWaits, UnheardStands, Unanswered DEF IInv, Step, RevokeInMemory, tables
<1>2. input[r].op = "logout" /\ input[r].token \in Requests
  BY <1>1 DEF Suspended, TypeOK, Inputs, Pairs
<1>3. s # NoSession =>
        /\ s \in Requests /\ memory[s] \in Session /\ memory[s] # None
        /\ memory[s].access = input[r].token
  BY <1>1, <1>2 DEF TypeOK, Stores, IndexAgrees, Pairs
<1>4. CASE ~Revocable(s, "memory")
  <2>1. Answer(r, "notRevoked") /\ memory' = memory /\ seen' = seen
    BY <1>4 DEF RevokeInMemory
  <2>2. stage'[r] = "answered" /\ answer'[r] = "notRevoked"
    BY <1>1, <2>1, AnswerEffect DEF Answers
  <2>3. Unheard(r)' => Unheard(r)
    BY <2>1 DEF Unheard
  <2>4. QED
    BY <1>1, <2>1, <2>2, <2>3, Elsewhere, QuietLineage
<1>5. CASE Revocable(s, "memory")
  <2>1. /\ s # NoSession /\ memory' = [memory EXCEPT ![s] = new] /\ Answer(r, "revoked")
        /\ seen' = [seen EXCEPT ![r] = [id |-> s, session |-> memory[s]]]
    BY <1>5 DEF RevokeInMemory, Revocable, Ended
  <2>2. /\ new # None /\ SamePair(memory[s], new)
        /\ [id |-> s, session |-> memory[s]] # None
    BY <1>1, <1>3, <2>1, EndedSession, SessionValues DEF SamePair
  <2>3. rows[s] = None /\ answer[s] = "issued"
    BY <1>3, <2>1, OnRecord
  <2> HIDE DEF new, s
  <2>4. /\ seen'[r] # None /\ seen'[r].id = s
        /\ stage'[r] = "answered" /\ answer'[r] = "revoked"
    BY <1>1, <2>1, <2>2, AnswerEffect DEF TypeOK, Answers
  <2>5. StoresFollow(r)
    BY <1>1, <1>3, <2>1, <2>2 DEF StoresFollow, RowFollows, MemoryFollows, TypeOK
  <2>6. Opener(r)' /\ Missed(r)'
    BY <1>1, <1>3, <2>1, <2>3, <2>4 DEF Opener, Missed, Issued, OthersWait
  <2>7. (Overtaken(r) /\ Leaving(r) /\ Replaced(r))'
    BY <2>4 DEF Overtaken, Leaving, Replaced, Issued
  <2>8. QED
    BY <1>1, <2>5, <2>6, <2>7, LineageStep
<1>6. QED
  BY <1>4, <1>5

\* A commit that goes unheard follows like any other, and answers nobody.
LEMMA CommitUnheardLineage ==
  ASSUME IInv, Lineage, NEW r \in Requests, CommitUnheard(r)
  PROVE  Lineage'
<1>1. /\ TypeOK /\ Suspended(r) /\ OthersWait(r) /\ Stands(r)
      /\ stage[r] \notin {"answered", "lost"} /\ answer[r] = "none" /\ memory' = memory
  BY StepWaits, UnheardStands, Unanswered DEF IInv, Step, CommitUnheard, process
<1>2. ASSUME NEW a, Continue(r, a)
      PROVE  input' = input /\ earlier' = earlier /\ answer' = answer /\ stage'[r] = a
  BY <1>1, <1>2 DEF Continue, TypeOK
<1>3. /\ input' = input /\ earlier' = earlier /\ answer' = answer
      /\ stage'[r] \in {"inserted", "rotated", "revoked"}
  BY <1>2 DEF CommitUnheard
<1>4. (Overtaken(r) /\ Leaving(r) /\ Missed(r) /\ Replaced(r))'
  BY <1>1, <1>3 DEF Overtaken, Leaving, Missed, Replaced, Issued
<1>5. CASE stage[r] = "insert"
  <2>1. rows' = rows /\ seen' = seen
    BY <1>5 DEF CommitUnheard
  <2>2. Unheard(r)' => Unheard(r)
    BY <2>1 DEF Unheard
  <2>3. QED
    BY <1>1, <1>3, <1>4, <2>1, <2>2, QuietLineage
<1>6. CASE stage[r] = "rotating"
  <2>1. /\ RotateRows(r) # {} /\ rows' = RotateInto(r, NoPair)
        /\ seen' = [seen EXCEPT ![r].session =
                      [@ EXCEPT !.access = NoPair, !.refresh = NoPair]]
    BY <1>6 DEF CommitUnheard
  <2>2. seen[r] \in Seen
    BY <1>6, <2>1, RotatedRow
  <2>3. /\ seen'[r] # None /\ seen'[r].id = seen[r].id
        /\ seen'[r].session.access = NoPair
    BY <1>1, <2>1, <2>2, SeveredSeen DEF TypeOK
  <2>4. Unheard(r)'
    BY <2>3 DEF Unheard
  <2>5. /\ StoresFollow(r)
        /\ seen[r].id \in Requests /\ answer[seen[r].id] = "issued"
    BY <1>1, <1>3, <1>6, <2>1, <2>3, <2>4, RotationFollows
  <2>6. Opener(r)'
    BY <1>3, <2>3, <2>5 DEF Opener, Issued
  <2>7. QED
    BY <1>1, <1>4, <2>5, <2>6, LineageStep
<1>7. CASE stage[r] = "revoking"
  <2>1. rows' = Revoked(r) /\ seen' = seen
    BY <1>7 DEF CommitUnheard
  <2>2. ~Unheard(r)'
    BY <1>7, <2>1, Unanswered DEF Unheard
  <2>3. Opener(r)'
    BY <1>1, <1>3, <2>2 DEF Opener, Issued
  <2>4. QED
    BY <1>1, <1>4, <2>1, <2>3, RevocationFollows, LineageStep
<1>8. QED
  BY <1>5, <1>6, <1>7 DEF CommitUnheard

\* Starting anew in memory, a handler has what it had.
LEMMA RerunLineage ==
  ASSUME IInv, Lineage, NEW r \in Requests, SessionQueryFails(r) \/ IdentityQueryFails(r)
  PROVE  Lineage'
<1>1. /\ TypeOK /\ OthersWait(r) /\ Stands(r) /\ stage[r] \notin {"answered", "lost"}
  BY StepWaits, UnheardStands DEF IInv, Step
<1>2. /\ rows' = rows /\ memory' = memory /\ seen' = seen /\ answer' = answer
      /\ stage' = [stage EXCEPT ![r] = Anew(stage[r])]
  BY DEF SessionQueryFails, IdentityQueryFails, RerunInMemory, tables
<1>3. answer[r] = "none" /\ stage'[r] \notin {"rotating", "revoking"}
  BY <1>1, <1>2, Unanswered DEF Anew, TypeOK
<1>4. Unheard(r)' => Unheard(r)
  BY <1>2 DEF Unheard
<1>5. QED
  BY <1>1, <1>2, <1>3, <1>4, Elsewhere, QuietLineage

\* A restart forgets requests in flight, of whom nothing is said any more.
LEMMA RestartLineage ==
  ASSUME IInv, Lineage, Restart
  PROVE  Lineage'
<1>1. /\ memory' = [s \in Requests |-> None] /\ rows' = rows
      /\ input' = input /\ seen' = seen /\ answer' = answer /\ earlier' = earlier
      /\ stage' = [r \in Requests |-> IF r \in Running THEN "lost" ELSE stage[r]]
  BY DEF Restart, tables
<1>2. \A r \in Requests : stage'[r] \notin {"rotating", "revoking"}
  BY <1>1 DEF Running, SessionStages
<1>3. PairsOfOne'
  BY <1>1 DEF Lineage, PairsOfOne
<1>4. ASSUME NEW r \in Requests
      PROVE  (Opener(r) /\ Overtaken(r) /\ Leaving(r) /\ Missed(r) /\ Replaced(r))'
  <2>1. Opener(r) /\ Missed(r) /\ Replaced(r)
    BY DEF Lineage
  <2>2. (Opener(r) /\ Missed(r) /\ Replaced(r))'
    BY <1>1, <2>1 DEF Opener, Missed, Replaced, Issued, Rotations, Unheard, Overlap
  <2>3. QED
    BY <1>2, <2>2, Elsewhere
<1>5. QED
  BY <1>3, <1>4 DEF Lineage

\* Neither time nor a step that changes nothing has a part in it.
LEMMA StutterLineage ==
  ASSUME Lineage, UNCHANGED <<tables, process, handlers>>
  PROVE  Lineage'
<1>1. PairsOfOne'
  BY DEF Lineage, PairsOfOne, tables, process, handlers
<1>2. ASSUME NEW r \in Requests
      PROVE  (Opener(r) /\ Overtaken(r) /\ Leaving(r) /\ Missed(r) /\ Replaced(r))'
  BY DEF Lineage, Opener, Overtaken, Leaving, Missed, Replaced, Issued, Rotations,
         Unheard, Overlap,
         tables, process, handlers
<1>3. QED
  BY <1>1, <1>2 DEF Lineage

\* Nobody has rotated, logged out or been answered yet.
LEMMA InitLineage == Init => Lineage
<1> SUFFICES ASSUME Init PROVE Lineage
  OBVIOUS
<1>1. PairsOfOne
  BY DEF Init, PairsOfOne
<1>2. ASSUME NEW r \in Requests
      PROVE  Opener(r) /\ Overtaken(r) /\ Leaving(r) /\ Missed(r) /\ Replaced(r)
  BY DEF Init, Opener, Overtaken, Leaving, Missed, Replaced, Issued, Unheard
<1>3. QED
  BY <1>1, <1>2 DEF Lineage

\* Every step keeps the lineage of pairs.
LEMMA NextLineage ==
  IInv /\ Lineage /\ [Next]_vars => Lineage'
<1> SUFFICES ASSUME IInv, Lineage, [Next]_vars PROVE Lineage'
  OBVIOUS
<1>1. ASSUME NEW r \in Requests, Step(r)
      PROVE  Lineage'
  BY <1>1, ReceiveLineage, ResolveLineage, TouchLineage, AccountLineage,
     CreateSessionLineage, RotateReadLineage, RotateWriteLineage, RotateInMemoryLineage,
     RevokeReadLineage, RevokeWriteLineage, RevokeInMemoryLineage,
     CommitUnheardLineage, RerunLineage DEF Step
<1>2. CASE Tick \/ Done \/ UNCHANGED vars
  BY <1>2, StutterLineage DEF Tick, Done, vars
<1>3. QED
  BY <1>1, <1>2, RestartLineage DEF Next

\* The lineage of pairs holds of every state of the specification.
THEOREM LineageInvariance == Spec => []Lineage
BY InitLineage, NextLineage, Invariance, PTL DEF Spec

\* A logout that reports success has revoked its session, or a refresh of that session
\* that committed was in flight with it.
THEOREM LogoutRevokes == Spec => []LogoutMissesOnlyOverlap
<1>1. Lineage => LogoutMissesOnlyOverlap
  BY DEF Lineage, Missed, LogoutMissesOnlyOverlap
<1>2. QED
  BY <1>1, LineageInvariance, PTL

\* The tokens of an answer open their session until somebody rotates with them, or a
\* rotation of the same session that overlapped has replaced them.
THEOREM TokensLiveOn == Spec => []TokensDieByRotation
<1>1. Lineage => TokensDieByRotation
  BY DEF Lineage, Replaced, TokensDieByRotation
<1>2. QED
  BY <1>1, LineageInvariance, PTL

-----------------------------------------------------------------------------
(***************************************************************************)
(* Logins.                                                                 *)
(***************************************************************************)
\* Accounts are never deleted, no two of them clash, and each was there from the start
\* or has been inserted by a registration; a query for one goes to memory only after
\* the switch, which a fault has brought about or a duplicate registration.
Directory ==
  /\ Registered \subseteq identities
  /\ \A u, v \in identities : u # v => ~Clash(u, v)
  /\ \A v \in identities \ Registered : \E q \in Requests :
       /\ input[q].op = "register" /\ input[q].who = v
       /\ ~(stage[q] = "insert" /\ at[q] = "db")
  /\ \A r \in Requests :
       /\ stage[r] \in IdentityStages /\ at[r] = "memory" => Backend = "memory" \/ idFallback
       /\ stage[r] = "inserted" => faults > 0
  /\ idFallback => faults > 0 \/ \E q \in Requests : Duplicate(q)

\* At the start there are the registered people, and nothing has switched.
LEMMA InitDirectory == Init => Directory
BY AuthAssumption DEF Init, Directory, IdentityStages

\* What makes a registration a duplicate stays, and so does the account it asked for.
LEMMA RegistrationsStay ==
  ASSUME NEW r \in Requests, OthersWait(r), input[r].op = "register" => input'[r] = input[r]
  PROVE  /\ \A q \in Requests : input[q].op = "register" => input'[q] = input[q]
         /\ \A q \in Requests : Duplicate(q) => Duplicate(q)'
<1>1. \A q \in Requests : input[q].op = "register" => input'[q] = input[q]
  BY DEF OthersWait
<1>2. QED
  BY <1>1 DEF Duplicate

\* A step of r keeps the directory when it does what a registration may do to it, and
\* goes to memory for an account only after the switch.
LEMMA DirectoryStep ==
  ASSUME IInv, Directory, NEW r \in Requests, OthersWait(r), faults' \in Nat,
         faults' >= faults, \A q \in Requests \ {r} : at'[q] = at[q],
         input[r].op = "register" => input'[r] = input[r],
         \/ identities' = identities
         \/ /\ identities' = identities \cup {input[r].who}
            /\ input[r].op = "register" /\ ~TakenInTable(input[r].who),
         input[r].op = "register" => ~(stage'[r] = "insert" /\ at'[r] = "db"),
         stage'[r] \in IdentityStages /\ at'[r] = "memory" => Backend = "memory" \/ idFallback',
         stage'[r] = "inserted" => faults' > 0,
         idFallback => idFallback',
         idFallback' => idFallback \/ faults' > 0 \/ Duplicate(r)
  PROVE  Directory'
<1>1. /\ \A q \in Requests : input[q].op = "register" => input'[q] = input[q]
      /\ \A q \in Requests : Duplicate(q) => Duplicate(q)'
  BY RegistrationsStay
<1>2. /\ identities \subseteq identities' /\ faults \in Nat
      /\ \A q \in Requests \ {r} : stage'[q] = stage[q]
  BY DEF OthersWait, IInv, TypeOK
<1>3. Registered \subseteq identities'
  BY <1>2 DEF Directory
<1>4. ASSUME NEW u \in identities', NEW v \in identities', u # v
      PROVE  ~Clash(u, v)
  <2>1. CASE u \in identities /\ v \in identities
    BY <1>4, <2>1 DEF Directory
  <2>2. CASE u \notin identities
    BY <1>4, <2>2 DEF TakenInTable, Clash
  <2>3. CASE v \notin identities
    BY <1>4, <2>3 DEF TakenInTable, Clash
  <2>4. QED
    BY <2>1, <2>2, <2>3
<1>5. ASSUME NEW v \in identities' \ Registered
      PROVE  \E q \in Requests : /\ input'[q].op = "register" /\ input'[q].who = v
                                 /\ ~(stage'[q] = "insert" /\ at'[q] = "db")
  <2>1. CASE v \in identities
    <3>1. PICK q \in Requests : /\ input[q].op = "register" /\ input[q].who = v
                                /\ ~(stage[q] = "insert" /\ at[q] = "db")
      BY <2>1 DEF Directory
    <3>2. ~(stage'[q] = "insert" /\ at'[q] = "db")
      BY <1>2, <3>1
    <3>3. QED
      BY <1>1, <3>1, <3>2
  <2>2. CASE v \notin identities
    BY <1>1, <2>2
  <2>3. QED
    BY <2>1, <2>2
<1>6. ASSUME NEW q \in Requests
      PROVE  /\ stage'[q] \in IdentityStages /\ at'[q] = "memory" =>
                  Backend = "memory" \/ idFallback'
             /\ stage'[q] = "inserted" => faults' > 0
  BY <1>2 DEF Directory
<1>7. idFallback' => faults' > 0 \/ \E q \in Requests : Duplicate(q)'
  BY <1>1, <1>2 DEF Directory
<1>8. QED
  BY <1>3, <1>4, <1>5, <1>6, <1>7 DEF Directory, Clash

\* A step that has nothing to do with accounts.
LEMMA OtherStep ==
  ASSUME IInv, Directory, NEW r \in Requests, OthersWait(r), faults' \in Nat,
         faults' >= faults, \A q \in Requests \ {r} : at'[q] = at[q], input' = input,
         identities' = identities, idFallback' = idFallback, stage'[r] \notin IdentityStages
  PROVE  Directory'
BY DirectoryStep DEF IdentityStages

\* A registration in the table is a duplicate of an account that was there, or of a
\* registration that has been there.
LEMMA TakenIsDuplicate ==
  ASSUME IInv, Directory, NEW r \in Requests, stage[r] = "insert", at[r] = "db",
         TakenInTable(input[r].who)
  PROVE  Duplicate(r)
<1>1. input[r].op = "register"
  BY DEF IInv, Suspended
<1>2. PICK v \in identities : Clash(v, input[r].who)
  BY DEF TakenInTable
<1>3. CASE v \in Registered
  BY <1>1, <1>2, <1>3 DEF Duplicate
<1>4. CASE v \notin Registered
  <2>1. PICK q \in Requests : /\ input[q].op = "register" /\ input[q].who = v
                              /\ ~(stage[q] = "insert" /\ at[q] = "db")
    BY <1>4 DEF Directory
  <2>2. q # r
    BY <2>1
  <2>3. QED
    BY <1>1, <1>2, <2>1, <2>2 DEF Duplicate
<1>5. QED
  BY <1>3, <1>4

\* A registration, answered, unheard or started again.
LEMMA RegisterDirectory ==
  ASSUME IInv, Directory, NEW r \in Requests, Register(r)
  PROVE  Directory'
<1>1. /\ TypeOK /\ OthersWait(r) /\ stage[r] = "insert" /\ input[r].op = "register"
      /\ faults' = faults /\ input' = input /\ faults \in Nat
  <2>1. OthersWait(r)
    BY StepWaits DEF Step
  <2>2. faults \in Nat
    BY AuthAssumption DEF IInv, TypeOK
  <2>3. QED
    BY <2>1, <2>2 DEF IInv, TypeOK, Suspended, Register, Answer, bounds
<1>2. \A q \in Requests \ {r} : at'[q] = at[q]
  BY <1>1 DEF Register, Answer, TypeOK
<1>3. CASE at[r] = "db" /\ TakenInTable(input[r].who)
  <2>1. /\ idFallback' = TRUE /\ at'[r] = "memory" /\ identities' = identities
        /\ stage' = stage
    BY <1>1, <1>3 DEF Register, TypeOK
  <2>2. Duplicate(r)
    BY <1>1, <1>3, TakenIsDuplicate
  <2>3. QED
    BY <1>1, <1>2, <2>1, <2>2, DirectoryStep DEF IdentityStages
<1>4. CASE ~(at[r] = "db" /\ TakenInTable(input[r].who))
  <2>1. stage'[r] = "answered"
    BY <1>1, <1>4 DEF Register, Answer, TypeOK
  <2>2. /\ idFallback' = idFallback
        /\ \/ identities' = identities
           \/ /\ identities' = identities \cup {input[r].who}
              /\ ~TakenInTable(input[r].who)
    BY <1>4 DEF Register
  <2>3. QED
    BY <1>1, <1>2, <2>1, <2>2, DirectoryStep DEF IdentityStages
<1>5. QED
  BY <1>3, <1>4

\* The insert that commits and is not heard of has put its account there.
LEMMA CommitUnheardDirectory ==
  ASSUME IInv, Directory, NEW r \in Requests, CommitUnheard(r)
  PROVE  Directory'
<1>1. /\ TypeOK /\ OthersWait(r) /\ Suspended(r)
      /\ faults \in Nat /\ faults' = faults + 1 /\ at' = at /\ at[r] = "db"
      /\ input' = input /\ idFallback' = idFallback
      /\ stage[r] \in {"insert", "rotating", "revoking"}
  <2>1. OthersWait(r)
    BY StepWaits DEF Step
  <2>2. faults \in Nat
    BY AuthAssumption DEF IInv, TypeOK
  <2>3. QED
    BY <2>1, <2>2 DEF IInv, TypeOK, CommitUnheard, Continue, process
<1>2. stage'[r] \in {"inserted", "rotated", "revoked"}
  BY <1>1 DEF CommitUnheard, Continue, TypeOK
<1>3. CASE stage[r] = "insert"
  <2>1. /\ ~TakenInTable(input[r].who) /\ input[r].op = "register"
        /\ identities' = identities \cup {input[r].who}
    BY <1>1, <1>3 DEF CommitUnheard, Suspended
  <2>2. QED
    BY <1>1, <1>2, <2>1, DirectoryStep
<1>4. CASE stage[r] # "insert"
  <2>1. identities' = identities
    BY <1>4 DEF CommitUnheard
  <2>2. QED
    BY <1>1, <1>2, <2>1, DirectoryStep
<1>5. QED
  BY <1>3, <1>4

\* A failing query of the identity store sends the process to memory, and is a fault.
LEMMA IdentityFailsDirectory ==
  ASSUME IInv, Directory, NEW r \in Requests, IdentityQueryFails(r)
  PROVE  Directory'
<1>1. /\ TypeOK /\ OthersWait(r) /\ stage[r] \in IdentityStages
      /\ Counted(stage[r] \in UnheardStages)
      /\ stage' = [stage EXCEPT ![r] = Anew(stage[r])]
      /\ at' = [at EXCEPT ![r] = "memory"] /\ input' = input
      /\ identities' = identities /\ idFallback' = TRUE /\ faults \in Nat
  <2>1. OthersWait(r)
    BY StepWaits DEF Step
  <2>2. faults \in Nat
    BY AuthAssumption DEF IInv, TypeOK
  <2>3. QED
    BY <2>1, <2>2 DEF IInv, TypeOK, IdentityQueryFails, RerunInMemory, tables
<1>2. stage[r] \in UnheardStages => faults > 0
  BY <1>1 DEF Directory, UnheardStages, IdentityStages
<1>3. faults' \in Nat /\ faults' >= faults /\ faults' > 0
  BY <1>1, <1>2 DEF Counted
<1>4. /\ at'[r] = "memory" /\ stage'[r] # "inserted"
      /\ \A q \in Requests \ {r} : at'[q] = at[q]
  BY <1>1 DEF TypeOK, Anew
<1>5. QED
  BY <1>1, <1>3, <1>4, DirectoryStep

\* A request comes to the store that is in use.
LEMMA ReceiveDirectory ==
  ASSUME IInv, Directory, NEW r \in Requests, Receive(r)
  PROVE  Directory'
<1>1. /\ TypeOK /\ OthersWait(r) /\ Suspended(r) /\ stage[r] = "idle"
      /\ identities' = identities /\ idFallback' = idFallback /\ faults' = faults
      /\ faults \in Nat
  <2>1. OthersWait(r)
    BY StepWaits DEF Step
  <2>2. faults \in Nat
    BY AuthAssumption DEF IInv, TypeOK
  <2>3. QED
    BY <2>1, <2>2 DEF IInv, TypeOK, Receive, tables, process, bounds
<1>2. input[r].op # "register"
  BY <1>1 DEF Suspended
<1>3. PICK i \in Inputs :
        /\ stage' = [stage EXCEPT ![r] = FirstStage(i.op)]
        /\ at' = [at EXCEPT ![r] = StoreFor(FirstStage(i.op))]
  BY DEF Receive
<1>4. /\ stage'[r] = FirstStage(i.op) /\ at'[r] = StoreFor(FirstStage(i.op))
      /\ \A q \in Requests \ {r} : at'[q] = at[q]
  BY <1>1, <1>3 DEF TypeOK
<1>5. stage'[r] # "inserted"
  BY <1>4 DEF FirstStage
<1>6. stage'[r] \in IdentityStages /\ at'[r] = "memory" => Backend = "memory" \/ idFallback
  BY <1>4 DEF StoreFor, IdentityStages, SessionStages
<1>7. QED
  BY <1>1, <1>2, <1>4, <1>5, <1>6, DirectoryStep

\* The directory keeps its accounts.
LEMMA NextDirectory ==
  IInv /\ Directory /\ [Next]_vars => Directory'
<1> SUFFICES ASSUME IInv, Directory, [Next]_vars PROVE Directory'
  OBVIOUS
<1>1. TypeOK /\ faults \in Nat
  BY DEF IInv, TypeOK
<1>2. ASSUME NEW r \in Requests, NEW a, Answer(r, a) \/ Goto(r, a) \/ Continue(r, a),
             a \notin IdentityStages
      PROVE  /\ \A q \in Requests \ {r} : at'[q] = at[q]
             /\ stage'[r] \notin IdentityStages /\ input' = input
  BY <1>1, <1>2 DEF TypeOK, Answer, Goto, Continue, IdentityStages
<1>3. ASSUME NEW r \in Requests, Step(r)
      PROVE  Directory'
  <2>1. OthersWait(r)
    BY <1>3, StepWaits
  <2>2. CASE \/ Resolve(r) \/ Touch(r) \/ CreateSession(r) \/ FindAccount(r)
             \/ RotateRead(r) \/ RotateWrite(r) \/ RotateInMemory(r)
             \/ RevokeRead(r) \/ RevokeWrite(r) \/ RevokeInMemory(r)
    <3>1. \/ \E a \in Answers : Answer(r, a)
          \/ \E a \in SessionStages : Goto(r, a) \/ Continue(r, a)
      <4>1. CASE Resolve(r) \/ Touch(r)
        <5>1. \/ Answer(r, "unauthenticated") \/ Answer(r, "forbidden")
              \/ Answer(r, "actor")
              \/ Goto(r, "rotate") \/ Goto(r, "revoke") \/ Goto(r, "touch")
          BY <4>1 DEF Resolve, Touch, Dispatch
        <5>2. QED
          BY <5>1 DEF Answers, SessionStages
      <4>2. CASE CreateSession(r) \/ FindAccount(r)
        BY <4>2 DEF CreateSession, FindAccount, Answers, SessionStages
      <4>3. CASE RotateRead(r) \/ RotateWrite(r) \/ RotateInMemory(r)
        BY <4>3 DEF RotateRead, RotateWrite, RotateInMemory, Answers, SessionStages
      <4>4. CASE RevokeRead(r) \/ RevokeWrite(r) \/ RevokeInMemory(r)
        BY <4>4 DEF RevokeRead, RevokeWrite, RevokeInMemory, Answers, SessionStages
      <4>5. QED
        BY <2>2, <4>1, <4>2, <4>3, <4>4
    <3>2. /\ \A q \in Requests \ {r} : at'[q] = at[q]
          /\ stage'[r] \notin IdentityStages /\ input' = input
      BY <1>2, <3>1 DEF Answers, SessionStages, IdentityStages
    <3>3. identities' = identities /\ idFallback' = idFallback /\ faults' = faults
      BY <2>2 DEF Resolve, Touch, CreateSession, FindAccount, RotateRead, RotateWrite,
                  RotateInMemory, RevokeRead, RevokeWrite, RevokeInMemory, tables,
                  process, bounds
    <3>4. QED
      BY <1>1, <2>1, <3>2, <3>3, OtherStep
  <2>3. CASE SessionQueryFails(r)
    <3>1. /\ \A q \in Requests \ {r} : at'[q] = at[q]
          /\ identities' = identities /\ idFallback' = idFallback /\ input' = input
          /\ faults' \in Nat /\ faults' >= faults
      BY <1>1, <2>3 DEF SessionQueryFails, RerunInMemory, Counted, TypeOK, tables
    <3>2. stage'[r] \notin IdentityStages
      BY <1>1, <2>3
         DEF SessionQueryFails, RerunInMemory, Anew, TypeOK, SessionStages, IdentityStages
    <3>3. QED
      BY <2>1, <3>1, <3>2, OtherStep
  <2>4. QED
    BY <1>3, <2>2, <2>3, ReceiveDirectory, RegisterDirectory, CommitUnheardDirectory,
       IdentityFailsDirectory DEF Step
<1>4. CASE Restart
  <2>1. \A r \in Requests : stage'[r] \notin IdentityStages
    BY <1>4 DEF Restart, Running, IdentityStages
  <2>2. identities' = identities /\ input' = input /\ idFallback' = FALSE
    BY <1>4 DEF Restart, tables
  <2>3. QED
    BY <2>1, <2>2 DEF Directory, IdentityStages
<1>5. CASE Tick \/ Done \/ UNCHANGED vars
  <2>1. /\ identities' = identities /\ input' = input /\ idFallback' = idFallback
        /\ stage' = stage /\ at' = at /\ faults' = faults
    BY <1>5 DEF Tick, Done, vars, tables, process, handlers, bounds
  <2>2. QED
    BY <2>1 DEF Directory, Duplicate
<1>6. QED
  BY <1>3, <1>4, <1>5 DEF Next

\* Only a login that has looked for its account is refused.
LEMMA OnlyFindRefuses ==
  ASSUME IInv, [Next]_vars, NEW r \in Requests, answer[r] # "refused",
         answer'[r] = "refused"
  PROVE  FindAccount(r)
<1>1. TypeOK
  BY DEF IInv
<1>2. PICK q \in Requests : Step(q)
  <2>1. answer' # answer
    OBVIOUS
  <2>2. QED
    BY <2>1 DEF Next, Restart, Tick, Done, vars, handlers
<1>3. q = r
  BY <1>2, StepWaits DEF OthersWait
<1>4. \A a : Answer(r, a) => a = "refused"
  BY <1>1 DEF TypeOK, Answer
<1>5. \A a : ~Goto(r, a) /\ ~Continue(r, a)
  BY DEF Goto, Continue
<1>6. ~Receive(r) /\ ~SessionQueryFails(r) /\ ~IdentityQueryFails(r) /\ ~CommitUnheard(r)
  BY <1>5 DEF Receive, SessionQueryFails, IdentityQueryFails, RerunInMemory, CommitUnheard
<1>7. ~Resolve(r) /\ ~Touch(r)
  BY <1>4, <1>5 DEF Resolve, Touch, Dispatch
<1>8. ~Register(r) /\ ~CreateSession(r)
  BY <1>4 DEF Register, CreateSession
<1>9. ~RotateRead(r) /\ ~RotateWrite(r) /\ ~RotateInMemory(r)
  BY <1>4, <1>5 DEF RotateRead, RotateWrite, RotateInMemory
<1>10. ~RevokeRead(r) /\ ~RevokeWrite(r) /\ ~RevokeInMemory(r)
  BY <1>4, <1>5 DEF RevokeRead, RevokeWrite, RevokeInMemory
<1>11. QED
  BY <1>2, <1>3, <1>6, <1>7, <1>8, <1>9, <1>10 DEF Step

\* Whoever is registered and gives their own e-mail and password gets in, unless the
\* e-mail is somebody's username, or the process has left Postgres for a fault or for a
\* duplicate registration.
THEOREM OwnersLogIn == Spec => OwnEmailLogsIn
<1>1. IInv /\ Directory /\ [Next]_vars =>
        [\A r \in Requests, u \in Registered :
           /\ answer[r] # "refused" /\ answer'[r] = "refused"
           /\ input[r].name = Fold[EmailOf[u]] /\ input[r].length = LengthOf[u]
           /\ Backend = "db"
           => \/ \E v \in identities \ {u} : Fold[UsernameOf[v]] = Fold[EmailOf[u]]
              \/ idFallback /\ (faults > 0 \/ \E q \in Requests : Duplicate(q))]_vars
  <2> SUFFICES ASSUME IInv, Directory, [Next]_vars,
                      NEW r \in Requests, NEW u \in Registered,
                      answer[r] # "refused", answer'[r] = "refused",
                      input[r].name = Fold[EmailOf[u]], input[r].length = LengthOf[u],
                      Backend = "db", ~idFallback,
                      \A v \in identities \ {u} : Fold[UsernameOf[v]] # Fold[EmailOf[u]]
               PROVE  FALSE
    BY DEF Directory
  <2>1. TypeOK /\ FindAccount(r)
    BY OnlyFindRefuses DEF IInv
  <2>2. at[r] # "memory"
    BY <2>1, AuthAssumption DEF Directory, FindAccount, IdentityStages
  <2>3. u \in identities /\ u \in FoundInTable(input[r].name)
    BY DEF Directory, FoundInTable
  <2>4. \A v \in identities \ {u} : Fold[EmailOf[v]] # Fold[EmailOf[u]]
    BY <2>3 DEF Directory, Clash
  <2>5. \A v \in FoundInTable(input[r].name) : v = u
    BY <2>4 DEF FoundInTable
  <2>6. ~Goto(r, "create")
    BY DEF Goto
  <2>7. QED
    BY <2>1, <2>2, <2>3, <2>5, <2>6 DEF FindAccount
<1>2. Spec => []Directory
  BY InitDirectory, NextDirectory, Invariance, PTL DEF Spec
<1>3. QED
  BY <1>1, <1>2, Invariance, PTL DEF Spec, OwnEmailLogsIn
=============================================================================
