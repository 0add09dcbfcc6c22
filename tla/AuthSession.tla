----------------------------- MODULE AuthSession -----------------------------
(***************************************************************************)
(* Accounts and sessions of apps/api: the middleware that turns an access  *)
(* token into an actor, the handlers of modules/auth, and the two resilient *)
(* stores under them, which leave Postgres for memory at the first query   *)
(* that fails and do not come back until the process restarts.             *)
(*                                                                         *)
(* A request is cut at its queries: an action is what runs between two of  *)
(* them.  An operation of a memory store awaits settled promises only, so a *)
(* request that has reached one keeps the event loop (Settled, Turn).      *)
(*                                                                         *)
(* A statement may commit and its result be lost with the connection or the *)
(* process: the handler then never learns of it (CommitUnheard).            *)
(*                                                                         *)
(* A session is named by the login that opened it, and a pair of tokens by *)
(* the login or refresh that minted it.  state and revoked_at change        *)
(* together and are one field; last_seen_at decides nothing and is left     *)
(* out, but not the query that writes it, which may fail.                   *)
(***************************************************************************)
EXTENDS Integers, FiniteSets

CONSTANTS
  Requests,
  Users,          \* people; the identity of a registered one has the same name
  Names,          \* identifiers after trim and toLowerCase
  EmailOf, UsernameOf,  \* of a user, as written in the registration
  Fold,           \* toLowerCase
  LengthOf,       \* of a user's password: all that its hash keeps
  Lengths,
  Registered,     \* identities Postgres holds at the start
  NoUser, NoSession, None,
  NoPair,         \* tokens that were minted and reached nobody
  Kinds,          \* the operations the clients send
  Headers,        \* the actors their x-actor headers make
  Backend,        \* "memory", or "db" when there is a DATABASE_URL
  Ttl,            \* session lifetime
  Horizon,        \* bound: the last time
  InFlight,       \* bound: requests in flight at once
  MaxFaults       \* bound: failing queries, lost results, restarts

\* The unique columns of auth_identities: username as written and email folded.
Clash(u, v) == Fold[EmailOf[u]] = Fold[EmailOf[v]] \/ UsernameOf[u] = UsernameOf[v]

ASSUME AuthAssumption ==
  /\ Registered \subseteq Users
  /\ Backend \in {"memory", "db"}
  /\ Ttl \in Nat /\ Horizon \in Nat
  /\ InFlight \in Nat /\ MaxFaults \in Nat
  /\ EmailOf \in [Users -> Names] /\ UsernameOf \in [Users -> Names]
  /\ Fold \in [Names -> Names]
  /\ Lengths \subseteq Nat /\ LengthOf \in [Users -> Lengths]
  /\ \A u, v \in Registered : u # v => ~Clash(u, v)

VARIABLES
  rows,         \* table auth_sessions
  identities,   \* table auth_identities
  memory,       \* sessionsById of the memory store
  byAccess,     \* sessionIdByAccessTokenHash
  byRefresh,    \* sessionIdByRefreshTokenHash
  recalled,     \* the memory identity repository
  fallback,     \* usingFallback of the session store
  idFallback,   \* usingFallback of the identity repository
  input,        \* the request
  stage,        \* the query at which its handler is suspended, or where it is
  at,           \* the store that query was sent to
  seen,         \* the session the handler has read
  account,      \* the identity a login has found
  answer,
  earlier,      \* the requests that had ended when this one began
  now, faults

tables == <<rows, identities>>
process == <<memory, byAccess, byRefresh, recalled, fallback, idFallback>>
handlers == <<input, stage, at, seen, account, answer, earlier>>
bounds == <<now, faults>>
vars == <<tables, process, handlers, bounds>>

-----------------------------------------------------------------------------
Times == 0..(Horizon + Ttl)
Pairs == Requests
Tokens == Pairs \cup {NoPair}

Session == [user: Users, access: Tokens, refresh: Tokens, revoked: BOOLEAN,
            expiresAt: Times]

Seen == [id: Requests, session: Session]

ASSUME AuthNulls ==
  /\ NoUser \notin Users /\ NoSession \notin Requests /\ NoPair \notin Requests
  /\ None \notin Session /\ None \notin Seen

Ops == {"register", "login", "refresh", "logout", "me"}

BearerOps == {"refresh", "logout", "me"}

\* The actor of the x-actor headers: none that is authenticated, or one with a role.
\* The roles above user may do on these routes what a user may.
Actors == {"anonymous", "public", "user"}

\* token is the access token of the header or cookie, refresh the one of the body;
\* who registers or logs in needs neither.
Inputs ==
  [op: {"register"}, who: Users] \cup
  [op: {"login"}, name: {Fold[n] : n \in Names}, length: Lengths] \cup
  [op: {"refresh"}, token: Pairs, refresh: Pairs, header: Actors] \cup
  [op: {"logout", "me"}, token: Pairs, header: Actors]

ASSUME AuthClients == Kinds \subseteq Ops /\ Headers \subseteq Actors

\* Where a statement has committed and the handler does not know it.
UnheardStages == {"inserted", "rotated", "revoked"}

IdentityStages == {"find", "insert", "inserted"}
SessionStages == {"resolve", "touch", "create", "rotate", "rotating", "rotated",
                  "revoke", "revoking", "revoked"}
Stages == {"idle", "answered", "lost"} \cup IdentityStages \cup SessionStages

Answers == {"none", "unauthenticated", "forbidden", "actor", "registered",
            "conflict", "issued", "notIssued", "refused", "revoked",
            "notRevoked"}

Init ==
  /\ rows = [s \in Requests |-> None]
  /\ identities = Registered
  /\ memory = [s \in Requests |-> None]
  /\ byAccess = [p \in Pairs |-> NoSession]
  /\ byRefresh = [p \in Pairs |-> NoSession]
  /\ recalled = {}
  /\ fallback = FALSE /\ idFallback = FALSE
  /\ input = [r \in Requests |->
                [op |-> "me", token |-> r, header |-> "anonymous"]]
  /\ stage = [r \in Requests |-> "idle"]
  /\ at = [r \in Requests |-> Backend]
  /\ seen = [r \in Requests |-> None]
  /\ account = [r \in Requests |-> NoUser]
  /\ answer = [r \in Requests |-> "none"]
  /\ earlier = [r \in Requests |-> {}]
  /\ now = 0 /\ faults = 0

-----------------------------------------------------------------------------
(***************************************************************************)
(* Control.                                                                *)
(***************************************************************************)
Running == {r \in Requests : stage[r] \in IdentityStages \cup SessionStages}

\* A handler whose next step is an operation of a memory store takes it before the
\* event loop turns to anybody else.
Settled(r) == r \in Running /\ at[r] = "memory"

Turn(r) == \A q \in Requests \ {r} : ~Settled(q)

\* The store that runWithFallback hands the next operation to.
StoreFor(s) ==
  IF \/ Backend = "memory"
     \/ s \in SessionStages /\ fallback
     \/ s \in IdentityStages /\ idFallback
  THEN "memory" ELSE "db"

Goto(r, s) ==
  /\ stage' = [stage EXCEPT ![r] = s]
  /\ at' = [at EXCEPT ![r] = StoreFor(s)]
  /\ UNCHANGED <<input, answer, earlier>>

\* The second query of the operation in hand goes to the store of the first.
Continue(r, s) ==
  /\ stage' = [stage EXCEPT ![r] = s]
  /\ UNCHANGED <<input, at, answer, earlier>>

Answer(r, a) ==
  /\ stage' = [stage EXCEPT ![r] = "answered"]
  /\ at' = [at EXCEPT ![r] = Backend]
  /\ answer' = [answer EXCEPT ![r] = a]
  /\ UNCHANGED <<input, earlier>>

Valid_IgnoresRevoked(session) == now < session.expiresAt

\* validateSessionRecord: the session, as it was read, may act now.
Valid(session) == ~session.revoked /\ now < session.expiresAt

-----------------------------------------------------------------------------
(***************************************************************************)
(* Requests.                                                               *)
(***************************************************************************)
Issued(p) == answer[p] = "issued"

\* A client sends tokens it was answered with, as long ago as it may be.  One that
\* goes by its headers may send none: a token of the request's own name, which
\* nobody was given and which leads nowhere.
Presents(r, i) ==
  /\ i.op \in Kinds
  /\ i.op \in BearerOps => /\ i.header \in Headers
                           /\ \/ Issued(i.token)
                              \/ i.token = r /\ i.header # "anonymous"
  /\ i.op = "refresh" => Issued(i.refresh)

FirstStage(op) ==
  CASE op = "register" -> "insert"
    [] op = "login" -> "find"
    [] OTHER -> "resolve"

Receive(r) ==
  /\ stage[r] = "idle"
  /\ Cardinality(Running) < InFlight
  /\ \E i \in Inputs :
       /\ Presents(r, i)
       /\ input' = [input EXCEPT ![r] = i]
       /\ stage' = [stage EXCEPT ![r] = FirstStage(i.op)]
       /\ at' = [at EXCEPT ![r] = StoreFor(FirstStage(i.op))]
  /\ earlier' = [earlier EXCEPT ![r] =
                    {q \in Requests : stage[q] \in {"answered", "lost"}}]
  /\ UNCHANGED <<tables, process, seen, account, answer, bounds>>

\* Every identity is registered as a user.
RoleCapabilities == [public |-> {"register", "login"}, user |-> BearerOps]

RequireAuth(actor) == actor # "anonymous"
RequireCapability(actor, op) == op \in RoleCapabilities[actor]
RequireRole(actor, op) == op \in {"refresh", "logout"} => actor = "user"

\* The guards of the route, then the handler up to its first query.
Dispatch(r, actor) ==
  \/ /\ ~RequireAuth(actor)
     /\ Answer(r, "unauthenticated")
  \/ /\ RequireAuth(actor)
     /\ ~(RequireCapability(actor, input[r].op) /\ RequireRole(actor, input[r].op))
     /\ Answer(r, "forbidden")
  \/ /\ RequireAuth(actor)
     /\ RequireCapability(actor, input[r].op) /\ RequireRole(actor, input[r].op)
     /\ \/ input[r].op = "me" /\ Answer(r, "actor")
        \/ input[r].op = "refresh" /\ Goto(r, "rotate")
        \/ input[r].op = "logout" /\ Goto(r, "revoke")

\* Where a token leads to, in the store of the query.
ByAccess(store, p) ==
  IF store = "memory" THEN byAccess[p]
  ELSE LET ids == {s \in Requests : rows[s] # None /\ rows[s].access = p}
       IN IF ids = {} THEN NoSession ELSE CHOOSE s \in ids : TRUE

ByRefresh(store, p) ==
  IF store = "memory" THEN byRefresh[p]
  ELSE LET ids == {s \in Requests : rows[s] # None /\ rows[s].refresh = p}
       IN IF ids = {} THEN NoSession ELSE CHOOSE s \in ids : TRUE

Read(store, s) == IF store = "memory" THEN memory[s] ELSE rows[s]

\* A token that leads to no session leaves the actor to the headers.
Resolve(r) ==
  /\ stage[r] = "resolve"
  /\ LET s == ByAccess(at[r], input[r].token)
     IN \/ /\ s = NoSession
           /\ Dispatch(r, input[r].header)
           /\ UNCHANGED seen
        \/ /\ s # NoSession
           /\ seen' = [seen EXCEPT ![r] = [id |-> s, session |-> Read(at[r], s)]]
           /\ Goto(r, "touch")
  /\ UNCHANGED <<tables, process, account, bounds>>

\* A session that was found decides, whatever the headers say.
ActorOf(session) == IF Valid(session) THEN "user" ELSE "anonymous"

Touch(r) ==
  /\ stage[r] = "touch"
  /\ Dispatch(r, ActorOf(seen[r].session))
  /\ seen' = [seen EXCEPT ![r] = IF input[r].op = "me" THEN None ELSE @]
  /\ UNCHANGED <<tables, process, account, bounds>>

-----------------------------------------------------------------------------
(***************************************************************************)
(* Accounts.                                                               *)
(***************************************************************************)
TakenInTable(u) == \E v \in identities : Clash(v, u)

\* The memory repository folds both.
TakenInMemory(u) ==
  \E v \in recalled : \/ Fold[EmailOf[v]] = Fold[EmailOf[u]]
                      \/ Fold[UsernameOf[v]] = Fold[UsernameOf[u]]

\* The client wraps the violation of a unique column like any failing query, so the
\* repository does not know it and starts again in memory, for good.
Register(r) ==
  /\ stage[r] = "insert"
  /\ LET u == input[r].who
     IN \/ /\ at[r] = "db" /\ ~TakenInTable(u)
           /\ Answer(r, "registered")
           /\ identities' = identities \cup {u}
           /\ UNCHANGED <<recalled, idFallback>>
        \/ /\ at[r] = "db" /\ TakenInTable(u)
           /\ idFallback' = TRUE
           /\ at' = [at EXCEPT ![r] = "memory"]
           /\ UNCHANGED <<identities, recalled, input, stage, answer, earlier>>
        \/ /\ at[r] = "memory" /\ TakenInMemory(u)
           /\ Answer(r, "conflict")
           /\ UNCHANGED <<identities, recalled, idFallback>>
        \/ /\ at[r] = "memory" /\ ~TakenInMemory(u)
           /\ Answer(r, "registered")
           /\ recalled' = recalled \cup {u}
           /\ UNCHANGED <<identities, idFallback>>
  /\ UNCHANGED <<rows, memory, byAccess, byRefresh, fallback, seen, account,
                 bounds>>

FoundInTable_ByUsername(name) == {u \in identities : name = Fold[UsernameOf[u]]}

\* Any row that matches, where the statement says limit 1.
FoundInTable(name) ==
  {u \in identities : name \in {Fold[EmailOf[u]], Fold[UsernameOf[u]]}}

FoundInMemory(name) ==
  LET byEmail == {u \in recalled : Fold[EmailOf[u]] = name}
  IN IF byEmail # {} THEN byEmail
     ELSE {u \in recalled : Fold[UsernameOf[u]] = name}

FindAccount(r) ==
  /\ stage[r] = "find"
  /\ LET found == IF at[r] = "memory" THEN FoundInMemory(input[r].name)
                  ELSE FoundInTable(input[r].name)
     IN \/ /\ found = {}
           /\ Answer(r, "refused")
           /\ UNCHANGED account
        \/ \E u \in found :
             \/ /\ LengthOf[u] # input[r].length
                /\ Answer(r, "refused")
                /\ UNCHANGED account
             \/ /\ LengthOf[u] = input[r].length
                /\ Goto(r, "create")
                /\ account' = [account EXCEPT ![r] = u]
  /\ UNCHANGED <<tables, process, seen, bounds>>

-----------------------------------------------------------------------------
(***************************************************************************)
(* Sessions.                                                               *)
(***************************************************************************)
Fresh(r, u) == [user |-> u, access |-> r, refresh |-> r, revoked |-> FALSE,
                expiresAt |-> now + Ttl]

\* The memory store holds session at s, and its tokens lead there.
Index(s, session) ==
  /\ memory' = [memory EXCEPT ![s] = session]
  /\ byAccess' = [byAccess EXCEPT ![session.access] = s]
  /\ byRefresh' = [byRefresh EXCEPT ![session.refresh] = s]

CreateSession(r) ==
  /\ stage[r] = "create"
  /\ \/ /\ at[r] = "db"
        /\ rows' = [rows EXCEPT ![r] = Fresh(r, account[r])]
        /\ UNCHANGED <<memory, byAccess, byRefresh>>
     \/ /\ at[r] = "memory"
        /\ Index(r, Fresh(r, account[r]))
        /\ UNCHANGED rows
  /\ seen' = [seen EXCEPT ![r] = [id |-> r, session |-> Fresh(r, account[r])]]
  /\ account' = [account EXCEPT ![r] = NoUser]
  /\ Answer(r, "issued")
  /\ UNCHANGED <<identities, recalled, fallback, idFallback, bounds>>

Rotated_FromExpiry(r, session) ==
  [session EXCEPT !.access = r, !.refresh = r, !.expiresAt = @ + Ttl]

\* The session with the new pair and the new expiry that rotation r gives it.
Rotated(r, session) ==
  [session EXCEPT !.access = r, !.refresh = r, !.expiresAt = now + Ttl]

Rotatable(s, store) == s # NoSession /\ Valid(Read(store, s))
Revocable(s, store) == s # NoSession /\ ~Read(store, s).revoked

\* rotateByRefreshToken of Postgres, up to the update.
RotateRead(r) ==
  /\ stage[r] = "rotate" /\ at[r] = "db"
  /\ LET s == ByRefresh("db", input[r].refresh)
     IN \/ /\ ~Rotatable(s, "db")
           /\ Answer(r, "notIssued")
           /\ UNCHANGED seen
        \/ /\ Rotatable(s, "db")
           /\ seen' = [seen EXCEPT
                         ![r] = [id |-> s, session |-> Rotated(r, rows[s])]]
           /\ Continue(r, "rotating")
  /\ UNCHANGED <<tables, process, account, bounds>>

RotateRows_AnyState(r) == {seen[r].id}

RotateRows_AnySession(r) == {s \in Requests : rows[s] # None /\ ~rows[s].revoked}

\* update ... where id = $5 and revoked_at is null.
RotateRows(r) ==
  {s \in Requests : s = seen[r].id /\ ~rows[s].revoked}

RotateInto_KeepsRefresh(r, pair) ==
  [s \in Requests |->
     IF s \in RotateRows(r)
     THEN [rows[s] EXCEPT !.access = pair, !.expiresAt = seen[r].session.expiresAt]
     ELSE rows[s]]

\* The table once the update has put the pair in.
RotateInto(r, pair) ==
  [s \in Requests |->
     IF s \in RotateRows(r)
     THEN [rows[s] EXCEPT !.access = pair, !.refresh = pair,
                          !.expiresAt = seen[r].session.expiresAt]
     ELSE rows[s]]

RotateWrite(r) ==
  /\ stage[r] = "rotating" /\ at[r] = "db"
  /\ rows' = RotateInto(r, r)
  /\ Answer(r, IF RotateRows(r) = {} THEN "notIssued" ELSE "issued")
  /\ UNCHANGED <<identities, process, seen, account, bounds>>

Reindexed_OldKept(index, old, r, s) == [index EXCEPT ![r] = s]

\* The entries of the old pair go, those of the new one come.
Reindexed(index, old, r, s) == [index EXCEPT ![old] = NoSession, ![r] = s]

RotateInMemory(r) ==
  /\ stage[r] = "rotate" /\ at[r] = "memory"
  /\ LET s == byRefresh[input[r].refresh]
         new == Rotated(r, memory[s])
     IN \/ /\ ~Rotatable(s, "memory")
           /\ Answer(r, "notIssued")
           /\ UNCHANGED <<memory, byAccess, byRefresh, seen>>
        \/ /\ Rotatable(s, "memory")
           /\ memory' = [memory EXCEPT ![s] = new]
           /\ byAccess' = Reindexed(byAccess, memory[s].access, r, s)
           /\ byRefresh' = Reindexed(byRefresh, memory[s].refresh, r, s)
           /\ seen' = [seen EXCEPT ![r] = [id |-> s, session |-> new]]
           /\ Answer(r, "issued")
  /\ UNCHANGED <<tables, recalled, fallback, idFallback, account, bounds>>

\* revokeByAccessToken of Postgres, up to the update.
RevokeRead(r) ==
  /\ stage[r] = "revoke" /\ at[r] = "db"
  /\ LET s == ByAccess("db", input[r].token)
     IN \/ /\ ~Revocable(s, "db")
           /\ Answer(r, "notRevoked")
           /\ UNCHANGED seen
        \/ /\ Revocable(s, "db")
           /\ seen' = [seen EXCEPT ![r] = [id |-> s, session |-> rows[s]]]
           /\ Continue(r, "revoking")
  /\ UNCHANGED <<tables, process, account, bounds>>

RevokeRows_Unexpired(r) ==
  {s \in Requests : /\ rows[s] # None
                    /\ rows[s].access = input[r].token
                    /\ Valid(rows[s])}

\* update ... where access_token_hash = $2 and revoked_at is null; the answer does
\* not look at the number of rows.
RevokeRows(r) ==
  {s \in Requests : /\ rows[s] # None
                    /\ rows[s].access = input[r].token
                    /\ ~rows[s].revoked}

Revoked(r) ==
  [s \in Requests |->
     IF s \in RevokeRows(r) THEN [rows[s] EXCEPT !.revoked = TRUE] ELSE rows[s]]

RevokeWrite(r) ==
  /\ stage[r] = "revoking" /\ at[r] = "db"
  /\ rows' = Revoked(r)
  /\ Answer(r, "revoked")
  /\ UNCHANGED <<identities, process, seen, account, bounds>>

RevokeInMemory(r) ==
  /\ stage[r] = "revoke" /\ at[r] = "memory"
  /\ LET s == byAccess[input[r].token]
     IN \/ /\ ~Revocable(s, "memory")
           /\ Answer(r, "notRevoked")
           /\ UNCHANGED <<memory, seen>>
        \/ /\ Revocable(s, "memory")
           /\ memory' = [memory EXCEPT ![s].revoked = TRUE]
           /\ seen' = [seen EXCEPT ![r] = [id |-> s, session |-> memory[s]]]
           /\ Answer(r, "revoked")
  /\ UNCHANGED <<tables, byAccess, byRefresh, recalled, fallback, idFallback,
                 account, bounds>>

-----------------------------------------------------------------------------
(***************************************************************************)
(* Faults.                                                                 *)
(***************************************************************************)
\* The statement in hand commits and its result is lost; the handler will find its
\* query failed, or die with the process.  A rotation leaves a pair that reached
\* nobody.  One that changes nothing is a query that failed, and a login's insert
\* leaves a row that no token leads to: both are left out.
CommitUnheard(r) ==
  /\ faults < MaxFaults
  /\ at[r] = "db"
  /\ faults' = faults + 1
  /\ \/ /\ stage[r] = "insert" /\ ~TakenInTable(input[r].who)
        /\ identities' = identities \cup {input[r].who}
        /\ Continue(r, "inserted")
        /\ UNCHANGED <<rows, seen>>
     \/ /\ stage[r] = "rotating" /\ RotateRows(r) # {}
        /\ rows' = RotateInto(r, NoPair)
        /\ seen' = [seen EXCEPT ![r].session =
                      [@ EXCEPT !.access = NoPair, !.refresh = NoPair]]
        /\ Continue(r, "rotated")
        /\ UNCHANGED identities
     \/ /\ stage[r] = "revoking" /\ RevokeRows(r) # {}
        /\ rows' = Revoked(r)
        /\ Continue(r, "revoked")
        /\ UNCHANGED <<identities, seen>>
  /\ UNCHANGED <<process, account, now>>

\* The operation starts again on the memory store, and every later one goes there.
Anew(s) ==
  CASE s \in {"rotating", "rotated"} -> "rotate"
    [] s \in {"revoking", "revoked"} -> "revoke"
    [] s = "inserted" -> "insert"
    [] OTHER -> s

\* The loss of a result has been counted when the statement committed.
Counted(lost) == /\ lost \/ faults < MaxFaults
                 /\ faults' = IF lost THEN faults ELSE faults + 1

RerunInMemory(r, stages) ==
  /\ Counted(stage[r] \in UnheardStages)
  /\ stage[r] \in stages /\ at[r] = "db"
  /\ stage' = [stage EXCEPT ![r] = Anew(stage[r])]
  /\ at' = [at EXCEPT ![r] = "memory"]
  /\ UNCHANGED <<tables, memory, byAccess, byRefresh, recalled, input, seen,
                 account, answer, earlier, now>>

SessionQueryFails(r) ==
  /\ RerunInMemory(r, SessionStages)
  /\ fallback' = TRUE
  /\ UNCHANGED idFallback

IdentityQueryFails(r) ==
  /\ RerunInMemory(r, IdentityStages)
  /\ idFallback' = TRUE
  /\ UNCHANGED fallback

\* Requests in flight are not answered, what is in memory is gone.  Bound: a restart
\* that takes nothing away is left out.
Restart ==
  /\ Counted(\E r \in Requests : stage[r] \in UnheardStages)
  /\ Running # {} \/ fallback \/ idFallback \/ Backend = "memory"
  /\ memory' = [s \in Requests |-> None]
  /\ byAccess' = [p \in Pairs |-> NoSession]
  /\ byRefresh' = [p \in Pairs |-> NoSession]
  /\ recalled' = {}
  /\ fallback' = FALSE /\ idFallback' = FALSE
  /\ stage' = [r \in Requests |-> IF r \in Running THEN "lost" ELSE stage[r]]
  /\ at' = [r \in Requests |-> Backend]
  /\ account' = [r \in Requests |-> NoUser]
  /\ UNCHANGED <<tables, input, seen, answer, earlier, now>>

\* Bound: time before there is a session is left out.
Tick ==
  /\ now < Horizon
  /\ \E s \in Requests : rows[s] # None \/ memory[s] # None
  /\ now' = now + 1
  /\ UNCHANGED <<tables, process, handlers, faults>>

Done ==
  /\ Running = {} /\ \A r \in Requests : stage[r] # "idle"
  /\ UNCHANGED vars

Step(r) ==
  \/ Receive(r) \/ Resolve(r) \/ Touch(r)
  \/ Register(r) \/ FindAccount(r) \/ CreateSession(r)
  \/ RotateRead(r) \/ RotateWrite(r) \/ RotateInMemory(r)
  \/ RevokeRead(r) \/ RevokeWrite(r) \/ RevokeInMemory(r)
  \/ CommitUnheard(r) \/ SessionQueryFails(r) \/ IdentityQueryFails(r)

Next ==
  \/ \E r \in Requests : Turn(r) /\ Step(r)
  \/ Restart
  \/ Tick
  \/ Done

Spec == Init /\ [][Next]_vars
-----------------------------------------------------------------------------
(***************************************************************************)
(* Properties.                                                             *)
(***************************************************************************)
TypeOK ==
  /\ rows \in [Requests -> Session \cup {None}]
  /\ memory \in [Requests -> Session \cup {None}]
  /\ identities \subseteq Users /\ recalled \subseteq Users
  /\ byAccess \in [Pairs -> Requests \cup {NoSession}]
  /\ byRefresh \in [Pairs -> Requests \cup {NoSession}]
  /\ fallback \in BOOLEAN /\ idFallback \in BOOLEAN
  /\ input \in [Requests -> Inputs]
  /\ stage \in [Requests -> Stages]
  /\ at \in [Requests -> {"db", "memory"}]
  /\ seen \in [Requests -> Seen \cup {None}]
  /\ account \in [Requests -> Users \cup {NoUser}]
  /\ answer \in [Requests -> Answers]
  /\ earlier \in [Requests -> SUBSET Requests]
  /\ now \in 0..Horizon /\ faults \in 0..MaxFaults

\* The two requests were in flight at the same time.
Overlap(q, r) == q \notin earlier[r] /\ r \notin earlier[q]

\* The rotation has committed and its pair reached nobody.
Unheard(r) == seen[r] # None /\ seen[r].session.access = NoPair

Rotations == {r \in Requests : input[r].op = "refresh" /\ (Issued(r) \/ Unheard(r))}

\* The token maps of the memory store lead to the session that holds the token,
\* and every session can be reached by its own tokens and by no others: a rotation
\* leaves no way in through the tokens it has replaced.
IndexAgrees ==
  \A p \in Pairs, s \in Requests :
    /\ byAccess[p] = s <=> memory[s] # None /\ memory[s].access = p
    /\ byRefresh[p] = s <=> memory[s] # None /\ memory[s].refresh = p

\* A revoked session stays revoked and keeps its tokens, although a rotation that
\* read it before the revocation may write it afterwards (session.ts:284).
RevokedStaysRevoked ==
  [][\A s \in Requests :
       rows[s] # None /\ rows[s].revoked => rows'[s] = rows[s]]_vars

\* Once a logout has been told that it revoked, whatever session its token leads to
\* in either store is revoked, and a later request with that token is served only as
\* the actor of its own headers: whatever raced with the logout, after a switch to
\* memory or a restart (request-actor.ts:136).
NoActorAfterLogout ==
  \A l \in Requests : answer[l] = "revoked" =>
    /\ \A store \in {"db", "memory"} :
         LET s == ByAccess(store, input[l].token)
         IN s # NoSession => Read(store, s).revoked
    /\ \A r \in Requests :
         /\ l \in earlier[r] /\ input[r].op \in BearerOps
         /\ input[r].token = input[l].token /\ input[r].header = "anonymous"
         => answer[r] \in {"none", "unauthenticated"}

\* A logout that reports success has revoked the session it read, unless a refresh
\* of that session was in flight with it: then the token it names is gone and the
\* session lives on with the next pair (session.ts:301-309), where the runbook promises
\* that neither token works (auth-session-runbook.md:87-91).
LogoutMissesOnlyOverlap ==
  \A l \in Requests :
    answer[l] = "revoked" /\ rows[seen[l].id] # None =>
      \/ rows[seen[l].id].revoked
      \/ \E r \in Rotations : r # l /\ seen[r].id = seen[l].id /\ Overlap(l, r)

\* A refresh token is good for one rotation: two that commit with it were in flight
\* together, whether or not their answers arrived.
ReplaysOverlap ==
  \A q, r \in Rotations :
    q # r /\ input[q].refresh = input[r].refresh => Overlap(q, r)

\* The tokens of an answer open their session, as long as the rows are what the
\* process goes by, until a rotation with them commits; but a rotation of the same
\* session in flight together with the request that got them may kill them at once.
\* A rotation whose answer is lost kills them like any other.
TokensDieByRotation ==
  \A p \in Requests :
    Issued(p) /\ rows[seen[p].id] # None /\ rows[seen[p].id].access # p =>
      \E r \in Rotations :
        /\ r # p /\ seen[r].id = seen[p].id
        /\ input[r].refresh = p \/ Overlap(p, r)

\* A registration that meets a name or e-mail somebody has, or is about to have.
Duplicate(q) ==
  /\ input[q].op = "register"
  /\ \/ \E u \in Registered : Clash(u, input[q].who)
     \/ \E p \in Requests \ {q} : /\ input[p].op = "register"
                                  /\ Clash(input[p].who, input[q].who)

\* Whoever is registered with Postgres and gives their own e-mail and password is
\* refused only where somebody else has that e-mail for a username, or by a process
\* that has left Postgres, for a fault or for somebody's duplicate registration
\* (identity.ts:161,205).
OwnEmailLogsIn ==
  [][\A r \in Requests, u \in Registered :
       /\ answer[r] # "refused" /\ answer'[r] = "refused"
       /\ input[r].name = Fold[EmailOf[u]] /\ input[r].length = LengthOf[u]
       /\ Backend = "db"
       => \/ \E v \in identities \ {u} : Fold[UsernameOf[v]] = Fold[EmailOf[u]]
          \/ idFallback /\ (faults > 0 \/ \E q \in Requests : Duplicate(q))]_vars
=============================================================================
