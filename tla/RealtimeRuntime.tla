--------------------------- MODULE RealtimeRuntime ---------------------------
(***************************************************************************)
(* The realtime runtime of apps/api (realtime/runtime.ts) with its three   *)
(* registries: connections and their subscriptions, presence in rooms, and *)
(* workspace sessions.                                                     *)
(*                                                                         *)
(* Every handler of the runtime is synchronous, except for the upgrade,    *)
(* which awaits the session resolver: an action is a whole handler with    *)
(* the broadcasts it makes, and an upgrade is two actions.  A handler that *)
(* treats several connections, sessions or subscriptions one by one (the   *)
(* heartbeat, stop, the replay of a snapshot) is one step on their set.    *)
(*                                                                         *)
(* Time passes in steps of one heartbeat interval.  Instead of times the   *)
(* model keeps ages, counted up to Horizon.                                *)
(***************************************************************************)
EXTENDS Integers, FiniteSets

CONSTANTS
  Connections,   \* connection ids; an upgrade request carries the id it will get
  Users,
  Topics,        \* topics a client may subscribe to
  Rooms,         \* the topics "contribution:<id>", each with its room
  NoToken, NoContext, NoSession, NoSnapshot,
  StaleAfter,         \* heartbeatStaleThresholdMs
  SessionStaleAfter,  \* workspaceSessionStaleThresholdMs
  TokenWindow,        \* reconnectTokenWindowMs
  Horizon             \* bound: ages are counted up to here

ASSUME RuntimeAssumption ==
  /\ Rooms \subseteq Topics
  /\ NoToken \notin Connections
  /\ StaleAfter \in Nat /\ SessionStaleAfter \in Nat /\ Horizon \in Nat
  /\ TokenWindow \in Nat \ {0}
  /\ StaleAfter <= SessionStaleAfter
  /\ SessionStaleAfter < Horizon

VARIABLES
  running,    \* start() was called and stop() was not
  link,       \* the websocket of a connection, as it is
  asked,      \* the reconnect token of an upgrade request that is resolved
  contexts,   \* connection registry: contexts
  subs,       \*   subscriptionsByConnection
  listeners,  \*   connectionIdsByTopic
  clients,    \* the runtime's clients
  rooms,      \* presence registry: connectionRooms
  present,    \*   roomUserConnections
  active,     \*   roomUsers
  sessions,   \* workspace session registry: sessionsByWorkspaceActor
  actors,     \*   workspaceActors
  bound,      \*   workspacesByConnection
  snapshots,  \* disconnectedSubscriptionSnapshot
  roster      \* what the client of a connection shows for a room

connectionRegistry == <<contexts, subs, listeners, clients>>
presenceRegistry == <<rooms, present, active>>
sessionRegistry == <<sessions, actors, bound>>
vars == <<running, link, asked, connectionRegistry, presenceRegistry,
          sessionRegistry, snapshots, roster>>

-----------------------------------------------------------------------------
Ages == 0..Horizon

\* A reconnect token is rct_<uuid>; here it is named by the connection that was
\* first given it.
Context == [user: Users, token: Connections, age: Ages]

Session == [conns: SUBSET Connections, idle: Ages]

Snapshot == [user: Users, topics: SUBSET Topics, left: 0..TokenWindow]

\* "silent": the peer is gone and the server has not been told.
\* "closing": closed by the server, or after a refusal.
Links == {"unused", "resolving", "open", "silent", "closing", "closed"}

\* users: the active users of presence.ts; actors: the actors of the participants
\* of workspace-sessions.ts.
Roster == [users: SUBSET Users, actors: SUBSET Users]

Blank == [users |-> {}, actors |-> {}]

TypeOK ==
  /\ running \in BOOLEAN
  /\ link \in [Connections -> Links]
  /\ asked \in [Connections -> Connections \cup {NoToken}]
  /\ contexts \in [Connections -> Context \cup {NoContext}]
  /\ subs \in [Connections -> SUBSET Topics]
  /\ listeners \in [Topics -> SUBSET Connections]
  /\ clients \subseteq Connections
  /\ rooms \in [Connections -> SUBSET Rooms]
  /\ present \in [Rooms -> [Users -> SUBSET Connections]]
  /\ active \in [Rooms -> SUBSET Users]
  /\ sessions \in [Rooms -> [Users -> Session \cup {NoSession}]]
  /\ actors \in [Rooms -> SUBSET Users]
  /\ bound \in [Connections -> SUBSET Rooms]
  /\ snapshots \in [Connections -> Snapshot \cup {NoSnapshot}]
  /\ roster \in [Connections -> [Rooms -> Roster]]

ASSUME NullsAssumption ==
  NoContext \notin Context /\ NoSession \notin Session /\ NoSnapshot \notin Snapshot

Registered == {c \in Connections : contexts[c] # NoContext}

Older(age) == IF age < Horizon THEN age + 1 ELSE age

-----------------------------------------------------------------------------
(***************************************************************************)
(* A connection subscribes to a set T of topics: a message carries one, the *)
(* replay of a snapshot several.  u is the user of c.                      *)
(***************************************************************************)
Subscribed(c, T) ==
  /\ subs' = [subs EXCEPT ![c] = @ \cup T]
  /\ listeners' = [t \in Topics |->
                     IF t \in T THEN listeners[t] \cup {c} ELSE listeners[t]]

JoinRooms(c, u, T) ==
  /\ rooms' = [rooms EXCEPT ![c] = @ \cup (T \cap Rooms)]
  /\ present' = [r \in Rooms |->
                   IF r \in T THEN [present[r] EXCEPT ![u] = @ \cup {c}]
                              ELSE present[r]]
  /\ active' = [r \in Rooms |->
                  IF r \in T THEN active[r] \cup {u} ELSE active[r]]

JoinSessions(c, u, T) ==
  /\ sessions' = [r \in Rooms |->
       IF r \notin T THEN sessions[r]
       ELSE [sessions[r] EXCEPT ![u] =
               [conns |-> {c} \cup (IF @ = NoSession THEN {} ELSE @.conns),
                idle  |-> 0]]]
  /\ actors' = [r \in Rooms |->
                  IF r \in T THEN actors[r] \cup {u} ELSE actors[r]]
  /\ bound' = [bound EXCEPT ![c] = @ \cup (T \cap Rooms)]

\* The user was not yet in the room, resp. had no workspace session there: the
\* others are told.
IsNewcomer(c, u, r) == present[r][u] \subseteq {c}

IsNewParticipant(c, u, r) ==
  sessions[r][u] = NoSession \/ c \notin sessions[r][u].conns

\* send() drops the message when the socket is not open.
Reached(d) == link[d] \in {"open", "silent"}

\* Snapshots for c itself, presence.joined and session.joined or .updated for all
\* who listen to the room.
Welcome(c, u, T) ==
  roster' = [d \in Connections |-> [r \in Rooms |->
    IF r \notin T THEN roster[d][r]
    ELSE IF d = c THEN [users |-> active'[r], actors |-> actors'[r]]
    ELSE IF d \in listeners[r] /\ d \in clients /\ Reached(d)
         THEN [users  |-> IF IsNewcomer(c, u, r) THEN active'[r]
                                                 ELSE roster[d][r].users,
               actors |-> IF IsNewParticipant(c, u, r)
                          THEN roster[d][r].actors \cup {u}
                          ELSE roster[d][r].actors]
    ELSE roster[d][r]]]

SubscribeTo(c, u, T) ==
  /\ Subscribed(c, T)
  /\ JoinRooms(c, u, T)
  /\ JoinSessions(c, u, T)
  /\ Welcome(c, u, T)

(***************************************************************************)
(* The upgrade of an HTTP request.                                         *)
(***************************************************************************)
\* cleanupDisconnectedSnapshots
LiveSnapshots ==
  [k \in Connections |->
     IF snapshots[k] # NoSnapshot /\ snapshots[k].left = 0
     THEN NoSnapshot ELSE snapshots[k]]

\* The request arrives; the token it carries is one that was given out.
StartUpgrade(c, token) ==
  /\ running
  /\ link[c] = "unused"
  /\ token # NoToken => link[token] \notin {"unused", "resolving"}
  /\ link' = [link EXCEPT ![c] = "resolving"]
  /\ asked' = [asked EXCEPT ![c] = token]
  /\ snapshots' = LiveSnapshots
  /\ UNCHANGED <<running, connectionRegistry, presenceRegistry, sessionRegistry,
                 roster>>

RejectUpgrade(c) ==
  /\ link[c] = "resolving"
  /\ link' = [link EXCEPT ![c] = "closed"]
  /\ asked' = [asked EXCEPT ![c] = NoToken]
  /\ UNCHANGED <<running, connectionRegistry, presenceRegistry,
                 sessionRegistry, snapshots, roster>>

\* The snapshot the token of c restores for user u.
Restorable(c, u) ==
  /\ asked[c] # NoToken
  /\ snapshots[asked[c]] # NoSnapshot
  /\ snapshots[asked[c]].user = u
  /\ snapshots[asked[c]].left > 0

Register(c, u, token) ==
  /\ link' = [link EXCEPT ![c] = "open"]
  /\ contexts' = [contexts EXCEPT ![c] = [user |-> u, token |-> token, age |-> 0]]
  /\ clients' = clients \cup {c}

\* Mutant: the snapshot is kept when it has been replayed.
FinishUpgrade_Kept(c, u) ==
  /\ link[c] = "resolving"
  /\ IF Restorable(c, u)
     THEN /\ Register(c, u, asked[c])
          /\ SubscribeTo(c, u, snapshots[asked[c]].topics)
          /\ UNCHANGED snapshots
     ELSE /\ Register(c, u, c)
          /\ UNCHANGED <<subs, listeners, presenceRegistry, sessionRegistry,
                         snapshots, roster>>
  /\ asked' = [asked EXCEPT ![c] = NoToken]
  /\ UNCHANGED running

\* The resolver has found user u: the rest of the upgrade is one step.
FinishUpgrade(c, u) ==
  /\ link[c] = "resolving"
  /\ IF Restorable(c, u)
     THEN /\ Register(c, u, asked[c])
          /\ SubscribeTo(c, u, snapshots[asked[c]].topics)
          /\ snapshots' = [snapshots EXCEPT ![asked[c]] = NoSnapshot]
     ELSE /\ Register(c, u, c)
          /\ UNCHANGED <<subs, listeners, presenceRegistry, sessionRegistry,
                         snapshots, roster>>
  /\ asked' = [asked EXCEPT ![c] = NoToken]
  /\ UNCHANGED running

(***************************************************************************)
(* Messages of a client.                                                   *)
(***************************************************************************)
\* A message on a registered connection: the runtime drops the others, or answers
\* them without touching a registry.
Receives(c) == link[c] = "open" /\ contexts[c] # NoContext

Subscribe(c, t) ==
  /\ Receives(c)
  /\ SubscribeTo(c, contexts[c].user, {t})
  /\ UNCHANGED <<running, link, asked, contexts, clients, snapshots>>

\* leaveSession, for the connections in D and the actors of the rooms in R.
SessionWithout(D, session) ==
  IF session = NoSession \/ session.conns \subseteq D
  THEN NoSession
  ELSE [conns |-> session.conns \ D, idle |-> 0]

\* Mutant: a user leaves the room with the first of their connections.
ActiveWithout_First(D, r) ==
  {u \in active[r] : present[r][u] \cap D = {}}

\* roomUsers when the connections in D have left room r: a user stays as long as
\* another connection of theirs is in the room.
ActiveWithout(D, r) ==
  {u \in active[r] : present[r][u] \cap D = {} \/ ~(present[r][u] \subseteq D)}

\* The rest of r's listeners are told of the users and actors that have left.
Farewell(D, r, stays) ==
  [users  |-> IF active'[r] # active[r] THEN active'[r] ELSE stays.users,
   actors |-> stays.actors \ (actors[r] \ actors'[r])]

Unsubscribe(c, t) ==
  /\ Receives(c)
  /\ t \in subs[c]
  /\ subs' = [subs EXCEPT ![c] = @ \ {t}]
  /\ listeners' = [listeners EXCEPT ![t] = @ \ {c}]
  /\ IF t \notin Rooms
     THEN UNCHANGED <<presenceRegistry, sessionRegistry, roster>>
     ELSE LET u == contexts[c].user
          IN /\ rooms' = [rooms EXCEPT ![c] = @ \ {t}]
             /\ present' = [present EXCEPT ![t][u] = @ \ {c}]
             /\ active' = [active EXCEPT ![t] = ActiveWithout({c}, t)]
             /\ sessions' = [sessions EXCEPT ![t][u] = SessionWithout({c}, @)]
             /\ actors' = [actors EXCEPT ![t] =
                             IF SessionWithout({c}, sessions[t][u]) = NoSession
                             THEN @ \ {u} ELSE @]
             /\ bound' = [bound EXCEPT ![c] =
                            IF sessions[t][u] = NoSession THEN @ ELSE @ \ {t}]
             /\ roster' = [d \in Connections |->
                  IF d = c THEN [roster[d] EXCEPT ![t] = Blank]
                  ELSE IF d \in listeners[t] /\ d \in clients /\ Reached(d)
                  THEN [roster[d] EXCEPT ![t] = Farewell({c}, t, @)]
                  ELSE roster[d]]
  /\ UNCHANGED <<running, link, asked, contexts, clients, snapshots>>

\* Mutant: the sessions of the connection are not touched.
HeartbeatAck_NoTouch(c, age) ==
  /\ Receives(c)
  /\ age \in 0..contexts[c].age
  /\ contexts' = [contexts EXCEPT ![c].age = age]
  /\ UNCHANGED <<running, link, asked, subs, listeners, clients,
                 presenceRegistry, sessionRegistry, snapshots, roster>>

\* The client echoes the time of a heartbeat (client.ts), one sent after the last
\* that it has echoed.  touchConnection takes the time from the clock.
HeartbeatAck(c, age) ==
  /\ Receives(c)
  /\ age \in 0..contexts[c].age
  /\ contexts' = [contexts EXCEPT ![c].age = age]
  /\ sessions' = [r \in Rooms |-> [u \in Users |->
       IF /\ r \in bound[c] /\ u \in actors[r]
          /\ sessions[r][u] # NoSession /\ c \in sessions[r][u].conns
       THEN [sessions[r][u] EXCEPT !.idle = 0]
       ELSE sessions[r][u]]]
  /\ UNCHANGED <<running, link, asked, subs, listeners, clients,
                 presenceRegistry, actors, bound, snapshots, roster>>

(***************************************************************************)
(* disconnect, for a set D of registered connections, after the workspace  *)
(* sessions in E were evicted.                                             *)
(***************************************************************************)
\* Mutant: the topic index is cleaned for the rooms only.
Unregister_Rooms(D) ==
  /\ contexts' = [c \in Connections |-> IF c \in D THEN NoContext ELSE contexts[c]]
  /\ subs' = [c \in Connections |-> IF c \in D THEN {} ELSE subs[c]]
  /\ listeners' = [t \in Topics |->
       IF t \in Rooms THEN listeners[t] \ D ELSE listeners[t]]
  /\ clients' = clients \ D

Unregister(D) ==
  /\ contexts' = [c \in Connections |-> IF c \in D THEN NoContext ELSE contexts[c]]
  /\ subs' = [c \in Connections |-> IF c \in D THEN {} ELSE subs[c]]
  /\ listeners' = [t \in Topics |-> listeners[t] \ {c \in D : t \in subs[c]}]
  /\ clients' = clients \ D

LeaveRooms(D) ==
  /\ rooms' = [c \in Connections |-> IF c \in D THEN {} ELSE rooms[c]]
  /\ present' = [r \in Rooms |-> [u \in Users |-> present[r][u] \ D]]
  /\ active' = [r \in Rooms |-> ActiveWithout(D, r)]

\* removeConnection calls leaveSession for every actor of the rooms D is bound to,
\* and so refreshes the sessions of others.
LeaveSessions(D, E) ==
  LET touched == UNION {bound[c] : c \in D}
  IN /\ sessions' = [r \in Rooms |-> [u \in Users |->
          IF <<r, u>> \in E THEN NoSession
          ELSE IF r \in touched THEN SessionWithout(D, sessions[r][u])
          ELSE sessions[r][u]]]
     /\ actors' = [r \in Rooms |-> {u \in actors[r] : sessions'[r][u] # NoSession}]
     /\ bound' = [c \in Connections |-> IF c \in D THEN {} ELSE bound[c]]

\* Mutant: nobody is told of a participant whose session was evicted or lost.
SayGoodbye_Presence(D) ==
  roster' = [d \in Connections |-> [r \in Rooms |->
    IF d \in D THEN Blank
    ELSE IF d \in listeners[r] /\ d \in clients /\ Reached(d)
    THEN [Farewell(D, r, roster[d][r]) EXCEPT !.actors = roster[d][r].actors]
    ELSE roster[d][r]]]

\* presence.left and session.left for those who still listen.
SayGoodbye(D) ==
  roster' = [d \in Connections |-> [r \in Rooms |->
    IF d \in D THEN Blank
    ELSE IF d \in listeners[r] /\ d \in clients /\ Reached(d)
    THEN Farewell(D, r, roster[d][r])
    ELSE roster[d][r]]]

Disconnect(D, E) ==
  /\ Unregister(D)
  /\ LeaveRooms(D)
  /\ LeaveSessions(D, E)
  /\ SayGoodbye(D)

\* Mutant: the snapshot is filed with the token in the place of the user.
SnapshotsWith_Token(D, kept) ==
  [k \in Connections |->
     IF \E c \in D : contexts[c].token = k
     THEN LET c == CHOOSE c \in D : contexts[c].token = k
          IN [user |-> k, topics |-> subs[c], left |-> TokenWindow]
     ELSE kept[k]]

\* The subscriptions of D are kept under the reconnect tokens of D.
SnapshotsWith(D, kept) ==
  [k \in Connections |->
     IF \E c \in D : contexts[c].token = k
     THEN LET c == CHOOSE c \in D : contexts[c].token = k
          IN [user |-> contexts[c].user, topics |-> subs[c], left |-> TokenWindow]
     ELSE kept[k]]

\* The peer vanishes, or starts the closing handshake.
PeerLeaves(c) ==
  /\ link[c] = "open"
  /\ \E l \in {"silent", "closing"} : link' = [link EXCEPT ![c] = l]
  /\ UNCHANGED <<running, asked, connectionRegistry, presenceRegistry,
                 sessionRegistry, snapshots, roster>>

\* The close event of a socket.  It comes also after a disconnect by the server,
\* and finds nothing then.
SocketCloses(c) ==
  LET D == {c} \cap Registered
  IN /\ link[c] \in {"open", "silent", "closing"}
     /\ link' = [link EXCEPT ![c] = "closed"]
     /\ Disconnect(D, {})
     /\ snapshots' = SnapshotsWith(D, snapshots)
     /\ UNCHANGED <<running, asked>>

(***************************************************************************)
(* The timer.                                                              *)
(***************************************************************************)
\* One heartbeat interval passes.
Tick ==
  /\ contexts' = [c \in Connections |->
       IF contexts[c] = NoContext THEN NoContext
       ELSE [contexts[c] EXCEPT !.age = Older(@)]]
  /\ sessions' = [r \in Rooms |-> [u \in Users |->
       IF sessions[r][u] = NoSession THEN NoSession
       ELSE [sessions[r][u] EXCEPT !.idle = Older(@)]]]
  /\ snapshots' = [k \in Connections |->
       IF snapshots[k] = NoSnapshot THEN NoSnapshot
       ELSE [snapshots[k] EXCEPT !.left = IF @ = 0 THEN 0 ELSE @ - 1]]
  /\ UNCHANGED <<running, link, asked, subs, listeners, clients,
                 presenceRegistry, actors, bound, roster>>

\* cleanupStaleSessions
Evicted ==
  {p \in Rooms \X Users :
     /\ sessions[p[1]][p[2]] # NoSession
     /\ sessions[p[1]][p[2]].idle > SessionStaleAfter}

TimedOut == {c \in Registered \cap clients : contexts[c].age > StaleAfter}

\* sendHeartbeat: the timer may be late, but it does not run after stop().
Heartbeat ==
  /\ running
  /\ link' = [c \in Connections |-> IF c \in TimedOut THEN "closing" ELSE link[c]]
  /\ Disconnect(TimedOut, Evicted)
  /\ snapshots' = SnapshotsWith(TimedOut, LiveSnapshots)
  /\ UNCHANGED <<running, asked>>

\* stop(): nobody is told, the clients are forgotten first.
Stop ==
  /\ running
  /\ running' = FALSE
  /\ link' = [c \in Connections |->
               IF link[c] \in {"open", "silent"} THEN "closing" ELSE link[c]]
  /\ Disconnect(Registered, {})
  /\ snapshots' = [k \in Connections |-> NoSnapshot]
  /\ UNCHANGED asked

-----------------------------------------------------------------------------
Init ==
  /\ running = TRUE
  /\ link = [c \in Connections |-> "unused"]
  /\ asked = [c \in Connections |-> NoToken]
  /\ contexts = [c \in Connections |-> NoContext]
  /\ subs = [c \in Connections |-> {}]
  /\ listeners = [t \in Topics |-> {}]
  /\ clients = {}
  /\ rooms = [c \in Connections |-> {}]
  /\ present = [r \in Rooms |-> [u \in Users |-> {}]]
  /\ active = [r \in Rooms |-> {}]
  /\ sessions = [r \in Rooms |-> [u \in Users |-> NoSession]]
  /\ actors = [r \in Rooms |-> {}]
  /\ bound = [c \in Connections |-> {}]
  /\ snapshots = [k \in Connections |-> NoSnapshot]
  /\ roster = [c \in Connections |-> [r \in Rooms |-> Blank]]

Next ==
  \/ \E c \in Connections :
       \/ \E token \in Connections \cup {NoToken} : StartUpgrade(c, token)
       \/ RejectUpgrade(c)
       \/ \E u \in Users : FinishUpgrade(c, u)
       \/ \E t \in Topics : Subscribe(c, t) \/ Unsubscribe(c, t)
       \/ \E age \in Ages : HeartbeatAck(c, age)
       \/ PeerLeaves(c)
       \/ SocketCloses(c)
  \/ Tick
  \/ Heartbeat
  \/ Stop

Spec == Init /\ [][Next]_vars

-----------------------------------------------------------------------------
(***************************************************************************)
(* Properties.                                                             *)
(***************************************************************************)
\* The members of a room, by the connection registry alone.
ConnectionsOf(r, u) == {c \in Registered : r \in subs[c] /\ contexts[c].user = u}

\* A broadcast reaches the connections that are subscribed and no other: the topic
\* index and the subscriptions of the connections say the same, and only
\* registered connections have any.
IndexAgrees ==
  /\ \A c \in Connections, t \in Topics : c \in listeners[t] <=> t \in subs[c]
  /\ \A c \in Connections \ Registered : subs[c] = {}
  /\ clients = Registered

\* A user is present in a room exactly as long as one of their connections is
\* subscribed to it, whichever of them goes first and for whatever reason
\* (presence-registry.ts keeps this by counting connections).
PresenceAgrees ==
  \A r \in Rooms :
    /\ \A u \in Users : present[r][u] = ConnectionsOf(r, u)
    /\ active[r] = {u \in Users : ConnectionsOf(r, u) # {}}
    /\ \A c \in Connections : r \in rooms[c] <=> r \in subs[c]

\* The same for workspace sessions, although a timer evicts them: the eviction
\* never hits a session that outlives the heartbeat.
SessionsAgree ==
  \A r \in Rooms :
    /\ \A u \in Users :
         /\ sessions[r][u] = NoSession <=> ConnectionsOf(r, u) = {}
         /\ sessions[r][u] # NoSession =>
              sessions[r][u].conns = ConnectionsOf(r, u)
    /\ actors[r] = {u \in Users : ConnectionsOf(r, u) # {}}
    /\ \A c \in Connections : r \in bound[c] <=> r \in subs[c]

\* A reconnect token is held by one registered connection, or waits with one
\* snapshot, and never both: two tabs that reconnect with one token do not share
\* the subscriptions, and no snapshot overwrites another.
TokenHeldOnce ==
  \A c \in Registered :
    /\ snapshots[contexts[c].token] = NoSnapshot
    /\ \A d \in Registered : contexts[c].token = contexts[d].token => c = d

\* Who is subscribed to a room and reachable shows the users and participants that
\* are there, from one snapshot and the changes since.
RosterIsCurrent ==
  \A c \in Registered : \A r \in Rooms \cap subs[c] :
    link[c] = "open" =>
      roster[c][r] = [users |-> active[r], actors |-> actors[r]]
=============================================================================
