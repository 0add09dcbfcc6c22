------------------------ MODULE RealtimeRuntimeProofs ------------------------
(***************************************************************************)
(* The registries of RealtimeRuntime agree, for any number of connections, *)
(* users, topics and rooms and for any thresholds of which the heartbeat's *)
(* is not above the one of the workspace sessions.                         *)
(***************************************************************************)
EXTENDS RealtimeRuntime, TLAPS

Before == {"unused", "resolving"}

\* Nothing is registered, and no token given out, before the upgrade has ended.
Upgraded ==
  /\ \A c \in Registered : link[c] \notin Before
  /\ \A c \in Registered : link[contexts[c].token] \notin Before
  /\ \A k \in Connections : snapshots[k] # NoSnapshot => link[k] \notin Before

\* A workspace session was seen at least as lately as each of its connections:
\* this is why an eviction never separates a session from a connection that stays.
SeenTogether ==
  \A r \in Rooms, u \in Users : \A c \in ConnectionsOf(r, u) :
    sessions[r][u].idle <= contexts[c].age

Agreement == IndexAgrees /\ PresenceAgrees /\ SessionsAgree /\ SeenTogether

IInv == TypeOK /\ Agreement /\ Upgraded /\ TokenHeldOnce /\ RosterIsCurrent
-----------------------------------------------------------------------------
\* The empty registries satisfy the inductive invariant.
THEOREM InitIInv == Init => IInv
<1> SUFFICES ASSUME Init PROVE IInv
  OBVIOUS
<1>1. TypeOK
  BY RuntimeAssumption DEF Init, TypeOK, Links, Roster, Blank
<1>2. Registered = {} /\ \A r \in Rooms, u \in Users : ConnectionsOf(r, u) = {}
  BY DEF Init, Registered, ConnectionsOf
<1>3. IndexAgrees
  BY <1>2 DEF Init, IndexAgrees
<1>4. PresenceAgrees
  BY <1>2, RuntimeAssumption DEF Init, PresenceAgrees
<1>5. SessionsAgree /\ SeenTogether
  BY <1>2, RuntimeAssumption DEF Init, SessionsAgree, SeenTogether
<1>6. Upgraded /\ TokenHeldOnce /\ RosterIsCurrent
  BY <1>2 DEF Init, Upgraded, TokenHeldOnce, RosterIsCurrent
<1>7. QED
  BY <1>1, <1>3, <1>4, <1>5, <1>6 DEF IInv, Agreement
-----------------------------------------------------------------------------
(***************************************************************************)
(* Handlers that leave the registries alone, or only the ages in them.     *)
(***************************************************************************)
\* Who is registered, as whom and for what, decides who is in a room.
LEMMA SameRooms ==
  ASSUME TypeOK, UNCHANGED subs,
         \A c \in Connections :
           \/ contexts'[c] = contexts[c]
           \/ /\ contexts[c] \in Context /\ contexts'[c] \in Context
              /\ contexts'[c].user = contexts[c].user
  PROVE  /\ Registered' = Registered
         /\ \A r \in Rooms, u \in Users : ConnectionsOf(r, u)' = ConnectionsOf(r, u)
<1>1. Registered' = Registered
  BY NullsAssumption DEF Registered
<1>2. ASSUME NEW r \in Rooms, NEW u \in Users, NEW c \in Connections
      PROVE  c \in ConnectionsOf(r, u)' <=> c \in ConnectionsOf(r, u)
  BY <1>1 DEF ConnectionsOf
<1>3. \A r \in Rooms, u \in Users : ConnectionsOf(r, u)' = ConnectionsOf(r, u)
  BY <1>2 DEF ConnectionsOf, Registered
<1>4. QED
  BY <1>1, <1>3

\* What the registries hold, but for the ages, decides the agreement of the three.
LEMMA SameAgreement ==
  ASSUME TypeOK, Agreement, UNCHANGED <<subs, listeners, clients, presenceRegistry, actors, bound>>,
         Registered' = Registered,
         \A r \in Rooms, u \in Users : ConnectionsOf(r, u)' = ConnectionsOf(r, u),
         \A r \in Rooms, u \in Users :
           \/ sessions'[r][u] = sessions[r][u]
           \/ /\ sessions[r][u] \in Session /\ sessions'[r][u] \in Session
              /\ sessions'[r][u].conns = sessions[r][u].conns
  PROVE  IndexAgrees' /\ PresenceAgrees' /\ SessionsAgree'
<1>1. IndexAgrees'
  BY DEF Agreement, IndexAgrees
<1>2. PresenceAgrees'
  BY DEF Agreement, PresenceAgrees, presenceRegistry
<1>3. SessionsAgree'
  BY NullsAssumption DEF Agreement, SessionsAgree
<1>4. QED
  BY <1>1, <1>2, <1>3

\* The same contexts and subscriptions, with the same rosters: nobody's roster is
\* out of date unless a link is opened.
LEMMA SameRoster ==
  ASSUME RosterIsCurrent, UNCHANGED <<subs, active, actors, roster>>,
         Registered' = Registered,
         \A c \in Registered : link'[c] = "open" => link[c] = "open"
  PROVE  RosterIsCurrent'
  BY DEF RosterIsCurrent

\* A handler that touches no registry keeps their agreement.
LEMMA QuietStep ==
  ASSUME IInv, UNCHANGED <<connectionRegistry, presenceRegistry, sessionRegistry>>
  PROVE  /\ Agreement' /\ Registered' = Registered
         /\ \A r \in Rooms, u \in Users : ConnectionsOf(r, u)' = ConnectionsOf(r, u)
<1> USE DEF IInv, connectionRegistry, sessionRegistry
<1>1. /\ Registered' = Registered
      /\ \A r \in Rooms, u \in Users : ConnectionsOf(r, u)' = ConnectionsOf(r, u)
  BY SameRooms
<1>2. IndexAgrees' /\ PresenceAgrees' /\ SessionsAgree'
  BY <1>1, SameAgreement
<1>3. SeenTogether'
  BY <1>1 DEF Agreement, SeenTogether
<1>4. QED
  BY <1>1, <1>2, <1>3 DEF Agreement
-----------------------------------------------------------------------------
(***************************************************************************)
(* Subscribing, by a message or by the replay of a snapshot.               *)
(***************************************************************************)
\* A registered or new connection c of user u joins the topics T.
LEMMA JoinStep ==
  ASSUME IInv, NEW c \in Connections, NEW u \in Users, NEW T \in SUBSET Topics,
         SubscribeTo(c, u, T),
         contexts'[c] \in Context, contexts'[c].user = u,
         \A d \in Connections : d # c => contexts'[d] = contexts[d] /\ link'[d] = link[d],
         contexts[c] # NoContext => contexts'[c] = contexts[c] /\ link'[c] = link[c],
         clients' = clients \cup {c}
  PROVE  Agreement' /\ RosterIsCurrent'
<1> USE DEF IInv, Agreement, SubscribeTo
<1>1. Registered' = Registered \cup {c}
  BY NullsAssumption DEF Registered
<1>2. /\ subs' = [subs EXCEPT ![c] = @ \cup T]
      /\ subs \in [Connections -> SUBSET Topics]
      /\ \A d \in Connections : subs'[d] = IF d = c THEN subs[d] \cup T ELSE subs[d]
      /\ c \notin Registered => subs[c] = {}
  BY DEF Subscribed, TypeOK, IndexAgrees
<1>3. ASSUME NEW r \in Rooms, NEW v \in Users
      PROVE  ConnectionsOf(r, v)' =
               IF r \in T /\ v = u THEN ConnectionsOf(r, v) \cup {c}
                                  ELSE ConnectionsOf(r, v)
  <2>1. ASSUME NEW d \in Connections, d # c
        PROVE  d \in ConnectionsOf(r, v)' <=> d \in ConnectionsOf(r, v)
    BY <1>1, <1>2, <2>1 DEF ConnectionsOf, Registered
  <2>2. c \in ConnectionsOf(r, v)' <=>
          (r \in T /\ v = u) \/ c \in ConnectionsOf(r, v)
    BY <1>1, <1>2 DEF ConnectionsOf, Registered
  <2>3. ConnectionsOf(r, v)' \subseteq Connections /\ ConnectionsOf(r, v) \subseteq Connections
    BY <1>1 DEF ConnectionsOf, Registered
  <2>4. QED
    BY <2>1, <2>2, <2>3
<1>4. IndexAgrees'
  <2>1. listeners' = [t \in Topics |->
                        IF t \in T THEN listeners[t] \cup {c} ELSE listeners[t]]
    BY DEF Subscribed
  <2>2. \A d \in Connections \ Registered' : subs'[d] = {}
    BY <1>1, <1>2 DEF IndexAgrees
  <2>3. QED
    BY <1>1, <1>2, <2>1, <2>2 DEF IndexAgrees
<1>5. \A r \in Rooms, d \in Connections :
        r \in subs'[d] <=> r \in subs[d] \/ (d = c /\ r \in T)
  BY <1>2
<1>6. PresenceAgrees'
  <2> SUFFICES ASSUME NEW r \in Rooms
               PROVE  /\ \A v \in Users : present'[r][v] = ConnectionsOf(r, v)'
                      /\ active'[r] = {v \in Users : ConnectionsOf(r, v)' # {}}
                      /\ \A d \in Connections : r \in rooms'[d] <=> r \in subs'[d]
    BY DEF PresenceAgrees
  <2>1. \A v \in Users : present'[r][v] = ConnectionsOf(r, v)'
    BY <1>3 DEF JoinRooms, PresenceAgrees, TypeOK
  <2>2. active'[r] = {v \in Users : ConnectionsOf(r, v)' # {}}
    <3>1. active'[r] = IF r \in T THEN active[r] \cup {u} ELSE active[r]
      BY DEF JoinRooms
    <3>2. active[r] = {v \in Users : ConnectionsOf(r, v) # {}}
      BY DEF PresenceAgrees
    <3>3. QED
      BY <1>3, <3>1, <3>2
  <2>3. \A d \in Connections : r \in rooms'[d] <=> r \in subs'[d]
    BY <1>5 DEF JoinRooms, PresenceAgrees, TypeOK
  <2>4. QED
    BY <2>1, <2>2, <2>3
<1>7. ASSUME NEW r \in Rooms, NEW v \in Users
      PROVE  sessions'[r][v] =
               IF r \in T /\ v = u
               THEN [conns |-> {c} \cup (IF sessions[r][v] = NoSession THEN {}
                                       ELSE sessions[r][v].conns),
                     idle |-> 0]
               ELSE sessions[r][v]
  BY DEF JoinSessions, TypeOK
<1>8. ASSUME NEW r \in Rooms, NEW v \in Users, r \in T, v = u
      PROVE  /\ sessions'[r][v] # NoSession
             /\ sessions'[r][v].conns = ConnectionsOf(r, v)'
             /\ sessions'[r][v].idle = 0
  <2>1. ConnectionsOf(r, v) \subseteq Connections
    BY DEF ConnectionsOf, Registered
  <2>2. sessions'[r][v] = [conns |-> ConnectionsOf(r, v) \cup {c}, idle |-> 0]
    BY <1>7, <1>8 DEF SessionsAgree
  <2>3. 0 \in Ages
    BY RuntimeAssumption DEF Ages
  <2>4. sessions'[r][v] \in Session
    BY <2>1, <2>2, <2>3 DEF Session
  <2>5. QED
    BY <1>3, <1>8, <2>2, <2>4, NullsAssumption
<1>9. SessionsAgree'
  <2> SUFFICES ASSUME NEW r \in Rooms
               PROVE  /\ \A v \in Users :
                           /\ sessions'[r][v] = NoSession <=> ConnectionsOf(r, v)' = {}
                           /\ sessions'[r][v] # NoSession =>
                                sessions'[r][v].conns = ConnectionsOf(r, v)'
                      /\ actors'[r] = {v \in Users : ConnectionsOf(r, v)' # {}}
                      /\ \A d \in Connections : r \in bound'[d] <=> r \in subs'[d]
    BY DEF SessionsAgree
  <2>1. ASSUME NEW v \in Users
        PROVE  /\ sessions'[r][v] = NoSession <=> ConnectionsOf(r, v)' = {}
               /\ sessions'[r][v] # NoSession =>
                    sessions'[r][v].conns = ConnectionsOf(r, v)'
    <3>1. CASE r \in T /\ v = u
      BY <1>3, <1>8, <3>1
    <3>2. CASE ~(r \in T /\ v = u)
      <4>1. ConnectionsOf(r, v)' = ConnectionsOf(r, v) /\ sessions'[r][v] = sessions[r][v]
        BY <1>3, <1>7, <3>2
      <4>2. QED
        BY <4>1 DEF SessionsAgree
    <3>3. QED
      BY <3>1, <3>2
  <2>2. actors'[r] = {v \in Users : ConnectionsOf(r, v)' # {}}
    <3>1. actors'[r] = IF r \in T THEN actors[r] \cup {u} ELSE actors[r]
      BY DEF JoinSessions
    <3>2. actors[r] = {v \in Users : ConnectionsOf(r, v) # {}}
      BY DEF SessionsAgree
    <3>3. QED
      BY <1>3, <3>1, <3>2
  <2>3. \A d \in Connections : r \in bound'[d] <=> r \in subs'[d]
    BY <1>5 DEF JoinSessions, SessionsAgree, TypeOK
  <2>4. QED
    BY <2>1, <2>2, <2>3
<1>10. SeenTogether'
  <2> SUFFICES ASSUME NEW r \in Rooms, NEW v \in Users, NEW d \in ConnectionsOf(r, v)'
               PROVE  sessions'[r][v].idle <= contexts'[d].age
    BY DEF SeenTogether
  <2>1. CASE r \in T /\ v = u
    <3>1. d \in Connections /\ contexts'[d] \in Context
      BY DEF ConnectionsOf, Registered, TypeOK
    <3>2. contexts'[d].age \in Nat
      BY <3>1, RuntimeAssumption DEF Context, Ages
    <3>3. QED
      BY <1>8, <2>1, <3>2
  <2>2. CASE ~(r \in T /\ v = u)
    <3>1. d \in ConnectionsOf(r, v)
      BY <1>3, <2>2
    <3>2. contexts'[d] = contexts[d]
      BY <3>1 DEF ConnectionsOf, Registered
    <3>3. QED
      BY <1>7, <2>2, <3>1, <3>2 DEF SeenTogether
  <2>3. QED
    BY <2>1, <2>2
<1>11. RosterIsCurrent'
  <2> SUFFICES ASSUME NEW d \in Registered', NEW r \in Rooms \cap subs'[d],
                      link'[d] = "open"
               PROVE  roster'[d][r] = [users |-> active'[r], actors |-> actors'[r]]
    BY DEF RosterIsCurrent
  <2>1. d \in Connections
    BY DEF Registered
  <2>2. r \notin T => active'[r] = active[r] /\ actors'[r] = actors[r]
                     /\ roster'[d][r] = roster[d][r]
    BY <2>1 DEF JoinRooms, JoinSessions, Welcome
  <2>3. CASE r \notin T
    <3>1. d \in Registered /\ r \in subs[d] /\ link[d] = "open"
      BY <1>1, <1>2, <2>1, <2>3 DEF Registered
    <3>2. QED
      BY <2>2, <2>3, <3>1 DEF RosterIsCurrent
  <2>4. CASE r \in T /\ d = c
    BY <2>1, <2>4 DEF Welcome
  <2>5. CASE r \in T /\ d # c
    <3>1. d \in Registered /\ r \in subs[d] /\ link[d] = "open"
      BY <1>1, <1>2, <2>1, <2>5
    <3>2. roster[d][r] = [users |-> active[r], actors |-> actors[r]]
      BY <3>1 DEF RosterIsCurrent
    <3>3. d \in listeners[r] /\ d \in clients /\ Reached(d)
      BY <2>1, <3>1, RuntimeAssumption DEF IndexAgrees, Reached
    <3>4. active'[r] = active[r] \cup {u} /\ actors'[r] = actors[r] \cup {u}
      BY <2>5 DEF JoinRooms, JoinSessions
    <3>5. ~IsNewcomer(c, u, r) => u \in active[r]
      BY DEF IsNewcomer, PresenceAgrees
    <3>6. ~IsNewParticipant(c, u, r) => u \in actors[r]
      BY DEF IsNewParticipant, SessionsAgree
    <3>7. roster'[d][r] =
            [users  |-> IF IsNewcomer(c, u, r) THEN active'[r] ELSE roster[d][r].users,
             actors |-> IF IsNewParticipant(c, u, r) THEN roster[d][r].actors \cup {u}
                        ELSE roster[d][r].actors]
      BY <2>1, <2>5, <3>3 DEF Welcome
    <3>8. /\ ~IsNewcomer(c, u, r) => active'[r] = active[r]
          /\ ~IsNewParticipant(c, u, r) => actors'[r] = actors[r]
      BY <3>4, <3>5, <3>6
    <3>9. roster[d][r].users = active[r] /\ roster[d][r].actors = actors[r]
      BY <3>2
    <3>10. (IF IsNewcomer(c, u, r) THEN active'[r] ELSE roster[d][r].users) = active'[r]
      BY <3>8, <3>9
    <3>11. (IF IsNewParticipant(c, u, r) THEN roster[d][r].actors \cup {u}
            ELSE roster[d][r].actors) = actors'[r]
      BY <3>4, <3>8, <3>9
    <3>12. QED
      BY <3>7, <3>10, <3>11
  <2>6. QED
    BY <2>3, <2>4, <2>5
<1>12. QED
  BY <1>4, <1>6, <1>9, <1>10, <1>11
-----------------------------------------------------------------------------
(***************************************************************************)
(* Disconnecting.                                                          *)
(***************************************************************************)
\* The registered connections D go, and the sessions E, of which no connection
\* stays, are evicted.
LEMMA LeaveStep ==
  ASSUME IInv, NEW D \in SUBSET Registered, NEW E \in SUBSET (Rooms \X Users),
         \A r \in Rooms, v \in Users : <<r, v>> \in E => ConnectionsOf(r, v) \subseteq D,
         Disconnect(D, E),
         \A c \in Connections : link'[c] = "open" => link[c] = "open"
  PROVE  Agreement' /\ RosterIsCurrent'
<1> USE DEF IInv, Agreement, Disconnect
<1>1. D \subseteq Connections /\ Registered' = Registered \ D
  BY DEF Registered, Unregister
<1>2. /\ \A d \in Connections : subs'[d] = IF d \in D THEN {} ELSE subs[d]
      /\ \A d \in Connections : contexts'[d] = IF d \in D THEN NoContext ELSE contexts[d]
  BY DEF Unregister
<1>3. ASSUME NEW r \in Rooms, NEW v \in Users
      PROVE  ConnectionsOf(r, v)' = ConnectionsOf(r, v) \ D
  <2>1. ASSUME NEW d \in Connections
        PROVE  d \in ConnectionsOf(r, v)' <=> d \in ConnectionsOf(r, v) \ D
    BY <1>1, <1>2 DEF ConnectionsOf, Registered
  <2>2. ConnectionsOf(r, v)' \subseteq Connections /\ ConnectionsOf(r, v) \subseteq Connections
    BY <1>1 DEF ConnectionsOf, Registered
  <2>3. QED
    BY <2>1, <2>2
<1>4. IndexAgrees'
  BY <1>1, <1>2 DEF IndexAgrees, Unregister
<1>5. PresenceAgrees'
  <2> SUFFICES ASSUME NEW r \in Rooms
               PROVE  /\ \A v \in Users : present'[r][v] = ConnectionsOf(r, v)'
                      /\ active'[r] = {v \in Users : ConnectionsOf(r, v)' # {}}
                      /\ \A d \in Connections : r \in rooms'[d] <=> r \in subs'[d]
    BY DEF PresenceAgrees
  <2>1. \A v \in Users : present'[r][v] = ConnectionsOf(r, v)'
    BY <1>3 DEF LeaveRooms, PresenceAgrees
  <2>2. active'[r] = {v \in Users : ConnectionsOf(r, v)' # {}}
    <3>1. active'[r] = {v \in active[r] :
                          present[r][v] \cap D = {} \/ ~(present[r][v] \subseteq D)}
      BY DEF LeaveRooms, ActiveWithout
    <3>2. active[r] = {v \in Users : ConnectionsOf(r, v) # {}}
      BY DEF PresenceAgrees
    <3>3. \A v \in Users : present[r][v] = ConnectionsOf(r, v)
      BY DEF PresenceAgrees
    <3>4. QED
      BY <1>3, <3>1, <3>2, <3>3
  <2>3. \A d \in Connections : r \in rooms'[d] <=> r \in subs'[d]
    BY <1>2 DEF LeaveRooms, PresenceAgrees
  <2>4. QED
    BY <2>1, <2>2, <2>3
<1>6. ASSUME NEW r \in Rooms, NEW v \in Users
      PROVE  /\ sessions'[r][v] = NoSession <=> ConnectionsOf(r, v)' = {}
             /\ sessions'[r][v] # NoSession =>
                  /\ sessions'[r][v].conns = ConnectionsOf(r, v)'
                  /\ sessions'[r][v].idle = 0 \/ sessions'[r][v] = sessions[r][v]
             /\ sessions[r][v] = NoSession => sessions'[r][v] = NoSession
  <2> DEFINE touched == UNION {bound[c] : c \in D}
  <2>1. sessions'[r][v] = IF <<r, v>> \in E THEN NoSession
                          ELSE IF r \in touched THEN SessionWithout(D, sessions[r][v])
                          ELSE sessions[r][v]
    BY DEF LeaveSessions
  <2>2. /\ sessions[r][v] = NoSession <=> ConnectionsOf(r, v) = {}
        /\ sessions[r][v] # NoSession => sessions[r][v].conns = ConnectionsOf(r, v)
    BY DEF SessionsAgree
  <2>3. CASE <<r, v>> \in E
    BY <1>3, <2>1, <2>3
  <2>4. CASE <<r, v>> \notin E /\ r \in touched
    <3>1. sessions'[r][v] = SessionWithout(D, sessions[r][v])
      BY <2>1, <2>4
    <3>2. CASE sessions[r][v] = NoSession \/ sessions[r][v].conns \subseteq D
      BY <1>3, <2>2, <3>1, <3>2 DEF SessionWithout
    <3>3. CASE ~(sessions[r][v] = NoSession \/ sessions[r][v].conns \subseteq D)
      <4>1. sessions'[r][v] = [conns |-> ConnectionsOf(r, v) \ D, idle |-> 0]
        BY <2>2, <3>1, <3>3 DEF SessionWithout
      <4>2. ConnectionsOf(r, v) \ D \in SUBSET Connections /\ 0 \in Ages
        BY RuntimeAssumption DEF ConnectionsOf, Registered, Ages
      <4>3. sessions'[r][v] \in Session
        BY <4>1, <4>2 DEF Session
      <4>4. ConnectionsOf(r, v) \ D # {}
        BY <2>2, <3>3
      <4>5. sessions'[r][v] # NoSession
        BY <4>3, NullsAssumption
      <4>6. /\ sessions'[r][v].conns = ConnectionsOf(r, v)'
            /\ sessions'[r][v].idle = 0
        BY <1>3, <4>1
      <4>7. ConnectionsOf(r, v)' # {}
        BY <1>3, <4>4
      <4>8. QED
        BY <3>3, <4>5, <4>6, <4>7
    <3>4. QED
      BY <3>2, <3>3
  <2>5. CASE <<r, v>> \notin E /\ r \notin touched
    <3>1. \A d \in D : r \notin subs[d]
      BY <1>1, <2>5 DEF SessionsAgree
    <3>2. ConnectionsOf(r, v) \cap D = {}
      BY <3>1 DEF ConnectionsOf
    <3>3. ConnectionsOf(r, v)' = ConnectionsOf(r, v)
      BY <1>3, <3>2
    <3>4. sessions'[r][v] = sessions[r][v]
      BY <2>1, <2>5
    <3>5. QED
      BY <2>2, <3>3, <3>4
  <2>6. QED
    BY <2>3, <2>4, <2>5
<1>7. ASSUME NEW r \in Rooms
      PROVE  actors'[r] = {v \in Users : ConnectionsOf(r, v)' # {}}
  <2>1. actors'[r] = {v \in actors[r] : sessions'[r][v] # NoSession}
    BY DEF LeaveSessions
  <2>2. actors[r] = {v \in Users : ConnectionsOf(r, v) # {}}
    BY DEF SessionsAgree
  <2>3. QED
    BY <1>3, <1>6, <2>1, <2>2
<1>8. SessionsAgree'
  <2>1. ASSUME NEW r \in Rooms
        PROVE  \A d \in Connections : r \in bound'[d] <=> r \in subs'[d]
    BY <1>2 DEF LeaveSessions, SessionsAgree
  <2>2. QED
    BY <1>6, <1>7, <2>1 DEF SessionsAgree
<1>9. SeenTogether'
  <2> SUFFICES ASSUME NEW r \in Rooms, NEW v \in Users, NEW d \in ConnectionsOf(r, v)'
               PROVE  sessions'[r][v].idle <= contexts'[d].age
    BY DEF SeenTogether
  <2>1. d \in ConnectionsOf(r, v) /\ contexts'[d] = contexts[d]
    BY <1>2, <1>3 DEF ConnectionsOf, Registered
  <2>2. contexts[d] \in Context
    BY <2>1 DEF ConnectionsOf, Registered, TypeOK
  <2>3. 0 <= contexts[d].age
    BY <2>2, RuntimeAssumption DEF Context, Ages
  <2>4. sessions'[r][v] # NoSession
    BY <1>6
  <2>5. sessions'[r][v].idle = 0 \/ sessions'[r][v] = sessions[r][v]
    BY <1>6, <2>4
  <2>6. sessions[r][v].idle <= contexts[d].age
    BY <2>1 DEF SeenTogether
  <2>7. QED
    BY <2>1, <2>3, <2>5, <2>6
<1>10. RosterIsCurrent'
  <2> SUFFICES ASSUME NEW d \in Registered', NEW r \in Rooms \cap subs'[d],
                      link'[d] = "open"
               PROVE  roster'[d][r] = [users |-> active'[r], actors |-> actors'[r]]
    BY DEF RosterIsCurrent
  <2>1. d \in Registered /\ d \notin D /\ d \in Connections /\ r \in subs[d] /\ link[d] = "open"
    BY <1>1, <1>2 DEF Registered
  <2>2. roster[d][r] = [users |-> active[r], actors |-> actors[r]]
    BY <2>1 DEF RosterIsCurrent
  <2>3. d \in listeners[r] /\ d \in clients /\ Reached(d)
    BY <2>1, RuntimeAssumption DEF IndexAgrees, Reached
  <2>4. roster'[d][r] = Farewell(D, r, roster[d][r])
    BY <2>1, <2>3 DEF SayGoodbye
  <2>5. actors'[r] \subseteq actors[r]
    BY <1>3, <1>7 DEF SessionsAgree
  <2>6. actors[r] \ (actors[r] \ actors'[r]) = actors'[r]
    BY <2>5
  <2>7. roster[d][r].users = active[r] /\ roster[d][r].actors = actors[r]
    BY <2>2
  <2>8. (IF active'[r] # active[r] THEN active'[r] ELSE roster[d][r].users) = active'[r]
    BY <2>7
  <2>9. QED
    BY <2>4, <2>6, <2>7, <2>8 DEF Farewell
<1>11. QED
  BY <1>4, <1>5, <1>8, <1>9, <1>10
\* A connection that stays unsubscribes from a topic.
LEMMA UnsubscribeStep ==
  ASSUME IInv, NEW c \in Connections, NEW t \in Topics, Unsubscribe(c, t)
  PROVE  Agreement' /\ RosterIsCurrent'
<1> USE DEF IInv, Agreement
<1>0. PICK u \in Users : u = contexts[c].user
  BY DEF Unsubscribe, Receives, TypeOK, Context
<1>1. c \in Registered /\ u \in Users /\ t \in subs[c]
  BY DEF Unsubscribe, Receives, Registered
<1>2. Registered' = Registered /\ UNCHANGED <<contexts, link, clients>>
  BY DEF Unsubscribe, Registered
<1>3. \A d \in Connections : subs'[d] = IF d = c THEN subs[d] \ {t} ELSE subs[d]
  BY DEF Unsubscribe, TypeOK
<1>4. ASSUME NEW r \in Rooms, NEW v \in Users
      PROVE  ConnectionsOf(r, v)' = IF r = t /\ v = u THEN ConnectionsOf(r, v) \ {c}
                                    ELSE ConnectionsOf(r, v)
  <2>1. ASSUME NEW d \in Connections, d # c
        PROVE  d \in ConnectionsOf(r, v)' <=> d \in ConnectionsOf(r, v)
    BY <1>2, <1>3, <2>1 DEF ConnectionsOf, Registered
  <2>2. c \in ConnectionsOf(r, v)' <=> c \in ConnectionsOf(r, v) /\ ~(r = t /\ v = u)
    BY <1>0, <1>1, <1>2, <1>3 DEF ConnectionsOf, Registered
  <2>3. ConnectionsOf(r, v)' \subseteq Connections /\ ConnectionsOf(r, v) \subseteq Connections
    BY <1>2 DEF ConnectionsOf, Registered
  <2>4. QED
    BY <2>1, <2>2, <2>3
<1>5. IndexAgrees'
  BY <1>1, <1>2, <1>3 DEF Unsubscribe, IndexAgrees, TypeOK
<1>6. CASE t \notin Rooms
  <2>1. UNCHANGED <<rooms, present, active, sessions, actors, bound, roster>>
    BY <1>6 DEF Unsubscribe, presenceRegistry, sessionRegistry
  <2>2. \A r \in Rooms, v \in Users : ConnectionsOf(r, v)' = ConnectionsOf(r, v)
    BY <1>4, <1>6
  <2>3. \A r \in Rooms, d \in Connections : r \in subs'[d] <=> r \in subs[d]
    BY <1>3, <1>6
  <2>4. PresenceAgrees'
    BY <2>1, <2>2, <2>3 DEF PresenceAgrees
  <2>5. SessionsAgree'
    BY <2>1, <2>2, <2>3 DEF SessionsAgree
  <2>6. SeenTogether'
    BY <1>2, <2>1, <2>2 DEF SeenTogether
  <2>7. RosterIsCurrent'
    BY <1>2, <2>1, <2>3 DEF RosterIsCurrent, Registered
  <2>8. QED
    BY <1>5, <2>4, <2>5, <2>6, <2>7
<1>7. CASE t \in Rooms
  <2>1. /\ rooms' = [rooms EXCEPT ![c] = @ \ {t}]
        /\ present' = [present EXCEPT ![t][u] = @ \ {c}]
        /\ active' = [active EXCEPT ![t] = ActiveWithout({c}, t)]
        /\ sessions' = [sessions EXCEPT ![t][u] = SessionWithout({c}, @)]
        /\ actors' = [actors EXCEPT ![t] =
                        IF SessionWithout({c}, sessions[t][u]) = NoSession
                        THEN @ \ {u} ELSE @]
        /\ bound' = [bound EXCEPT ![c] =
                       IF sessions[t][u] = NoSession THEN @ ELSE @ \ {t}]
        /\ roster' = [d \in Connections |->
             IF d = c THEN [roster[d] EXCEPT ![t] = Blank]
             ELSE IF d \in listeners[t] /\ d \in clients /\ Reached(d)
             THEN [roster[d] EXCEPT ![t] = Farewell({c}, t, @)]
             ELSE roster[d]]
    BY <1>0, <1>7 DEF Unsubscribe
  <2>2. \A r \in Rooms, d \in Connections :
          r \in subs'[d] <=> r \in subs[d] /\ ~(d = c /\ r = t)
    BY <1>3
  <2>3. c \in ConnectionsOf(t, u)
    BY <1>0, <1>1 DEF ConnectionsOf
  <2>4. \A v \in Users : v # u => c \notin ConnectionsOf(t, v)
    BY <1>0 DEF ConnectionsOf
  <2>5. PresenceAgrees'
    <3>1. ASSUME NEW r \in Rooms, NEW v \in Users
          PROVE  present'[r][v] = ConnectionsOf(r, v)'
      <4>1. present[r][v] = ConnectionsOf(r, v)
        BY DEF PresenceAgrees
      <4>2. present'[r][v] = IF r = t /\ v = u THEN present[r][v] \ {c} ELSE present[r][v]
        BY <2>1 DEF TypeOK
      <4>3. QED
        BY <1>4, <4>1, <4>2
    <3>2. ASSUME NEW r \in Rooms
          PROVE  active'[r] = {v \in Users : ConnectionsOf(r, v)' # {}}
      <4>1. /\ active[r] = {v \in Users : ConnectionsOf(r, v) # {}}
            /\ \A v \in Users : present[r][v] = ConnectionsOf(r, v)
        BY DEF PresenceAgrees
      <4>2. CASE r # t
        BY <1>4, <2>1, <4>1, <4>2 DEF TypeOK
      <4>3. CASE r = t
        <5>1. active'[r] = {v \in active[r] :
                present[r][v] \cap {c} = {} \/ ~(present[r][v] \subseteq {c})}
          BY <2>1, <4>3 DEF TypeOK, ActiveWithout
        <5>2. \A v \in Users : ConnectionsOf(r, v)' = ConnectionsOf(r, v) \ {c}
          BY <1>4, <2>4, <4>3
        <5>3. QED
          BY <4>1, <5>1, <5>2
      <4>4. QED
        BY <4>2, <4>3
    <3>3. \A r \in Rooms, d \in Connections : r \in rooms'[d] <=> r \in subs'[d]
      BY <2>1, <2>2 DEF PresenceAgrees, TypeOK
    <3>4. QED
      BY <3>1, <3>2, <3>3 DEF PresenceAgrees
  <2>6. sessions[t][u] # NoSession /\ sessions[t][u].conns = ConnectionsOf(t, u)
    BY <1>1, <1>7, <2>3 DEF SessionsAgree
  <2>7. /\ sessions'[t][u] = NoSession <=> ConnectionsOf(t, u)' = {}
        /\ sessions'[t][u] # NoSession => /\ sessions'[t][u].conns = ConnectionsOf(t, u)'
                                          /\ sessions'[t][u].idle = 0
    <3>1. sessions'[t][u] = SessionWithout({c}, sessions[t][u])
      BY <1>1, <1>7, <2>1 DEF TypeOK
    <3>2. ConnectionsOf(t, u)' = ConnectionsOf(t, u) \ {c}
      BY <1>1, <1>4, <1>7
    <3>3. CASE ConnectionsOf(t, u) \subseteq {c}
      <4>1. sessions[t][u].conns \subseteq {c}
        BY <2>6, <3>3
      <4>2. sessions'[t][u] = NoSession
        BY <3>1, <4>1 DEF SessionWithout
      <4>3. ConnectionsOf(t, u)' = {}
        BY <3>2, <3>3
      <4>4. QED
        BY <4>2, <4>3
    <3>4. CASE ~(ConnectionsOf(t, u) \subseteq {c})
      <4>1. sessions'[t][u] = [conns |-> ConnectionsOf(t, u) \ {c}, idle |-> 0]
        BY <2>6, <3>1, <3>4 DEF SessionWithout
      <4>2. ConnectionsOf(t, u) \ {c} \in SUBSET Connections /\ 0 \in Ages
        BY RuntimeAssumption DEF ConnectionsOf, Registered, Ages
      <4>3. sessions'[t][u] \in Session
        BY <4>1, <4>2 DEF Session
      <4>4. sessions'[t][u] # NoSession
        BY <4>3, NullsAssumption
      <4>5. ConnectionsOf(t, u)' # {}
        BY <3>2, <3>4
      <4>6. QED
        BY <3>2, <4>1, <4>4, <4>5
    <3>5. QED
      BY <3>3, <3>4
  <2>8. ASSUME NEW r \in Rooms, NEW v \in Users, ~(r = t /\ v = u)
        PROVE  sessions'[r][v] = sessions[r][v] /\ ConnectionsOf(r, v)' = ConnectionsOf(r, v)
    BY <1>4, <2>1, <2>8 DEF TypeOK
  <2>9. ASSUME NEW r \in Rooms
        PROVE  actors'[r] = {v \in Users : ConnectionsOf(r, v)' # {}}
    <3>1. actors[r] = {v \in Users : ConnectionsOf(r, v) # {}}
      BY DEF SessionsAgree
    <3>2. CASE r # t
      <4>1. actors'[r] = actors[r]
        BY <2>1, <3>2 DEF TypeOK
      <4>2. \A v \in Users : ConnectionsOf(r, v)' = ConnectionsOf(r, v)
        BY <2>8, <3>2
      <4>3. QED
        BY <3>1, <4>1, <4>2
    <3>3. CASE r = t
      <4>1. sessions'[t][u] = SessionWithout({c}, sessions[t][u])
        BY <1>1, <1>7, <2>1 DEF TypeOK
      <4>2. actors'[r] = IF ConnectionsOf(t, u)' = {} THEN actors[r] \ {u} ELSE actors[r]
        BY <2>1, <2>7, <3>3, <4>1 DEF TypeOK
      <4>3. u \in actors[r]
        BY <1>1, <2>3, <3>1, <3>3
      <4>4. \A v \in Users : v # u => ConnectionsOf(r, v)' = ConnectionsOf(r, v)
        BY <2>8
      <4>5. ConnectionsOf(r, u)' = ConnectionsOf(t, u)'
        BY <1>1, <1>4, <3>3
      <4>6. CASE ConnectionsOf(t, u)' = {}
        <5>1. actors'[r] = actors[r] \ {u}
          BY <4>2, <4>6
        <5>2. \A v \in Users : v \in actors'[r] <=> ConnectionsOf(r, v)' # {}
          BY <3>1, <4>4, <4>5, <4>6, <5>1
        <5>3. actors'[r] \subseteq Users
          BY <3>1, <5>1
        <5>4. QED
          BY <5>2, <5>3
      <4>7. CASE ConnectionsOf(t, u)' # {}
        <5>1. actors'[r] = actors[r]
          BY <4>2, <4>7
        <5>2. \A v \in Users : v \in actors'[r] <=> ConnectionsOf(r, v)' # {}
          BY <3>1, <4>3, <4>4, <4>5, <4>7, <5>1
        <5>3. actors'[r] \subseteq Users
          BY <3>1, <5>1
        <5>4. QED
          BY <5>2, <5>3
      <4>8. QED
        BY <4>6, <4>7
    <3>4. QED
      BY <3>2, <3>3
  <2>10. SessionsAgree'
    <3>1. ASSUME NEW r \in Rooms, NEW v \in Users
          PROVE  /\ sessions'[r][v] = NoSession <=> ConnectionsOf(r, v)' = {}
                 /\ sessions'[r][v] # NoSession =>
                      sessions'[r][v].conns = ConnectionsOf(r, v)'
      <4>1. CASE r = t /\ v = u
        BY <2>7, <4>1
      <4>2. CASE ~(r = t /\ v = u)
        <5>1. sessions'[r][v] = sessions[r][v] /\ ConnectionsOf(r, v)' = ConnectionsOf(r, v)
          BY <2>8, <4>2
        <5>2. QED
          BY <5>1 DEF SessionsAgree
      <4>3. QED
        BY <4>1, <4>2
    <3>2. \A r \in Rooms, d \in Connections : r \in bound'[d] <=> r \in subs'[d]
      BY <2>1, <2>2, <2>6 DEF SessionsAgree, TypeOK
    <3>3. QED
      BY <2>9, <3>1, <3>2 DEF SessionsAgree
  <2>11. SeenTogether'
    <3> SUFFICES ASSUME NEW r \in Rooms, NEW v \in Users, NEW d \in ConnectionsOf(r, v)'
                 PROVE  sessions'[r][v].idle <= contexts[d].age
      BY <1>2 DEF SeenTogether
    <3>1. d \in ConnectionsOf(r, v)
      BY <1>4
    <3>2. CASE r = t /\ v = u
      <4>1. sessions'[r][v].idle = 0
        BY <2>7, <3>2
      <4>2. contexts[d] \in Context
        BY <3>1 DEF ConnectionsOf, Registered, TypeOK
      <4>3. QED
        BY <4>1, <4>2, RuntimeAssumption DEF Context, Ages
    <3>3. CASE ~(r = t /\ v = u)
      BY <2>8, <3>1, <3>3 DEF SeenTogether
    <3>4. QED
      BY <3>2, <3>3
  <2>12. RosterIsCurrent'
    <3> SUFFICES ASSUME NEW d \in Registered, NEW r \in Rooms, r \in subs'[d],
                        link[d] = "open"
                 PROVE  roster'[d][r] = [users |-> active'[r], actors |-> actors'[r]]
      BY <1>2 DEF RosterIsCurrent
    <3>1. d \in Connections /\ r \in subs[d] /\ ~(d = c /\ r = t)
      BY <2>2 DEF Registered
    <3>2. roster[d][r] = [users |-> active[r], actors |-> actors[r]]
      BY <3>1 DEF RosterIsCurrent
    <3>3. CASE r # t
      <4>1. active'[r] = active[r] /\ actors'[r] = actors[r]
        BY <2>1, <3>3 DEF TypeOK
      <4>2. roster'[d][r] = roster[d][r]
        BY <2>1, <3>1, <3>3 DEF TypeOK
      <4>3. QED
        BY <3>2, <4>1, <4>2
    <3>4. CASE r = t
      <4>1. d # c /\ d \in listeners[t] /\ d \in clients /\ Reached(d)
        BY <3>1, <3>4, RuntimeAssumption DEF IndexAgrees, Reached
      <4>2. roster'[d][r] = Farewell({c}, t, roster[d][r])
        BY <2>1, <3>1, <3>4, <4>1 DEF TypeOK
      <4>3. actors'[r] \subseteq actors[r]
        BY <1>4, <2>9 DEF SessionsAgree
      <4>4. actors[r] \ (actors[r] \ actors'[r]) = actors'[r]
        BY <4>3
      <4>5. roster[d][r].users = active[r] /\ roster[d][r].actors = actors[r]
        BY <3>2
      <4>6. (IF active'[r] # active[r] THEN active'[r] ELSE roster[d][r].users) = active'[r]
        BY <4>5
      <4>7. QED
        BY <3>4, <4>2, <4>4, <4>5, <4>6 DEF Farewell
    <3>5. QED
      BY <3>3, <3>4
  <2>13. QED
    BY <1>5, <2>5, <2>10, <2>11, <2>12
<1>8. QED
  BY <1>6, <1>7
-----------------------------------------------------------------------------
(***************************************************************************)
(* Type correctness.                                                       *)
(***************************************************************************)
RegistryTypes ==
  /\ subs \in [Connections -> SUBSET Topics]
  /\ listeners \in [Topics -> SUBSET Connections]
  /\ rooms \in [Connections -> SUBSET Rooms]
  /\ present \in [Rooms -> [Users -> SUBSET Connections]]
  /\ active \in [Rooms -> SUBSET Users]
  /\ sessions \in [Rooms -> [Users -> Session \cup {NoSession}]]
  /\ actors \in [Rooms -> SUBSET Users]
  /\ bound \in [Connections -> SUBSET Rooms]
  /\ roster \in [Connections -> [Rooms -> Roster]]

\* Joining keeps the types of the registries.
LEMMA JoinTypes ==
  ASSUME TypeOK, NEW c \in Connections, NEW u \in Users, NEW T \in SUBSET Topics,
         SubscribeTo(c, u, T)
  PROVE  RegistryTypes'
<1> USE DEF SubscribeTo, TypeOK
<1>1. subs' \in [Connections -> SUBSET Topics] /\ listeners' \in [Topics -> SUBSET Connections]
  BY DEF Subscribed
<1>2. rooms' \in [Connections -> SUBSET Rooms] /\ active' \in [Rooms -> SUBSET Users]
  BY DEF JoinRooms
<1>3. present' \in [Rooms -> [Users -> SUBSET Connections]]
  BY DEF JoinRooms
<1>4. actors' \in [Rooms -> SUBSET Users] /\ bound' \in [Connections -> SUBSET Rooms]
  BY DEF JoinSessions
<1>5. sessions' \in [Rooms -> [Users -> Session \cup {NoSession}]]
  <2>1. ASSUME NEW r \in Rooms
        PROVE  [conns |-> {c} \cup (IF sessions[r][u] = NoSession THEN {}
                                    ELSE sessions[r][u].conns),
                idle |-> 0] \in Session
    BY RuntimeAssumption DEF Session, Ages
  <2>2. QED
    BY <2>1 DEF JoinSessions
<1>6. roster' \in [Connections -> [Rooms -> Roster]]
  <2>1. \A r \in Rooms : [users |-> active'[r], actors |-> actors'[r]] \in Roster
    BY <1>2, <1>4 DEF Roster
  <2>2. \A r \in Rooms, d \in Connections :
          [users  |-> IF IsNewcomer(c, u, r) THEN active'[r] ELSE roster[d][r].users,
           actors |-> IF IsNewParticipant(c, u, r) THEN roster[d][r].actors \cup {u}
                      ELSE roster[d][r].actors] \in Roster
    BY <1>2 DEF Roster
  <2>3. QED
    BY <2>1, <2>2 DEF Welcome
<1>7. QED
  BY <1>1, <1>2, <1>3, <1>4, <1>5, <1>6 DEF RegistryTypes

\* What is left of a session is a session, or none.
LEMMA WhatIsLeft ==
  ASSUME NEW D \in SUBSET Connections, NEW session \in Session \cup {NoSession}
  PROVE  SessionWithout(D, session) \in Session \cup {NoSession}
<1>1. CASE session = NoSession \/ session.conns \subseteq D
  BY <1>1 DEF SessionWithout
<1>2. CASE ~(session = NoSession \/ session.conns \subseteq D)
  <2>1. SessionWithout(D, session) = [conns |-> session.conns \ D, idle |-> 0]
    BY <1>2 DEF SessionWithout
  <2>2. session \in Session
    BY <1>2
  <2>3. QED
    BY <2>1, <2>2, RuntimeAssumption DEF Session, Ages
<1>3. QED
  BY <1>1, <1>2

\* Disconnecting keeps the types of the registries.
LEMMA LeaveTypes ==
  ASSUME TypeOK, NEW D \in SUBSET Connections, NEW E, Disconnect(D, E)
  PROVE  /\ RegistryTypes'
         /\ contexts' \in [Connections -> Context \cup {NoContext}]
         /\ clients' \subseteq Connections
<1> USE DEF Disconnect, TypeOK
<1>1. /\ subs' \in [Connections -> SUBSET Topics]
      /\ listeners' \in [Topics -> SUBSET Connections]
      /\ contexts' \in [Connections -> Context \cup {NoContext}]
      /\ clients' \subseteq Connections
  BY DEF Unregister
<1>2. rooms' \in [Connections -> SUBSET Rooms] /\ active' \in [Rooms -> SUBSET Users]
  BY DEF LeaveRooms, ActiveWithout
<1>3. present' \in [Rooms -> [Users -> SUBSET Connections]]
  BY DEF LeaveRooms
<1>4. actors' \in [Rooms -> SUBSET Users] /\ bound' \in [Connections -> SUBSET Rooms]
  BY DEF LeaveSessions
<1>5. sessions' \in [Rooms -> [Users -> Session \cup {NoSession}]]
  BY WhatIsLeft DEF LeaveSessions
<1>6. roster' \in [Connections -> [Rooms -> Roster]]
  <2>1. Blank \in Roster
    BY DEF Blank, Roster
  <2>2. ASSUME NEW r \in Rooms, NEW d \in Connections
        PROVE  Farewell(D, r, roster[d][r]) \in Roster
    BY <1>2 DEF Farewell, Roster
  <2>3. QED
    BY <2>1, <2>2 DEF SayGoodbye
<1>7. QED
  BY <1>1, <1>2, <1>3, <1>4, <1>5, <1>6 DEF RegistryTypes

\* Unsubscribing keeps the types of the registries.
LEMMA UnsubscribeTypes ==
  ASSUME TypeOK, NEW c \in Connections, NEW t \in Topics, Unsubscribe(c, t)
  PROVE  RegistryTypes'
<1> USE DEF TypeOK
<1>0. PICK u \in Users : u = contexts[c].user
  BY DEF Unsubscribe, Receives, Context
<1>1. subs' \in [Connections -> SUBSET Topics] /\ listeners' \in [Topics -> SUBSET Connections]
  BY DEF Unsubscribe
<1>2. CASE t \notin Rooms
  BY <1>1, <1>2 DEF Unsubscribe, RegistryTypes, presenceRegistry, sessionRegistry
<1>3. CASE t \in Rooms
  <2>1. /\ rooms' = [rooms EXCEPT ![c] = @ \ {t}]
        /\ present' = [present EXCEPT ![t][u] = @ \ {c}]
        /\ active' = [active EXCEPT ![t] = ActiveWithout({c}, t)]
        /\ sessions' = [sessions EXCEPT ![t][u] = SessionWithout({c}, @)]
        /\ actors' = [actors EXCEPT ![t] =
                        IF SessionWithout({c}, sessions[t][u]) = NoSession
                        THEN @ \ {u} ELSE @]
        /\ bound' = [bound EXCEPT ![c] =
                       IF sessions[t][u] = NoSession THEN @ ELSE @ \ {t}]
        /\ roster' = [d \in Connections |->
             IF d = c THEN [roster[d] EXCEPT ![t] = Blank]
             ELSE IF d \in listeners[t] /\ d \in clients /\ Reached(d)
             THEN [roster[d] EXCEPT ![t] = Farewell({c}, t, @)]
             ELSE roster[d]]
    BY <1>0, <1>3 DEF Unsubscribe
  <2>2. rooms' \in [Connections -> SUBSET Rooms]
    BY <2>1
  <2>3. active' \in [Rooms -> SUBSET Users]
    <3>1. ActiveWithout({c}, t) \subseteq Users
      BY <1>3 DEF ActiveWithout
    <3>2. QED
      BY <2>1, <3>1
  <2>4. present' \in [Rooms -> [Users -> SUBSET Connections]]
    <3>1. present[t][u] \ {c} \in SUBSET Connections
      BY <1>0, <1>3
    <3>2. QED
      BY <2>1, <3>1
  <2>5. actors' \in [Rooms -> SUBSET Users]
    BY <2>1
  <2>6. bound' \in [Connections -> SUBSET Rooms]
    BY <2>1
  <2>7. sessions' \in [Rooms -> [Users -> Session \cup {NoSession}]]
    <3>0. {c} \in SUBSET Connections /\ sessions[t][u] \in Session \cup {NoSession}
      BY <1>0, <1>3
    <3>1. SessionWithout({c}, sessions[t][u]) \in Session \cup {NoSession}
      BY <3>0, WhatIsLeft
    <3>2. QED
      BY <2>1, <3>1
  <2>8. roster' \in [Connections -> [Rooms -> Roster]]
    <3>1. Blank \in Roster
      BY DEF Blank, Roster
    <3>2. ASSUME NEW d \in Connections
          PROVE  Farewell({c}, t, roster[d][t]) \in Roster
      BY <1>3, <2>3 DEF Farewell, Roster
    <3>3. QED
      BY <2>1, <3>1, <3>2
  <2>9. QED
    BY <1>1, <2>2, <2>3, <2>4, <2>5, <2>6, <2>7, <2>8 DEF RegistryTypes
<1>4. QED
  BY <1>2, <1>3
-----------------------------------------------------------------------------
(***************************************************************************)
(* Each handler keeps the inductive invariant.                             *)
(***************************************************************************)
\* The snapshots of an upgrade or a heartbeat are what is left of the old.
LEMMA LiveTypes ==
  ASSUME TypeOK
  PROVE  /\ LiveSnapshots \in [Connections -> Snapshot \cup {NoSnapshot}]
         /\ \A k \in Connections : LiveSnapshots[k] # NoSnapshot => snapshots[k] # NoSnapshot
BY DEF LiveSnapshots, TypeOK

\* An upgrade begins: only a link and the waiting snapshots change.
LEMMA StartUpgradeStep ==
  ASSUME IInv, NEW c \in Connections, NEW token \in Connections \cup {NoToken},
         StartUpgrade(c, token)
  PROVE  IInv'
<1> USE DEF IInv, StartUpgrade
<1>1. /\ Agreement' /\ Registered' = Registered
      /\ \A r \in Rooms, u \in Users : ConnectionsOf(r, u)' = ConnectionsOf(r, u)
  BY QuietStep
<1>2. TypeOK'
  BY LiveTypes DEF TypeOK, Links, connectionRegistry, presenceRegistry, sessionRegistry
<1>3. \A d \in Connections : link'[d] \in Before => link[d] \in Before
  BY DEF TypeOK, Before
<1>4. Upgraded'
  <2>1. \A d \in Registered : d \in Connections /\ contexts[d].token \in Connections
    BY DEF Registered, TypeOK, Context
  <2>2. QED
    BY <1>1, <1>3, <2>1, LiveTypes DEF Upgraded, connectionRegistry
<1>5. TokenHeldOnce'
  <2>1. \A d \in Registered : contexts[d].token \in Connections
    BY DEF Registered, TypeOK, Context
  <2>2. QED
    BY <1>1, <2>1, LiveTypes DEF TokenHeldOnce, connectionRegistry
<1>6. RosterIsCurrent'
  BY <1>1, SameRoster DEF connectionRegistry, presenceRegistry, sessionRegistry, TypeOK, Registered
<1>7. QED
  BY <1>1, <1>2, <1>4, <1>5, <1>6

\* An upgrade is refused, or the peer of an open connection leaves: a link that is
\* not open after it, and nothing else of the registries.
LEMMA LinkStep ==
  ASSUME IInv, NEW c \in Connections, RejectUpgrade(c) \/ PeerLeaves(c)
  PROVE  IInv'
<1> USE DEF IInv
<1>1. /\ UNCHANGED <<running, connectionRegistry, presenceRegistry, sessionRegistry,
                    snapshots, roster>>
      /\ \E l \in {"closed", "silent", "closing"} : link' = [link EXCEPT ![c] = l]
      /\ asked' \in [Connections -> Connections \cup {NoToken}]
  BY DEF RejectUpgrade, PeerLeaves, TypeOK
<1>2. /\ Agreement' /\ Registered' = Registered
      /\ \A r \in Rooms, u \in Users : ConnectionsOf(r, u)' = ConnectionsOf(r, u)
  BY <1>1, QuietStep
<1>3. TypeOK'
  BY <1>1 DEF TypeOK, Links, connectionRegistry, presenceRegistry, sessionRegistry
<1>4. \A d \in Connections : /\ link'[d] \in Before => link[d] \in Before
                             /\ link'[d] = "open" => link[d] = "open"
  BY <1>1 DEF TypeOK, Before
<1>5. Upgraded'
  <2>1. \A d \in Registered : d \in Connections /\ contexts[d].token \in Connections
    BY DEF Registered, TypeOK, Context
  <2>2. QED
    BY <1>1, <1>2, <1>4, <2>1 DEF Upgraded, connectionRegistry
<1>6. TokenHeldOnce'
  BY <1>1, <1>2 DEF TokenHeldOnce, connectionRegistry
<1>7. RosterIsCurrent'
  BY <1>1, <1>2, <1>4, SameRoster
  DEF connectionRegistry, presenceRegistry, sessionRegistry, Registered
<1>8. QED
  BY <1>2, <1>3, <1>5, <1>6, <1>7
\* The token a connection is registered with is nobody else's and is filed nowhere.
LEMMA RegisterStep ==
  ASSUME IInv, NEW c \in Connections, NEW u \in Users, NEW token \in Connections,
         link[c] = "resolving", Register(c, u, token),
         token = c \/ (snapshots[token] # NoSnapshot /\ snapshots'[token] = NoSnapshot),
         \A k \in Connections : snapshots'[k] # NoSnapshot => snapshots[k] # NoSnapshot
  PROVE  Upgraded' /\ TokenHeldOnce' /\ Registered' = Registered \cup {c} /\ c \notin Registered
<1> USE DEF IInv, Register
<1>1. contexts'[c] = [user |-> u, token |-> token, age |-> 0] /\ contexts'[c] \in Context
  BY RuntimeAssumption DEF TypeOK, Context, Ages
<1>2. Registered' = Registered \cup {c} /\ c \notin Registered
  BY <1>1, NullsAssumption DEF Registered, Upgraded, Before, TypeOK
<1>3. \A d \in Registered : /\ d \in Connections /\ d # c /\ contexts'[d] = contexts[d]
                            /\ contexts[d].token \in Connections
  BY <1>2 DEF Registered, TypeOK, Context
<1>4. snapshots[c] = NoSnapshot /\ \A d \in Registered : contexts[d].token # c
  BY <1>3 DEF Upgraded, Before
<1>5. \A d \in Registered : contexts[d].token # token
  BY <1>4 DEF TokenHeldOnce
<1>6. snapshots'[token] = NoSnapshot
  BY <1>4
<1>7. TokenHeldOnce'
  <2>1. ASSUME NEW d \in Registered'
        PROVE  snapshots'[contexts'[d].token] = NoSnapshot
    <3>1. CASE d = c
      BY <1>1, <1>6, <3>1
    <3>2. CASE d # c
      BY <1>2, <1>3, <3>2 DEF TokenHeldOnce
    <3>3. QED
      BY <3>1, <3>2
  <2>2. ASSUME NEW d \in Registered', NEW e \in Registered',
               contexts'[d].token = contexts'[e].token
        PROVE  d = e
    <3>1. CASE d \in Registered /\ e \in Registered
      BY <1>3, <2>2, <3>1 DEF TokenHeldOnce
    <3>2. CASE d \notin Registered \/ e \notin Registered
      BY <1>1, <1>2, <1>3, <1>5, <2>2, <3>2
    <3>3. QED
      BY <3>1, <3>2
  <2>3. QED
    BY <2>1, <2>2 DEF TokenHeldOnce
<1>8. Upgraded'
  <2>1. \A k \in Connections : link'[k] \in Before => link[k] \in Before /\ k # c
    BY DEF TypeOK, Before
  <2>2. token = c \/ link[token] \notin Before
    BY DEF Upgraded
  <2>3. \A d \in Registered' : link'[d] \notin Before
    BY <1>2, <1>3, <2>1 DEF Upgraded
  <2>4. \A d \in Registered' : link'[contexts'[d].token] \notin Before
    BY <1>1, <1>2, <1>3, <2>1, <2>2 DEF Upgraded
  <2>5. \A k \in Connections : snapshots'[k] # NoSnapshot => link'[k] \notin Before
    BY <2>1 DEF Upgraded
  <2>6. QED
    BY <2>3, <2>4, <2>5 DEF Upgraded
<1>9. QED
  BY <1>2, <1>7, <1>8

\* An upgrade that replays a snapshot.
LEMMA RestoreStep ==
  ASSUME IInv, NEW c \in Connections, NEW u \in Users,
         FinishUpgrade(c, u), Restorable(c, u)
  PROVE  IInv'
<1> USE DEF IInv
<1>1. PICK token \in Connections : token = asked[c] /\ snapshots[token] # NoSnapshot
  BY DEF Restorable, TypeOK
<1>2. PICK T \in SUBSET Topics : T = snapshots[token].topics
  BY <1>1 DEF TypeOK, Snapshot
<1>3. /\ link[c] = "resolving" /\ Register(c, u, token) /\ SubscribeTo(c, u, T)
      /\ snapshots' = [snapshots EXCEPT ![token] = NoSnapshot]
      /\ asked' = [asked EXCEPT ![c] = NoToken] /\ running' = running
  BY <1>1, <1>2 DEF FinishUpgrade
<1>4. /\ snapshots'[token] = NoSnapshot
      /\ \A k \in Connections : snapshots'[k] # NoSnapshot => snapshots[k] # NoSnapshot
  BY <1>3 DEF TypeOK
<1>5. Upgraded' /\ TokenHeldOnce' /\ c \notin Registered
  BY <1>1, <1>3, <1>4, RegisterStep
<1>6. /\ contexts'[c] = [user |-> u, token |-> token, age |-> 0]
      /\ contexts'[c] \in Context
      /\ \A d \in Connections : d # c => contexts'[d] = contexts[d] /\ link'[d] = link[d]
      /\ clients' = clients \cup {c} /\ contexts[c] = NoContext
  BY <1>3, <1>5, RuntimeAssumption DEF Register, TypeOK, Context, Ages, Registered
<1>7. Agreement' /\ RosterIsCurrent'
  BY <1>3, <1>6, JoinStep
<1>8. TypeOK'
  <2>1. RegistryTypes'
    BY <1>3, JoinTypes
  <2>2. link' \in [Connections -> Links] /\ clients' \subseteq Connections
        /\ contexts' \in [Connections -> Context \cup {NoContext}]
    BY <1>3, <1>6 DEF Register, TypeOK, Links
  <2>3. running' \in BOOLEAN /\ asked' \in [Connections -> Connections \cup {NoToken}]
        /\ snapshots' \in [Connections -> Snapshot \cup {NoSnapshot}]
    BY <1>3 DEF TypeOK
  <2>4. QED
    BY <2>1, <2>2, <2>3 DEF TypeOK, RegistryTypes
<1>9. QED
  BY <1>5, <1>7, <1>8

\* An upgrade that replays nothing: the new connection has no subscription.
LEMMA FreshStep ==
  ASSUME IInv, NEW c \in Connections, NEW u \in Users,
         FinishUpgrade(c, u), ~Restorable(c, u)
  PROVE  IInv'
<1> USE DEF IInv
<1>1. /\ link[c] = "resolving" /\ Register(c, u, c)
      /\ UNCHANGED <<subs, listeners, presenceRegistry, sessionRegistry, snapshots, roster>>
      /\ asked' = [asked EXCEPT ![c] = NoToken] /\ running' = running
  BY DEF FinishUpgrade
<1>2. Upgraded' /\ TokenHeldOnce' /\ Registered' = Registered \cup {c} /\ c \notin Registered
  BY <1>1, RegisterStep
<1>3. /\ contexts'[c] \in Context /\ clients' = clients \cup {c} /\ subs[c] = {}
      /\ link' = [link EXCEPT ![c] = "open"]
      /\ \A d \in Connections : d # c => contexts'[d] = contexts[d] /\ link'[d] = link[d]
  BY <1>1, <1>2, RuntimeAssumption
     DEF Register, TypeOK, Context, Ages, Agreement, IndexAgrees
<1>4. ASSUME NEW r \in Rooms, NEW v \in Users
      PROVE  ConnectionsOf(r, v)' = ConnectionsOf(r, v)
  <2>1. ASSUME NEW d \in Connections
        PROVE  d \in ConnectionsOf(r, v)' <=> d \in ConnectionsOf(r, v)
    BY <1>1, <1>2, <1>3 DEF ConnectionsOf
  <2>2. ConnectionsOf(r, v)' \subseteq Connections /\ ConnectionsOf(r, v) \subseteq Connections
    BY DEF ConnectionsOf, Registered
  <2>3. QED
    BY <2>1, <2>2
<1>5. IndexAgrees'
  BY <1>1, <1>2, <1>3 DEF Agreement, IndexAgrees
<1>6. PresenceAgrees' /\ SessionsAgree'
  <2>1. UNCHANGED <<subs, rooms, present, active, sessions, actors, bound>>
    BY <1>1 DEF presenceRegistry, sessionRegistry
  <2>2. PresenceAgrees'
    BY <1>4, <2>1 DEF Agreement, PresenceAgrees
  <2>3. SessionsAgree'
    BY <1>4, <2>1 DEF Agreement, SessionsAgree
  <2>4. QED
    BY <2>2, <2>3
<1>7. SeenTogether'
  <2> SUFFICES ASSUME NEW r \in Rooms, NEW v \in Users, NEW d \in ConnectionsOf(r, v)'
               PROVE  sessions'[r][v].idle <= contexts'[d].age
    BY DEF SeenTogether
  <2>1. d \in ConnectionsOf(r, v) /\ contexts'[d] = contexts[d]
    BY <1>2, <1>3, <1>4 DEF ConnectionsOf, Registered
  <2>2. QED
    BY <1>1, <2>1 DEF Agreement, SeenTogether, sessionRegistry
<1>8. RosterIsCurrent'
  BY <1>1, <1>2, <1>3 DEF RosterIsCurrent, presenceRegistry, sessionRegistry, Registered
<1>9. TypeOK'
  BY <1>1, <1>3 DEF TypeOK, Links, Register, presenceRegistry, sessionRegistry
<1>10. QED
  BY <1>2, <1>5, <1>6, <1>7, <1>8, <1>9 DEF Agreement

\* A message subscribes a connection to a topic, or takes a topic from it.
LEMMA SubscriptionStep ==
  ASSUME IInv, NEW c \in Connections, NEW t \in Topics,
         Subscribe(c, t) \/ Unsubscribe(c, t)
  PROVE  IInv'
<1> USE DEF IInv
<1>1. UNCHANGED <<running, link, asked, contexts, clients, snapshots>>
  BY DEF Subscribe, Unsubscribe
<1>2. Upgraded' /\ TokenHeldOnce'
  BY <1>1 DEF Upgraded, TokenHeldOnce, Registered
<1>3. CASE Subscribe(c, t)
  <2>1. PICK u \in Users : u = contexts[c].user
    BY <1>3 DEF Subscribe, Receives, TypeOK, Context
  <2>2. /\ {t} \in SUBSET Topics /\ SubscribeTo(c, u, {t})
        /\ contexts'[c] \in Context /\ contexts'[c].user = u
        /\ clients' = clients \cup {c}
    BY <1>1, <1>3, <2>1
       DEF Subscribe, Receives, TypeOK, Agreement, IndexAgrees, Registered
  <2>3. Agreement' /\ RosterIsCurrent'
    BY <1>1, <2>2, JoinStep
  <2>4. RegistryTypes'
    BY <2>2, JoinTypes
  <2>5. QED
    BY <1>1, <1>2, <2>3, <2>4 DEF TypeOK, RegistryTypes
<1>4. CASE Unsubscribe(c, t)
  <2>1. Agreement' /\ RosterIsCurrent'
    BY <1>4, UnsubscribeStep
  <2>2. RegistryTypes'
    BY <1>4, UnsubscribeTypes
  <2>3. QED
    BY <1>1, <1>2, <2>1, <2>2 DEF TypeOK, RegistryTypes
<1>5. QED
  BY <1>3, <1>4
\* A connection answers a heartbeat: it was seen, and so were its sessions.
LEMMA HeartbeatAckStep ==
  ASSUME IInv, NEW c \in Connections, NEW age \in Ages, HeartbeatAck(c, age)
  PROVE  IInv'
<1> USE DEF IInv
<1>1. /\ UNCHANGED <<running, link, asked, subs, listeners, clients, presenceRegistry,
                    actors, bound, snapshots, roster>>
      /\ c \in Registered /\ contexts[c] \in Context /\ age <= contexts[c].age
  BY RuntimeAssumption DEF HeartbeatAck, Receives, Registered, TypeOK, Context, Ages
<1>2. /\ contexts'[c] = [contexts[c] EXCEPT !.age = age]
      /\ contexts'[c] \in Context /\ contexts'[c].user = contexts[c].user
      /\ contexts'[c].token = contexts[c].token /\ contexts'[c].age = age
      /\ \A d \in Connections : d # c => contexts'[d] = contexts[d]
  BY <1>1 DEF HeartbeatAck, TypeOK, Context
<1>3. /\ Registered' = Registered
      /\ \A r \in Rooms, u \in Users : ConnectionsOf(r, u)' = ConnectionsOf(r, u)
  BY <1>1, <1>2, SameRooms
<1>4. ASSUME NEW r \in Rooms, NEW u \in Users
      PROVE  sessions'[r][u] =
               IF /\ r \in bound[c] /\ u \in actors[r]
                  /\ sessions[r][u] # NoSession /\ c \in sessions[r][u].conns
               THEN [sessions[r][u] EXCEPT !.idle = 0]
               ELSE sessions[r][u]
  BY DEF HeartbeatAck
<1>5. ASSUME NEW r \in Rooms, NEW u \in Users
      PROVE  \/ sessions'[r][u] = sessions[r][u]
             \/ /\ sessions[r][u] \in Session /\ sessions'[r][u] \in Session
                /\ sessions'[r][u].conns = sessions[r][u].conns
                /\ sessions'[r][u].idle = 0
  <2>1. sessions[r][u] \in Session \cup {NoSession} /\ 0 \in Ages
    BY RuntimeAssumption DEF TypeOK, Ages
  <2>2. CASE /\ r \in bound[c] /\ u \in actors[r]
             /\ sessions[r][u] # NoSession /\ c \in sessions[r][u].conns
    <3>1. sessions'[r][u] = [sessions[r][u] EXCEPT !.idle = 0] /\ sessions[r][u] \in Session
      BY <1>4, <2>1, <2>2
    <3>2. QED
      BY <2>1, <3>1 DEF Session
  <2>3. CASE ~(/\ r \in bound[c] /\ u \in actors[r]
               /\ sessions[r][u] # NoSession /\ c \in sessions[r][u].conns)
    <3>1. sessions'[r][u] = sessions[r][u]
      BY <1>4, <2>3
    <3>2. QED
      BY <3>1
  <2>4. QED
    BY <2>2, <2>3
<1>6. IndexAgrees' /\ PresenceAgrees' /\ SessionsAgree'
  BY <1>1, <1>3, <1>5, SameAgreement
<1>7. SeenTogether'
  <2> SUFFICES ASSUME NEW r \in Rooms, NEW v \in Users, NEW d \in ConnectionsOf(r, v)'
               PROVE  sessions'[r][v].idle <= contexts'[d].age
    BY DEF SeenTogether
  <2>1. d \in ConnectionsOf(r, v) /\ d \in Connections
    BY <1>3 DEF ConnectionsOf, Registered
  <2>2. contexts'[d].age \in Nat
    <3>1. contexts'[d] \in Context
      BY <1>2, <2>1 DEF ConnectionsOf, Registered, TypeOK
    <3>2. QED
      BY <3>1, RuntimeAssumption DEF Context, Ages
  <2>3. CASE d = c
    <3>1. r \in bound[c] /\ v \in actors[r]
      BY <2>1, <2>3 DEF Agreement, SessionsAgree, ConnectionsOf
    <3>2. sessions[r][v] # NoSession /\ c \in sessions[r][v].conns
      BY <2>1, <2>3 DEF Agreement, SessionsAgree
    <3>3. sessions'[r][v] = [sessions[r][v] EXCEPT !.idle = 0]
      BY <1>4, <3>1, <3>2
    <3>4. sessions[r][v] \in Session
      BY <3>2 DEF TypeOK
    <3>5. sessions'[r][v].idle = 0
      BY <3>3, <3>4 DEF Session
    <3>6. QED
      BY <2>2, <3>5
  <2>4. CASE d # c
    <3>1. contexts'[d] = contexts[d] /\ sessions[r][v].idle <= contexts[d].age
      BY <1>2, <2>1, <2>4 DEF Agreement, SeenTogether
    <3>2. QED
      BY <1>5, <2>2, <3>1
  <2>5. QED
    BY <2>3, <2>4
<1>8. Upgraded'
  <2>1. \A d \in Registered : d \in Connections /\ contexts'[d].token = contexts[d].token
    BY <1>2 DEF Registered
  <2>2. QED
    BY <1>1, <1>3, <2>1 DEF Upgraded
<1>9. TokenHeldOnce'
  <2>1. \A d \in Registered : contexts'[d].token = contexts[d].token
    BY <1>2 DEF Registered
  <2>2. QED
    BY <1>1, <1>3, <2>1 DEF TokenHeldOnce
<1>10. RosterIsCurrent'
  BY <1>1, <1>3, SameRoster DEF presenceRegistry, Registered
<1>11. TypeOK'
  <2>1. contexts' \in [Connections -> Context \cup {NoContext}]
    BY <1>2 DEF HeartbeatAck, TypeOK
  <2>2. sessions' \in [Rooms -> [Users -> Session \cup {NoSession}]]
    <3>1. \A r \in Rooms, u \in Users : sessions'[r][u] \in Session \cup {NoSession}
      BY <1>5 DEF TypeOK
    <3>2. QED
      BY <3>1 DEF HeartbeatAck
  <2>3. QED
    BY <1>1, <2>1, <2>2 DEF TypeOK, presenceRegistry
<1>12. QED
  BY <1>6, <1>7, <1>8, <1>9, <1>10, <1>11 DEF Agreement

\* Ages grow together, up to the horizon.
LEMMA OlderTogether ==
  /\ \A a \in Ages : Older(a) \in Ages
  /\ \A a, b \in Ages : a <= b => Older(a) <= Older(b)
BY RuntimeAssumption DEF Older, Ages

\* An interval passes: everything is one interval older.
LEMMA TickStep ==
  ASSUME IInv, Tick
  PROVE  IInv'
<1> USE DEF IInv
<1>1. UNCHANGED <<running, link, asked, subs, listeners, clients, presenceRegistry,
                  actors, bound, roster>>
  BY DEF Tick
<1>2. ASSUME NEW c \in Connections, contexts[c] # NoContext
      PROVE  /\ contexts[c] \in Context /\ contexts'[c] \in Context
             /\ contexts'[c].user = contexts[c].user
             /\ contexts'[c].token = contexts[c].token
             /\ contexts'[c].age = Older(contexts[c].age)
  <2>1. contexts[c] \in Context /\ contexts'[c] = [contexts[c] EXCEPT !.age = Older(@)]
    BY <1>2 DEF Tick, TypeOK
  <2>2. QED
    BY <2>1, OlderTogether DEF Context
<1>3. \A c \in Connections : contexts[c] = NoContext => contexts'[c] = NoContext
  BY DEF Tick
<1>4. /\ Registered' = Registered
      /\ \A r \in Rooms, u \in Users : ConnectionsOf(r, u)' = ConnectionsOf(r, u)
  BY <1>1, <1>2, <1>3, SameRooms
<1>5. ASSUME NEW r \in Rooms, NEW u \in Users, sessions[r][u] # NoSession
      PROVE  /\ sessions[r][u] \in Session /\ sessions'[r][u] \in Session
             /\ sessions'[r][u].conns = sessions[r][u].conns
             /\ sessions'[r][u].idle = Older(sessions[r][u].idle)
  <2>1. /\ sessions[r][u] \in Session
        /\ sessions'[r][u] = [sessions[r][u] EXCEPT !.idle = Older(@)]
    BY <1>5 DEF Tick, TypeOK
  <2>2. QED
    BY <2>1, OlderTogether DEF Session
<1>6. \A r \in Rooms, u \in Users : sessions[r][u] = NoSession => sessions'[r][u] = NoSession
  BY DEF Tick
<1>7. IndexAgrees' /\ PresenceAgrees' /\ SessionsAgree'
  BY <1>1, <1>4, <1>5, <1>6, SameAgreement
<1>8. SeenTogether'
  <2> SUFFICES ASSUME NEW r \in Rooms, NEW v \in Users, NEW d \in ConnectionsOf(r, v)'
               PROVE  sessions'[r][v].idle <= contexts'[d].age
    BY DEF SeenTogether
  <2>1. d \in ConnectionsOf(r, v) /\ d \in Connections /\ contexts[d] # NoContext
    BY <1>4 DEF ConnectionsOf, Registered
  <2>2. sessions[r][v] # NoSession
    BY <2>1 DEF Agreement, SessionsAgree
  <2>3. sessions[r][v].idle <= contexts[d].age
    BY <2>1 DEF Agreement, SeenTogether
  <2>4. sessions[r][v].idle \in Ages /\ contexts[d].age \in Ages
    BY <1>2, <1>5, <2>1, <2>2 DEF Session, Context
  <2>5. QED
    BY <1>2, <1>5, <2>1, <2>2, <2>3, <2>4, OlderTogether
<1>9. \A k \in Connections : snapshots'[k] # NoSnapshot => snapshots[k] # NoSnapshot
  BY DEF Tick
<1>10. \A c \in Registered : /\ c \in Connections /\ contexts'[c].token = contexts[c].token
                             /\ contexts[c].token \in Connections
  BY <1>2 DEF Registered, Context
<1>11. Upgraded' /\ TokenHeldOnce'
  BY <1>1, <1>4, <1>9, <1>10 DEF Upgraded, TokenHeldOnce
<1>12. RosterIsCurrent'
  BY <1>1, <1>4, SameRoster DEF presenceRegistry, Registered
<1>13. TypeOK'
  <2>1. contexts' \in [Connections -> Context \cup {NoContext}]
    BY <1>2, <1>3 DEF Tick
  <2>2. sessions' \in [Rooms -> [Users -> Session \cup {NoSession}]]
    BY <1>5, <1>6 DEF Tick
  <2>3. snapshots' \in [Connections -> Snapshot \cup {NoSnapshot}]
    <3>1. ASSUME NEW n \in 0..TokenWindow
          PROVE  (IF n = 0 THEN 0 ELSE n - 1) \in 0..TokenWindow
      BY RuntimeAssumption
    <3>2. ASSUME NEW k \in Connections, snapshots[k] # NoSnapshot
          PROVE  [snapshots[k] EXCEPT !.left = IF @ = 0 THEN 0 ELSE @ - 1] \in Snapshot
      <4>1. snapshots[k] \in Snapshot
        BY <3>2 DEF TypeOK
      <4>2. QED
        BY <3>1, <4>1 DEF Snapshot
    <3>3. QED
      BY <3>2 DEF Tick
  <2>4. QED
    BY <1>1, <2>1, <2>2, <2>3 DEF TypeOK, presenceRegistry
<1>14. QED
  BY <1>7, <1>8, <1>11, <1>12, <1>13 DEF Agreement
\* The tokens of those who leave pass from their contexts to the snapshots.
LEMMA TokensStep ==
  ASSUME IInv, NEW D \in SUBSET Registered,
         NEW kept \in [Connections -> Snapshot \cup {NoSnapshot}],
         Unregister(D), snapshots' = SnapshotsWith(D, kept),
         \A k \in Connections : kept[k] # NoSnapshot => snapshots[k] # NoSnapshot,
         \A k \in Connections : link'[k] \in Before => link[k] \in Before
  PROVE  /\ snapshots' \in [Connections -> Snapshot \cup {NoSnapshot}]
         /\ TokenHeldOnce' /\ Upgraded'
<1> USE DEF IInv
<1>1. \A d \in Registered : /\ d \in Connections /\ contexts[d] \in Context
                            /\ contexts[d].token \in Connections
                            /\ contexts[d].user \in Users
  BY DEF Registered, TypeOK, Context
<1>2. Registered' = Registered \ D /\ \A d \in Registered' : contexts'[d] = contexts[d]
  BY DEF Unregister, Registered
<1>3. ASSUME NEW k \in Connections, \E c \in D : contexts[c].token = k
      PROVE  snapshots'[k] \in Snapshot /\ link[k] \notin Before
  <2>1. PICK c \in D : /\ contexts[c].token = k
                       /\ snapshots'[k] = [user |-> contexts[c].user, topics |-> subs[c],
                                           left |-> TokenWindow]
    BY <1>3 DEF SnapshotsWith
  <2>2. contexts[c].user \in Users /\ subs[c] \in SUBSET Topics /\ TokenWindow \in 0..TokenWindow
    BY <1>1, RuntimeAssumption DEF TypeOK
  <2>3. snapshots'[k] \in Snapshot
    BY <2>1, <2>2 DEF Snapshot
  <2>4. QED
    BY <2>1, <2>3 DEF Upgraded
<1>4. ASSUME NEW k \in Connections, ~\E c \in D : contexts[c].token = k
      PROVE  snapshots'[k] = kept[k]
  BY <1>4 DEF SnapshotsWith
<1>5. snapshots' \in [Connections -> Snapshot \cup {NoSnapshot}]
  <2>1. \A k \in Connections : snapshots'[k] \in Snapshot \cup {NoSnapshot}
    BY <1>3, <1>4
  <2>2. QED
    BY <2>1 DEF SnapshotsWith
<1>6. TokenHeldOnce'
  <2>1. ASSUME NEW d \in Registered'
        PROVE  snapshots'[contexts'[d].token] = NoSnapshot
    <3>1. d \in Registered /\ d \notin D /\ contexts'[d] = contexts[d]
      BY <1>2
    <3>2. contexts[d].token \in Connections /\ snapshots[contexts[d].token] = NoSnapshot
      BY <1>1, <3>1 DEF TokenHeldOnce
    <3>3. ~\E c \in D : contexts[c].token = contexts[d].token
      BY <3>1 DEF TokenHeldOnce
    <3>4. QED
      BY <1>4, <3>1, <3>2, <3>3
  <2>2. QED
    BY <1>2, <2>1 DEF TokenHeldOnce
<1>7. Upgraded'
  <2>1. \A k \in Connections : snapshots'[k] # NoSnapshot => link[k] \notin Before
    BY <1>3, <1>4 DEF Upgraded
  <2>2. QED
    BY <1>1, <1>2, <2>1 DEF Upgraded
<1>8. QED
  BY <1>5, <1>6, <1>7

\* Connections leave, and what the steps that make them leave have in common.
LEMMA DisconnectStep ==
  ASSUME IInv, NEW D \in SUBSET Registered, NEW E \in SUBSET (Rooms \X Users),
         \A r \in Rooms, v \in Users : <<r, v>> \in E => ConnectionsOf(r, v) \subseteq D,
         Disconnect(D, E), running' \in BOOLEAN, asked' = asked,
         link' \in [Connections -> Links],
         \A k \in Connections : /\ link'[k] \in Before => link[k] \in Before
                                /\ link'[k] = "open" => link[k] = "open",
         snapshots' \in [Connections -> Snapshot \cup {NoSnapshot}],
         TokenHeldOnce', Upgraded'
  PROVE  IInv'
<1> USE DEF IInv
<1>1. Agreement' /\ RosterIsCurrent'
  BY LeaveStep
<1>2. D \in SUBSET Connections
  BY DEF Registered
<1>3. /\ RegistryTypes' /\ clients' \subseteq Connections
      /\ contexts' \in [Connections -> Context \cup {NoContext}]
  BY <1>2, LeaveTypes
<1>4. TypeOK'
  BY <1>3 DEF TypeOK, RegistryTypes
<1>5. QED
  BY <1>1, <1>4

\* The close event of a socket.
LEMMA SocketClosesStep ==
  ASSUME IInv, NEW c \in Connections, SocketCloses(c)
  PROVE  IInv'
<1> USE DEF IInv
<1>1. PICK D \in SUBSET Registered : D = {c} \cap Registered
  OBVIOUS
<1>2. /\ link' = [link EXCEPT ![c] = "closed"] /\ link[c] \in {"open", "silent", "closing"}
      /\ Disconnect(D, {}) /\ snapshots' = SnapshotsWith(D, snapshots)
      /\ running' = running /\ asked' = asked
  BY <1>1 DEF SocketCloses
<1>3. /\ link' \in [Connections -> Links]
      /\ \A k \in Connections : /\ link'[k] \in Before => link[k] \in Before
                                /\ link'[k] = "open" => link[k] = "open"
  BY <1>2 DEF TypeOK, Links, Before
<1>4. /\ snapshots' \in [Connections -> Snapshot \cup {NoSnapshot}]
      /\ TokenHeldOnce' /\ Upgraded'
  BY <1>2, <1>3, TokensStep DEF TypeOK, Disconnect
<1>5. QED
  BY <1>2, <1>3, <1>4, DisconnectStep DEF TypeOK

\* The timer: whoever is evicted from a room with a session has timed out there
\* with every connection.
LEMMA HeartbeatStep ==
  ASSUME IInv, Heartbeat
  PROVE  IInv'
<1> USE DEF IInv
<1>1. PICK D \in SUBSET Registered : D = TimedOut
  BY DEF TimedOut
<1>2. PICK E \in SUBSET (Rooms \X Users) : E = Evicted
  BY DEF Evicted
<1>3. PICK kept \in [Connections -> Snapshot \cup {NoSnapshot}] : kept = LiveSnapshots
  BY LiveTypes
<1>4. /\ link' = [k \in Connections |-> IF k \in D THEN "closing" ELSE link[k]]
      /\ Disconnect(D, E) /\ snapshots' = SnapshotsWith(D, kept)
      /\ running' = running /\ asked' = asked
  BY <1>1, <1>2, <1>3 DEF Heartbeat
<1>5. /\ link' \in [Connections -> Links]
      /\ \A k \in Connections : /\ link'[k] \in Before => link[k] \in Before
                                /\ link'[k] = "open" => link[k] = "open"
  BY <1>4 DEF TypeOK, Links, Before
<1>6. ASSUME NEW r \in Rooms, NEW v \in Users, <<r, v>> \in E
      PROVE  ConnectionsOf(r, v) \subseteq D
  <2> SUFFICES ASSUME NEW c \in ConnectionsOf(r, v)
               PROVE  c \in D
    OBVIOUS
  <2>1. sessions[r][v] # NoSession /\ sessions[r][v].idle > SessionStaleAfter
    BY <1>2, <1>6 DEF Evicted
  <2>2. sessions[r][v].idle \in Nat
    BY <2>1, RuntimeAssumption DEF TypeOK, Session, Ages
  <2>3. c \in Registered /\ contexts[c] \in Context
    BY DEF ConnectionsOf, Registered, TypeOK
  <2>4. contexts[c].age \in Nat
    BY <2>3, RuntimeAssumption DEF Context, Ages
  <2>5. sessions[r][v].idle <= contexts[c].age
    BY DEF Agreement, SeenTogether
  <2>6. contexts[c].age > StaleAfter
    BY <2>1, <2>2, <2>4, <2>5, RuntimeAssumption
  <2>7. QED
    BY <1>1, <2>3, <2>6 DEF TimedOut, Agreement, IndexAgrees
<1>7. \A k \in Connections : kept[k] # NoSnapshot => snapshots[k] # NoSnapshot
  BY <1>3, LiveTypes
<1>8. /\ snapshots' \in [Connections -> Snapshot \cup {NoSnapshot}]
      /\ TokenHeldOnce' /\ Upgraded'
  BY <1>4, <1>5, <1>7, TokensStep DEF Disconnect
<1>9. QED
  BY <1>4, <1>5, <1>6, <1>8, DisconnectStep DEF TypeOK

\* stop() empties the registries and forgets the snapshots.
LEMMA StopStep ==
  ASSUME IInv, Stop
  PROVE  IInv'
<1> USE DEF IInv
<1>1. PICK D \in SUBSET Registered : D = Registered
  OBVIOUS
<1>2. /\ link' = [k \in Connections |->
                   IF link[k] \in {"open", "silent"} THEN "closing" ELSE link[k]]
      /\ Disconnect(D, {}) /\ snapshots' = [k \in Connections |-> NoSnapshot]
      /\ running' = FALSE /\ asked' = asked
  BY <1>1 DEF Stop
<1>3. /\ link' \in [Connections -> Links]
      /\ \A k \in Connections : /\ link'[k] \in Before => link[k] \in Before
                                /\ link'[k] = "open" => link[k] = "open"
  BY <1>2 DEF TypeOK, Links, Before
<1>4. Registered' = {}
  BY <1>1, <1>2 DEF Disconnect, Unregister, Registered
<1>5. /\ snapshots' \in [Connections -> Snapshot \cup {NoSnapshot}]
      /\ TokenHeldOnce' /\ Upgraded'
  BY <1>2, <1>4 DEF TokenHeldOnce, Upgraded
<1>6. QED
  BY <1>2, <1>3, <1>5, DisconnectStep
-----------------------------------------------------------------------------
(***************************************************************************)
(* The theorems.                                                           *)
(***************************************************************************)
\* Every step of the runtime keeps the inductive invariant.
THEOREM NextIInv == IInv /\ [Next]_vars => IInv'
<1> SUFFICES ASSUME IInv, [Next]_vars PROVE IInv'
  OBVIOUS
<1>1. ASSUME NEW c \in Connections, NEW token \in Connections \cup {NoToken},
             StartUpgrade(c, token)
      PROVE  IInv'
  BY <1>1, StartUpgradeStep
<1>2. ASSUME NEW c \in Connections, RejectUpgrade(c) \/ PeerLeaves(c)
      PROVE  IInv'
  BY <1>2, LinkStep
<1>3. ASSUME NEW c \in Connections, NEW u \in Users, FinishUpgrade(c, u)
      PROVE  IInv'
  BY <1>3, RestoreStep, FreshStep
<1>4. ASSUME NEW c \in Connections, NEW t \in Topics, Subscribe(c, t) \/ Unsubscribe(c, t)
      PROVE  IInv'
  BY <1>4, SubscriptionStep
<1>5. ASSUME NEW c \in Connections, NEW age \in Ages, HeartbeatAck(c, age)
      PROVE  IInv'
  BY <1>5, HeartbeatAckStep
<1>6. ASSUME NEW c \in Connections, SocketCloses(c)
      PROVE  IInv'
  BY <1>6, SocketClosesStep
<1>7. CASE Tick
  BY <1>7, TickStep
<1>8. CASE Heartbeat
  BY <1>8, HeartbeatStep
<1>9. CASE Stop
  BY <1>9, StopStep
<1>10. CASE UNCHANGED vars
  <2>1. Agreement' /\ Registered' = Registered
    BY <1>10, QuietStep DEF vars
  <2>2. UNCHANGED <<running, link, asked, contexts, subs, listeners, clients, rooms,
                    present, active, sessions, actors, bound, snapshots, roster>>
    BY <1>10 DEF vars, connectionRegistry, presenceRegistry, sessionRegistry
  <2>3. TypeOK'
    BY <2>2 DEF IInv, TypeOK
  <2>4. Upgraded' /\ TokenHeldOnce' /\ RosterIsCurrent'
    BY <2>1, <2>2 DEF IInv, Upgraded, TokenHeldOnce, RosterIsCurrent
  <2>5. QED
    BY <2>1, <2>3, <2>4 DEF IInv
<1>11. QED
  BY <1>1, <1>2, <1>3, <1>4, <1>5, <1>6, <1>7, <1>8, <1>9, <1>10 DEF Next

\* The inductive invariant holds in every state of the runtime.
THEOREM Invariance == Spec => []IInv
<1>1. Init => IInv
  BY InitIInv
<1>2. IInv /\ [Next]_vars => IInv'
  BY NextIInv
<1>3. QED
  BY <1>1, <1>2, PTL DEF Spec

\* The runtime keeps the types of its registries (runtime.ts and the registries).
THEOREM TypeCorrect == Spec => []TypeOK
<1>1. IInv => TypeOK
  BY DEF IInv
<1>2. QED
  BY <1>1, Invariance, PTL

\* The topic index, the subscriptions and the clients of the connection registry
\* never drift apart (connection-registry.ts).
THEOREM IndexCorrect == Spec => []IndexAgrees
<1>1. IInv => IndexAgrees
  BY DEF IInv, Agreement
<1>2. QED
  BY <1>1, Invariance, PTL

\* Presence counts connections rightly (presence-registry.ts): nobody stays in a
\* room as a ghost and nobody is dropped who still has a connection there.
THEOREM PresenceCorrect == Spec => []PresenceAgrees
<1>1. IInv => PresenceAgrees
  BY DEF IInv, Agreement
<1>2. QED
  BY <1>1, Invariance, PTL

\* Workspace sessions live as long as their connections (workspace-session-
\* registry.ts): the eviction never takes one from a connection that stays.
THEOREM SessionsCorrect == Spec => []SessionsAgree
<1>1. IInv => SessionsAgree
  BY DEF IInv, Agreement
<1>2. QED
  BY <1>1, Invariance, PTL

\* No two connections share a reconnect token, and no connection shares one with a
\* snapshot (runtime.ts).
THEOREM TokensCorrect == Spec => []TokenHeldOnce
<1>1. IInv => TokenHeldOnce
  BY DEF IInv
<1>2. QED
  BY <1>1, Invariance, PTL

\* What a reachable subscriber shows of a room is what the registries hold.
THEOREM RostersCorrect == Spec => []RosterIsCurrent
<1>1. IInv => RosterIsCurrent
  BY DEF IInv
<1>2. QED
  BY <1>1, Invariance, PTL
=============================================================================
