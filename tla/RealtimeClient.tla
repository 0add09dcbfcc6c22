----------------------------- MODULE RealtimeClient -----------------------------
(***************************************************************************)
(* One browser tab and its realtime connection (apps/web/src/lib/realtime/    *)
(* client.ts, event-ordering.ts, providers/realtime-provider.tsx) against the  *)
(* server that RealtimeRuntime models in detail, here reduced to its sequences, *)
(* its subscriptions and its reconnect snapshots.                              *)
(*                                                                         *)
(* The provider keeps one client object per access token; a line is one         *)
(* WebSocket with what travels on it in both directions.  A line that breaks    *)
(* loses what travels, and each end notices in its own time.                    *)
(* Left out: the heartbeats, the snapshots and the acceptances, which no         *)
(* variable here depends on; the ten minutes after which an event is stale       *)
(* (the clocks agree and a frame is not ten minutes under way).                  *)
(***************************************************************************)
EXTENDS Naturals, FiniteSets, SequencesExt

CONSTANTS
  Posts,         \* the posts whose pages are visited
  RoomEvents,    \* how many presence and workspace events a join or a leave sends
  MaxSessions,   \* bound: sign-ins of the tab, each with a token of its own
  MaxLines,      \* bound: WebSockets
  Budgets        \* bounds: how often each of these may happen, one record for each
                 \* combination of bounds that is explored

ASSUME RealtimeClientAssumption ==
  /\ {"list", "away"} \cap Posts = {}
  /\ RoomEvents \subseteq Nat
  /\ MaxSessions \in Nat /\ MaxLines \in Nat
  /\ Budgets \subseteq
       [{"sessions", "updates", "visits", "renders", "breaks", "restarts"} -> Nat]
  /\ \A b \in Budgets : /\ b.sessions <= MaxSessions
                        /\ b.sessions + b.breaks + b.restarts <= MaxLines

VARIABLES
  session,          \* session.accessToken, 0 when signed out
  page,             \* the mounted page
  subscriptionRef,  \* the topics the mounted hooks hold
  clients,          \* the client object of each token
  shownState,       \* the provider's state, what the pages show
  lines,            \* the WebSockets
  seqs,             \* RealtimeEventSequencer: the last sequence of each topic
  snapshots,        \* disconnectedSubscriptionSnapshot, by reconnect token
  updates,          \* updates published so far
  reloads,          \* loads the events made the mounted page start
  left              \* what is left of the budget

clientVars == <<session, page, subscriptionRef, clients, shownState, reloads>>
feedVars == <<clientVars, lines, seqs, snapshots, updates, left>>

Sessions == 1..MaxSessions
LineIds == 1..MaxLines
Topics == Posts \cup {"list"}
\* A reconnect token is named by the line it was made for; a snapshot that is
\* not kept is Gone, which is no set of topics.
Gone == {"gone"}

\* The topics that the hooks of a page subscribe to; the five hooks of the page
\* of a post share one.
TopicsOf(p) == {p} \cap Topics

NewClient(subs) ==
  [state |-> "disconnected", socket |-> 0, timer |-> FALSE, manuallyClosed |-> FALSE,
   subscriptions |-> subs, reconnectToken |-> 0, seen |-> {},
   last |-> [p \in Posts |-> 0]]

NoLine ==
  [phase |-> "closed", as |-> 0, asks |-> 0, rct |-> 0, live |-> FALSE,
   broken |-> FALSE, topics |-> {}, restored |-> {}, up |-> <<>>, down |-> <<>>]

Dialled == {s \in LineIds : lines[s].as # 0}
NextLine == Cardinality(Dialled) + 1

Spend(what) == left[what] > 0 /\ left' = [left EXCEPT ![what] = @ - 1]

FeedInit ==
  /\ session = 0
  /\ page = "away"
  /\ subscriptionRef = {}
  /\ clients = [t \in Sessions |-> NewClient({})]
  /\ shownState = "disconnected"
  /\ lines = [s \in LineIds |-> NoLine]
  /\ seqs = [topic \in Topics |-> 0]
  /\ snapshots = [s \in LineIds |-> Gone]
  /\ updates = 0
  /\ reloads = 0
  /\ left \in Budgets

-----------------------------------------------------------------------------
(* What the server sends.                                                    *)

Reaches(line, topic) == line.live /\ ~line.broken /\ topic \in line.topics

\* One broadcast to a topic: every line subscribed to it gets the frame.
Broadcast(ls, topic, frame) ==
  [s \in LineIds |->
     IF Reaches(ls[s], topic) THEN [ls[s] EXCEPT !.down = Append(@, frame)] ELSE ls[s]]

UpdateFrame(p, n, seq) == [kind |-> "update", post |-> p, id |-> n, sequence |-> seq]

\* The events of a join or a leave; of several, the last frame stands for all,
\* since a page does the same with each.
RoomChange(ls, rooms, n) ==
  IF rooms = {} \/ n = 0 THEN ls
  ELSE LET p == CHOOSE room \in rooms : TRUE
       IN Broadcast(ls, p, [kind |-> "presence", post |-> p, id |-> 0,
                            sequence |-> seqs[p] + n])

Counted(rooms, n) ==
  [topic \in Topics |-> IF topic \in rooms THEN seqs[topic] + n ELSE seqs[topic]]

\* A post changed: the broadcaster sends one event, of the post's scope, to the
\* topic of the list and then to the topic of the post.
Publish(p) ==
  /\ Spend("updates")
  /\ updates' = updates + 1
  /\ seqs' = [seqs EXCEPT !["list"] = @ + 1, ![p] = @ + 1]
  /\ lines' = Broadcast(Broadcast(lines, "list", UpdateFrame(p, updates', seqs'["list"])),
                        p, UpdateFrame(p, updates', seqs'[p]))
  /\ UNCHANGED <<clientVars, snapshots>>

-----------------------------------------------------------------------------
(* The server's side of a line.                                              *)

\* An upgrade: the reconnect token of the request restores the subscriptions the
\* server kept, if it did and the minute is not over.
Upgrade(s) ==
  /\ lines[s].phase = "connecting" /\ lines[s].rct = 0 /\ ~lines[s].broken
  /\ \E n \in RoomEvents :
     \E kept \in IF lines[s].asks # 0 /\ snapshots[lines[s].asks] # Gone
                 THEN BOOLEAN ELSE {FALSE} :
       LET restored == IF kept THEN snapshots[lines[s].asks] ELSE {}
           rct == IF kept THEN lines[s].asks ELSE s
           open == [lines EXCEPT ![s].live = TRUE, ![s].rct = rct,
                                 ![s].topics = restored, ![s].restored = restored,
                                 ![s].down = <<[kind |-> "connected", rct |-> rct]>>]
       IN /\ lines' = RoomChange(open, restored \cap Posts, n)
          /\ seqs' = Counted(restored \cap Posts, n)
          /\ snapshots' = IF kept THEN [snapshots EXCEPT ![rct] = Gone] ELSE snapshots
  /\ UNCHANGED <<clientVars, updates, left>>

Subscribe(s, topic) ==
  \E n \in RoomEvents :
    LET joined == ({topic} \cap Posts) \ lines[s].topics
    IN /\ lines' = RoomChange([lines EXCEPT ![s].up = Tail(@), ![s].topics = @ \cup {topic}],
                              joined, n)
       /\ seqs' = Counted(joined, n)

Unsubscribe(s, topic) ==
  \E n \in RoomEvents :
    LET rooms == {topic} \cap Posts \cap lines[s].topics
    IN /\ lines' = RoomChange([lines EXCEPT ![s].up = Tail(@), ![s].topics = @ \ {topic}],
                              rooms, n)
       /\ seqs' = Counted(rooms, n)

ServerTakes(s) ==
  /\ lines[s].live /\ lines[s].up # <<>>
  /\ LET frame == Head(lines[s].up)
     IN \/ frame.op = "subscribe" /\ Subscribe(s, frame.topic)
        \/ frame.op = "unsubscribe" /\ Unsubscribe(s, frame.topic)
  /\ UNCHANGED <<clientVars, snapshots, updates, left>>

\* The server's disconnect: it keeps the subscriptions under the reconnect token.
ServerNotices(s) ==
  /\ lines[s].live
  /\ lines[s].broken \/ (lines[s].phase \in {"closing", "closed"} /\ lines[s].up = <<>>)
  /\ \E n \in RoomEvents :
       LET rooms == lines[s].topics \cap Posts
       IN /\ lines' = RoomChange([lines EXCEPT ![s].live = FALSE, ![s].topics = {},
                                               ![s].broken = TRUE], rooms, n)
          /\ seqs' = Counted(rooms, n)
  /\ snapshots' = [snapshots EXCEPT ![lines[s].rct] = lines[s].topics]
  /\ UNCHANGED <<clientVars, updates, left>>

Broken(line) == [line EXCEPT !.broken = TRUE, !.up = <<>>, !.down = <<>>]

\* The network loses a line, or the server refuses an upgrade.
Break(s) ==
  /\ Spend("breaks")
  /\ lines[s].phase \in {"connecting", "open"} /\ ~lines[s].broken
  /\ lines' = [lines EXCEPT ![s] = Broken(@)]
  /\ UNCHANGED <<clientVars, seqs, snapshots, updates>>

\* A new server process counts from 0 and remembers no line and no snapshot.
Restart ==
  /\ Spend("restarts")
  /\ lines' = [s \in LineIds |->
                 IF lines[s].phase = "closed" /\ ~lines[s].live THEN lines[s]
                 ELSE [Broken(lines[s]) EXCEPT !.live = FALSE, !.topics = {}]]
  /\ seqs' = [topic \in Topics |-> 0]
  /\ snapshots' = [s \in LineIds |-> Gone]
  /\ UNCHANGED <<clientVars, updates>>

-----------------------------------------------------------------------------
(* The client.                                                               *)

Frames(op, topics) ==
  LET order == SetToSeq(topics)
  IN [i \in DOMAIN order |-> [op |-> op, topic |-> order[i]]]

\* send: only an open socket takes a frame.
Send(ls, s, frames) ==
  [r \in LineIds |->
     IF r = s /\ ls[r].phase = "open" /\ ~ls[r].broken
     THEN [ls[r] EXCEPT !.up = @ \o frames] ELSE ls[r]]

MayDial_OnlyWhenDisconnected(c) == c.state = "disconnected"

\* connect: one dial at a time, with the reconnect token of the last line.
MayDial(c) == c.state \notin {"connecting", "connected"}

Dialling(c, s) ==
  [c EXCEPT !.manuallyClosed = FALSE, !.socket = s,
            !.state = IF @ = "reconnecting" THEN "reconnecting" ELSE "connecting"]

Dial(t, c, s) ==
  lines' = [lines EXCEPT ![s] = [NoLine EXCEPT !.phase = "connecting", !.as = t,
                                               !.asks = c.reconnectToken]]

Disconnected_TimerRuns(c) ==
  [NewClient(c.subscriptions) EXCEPT !.manuallyClosed = TRUE, !.timer = c.timer]

Disconnected_Closed(c) ==
  [NewClient(c.subscriptions) EXCEPT !.manuallyClosed = TRUE, !.state = "closed"]

\* disconnect: the timer is cleared and all that ordered the events is forgotten.
Disconnected(c) == [NewClient(c.subscriptions) EXCEPT !.manuallyClosed = TRUE]

\* The two effects of the provider after a sign-in: a new client object, which
\* takes the mounted subscriptions, and connect.
SignIn ==
  /\ session = 0 /\ NextLine \in LineIds
  /\ Spend("sessions")
  /\ session' = MaxSessions - left'.sessions
  /\ LET c == NewClient(subscriptionRef)
     IN /\ Dial(session', c, NextLine)
        /\ clients' = [clients EXCEPT ![session'] = Dialling(c, NextLine)]
        /\ shownState' = clients'[session'].state
  /\ UNCHANGED <<page, subscriptionRef, reloads, seqs, snapshots, updates>>

\* The clean-up of the first effect after a sign-out.
SignOut ==
  /\ session # 0
  /\ session' = 0
  /\ lines' = [s \in LineIds |->
                 IF s = clients[session].socket
                 THEN [lines[s] EXCEPT !.phase = "closing", !.down = <<>>] ELSE lines[s]]
  /\ clients' = [clients EXCEPT ![session] = Disconnected(@)]
  /\ shownState' = "disconnected"
  /\ UNCHANGED <<page, subscriptionRef, reloads, seqs, snapshots, updates, left>>

\* What the hooks of a page do in one commit: the clean-ups of the old
\* subscriptions and then the new ones.
Resubscribe(old, new) ==
  /\ subscriptionRef' = (subscriptionRef \ old) \cup new
  /\ IF session = 0 THEN UNCHANGED <<clients, lines>>
     ELSE /\ clients' = [clients EXCEPT ![session].subscriptions = (@ \ old) \cup new]
          /\ lines' = IF clients[session].state = "connected"
                      THEN Send(lines, clients[session].socket,
                                Frames("unsubscribe", old) \o Frames("subscribe", new))
                      ELSE lines

Visit(q) ==
  /\ Spend("visits")
  /\ q # page /\ (session = 0 => q = "away")
  /\ page' = q /\ reloads' = 0
  /\ Resubscribe(TopicsOf(page), TopicsOf(q))
  /\ UNCHANGED <<session, shownState, seqs, snapshots, updates>>

\* A render makes new subscription objects, so that every render unsubscribes
\* and subscribes again.
Render ==
  /\ Spend("renders")
  /\ page # "away"
  /\ Resubscribe(TopicsOf(page), TopicsOf(page))
  /\ UNCHANGED <<session, page, shownState, reloads, seqs, snapshots, updates>>

OnOpen_NoSubscribeAll(s) ==
  /\ lines[s].phase = "connecting" /\ lines[s].live /\ ~lines[s].broken
  /\ LET t == lines[s].as
     IN /\ clients' = [clients EXCEPT ![t].state = "connected"]
        /\ lines' = [lines EXCEPT ![s].phase = "open"]
  /\ shownState' = "connected"
  /\ UNCHANGED <<session, page, subscriptionRef, reloads, seqs, snapshots, updates, left>>

OnOpen(s) ==
  /\ lines[s].phase = "connecting" /\ lines[s].live /\ ~lines[s].broken
  /\ LET t == lines[s].as
     IN /\ clients' = [clients EXCEPT ![t].state = "connected"]
        /\ lines' = Send([lines EXCEPT ![s].phase = "open"], s,
                         Frames("subscribe", clients[t].subscriptions))
  /\ shownState' = "connected"
  /\ UNCHANGED <<session, page, subscriptionRef, reloads, seqs, snapshots, updates, left>>

\* onclose: of a line the client closed, or of one that broke.
OnClose(s) ==
  /\ \/ lines[s].phase = "closing"
     \/ lines[s].phase \in {"connecting", "open"} /\ lines[s].broken
  /\ lines' = [lines EXCEPT ![s].phase = "closed"]
  /\ LET t == lines[s].as
         next == IF clients[t].manuallyClosed THEN "disconnected" ELSE "reconnecting"
     IN /\ clients' = [clients EXCEPT ![t].socket = 0, ![t].state = next,
                                      ![t].timer = next = "reconnecting"]
        /\ shownState' = next
  /\ UNCHANGED <<session, page, subscriptionRef, reloads, seqs, snapshots, updates, left>>

\* Two seconds later: connect.
TimerFires(t) ==
  /\ clients[t].timer /\ NextLine \in LineIds
  /\ IF MayDial(clients[t])
     THEN /\ Dial(t, clients[t], NextLine)
          /\ clients' = [clients EXCEPT ![t] = [Dialling(@, NextLine) EXCEPT !.timer = FALSE]]
          /\ shownState' = clients'[t].state
     ELSE /\ clients' = [clients EXCEPT ![t].timer = FALSE]
          /\ UNCHANGED <<lines, shownState>>
  /\ UNCHANGED <<session, page, subscriptionRef, reloads, seqs, snapshots, updates, left>>

\* shouldApplyRealtimeEvent, for an event with a sequence: the key is the scope of
\* the event and not the topic that counted it.
Applies(c, frame) == frame.sequence > c.last[frame.post]

Noted(c, frame) ==
  [c EXCEPT !.seen = IF frame.kind = "update" THEN @ \cup {frame.id} ELSE @,
            !.last[frame.post] = IF Applies(c, frame) THEN frame.sequence ELSE @]

\* The listeners of the mounted page: the page of a post loads it anew; the list
\* takes events of the scope "list" alone, which nobody sends.
Hydrates(frame) == frame.kind = "update" /\ page = frame.post

OnMessage(s) ==
  /\ lines[s].phase = "open" /\ ~lines[s].broken /\ lines[s].down # <<>>
  /\ lines' = [lines EXCEPT ![s].down = Tail(@)]
  /\ LET t == lines[s].as
         frame == Head(lines[s].down)
     IN IF frame.kind = "connected"
        THEN /\ clients' = [clients EXCEPT ![t].reconnectToken = frame.rct]
             /\ UNCHANGED reloads
        ELSE IF frame.id \in clients[t].seen
        THEN UNCHANGED <<clients, reloads>>
        ELSE /\ clients' = [clients EXCEPT ![t] = Noted(@, frame)]
             /\ reloads' = IF Applies(clients[t], frame) /\ Hydrates(frame)
                           THEN reloads + 1 ELSE reloads
  /\ UNCHANGED <<session, page, subscriptionRef, shownState, seqs, snapshots, updates, left>>

FeedNext ==
  \/ \E p \in Posts : Publish(p)
  \/ \E s \in LineIds :
       \/ Upgrade(s) \/ ServerTakes(s) \/ ServerNotices(s) \/ Break(s)
       \/ OnOpen(s) \/ OnClose(s) \/ OnMessage(s)
  \/ \E t \in Sessions : TimerFires(t)
  \/ \E q \in Topics \cup {"away"} : Visit(q)
  \/ Restart \/ SignIn \/ SignOut \/ Render

\* Timers fire, sockets report what happened to them, and the server answers an
\* upgrade: the lines break and the server restarts finitely often.  A line opens
\* and closes once, so that fairness to them together is fairness to each.
FeedFairness ==
  /\ WF_feedVars(\E t \in Sessions : TimerFires(t))
  /\ WF_feedVars(\E s \in LineIds : Upgrade(s) \/ OnOpen(s) \/ OnClose(s))

FeedSpec == FeedInit /\ [][FeedNext]_feedVars /\ FeedFairness
-----------------------------------------------------------------------------
States == {"disconnected", "connecting", "connected", "reconnecting"}

FeedTypeOK ==
  /\ session \in 0..MaxSessions
  /\ page \in Topics \cup {"away"}
  /\ subscriptionRef \subseteq Topics
  /\ shownState \in States
  /\ updates \in Nat /\ reloads \in 0..updates
  /\ seqs \in [Topics -> Nat]
  /\ \A t \in Sessions :
       LET c == clients[t]
       IN /\ c.state \in States /\ c.socket \in 0..MaxLines
          /\ c.timer \in BOOLEAN /\ c.manuallyClosed \in BOOLEAN
          /\ c.subscriptions \subseteq Topics /\ c.reconnectToken \in 0..MaxLines
          /\ c.seen \subseteq 1..updates /\ c.last \in [Posts -> Nat]
  /\ \A s \in LineIds :
       /\ lines[s].phase \in {"connecting", "open", "closing", "closed"}
       /\ lines[s].as \in 0..MaxSessions /\ lines[s].rct \in 0..MaxLines
       /\ lines[s].topics \subseteq Topics

\* What the server sends a settled connection is what the mounted page asked for:
\* once the line has delivered what the client sent, the server holds the topic of
\* the page, and any other topic is one that the server itself restored from the
\* line before: a page left while the line was down is never unsubscribed.  Line
\* breaks, half-open lines, renders, page changes and reconnects interleave freely.
SubscriptionsReach ==
  \A s \in LineIds :
    lines[s].phase = "open" /\ lines[s].live /\ ~lines[s].broken /\ lines[s].up = <<>>
    => /\ TopicsOf(page) \subseteq lines[s].topics
       /\ lines[s].topics \subseteq TopicsOf(page) \cup lines[s].restored

\* A socket that connects or is open belongs to the session on the page: no timer
\* and no late onclose of an earlier session brings its connection back, a signed
\* out tab holds none, and there is never more than one.
OneLineOfTheSession ==
  /\ \A s \in LineIds :
       lines[s].phase \in {"connecting", "open"} =>
         lines[s].as = session /\ clients[session].socket = s
  /\ session = 0 => \A t \in Sessions : ~clients[t].timer

\* A client that lost its connection has it again, or the user signed out: the
\* timer, the dial in the state reconnecting, and the upgrade lead to onopen,
\* through any further breaks.
Reconnects ==
  \A t \in Sessions :
    (session = t /\ clients[t].state = "reconnecting")
      ~> (session # t \/ clients[t].state = "connected")

\* An update of the post on the page that arrives and was not seen before makes
\* the page load the post anew, be it in order or not: a mismatch of sequences
\* calls for a load, and not for silence.
UpdatesReload ==
  [][\A s \in LineIds :
       LET frame == Head(lines[s].down)
       IN ( /\ lines[s].phase = "open" /\ lines[s].down # <<>>
            /\ lines'[s] = [lines[s] EXCEPT !.down = Tail(@)]
            /\ frame.kind = "update" /\ frame.post = page
            /\ frame.id \notin clients[lines[s].as].seen )
          => reloads' = reloads + 1]_feedVars
=============================================================================
