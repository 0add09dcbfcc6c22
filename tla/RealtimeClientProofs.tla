------------------------- MODULE RealtimeClientProofs -------------------------
(***************************************************************************)
(* A tab has one line, of the session on its page, and the server sends on it   *)
(* what the page asked for; for any posts, events of rooms, sign-ins, lines,     *)
(* visits, renders, breaks and restarts.                                         *)
(***************************************************************************)
EXTENDS RealtimeClient, SequenceTheorems, FiniteSetTheorems, TLAPS

UpFrame == [op : {"subscribe", "unsubscribe"}, topic : Topics]

Frame ==
  [kind : {"connected"}, rct : 0..MaxLines] \cup
  [kind : {"update", "presence"}, post : Posts, id : Nat, sequence : Nat]

Client ==
  [state : States, socket : 0..MaxLines, timer : BOOLEAN, manuallyClosed : BOOLEAN,
   subscriptions : SUBSET Topics, reconnectToken : 0..MaxLines, seen : SUBSET Nat,
   last : [Posts -> Nat]]

Line ==
  [phase : {"connecting", "open", "closing", "closed"}, as : 0..MaxSessions,
   asks : 0..MaxLines, rct : 0..MaxLines, live : BOOLEAN, broken : BOOLEAN,
   topics : SUBSET Topics, restored : SUBSET Topics, up : Seq(UpFrame), down : Seq(Frame)]

Kinds == {"sessions", "updates", "visits", "renders", "breaks", "restarts"}

\* The frames of FeedTypeOK are left open there; here every value has its type.
Typed ==
  /\ session \in 0..MaxSessions /\ page \in Topics \cup {"away"}
  /\ clients \in [Sessions -> Client] /\ lines \in [LineIds -> Line]
  /\ shownState \in States
  /\ seqs \in [Topics -> Nat]
  /\ snapshots \in [LineIds -> (SUBSET Topics) \cup {Gone}]
  /\ updates \in Nat /\ reloads \in Nat
  /\ left \in [Kinds -> Nat] /\ left["sessions"] <= MaxSessions

Using(s) == lines[s].phase \in {"connecting", "open"}

\* What is known of a line: whose it is while it is in use, and that a line that is
\* closing is of a client that was closed for good.
LineWired(s) ==
  /\ Using(s) => /\ session # 0 /\ lines[s].as = session
                 /\ clients[session].socket = s
  /\ lines[s].phase = "open" => clients[session].state = "connected"
  /\ lines[s].phase # "closed" => lines[s].as \in Sessions
  /\ lines[s].phase = "closing" =>
       lines[s].as # session /\ clients[lines[s].as].manuallyClosed
  /\ lines[s].as <= MaxSessions - left["sessions"]

\* And of a client: a socket is a line in use, a timer runs only for the client of
\* the session, and only without a socket.
ClientWired(t) ==
  /\ clients[t].socket # 0 => /\ t = session /\ lines[clients[t].socket].as = t
                              /\ Using(clients[t].socket)
  /\ t # session => ~clients[t].timer
  /\ clients[t].timer => clients[t].socket = 0

Wired ==
  /\ \A s \in LineIds : LineWired(s)
  /\ \A t \in Sessions : ClientWired(t)
  /\ session # 0 => ~clients[session].manuallyClosed
  /\ session <= MaxSessions - left["sessions"]

\* What the server will hold of topic x when it has taken all that is on its way:
\* the last frame about x says op, or there is none and it is so already.
Stands(line, x, op) ==
  \E k \in 0..Len(line.up) :
    /\ IF k = 0 THEN x \in line.topics <=> op = "subscribe"
       ELSE line.up[k] = [op |-> op, topic |-> x]
    /\ \A j \in k + 1..Len(line.up) : line.up[j].topic = x => line.up[j].op = op

\* A line of the page P with what the client has asked on it.
Asked(line, P) ==
  /\ line.phase = "connecting" => line.up = <<>> /\ line.topics \subseteq line.restored
  /\ line.phase = "open" /\ ~line.broken =>
       \A x \in Topics :
         /\ x \in TopicsOf(P) => Stands(line, x, "subscribe")
         /\ x \notin TopicsOf(P) \cup line.restored => Stands(line, x, "unsubscribe")

Reached ==
  /\ subscriptionRef = TopicsOf(page)
  /\ session # 0 => clients[session].subscriptions = TopicsOf(page)
  /\ \A s \in LineIds : Asked(lines[s], page)

\* The updates on their way down a line.
UpdatesOn(line) ==
  {line.down[i].id : i \in {j \in DOMAIN line.down : line.down[j].kind = "update"}}

\* The updates that may still make the page load.
Pending ==
  {n \in 1..updates :
     \E s \in LineIds : /\ Using(s) /\ n \in UpdatesOn(lines[s])
                        /\ n \notin clients[session].seen}

Counts ==
  /\ \A s \in LineIds : UpdatesOn(lines[s]) \subseteq 1..updates
  /\ \A t \in Sessions : clients[t].seen \subseteq 1..updates
  /\ reloads + Cardinality(Pending) <= updates

FeedIInv == Typed /\ Wired /\ Reached /\ Counts

-----------------------------------------------------------------------------
(***************************************************************************)
(* Frames.                                                                 *)
(***************************************************************************)
\* A list of one topic is that topic, and one of none is empty.
LEMMA FramesOf ==
  ASSUME NEW op, NEW T, NEW p, T = {} \/ T = {p}
  PROVE  /\ T = {} => Frames(op, T) = <<>>
         /\ T = {p} => Frames(op, T) = <<[op |-> op, topic |-> p]>>
<1> DEFINE F == [1..Cardinality(T) -> T]
           order == SetToSeq(T)
<1>1. order = CHOOSE f \in F : IsInjective(f)
  BY DEF SetToSeq
<1>2. CASE T = {}
  <2>1. Cardinality(T) = 0
    BY <1>2, FS_EmptySet
  <2>2. [i \in {} |-> p] \in F /\ IsInjective([i \in {} |-> p])
    BY <1>2, <2>1 DEF IsInjective
  <2>3. order \in F
    BY <1>1, <2>2
  <2>4. DOMAIN order = {}
    BY <2>1, <2>3
  <2>5. Frames(op, T) = [i \in {} |-> [op |-> op, topic |-> order[i]]]
    BY <2>4 DEF Frames
  <2> HIDE DEF order
  <2>6. [i \in {} |-> [op |-> op, topic |-> order[i]]] = <<>>
    OBVIOUS
  <2>7. T # {p}
    BY <1>2
  <2>8. QED
    BY <2>5, <2>6, <2>7
<1>3. CASE T = {p}
  <2>1. Cardinality(T) = 1
    BY <1>3, FS_Singleton
  <2>2. [i \in 1..1 |-> p] \in F /\ IsInjective([i \in 1..1 |-> p])
    BY <1>3, <2>1 DEF IsInjective
  <2>3. order \in F
    BY <1>1, <2>2
  <2>4. DOMAIN order = 1..1 /\ order[1] = p
    BY <1>3, <2>1, <2>3
  <2>5. Frames(op, T) = [i \in 1..1 |-> [op |-> op, topic |-> order[i]]]
    BY <2>4 DEF Frames
  <2> HIDE DEF order
  <2>6. [i \in 1..1 |-> [op |-> op, topic |-> order[i]]] = <<[op |-> op, topic |-> p]>>
    BY <2>4
  <2>7. QED
    BY <1>3, <2>5, <2>6
<1>4. QED
  BY <1>2, <1>3

\* A broadcast adds at most the frame to what travels down a line.
SameButDown(a, b) ==
  /\ b.phase = a.phase /\ b.as = a.as /\ b.asks = a.asks /\ b.rct = a.rct
  /\ b.live = a.live /\ b.broken = a.broken /\ b.topics = a.topics
  /\ b.restored = a.restored /\ b.up = a.up

\* Twice nothing but frames is still nothing but frames.
LEMMA SameTwice ==
  ASSUME NEW a, NEW b, NEW c, SameButDown(a, b), SameButDown(b, c)
  PROVE  SameButDown(a, c)
BY DEF SameButDown

\* A broadcast appends its frame to the lines of the topic and changes nothing else.
LEMMA BroadcastEffect ==
  ASSUME NEW ls \in [LineIds -> Line], NEW topic, NEW frame \in Frame
  PROVE  /\ Broadcast(ls, topic, frame) \in [LineIds -> Line]
         /\ \A s \in LineIds :
              /\ SameButDown(ls[s], Broadcast(ls, topic, frame)[s])
              /\ \/ Broadcast(ls, topic, frame)[s].down = ls[s].down
                 \/ Broadcast(ls, topic, frame)[s].down = Append(ls[s].down, frame)
<1> SUFFICES ASSUME NEW s \in LineIds
             PROVE  /\ Broadcast(ls, topic, frame)[s] \in Line
                    /\ SameButDown(ls[s], Broadcast(ls, topic, frame)[s])
                    /\ \/ Broadcast(ls, topic, frame)[s].down = ls[s].down
                       \/ Broadcast(ls, topic, frame)[s].down = Append(ls[s].down, frame)
  BY DEF Broadcast
<1>1. ls[s] \in Line
  OBVIOUS
<1>2. [ls[s] EXCEPT !.down = Append(@, frame)] \in Line
  <2>1. ls[s].down \in Seq(Frame)
    BY <1>1 DEF Line
  <2>2. Append(ls[s].down, frame) \in Seq(Frame)
    BY <2>1
  <2>3. QED
    BY <1>1, <2>2 DEF Line
<1>3. SameButDown(ls[s], [ls[s] EXCEPT !.down = Append(@, frame)])
  BY <1>1 DEF Line, SameButDown
<1>4. [ls[s] EXCEPT !.down = Append(@, frame)].down = Append(ls[s].down, frame)
  BY <1>1 DEF Line
<1>5. SameButDown(ls[s], ls[s])
  BY DEF SameButDown
<1>6. QED
  BY <1>1, <1>2, <1>3, <1>4, <1>5 DEF Broadcast

\* The updates on a line: what a frame adds, and what taking one removes.
LEMMA UpdatesAppended ==
  ASSUME NEW a \in Line, NEW b \in Line, NEW frame \in Frame,
         b.down = Append(a.down, frame)
  PROVE  /\ frame.kind = "update" => UpdatesOn(b) = UpdatesOn(a) \cup {frame.id}
         /\ frame.kind # "update" => UpdatesOn(b) = UpdatesOn(a)
<1>1. a.down \in Seq(Frame) /\ b.down \in Seq(Frame)
  BY DEF Line
<1>2. /\ DOMAIN b.down = 1..Len(a.down) + 1 /\ DOMAIN a.down = 1..Len(a.down)
      /\ Len(a.down) \in Nat
      /\ b.down[Len(a.down) + 1] = frame
      /\ \A i \in 1..Len(a.down) : b.down[i] = a.down[i]
  BY <1>1
<1>3. ASSUME NEW n
      PROVE  n \in UpdatesOn(b) <=>
               n \in UpdatesOn(a) \/ (frame.kind = "update" /\ n = frame.id)
  <2>1. n \in UpdatesOn(b) <=>
          \E i \in DOMAIN b.down : b.down[i].kind = "update" /\ n = b.down[i].id
    BY DEF UpdatesOn
  <2>2. n \in UpdatesOn(a) <=>
          \E i \in DOMAIN a.down : a.down[i].kind = "update" /\ n = a.down[i].id
    BY DEF UpdatesOn
  <2>3. Len(a.down) + 1 \in DOMAIN b.down
    BY <1>2
  <2>4. DOMAIN a.down \subseteq DOMAIN b.down
    BY <1>2
  <2>5. \A i \in DOMAIN b.down : i \in DOMAIN a.down \/ i = Len(a.down) + 1
    BY <1>2
  <2>6. QED
    BY <1>2, <2>1, <2>2, <2>3, <2>4, <2>5
<1>4. QED
  BY <1>3

\* The frame that is taken was on the line, and the others stay.
LEMMA UpdatesTaken ==
  ASSUME NEW a \in Line, NEW b \in Line, a.down # <<>>, b.down = Tail(a.down)
  PROVE  /\ UpdatesOn(b) \subseteq UpdatesOn(a)
         /\ Head(a.down).kind = "update" => Head(a.down).id \in UpdatesOn(a)
         /\ Head(a.down) \in Frame
<1>1. a.down \in Seq(Frame) /\ b.down \in Seq(Frame)
  BY DEF Line
<1>2. /\ Len(a.down) \in Nat \ {0} /\ Len(b.down) = Len(a.down) - 1
      /\ \A i \in 1..Len(b.down) : b.down[i] = a.down[i + 1]
      /\ Head(a.down) = a.down[1] /\ a.down[1] \in Frame
  BY <1>1, EmptySeq, HeadTailProperties
<1>3. DOMAIN a.down = 1..Len(a.down) /\ DOMAIN b.down = 1..Len(b.down)
  BY <1>1
<1>4. ASSUME NEW n \in UpdatesOn(b)
      PROVE  n \in UpdatesOn(a)
  <2>1. PICK i \in DOMAIN b.down : b.down[i].kind = "update" /\ n = b.down[i].id
    BY DEF UpdatesOn
  <2>2. i + 1 \in DOMAIN a.down /\ a.down[i + 1] = b.down[i]
    BY <1>2, <1>3
  <2>3. QED
    BY <2>1, <2>2 DEF UpdatesOn
<1>5. 1 \in DOMAIN a.down
  BY <1>2, <1>3
<1>6. Head(a.down).kind = "update" => Head(a.down).id \in UpdatesOn(a)
  BY <1>2, <1>5 DEF UpdatesOn
<1>7. QED
  BY <1>2, <1>4, <1>6

\* A line with nothing under way, or with as much as another.
LEMMA UpdatesSame ==
  ASSUME NEW a, NEW b
  PROVE  /\ b.down = a.down => UpdatesOn(b) = UpdatesOn(a)
         /\ b.down = <<>> => UpdatesOn(b) = {}
BY DEF UpdatesOn

\* The same line, but for events of rooms that are added to what travels down it.
RoomsAdded(a, b) == SameButDown(a, b) /\ UpdatesOn(b) = UpdatesOn(a)

\* The events of a room add no update and change nothing else.
LEMMA RoomChangeEffect ==
  ASSUME Typed, NEW ls \in [LineIds -> Line], NEW rooms \in SUBSET Posts,
         NEW n \in RoomEvents
  PROVE  /\ RoomChange(ls, rooms, n) \in [LineIds -> Line]
         /\ \A s \in LineIds : RoomsAdded(ls[s], RoomChange(ls, rooms, n)[s])
<1>1. CASE rooms = {} \/ n = 0
  <2>1. RoomChange(ls, rooms, n) = ls
    BY <1>1 DEF RoomChange
  <2>2. QED
    BY <2>1 DEF RoomsAdded, SameButDown
<1>2. CASE ~(rooms = {} \/ n = 0)
  <2> DEFINE p == CHOOSE room \in rooms : TRUE
             frame == [kind |-> "presence", post |-> p, id |-> 0, sequence |-> seqs[p] + n]
             after == Broadcast(ls, p, frame)
  <2>1. RoomChange(ls, rooms, n) = after
    BY <1>2 DEF RoomChange
  <2>2. p \in Posts
    BY <1>2
  <2> HIDE DEF p
  <2>3. seqs[p] + n \in Nat
    BY <2>2, RealtimeClientAssumption DEF Typed, Topics
  <2>4. frame \in Frame /\ frame.kind # "update"
    BY <2>2, <2>3 DEF Frame
  <2> HIDE DEF frame
  <2>5. /\ after \in [LineIds -> Line]
        /\ \A s \in LineIds :
             /\ SameButDown(ls[s], after[s])
             /\ after[s].down = ls[s].down \/ after[s].down = Append(ls[s].down, frame)
    BY <2>4, BroadcastEffect
  <2> HIDE DEF after
  <2>6. \A s \in LineIds : UpdatesOn(after[s]) = UpdatesOn(ls[s])
    BY <2>4, <2>5, UpdatesAppended, UpdatesSame
  <2>7. QED
    BY <2>1, <2>5, <2>6 DEF RoomsAdded
<1>3. QED
  BY <1>1, <1>2

\* The counters of the rooms stay numbers.
LEMMA CountedType ==
  ASSUME Typed, NEW rooms, NEW n \in RoomEvents
  PROVE  Counted(rooms, n) \in [Topics -> Nat]
BY RealtimeClientAssumption DEF Typed, Counted

-----------------------------------------------------------------------------
(***************************************************************************)
(* What the client has asked.                                              *)
(***************************************************************************)
LEMMA AskedSame ==
  ASSUME NEW a, NEW b, NEW P, Asked(a, P), SameButDown(a, b)
  PROVE  Asked(b, P)
<1>1. \A x, op : Stands(a, x, op) => Stands(b, x, op)
  BY DEF Stands, SameButDown
<1>2. QED
  BY <1>1 DEF Asked, SameButDown

\* Nothing is promised of a broken line that has opened.
LEMMA AskedBroken ==
  ASSUME NEW a, NEW b, NEW P, Asked(a, P), b.broken, b.phase = a.phase,
         b.restored = a.restored, b.topics \subseteq a.topics,
         b.up = a.up \/ b.up = <<>>
  PROVE  Asked(b, P)
BY DEF Asked

\* The server does what the client asked for first, and the rest stands.
LEMMA AskedTaken ==
  ASSUME NEW a \in Line, NEW b \in Line, NEW P, Asked(a, P), a.up # <<>>,
         b.phase = a.phase, b.broken = a.broken, b.restored = a.restored,
         b.up = Tail(a.up),
         \/ Head(a.up).op = "subscribe" /\ b.topics = a.topics \cup {Head(a.up).topic}
         \/ Head(a.up).op = "unsubscribe" /\ b.topics = a.topics \ {Head(a.up).topic}
  PROVE  Asked(b, P)
<1>1. a.up \in Seq(UpFrame) /\ b.up \in Seq(UpFrame)
  BY DEF Line
<1>2. /\ Len(a.up) \in Nat \ {0} /\ Len(b.up) = Len(a.up) - 1
      /\ \A i \in 1..Len(b.up) : b.up[i] = a.up[i + 1]
      /\ Head(a.up) = a.up[1] /\ a.up[1] \in UpFrame
  BY <1>1, EmptySeq, HeadTailProperties
<1>3. ASSUME NEW x \in Topics, NEW op \in {"subscribe", "unsubscribe"}, Stands(a, x, op)
      PROVE  Stands(b, x, op)
  <2>1. PICK k \in 0..Len(a.up) :
          /\ IF k = 0 THEN x \in a.topics <=> op = "subscribe"
             ELSE a.up[k] = [op |-> op, topic |-> x]
          /\ \A j \in k + 1..Len(a.up) : a.up[j].topic = x => a.up[j].op = op
    BY <1>3 DEF Stands
  <2>2. CASE k \in {0, 1}
    <3>1. x \in b.topics <=> op = "subscribe"
      <4>1. CASE k = 0
        <5>1. a.up[1].topic = x => a.up[1].op = op
          BY <1>2, <2>1, <4>1
        <5>2. x \in a.topics <=> op = "subscribe"
          BY <2>1, <4>1
        <5>3. QED
          BY <1>2, <5>1, <5>2
      <4>2. CASE k = 1
        <5>1. a.up[1].topic = x /\ a.up[1].op = op
          BY <2>1, <4>2
        <5>2. QED
          BY <1>2, <5>1
      <4>3. QED
        BY <2>2, <4>1, <4>2
    <3>2. \A j \in 1..Len(b.up) : b.up[j].topic = x => b.up[j].op = op
      <4> TAKE j \in 1..Len(b.up)
      <4>1. j + 1 \in k + 1..Len(a.up) /\ b.up[j] = a.up[j + 1]
        BY <1>2, <2>2
      <4>2. QED
        BY <2>1, <4>1
    <3>3. 0 \in 0..Len(b.up)
      BY <1>2
    <3>4. QED
      BY <3>1, <3>2, <3>3 DEF Stands
  <2>3. CASE k \notin {0, 1}
    <3>1. k - 1 \in 1..Len(b.up)
      BY <1>2, <2>3
    <3>2. b.up[k - 1] = [op |-> op, topic |-> x]
      BY <1>2, <2>1, <2>3, <3>1
    <3>3. \A j \in k - 1 + 1..Len(b.up) : b.up[j].topic = x => b.up[j].op = op
      <4> TAKE j \in k - 1 + 1..Len(b.up)
      <4>1. j \in 1..Len(b.up) /\ j + 1 \in k + 1..Len(a.up)
        BY <1>2, <2>3
      <4>2. QED
        BY <1>2, <2>1, <4>1
    <3>4. k - 1 \in 0..Len(b.up) /\ k - 1 # 0
      BY <3>1
    <3>5. QED
      BY <3>2, <3>3, <3>4 DEF Stands
  <2>4. QED
    BY <2>2, <2>3
<1>4. a.phase = "connecting" => a.up = <<>>
  BY DEF Asked
<1>5. QED
  BY <1>3, <1>4 DEF Asked

\* Frames put behind those under way: a topic they are not about stands as it stood,
\* and one they end with stands as they say.
LEMMA StandsAppended ==
  ASSUME NEW a \in Line, NEW b \in Line, NEW fs \in Seq(UpFrame),
         b.topics = a.topics, b.up = a.up \o fs,
         NEW x \in Topics, NEW op \in {"subscribe", "unsubscribe"},
         \/ /\ Stands(a, x, op)
            /\ \A i \in 1..Len(fs) : fs[i].topic # x
         \/ \E i \in 1..Len(fs) :
              /\ fs[i] = [op |-> op, topic |-> x]
              /\ \A j \in i + 1..Len(fs) : fs[j].topic = x => fs[j].op = op
  PROVE  Stands(b, x, op)
<1>1. a.up \in Seq(UpFrame)
  BY DEF Line
<1>2. /\ Len(a.up) \in Nat /\ Len(fs) \in Nat /\ Len(b.up) = Len(a.up) + Len(fs)
      /\ \A i \in 1..Len(a.up) : b.up[i] = a.up[i]
      /\ \A i \in 1..Len(fs) : b.up[Len(a.up) + i] = fs[i]
  BY <1>1, ConcatProperties
<1>3. \A i \in 1..Len(b.up) :
        i > Len(a.up) => i - Len(a.up) \in 1..Len(fs) /\ b.up[i] = fs[i - Len(a.up)]
  <2> TAKE i \in 1..Len(b.up)
  <2> HAVE i > Len(a.up)
  <2>1. i - Len(a.up) \in 1..Len(fs) /\ Len(a.up) + (i - Len(a.up)) = i
    BY <1>2
  <2>2. QED
    BY <1>2, <2>1
<1>4. CASE Stands(a, x, op) /\ \A i \in 1..Len(fs) : fs[i].topic # x
  <2>1. PICK k \in 0..Len(a.up) :
          /\ IF k = 0 THEN x \in a.topics <=> op = "subscribe"
             ELSE a.up[k] = [op |-> op, topic |-> x]
          /\ \A j \in k + 1..Len(a.up) : a.up[j].topic = x => a.up[j].op = op
    BY <1>4 DEF Stands
  <2>2. k \in 0..Len(b.up)
    BY <1>2
  <2>3. IF k = 0 THEN x \in b.topics <=> op = "subscribe"
        ELSE b.up[k] = [op |-> op, topic |-> x]
    BY <1>2, <2>1
  <2>4. \A j \in k + 1..Len(b.up) : b.up[j].topic = x => b.up[j].op = op
    <3> TAKE j \in k + 1..Len(b.up)
    <3>1. CASE j <= Len(a.up)
      <4>1. j \in k + 1..Len(a.up) /\ j \in 1..Len(a.up)
        BY <1>2, <3>1
      <4>2. QED
        BY <1>2, <2>1, <4>1
    <3>2. CASE j > Len(a.up)
      <4>1. j \in 1..Len(b.up)
        BY <1>2
      <4>2. QED
        BY <1>3, <1>4, <3>2, <4>1
    <3>3. QED
      BY <1>2, <3>1, <3>2
  <2>5. QED
    BY <2>2, <2>3, <2>4 DEF Stands
<1>5. ASSUME NEW i \in 1..Len(fs), fs[i] = [op |-> op, topic |-> x],
             \A j \in i + 1..Len(fs) : fs[j].topic = x => fs[j].op = op
      PROVE  Stands(b, x, op)
  <2> DEFINE k == Len(a.up) + i
  <2>1. k \in 0..Len(b.up) /\ k # 0
    BY <1>2
  <2>2. b.up[k] = [op |-> op, topic |-> x]
    BY <1>2, <1>5
  <2>3. \A j \in k + 1..Len(b.up) : b.up[j].topic = x => b.up[j].op = op
    <3> TAKE j \in k + 1..Len(b.up)
    <3>1. j \in 1..Len(b.up) /\ j > Len(a.up) /\ j - Len(a.up) \in i + 1..Len(fs)
      BY <1>2
    <3>2. QED
      BY <1>3, <1>5, <3>1
  <2> HIDE DEF k
  <2>4. QED
    BY <2>1, <2>2, <2>3 DEF Stands
<1>6. QED
  BY <1>4, <1>5

\* The hooks of a page hold its topic, if it has one.
LEMMA TopicsOfPage ==
  ASSUME NEW P \in Topics \cup {"away"}
  PROVE  /\ TopicsOf(P) \subseteq Topics /\ TopicsOf(P) \subseteq {P}
         /\ TopicsOf(P) = {} \/ (TopicsOf(P) = {P} /\ P \in Topics)
BY DEF TopicsOf

\* A page asks for one topic at most, hence sends one frame at most.
LEMMA FramesOfPage ==
  ASSUME NEW P \in Topics \cup {"away"}, NEW op \in {"subscribe", "unsubscribe"}
  PROVE  /\ Frames(op, TopicsOf(P)) \in Seq(UpFrame)
         /\ TopicsOf(P) = {} => Len(Frames(op, TopicsOf(P))) = 0
         /\ TopicsOf(P) # {} => Len(Frames(op, TopicsOf(P))) = 1
         /\ \A i \in 1..Len(Frames(op, TopicsOf(P))) :
              i = 1 /\ Frames(op, TopicsOf(P))[i] = [op |-> op, topic |-> P]
<1> DEFINE fs == Frames(op, TopicsOf(P))
           frame == [op |-> op, topic |-> P]
<1>1. CASE TopicsOf(P) = {}
  <2>1. fs = <<>>
    BY <1>1, FramesOf
  <2> HIDE DEF fs
  <2>2. fs \in Seq(UpFrame) /\ Len(fs) = 0
    BY <2>1
  <2>3. \A i \in 1..Len(fs) : i = 1 /\ fs[i] = frame
    BY <2>2
  <2>4. QED
    BY <1>1, <2>2, <2>3 DEF fs
<1>2. CASE TopicsOf(P) # {}
  <2>1. TopicsOf(P) = {P} /\ frame \in UpFrame
    BY <1>2, TopicsOfPage DEF UpFrame
  <2>2. fs = <<frame>>
    BY <2>1, FramesOf
  <2> HIDE DEF fs, frame
  <2>3. fs \in Seq(UpFrame) /\ Len(fs) = 1 /\ fs[1] = frame
    BY <2>1, <2>2
  <2>4. \A i \in 1..Len(fs) : i = 1 /\ fs[i] = frame
    BY <2>3
  <2>5. QED
    BY <1>2, <2>3, <2>4 DEF fs, frame
<1>3. QED
  BY <1>1, <1>2

\* On an open line the client unsubscribes from the page before and subscribes to
\* the one it shows.
LEMMA AskedAgain ==
  ASSUME NEW a \in Line, NEW b \in Line, NEW P \in Topics \cup {"away"},
         NEW Q \in Topics \cup {"away"}, Asked(a, P), a.phase = "open", ~a.broken,
         b.phase = "open", b.topics = a.topics, b.restored = a.restored,
         b.up = a.up \o (Frames("unsubscribe", TopicsOf(P))
                         \o Frames("subscribe", TopicsOf(Q)))
  PROVE  Asked(b, Q)
<1> DEFINE out == Frames("unsubscribe", TopicsOf(P))
           in == Frames("subscribe", TopicsOf(Q))
           fs == out \o in
<1>1. /\ out \in Seq(UpFrame)
      /\ TopicsOf(P) = {} \/ (TopicsOf(P) = {P} /\ P \in Topics)
      /\ TopicsOf(P) = {} => Len(out) = 0
      /\ TopicsOf(P) # {} => Len(out) = 1
      /\ \A i \in 1..Len(out) : i = 1 /\ out[i] = [op |-> "unsubscribe", topic |-> P]
  BY TopicsOfPage, FramesOfPage
<1>2. /\ in \in Seq(UpFrame)
      /\ TopicsOf(Q) = {} \/ (TopicsOf(Q) = {Q} /\ Q \in Topics)
      /\ TopicsOf(Q) = {} => Len(in) = 0
      /\ TopicsOf(Q) # {} => Len(in) = 1
      /\ \A i \in 1..Len(in) : i = 1 /\ in[i] = [op |-> "subscribe", topic |-> Q]
  BY TopicsOfPage, FramesOfPage
<1> HIDE DEF out, in
<1>3. out \in Seq(UpFrame) /\ in \in Seq(UpFrame)
  BY <1>1, <1>2
<1>4. /\ Len(out) \in Nat /\ Len(in) \in Nat
      /\ \A i \in 1..Len(out) : out[i] = [op |-> "unsubscribe", topic |-> P]
      /\ \A i \in 1..Len(in) : in[i] = [op |-> "subscribe", topic |-> Q]
  BY <1>1, <1>2
<1>5. /\ fs \in Seq(UpFrame) /\ Len(fs) = Len(out) + Len(in)
      /\ \A i \in 1..Len(out) : fs[i] = out[i]
      /\ \A i \in 1..Len(in) : fs[Len(out) + i] = in[i]
  BY <1>3, ConcatProperties
<1>6. b.up = a.up \o fs
  BY DEF out, in
<1> HIDE DEF fs
<1>7. ASSUME NEW i \in 1..Len(fs)
      PROVE  \/ /\ i \in 1..Len(out) /\ TopicsOf(P) = {P}
                /\ fs[i] = [op |-> "unsubscribe", topic |-> P]
             \/ /\ i > Len(out) /\ TopicsOf(Q) = {Q}
                /\ fs[i] = [op |-> "subscribe", topic |-> Q]
  <2>1. CASE i <= Len(out)
    <3>1. i \in 1..Len(out)
      BY <1>4, <1>5, <2>1
    <3>2. QED
      BY <1>1, <1>4, <1>5, <3>1
  <2>2. CASE i > Len(out)
    <3>1. i - Len(out) \in 1..Len(in) /\ Len(out) + (i - Len(out)) = i
      BY <1>4, <1>5, <2>2
    <3>2. QED
      BY <1>2, <1>4, <1>5, <2>2, <3>1
  <2>3. QED
    BY <1>4, <1>5, <2>1, <2>2
<1>8. ASSUME NEW x \in TopicsOf(Q)
      PROVE  Stands(b, x, "subscribe")
  <2>1. x = Q /\ x \in Topics /\ Len(in) = 1
    BY <1>2
  <2>2. 1 \in 1..Len(in) /\ Len(out) + 1 = Len(fs) /\ Len(fs) \in 1..Len(fs)
    BY <1>4, <1>5, <2>1
  <2>3. fs[Len(fs)] = [op |-> "subscribe", topic |-> x]
    BY <1>4, <1>5, <2>1, <2>2
  <2>4. \A j \in Len(fs) + 1..Len(fs) : fs[j].topic = x => fs[j].op = "subscribe"
    BY <2>2
  <2>5. \E i \in 1..Len(fs) :
          /\ fs[i] = [op |-> "subscribe", topic |-> x]
          /\ \A j \in i + 1..Len(fs) : fs[j].topic = x => fs[j].op = "subscribe"
    BY <2>2, <2>3, <2>4
  <2>6. QED
    BY <1>5, <1>6, <2>1, <2>5, StandsAppended
<1>9. ASSUME NEW x \in Topics, x \notin TopicsOf(Q) \cup b.restored
      PROVE  Stands(b, x, "unsubscribe")
  <2>1. CASE x \in TopicsOf(P)
    <3>1. x = P /\ Len(out) = 1
      BY <1>1, <2>1
    <3>2. 1 \in 1..Len(out) /\ 1 \in 1..Len(fs)
      BY <1>4, <1>5, <3>1
    <3>3. fs[1] = [op |-> "unsubscribe", topic |-> x]
      BY <1>4, <1>5, <3>1, <3>2
    <3>4. \A j \in 1 + 1..Len(fs) : fs[j].topic = x => fs[j].op = "unsubscribe"
      <4> TAKE j \in 1 + 1..Len(fs)
      <4>1. j \in 1..Len(fs)
        BY <1>4, <1>5
      <4>2. QED
        BY <1>7, <1>9, <4>1
    <3>5. \E i \in 1..Len(fs) :
            /\ fs[i] = [op |-> "unsubscribe", topic |-> x]
            /\ \A j \in i + 1..Len(fs) : fs[j].topic = x => fs[j].op = "unsubscribe"
      BY <3>2, <3>3, <3>4
    <3>6. QED
      BY <1>5, <1>6, <3>5, StandsAppended
  <2>2. CASE x \notin TopicsOf(P)
    <3>1. Stands(a, x, "unsubscribe")
      BY <1>9, <2>2 DEF Asked
    <3>2. \A i \in 1..Len(fs) : fs[i].topic # x
      BY <1>7, <1>9, <2>2
    <3>3. QED
      BY <1>5, <1>6, <3>1, <3>2, StandsAppended
  <2>3. QED
    BY <2>1, <2>2
<1>10. QED
  BY <1>8, <1>9 DEF Asked

\* A line that opens has what the server restored and asks for the page.
LEMMA AskedOnOpen ==
  ASSUME NEW a \in Line, NEW b \in Line, NEW P \in Topics \cup {"away"},
         Asked(a, P), a.phase = "connecting", b.phase = "open",
         b.topics = a.topics, b.restored = a.restored,
         b.up = a.up \o Frames("subscribe", TopicsOf(P))
  PROVE  Asked(b, P)
<1> DEFINE fs == Frames("subscribe", TopicsOf(P))
<1>1. a.up = <<>> /\ a.topics \subseteq a.restored
  BY DEF Asked
<1>2. /\ fs \in Seq(UpFrame)
      /\ TopicsOf(P) = {} \/ (TopicsOf(P) = {P} /\ P \in Topics)
      /\ TopicsOf(P) = {} => Len(fs) = 0
      /\ TopicsOf(P) # {} => Len(fs) = 1
      /\ \A i \in 1..Len(fs) : i = 1 /\ fs[i] = [op |-> "subscribe", topic |-> P]
  BY TopicsOfPage, FramesOfPage
<1> HIDE DEF fs
<1>3. fs \in Seq(UpFrame)
  BY <1>2
<1>4. b.up = a.up \o fs
  BY DEF fs
<1>5. ASSUME NEW x \in TopicsOf(P)
      PROVE  Stands(b, x, "subscribe")
  <2>1. /\ x \in Topics /\ 1 \in 1..Len(fs) /\ Len(fs) = 1
        /\ fs[1] = [op |-> "subscribe", topic |-> x]
    BY <1>2
  <2>2. \A j \in 1 + 1..Len(fs) : fs[j].topic = x => fs[j].op = "subscribe"
    BY <2>1
  <2>3. \E i \in 1..Len(fs) :
          /\ fs[i] = [op |-> "subscribe", topic |-> x]
          /\ \A j \in i + 1..Len(fs) : fs[j].topic = x => fs[j].op = "subscribe"
    BY <2>1, <2>2
  <2>4. QED
    BY <1>3, <1>4, <2>1, <2>3, StandsAppended
<1>6. ASSUME NEW x \in Topics, x \notin TopicsOf(P) \cup b.restored
      PROVE  Stands(b, x, "unsubscribe")
  <2>1. Stands(a, x, "unsubscribe")
    <3>1. Len(a.up) = 0
      BY <1>1
    <3>2. x \notin a.topics
      BY <1>1, <1>6
    <3>3. QED
      BY <3>1, <3>2 DEF Stands
  <2>2. \A i \in 1..Len(fs) : fs[i].topic # x
    BY <1>2, <1>6
  <2>3. QED
    BY <1>3, <1>4, <2>1, <2>2, StandsAppended
<1>7. QED
  BY <1>5, <1>6 DEF Asked

\* What the server has taken all of is what the page asked, and what it restored.
LEMMA AskedAndTaken ==
  ASSUME NEW a \in Line, NEW P \in Topics \cup {"away"}, Asked(a, P),
         a.phase = "open", ~a.broken, a.up = <<>>
  PROVE  TopicsOf(P) \subseteq a.topics /\ a.topics \subseteq TopicsOf(P) \cup a.restored
<1>1. Len(a.up) = 0
  OBVIOUS
<1>2. \A x, op : Stands(a, x, op) => (x \in a.topics <=> op = "subscribe")
  BY <1>1 DEF Stands
<1>3. a.topics \subseteq Topics /\ TopicsOf(P) \subseteq Topics
  BY TopicsOfPage DEF Line
<1>4. QED
  BY <1>2, <1>3 DEF Asked
-----------------------------------------------------------------------------
(***************************************************************************)
(* The invariant.                                                          *)
(***************************************************************************)
\* A new line and a new client are what their types say.
LEMMA FreshType ==
  ASSUME NEW T \in SUBSET Topics
  PROVE  NoLine \in Line /\ NewClient(T) \in Client /\ UpdatesOn(NoLine) = {}
<1>1. 0 \in 0..MaxSessions /\ 0 \in 0..MaxLines
  BY RealtimeClientAssumption
<1>2. <<>> \in Seq(UpFrame) /\ <<>> \in Seq(Frame)
  OBVIOUS
<1>3. NoLine \in Line
  BY <1>1, <1>2 DEF NoLine, Line
<1>4. NewClient(T) \in Client
  BY <1>1 DEF NewClient, Client, States
<1>5. NoLine.down = <<>>
  BY DEF NoLine
<1>6. QED
  BY <1>3, <1>4, <1>5, UpdatesSame

\* The budget is a number for each kind.
LEMMA BudgetType ==
  ASSUME NEW b \in Budgets
  PROVE  b \in [Kinds -> Nat] /\ b["sessions"] <= MaxSessions
BY RealtimeClientAssumption DEF Kinds

\* Updates are numbered, so that those under way can be counted.
LEMMA PendingFinite ==
  ASSUME updates \in Nat
  PROVE  IsFiniteSet(Pending) /\ Cardinality(Pending) \in Nat
<1>1. IsFiniteSet(1..updates)
  BY FS_Interval
<1>2. Pending \subseteq 1..updates
  BY DEF Pending
<1>3. QED
  BY <1>1, <1>2, FS_Subset, FS_CardinalityType

\* Nobody is signed in and there is no line.
LEMMA FeedInitIInv == FeedInit => FeedIInv
<1> SUFFICES ASSUME FeedInit PROVE FeedIInv
  OBVIOUS
<1>1. /\ \A s \in LineIds : lines[s] = NoLine
      /\ \A t \in Sessions : clients[t] = NewClient({})
      /\ left \in [Kinds -> Nat] /\ left["sessions"] <= MaxSessions
  BY BudgetType DEF FeedInit
<1>2. Typed
  <2>1. NoLine \in Line /\ NewClient({}) \in Client
    BY FreshType
  <2>2. clients \in [Sessions -> Client] /\ lines \in [LineIds -> Line]
    BY <2>1 DEF FeedInit
  <2>3. session \in 0..MaxSessions /\ page \in Topics \cup {"away"} /\ shownState \in States
    BY RealtimeClientAssumption DEF FeedInit, States
  <2>4. seqs \in [Topics -> Nat] /\ snapshots \in [LineIds -> (SUBSET Topics) \cup {Gone}]
    BY DEF FeedInit
  <2>5. QED
    BY <1>1, <2>2, <2>3, <2>4 DEF Typed, FeedInit
<1>3. Wired
  <2>1. \A s \in LineIds : LineWired(s)
    BY <1>1, RealtimeClientAssumption DEF LineWired, Using, NoLine, Kinds
  <2>2. \A t \in Sessions : ClientWired(t)
    BY <1>1 DEF ClientWired, NewClient
  <2>3. QED
    BY <1>1, <2>1, <2>2, RealtimeClientAssumption DEF Wired, FeedInit, Kinds
<1>4. Reached
  <2>1. TopicsOf("away") = {}
    BY RealtimeClientAssumption DEF TopicsOf, Topics
  <2>2. \A s \in LineIds : Asked(lines[s], page)
    BY <1>1 DEF Asked, NoLine
  <2>3. QED
    BY <2>1, <2>2 DEF Reached, FeedInit
<1>5. Counts
  <2>1. updates = 0 /\ reloads = 0
    BY DEF FeedInit
  <2>2. Pending = {}
    BY <2>1 DEF Pending
  <2>3. Cardinality(Pending) = 0
    BY <2>2, FS_EmptySet
  <2>4. \A s \in LineIds : UpdatesOn(lines[s]) = {}
    BY <1>1, FreshType
  <2>5. \A t \in Sessions : clients[t].seen = {}
    BY <1>1 DEF NewClient
  <2>6. QED
    BY <2>1, <2>3, <2>4, <2>5 DEF Counts
<1>6. QED
  BY <1>2, <1>3, <1>4, <1>5 DEF FeedIInv

\* The updates that may still make the page load grow only by a publication, and a
\* new page or session starts with none of the old.
LEMMA CountsShrink ==
  ASSUME Typed, Counts, Typed', updates' = updates, reloads' <= reloads,
         \A t \in Sessions : clients'[t].seen \subseteq 1..updates,
         \A s \in LineIds :
           /\ UpdatesOn(lines'[s]) \subseteq UpdatesOn(lines[s])
           /\ Using(s)' /\ UpdatesOn(lines'[s]) # {} =>
                Using(s) /\ clients[session].seen \subseteq clients'[session'].seen
  PROVE  Counts'
<1>1. Pending' \subseteq Pending
  <2> SUFFICES ASSUME NEW n \in Pending'
               PROVE  n \in Pending
    OBVIOUS
  <2>1. n \in 1..updates
    BY DEF Pending
  <2>2. PICK s \in LineIds : /\ Using(s)' /\ n \in UpdatesOn(lines'[s])
                             /\ n \notin clients'[session'].seen
    BY DEF Pending
  <2>3. Using(s) /\ n \in UpdatesOn(lines[s]) /\ n \notin clients[session].seen
    BY <2>2
  <2>4. QED
    BY <2>1, <2>3 DEF Pending
<1>2. IsFiniteSet(Pending) /\ Cardinality(Pending) \in Nat
  BY PendingFinite DEF Typed
<1>3. Cardinality(Pending') <= Cardinality(Pending) /\ Cardinality(Pending') \in Nat
  BY <1>1, <1>2, FS_Subset, FS_CardinalityType
<1>4. reloads \in Nat /\ reloads' \in Nat /\ updates \in Nat
  BY DEF Typed
<1>5. reloads' + Cardinality(Pending') <= updates'
  BY <1>2, <1>3, <1>4 DEF Counts
<1>6. QED
  BY <1>5 DEF Counts

\* A client with the same socket, timer and state.
SameConnection(c, d) ==
  /\ d.state = c.state /\ d.socket = c.socket /\ d.timer = c.timer
  /\ d.manuallyClosed = c.manuallyClosed

\* A step after which every line is in the phase it was in, of the client it was of.
LEMMA WiredSame ==
  ASSUME Typed, Wired, session' = session, left'["sessions"] = left["sessions"],
         \A t \in Sessions : SameConnection(clients[t], clients'[t]),
         \A s \in LineIds : lines'[s].phase = lines[s].phase /\ lines'[s].as = lines[s].as
  PROVE  Wired'
<1>1. \A s \in LineIds : Using(s)' <=> Using(s)
  BY DEF Using
<1>2. session # 0 => session \in Sessions
  BY RealtimeClientAssumption DEF Typed, Sessions
<1>3. ASSUME NEW s \in LineIds
      PROVE  LineWired(s)'
  <2>1. LineWired(s)
    BY DEF Wired
  <2>2. Using(s) => session # 0
    BY <2>1 DEF LineWired
  <2>3. lines[s].phase = "open" => Using(s)
    BY DEF Using
  <2>4. QED
    BY <1>1, <1>2, <2>1, <2>2, <2>3 DEF LineWired, SameConnection
<1>4. ASSUME NEW t \in Sessions
      PROVE  ClientWired(t)'
  <2>1. clients[t].socket # 0 => clients[t].socket \in LineIds
    BY RealtimeClientAssumption DEF Typed, Client, LineIds
  <2>2. ClientWired(t) /\ SameConnection(clients[t], clients'[t])
    BY DEF Wired
  <2>3. QED
    BY <1>1, <2>1, <2>2 DEF ClientWired, SameConnection
<1>5. QED
  BY <1>2, <1>3, <1>4 DEF Wired, SameConnection

\* A step of the server or of the network: the client hears of it later.
LEMMA ClientUnaware ==
  ASSUME FeedIInv, UNCHANGED clientVars, left'["sessions"] = left["sessions"],
         \A s \in LineIds :
           /\ lines'[s].phase = lines[s].phase /\ lines'[s].as = lines[s].as
           /\ Asked(lines'[s], page)
  PROVE  Wired' /\ Reached'
<1>1. /\ session' = session /\ page' = page /\ clients' = clients
      /\ subscriptionRef' = subscriptionRef
  BY DEF clientVars
<1>2. \A t \in Sessions : SameConnection(clients[t], clients'[t])
  BY <1>1 DEF SameConnection
<1>3. Wired'
  BY <1>1, <1>2, WiredSame DEF FeedIInv
<1>4. Reached'
  BY <1>1 DEF FeedIInv, Reached
<1>5. QED
  BY <1>3, <1>4

\* A step of the server or the network that puts no update on a line keeps the invariant.
LEMMA ServerStep ==
  ASSUME FeedIInv, UNCHANGED <<clientVars, updates>>, Typed', left'["sessions"] = left["sessions"],
         \A s \in LineIds :
           /\ lines'[s].phase = lines[s].phase /\ lines'[s].as = lines[s].as
           /\ UpdatesOn(lines'[s]) \subseteq UpdatesOn(lines[s])
           /\ Asked(lines'[s], page)
  PROVE  FeedIInv'
<1>1. /\ session' = session /\ clients' = clients
      /\ reloads' = reloads /\ updates' = updates
  BY DEF clientVars
<1>2. \A s \in LineIds : Using(s)' <=> Using(s)
  BY DEF Using
<1>3. Wired' /\ Reached'
  BY ClientUnaware
<1>4. reloads' <= reloads
  BY <1>1 DEF FeedIInv, Typed
<1>5. \A t \in Sessions : clients'[t].seen \subseteq 1..updates
  BY <1>1 DEF FeedIInv, Counts
<1>6. Counts'
  BY <1>1, <1>2, <1>4, <1>5, CountsShrink DEF FeedIInv
<1>7. QED
  BY <1>3, <1>6 DEF FeedIInv

\* Such a step that tells the rooms of it.
LEMMA RoomStep ==
  ASSUME FeedIInv, UNCHANGED <<clientVars, updates, left>>,
         NEW base \in [LineIds -> Line], NEW rooms \in SUBSET Posts, NEW n \in RoomEvents,
         lines' = RoomChange(base, rooms, n), seqs' = Counted(rooms, n),
         snapshots' \in [LineIds -> (SUBSET Topics) \cup {Gone}],
         \A s \in LineIds :
           /\ base[s].phase = lines[s].phase /\ base[s].as = lines[s].as
           /\ UpdatesOn(base[s]) \subseteq UpdatesOn(lines[s])
           /\ Asked(base[s], page)
  PROVE  FeedIInv'
<1>1. /\ lines' \in [LineIds -> Line]
      /\ \A s \in LineIds : RoomsAdded(base[s], lines'[s])
  BY RoomChangeEffect DEF FeedIInv
<1>2. seqs' \in [Topics -> Nat]
  BY CountedType DEF FeedIInv
<1>3. Typed'
  BY <1>1, <1>2 DEF FeedIInv, Typed, clientVars
<1>4. ASSUME NEW s \in LineIds
      PROVE  /\ lines'[s].phase = lines[s].phase /\ lines'[s].as = lines[s].as
             /\ UpdatesOn(lines'[s]) \subseteq UpdatesOn(lines[s])
             /\ Asked(lines'[s], page)
  <2>1. SameButDown(base[s], lines'[s]) /\ UpdatesOn(lines'[s]) = UpdatesOn(base[s])
    BY <1>1 DEF RoomsAdded
  <2>2. Asked(lines'[s], page)
    BY <2>1, AskedSame
  <2>3. lines'[s].phase = base[s].phase /\ lines'[s].as = base[s].as
    BY <2>1 DEF SameButDown
  <2>4. QED
    BY <2>1, <2>2, <2>3
<1>5. QED
  BY <1>3, <1>4, ServerStep

\* An upgraded line has what was restored and nothing on it yet.
LEMMA UpgradeStep ==
  ASSUME FeedIInv, NEW s \in LineIds, Upgrade(s)
  PROVE  FeedIInv'
<1>1. PICK n \in RoomEvents :
        \E kept \in IF lines[s].asks # 0 /\ snapshots[lines[s].asks] # Gone
                    THEN BOOLEAN ELSE {FALSE} :
          LET restored == IF kept THEN snapshots[lines[s].asks] ELSE {}
              rct == IF kept THEN lines[s].asks ELSE s
              open == [lines EXCEPT ![s].live = TRUE, ![s].rct = rct,
                                    ![s].topics = restored, ![s].restored = restored,
                                    ![s].down = <<[kind |-> "connected", rct |-> rct]>>]
          IN /\ lines' = RoomChange(open, restored \cap Posts, n)
             /\ seqs' = Counted(restored \cap Posts, n)
             /\ snapshots' = IF kept THEN [snapshots EXCEPT ![rct] = Gone] ELSE snapshots
  BY DEF Upgrade
<1>2. PICK kept \in BOOLEAN :
        /\ kept => lines[s].asks # 0 /\ snapshots[lines[s].asks] # Gone
        /\ LET restored == IF kept THEN snapshots[lines[s].asks] ELSE {}
               rct == IF kept THEN lines[s].asks ELSE s
               open == [lines EXCEPT ![s].live = TRUE, ![s].rct = rct,
                                     ![s].topics = restored, ![s].restored = restored,
                                     ![s].down = <<[kind |-> "connected", rct |-> rct]>>]
           IN /\ lines' = RoomChange(open, restored \cap Posts, n)
              /\ seqs' = Counted(restored \cap Posts, n)
              /\ snapshots' = IF kept THEN [snapshots EXCEPT ![rct] = Gone] ELSE snapshots
  BY <1>1
<1> DEFINE restored == IF kept THEN snapshots[lines[s].asks] ELSE {}
           rct == IF kept THEN lines[s].asks ELSE s
           line == [lines[s] EXCEPT !.live = TRUE, !.rct = rct, !.topics = restored,
                                    !.restored = restored,
                                    !.down = <<[kind |-> "connected", rct |-> rct]>>]
           open == [lines EXCEPT ![s] = line]
<1>3. /\ lines[s] \in Line /\ lines \in [LineIds -> Line]
      /\ snapshots \in [LineIds -> (SUBSET Topics) \cup {Gone}]
  BY DEF FeedIInv, Typed
<1>4. kept => lines[s].asks \in LineIds
  BY <1>2, <1>3, RealtimeClientAssumption DEF Line, LineIds
<1>5. restored \in SUBSET Topics /\ rct \in LineIds
  BY <1>2, <1>3, <1>4
<1>6. lines' = RoomChange(open, restored \cap Posts, n)
  BY <1>2, <1>3
<1>7. /\ seqs' = Counted(restored \cap Posts, n)
      /\ snapshots' = IF kept THEN [snapshots EXCEPT ![rct] = Gone] ELSE snapshots
  BY <1>2
<1> HIDE DEF restored, rct
<1>8. snapshots' \in [LineIds -> (SUBSET Topics) \cup {Gone}]
  BY <1>3, <1>5, <1>7
<1>9. line \in Line
  <2>1. [kind |-> "connected", rct |-> rct] \in Frame
    BY <1>5 DEF Frame, LineIds
  <2>2. <<[kind |-> "connected", rct |-> rct]>> \in Seq(Frame)
    BY <2>1
  <2>3. rct \in 0..MaxLines
    BY <1>5 DEF LineIds
  <2>4. QED
    BY <1>3, <1>5, <2>2, <2>3 DEF Line
<1>10. /\ line.phase = lines[s].phase /\ line.as = lines[s].as /\ line.up = lines[s].up
       /\ line.topics = restored /\ line.restored = restored
       /\ line.down = <<[kind |-> "connected", rct |-> rct]>>
  BY <1>3 DEF Line
<1> HIDE DEF line
<1>11. open \in [LineIds -> Line]
  BY <1>3, <1>9
<1>12. UpdatesOn(line) = {}
  BY <1>10 DEF UpdatesOn
<1>13. Asked(line, page)
  BY <1>10 DEF Upgrade, FeedIInv, Reached, Asked
<1>14. ASSUME NEW r \in LineIds
       PROVE  /\ open[r].phase = lines[r].phase /\ open[r].as = lines[r].as
              /\ UpdatesOn(open[r]) \subseteq UpdatesOn(lines[r])
              /\ Asked(open[r], page)
  <2>1. CASE r = s
    BY <1>3, <1>10, <1>12, <1>13, <2>1
  <2>2. CASE r # s
    BY <1>3, <2>2 DEF FeedIInv, Reached
  <2>3. QED
    BY <2>1, <2>2
<1> HIDE DEF open
<1>15. UNCHANGED <<clientVars, updates, left>>
  BY DEF Upgrade
<1>16. restored \cap Posts \in SUBSET Posts
  OBVIOUS
<1>17. QED
  BY <1>6, <1>7, <1>8, <1>11, <1>14, <1>15, <1>16, RoomStep
\* The server does what the oldest frame of the client asks.
LEMMA ServerTakesStep ==
  ASSUME FeedIInv, NEW s \in LineIds, ServerTakes(s)
  PROVE  FeedIInv'
<1> DEFINE frame == Head(lines[s].up)
           taken == [lines[s] EXCEPT !.up = Tail(@)]
<1>1. /\ lines[s] \in Line /\ lines \in [LineIds -> Line] /\ lines[s].up # <<>>
      /\ snapshots' \in [LineIds -> (SUBSET Topics) \cup {Gone}]
      /\ UNCHANGED <<clientVars, updates, left>>
  BY DEF FeedIInv, Typed, ServerTakes
<1>2. lines[s].up \in Seq(UpFrame)
  BY <1>1 DEF Line
<1>3. Tail(lines[s].up) \in Seq(UpFrame) /\ frame \in UpFrame
  BY <1>1, <1>2, EmptySeq, HeadTailProperties
<1>4. frame.topic \in Topics
  BY <1>3 DEF UpFrame
<1>5. PICK n \in RoomEvents, rooms \in SUBSET Posts, topics \in SUBSET Topics :
        /\ \/ frame.op = "subscribe" /\ topics = lines[s].topics \cup {frame.topic}
           \/ frame.op = "unsubscribe" /\ topics = lines[s].topics \ {frame.topic}
        /\ lines' = RoomChange([lines EXCEPT ![s].up = Tail(@), ![s].topics = topics],
                               rooms, n)
        /\ seqs' = Counted(rooms, n)
  <2>1. CASE frame.op = "subscribe" /\ Subscribe(s, frame.topic)
    <3> DEFINE rooms == ({frame.topic} \cap Posts) \ lines[s].topics
               topics == lines[s].topics \cup {frame.topic}
    <3>1. PICK n \in RoomEvents :
            /\ lines' = RoomChange([lines EXCEPT ![s].up = Tail(@),
                                                 ![s].topics = @ \cup {frame.topic}], rooms, n)
            /\ seqs' = Counted(rooms, n)
      BY <2>1 DEF Subscribe
    <3>2. [lines EXCEPT ![s].up = Tail(@), ![s].topics = @ \cup {frame.topic}]
            = [lines EXCEPT ![s].up = Tail(@), ![s].topics = topics]
      BY <1>1 DEF Line
    <3>3. rooms \in SUBSET Posts /\ topics \in SUBSET Topics
      BY <1>1, <1>4 DEF Line
    <3>4. frame.op = "subscribe" /\ topics = lines[s].topics \cup {frame.topic}
      BY <2>1
    <3> HIDE DEF frame, rooms, topics
    <3>5. QED
      BY <3>1, <3>2, <3>3, <3>4
  <2>2. CASE frame.op = "unsubscribe" /\ Unsubscribe(s, frame.topic)
    <3> DEFINE rooms == {frame.topic} \cap Posts \cap lines[s].topics
               topics == lines[s].topics \ {frame.topic}
    <3>1. PICK n \in RoomEvents :
            /\ lines' = RoomChange([lines EXCEPT ![s].up = Tail(@),
                                                 ![s].topics = @ \ {frame.topic}], rooms, n)
            /\ seqs' = Counted(rooms, n)
      BY <2>2 DEF Unsubscribe
    <3>2. [lines EXCEPT ![s].up = Tail(@), ![s].topics = @ \ {frame.topic}]
            = [lines EXCEPT ![s].up = Tail(@), ![s].topics = topics]
      BY <1>1 DEF Line
    <3>3. rooms \in SUBSET Posts /\ topics \in SUBSET Topics
      BY <1>1, <1>4 DEF Line
    <3>4. frame.op = "unsubscribe" /\ topics = lines[s].topics \ {frame.topic}
      BY <2>2
    <3> HIDE DEF frame, rooms, topics
    <3>5. QED
      BY <3>1, <3>2, <3>3, <3>4
  <2>3. QED
    BY <2>1, <2>2 DEF ServerTakes
<1> DEFINE line == [lines[s] EXCEPT !.up = Tail(@), !.topics = topics]
           base == [lines EXCEPT ![s] = line]
<1>6. lines' = RoomChange(base, rooms, n)
  BY <1>1, <1>5
<1>7. line \in Line
  BY <1>1, <1>3 DEF Line
<1>8. /\ line.phase = lines[s].phase /\ line.as = lines[s].as /\ line.up = Tail(lines[s].up)
      /\ line.topics = topics /\ line.restored = lines[s].restored
      /\ line.broken = lines[s].broken /\ line.down = lines[s].down
  BY <1>1 DEF Line
<1> HIDE DEF line
<1>9. base \in [LineIds -> Line]
  BY <1>1, <1>7
<1>10. Asked(line, page)
  BY <1>1, <1>5, <1>7, <1>8, AskedTaken DEF FeedIInv, Reached
<1>11. UpdatesOn(line) = UpdatesOn(lines[s])
  BY <1>8, UpdatesSame
<1>12. ASSUME NEW r \in LineIds
       PROVE  /\ base[r].phase = lines[r].phase /\ base[r].as = lines[r].as
              /\ UpdatesOn(base[r]) \subseteq UpdatesOn(lines[r])
              /\ Asked(base[r], page)
  <2>1. CASE r = s
    BY <1>1, <1>8, <1>10, <1>11, <2>1
  <2>2. CASE r # s
    BY <1>1, <2>2 DEF FeedIInv, Reached
  <2>3. QED
    BY <2>1, <2>2
<1> HIDE DEF base
<1>13. QED
  BY <1>1, <1>5, <1>6, <1>9, <1>12, RoomStep

\* The server keeps the topics of a line whose end it notices.
LEMMA ServerNoticesStep ==
  ASSUME FeedIInv, NEW s \in LineIds, ServerNotices(s)
  PROVE  FeedIInv'
<1> DEFINE rooms == lines[s].topics \cap Posts
           line == [lines[s] EXCEPT !.live = FALSE, !.topics = {}, !.broken = TRUE]
           base == [lines EXCEPT ![s] = line]
<1>1. /\ lines[s] \in Line /\ lines \in [LineIds -> Line]
      /\ snapshots \in [LineIds -> (SUBSET Topics) \cup {Gone}]
      /\ UNCHANGED <<clientVars, updates, left>>
  BY DEF FeedIInv, Typed, ServerNotices
<1>2. PICK n \in RoomEvents :
        /\ lines' = RoomChange([lines EXCEPT ![s].live = FALSE, ![s].topics = {},
                                             ![s].broken = TRUE], rooms, n)
        /\ seqs' = Counted(rooms, n)
  BY DEF ServerNotices
<1>3. lines' = RoomChange(base, rooms, n)
  BY <1>1, <1>2
<1>4. rooms \in SUBSET Posts
  OBVIOUS
<1>5. snapshots' \in [LineIds -> (SUBSET Topics) \cup {Gone}]
  BY <1>1 DEF ServerNotices, Line
<1>6. line \in Line
  BY <1>1 DEF Line
<1>7. /\ line.phase = lines[s].phase /\ line.as = lines[s].as /\ line.up = lines[s].up
      /\ line.topics = {} /\ line.restored = lines[s].restored
      /\ line.broken /\ line.down = lines[s].down
  BY <1>1 DEF Line
<1> HIDE DEF line, rooms
<1>8. base \in [LineIds -> Line]
  BY <1>1, <1>6
<1>9. Asked(lines[s], page)
  BY DEF FeedIInv, Reached
<1>10. Asked(line, page)
  BY <1>7, <1>9, AskedBroken
<1>11. UpdatesOn(line) = UpdatesOn(lines[s])
  BY <1>7, UpdatesSame
<1>12. ASSUME NEW r \in LineIds
       PROVE  /\ base[r].phase = lines[r].phase /\ base[r].as = lines[r].as
              /\ UpdatesOn(base[r]) \subseteq UpdatesOn(lines[r])
              /\ Asked(base[r], page)
  <2>1. CASE r = s
    BY <1>1, <1>7, <1>10, <1>11, <2>1
  <2>2. CASE r # s
    BY <1>1, <2>2 DEF FeedIInv, Reached
  <2>3. QED
    BY <2>1, <2>2
<1> HIDE DEF base
<1>13. QED
  BY <1>1, <1>2, <1>3, <1>4, <1>5, <1>8, <1>12, RoomStep

\* A line that breaks is the same line, with nothing on it.
LEMMA BrokenLine ==
  ASSUME NEW a \in Line, NEW P, Asked(a, P)
  PROVE  /\ Broken(a) \in Line /\ Broken(a).phase = a.phase /\ Broken(a).as = a.as
         /\ UpdatesOn(Broken(a)) = {} /\ Asked(Broken(a), P)
<1>1. <<>> \in Seq(UpFrame) /\ <<>> \in Seq(Frame)
  OBVIOUS
<1>2. Broken(a) \in Line
  BY <1>1 DEF Broken, Line
<1>3. /\ Broken(a).phase = a.phase /\ Broken(a).as = a.as /\ Broken(a).broken
      /\ Broken(a).topics = a.topics /\ Broken(a).restored = a.restored
      /\ Broken(a).up = <<>> /\ Broken(a).down = <<>>
  BY DEF Broken, Line
<1>4. QED
  BY <1>2, <1>3, UpdatesSame, AskedBroken

\* A line that breaks loses what is on it and nothing else.
LEMMA BreakStep ==
  ASSUME FeedIInv, NEW s \in LineIds, Break(s)
  PROVE  FeedIInv'
<1>1. /\ lines[s] \in Line /\ lines \in [LineIds -> Line]
      /\ lines' = [lines EXCEPT ![s] = Broken(lines[s])]
      /\ UNCHANGED <<clientVars, seqs, snapshots, updates>>
  BY DEF FeedIInv, Typed, Break
<1>2. /\ Broken(lines[s]) \in Line /\ Broken(lines[s]).phase = lines[s].phase
      /\ Broken(lines[s]).as = lines[s].as /\ UpdatesOn(Broken(lines[s])) = {}
      /\ Asked(Broken(lines[s]), page)
  BY <1>1, BrokenLine DEF FeedIInv, Reached
<1>3. left' \in [Kinds -> Nat] /\ left'["sessions"] = left["sessions"]
  BY DEF FeedIInv, Typed, Break, Spend, Kinds
<1>4. Typed'
  BY <1>1, <1>2, <1>3 DEF FeedIInv, Typed, clientVars
<1>5. \A r \in LineIds : Asked(lines[r], page)
  BY DEF FeedIInv, Reached
<1>6. QED
  BY <1>1, <1>2, <1>3, <1>4, <1>5, ServerStep

\* A restart breaks every line and forgets its topics.
LEMMA RestartStep ==
  ASSUME FeedIInv, Restart
  PROVE  FeedIInv'
<1>1. /\ lines \in [LineIds -> Line] /\ UNCHANGED <<clientVars, updates>>
      /\ lines' = [s \in LineIds |->
                     IF lines[s].phase = "closed" /\ ~lines[s].live THEN lines[s]
                     ELSE [Broken(lines[s]) EXCEPT !.live = FALSE, !.topics = {}]]
  BY DEF FeedIInv, Typed, Restart
<1>2. ASSUME NEW s \in LineIds
      PROVE  /\ lines'[s] \in Line
             /\ lines'[s].phase = lines[s].phase /\ lines'[s].as = lines[s].as
             /\ UpdatesOn(lines'[s]) \subseteq UpdatesOn(lines[s])
             /\ Asked(lines'[s], page)
  <2> DEFINE gone == [Broken(lines[s]) EXCEPT !.live = FALSE, !.topics = {}]
  <2>1. lines[s] \in Line /\ Asked(lines[s], page)
    BY <1>1 DEF FeedIInv, Reached
  <2>2. /\ Broken(lines[s]) \in Line /\ Broken(lines[s]).phase = lines[s].phase
        /\ Broken(lines[s]).as = lines[s].as /\ UpdatesOn(Broken(lines[s])) = {}
        /\ Asked(Broken(lines[s]), page) /\ Broken(lines[s]).broken
    BY <2>1, BrokenLine DEF Broken, Line
  <2>3. /\ gone \in Line /\ gone.phase = Broken(lines[s]).phase
        /\ gone.as = Broken(lines[s]).as /\ gone.down = Broken(lines[s]).down
        /\ gone.topics = {} /\ gone.restored = Broken(lines[s]).restored
        /\ gone.up = Broken(lines[s]).up /\ gone.broken
    BY <2>2 DEF Line
  <2> HIDE DEF gone
  <2>4. Asked(gone, page) /\ UpdatesOn(gone) = {}
    BY <2>2, <2>3, AskedBroken, UpdatesSame
  <2>5. lines'[s] = lines[s] \/ lines'[s] = gone
    BY <1>1 DEF gone
  <2>6. QED
    BY <2>1, <2>2, <2>3, <2>4, <2>5
<1>3. left' \in [Kinds -> Nat] /\ left'["sessions"] = left["sessions"]
  <2>1. Spend("restarts")
    BY DEF Restart
  <2>2. QED
    BY <2>1 DEF FeedIInv, Typed, Spend, Kinds
<1>4. seqs' \in [Topics -> Nat] /\ snapshots' \in [LineIds -> (SUBSET Topics) \cup {Gone}]
  BY DEF Restart
<1>5. lines' \in [LineIds -> Line]
  BY <1>1, <1>2
<1>6. Typed'
  BY <1>1, <1>3, <1>4, <1>5 DEF FeedIInv, Typed, clientVars
<1>7. QED
  BY <1>1, <1>2, <1>3, <1>6, ServerStep
\* A publication is one more update that may still make the page load.
LEMMA PublishStep ==
  ASSUME FeedIInv, NEW p \in Posts, Publish(p)
  PROVE  FeedIInv'
<1> DEFINE listed == UpdateFrame(p, updates', seqs'["list"])
           posted == UpdateFrame(p, updates', seqs'[p])
           mid == Broadcast(lines, "list", listed)
<1>1. /\ lines \in [LineIds -> Line] /\ updates \in Nat /\ updates' = updates + 1
      /\ lines' = Broadcast(mid, p, posted) /\ UNCHANGED <<clientVars, snapshots>>
      /\ Spend("updates")
  BY DEF FeedIInv, Typed, Publish
<1>2. left' \in [Kinds -> Nat] /\ left'["sessions"] = left["sessions"]
  BY <1>1 DEF FeedIInv, Typed, Spend, Kinds
<1>3. seqs' \in [Topics -> Nat]
  <2>1. seqs' = [seqs EXCEPT !["list"] = @ + 1, ![p] = @ + 1] /\ seqs \in [Topics -> Nat]
    BY DEF FeedIInv, Typed, Publish
  <2>2. p \in Topics /\ "list" \in Topics
    BY DEF Topics
  <2>3. QED
    BY <2>1, <2>2
<1>4. /\ listed \in Frame /\ listed.kind = "update" /\ listed.id = updates'
      /\ posted \in Frame /\ posted.kind = "update" /\ posted.id = updates'
  <2>1. seqs'["list"] \in Nat /\ seqs'[p] \in Nat
    BY <1>3 DEF Topics
  <2>2. QED
    BY <1>1, <2>1 DEF UpdateFrame, Frame
<1> HIDE DEF listed, posted
<1>5. /\ mid \in [LineIds -> Line]
      /\ \A s \in LineIds :
           /\ SameButDown(lines[s], mid[s])
           /\ mid[s].down = lines[s].down \/ mid[s].down = Append(lines[s].down, listed)
  BY <1>1, <1>4, BroadcastEffect
<1> HIDE DEF mid
<1>6. /\ lines' \in [LineIds -> Line]
      /\ \A s \in LineIds :
           /\ SameButDown(mid[s], lines'[s])
           /\ lines'[s].down = mid[s].down \/ lines'[s].down = Append(mid[s].down, posted)
  BY <1>1, <1>4, <1>5, BroadcastEffect
<1>7. Typed'
  BY <1>1, <1>2, <1>3, <1>6 DEF FeedIInv, Typed, clientVars
<1>8. ASSUME NEW s \in LineIds
      PROVE  /\ SameButDown(lines[s], lines'[s])
             /\ UpdatesOn(lines'[s]) \subseteq UpdatesOn(lines[s]) \cup {updates + 1}
  <2>1. lines[s] \in Line /\ mid[s] \in Line /\ lines'[s] \in Line
    BY <1>1, <1>5, <1>6
  <2>2. UpdatesOn(mid[s]) \subseteq UpdatesOn(lines[s]) \cup {updates + 1}
    BY <1>1, <1>4, <1>5, <2>1, UpdatesAppended, UpdatesSame
  <2>3. UpdatesOn(lines'[s]) \subseteq UpdatesOn(mid[s]) \cup {updates + 1}
    <3>1. lines'[s].down = mid[s].down \/ lines'[s].down = Append(mid[s].down, posted)
      BY <1>6
    <3>2. CASE lines'[s].down = mid[s].down
      BY <3>2, UpdatesSame
    <3>3. CASE lines'[s].down = Append(mid[s].down, posted)
      <4>1. UpdatesOn(lines'[s]) = UpdatesOn(mid[s]) \cup {posted.id}
        BY <1>4, <2>1, <3>3, UpdatesAppended
      <4>2. QED
        BY <1>1, <1>4, <4>1
    <3>4. QED
      BY <3>1, <3>2, <3>3
  <2>4. SameButDown(lines[s], mid[s]) /\ SameButDown(mid[s], lines'[s])
    BY <1>5, <1>6
  <2>5. SameButDown(lines[s], lines'[s])
    BY <2>4, SameTwice
  <2>6. QED
    BY <2>2, <2>3, <2>5
<1>9. /\ session' = session /\ clients' = clients /\ reloads' = reloads
      /\ UNCHANGED clientVars
  BY <1>1 DEF clientVars
<1>10. ASSUME NEW s \in LineIds
       PROVE  /\ lines'[s].phase = lines[s].phase /\ lines'[s].as = lines[s].as
              /\ Asked(lines'[s], page)
  <2>1. Asked(lines[s], page)
    BY DEF FeedIInv, Reached
  <2>2. QED
    BY <1>8, <2>1, AskedSame DEF SameButDown
<1>11. Wired' /\ Reached'
  BY <1>2, <1>9, <1>10, ClientUnaware
<1>12. Pending' \subseteq Pending \cup {updates + 1}
  <2> SUFFICES ASSUME NEW n \in Pending', n # updates + 1
               PROVE  n \in Pending
    OBVIOUS
  <2>1. n \in 1..updates
    BY <1>1 DEF Pending
  <2>2. PICK s \in LineIds : /\ Using(s)' /\ n \in UpdatesOn(lines'[s])
                             /\ n \notin clients'[session'].seen
    BY DEF Pending
  <2>3. Using(s) /\ n \in UpdatesOn(lines[s]) /\ n \notin clients[session].seen
    BY <1>8, <1>9, <1>10, <2>2 DEF Using
  <2>4. QED
    BY <2>1, <2>3 DEF Pending
<1>13. Cardinality(Pending') <= Cardinality(Pending) + 1
  <2>1. IsFiniteSet(Pending) /\ Cardinality(Pending) \in Nat
    BY <1>1, PendingFinite
  <2>2. /\ IsFiniteSet(Pending \cup {updates + 1})
        /\ Cardinality(Pending \cup {updates + 1}) <= Cardinality(Pending) + 1
    BY <2>1, FS_AddElement
  <2>3. Cardinality(Pending') <= Cardinality(Pending \cup {updates + 1})
    BY <1>12, <2>2, FS_Subset
  <2>4. Cardinality(Pending') \in Nat /\ Cardinality(Pending \cup {updates + 1}) \in Nat
    BY <1>12, <2>2, FS_Subset, FS_CardinalityType
  <2>5. QED
    BY <2>1, <2>2, <2>3, <2>4
<1>14. Counts'
  <2>1. /\ Cardinality(Pending) \in Nat /\ Cardinality(Pending') \in Nat
        /\ reloads \in Nat /\ reloads + Cardinality(Pending) <= updates
    <3>1. IsFiniteSet(Pending \cup {updates + 1})
      BY <1>1, PendingFinite, FS_AddElement
    <3>2. QED
      BY <1>1, <1>12, <3>1, PendingFinite, FS_Subset, FS_CardinalityType
         DEF FeedIInv, Typed, Counts
  <2>2. reloads' + Cardinality(Pending') <= updates'
    BY <1>1, <1>9, <1>13, <2>1
  <2>3. \A t \in Sessions : clients'[t].seen \subseteq 1..updates'
    BY <1>1, <1>9 DEF FeedIInv, Counts
  <2>4. \A s \in LineIds : UpdatesOn(lines'[s]) \subseteq 1..updates'
    <3> TAKE s \in LineIds
    <3>1. UpdatesOn(lines[s]) \subseteq 1..updates
      BY DEF FeedIInv, Counts
    <3>2. 1..updates \cup {updates + 1} \subseteq 1..updates'
      BY <1>1
    <3>3. QED
      BY <1>8, <3>1, <3>2
  <2>5. QED
    BY <2>2, <2>3, <2>4 DEF Counts
<1>15. QED
  BY <1>7, <1>11, <1>14 DEF FeedIInv
-----------------------------------------------------------------------------
(***************************************************************************)
(* The steps of the client.                                                *)
(***************************************************************************)
\* A line in use is the session's, and no other is in use.
LEMMA OneInUse ==
  ASSUME FeedIInv, NEW s \in LineIds, Using(s)
  PROVE  /\ session \in Sessions /\ lines[s].as = session /\ clients[session].socket = s
         /\ ~clients[session].manuallyClosed
         /\ \A r \in LineIds : Using(r) => r = s
<1>1. \A r \in LineIds :
        Using(r) => /\ session # 0 /\ lines[r].as = session /\ clients[session].socket = r
  BY DEF FeedIInv, Wired, LineWired
<1>2. session # 0 => session \in Sessions
  BY RealtimeClientAssumption DEF FeedIInv, Typed, Sessions
<1>3. session # 0 => ~clients[session].manuallyClosed
  BY DEF FeedIInv, Wired
<1>4. QED
  BY <1>1, <1>2, <1>3

\* What a frame that the client takes does to it.
LEMMA MessageEffect ==
  ASSUME FeedIInv, NEW s \in LineIds, OnMessage(s)
  PROVE  LET t == lines[s].as
             frame == Head(lines[s].down)
         IN \E c \in Client :
              /\ clients' = [clients EXCEPT ![t] = c] /\ SameConnection(clients[t], c)
              /\ c.subscriptions = clients[t].subscriptions
              /\ \/ c.seen = clients[t].seen /\ reloads' = reloads
                 \/ /\ frame.kind = "update" /\ frame.id \notin clients[t].seen
                    /\ c.seen = clients[t].seen \cup {frame.id}
                    /\ reloads' \in {reloads, reloads + 1}
<1> DEFINE t == lines[s].as
           frame == Head(lines[s].down)
           old == clients[t]
<1>1. Using(s) /\ lines[s] \in Line /\ clients \in [Sessions -> Client]
  BY DEF OnMessage, Using, FeedIInv, Typed
<1>2. t \in Sessions
  BY <1>1, OneInUse
<1>3. frame \in Frame
  <2>1. lines[s].down \in Seq(Frame) /\ lines[s].down # <<>>
    BY <1>1 DEF Line, OnMessage
  <2>2. QED
    BY <2>1, EmptySeq, HeadTailProperties
<1>4. \/ /\ frame.kind = "connected"
         /\ clients' = [clients EXCEPT ![t].reconnectToken = frame.rct] /\ reloads' = reloads
      \/ /\ frame.kind # "connected" /\ clients' = clients /\ reloads' = reloads
      \/ /\ frame.kind # "connected" /\ frame.id \notin clients[t].seen
         /\ clients' = [clients EXCEPT ![t] = Noted(@, frame)]
         /\ reloads' = IF Applies(clients[t], frame) /\ Hydrates(frame)
                       THEN reloads + 1 ELSE reloads
  BY DEF OnMessage
<1> HIDE DEF t, frame
<1>5. old \in Client
  BY <1>1, <1>2
<1> SUFFICES \E c \in Client :
               /\ clients' = [clients EXCEPT ![t] = c] /\ SameConnection(old, c)
               /\ c.subscriptions = old.subscriptions
               /\ \/ c.seen = old.seen /\ reloads' = reloads
                  \/ /\ frame.kind = "update" /\ frame.id \notin old.seen
                     /\ c.seen = old.seen \cup {frame.id}
                     /\ reloads' \in {reloads, reloads + 1}
  BY DEF t, frame
<1>6. CASE /\ frame.kind = "connected"
           /\ clients' = [clients EXCEPT ![t].reconnectToken = frame.rct]
           /\ reloads' = reloads
  <2> DEFINE c == [old EXCEPT !.reconnectToken = frame.rct]
  <2>1. frame.rct \in 0..MaxLines
    BY <1>3, <1>6 DEF Frame
  <2>2. c \in Client
    BY <1>5, <2>1 DEF Client
  <2>3. /\ SameConnection(old, c) /\ c.subscriptions = old.subscriptions
        /\ c.seen = old.seen
    BY <1>5 DEF Client, SameConnection
  <2>4. clients' = [clients EXCEPT ![t] = c]
    BY <1>1, <1>2, <1>6
  <2> HIDE DEF c, old
  <2>5. QED
    BY <1>6, <2>2, <2>3, <2>4
<1>7. CASE frame.kind # "connected" /\ clients' = clients /\ reloads' = reloads
  <2>1. clients' = [clients EXCEPT ![t] = old] /\ SameConnection(old, old)
    BY <1>1, <1>2, <1>7 DEF SameConnection
  <2> HIDE DEF old
  <2>2. QED
    BY <1>5, <1>7, <2>1
<1>8. CASE /\ frame.kind # "connected" /\ frame.id \notin clients[t].seen
           /\ clients' = [clients EXCEPT ![t] = Noted(@, frame)]
           /\ reloads' = IF Applies(clients[t], frame) /\ Hydrates(frame)
                         THEN reloads + 1 ELSE reloads
  <2> DEFINE c == Noted(old, frame)
             seen == IF frame.kind = "update" THEN old.seen \cup {frame.id} ELSE old.seen
             applied == IF Applies(old, frame) THEN frame.sequence ELSE old.last[frame.post]
             last == [old.last EXCEPT ![frame.post] = applied]
  <2>1. /\ frame.kind \in {"update", "presence"} /\ frame.post \in Posts
        /\ frame.id \in Nat /\ frame.sequence \in Nat
    BY <1>3, <1>8 DEF Frame
  <2>2. c = [old EXCEPT !.seen = seen, !.last[frame.post] = applied]
    BY <1>5, <2>1 DEF Noted, Client
  <2>3. seen \in SUBSET Nat /\ applied \in Nat /\ old.last \in [Posts -> Nat]
    BY <1>5, <2>1 DEF Client
  <2> HIDE DEF c, old, applied, seen
  <2>4. c \in Client /\ c.seen = seen /\ c.subscriptions = old.subscriptions
        /\ SameConnection(old, c)
    BY <1>5, <2>1, <2>2, <2>3 DEF Client, SameConnection
  <2>5. c.seen = IF frame.kind = "update" THEN old.seen \cup {frame.id} ELSE old.seen
    BY <2>4 DEF seen
  <2>6. clients' = [clients EXCEPT ![t] = c]
    BY <1>1, <1>2, <1>8 DEF c, old
  <2>7. reloads' \in {reloads, reloads + 1}
    BY <1>8
  <2>8. frame.kind # "update" => reloads' = reloads
    BY <1>8 DEF Hydrates
  <2>9. frame.id \notin old.seen
    BY <1>8 DEF old
  <2>10. QED
    BY <2>4, <2>5, <2>6, <2>7, <2>8, <2>9
<1>9. QED
  BY <1>4, <1>6, <1>7, <1>8
\* A frame that the client takes makes the page load only if it is an update that
\* could still make it load, and then it cannot again.
LEMMA OnMessageStep ==
  ASSUME FeedIInv, NEW s \in LineIds, OnMessage(s)
  PROVE  FeedIInv'
<1> DEFINE frame == Head(lines[s].down)
           line == [lines[s] EXCEPT !.down = Tail(@)]
<1>1. /\ lines[s] \in Line /\ lines \in [LineIds -> Line] /\ lines[s].down # <<>>
      /\ clients \in [Sessions -> Client] /\ updates \in Nat /\ reloads \in Nat
      /\ lines' = [lines EXCEPT ![s] = line]
      /\ session' = session /\ page' = page /\ subscriptionRef' = subscriptionRef
      /\ UNCHANGED <<shownState, seqs, snapshots, updates, left>>
  BY DEF FeedIInv, Typed, OnMessage
<1>2. /\ Using(s) /\ session \in Sessions /\ lines[s].as = session
      /\ \A r \in LineIds : Using(r) => r = s
  <2>1. Using(s)
    BY DEF OnMessage, Using
  <2>2. QED
    BY <2>1, OneInUse
<1>3. PICK c \in Client :
        /\ clients' = [clients EXCEPT ![session] = c]
        /\ SameConnection(clients[session], c)
        /\ c.subscriptions = clients[session].subscriptions
        /\ \/ c.seen = clients[session].seen /\ reloads' = reloads
           \/ /\ frame.kind = "update" /\ frame.id \notin clients[session].seen
              /\ c.seen = clients[session].seen \cup {frame.id}
              /\ reloads' \in {reloads, reloads + 1}
  BY <1>2, MessageEffect
<1>4. line \in Line
  <2>1. lines[s].down \in Seq(Frame)
    BY <1>1 DEF Line
  <2>2. Tail(lines[s].down) \in Seq(Frame)
    BY <1>1, <2>1, EmptySeq, HeadTailProperties
  <2>3. QED
    BY <1>1, <2>2 DEF Line
<1>5. /\ SameButDown(lines[s], line) /\ line.down = Tail(lines[s].down)
  BY <1>1 DEF Line, SameButDown
<1> HIDE DEF line
<1>6. /\ UpdatesOn(line) \subseteq UpdatesOn(lines[s])
      /\ frame.kind = "update" => frame.id \in UpdatesOn(lines[s])
  BY <1>1, <1>4, <1>5, UpdatesTaken
<1> HIDE DEF frame
<1>7. Typed'
  <2>1. lines' \in [LineIds -> Line] /\ clients' \in [Sessions -> Client]
    BY <1>1, <1>3, <1>4
  <2>2. reloads' \in Nat
    BY <1>1, <1>3
  <2>3. QED
    BY <1>1, <2>1, <2>2 DEF FeedIInv, Typed
<1>8. ASSUME NEW r \in LineIds
      PROVE  /\ lines'[r].phase = lines[r].phase /\ lines'[r].as = lines[r].as
             /\ UpdatesOn(lines'[r]) \subseteq UpdatesOn(lines[r])
             /\ Asked(lines'[r], page)
  <2>1. Asked(lines[r], page)
    BY DEF FeedIInv, Reached
  <2>2. CASE r = s
    <3>1. lines'[r] = line
      BY <1>1, <2>2
    <3>2. Asked(line, page)
      BY <1>5, <2>1, <2>2, AskedSame
    <3>3. line.phase = lines[s].phase /\ line.as = lines[s].as
      BY <1>5 DEF SameButDown
    <3>4. QED
      BY <1>6, <2>2, <3>1, <3>2, <3>3
  <2>3. CASE r # s
    BY <1>1, <2>1, <2>3
  <2>4. QED
    BY <2>2, <2>3
<1>9. ASSUME NEW t \in Sessions
      PROVE  /\ SameConnection(clients[t], clients'[t])
             /\ clients'[t].subscriptions = clients[t].subscriptions
             /\ t # session => clients'[t] = clients[t]
  BY <1>1, <1>2, <1>3 DEF SameConnection
<1>10. Wired'
  BY <1>1, <1>8, <1>9, WiredSame DEF FeedIInv
<1>11. Reached'
  BY <1>1, <1>2, <1>8, <1>9 DEF FeedIInv, Reached
<1>12. /\ clients'[session] = c
       /\ frame.kind = "update" => frame.id \in 1..updates
  BY <1>1, <1>2, <1>3, <1>6 DEF FeedIInv, Counts
<1>13. \A t \in Sessions : clients'[t].seen \subseteq 1..updates
  <2> TAKE t \in Sessions
  <2>1. clients[t].seen \subseteq 1..updates
    BY DEF FeedIInv, Counts
  <2>2. QED
    BY <1>2, <1>3, <1>9, <1>12, <2>1
<1>14. CASE reloads' = reloads
  <2>1. clients[session].seen \subseteq clients'[session].seen
    BY <1>3, <1>12
  <2>2. \A r \in LineIds : Using(r)' => Using(r)
    BY <1>8 DEF Using
  <2>3. reloads' <= reloads
    BY <1>1, <1>14
  <2>4. Counts'
    BY <1>1, <1>7, <1>8, <1>13, <2>1, <2>2, <2>3, CountsShrink DEF FeedIInv
  <2>5. QED
    BY <1>7, <1>10, <1>11, <2>4 DEF FeedIInv
<1>15. CASE /\ frame.kind = "update" /\ frame.id \notin clients[session].seen
            /\ c.seen = clients[session].seen \cup {frame.id}
            /\ reloads' = reloads + 1
  <2>1. frame.id \in Pending
    BY <1>2, <1>6, <1>12, <1>15 DEF Pending
  <2>2. Pending' \subseteq Pending \ {frame.id}
    <3> SUFFICES ASSUME NEW n \in Pending'
                 PROVE  n \in Pending /\ n # frame.id
      OBVIOUS
    <3>1. n \in 1..updates
      BY <1>1 DEF Pending
    <3>2. PICK r \in LineIds : /\ Using(r)' /\ n \in UpdatesOn(lines'[r])
                               /\ n \notin clients'[session'].seen
      BY DEF Pending
    <3>3. n \notin clients[session].seen \cup {frame.id}
      BY <1>1, <1>12, <1>15, <3>2
    <3>4. Using(r) /\ n \in UpdatesOn(lines[r])
      BY <1>8, <3>2 DEF Using
    <3>5. QED
      BY <3>1, <3>3, <3>4 DEF Pending
  <2>3. /\ IsFiniteSet(Pending) /\ Cardinality(Pending) \in Nat
        /\ IsFiniteSet(Pending \ {frame.id})
        /\ Cardinality(Pending \ {frame.id}) = Cardinality(Pending) - 1
    BY <1>1, <2>1, PendingFinite, FS_RemoveElement
  <2>4. /\ Cardinality(Pending') <= Cardinality(Pending) - 1
        /\ Cardinality(Pending') \in Nat
    <3>1. IsFiniteSet(Pending') /\ Cardinality(Pending') <= Cardinality(Pending \ {frame.id})
      BY <2>2, <2>3, FS_Subset
    <3>2. QED
      BY <2>3, <3>1, FS_CardinalityType
  <2>5. reloads + Cardinality(Pending) <= updates
    BY DEF FeedIInv, Counts
  <2>6. reloads' + Cardinality(Pending') <= updates'
    BY <1>1, <1>15, <2>3, <2>4, <2>5
  <2>7. \A r \in LineIds : UpdatesOn(lines'[r]) \subseteq 1..updates'
    BY <1>1, <1>8 DEF FeedIInv, Counts
  <2>8. Counts'
    BY <1>1, <1>13, <2>6, <2>7 DEF Counts
  <2>9. QED
    BY <1>7, <1>10, <1>11, <2>8 DEF FeedIInv
<1>16. QED
  BY <1>3, <1>14, <1>15

\* A line that opens asks for what the hooks hold.
LEMMA OnOpenStep ==
  ASSUME FeedIInv, NEW s \in LineIds, OnOpen(s)
  PROVE  FeedIInv'
<1> DEFINE t == lines[s].as
           fs == Frames("subscribe", clients[t].subscriptions)
           line == [lines[s] EXCEPT !.phase = "open", !.up = @ \o fs]
           c == [clients[t] EXCEPT !.state = "connected"]
<1>1. /\ lines[s] \in Line /\ lines \in [LineIds -> Line]
      /\ clients \in [Sessions -> Client] /\ page \in Topics \cup {"away"}
      /\ lines[s].phase = "connecting" /\ ~lines[s].broken
      /\ session' = session /\ page' = page /\ subscriptionRef' = subscriptionRef
      /\ shownState' = "connected" /\ reloads' = reloads
      /\ UNCHANGED <<seqs, snapshots, updates, left>>
      /\ clients' = [clients EXCEPT ![t].state = "connected"]
      /\ lines' = Send([lines EXCEPT ![s].phase = "open"], s, fs)
  BY DEF FeedIInv, Typed, OnOpen
<1>2. /\ Using(s) /\ session \in Sessions /\ t = session /\ clients[session].socket = s
      /\ \A r \in LineIds : Using(r) => r = s
  <2>1. Using(s)
    BY <1>1 DEF Using
  <2>2. QED
    BY <2>1, OneInUse
<1>3. clients' = [clients EXCEPT ![session] = c]
  BY <1>1, <1>2
<1>4. clients[t].subscriptions = TopicsOf(page)
  BY <1>2, RealtimeClientAssumption DEF FeedIInv, Reached, Sessions
<1>5. fs \in Seq(UpFrame)
  BY <1>1, <1>4, FramesOfPage
<1>6. lines' = [lines EXCEPT ![s] = line]
  <2> HIDE DEF fs
  <2>1. ASSUME NEW r \in LineIds
        PROVE  Send([lines EXCEPT ![s].phase = "open"], s, fs)[r]
                 = IF r = s THEN line ELSE lines[r]
    BY <1>1 DEF Send, Line
  <2>2. Send([lines EXCEPT ![s].phase = "open"], s, fs)
          = [r \in LineIds |-> IF r = s THEN line ELSE lines[r]]
    BY <2>1 DEF Send
  <2> HIDE DEF line
  <2>3. QED
    BY <1>1, <2>2
<1>7. line \in Line /\ line.up = lines[s].up \o fs
  <2> HIDE DEF fs
  <2>1. lines[s].up \in Seq(UpFrame)
    BY <1>1 DEF Line
  <2>2. lines[s].up \o fs \in Seq(UpFrame)
    BY <1>5, <2>1, ConcatProperties
  <2>3. QED
    BY <1>1, <2>2 DEF Line
<1>8. /\ line.phase = "open" /\ line.as = lines[s].as /\ line.down = lines[s].down
      /\ line.topics = lines[s].topics /\ line.restored = lines[s].restored
  BY <1>1 DEF Line
<1> HIDE DEF line
<1>9. clients[session] \in Client
  BY <1>1, <1>2
<1>10. /\ c \in Client /\ c.state = "connected" /\ c.socket = s
       /\ c.timer = clients[session].timer /\ c.seen = clients[session].seen
       /\ c.manuallyClosed = clients[session].manuallyClosed
       /\ c.subscriptions = clients[session].subscriptions
  BY <1>2, <1>9 DEF Client, States
<1> HIDE DEF c
<1>11. ASSUME NEW r \in LineIds
       PROVE  /\ lines'[r].as = lines[r].as /\ lines'[r].down = lines[r].down
              /\ r # s => lines'[r] = lines[r]
              /\ Using(r)' <=> Using(r)
              /\ lines'[r].phase # "open" => lines'[r].phase = lines[r].phase
              /\ Asked(lines'[r], page)
  <2>1. Asked(lines[r], page)
    BY DEF FeedIInv, Reached
  <2>2. CASE r = s
    <3>1. lines'[r] = line
      BY <1>1, <1>6, <2>2
    <3>2. Asked(line, page)
      BY <1>1, <1>4, <1>7, <1>8, <2>1, <2>2, AskedOnOpen
    <3>3. QED
      BY <1>1, <1>8, <2>2, <3>1, <3>2 DEF Using
  <2>3. CASE r # s
    <3>1. lines'[r] = lines[r]
      BY <1>1, <1>6, <2>3
    <3>2. QED
      BY <2>1, <2>3, <3>1 DEF Using
  <2>4. QED
    BY <2>2, <2>3
<1>12. ASSUME NEW u \in Sessions
       PROVE  /\ clients'[u].socket = clients[u].socket /\ clients'[u].timer = clients[u].timer
              /\ clients'[u].manuallyClosed = clients[u].manuallyClosed
              /\ clients'[u].subscriptions = clients[u].subscriptions
              /\ clients'[u].seen = clients[u].seen
              /\ clients'[session].state = "connected"
  BY <1>1, <1>2, <1>3, <1>10
<1>13. Typed'
  <2>1. lines' \in [LineIds -> Line] /\ clients' \in [Sessions -> Client]
    BY <1>1, <1>2, <1>3, <1>6, <1>7, <1>10
  <2>2. QED
    BY <1>1, <2>1 DEF FeedIInv, Typed, States
<1>14. ASSUME NEW r \in LineIds
       PROVE  LineWired(r)'
  <2>1. LineWired(r)
    BY DEF FeedIInv, Wired
  <2>2. lines'[r].phase = "open" => lines'[r].as \in Sessions
    BY <1>2, <1>11, <2>1 DEF Using
  <2>3. lines[r].phase # "closed" => lines[r].as \in Sessions
    BY <2>1 DEF LineWired
  <2>4. lines'[r].phase = "closing" =>
          lines'[r].as # session' /\ clients'[lines'[r].as].manuallyClosed
    BY <1>1, <1>11, <1>12, <2>1 DEF LineWired
  <2>5. QED
    BY <1>1, <1>2, <1>11, <1>12, <2>1, <2>2, <2>4 DEF LineWired
<1>15. ASSUME NEW u \in Sessions
       PROVE  ClientWired(u)'
  <2>1. clients[u].socket # 0 => clients[u].socket \in LineIds
    BY <1>1, RealtimeClientAssumption DEF Client, LineIds
  <2>2. ClientWired(u)
    BY DEF FeedIInv, Wired
  <2>3. QED
    BY <1>1, <1>11, <1>12, <2>1, <2>2 DEF ClientWired
<1>16. Wired'
  BY <1>1, <1>2, <1>12, <1>14, <1>15 DEF FeedIInv, Wired
<1>17. Reached'
  BY <1>1, <1>2, <1>11, <1>12 DEF FeedIInv, Reached
<1>18. Counts'
  <2>1. ASSUME NEW r \in LineIds
        PROVE  /\ UpdatesOn(lines'[r]) \subseteq UpdatesOn(lines[r])
               /\ Using(r)' => Using(r) /\ clients[session].seen \subseteq clients'[session'].seen
    BY <1>1, <1>2, <1>11, <1>12, UpdatesSame
  <2>2. \A u \in Sessions : clients'[u].seen \subseteq 1..updates
    BY <1>12 DEF FeedIInv, Counts
  <2>3. reloads' <= reloads /\ updates' = updates
    BY <1>1 DEF FeedIInv, Typed
  <2>4. QED
    BY <1>13, <2>1, <2>2, <2>3, CountsShrink DEF FeedIInv
<1>19. QED
  BY <1>13, <1>16, <1>17, <1>18 DEF FeedIInv
\* The end of a line of the session starts the timer; that of a line that the client
\* closed itself starts nothing.
LEMMA OnCloseStep ==
  ASSUME FeedIInv, NEW s \in LineIds, OnClose(s)
  PROVE  FeedIInv'
<1> DEFINE t == lines[s].as
           next == IF clients[t].manuallyClosed THEN "disconnected" ELSE "reconnecting"
           again == next = "reconnecting"
           line == [lines[s] EXCEPT !.phase = "closed"]
           c == [clients[t] EXCEPT !.socket = 0, !.state = next, !.timer = again]
<1>1. /\ lines[s] \in Line /\ lines \in [LineIds -> Line]
      /\ clients \in [Sessions -> Client]
      /\ \/ lines[s].phase = "closing"
         \/ Using(s)
      /\ session' = session /\ page' = page /\ subscriptionRef' = subscriptionRef
      /\ shownState' = next /\ reloads' = reloads
      /\ UNCHANGED <<seqs, snapshots, updates, left>>
      /\ lines' = [lines EXCEPT ![s] = line]
  BY DEF FeedIInv, Typed, OnClose, Using
<1>2. t \in Sessions
  BY <1>1 DEF FeedIInv, Wired, LineWired, Using
<1>3. clients' = [clients EXCEPT ![t] = c]
  BY <1>1, <1>2 DEF OnClose
<1>4. again <=> Using(s) /\ t = session
  <2>1. CASE Using(s)
    BY <2>1, OneInUse
  <2>2. CASE lines[s].phase = "closing"
    BY <2>2 DEF FeedIInv, Wired, LineWired, Using
  <2>3. QED
    BY <1>1, <2>1, <2>2
<1>5. next \in {"disconnected", "reconnecting"} /\ again \in BOOLEAN
  OBVIOUS
<1>6. clients[t] \in Client
  BY <1>1, <1>2
<1> HIDE DEF next, again
<1>7. /\ c \in Client /\ c.socket = 0 /\ c.timer = again
      /\ c.manuallyClosed = clients[t].manuallyClosed /\ c.seen = clients[t].seen
      /\ c.subscriptions = clients[t].subscriptions
  <2>1. 0 \in 0..MaxLines /\ next \in States
    BY <1>5, RealtimeClientAssumption DEF States
  <2>2. c \in Client
    BY <1>5, <1>6, <2>1 DEF Client
  <2>3. /\ c.socket = 0 /\ c.manuallyClosed = clients[t].manuallyClosed
        /\ c.seen = clients[t].seen /\ c.subscriptions = clients[t].subscriptions
    BY <1>6 DEF Client
  <2>4. c.timer = again
    BY <1>6, Zenon DEF Client
  <2>5. QED
    BY <2>2, <2>3, <2>4
<1>8. /\ line \in Line /\ line.phase = "closed" /\ line.as = lines[s].as
      /\ line.down = lines[s].down
  BY <1>1 DEF Line
<1> HIDE DEF c, line
<1>9. ASSUME NEW r \in LineIds
      PROVE  /\ lines'[r].as = lines[r].as /\ lines'[r].down = lines[r].down
             /\ r # s => lines'[r] = lines[r]
             /\ r = s => lines'[r].phase = "closed"
  BY <1>1, <1>8
<1>10. ASSUME NEW u \in Sessions
       PROVE  /\ clients'[u].manuallyClosed = clients[u].manuallyClosed
              /\ clients'[u].seen = clients[u].seen
              /\ clients'[u].subscriptions = clients[u].subscriptions
              /\ u # t => clients'[u] = clients[u]
              /\ u = t => clients'[u].socket = 0 /\ clients'[u].timer = again
  BY <1>1, <1>2, <1>3, <1>7
<1>11. Typed'
  <2>1. lines' \in [LineIds -> Line] /\ clients' \in [Sessions -> Client]
    BY <1>1, <1>2, <1>3, <1>7, <1>8
  <2>2. QED
    BY <1>1, <1>5, <2>1 DEF FeedIInv, Typed, States
<1>12. ASSUME NEW r \in LineIds, r # s, Using(r)
       PROVE  t # session
  <2>1. ~Using(s)
    BY <1>12, OneInUse
  <2>2. QED
    BY <1>1, <2>1 DEF FeedIInv, Wired, LineWired
<1>13. ASSUME NEW r \in LineIds
       PROVE  LineWired(r)'
  <2>1. LineWired(r)
    BY DEF FeedIInv, Wired
  <2>2. CASE r = s
    BY <1>1, <1>9, <2>1, <2>2 DEF LineWired, Using
  <2>3. CASE r # s
    <3>1. lines'[r] = lines[r] /\ (Using(r)' <=> Using(r))
      BY <1>9, <2>3 DEF Using
    <3>2. Using(r) => session \in Sessions /\ clients'[session] = clients[session]
      BY <1>10, <1>12, <2>3, OneInUse
    <3>3. lines[r].phase # "closed" => lines[r].as \in Sessions
      BY <2>1 DEF LineWired
    <3>4. lines[r].phase = "closing" => clients'[lines[r].as].manuallyClosed
      BY <1>10, <2>1, <3>3 DEF LineWired
    <3>5. lines[r].phase = "open" => Using(r)
      BY DEF Using
    <3>6. QED
      BY <1>1, <2>1, <3>1, <3>2, <3>3, <3>4, <3>5 DEF LineWired
  <2>4. QED
    BY <2>2, <2>3
<1>14. ASSUME NEW u \in Sessions
       PROVE  ClientWired(u)'
  <2>1. clients[u].socket # 0 => clients[u].socket \in LineIds
    BY <1>1, RealtimeClientAssumption DEF Client, LineIds
  <2>2. ClientWired(u)
    BY DEF FeedIInv, Wired
  <2>3. CASE u = t
    BY <1>1, <1>4, <1>10, <2>3 DEF ClientWired
  <2>4. CASE u # t
    <3>1. clients'[u] = clients[u]
      BY <1>10, <2>4
    <3>2. clients[u].socket # 0 => clients[u].socket # s
      BY <2>2, <2>4 DEF ClientWired
    <3>3. QED
      BY <1>1, <1>9, <2>1, <2>2, <3>1, <3>2 DEF ClientWired, Using
  <2>5. QED
    BY <2>3, <2>4
<1>15. session # 0 => session \in Sessions
  BY RealtimeClientAssumption DEF FeedIInv, Typed, Sessions
<1>16. Wired'
  BY <1>1, <1>10, <1>13, <1>14, <1>15 DEF FeedIInv, Wired
<1>17. Reached'
  <2>1. \A r \in LineIds : Asked(lines'[r], page)
    <3> TAKE r \in LineIds
    <3>1. CASE r = s
      BY <1>9, <3>1 DEF Asked
    <3>2. CASE r # s
      BY <1>9, <3>2 DEF FeedIInv, Reached
    <3>3. QED
      BY <3>1, <3>2
  <2>2. QED
    BY <1>1, <1>10, <1>15, <2>1 DEF FeedIInv, Reached
<1>18. Counts'
  <2>1. ASSUME NEW r \in LineIds
        PROVE  /\ UpdatesOn(lines'[r]) \subseteq UpdatesOn(lines[r])
               /\ Using(r)' => Using(r) /\ clients[session].seen \subseteq clients'[session'].seen
    <3>1. Using(r)' => Using(r)
      BY <1>9 DEF Using
    <3>2. Using(r) => session \in Sessions
      BY OneInUse
    <3>3. QED
      BY <1>1, <1>9, <1>10, <3>1, <3>2, UpdatesSame
  <2>2. \A u \in Sessions : clients'[u].seen \subseteq 1..updates
    BY <1>10 DEF FeedIInv, Counts
  <2>3. reloads' <= reloads /\ updates' = updates
    BY <1>1 DEF FeedIInv, Typed
  <2>4. QED
    BY <1>11, <2>1, <2>2, <2>3, CountsShrink DEF FeedIInv
<1>19. QED
  BY <1>11, <1>16, <1>17, <1>18 DEF FeedIInv

\* A dialled line has nothing on it.
LEMMA DialledLine ==
  ASSUME NEW t \in Sessions, NEW token \in 0..MaxLines, NEW P
  PROVE  LET line == [NoLine EXCEPT !.phase = "connecting", !.as = t, !.asks = token]
         IN /\ line \in Line /\ line.phase = "connecting" /\ line.as = t
            /\ UpdatesOn(line) = {} /\ Asked(line, P)
<1> DEFINE line == [NoLine EXCEPT !.phase = "connecting", !.as = t, !.asks = token]
<1>1. NoLine \in Line /\ t \in 0..MaxSessions
  BY FreshType DEF Sessions
<1>2. line \in Line
  BY <1>1 DEF Line
<1>3. /\ line.phase = "connecting" /\ line.as = t /\ line.down = <<>> /\ line.up = <<>>
      /\ line.topics = {} /\ line.restored = {}
  BY DEF NoLine
<1>4. UpdatesOn(line) = {}
  BY <1>3, UpdatesSame
<1>5. Asked(line, P)
  BY <1>3 DEF Asked
<1>6. QED
  BY <1>2, <1>3, <1>4, <1>5

\* The session dials when it has no line: of a sign-in, and of a timer.
LEMMA DialStep ==
  ASSUME FeedIInv, NEW t \in Sessions, NEW n \in LineIds, NEW token \in 0..MaxLines,
         NEW c \in Client, \A r \in LineIds : ~Using(r),
         \A r \in LineIds : lines[r].phase = "closing" => lines[r].as # t,
         \A u \in Sessions : u # t => clients[u].socket = 0 /\ ~clients[u].timer,
         lines' = [lines EXCEPT ![n] = [NoLine EXCEPT !.phase = "connecting", !.as = t,
                                                      !.asks = token]],
         clients' = [clients EXCEPT ![t] = c],
         c.socket = n, ~c.timer, ~c.manuallyClosed,
         c.subscriptions = TopicsOf(page), c.seen \subseteq 1..updates,
         session' = t, t <= MaxSessions - left'["sessions"],
         left' \in [Kinds -> Nat], left'["sessions"] <= left["sessions"],
         shownState' \in States,
         UNCHANGED <<page, subscriptionRef, reloads, seqs, snapshots, updates>>
  PROVE  FeedIInv'
<1> DEFINE line == [NoLine EXCEPT !.phase = "connecting", !.as = t, !.asks = token]
<1>1. /\ line \in Line /\ line.phase = "connecting" /\ line.as = t
      /\ UpdatesOn(line) = {} /\ Asked(line, page)
  BY DialledLine
<1>2. /\ lines' = [lines EXCEPT ![n] = line]
      /\ lines \in [LineIds -> Line] /\ clients \in [Sessions -> Client]
  BY DEF FeedIInv, Typed
<1> HIDE DEF line
<1>3. ASSUME NEW r \in LineIds
      PROVE  /\ r = n => lines'[r] = line
             /\ r # n => lines'[r] = lines[r]
  BY <1>2
<1>4. ASSUME NEW u \in Sessions
      PROVE  /\ u = t => clients'[u] = c
             /\ u # t => clients'[u] = clients[u]
  BY <1>2
<1>5. /\ t \in 0..MaxSessions /\ t # 0 /\ left["sessions"] \in Nat
      /\ left'["sessions"] \in Nat /\ left'["sessions"] <= MaxSessions
      /\ MaxSessions \in Nat
  <2>1. left["sessions"] \in Nat /\ left'["sessions"] \in Nat
    BY DEF FeedIInv, Typed, Kinds
  <2>2. left["sessions"] <= MaxSessions /\ MaxSessions \in Nat
    BY RealtimeClientAssumption DEF FeedIInv, Typed
  <2>3. t \in 0..MaxSessions /\ t # 0
    BY <2>2 DEF Sessions
  <2>4. QED
    BY <2>1, <2>2, <2>3
<1>6. Typed'
  <2>1. lines' \in [LineIds -> Line] /\ clients' \in [Sessions -> Client]
    BY <1>1, <1>2
  <2>2. QED
    BY <1>5, <2>1 DEF FeedIInv, Typed
<1>7. ASSUME NEW r \in LineIds
      PROVE  LineWired(r)'
  <2>1. LineWired(r) /\ ~Using(r)
    BY DEF FeedIInv, Wired
  <2>2. CASE r = n
    <3>1. lines'[r].phase = "connecting" /\ lines'[r].as = t /\ clients'[t] = c
      BY <1>1, <1>3, <1>4, <2>2
    <3>2. QED
      BY <1>5, <2>2, <3>1 DEF LineWired
  <2>3. CASE r # n
    <3>1. lines'[r] = lines[r] /\ ~Using(r)' /\ lines[r].phase # "open"
      BY <1>3, <2>1, <2>3 DEF Using
    <3>2. lines[r].as <= MaxSessions - left'["sessions"]
      <4>1. lines[r].as <= MaxSessions - left["sessions"]
        BY <2>1 DEF LineWired
      <4>2. lines[r].as \in Nat
        BY <1>2, <1>5 DEF Line
      <4>3. QED
        BY <1>5, <4>1, <4>2
    <3>3. lines[r].phase # "closed" => lines[r].as \in Sessions
      BY <2>1 DEF LineWired
    <3>4. lines[r].phase = "closing" =>
            lines[r].as # t /\ clients'[lines[r].as].manuallyClosed
      BY <1>4, <2>1, <3>3 DEF LineWired
    <3>5. QED
      BY <3>1, <3>2, <3>3, <3>4 DEF LineWired
  <2>4. QED
    BY <2>2, <2>3
<1>8. ASSUME NEW u \in Sessions
      PROVE  ClientWired(u)'
  <2>1. CASE u = t
    <3>1. clients'[u] = c /\ lines'[n].phase = "connecting" /\ lines'[n].as = t
      BY <1>1, <1>3, <1>4, <2>1
    <3>2. QED
      BY <2>1, <3>1 DEF ClientWired, Using
  <2>2. CASE u # t
    BY <1>4, <2>2 DEF ClientWired
  <2>3. QED
    BY <2>1, <2>2
<1>9. Wired'
  BY <1>4, <1>5, <1>7, <1>8 DEF Wired
<1>10. Reached'
  <2>1. \A r \in LineIds : Asked(lines'[r], page)
    BY <1>1, <1>3 DEF FeedIInv, Reached
  <2>2. QED
    BY <1>4, <2>1 DEF FeedIInv, Reached
<1>11. Counts'
  <2>1. ASSUME NEW r \in LineIds
        PROVE  /\ UpdatesOn(lines'[r]) \subseteq UpdatesOn(lines[r])
               /\ ~(Using(r)' /\ UpdatesOn(lines'[r]) # {})
    BY <1>1, <1>3 DEF Using
  <2>2. \A u \in Sessions : clients'[u].seen \subseteq 1..updates
    BY <1>4 DEF FeedIInv, Counts
  <2>3. reloads' <= reloads /\ updates' = updates
    BY DEF FeedIInv, Typed
  <2>4. QED
    BY <1>6, <2>1, <2>2, <2>3, CountsShrink DEF FeedIInv
<1>12. QED
  BY <1>6, <1>9, <1>10, <1>11 DEF FeedIInv
\* A timer is the session's, and runs while it has no line.
LEMMA TimerFiresStep ==
  ASSUME FeedIInv, NEW t \in Sessions, TimerFires(t)
  PROVE  FeedIInv'
<1>1. /\ clients \in [Sessions -> Client] /\ clients[t] \in Client /\ clients[t].timer
      /\ session' = session /\ page' = page /\ subscriptionRef' = subscriptionRef
      /\ reloads' = reloads
      /\ UNCHANGED <<page, subscriptionRef, reloads, seqs, snapshots, updates, left>>
      /\ left \in [Kinds -> Nat] /\ left["sessions"] \in Nat
  BY DEF FeedIInv, Typed, TimerFires, Kinds
<1>2. t = session /\ clients[t].socket = 0 /\ session # 0
  <2>1. ClientWired(t)
    BY DEF FeedIInv, Wired
  <2>2. t # 0
    BY DEF Sessions
  <2>3. QED
    BY <1>1, <2>1, <2>2 DEF ClientWired
<1>3. \A r \in LineIds : ~Using(r)
  <2> TAKE r \in LineIds
  <2>1. r # 0
    BY DEF LineIds
  <2>2. QED
    BY <1>2, <2>1, OneInUse
<1>4. /\ clients[t].subscriptions = TopicsOf(page) /\ clients[t].seen \subseteq 1..updates
      /\ ~clients[t].manuallyClosed
  BY <1>2 DEF FeedIInv, Reached, Counts, Wired
<1>5. CASE MayDial(clients[t])
  <2> DEFINE n == NextLine
             token == clients[t].reconnectToken
             c == [Dialling(clients[t], n) EXCEPT !.timer = FALSE]
  <2>1. /\ n \in LineIds
        /\ lines' = [lines EXCEPT ![n] = [NoLine EXCEPT !.phase = "connecting", !.as = t,
                                                        !.asks = token]]
        /\ clients' = [clients EXCEPT ![t] = c]
        /\ shownState' = clients'[t].state
    BY <1>1, <1>5 DEF TimerFires, Dial
  <2> HIDE DEF n
  <2>2. token \in 0..MaxLines /\ n \in 0..MaxLines
    BY <1>1, <2>1 DEF Client, LineIds
  <2>3. /\ c \in Client /\ c.socket = n /\ ~c.timer /\ ~c.manuallyClosed
        /\ c.subscriptions = clients[t].subscriptions /\ c.seen = clients[t].seen
        /\ c.state \in States
    BY <1>1, <2>2 DEF Dialling, Client, States
  <2> HIDE DEF c, token
  <2>4. shownState' \in States
    BY <1>1, <2>1, <2>3
  <2>5. \A r \in LineIds : lines[r].phase = "closing" => lines[r].as # t
    BY <1>2 DEF FeedIInv, Wired, LineWired
  <2>6. \A u \in Sessions : u # t => clients[u].socket = 0 /\ ~clients[u].timer
    BY <1>2 DEF FeedIInv, Wired, ClientWired
  <2>7. /\ t <= MaxSessions - left'["sessions"] /\ left' \in [Kinds -> Nat]
        /\ left'["sessions"] <= left["sessions"] /\ session' = t
    BY <1>1, <1>2 DEF FeedIInv, Wired
  <2>8. /\ c.subscriptions = TopicsOf(page) /\ c.seen \subseteq 1..updates
    BY <1>4, <2>3
  <2>9. QED
    BY <1>1, <1>3, <2>1, <2>2, <2>3, <2>4, <2>5, <2>6, <2>7, <2>8, DialStep
<1>6. CASE ~MayDial(clients[t])
  <2> DEFINE c == [clients[t] EXCEPT !.timer = FALSE]
  <2>1. clients' = [clients EXCEPT ![t] = c] /\ UNCHANGED <<lines, shownState>>
    BY <1>1, <1>6 DEF TimerFires
  <2>2. /\ c \in Client /\ c.socket = clients[t].socket /\ ~c.timer
        /\ c.manuallyClosed = clients[t].manuallyClosed /\ c.seen = clients[t].seen
        /\ c.subscriptions = clients[t].subscriptions /\ c.state = clients[t].state
    BY <1>1 DEF Client
  <2> HIDE DEF c
  <2>3. ASSUME NEW u \in Sessions
        PROVE  /\ u = t => clients'[u] = c
               /\ u # t => clients'[u] = clients[u]
    BY <1>1, <2>1
  <2>4. Typed'
    BY <1>1, <2>1, <2>2 DEF FeedIInv, Typed
  <2>5. \A r \in LineIds : Using(r)' <=> Using(r)
    BY <2>1 DEF Using
  <2>6. ASSUME NEW r \in LineIds
        PROVE  LineWired(r)'
    <3>1. LineWired(r) /\ ~Using(r) /\ lines[r].phase # "open"
      BY <1>3 DEF FeedIInv, Wired, Using
    <3>2. \A u \in Sessions : clients'[u].manuallyClosed = clients[u].manuallyClosed
      BY <2>2, <2>3
    <3>3. QED
      BY <1>1, <2>1, <2>5, <3>1, <3>2 DEF LineWired
  <2>7. ASSUME NEW u \in Sessions
        PROVE  ClientWired(u)'
    <3>1. ClientWired(u)
      BY DEF FeedIInv, Wired
    <3>2. CASE u = t
      BY <1>2, <2>2, <2>3, <3>2 DEF ClientWired
    <3>3. CASE u # t
      BY <1>1, <1>2, <2>3, <3>1, <3>3 DEF ClientWired
    <3>4. QED
      BY <3>2, <3>3
  <2>8. Wired'
    BY <1>1, <1>2, <1>4, <2>2, <2>3, <2>6, <2>7 DEF FeedIInv, Wired
  <2>9. Reached'
    BY <1>1, <1>2, <1>4, <2>1, <2>2, <2>3 DEF FeedIInv, Reached
  <2>10. Counts'
    <3>1. ASSUME NEW r \in LineIds
          PROVE  /\ UpdatesOn(lines'[r]) \subseteq UpdatesOn(lines[r])
                 /\ ~Using(r)'
      BY <1>3, <2>1, <2>5
    <3>2. \A u \in Sessions : clients'[u].seen \subseteq 1..updates
      BY <1>4, <2>2, <2>3 DEF FeedIInv, Counts
    <3>3. reloads' <= reloads /\ updates' = updates
      BY <1>1 DEF FeedIInv, Typed
    <3>4. QED
      BY <2>4, <3>1, <3>2, <3>3, CountsShrink DEF FeedIInv
  <2>11. QED
    BY <2>4, <2>8, <2>9, <2>10 DEF FeedIInv
<1>7. QED
  BY <1>5, <1>6

\* A sign-in dials for a client that no line and no timer knows.
LEMMA SignInStep ==
  ASSUME FeedIInv, SignIn
  PROVE  FeedIInv'
<1> DEFINE t == MaxSessions - left'["sessions"]
           n == NextLine
           c == Dialling(NewClient(subscriptionRef), n)
<1>1. /\ session = 0 /\ n \in LineIds /\ session' = t /\ Spend("sessions")
      /\ lines' = [lines EXCEPT ![n] = [NoLine EXCEPT !.phase = "connecting", !.as = t,
                                                      !.asks = 0]]
      /\ clients' = [clients EXCEPT ![t] = c]
      /\ shownState' = clients'[t].state
      /\ UNCHANGED <<page, subscriptionRef, reloads, seqs, snapshots, updates>>
  BY DEF SignIn, Dial, NewClient
<1>2. /\ left \in [Kinds -> Nat] /\ left["sessions"] \in Nat
      /\ left["sessions"] <= MaxSessions /\ MaxSessions \in Nat /\ MaxLines \in Nat
      /\ clients \in [Sessions -> Client]
  BY RealtimeClientAssumption DEF FeedIInv, Typed, Kinds
<1>3. /\ left["sessions"] > 0 /\ left' \in [Kinds -> Nat]
      /\ left'["sessions"] = left["sessions"] - 1
  BY <1>1, <1>2 DEF Spend, Kinds
<1>4. t \in Sessions /\ t > MaxSessions - left["sessions"] /\ t <= MaxSessions - left'["sessions"]
  BY <1>2, <1>3 DEF Sessions
<1> HIDE DEF t, n
<1>5. \A r \in LineIds : ~Using(r)
  BY <1>1 DEF FeedIInv, Wired, LineWired
<1>6. ASSUME NEW r \in LineIds, lines[r].phase = "closing"
      PROVE  lines[r].as # t
  <2>1. lines[r].as <= MaxSessions - left["sessions"] /\ lines[r].as \in Sessions
    BY <1>6 DEF FeedIInv, Wired, LineWired
  <2>2. QED
    BY <1>2, <1>4, <2>1 DEF Sessions
<1>7. \A u \in Sessions : clients[u].socket = 0 /\ ~clients[u].timer
  BY <1>1 DEF FeedIInv, Wired, ClientWired, Sessions
<1>8. subscriptionRef = TopicsOf(page) /\ subscriptionRef \in SUBSET Topics
  BY TopicsOfPage DEF FeedIInv, Reached, Typed
<1>9. n \in 0..MaxLines /\ 0 \in 0..MaxLines
  BY <1>1, <1>2 DEF LineIds
<1>10. /\ c \in Client /\ c.socket = n /\ ~c.timer /\ ~c.manuallyClosed
       /\ c.subscriptions = subscriptionRef /\ c.seen = {} /\ c.state \in States
  <2>1. NewClient(subscriptionRef) \in Client
    BY <1>8, FreshType
  <2>2. c \in Client
    BY <1>9, <2>1 DEF Dialling, Client, States
  <2>3. /\ c.socket = n /\ ~c.timer /\ ~c.manuallyClosed
        /\ c.subscriptions = subscriptionRef /\ c.seen = {}
    BY DEF Dialling, NewClient
  <2>4. QED
    BY <2>2, <2>3 DEF Client
<1> HIDE DEF c
<1>11. shownState' \in States
  BY <1>1, <1>2, <1>4, <1>10
<1>12. left'["sessions"] <= left["sessions"]
  BY <1>2, <1>3
<1>13. c.subscriptions = TopicsOf(page) /\ c.seen \subseteq 1..updates
  BY <1>8, <1>10
<1>14. QED
  BY <1>1, <1>3, <1>4, <1>5, <1>6, <1>7, <1>9, <1>10, <1>11, <1>12, <1>13, DialStep

\* A sign-out closes the one line in use, and its client for good.
LEMMA SignOutStep ==
  ASSUME FeedIInv, SignOut
  PROVE  FeedIInv'
<1> DEFINE t == session
           c == Disconnected(clients[t])
<1>1. /\ lines \in [LineIds -> Line] /\ clients \in [Sessions -> Client]
      /\ session' = 0 /\ page' = page /\ subscriptionRef' = subscriptionRef
      /\ shownState' = "disconnected" /\ reloads' = reloads
      /\ UNCHANGED <<seqs, snapshots, updates, left>>
      /\ clients' = [clients EXCEPT ![t] = c]
      /\ lines' = [s \in LineIds |->
                     IF s = clients[t].socket
                     THEN [lines[s] EXCEPT !.phase = "closing", !.down = <<>>] ELSE lines[s]]
  BY DEF FeedIInv, Typed, SignOut
<1>2. t \in Sessions /\ t # 0 /\ 0 \in 0..MaxSessions
  <2>1. session # 0 /\ session \in 0..MaxSessions /\ MaxSessions \in Nat
    BY RealtimeClientAssumption DEF SignOut, FeedIInv, Typed
  <2>2. QED
    BY <2>1 DEF Sessions
<1>3. /\ c \in Client /\ c.socket = 0 /\ ~c.timer /\ c.manuallyClosed /\ c.seen = {}
  <2>1. clients[t].subscriptions \in SUBSET Topics
    BY <1>1, <1>2 DEF Client
  <2>2. NewClient(clients[t].subscriptions) \in Client
    BY <2>1, FreshType
  <2>3. c \in Client
    BY <2>2 DEF Disconnected, Client
  <2>4. QED
    BY <2>3 DEF Disconnected, NewClient
<1> HIDE DEF c
<1>4. ASSUME NEW u \in Sessions
      PROVE  /\ u = t => clients'[u] = c
             /\ u # t => clients'[u] = clients[u]
  BY <1>1
<1>5. ASSUME NEW r \in LineIds
      PROVE  /\ lines'[r] \in Line /\ lines'[r].as = lines[r].as
             /\ UpdatesOn(lines'[r]) \subseteq UpdatesOn(lines[r])
             /\ r = clients[t].socket => lines'[r].phase = "closing"
             /\ r # clients[t].socket => lines'[r] = lines[r]
  <2> DEFINE line == [lines[r] EXCEPT !.phase = "closing", !.down = <<>>]
  <2>1. lines[r] \in Line /\ <<>> \in Seq(Frame)
    BY DEF FeedIInv, Typed
  <2>2. /\ line \in Line /\ line.phase = "closing" /\ line.as = lines[r].as
        /\ line.down = <<>>
    BY <2>1 DEF Line
  <2> HIDE DEF line
  <2>3. /\ r = clients[t].socket => lines'[r] = line
        /\ r # clients[t].socket => lines'[r] = lines[r]
    BY <1>1 DEF line
  <2>4. UpdatesOn(line) = {}
    BY <2>2, UpdatesSame
  <2>5. QED
    BY <2>1, <2>2, <2>3, <2>4
<1>6. ASSUME NEW r \in LineIds
      PROVE  ~Using(r)'
  <2>1. Using(r) => r = clients[t].socket
    BY OneInUse
  <2>2. QED
    BY <1>5, <2>1 DEF Using
<1>7. Typed'
  <2>1. lines' \in [LineIds -> Line] /\ clients' \in [Sessions -> Client]
    BY <1>1, <1>2, <1>3, <1>5
  <2>2. QED
    BY <1>1, <1>2, <2>1 DEF FeedIInv, Typed, States
<1>8. ASSUME NEW r \in LineIds
      PROVE  LineWired(r)'
  <2>1. LineWired(r)
    BY DEF FeedIInv, Wired
  <2>2. lines'[r].phase # "open" /\ ~Using(r)'
    BY <1>6 DEF Using
  <2>3. CASE r = clients[t].socket
    <3>1. lines[r].as = t
      <4>1. ClientWired(t) /\ r # 0
        BY <1>2 DEF FeedIInv, Wired, LineIds
      <4>2. QED
        BY <2>3, <4>1 DEF ClientWired
    <3>2. QED
      BY <1>1, <1>2, <1>3, <1>4, <1>5, <2>1, <2>2, <3>1 DEF LineWired
  <2>4. CASE r # clients[t].socket
    <3>1. lines'[r] = lines[r]
      BY <1>5, <2>4
    <3>2. lines[r].phase # "closed" => lines[r].as \in Sessions /\ lines[r].as # 0
      BY <2>1 DEF LineWired, Sessions
    <3>3. lines[r].phase = "closing" => clients'[lines[r].as].manuallyClosed
      BY <1>3, <1>4, <2>1, <3>2 DEF LineWired
    <3>4. QED
      BY <1>1, <2>1, <2>2, <3>1, <3>2, <3>3 DEF LineWired
  <2>5. QED
    BY <2>3, <2>4
<1>9. ASSUME NEW u \in Sessions
      PROVE  ClientWired(u)'
  <2>1. clients'[u].socket = 0 /\ ~clients'[u].timer
    BY <1>3, <1>4 DEF FeedIInv, Wired, ClientWired
  <2>2. QED
    BY <2>1 DEF ClientWired
<1>10. Wired'
  <2>1. left["sessions"] \in Nat /\ left["sessions"] <= MaxSessions /\ MaxSessions \in Nat
    BY RealtimeClientAssumption DEF FeedIInv, Typed, Kinds
  <2>2. session' = 0 /\ left' = left
    BY <1>1
  <2>3. session' <= MaxSessions - left'["sessions"]
    BY <2>1, <2>2
  <2>4. QED
    BY <1>8, <1>9, <2>2, <2>3 DEF Wired
<1>11. Reached'
  <2>1. ASSUME NEW r \in LineIds
        PROVE  Asked(lines'[r], page)
    BY <1>6 DEF Asked, Using
  <2>2. QED
    BY <1>1, <2>1 DEF FeedIInv, Reached
<1>12. Counts'
  <2>1. \A u \in Sessions : clients'[u].seen \subseteq 1..updates
    BY <1>3, <1>4 DEF FeedIInv, Counts
  <2>2. reloads' <= reloads /\ updates' = updates
    <3>1. reloads' = reloads /\ updates' = updates
      BY <1>1
    <3>2. QED
      BY <3>1 DEF FeedIInv, Typed
  <2>3. QED
    BY <1>5, <1>6, <1>7, <2>1, <2>2, CountsShrink DEF FeedIInv
<1>13. QED
  BY <1>7, <1>10, <1>11, <1>12 DEF FeedIInv
\* A page that comes to be shown asks for its topic on the line that is open; on one
\* that is not, the hooks keep it for later.
LEMMA ResubscribeStep ==
  ASSUME FeedIInv, page' \in Topics \cup {"away"},
         Resubscribe(TopicsOf(page), TopicsOf(page')),
         left' \in [Kinds -> Nat], left'["sessions"] = left["sessions"],
         reloads' \in Nat, reloads' <= reloads,
         UNCHANGED <<session, shownState, seqs, snapshots, updates>>
  PROVE  FeedIInv'
<1> DEFINE s == clients[session].socket
           fs == Frames("unsubscribe", TopicsOf(page)) \o Frames("subscribe", TopicsOf(page'))
           c == [clients[session] EXCEPT !.subscriptions = TopicsOf(page')]
<1>1. /\ lines \in [LineIds -> Line] /\ clients \in [Sessions -> Client]
      /\ page \in Topics \cup {"away"} /\ session' = session
      /\ session # 0 => session \in Sessions
  BY RealtimeClientAssumption DEF FeedIInv, Typed, Sessions
<1>2. TopicsOf(page') \in SUBSET Topics
  BY TopicsOfPage
<1>3. /\ subscriptionRef' = TopicsOf(page')
      /\ session = 0 => clients' = clients /\ lines' = lines
      /\ session # 0 =>
           /\ clients' = [clients EXCEPT ![session] = c]
           /\ lines' = IF clients[session].state = "connected" THEN Send(lines, s, fs)
                       ELSE lines
  <2>1. subscriptionRef = TopicsOf(page)
    BY DEF FeedIInv, Reached
  <2>2. session # 0 => clients[session].subscriptions = TopicsOf(page)
    BY DEF FeedIInv, Reached
  <2>3. session # 0 =>
          [clients EXCEPT ![session].subscriptions = (@ \ TopicsOf(page)) \cup TopicsOf(page')]
            = [clients EXCEPT ![session] = c]
    BY <1>1, <2>2 DEF Client
  <2> HIDE DEF c
  <2>4. QED
    BY <2>1, <2>3 DEF Resubscribe
<1> HIDE DEF s
<1>4. session # 0 => /\ c \in Client /\ SameConnection(clients[session], c)
                     /\ c.subscriptions = TopicsOf(page') /\ c.seen = clients[session].seen
  BY <1>1, <1>2 DEF Client, SameConnection
<1> HIDE DEF c
<1>5. ASSUME NEW t \in Sessions
      PROVE  /\ SameConnection(clients[t], clients'[t]) /\ clients'[t] \in Client
             /\ clients'[t].seen = clients[t].seen
             /\ t = session /\ session # 0 => clients'[t].subscriptions = TopicsOf(page')
  <2>1. CASE session = 0
    BY <1>1, <1>3, <2>1 DEF SameConnection
  <2>2. CASE session # 0
    <3>1. clients' = [clients EXCEPT ![session] = c]
      BY <1>3, <2>2
    <3>2. CASE t = session
      BY <1>1, <1>4, <2>2, <3>1, <3>2
    <3>3. CASE t # session
      BY <1>1, <3>1, <3>3 DEF SameConnection
    <3>4. QED
      BY <3>2, <3>3
  <2>3. QED
    BY <2>1, <2>2
<1>6. fs \in Seq(UpFrame)
  BY <1>1, FramesOfPage, ConcatProperties
<1>7. ASSUME NEW r \in LineIds
      PROVE  /\ lines'[r] \in Line /\ lines'[r].phase = lines[r].phase
             /\ lines'[r].as = lines[r].as /\ lines'[r].down = lines[r].down
             /\ Asked(lines'[r], page')
  <2> DEFINE line == [lines[r] EXCEPT !.up = @ \o fs]
             usable == lines[r].phase = "open" /\ ~lines[r].broken
  <2>1. lines[r] \in Line /\ Asked(lines[r], page)
    BY <1>1 DEF FeedIInv, Reached
  <2>2. CASE usable
    <3>1. Using(r)
      BY <2>2 DEF Using
    <3>2. session # 0 /\ r = s /\ clients[session].state = "connected"
      BY <2>2, <3>1, OneInUse DEF FeedIInv, Wired, LineWired, s, Sessions
    <3> HIDE DEF fs
    <3>3. lines'[r] = line
      BY <1>3, <2>2, <3>2 DEF Send
    <3>4. lines[r].up \o fs \in Seq(UpFrame)
      <4>1. lines[r].up \in Seq(UpFrame)
        BY <2>1 DEF Line
      <4>2. QED
        BY <1>6, <4>1, ConcatProperties
    <3>5. /\ line \in Line /\ line.phase = lines[r].phase /\ line.as = lines[r].as
          /\ line.down = lines[r].down /\ line.topics = lines[r].topics
          /\ line.restored = lines[r].restored /\ line.up = lines[r].up \o fs
      BY <2>1, <3>4 DEF Line
    <3> HIDE DEF line
    <3>6. Asked(line, page')
      BY <1>1, <2>1, <2>2, <3>5, AskedAgain DEF fs
    <3>7. QED
      BY <3>3, <3>5, <3>6
  <2>3. CASE ~usable
    <3> HIDE DEF fs
    <3>1. lines'[r] = lines[r]
      BY <1>3, <2>3 DEF Send
    <3>2. Asked(lines[r], page')
      BY <2>1, <2>3 DEF Asked
    <3>3. QED
      BY <2>1, <3>1, <3>2
  <2>4. QED
    BY <2>2, <2>3
<1>8. Typed'
  <2>1. lines' \in [LineIds -> Line]
    <3>1. lines' = [r \in LineIds |-> lines'[r]]
      BY <1>1, <1>3 DEF Send
    <3>2. QED
      BY <1>7, <3>1
  <2>2. clients' \in [Sessions -> Client]
    BY <1>1, <1>3, <1>4
  <2>3. QED
    BY <2>1, <2>2 DEF FeedIInv, Typed
<1>9. Wired'
  BY <1>1, <1>5, <1>7, WiredSame DEF FeedIInv
<1>10. Reached'
  BY <1>1, <1>3, <1>5, <1>7 DEF Reached
<1>11. Counts'
  <2>1. ASSUME NEW r \in LineIds
        PROVE  /\ UpdatesOn(lines'[r]) \subseteq UpdatesOn(lines[r])
               /\ Using(r)' => Using(r) /\ clients[session].seen \subseteq clients'[session'].seen
    <3>1. Using(r)' => Using(r)
      BY <1>7 DEF Using
    <3>2. Using(r) => session \in Sessions
      BY OneInUse
    <3>3. UpdatesOn(lines'[r]) = UpdatesOn(lines[r])
      BY <1>7, UpdatesSame
    <3>4. QED
      BY <1>1, <1>5, <3>1, <3>2, <3>3
  <2>2. \A t \in Sessions : clients'[t].seen \subseteq 1..updates
    BY <1>5 DEF FeedIInv, Counts
  <2>3. updates' = updates
    OBVIOUS
  <2>4. QED
    BY <1>8, <2>1, <2>2, <2>3, CountsShrink DEF FeedIInv
<1>12. QED
  BY <1>8, <1>9, <1>10, <1>11 DEF FeedIInv

\* A visit or a render asks again for what the page wants.
LEMMA PagesStep ==
  ASSUME FeedIInv, Render \/ \E q \in Topics \cup {"away"} : Visit(q)
  PROVE  FeedIInv'
<1>1. left \in [Kinds -> Nat] /\ reloads \in Nat /\ page \in Topics \cup {"away"}
  BY DEF FeedIInv, Typed
<1>2. CASE Render
  <2>1. /\ Spend("renders") /\ page' = page /\ reloads' = reloads
        /\ Resubscribe(TopicsOf(page), TopicsOf(page))
        /\ UNCHANGED <<session, shownState, seqs, snapshots, updates>>
    BY <1>2 DEF Render
  <2>2. left' \in [Kinds -> Nat] /\ left'["sessions"] = left["sessions"]
    BY <1>1, <2>1 DEF Spend, Kinds
  <2>3. reloads' <= reloads
    BY <1>1, <2>1
  <2>4. QED
    BY <1>1, <2>1, <2>2, <2>3, ResubscribeStep
<1>3. CASE \E q \in Topics \cup {"away"} : Visit(q)
  <2>1. PICK q \in Topics \cup {"away"} : Visit(q)
    BY <1>3
  <2>2. /\ Spend("visits") /\ page' = q /\ reloads' = 0
        /\ Resubscribe(TopicsOf(page), TopicsOf(page'))
        /\ UNCHANGED <<session, shownState, seqs, snapshots, updates>>
    BY <2>1 DEF Visit
  <2>3. left' \in [Kinds -> Nat] /\ left'["sessions"] = left["sessions"]
    BY <1>1, <2>2 DEF Spend, Kinds
  <2>4. reloads' <= reloads /\ reloads' \in Nat
    BY <1>1, <2>2
  <2>5. QED
    BY <2>1, <2>2, <2>3, <2>4, ResubscribeStep
<1>4. QED
  BY <1>2, <1>3

-----------------------------------------------------------------------------
(***************************************************************************)
(* The theorems.                                                           *)
(***************************************************************************)
LEMMA FeedNextIInv == FeedIInv /\ [FeedNext]_feedVars => FeedIInv'
<1> SUFFICES ASSUME FeedIInv, [FeedNext]_feedVars PROVE FeedIInv'
  OBVIOUS
<1>1. CASE \E p \in Posts : Publish(p)
  BY <1>1, PublishStep
<1>2. ASSUME NEW s \in LineIds,
             \/ Upgrade(s) \/ ServerTakes(s) \/ ServerNotices(s) \/ Break(s)
             \/ OnOpen(s) \/ OnClose(s) \/ OnMessage(s)
      PROVE  FeedIInv'
  BY <1>2, UpgradeStep, ServerTakesStep, ServerNoticesStep, BreakStep, OnOpenStep,
     OnCloseStep, OnMessageStep
<1>3. CASE \E t \in Sessions : TimerFires(t)
  BY <1>3, TimerFiresStep
<1>4. CASE Render \/ \E q \in Topics \cup {"away"} : Visit(q)
  BY <1>4, PagesStep
<1>5. CASE Restart \/ SignIn \/ SignOut
  BY <1>5, RestartStep, SignInStep, SignOutStep
<1>6. CASE UNCHANGED feedVars
  <2>1. /\ UNCHANGED <<clientVars, updates>> /\ lines' = lines /\ left' = left
        /\ seqs' = seqs /\ snapshots' = snapshots
    BY <1>6 DEF feedVars
  <2>2. Typed'
    BY <2>1 DEF FeedIInv, Typed, clientVars
  <2>3. \A s \in LineIds : Asked(lines'[s], page)
    BY <2>1 DEF FeedIInv, Reached
  <2>4. QED
    BY <2>1, <2>2, <2>3, ServerStep
<1>7. QED
  BY <1>1, <1>2, <1>3, <1>4, <1>5, <1>6 DEF FeedNext

\* The invariant gives everything its type.
LEMMA FeedIInvTypes ==
  ASSUME FeedIInv
  PROVE  FeedTypeOK
<1>1. reloads \in 0..updates
  BY PendingFinite DEF FeedIInv, Typed, Counts
<1>2. subscriptionRef \subseteq Topics
  BY TopicsOfPage DEF FeedIInv, Typed, Reached
<1>3. \A t \in Sessions : clients[t] \in Client /\ clients[t].seen \subseteq 1..updates
  BY DEF FeedIInv, Typed, Counts
<1>4. \A s \in LineIds : lines[s] \in Line
  BY DEF FeedIInv, Typed
<1>5. QED
  BY <1>1, <1>2, <1>3, <1>4 DEF FeedTypeOK, FeedIInv, Typed, Client, Line

\* What is known of the lines, of the clients and of what was asked holds always.
THEOREM FeedInvariance == FeedSpec => []FeedIInv
<1>1. QED
  BY FeedInitIInv, FeedNextIInv, PTL DEF FeedSpec

\* Everything has its type, and a page loads no more often than updates were
\* published: an update that came by two topics makes it load once.
THEOREM FeedTypes == FeedSpec => []FeedTypeOK
<1>1. FeedIInv => FeedTypeOK
  BY FeedIInvTypes
<1>2. QED
  BY <1>1, FeedInvariance, PTL

\* A tab has no line but one of the session on its page, and none when signed out:
\* no timer or late onclose of an earlier session dials or keeps another.
THEOREM OneLine == FeedSpec => []OneLineOfTheSession
<1>1. FeedIInv => OneLineOfTheSession
  BY DEF FeedIInv, Wired, LineWired, ClientWired, Using, OneLineOfTheSession, Sessions
<1>2. QED
  BY <1>1, FeedInvariance, PTL

\* Through any renders, visits, breaks, restored snapshots and reconnects, the server
\* sends on a line that has delivered what the client asked for what the page wants,
\* and besides it only what the server itself restored.
THEOREM PagesAreServed == FeedSpec => []SubscriptionsReach
<1>1. FeedIInv => SubscriptionsReach
  <2> SUFFICES ASSUME FeedIInv, NEW s \in LineIds, lines[s].phase = "open",
                      ~lines[s].broken, lines[s].up = <<>>
               PROVE  /\ TopicsOf(page) \subseteq lines[s].topics
                      /\ lines[s].topics \subseteq TopicsOf(page) \cup lines[s].restored
    BY DEF SubscriptionsReach
  <2>1. /\ lines[s] \in Line /\ page \in Topics \cup {"away"} /\ Asked(lines[s], page)
    BY DEF FeedIInv, Typed, Reached
  <2>2. QED
    BY <2>1, AskedAndTaken
<1>2. QED
  BY <1>1, FeedInvariance, PTL
=============================================================================
