------------------------------- MODULE WebProofs -------------------------------
(***************************************************************************)
(* Paging: for any types, numbers of posts, sizes of a page, requests and        *)
(* failures, no post of the list is lost or shown twice, but for the posts of       *)
(* one millisecond.  And the parts of the web app together: each keeps its            *)
(* invariant while the others take steps.                                             *)
(***************************************************************************)
EXTENDS MCWeb, RealtimeClientProofs, WebSessionProofs, SequenceTheorems,
  FiniteSetTheorems, TLAPS

Cursor == [at: Nat, row: Nat]
Page == [items: Seq(Nat), nextCursor: Cursor]
Requested ==
  [number: Nat, op: {"first", "more", "create"}, filter: Filters, cursor: Cursor,
   stage: {"sent", "answered"}, answer: Page, asOf: Nat]

History ==
  [sent: Nat, fails: Nat, asOf: Nat, filter: Filters, edges: SUBSET Nat, own: SUBSET Nat,
   tangled: BOOLEAN]

ListTyped ==
  /\ rows \in Seq([type: Types, at: Nat])
  /\ view \in [posts: Seq(Nat), nextCursor: Cursor, filter: Filters, error: BOOLEAN]
  /\ requests \subseteq Requested
  /\ history \in History

\* Posts are numbered in the order of their creation.
Ascending == \A i, j \in Ids : i < j => rows[i].at < rows[j].at

\* A cursor is none, or that of a row.
IsCursor(cursor) == cursor = NoCursor \/ (cursor.row \in Ids /\ cursor = CursorOf(cursor.row))

\* What an answer to (filter, cursor) from the first asOf rows was made of: rows that
\* were asked for, each once, and all of those down to its last.
IsPage(part, filter, cursor, asOf) ==
  /\ IsInjective(part.items)
  /\ \A i \in Range(part.items) :
       i \in 1..asOf /\ Matches(i, filter) /\ After(i, cursor)
  /\ \A i \in 1..asOf : Matches(i, filter) /\ After(i, cursor) =>
       i \in Range(part.items) \/ (part.nextCursor # NoCursor /\ i < part.nextCursor.row)
  /\ part.nextCursor # NoCursor =>
       /\ part.items # <<>>
       /\ part.nextCursor = CursorOf(Last(part.items))
       /\ \A i \in Range(part.items) : Last(part.items) <= i

\* What was answered to r: the row it made, or a page.
AnswerStands(r) ==
  /\ r.op = "create" => \E i \in Ids : r.answer.items = <<i>>
  /\ r.op # "create" => IsPage(r.answer, r.filter, r.cursor, r.asOf)

Sound(r) ==
  /\ IsCursor(r.cursor)
  /\ r.op = "first" => r.cursor = NoCursor
  /\ r.op = "create" => r.filter \in Types
  /\ r.asOf <= Len(rows)
  /\ Range(r.answer.items) \subseteq Ids
  /\ r.stage = "answered" => AnswerStands(r)

\* What is on the page or on its way to it speaks of rows there are.
Standing ==
  /\ history.asOf <= Len(rows)
  /\ history.edges \subseteq Ids /\ history.own \subseteq Ids
  /\ Range(view.posts) \subseteq Ids
  /\ IsCursor(view.nextCursor)
  /\ \A r \in requests : Sound(r)

\* What r adds fits the end, or the top, of the list on the page.
Fits(r) ==
  /\ r.op = "more" =>
       /\ r.filter = history.filter
       /\ r.cursor = view.nextCursor /\ r.cursor # NoCursor
       /\ r.stage = "answered" => history.asOf <= r.asOf
  /\ r.op = "create" /\ r.stage = "answered" =>
       /\ Head(r.answer.items) \notin Range(view.posts)
       /\ Head(r.answer.items) > view.nextCursor.row

\* Down to which row the list on the page has been asked for.
ReachedRow == IF view.nextCursor = NoCursor THEN 1 ELSE view.nextCursor.row

\* PagesCoverTheList, while a request is out as well; and the list ends with the row of
\* its cursor, the edge of its last answer.
Covered ==
  /\ IsInjective(view.posts)
  /\ \A i \in Range(view.posts) : Matches(i, history.filter) \/ i \in history.own
  /\ \A i \in ReachedRow..history.asOf :
       Matches(i, history.filter) /\ i \notin Range(view.posts) =>
         \E e \in history.edges : i < e /\ Cut(rows[i].at) = Cut(rows[e].at)
  /\ view.nextCursor # NoCursor =>
       /\ view.nextCursor.row \in history.edges
       /\ \A i \in Range(view.posts) : view.nextCursor.row <= i

Straight ==
  ~history.tangled =>
    /\ \A q, r \in requests : q = r
    /\ \A r \in requests : Fits(r)
    /\ Covered

ListIInv == ListTyped /\ Ascending /\ Standing /\ Straight

-----------------------------------------------------------------------------
(***************************************************************************)
(* Milliseconds.                                                           *)
(***************************************************************************)
\* A date is not later than the microsecond it was cut from, and every microsecond
\* between the two is cut to it.
LEMMA CutProperties ==
  ASSUME NEW b \in Nat
  PROVE  /\ Cut(b) \in Nat /\ Cut(b) <= b
         /\ \A a \in Nat : a <= b /\ Cut(b) <= a => Cut(a) = Cut(b)
<1> DEFINE q == b \div Grain
<1>1. Grain \in Nat /\ Grain > 0
  BY ContributionListAssumption
<1>2. q \in Nat /\ q * Grain <= b /\ b < (q + 1) * Grain
  BY <1>1
<1>3. Cut(b) = q * Grain
  BY DEF Cut
<1>4. q * Grain \in Nat
  BY <1>1, <1>2
<1>5. ASSUME NEW a \in Nat, a <= b, q * Grain <= a PROVE a \div Grain = q
  <2>1. a < (q + 1) * Grain
    BY <1>1, <1>2, <1>5
  <2>2. QED
    BY <1>1, <1>2, <1>5, <2>1
<1>6. QED
  BY <1>2, <1>3, <1>4, <1>5 DEF Cut
-----------------------------------------------------------------------------
(***************************************************************************)
(* The query.                                                              *)
(***************************************************************************)
Rank(i, found) == Cardinality({j \in found : j > i})

\* Of finitely many rows, every number below their own is the rank of one of them.
LEMMA Ranks ==
  ASSUME NEW found, IsFiniteSet(found), found \subseteq Nat
  PROVE  /\ Cardinality(found) \in Nat
         /\ \A i \in found : Rank(i, found) \in 0..(Cardinality(found) - 1)
         /\ \A i, j \in found : i < j => Rank(j, found) < Rank(i, found)
         /\ \A k \in 0..(Cardinality(found) - 1) : \E i \in found : Rank(i, found) = k
<1> DEFINE above(i) == {j \in found : j > i}
           size == Cardinality(found)
           rank == [i \in found |-> Cardinality(above(i))]
<1>1. size \in Nat
  BY FS_CardinalityType
<1>2. ASSUME NEW i \in found
      PROVE  /\ IsFiniteSet(above(i)) /\ Cardinality(above(i)) \in Nat
             /\ Cardinality(above(i)) < size
  <2>1. above(i) \in SUBSET found /\ above(i) # found
    OBVIOUS
  <2>2. IsFiniteSet(above(i)) /\ Cardinality(above(i)) <= size
        /\ Cardinality(above(i)) # size
    BY <2>1, FS_Subset
  <2>3. Cardinality(above(i)) \in Nat
    BY <2>2, FS_CardinalityType
  <2>4. QED
    BY <1>1, <2>2, <2>3
<1>3. ASSUME NEW i \in found, NEW j \in found, i < j
      PROVE  Cardinality(above(j)) < Cardinality(above(i))
  <2>1. above(j) \in SUBSET above(i) /\ above(j) # above(i)
    <3>1. i \in Nat /\ j \in Nat /\ \A k \in found : k \in Nat
      OBVIOUS
    <3>2. \A k \in found : k > j => k > i
      BY <1>3, <3>1
    <3>3. j \in above(i) /\ j \notin above(j)
      BY <1>3, <3>1
    <3>4. QED
      BY <3>2, <3>3
  <2>2. IsFiniteSet(above(i))
    BY <1>2
  <2>3. Cardinality(above(j)) <= Cardinality(above(i))
        /\ Cardinality(above(j)) # Cardinality(above(i))
    BY <2>1, <2>2, FS_Subset
  <2>4. QED
    BY <1>2, <2>3
<1>4. rank \in [found -> 0..(size - 1)]
  <2> HIDE DEF above, size
  <2>1. QED
    BY <1>1, <1>2
<1>5. rank \in Injection(found, 0..(size - 1))
  <2>1. ASSUME NEW i \in found, NEW j \in found, rank[i] = rank[j] PROVE i = j
    <3> HIDE DEF above, size
    <3>1. i \in Nat /\ j \in Nat
      OBVIOUS
    <3>2. rank[i] = Cardinality(above(i)) /\ rank[j] = Cardinality(above(j))
      OBVIOUS
    <3>3. Cardinality(above(i)) \in Nat /\ Cardinality(above(j)) \in Nat
      BY <1>2
    <3>4. QED
      BY <1>3, <2>1, <3>1, <3>2, <3>3
  <2> HIDE DEF rank
  <2>2. QED
    BY <1>4, <2>1 DEF Injection, IsInjective
<1>6. IsFiniteSet(0..(size - 1)) /\ Cardinality(0..(size - 1)) = size
  <2> HIDE DEF size
  <2>1. 0 \in Int /\ size - 1 \in Int
    BY <1>1
  <2>2. /\ IsFiniteSet(0..(size - 1))
        /\ Cardinality(0..(size - 1)) =
             IF 0 > size - 1 THEN 0 ELSE (size - 1) - 0 + 1
    BY <2>1, FS_Interval
  <2>3. QED
    BY <1>1, <2>2
<1>7. rank \in Surjection(found, 0..(size - 1))
  <2> HIDE DEF rank
  <2>1. QED
    BY <1>5, <1>6, FS_Injection
<1>8. \A k \in 0..(size - 1) : \E i \in found : rank[i] = k
  <2> HIDE DEF rank
  <2>1. QED
    BY <1>7 DEF Surjection
<1>9. \A i \in found : Rank(i, found) = rank[i]
  BY DEF Rank
<1>10. \A i \in found : Rank(i, found) = Cardinality(above(i))
  BY DEF Rank
<1> HIDE DEF rank, above, size
<1>11. /\ \A i \in found : Rank(i, found) \in 0..(size - 1)
       /\ \A i, j \in found : i < j => Rank(j, found) < Rank(i, found)
       /\ \A k \in 0..(size - 1) : \E i \in found : Rank(i, found) = k
  BY <1>3, <1>4, <1>8, <1>9, <1>10
<1>12. QED
  BY <1>1, <1>11 DEF size

\* Newest lists the n highest of the rows it is given, from the highest down.
LEMMA NewestProperties ==
  ASSUME NEW found, IsFiniteSet(found), found \subseteq Nat,
         NEW n \in Nat, n <= Cardinality(found)
  PROVE  /\ Newest(found, n) \in [1..n -> found]
         /\ \A k, l \in 1..n : k < l => Newest(found, n)[l] < Newest(found, n)[k]
         /\ \A i \in found \ Range(Newest(found, n)) :
              \A k \in 1..n : i < Newest(found, n)[k]
<1> DEFINE items == Newest(found, n)
           size == Cardinality(found)
<1>1. /\ size \in Nat
      /\ \A i \in found : Rank(i, found) \in 0..(size - 1)
      /\ \A i, j \in found : i < j => Rank(j, found) < Rank(i, found)
      /\ \A k \in 0..(size - 1) : \E i \in found : Rank(i, found) = k
  BY Ranks
<1>2. items = [k \in 1..n |-> CHOOSE i \in found : Rank(i, found) = k - 1]
  BY DEF Newest, Rank
<1>3. n <= size
  OBVIOUS
<1> HIDE DEF items, size
<1>4. ASSUME NEW k \in 1..n PROVE items[k] \in found /\ Rank(items[k], found) = k - 1
  <2>1. k - 1 \in 0..(size - 1)
    BY <1>1, <1>3
  <2>2. \E i \in found : Rank(i, found) = k - 1
    BY <1>1, <2>1
  <2>3. items[k] = CHOOSE i \in found : Rank(i, found) = k - 1
    BY <1>2
  <2>4. QED
    BY <2>2, <2>3
<1>5. items \in [1..n -> found]
  BY <1>2, <1>4
<1>6. \A i, j \in found : Rank(i, found) < Rank(j, found) => j < i
  <2> SUFFICES ASSUME NEW i \in found, NEW j \in found, Rank(i, found) < Rank(j, found)
               PROVE  j < i
    OBVIOUS
  <2>1. i \in Nat /\ j \in Nat
    OBVIOUS
  <2>2. Rank(i, found) \in Int /\ Rank(j, found) \in Int
    BY <1>1
  <2>3. i # j
    BY <2>2
  <2>4. i < j => Rank(j, found) < Rank(i, found)
    BY <1>1
  <2>5. QED
    BY <2>1, <2>2, <2>3, <2>4
<1>7. \A k, l \in 1..n : k < l => items[l] < items[k]
  <2> SUFFICES ASSUME NEW k \in 1..n, NEW l \in 1..n, k < l PROVE items[l] < items[k]
    OBVIOUS
  <2>1. Rank(items[k], found) < Rank(items[l], found)
    BY <1>4
  <2>2. QED
    BY <1>4, <1>6, <2>1
<1>8. ASSUME NEW i \in found \ Range(items), NEW k \in 1..n PROVE i < items[k]
  <2>1. Rank(i, found) \in 0..(size - 1)
    BY <1>1
  <2>2. Rank(i, found) >= n
    <3> SUFFICES ASSUME Rank(i, found) < n PROVE FALSE
      BY <2>1
    <3> DEFINE l == Rank(i, found) + 1
    <3>1. l \in 1..n /\ l - 1 = Rank(i, found)
      BY <2>1
    <3> HIDE DEF l
    <3>2. items[l] \in found /\ Rank(items[l], found) = Rank(i, found)
      BY <1>4, <3>1
    <3>3. items[l] = i
      <4>1. i \in Nat /\ items[l] \in Nat
        BY <3>2
      <4>2. ~(Rank(i, found) < Rank(i, found))
        BY <2>1
      <4>3. ~(i < items[l]) /\ ~(items[l] < i)
        BY <1>1, <3>2, <4>2
      <4>4. QED
        BY <4>1, <4>3
    <3>4. QED
      BY <1>5, <3>1, <3>3 DEF Range
  <2>3. Rank(items[k], found) < Rank(i, found)
    BY <1>4, <2>1, <2>2
  <2>4. QED
    BY <1>4, <1>6, <2>3
<1>9. QED
  BY <1>5, <1>7, <1>8 DEF items

\* What the query answers is a page of all rows there are, whatever it is asked.
LEMMA ListPostsIsPage ==
  ASSUME ListTyped, NEW filter, NEW cursor
  PROVE  /\ ListPosts(filter, cursor) \in Page
         /\ IsPage(ListPosts(filter, cursor), filter, cursor, Len(rows))
<1> DEFINE found == Found(filter, cursor)
           size == Cardinality(found)
           part == ListPosts(filter, cursor)
           last == Len(rows)
<1>1. last \in Nat /\ rows \in [1..last -> [type: Types, at: Nat]]
  BY LenProperties DEF ListTyped
<1>2. IsFiniteSet(1..last)
  BY <1>1, FS_Interval
<1>3. found \in SUBSET (1..last)
  BY DEF Found
<1>4. IsFiniteSet(found) /\ found \subseteq Nat /\ size \in Nat
  <2>1. IsFiniteSet(found)
    BY <1>2, <1>3, FS_Subset
  <2>2. size \in Nat
    BY <2>1, FS_CardinalityType
  <2>3. QED
    BY <1>1, <1>3, <2>1, <2>2
<1>5. Limit \in Nat /\ Limit > 0
  BY ContributionListAssumption
<1>6. \A i \in found : i \in 1..last /\ Matches(i, filter) /\ After(i, cursor)
  BY DEF Found
<1>7. \A i \in 1..last : Matches(i, filter) /\ After(i, cursor) => i \in found
  BY DEF Found
<1>8. part = IF size > Limit
             THEN [items |-> Newest(found, Limit),
                   nextCursor |-> CursorOf(Last(Newest(found, Limit)))]
             ELSE [items |-> Newest(found, size), nextCursor |-> NoCursor]
  BY DEF ListPosts
<1>9. NoCursor \in Cursor
  BY DEF NoCursor, Cursor
<1>10. ASSUME NEW i \in found PROVE CursorOf(i) \in Cursor /\ CursorOf(i) # NoCursor
                                    /\ CursorOf(i).row = i
  <2>1. i \in Nat /\ i > 0 /\ rows[i].at \in Nat
    BY <1>1, <1>3
  <2>2. Cut(rows[i].at) \in Nat
    BY <2>1, CutProperties
  <2>3. QED
    BY <2>1, <2>2 DEF CursorOf, Cursor, NoCursor
<1> HIDE DEF found, size, part, last
<1>11. ASSUME NEW n \in Nat, n <= size
       PROVE  LET items == Newest(found, n)
              IN  /\ items \in Seq(Nat) /\ Len(items) = n
                  /\ items \in [1..n -> found]
                  /\ IsInjective(items)
                  /\ Range(items) \subseteq found
                  /\ \A k, l \in 1..n : k < l => items[l] < items[k]
                  /\ \A i \in found \ Range(items) : \A k \in 1..n : i < items[k]
                  /\ n = size => Range(items) = found
                  /\ n # 0 => Last(items) \in found /\ \A i \in Range(items) : Last(items) <= i
  <2> DEFINE items == Newest(found, n)
  <2>1. /\ items \in [1..n -> found]
        /\ \A k, l \in 1..n : k < l => items[l] < items[k]
        /\ \A i \in found \ Range(items) : \A k \in 1..n : i < items[k]
    BY <1>4, <1>11, NewestProperties DEF size
  <2> HIDE DEF items
  <2>2. items \in [1..n -> Nat]
    BY <1>4, <2>1
  <2>3. items \in Seq(Nat) /\ Len(items) = n /\ DOMAIN items = 1..n
    BY <2>2
  <2>4. IsInjective(items)
    <3> SUFFICES ASSUME NEW k \in 1..n, NEW l \in 1..n, items[k] = items[l] PROVE k = l
      BY <2>3 DEF IsInjective
    <3>1. items[k] \in Nat /\ items[l] \in Nat
      BY <2>2
    <3>2. ~(k < l) /\ ~(l < k)
      BY <2>1, <3>1
    <3>3. QED
      BY <3>2
  <2>5. Range(items) \subseteq found
    BY <2>1 DEF Range
  <2>6. ASSUME n # 0
        PROVE  Last(items) \in found /\ \A i \in Range(items) : Last(items) <= i
    <3>1. n \in 1..n /\ Last(items) = items[n]
      BY <2>3, <2>6 DEF Last
    <3>2. \A k \in 1..n : items[n] <= items[k]
      <4> SUFFICES ASSUME NEW k \in 1..n PROVE items[n] <= items[k]
        OBVIOUS
      <4>1. items[n] \in Nat /\ items[k] \in Nat
        BY <2>2, <3>1
      <4>2. k < n => items[n] < items[k]
        BY <2>1, <3>1
      <4>3. QED
        BY <4>1, <4>2
    <3>3. QED
      BY <2>1, <2>3, <3>1, <3>2 DEF Range
  <2>7. ASSUME n = size PROVE Range(items) = found
    <3> SUFFICES ASSUME NEW i \in found, i \notin Range(items) PROVE FALSE
      BY <2>5
    <3>1. items \in Injection(1..n, found)
      BY <2>1, <2>4 DEF Injection
    <3>2. IsFiniteSet(1..n) /\ Cardinality(1..n) = n
      BY FS_Interval
    <3>3. items \in Surjection(1..n, found)
      BY <1>4, <2>7, <3>1, <3>2, FS_Injection DEF size
    <3>4. QED
      BY <2>3, <3>3 DEF Surjection, Range
  <2>8. QED
    BY <2>1, <2>3, <2>4, <2>5, <2>6, <2>7 DEF items
<1>12. CASE size > Limit
  <2> DEFINE items == Newest(found, Limit)
  <2>1. /\ items \in Seq(Nat) /\ Len(items) = Limit
        /\ items \in [1..Limit -> found]
        /\ IsInjective(items) /\ Range(items) \subseteq found
        /\ \A i \in found \ Range(items) : \A k \in 1..Limit : i < items[k]
        /\ Last(items) \in found /\ \A i \in Range(items) : Last(items) <= i
    BY <1>4, <1>5, <1>11, <1>12
  <2> HIDE DEF items
  <2>2. /\ part.items = items /\ part.nextCursor = CursorOf(Last(items))
        /\ part = [items |-> items, nextCursor |-> CursorOf(Last(items))]
    BY <1>8, <1>12 DEF items
  <2>3. /\ CursorOf(Last(items)) \in Cursor /\ CursorOf(Last(items)) # NoCursor
        /\ CursorOf(Last(items)).row = Last(items)
    BY <1>10, <2>1
  <2>4. part \in Page
    BY <2>1, <2>2, <2>3 DEF Page
  <2>5. items # <<>>
    BY <1>5, <2>1
  <2>6. \A i \in found \ Range(items) : i < Last(items)
    <3>1. Limit \in 1..Limit /\ Last(items) = items[Limit]
      BY <1>5, <2>1 DEF Last
    <3>2. QED
      BY <2>1, <3>1
  <2>7. IsPage(part, filter, cursor, last)
    BY <1>6, <1>7, <2>1, <2>2, <2>3, <2>5, <2>6 DEF IsPage
  <2>8. QED
    BY <2>4, <2>7 DEF part, last
<1>13. CASE ~(size > Limit)
  <2> DEFINE items == Newest(found, size)
  <2>1. /\ items \in Seq(Nat) /\ IsInjective(items) /\ Range(items) = found
    BY <1>4, <1>11
  <2> HIDE DEF items
  <2>2. /\ part.items = items /\ part.nextCursor = NoCursor
        /\ part = [items |-> items, nextCursor |-> NoCursor]
    BY <1>8, <1>13 DEF items
  <2>3. part \in Page
    BY <1>9, <2>1, <2>2 DEF Page
  <2>4. IsPage(part, filter, cursor, last)
    BY <1>6, <1>7, <2>1, <2>2 DEF IsPage
  <2>5. QED
    BY <2>3, <2>4 DEF part, last
<1>14. QED
  BY <1>12, <1>13
-----------------------------------------------------------------------------
(***************************************************************************)
(* The steps.                                                              *)
(***************************************************************************)
\* The page mounts with its first load under way.
LEMMA ListInitIInv == ListInit => ListIInv
<1> SUFFICES ASSUME ListInit PROVE ListIInv
  OBVIOUS
<1>1. NoCursor \in Cursor /\ Nothing \in Page /\ "any" \in Filters
  BY DEF NoCursor, Cursor, Nothing, Page, Filters
<1>2. rows = <<>> /\ Len(rows) = 0 /\ Ids = {}
  BY DEF ListInit, Ids
<1>3. /\ view.posts = <<>> /\ view.nextCursor = NoCursor /\ view.filter = "any"
      /\ history.asOf = 0 /\ history.edges = {} /\ history.own = {}
      /\ history.filter = "any"
  BY DEF ListInit
<1>4. PICK first : requests = {first} /\ first \in Requested
                   /\ first.op = "first" /\ first.cursor = NoCursor
                   /\ first.stage = "sent" /\ first.answer = Nothing /\ first.asOf = 0
  <2> DEFINE first == [number |-> 1, op |-> "first", filter |-> "any", cursor |-> NoCursor,
                       stage |-> "sent", answer |-> Nothing, asOf |-> 0]
  <2>1. requests = {first}
    BY DEF ListInit
  <2>2. first \in Requested
    BY <1>1 DEF Requested
  <2>3. QED
    BY <2>1, <2>2
<1>5. ListTyped
  <2>1. rows \in Seq([type: Types, at: Nat])
    BY <1>2
  <2>2. view \in [posts: Seq(Nat), nextCursor: Cursor, filter: Filters, error: BOOLEAN]
    BY <1>1 DEF ListInit
  <2>3. history \in History
    BY <1>1 DEF ListInit, History
  <2>4. QED
    BY <1>4, <2>1, <2>2, <2>3 DEF ListTyped
<1>6. Ascending
  BY <1>2 DEF Ascending
<1>7. Range(<<>>) = {}
  BY DEF Range
<1>8. Standing
  BY <1>2, <1>3, <1>4, <1>7 DEF Standing, Sound, IsCursor, Nothing
<1>9. Straight
  <2>1. Covered
    BY <1>3, <1>7 DEF Covered, ReachedRow, IsInjective
  <2>2. QED
    BY <1>4, <2>1 DEF Straight, Fits
<1>10. QED
  BY <1>5, <1>6, <1>8, <1>9 DEF ListIInv

\* A post is added behind all others, and nothing that was said of them changes.
LEMMA InsertKeeps ==
  ASSUME ListIInv, NEW type \in Types, NEW gap \in 1..Grain, Insert(type, gap)
  PROVE  /\ rows' \in Seq([type: Types, at: Nat])
         /\ Len(rows') = Len(rows) + 1 /\ Ids \subseteq Ids'
         /\ \A i \in Ids : rows'[i] = rows[i]
         /\ Ascending'
         /\ \A cursor : IsCursor(cursor) => IsCursor(cursor)'
         /\ \A r \in Requested : Sound(r) => Sound(r)'
<1> DEFINE n == Len(rows)
           row == Row(type, LastAt + gap)
<1>1. n \in Nat /\ rows \in [1..n -> [type: Types, at: Nat]]
      /\ rows \in Seq([type: Types, at: Nat])
  BY LenProperties DEF ListIInv, ListTyped
<1>2. LastAt \in Nat /\ \A i \in 1..n : rows[i].at <= LastAt
  <2>1. CASE rows = <<>>
    BY <1>1, <2>1 DEF LastAt
  <2>2. CASE rows # <<>>
    <3>1. n \in 1..n
      BY <1>1, <2>2, EmptySeq
    <3>2. LastAt = rows[n].at
      BY <2>2 DEF LastAt, Last
    <3>3. ASSUME NEW i \in 1..n PROVE rows[i].at <= rows[n].at
      <4>1. rows[i].at \in Nat /\ rows[n].at \in Nat
        BY <1>1, <3>1
      <4>2. i < n => rows[i].at < rows[n].at
        BY <3>1 DEF ListIInv, Ascending, Ids
      <4>3. QED
        BY <3>1, <4>1, <4>2
    <3>4. QED
      BY <1>1, <3>1, <3>2, <3>3
  <2>3. QED
    BY <2>1, <2>2
<1>3. Grain \in Nat /\ gap \in Nat /\ gap > 0
  BY ContributionListAssumption
<1>4. row \in [type: Types, at: Nat] /\ \A i \in 1..n : rows[i].at < row.at
  BY <1>1, <1>2, <1>3 DEF Row
<1>5. rows' = Append(rows, row)
  BY DEF Insert
<1> HIDE DEF row
<1>6. /\ rows' \in Seq([type: Types, at: Nat]) /\ Len(rows') = n + 1
      /\ \A i \in 1..n : rows'[i] = rows[i]
      /\ rows'[n + 1] = row
  BY <1>1, <1>4, <1>5, AppendProperties
<1> HIDE DEF n
<1>7. Ids = 1..n /\ Ids' = 1..(n + 1)
  BY <1>6 DEF Ids, n
<1>8. Ids \subseteq Ids' /\ \A i \in Ids : rows'[i] = rows[i]
  BY <1>1, <1>6, <1>7
<1>9. Ascending'
  <2> SUFFICES ASSUME NEW i \in 1..(n + 1), NEW j \in 1..(n + 1), i < j
               PROVE  rows'[i].at < rows'[j].at
    BY <1>7 DEF Ascending
  <2>1. i \in 1..n
    BY <1>1
  <2>2. CASE j \in 1..n
    <3>1. rows[i].at < rows[j].at
      BY <1>7, <2>1, <2>2 DEF ListIInv, Ascending
    <3>2. QED
      BY <1>6, <2>1, <2>2, <3>1
  <2>3. CASE j = n + 1
    BY <1>4, <1>6, <2>1, <2>3
  <2>4. QED
    BY <1>1, <2>2, <2>3
<1>10. ASSUME NEW cursor, IsCursor(cursor) PROVE IsCursor(cursor)'
  BY <1>8, <1>10 DEF IsCursor, CursorOf, Cut
<1>11. ASSUME NEW r \in Requested, Sound(r) PROVE Sound(r)'
  <2>1. IsCursor(r.cursor)'
    BY <1>10, <1>11 DEF Sound
  <2>2. ASSUME r.stage = "answered" PROVE AnswerStands(r)'
    <3>1. AnswerStands(r) /\ r.asOf \in Nat
      BY <1>11, <2>2 DEF Sound, Requested
    <3>2. 1..r.asOf \subseteq Ids
      BY <1>1, <1>7, <1>11, <3>1 DEF Sound, n
    <3>3. ASSUME r.op # "create"
          PROVE  IsPage(r.answer, r.filter, r.cursor, r.asOf)'
      <4>1. IsPage(r.answer, r.filter, r.cursor, r.asOf)
        BY <3>1, <3>3 DEF AnswerStands
      <4>2. \A i \in 1..r.asOf : /\ Matches(i, r.filter)' <=> Matches(i, r.filter)
                                 /\ After(i, r.cursor)' <=> After(i, r.cursor)
                                 /\ CursorOf(i)' = CursorOf(i)
        BY <1>8, <3>2 DEF Matches, After, CursorOf, Cut
      <4>3. ASSUME r.answer.nextCursor # NoCursor
            PROVE  Last(r.answer.items) \in 1..r.asOf
        <5>1. r.answer.items # <<>> /\ r.answer.items \in Seq(Nat)
          BY <4>1, <4>3 DEF IsPage, Requested, Page
        <5>2. Last(r.answer.items) \in Range(r.answer.items)
          BY <5>1, EmptySeq, LenProperties DEF Last, Range
        <5>3. QED
          BY <4>1, <5>2 DEF IsPage
      <4>4. QED
        BY <4>1, <4>2, <4>3 DEF IsPage
    <3>4. QED
      BY <1>8, <3>1, <3>3 DEF AnswerStands
  <2>3. r.asOf <= Len(rows')
    BY <1>1, <1>6, <1>11 DEF Sound, Requested, n
  <2>4. QED
    BY <1>8, <1>11, <2>1, <2>2, <2>3 DEF Sound
<1>12. QED
  BY <1>6, <1>8, <1>9, <1>10, <1>11 DEF n
\* A request that is made: what it will add fits the list, or the list is known to be
\* tangled.
LEMMA AsksStep ==
  ASSUME ListIInv, NEW op \in {"first", "more", "create"}, NEW filter \in Filters,
         NEW cursor \in Cursor, IsCursor(cursor), op = "first" => cursor = NoCursor,
         op = "more" => cursor = view.nextCursor /\ cursor # NoCursor,
         op = "create" => filter \in Types,
         Asks(op, filter, cursor), UNCHANGED rows,
         view' \in [posts: Seq(Nat), nextCursor: Cursor, filter: Filters, error: BOOLEAN],
         view'.posts = view.posts, view'.nextCursor = view.nextCursor
  PROVE  ListIInv'
<1> DEFINE tangled == history.tangled \/ requests # {}
                        \/ (op = "more" /\ filter # history.filter)
<1>1. /\ history \in History /\ history.sent \in Nat /\ history.sent + 1 \in Nat
      /\ requests \subseteq Requested
  BY DEF ListIInv, ListTyped, History
<1>2. PICK new :
      /\ new = Request(op, filter, cursor)
      /\ new \in Requested /\ new.op = op /\ new.filter = filter /\ new.cursor = cursor
      /\ new.stage = "sent" /\ new.answer = Nothing /\ new.asOf = 0
  <2> DEFINE w == Request(op, filter, cursor)
  <2>1. Nothing \in Page
    BY DEF NoCursor, Cursor, Nothing, Page
  <2>2. /\ w \in Requested /\ w.op = op /\ w.filter = filter /\ w.cursor = cursor
        /\ w.stage = "sent" /\ w.answer = Nothing /\ w.asOf = 0
    BY <1>1, <2>1 DEF Request, Requested
  <2> HIDE DEF w
  <2>3. \E new : new = w
    OBVIOUS
  <2>4. QED
    BY <2>2, <2>3 DEF w
<1>3. requests' = requests \cup {new}
  BY <1>2 DEF Asks
<1>4. PICK flag \in BOOLEAN : flag = tangled
  <2>1. tangled \in BOOLEAN
    OBVIOUS
  <2> HIDE DEF tangled
  <2>2. QED
    BY <2>1, Zenon
<1>5. history' = [history EXCEPT !.sent = history.sent + 1, !.tangled = flag]
  <2>1. history' = [history EXCEPT !.sent = history.sent + 1, !.tangled = tangled]
    BY DEF Asks
  <2> HIDE DEF tangled
  <2>2. QED
    BY <1>4, <2>1, Zenon
<1>6. /\ history' \in History
      /\ history'.asOf = history.asOf /\ history'.filter = history.filter
      /\ history'.edges = history.edges /\ history'.own = history.own
      /\ history'.tangled = flag
  <2> DEFINE sent == history.sent + 1
  <2>1. history \in History /\ sent \in Nat
    BY <1>1
  <2>2. history' = [history EXCEPT !.sent = sent, !.tangled = flag]
    BY <1>5
  <2> HIDE DEF sent
  <2>3. history' \in History
    BY ONLY <2>1, <2>2, <1>4 DEF History
  <2>4. /\ history'.asOf = history.asOf /\ history'.filter = history.filter
        /\ history'.edges = history.edges /\ history'.own = history.own
    BY ONLY <2>1, <2>2 DEF History
  <2>5. history'.tangled = flag
    BY ONLY <2>1, <2>2, Zenon DEF History
  <2>6. QED
    BY <2>3, <2>4, <2>5
<1>7. ListTyped'
  BY <1>1, <1>2, <1>3, <1>6 DEF ListIInv, ListTyped
<1>8. Ascending'
  BY DEF ListIInv, Ascending, Ids
<1>9. Standing'
  <2>1. \A r : Sound(r)' <=> Sound(r)
    BY DEF Sound, AnswerStands, IsPage, IsCursor, Ids, Matches, After, CursorOf
  <2>2. Range(<<>>) = {}
    BY DEF Range
  <2>3. Sound(new)
    <3>1. 0 <= Len(rows)
      BY LenProperties DEF ListIInv, ListTyped
    <3>2. QED
      BY <1>2, <2>2, <3>1 DEF Sound, Nothing
  <2>4. \A r \in requests' : Sound(r)'
    BY <1>3, <2>1, <2>3 DEF ListIInv, Standing
  <2>5. QED
    BY <1>6, <2>4 DEF ListIInv, Standing, IsCursor, Ids, CursorOf
<1>10. Straight'
  <2> SUFFICES ASSUME ~flag
               PROVE  /\ \A q, r \in requests' : q = r
                      /\ \A r \in requests' : Fits(r)'
                      /\ Covered'
    BY <1>6, Zenon DEF Straight
  <2>1. ~history.tangled /\ requests = {} /\ (op = "more" => filter = history.filter)
    BY <1>4
  <2>2. requests' = {new}
    BY <1>3, <2>1
  <2>3. Fits(new)'
    BY <1>2, <1>6, <2>1 DEF Fits
  <2>4. Covered'
    BY <1>6, <2>1 DEF ListIInv, Straight, Covered, ReachedRow, Matches
  <2>5. QED
    BY <2>2, <2>3, <2>4
<1>11. QED
  BY <1>7, <1>8, <1>9, <1>10 DEF ListIInv

\* The list and its cursor while only the rest of view changes.
LEMMA ViewRests ==
  ASSUME ListIInv, NEW filter \in Filters, NEW error \in BOOLEAN,
         view' = [view EXCEPT !.filter = filter, !.error = error]
  PROVE  /\ view' \in [posts: Seq(Nat), nextCursor: Cursor, filter: Filters, error: BOOLEAN]
         /\ view'.posts = view.posts /\ view'.nextCursor = view.nextCursor
BY DEF ListIInv, ListTyped

\* What the handlers of the page write into the view has its type.
LEMMA ListKeys ==
  ASSUME ListTyped
  PROVE  /\ view.filter \in Filters /\ view.nextCursor \in Cursor
         /\ view = [view EXCEPT !.filter = view.filter]
         /\ [view EXCEPT !.error = FALSE] =
              [view EXCEPT !.filter = view.filter, !.error = FALSE]
         /\ [view EXCEPT !.error = TRUE] =
              [view EXCEPT !.filter = view.filter, !.error = TRUE]
         /\ NoCursor \in Cursor /\ IsCursor(NoCursor)
BY DEF ListTyped, NoCursor, Cursor, IsCursor

\* What the user does sends one request and changes no post.
LEMMA UserStep ==
  ASSUME ListIInv,
         \/ \E filter \in Filters : SetFilter(filter)
         \/ OnLoadMore
         \/ OnRetryListLoad
         \/ \E type \in Types : OnCreateContribution(type)
  PROVE  ListIInv'
<1> USE DEF ListIInv
<1>1. ASSUME NEW filter \in Filters, SetFilter(filter) PROVE ListIInv'
  BY <1>1, AsksStep, ViewRests, ListKeys DEF SetFilter
<1>2. CASE OnLoadMore
  BY <1>2, AsksStep, ViewRests, ListKeys DEF OnLoadMore, Standing
<1>3. CASE OnRetryListLoad
  BY <1>3, AsksStep, ViewRests, ListKeys DEF OnRetryListLoad
<1>4. ASSUME NEW type \in Types, OnCreateContribution(type) PROVE ListIInv'
  <2>1. type \in Filters
    BY DEF Filters
  <2>2. QED
    BY <1>4, <2>1, AsksStep, ViewRests, ListKeys DEF OnCreateContribution
<1>5. QED
  BY <1>1, <1>2, <1>3, <1>4
\* A post behind all others takes nothing from the list.
LEMMA CoveredStands ==
  ASSUME ListIInv, Covered, UNCHANGED <<view, history>>,
         Ids \subseteq Ids', \A i \in Ids : rows'[i] = rows[i]
  PROVE  Covered'
<1>1. Ids = 1..Len(rows) /\ Len(rows) \in Nat
  BY LenProperties DEF ListIInv, ListTyped, Ids
<1>2. view' = view /\ history' = history /\ ReachedRow' = ReachedRow
  BY DEF ReachedRow
<1>3. ReachedRow \in Nat /\ ReachedRow >= 1
  BY <1>1 DEF ReachedRow, ListIInv, Standing, IsCursor
<1>4. ReachedRow..history.asOf \subseteq Ids
  BY <1>1, <1>3 DEF ListIInv, Standing, ListTyped, History
<1>5. \A i \in Ids : /\ Matches(i, history.filter)' <=> Matches(i, history.filter)
                     /\ rows'[i].at = rows[i].at
  BY <1>2 DEF Matches
<1>6. Range(view.posts) \subseteq Ids /\ history.edges \subseteq Ids
  BY DEF ListIInv, Standing
<1>7. IsInjective(view'.posts)
  BY <1>2 DEF Covered
<1>8. \A i \in Range(view'.posts) : Matches(i, history.filter)' \/ i \in history'.own
  BY <1>2, <1>5, <1>6 DEF Covered
<1>9. ASSUME NEW i \in ReachedRow'..history'.asOf,
             Matches(i, history.filter)', i \notin Range(view'.posts)
      PROVE  \E e \in history'.edges : i < e /\ Cut(rows'[i].at) = Cut(rows'[e].at)
  <2>1. i \in ReachedRow..history.asOf /\ i \in Ids
    BY <1>2, <1>4
  <2>2. Matches(i, history.filter) /\ i \notin Range(view.posts)
    BY <1>2, <1>5, <1>9, <2>1
  <2>3. PICK e \in history.edges : i < e /\ Cut(rows[i].at) = Cut(rows[e].at)
    BY <2>1, <2>2 DEF Covered
  <2>4. Cut(rows'[i].at) = Cut(rows[i].at) /\ Cut(rows'[e].at) = Cut(rows[e].at)
    BY <1>5, <1>6, <2>1
  <2>5. QED
    BY <1>2, <2>3, <2>4
<1>10. QED
  BY <1>2, <1>7, <1>8, <1>9 DEF Covered

\* While neither rows nor list nor history change, all that is said of a request stands.
LEMMA AllRests ==
  ASSUME UNCHANGED <<rows, view, history>>
  PROVE  /\ Ascending' <=> Ascending
         /\ Covered' <=> Covered
         /\ \A r : Sound(r)' <=> Sound(r)
         /\ \A r : Fits(r)' <=> Fits(r)
<1>1. rows' = rows /\ view' = view /\ history' = history
  OBVIOUS
<1>2. Ascending' <=> Ascending
  BY <1>1 DEF Ascending, Ids
<1>3. Covered' <=> Covered
  BY <1>1 DEF Covered, ReachedRow, Matches
<1>4. \A r : Sound(r)' <=> Sound(r)
  BY <1>1 DEF Sound, AnswerStands, IsPage, IsCursor, Ids, Matches, After, CursorOf
<1>5. \A r : Fits(r)' <=> Fits(r)
  BY <1>1 DEF Fits
<1>6. QED
  BY <1>2, <1>3, <1>4, <1>5

\* The answer to a load is a page of the rows there are when it is made.
LEMMA LoadServedStep ==
  ASSUME ListIInv, NEW r \in requests, LoadServed(r)
  PROVE  ListIInv'
<1> DEFINE part == ListPosts(r.filter, r.cursor)
<1>1. r \in Requested /\ Sound(r) /\ r.op \in {"first", "more"}
  BY DEF ListIInv, ListTyped, Standing, LoadServed
<1>2. Len(rows) \in Nat /\ Ids = 1..Len(rows)
  BY LenProperties DEF ListIInv, ListTyped, Ids
<1>3. part \in Page /\ IsPage(part, r.filter, r.cursor, Len(rows))
  BY ListPostsIsPage DEF ListIInv
<1> HIDE DEF part
<1>4. PICK q :
      /\ q \in Requested
      /\ q.op = r.op /\ q.filter = r.filter /\ q.cursor = r.cursor
      /\ q.stage = "answered" /\ q.asOf = Len(rows) /\ q.answer = part
      /\ requests' = (requests \ {r}) \cup {q}
  <2> DEFINE w == [r EXCEPT !.stage = "answered", !.asOf = Len(rows), !.answer = part]
  <2>1. /\ w \in Requested
        /\ w.op = r.op /\ w.filter = r.filter /\ w.cursor = r.cursor
        /\ w.stage = "answered" /\ w.asOf = Len(rows) /\ w.answer = part
    BY <1>1, <1>2, <1>3 DEF Requested
  <2>2. requests' = (requests \ {r}) \cup {w}
    BY DEF LoadServed, Replaced, part
  <2> HIDE DEF w
  <2>3. QED
    BY <2>1, <2>2
<1>5. UNCHANGED <<rows, view, history>>
  BY DEF LoadServed
<1>6. Sound(q)
  <2>1. Range(part.items) \subseteq Ids
    BY <1>2, <1>3 DEF IsPage
  <2>2. AnswerStands(q)
    BY <1>1, <1>2, <1>3, <1>4 DEF AnswerStands
  <2>3. QED
    BY <1>1, <1>4, <2>1, <2>2 DEF Sound
<1>7. ListTyped'
  BY <1>4, <1>5 DEF ListIInv, ListTyped
<1>8. Standing'
  <2>1. \A s \in requests' : Sound(s)'
    BY <1>4, <1>5, <1>6, AllRests DEF ListIInv, Standing
  <2>2. QED
    BY <1>5, <2>1 DEF ListIInv, Standing, IsCursor, Ids, CursorOf
<1>9. Straight'
  <2> SUFFICES ASSUME ~history.tangled
               PROVE  /\ \A s, t \in requests' : s = t
                      /\ \A s \in requests' : Fits(s)
                      /\ Covered
    BY <1>5, AllRests DEF Straight
  <2>1. Fits(r) /\ Covered /\ requests' = {q}
    BY <1>4 DEF ListIInv, Straight
  <2>2. Fits(q)
    BY <1>1, <1>4, <2>1 DEF ListIInv, Standing, Fits
  <2>3. QED
    BY <2>1, <2>2
<1>10. QED
  BY <1>5, <1>7, <1>8, <1>9, AllRests DEF ListIInv

\* The post that is made is behind all that are on the page.
LEMMA CreateServedStep ==
  ASSUME ListIInv, NEW r \in requests, NEW gap \in 1..Grain, CreateServed(r, gap)
  PROVE  ListIInv'
<1> DEFINE n == Len(rows) + 1
<1>1. r \in Requested /\ Sound(r) /\ r.op = "create" /\ r.filter \in Types
      /\ Insert(r.filter, gap)
  BY DEF ListIInv, ListTyped, Standing, CreateServed, Sound
<1>2. /\ rows' \in Seq([type: Types, at: Nat])
      /\ Len(rows') = n /\ Ids \subseteq Ids'
      /\ \A i \in Ids : rows'[i] = rows[i]
      /\ Ascending'
      /\ \A cursor : IsCursor(cursor) => IsCursor(cursor)'
      /\ \A s \in Requested : Sound(s) => Sound(s)'
  BY <1>1, InsertKeeps
<1>3. /\ Len(rows) \in Nat /\ n \in Nat /\ Ids = 1..Len(rows) /\ Ids' = 1..n
      /\ n \in Ids' /\ n \notin Ids
  <2>1. Len(rows) \in Nat
    BY LenProperties DEF ListIInv, ListTyped
  <2>2. QED
    BY <1>2, <2>1 DEF Ids
<1>4. UNCHANGED <<view, history>>
  BY DEF CreateServed
<1> HIDE DEF n
<1>5. PICK q :
      /\ q \in Requested
      /\ q.op = "create" /\ q.filter = r.filter /\ q.cursor = r.cursor
      /\ q.stage = "answered" /\ q.asOf = r.asOf /\ q.answer.items = <<n>>
      /\ requests' = (requests \ {r}) \cup {q}
  <2> DEFINE w == [r EXCEPT !.stage = "answered", !.answer.items = <<n>>]
  <2>1. <<n>> \in Seq(Nat) /\ r.answer \in Page
    BY <1>1, <1>3 DEF Requested
  <2>2. /\ w \in Requested
        /\ w.op = "create" /\ w.filter = r.filter /\ w.cursor = r.cursor
        /\ w.stage = "answered" /\ w.asOf = r.asOf /\ w.answer.items = <<n>>
    BY <1>1, <2>1 DEF Requested, Page
  <2>3. requests' = (requests \ {r}) \cup {w}
    BY <1>2 DEF CreateServed, Replaced
  <2> HIDE DEF w
  <2>4. QED
    BY <2>2, <2>3
<1>6. Sound(q)'
  <2>1. Range(<<n>>) = {n}
    BY DEF Range
  <2>2. Sound(r)'
    BY <1>1, <1>2
  <2>3. IsCursor(q.cursor)' /\ q.asOf <= Len(rows') /\ q.filter \in Types
    BY <1>1, <1>5, <2>2 DEF Sound
  <2>4. Range(q.answer.items) \subseteq Ids'
    BY <1>3, <1>5, <2>1
  <2>5. AnswerStands(q)'
    <3>1. \E i \in Ids' : q.answer.items = <<i>>
      BY <1>3, <1>5
    <3>2. QED
      BY <1>5, <3>1 DEF AnswerStands
  <2>6. QED
    BY <1>5, <2>3, <2>4, <2>5 DEF Sound
<1>7. ListTyped'
  BY <1>2, <1>4, <1>5 DEF ListIInv, ListTyped
<1>8. Standing'
  <2>1. \A s \in requests' : Sound(s)'
    BY <1>2, <1>5, <1>6 DEF ListIInv, ListTyped, Standing
  <2>2. history.asOf <= n
    BY <1>3 DEF ListIInv, ListTyped, History, Standing
  <2>3. IsCursor(view.nextCursor)'
    BY <1>2, <1>4 DEF ListIInv, Standing, IsCursor
  <2>4. QED
    BY <1>2, <1>4, <2>1, <2>2, <2>3 DEF ListIInv, Standing
<1>9. Straight'
  <2> SUFFICES ASSUME ~history.tangled
               PROVE  /\ \A s, t \in requests' : s = t
                      /\ \A s \in requests' : Fits(s)'
                      /\ Covered'
    BY <1>4 DEF Straight
  <2>1. Covered /\ requests' = {q}
    BY <1>5 DEF ListIInv, Straight
  <2>2. Fits(q)'
    <3>1. Head(<<n>>) = n
      OBVIOUS
    <3>2. n \notin Range(view.posts)
      BY <1>3 DEF ListIInv, Standing
    <3>3. n > view.nextCursor.row
      BY <1>3 DEF ListIInv, Standing, IsCursor, NoCursor
    <3>4. QED
      BY <1>4, <1>5, <3>1, <3>2, <3>3 DEF Fits
  <2>3. Covered'
    BY <1>2, <1>4, <2>1, CoveredStands
  <2>4. QED
    BY <2>1, <2>2, <2>3
<1>10. QED
  BY <1>2, <1>7, <1>8, <1>9 DEF ListIInv

\* So is the post of another member.
LEMMA OtherCreatesStep ==
  ASSUME ListIInv, NEW type \in Types, NEW gap \in 1..Grain, OtherCreates(type, gap)
  PROVE  ListIInv'
<1>1. Insert(type, gap) /\ UNCHANGED <<view, history>> /\ requests' = requests
  BY DEF OtherCreates
<1>2. /\ rows' \in Seq([type: Types, at: Nat])
      /\ Len(rows') = Len(rows) + 1 /\ Ids \subseteq Ids'
      /\ \A i \in Ids : rows'[i] = rows[i]
      /\ Ascending'
      /\ \A cursor : IsCursor(cursor) => IsCursor(cursor)'
      /\ \A s \in Requested : Sound(s) => Sound(s)'
  BY <1>1, InsertKeeps
<1>3. ListTyped'
  BY <1>1, <1>2 DEF ListIInv, ListTyped
<1>4. Standing'
  <2>1. \A s \in requests' : Sound(s)'
    BY <1>1, <1>2 DEF ListIInv, ListTyped, Standing
  <2>2. history.asOf <= Len(rows')
    <3>1. Len(rows) \in Nat /\ history.asOf \in Nat /\ history.asOf <= Len(rows)
      BY LenProperties DEF ListIInv, ListTyped, History, Standing
    <3>2. QED
      BY <1>2, <3>1
  <2>3. IsCursor(view.nextCursor)'
    BY <1>1, <1>2 DEF ListIInv, Standing, IsCursor
  <2>4. QED
    BY <1>1, <1>2, <2>1, <2>2, <2>3 DEF ListIInv, Standing
<1>5. Straight'
  <2> SUFFICES ASSUME ~history.tangled
               PROVE  /\ \A s, t \in requests' : s = t
                      /\ \A s \in requests' : Fits(s)'
                      /\ Covered'
    BY <1>1 DEF Straight
  <2>1. /\ Covered /\ \A s, t \in requests : s = t
        /\ \A s \in requests : Fits(s)
    BY DEF ListIInv, Straight
  <2>2. \A s : Fits(s)' <=> Fits(s)
    BY <1>1 DEF Fits
  <2>3. Covered'
    BY <1>1, <1>2, <2>1, CoveredStands
  <2>4. QED
    BY <1>1, <2>1, <2>2, <2>3
<1>6. QED
  BY <1>2, <1>3, <1>4, <1>5 DEF ListIInv
\* A load that comes back replaces the list by a page, or continues it by one.
LEMMA FirstReturnsStep ==
  ASSUME ListIInv, NEW r \in requests, LoadReturns(r), r.op = "first"
  PROVE  ListIInv'
<1> DEFINE part == r.answer
           keeps == history.tangled /\ ~(requests = {r} /\ r.filter = view.filter)
<1>1. /\ r \in Requested /\ Sound(r) /\ r.cursor = NoCursor /\ r.stage = "answered"
      /\ part \in Page /\ r.filter \in Filters /\ r.asOf \in Nat
      /\ IsPage(part, r.filter, NoCursor, r.asOf)
      /\ r.asOf <= Len(rows) /\ Range(part.items) \subseteq Ids
  <2>1. r \in Requested /\ Sound(r) /\ r.stage = "answered"
    BY DEF ListIInv, ListTyped, Standing, LoadReturns
  <2>2. QED
    BY <2>1 DEF Requested, Sound, AnswerStands
<1>2. Ids = 1..Len(rows) /\ Len(rows) \in Nat
  BY LenProperties DEF ListIInv, ListTyped, Ids
<1>3. /\ rows' = rows /\ requests' = requests \ {r}
      /\ view' = [view EXCEPT !.posts = part.items, !.nextCursor = part.nextCursor]
  BY DEF LoadReturns, Shows
<1>4. PICK flag \in BOOLEAN : flag = keeps
  <2>1. keeps \in BOOLEAN
    OBVIOUS
  <2> HIDE DEF keeps
  <2>2. QED
    BY <2>1, Zenon
<1>5. history' = [history EXCEPT !.asOf = r.asOf, !.filter = r.filter, !.edges = Edges(r),
                                 !.own = {}, !.tangled = flag]
  <2>1. history' = [history EXCEPT !.asOf = r.asOf, !.filter = r.filter,
                                   !.edges = Edges(r), !.own = {}, !.tangled = keeps]
    BY DEF LoadReturns
  <2> HIDE DEF keeps
  <2>2. QED
    BY <1>4, <2>1, Zenon
<1> HIDE DEF part
<1>6. /\ view' \in [posts: Seq(Nat), nextCursor: Cursor, filter: Filters, error: BOOLEAN]
      /\ view'.posts = part.items /\ view'.nextCursor = part.nextCursor
  BY <1>1, <1>3 DEF ListIInv, ListTyped, Page
<1>7. /\ part.items = <<>> => Edges(r) = {} /\ Range(part.items) = {}
      /\ part.items # <<>> => /\ Edges(r) = {Last(part.items)}
                              /\ Last(part.items) \in Range(part.items)
  <2>1. part.items \in Seq(Nat)
    BY <1>1 DEF Page
  <2>2. part.items # <<>> => Last(part.items) \in Range(part.items)
    BY <2>1, EmptySeq, LenProperties DEF Last, Range
  <2>3. part.items = <<>> => Range(part.items) = {}
    BY DEF Range
  <2>4. QED
    BY <2>2, <2>3 DEF Edges, part
<1>8. Edges(r) \subseteq Ids /\ Edges(r) \in SUBSET Nat
  BY <1>1, <1>2, <1>7
<1>9. /\ history' \in History
      /\ history'.asOf = r.asOf /\ history'.filter = r.filter
      /\ history'.edges = Edges(r) /\ history'.own = {}
      /\ history'.tangled = flag
  <2> DEFINE edges == Edges(r)
             asOf == r.asOf
             filter == r.filter
  <2>1. history' = [history EXCEPT !.asOf = asOf, !.filter = filter, !.edges = edges,
                                   !.own = {}, !.tangled = flag]
    BY <1>5
  <2>2. /\ history \in History /\ edges \in SUBSET Nat /\ asOf \in Nat
        /\ filter \in Filters
    BY <1>1, <1>8 DEF ListIInv, ListTyped
  <2> HIDE DEF edges, asOf, filter
  <2>3. history' \in History
    BY ONLY <1>4, <2>1, <2>2 DEF History
  <2>4. /\ history'.asOf = asOf /\ history'.filter = filter
        /\ history'.edges = edges /\ history'.own = {}
    BY ONLY <2>1, <2>2 DEF History
  <2>5. history'.tangled = flag
    BY ONLY <2>1, <2>2, Zenon DEF History
  <2>6. QED
    BY <2>3, <2>4, <2>5 DEF edges, asOf, filter
<1>10. ListTyped'
  BY <1>3, <1>6, <1>9 DEF ListIInv, ListTyped
<1>11. /\ Ascending'
       /\ \A s : Sound(s) => Sound(s)'
       /\ Ids' = Ids
  BY <1>3 DEF ListIInv, Ascending, Ids, Sound, AnswerStands, IsPage, IsCursor, Matches, After,
    CursorOf
<1>12. IsCursor(part.nextCursor)
  <2>1. CASE part.nextCursor = NoCursor
    BY <2>1 DEF IsCursor
  <2>2. CASE part.nextCursor # NoCursor
    <3>1. /\ part.nextCursor = CursorOf(Last(part.items))
          /\ Last(part.items) \in Ids
      BY <1>1, <1>7, <2>2 DEF IsPage
    <3>2. CursorOf(Last(part.items)).row = Last(part.items)
      BY DEF CursorOf
    <3>3. QED
      BY <3>1, <3>2 DEF IsCursor
  <2>3. QED
    BY <2>1, <2>2
<1>13. Standing'
  <2>1. \A s \in requests' : Sound(s)'
    BY <1>3, <1>11 DEF ListIInv, Standing
  <2>2. IsCursor(view.nextCursor)'
    BY <1>3, <1>6, <1>12 DEF IsCursor, Ids, CursorOf
  <2>3. QED
    BY <1>1, <1>3, <1>6, <1>8, <1>9, <1>11, <2>1, <2>2 DEF Standing
<1>14. Covered'
  <2>1. IsInjective(part.items)
    BY <1>1 DEF IsPage
  <2>2. \A i \in Range(part.items) : Matches(i, r.filter)
    BY <1>1 DEF IsPage
  <2>3. part.nextCursor # NoCursor =>
          /\ part.nextCursor.row = Last(part.items)
          /\ part.nextCursor.row \in Edges(r)
          /\ \A i \in Range(part.items) : part.nextCursor.row <= i
    BY <1>1, <1>7 DEF IsPage, CursorOf
  <2>4. /\ ReachedRow' \in Nat /\ ReachedRow' >= 1
        /\ part.nextCursor # NoCursor => ReachedRow' = part.nextCursor.row
    BY <1>2, <1>6, <1>12 DEF ReachedRow, IsCursor
  <2>5. ASSUME NEW i \in ReachedRow'..r.asOf, Matches(i, r.filter), i \notin Range(part.items)
        PROVE  FALSE
    <3>1. i \in 1..r.asOf /\ After(i, NoCursor)
      BY <1>1, <2>4 DEF After
    <3>2. part.nextCursor # NoCursor /\ i < part.nextCursor.row
      BY <1>1, <2>5, <3>1 DEF IsPage
    <3>3. QED
      BY <1>1, <2>4, <3>2
  <2>6. \A i : Matches(i, r.filter)' <=> Matches(i, r.filter)
    BY <1>3 DEF Matches
  <2>7. \A i \in ReachedRow'..history'.asOf :
          Matches(i, history.filter)' /\ i \notin Range(view'.posts) => FALSE
    BY <1>3, <1>6, <1>9, <2>5 DEF Matches
  <2>8. \A i \in Range(view'.posts) : Matches(i, history.filter)'
    BY <1>3, <1>6, <1>9, <2>2 DEF Matches
  <2>9. QED
    BY <1>6, <1>9, <2>1, <2>3, <2>7, <2>8 DEF Covered
<1>15. Straight'
  <2> SUFFICES ASSUME ~flag
               PROVE  /\ \A s, t \in requests' : s = t
                      /\ \A s \in requests' : Fits(s)'
    BY <1>9, <1>14, Zenon DEF Straight
  <2>1. requests = {r}
    BY <1>4 DEF ListIInv, Straight
  <2>2. requests' = {}
    BY <1>3, <2>1
  <2>3. QED
    BY <2>2
<1>16. QED
  BY <1>10, <1>11, <1>13, <1>15 DEF ListIInv
\* Two lists with nothing in common and no repetition make one without.
LEMMA InjectiveConcat ==
  ASSUME NEW s \in Seq(Nat), NEW t \in Seq(Nat), IsInjective(s), IsInjective(t),
         \A i \in Range(s) : i \notin Range(t)
  PROVE  /\ s \o t \in Seq(Nat) /\ IsInjective(s \o t)
         /\ Range(s \o t) = Range(s) \cup Range(t)
<1> DEFINE m == Len(s)
           n == Len(t)
           st == s \o t
<1>1. /\ m \in Nat /\ n \in Nat /\ DOMAIN s = 1..m /\ DOMAIN t = 1..n
      /\ st \in Seq(Nat) /\ DOMAIN st = 1..(m + n)
      /\ Range(st) = Range(s) \cup Range(t)
      /\ \A i \in 1..(m + n) : st[i] = IF i <= m THEN s[i] ELSE t[i - m]
  <2>1. Len(st) = m + n /\ st \in Seq(Nat)
    BY ConcatProperties
  <2>2. DOMAIN st = 1..(m + n)
    BY <2>1, LenProperties
  <2>3. QED
    BY <2>1, <2>2, LenProperties, ConcatProperties, RangeConcatenation
<1> HIDE DEF m, n, st
<1>2. \A i \in 1..m : s[i] \in Range(s)
  BY <1>1 DEF Range
<1>3. \A i \in 1..n : t[i] \in Range(t)
  BY <1>1 DEF Range
<1>4. ASSUME NEW i \in 1..(m + n), NEW j \in 1..(m + n), st[i] = st[j] PROVE i = j
  <2>1. i <= m => i \in 1..m /\ st[i] = s[i]
    BY <1>1
  <2>2. j <= m => j \in 1..m /\ st[j] = s[j]
    BY <1>1
  <2>3. ~(i <= m) => i - m \in 1..n /\ st[i] = t[i - m]
    BY <1>1
  <2>4. ~(j <= m) => j - m \in 1..n /\ st[j] = t[j - m]
    BY <1>1
  <2>5. CASE i <= m /\ j <= m
    BY <1>1, <1>4, <2>1, <2>2, <2>5 DEF IsInjective
  <2>6. CASE ~(i <= m) /\ ~(j <= m)
    <3>1. i - m = j - m
      BY <1>1, <1>4, <2>3, <2>4, <2>6 DEF IsInjective
    <3>2. QED
      BY <1>1, <3>1
  <2>7. CASE i <= m /\ ~(j <= m)
    BY <1>2, <1>3, <1>4, <2>1, <2>4, <2>7
  <2>8. CASE ~(i <= m) /\ j <= m
    BY <1>2, <1>3, <1>4, <2>2, <2>3, <2>8
  <2>9. QED
    BY <2>5, <2>6, <2>7, <2>8
<1>5. IsInjective(st)
  BY <1>1, <1>4 DEF IsInjective
<1>6. QED
  BY <1>1, <1>5 DEF st

\* The rows after the cursor of a row are older than the row; and those of the rest that
\* are older have its millisecond.
LEMMA AfterRow ==
  ASSUME ListTyped, Ascending, NEW row \in Ids, NEW i \in Ids
  PROVE  /\ After(i, CursorOf(row)) => i < row
         /\ ~After(i, CursorOf(row)) /\ i < row => Cut(rows[i].at) = Cut(rows[row].at)
<1>1. /\ rows[i].at \in Nat /\ rows[row].at \in Nat /\ i \in Nat /\ row \in Nat /\ row > 0
  <2>1. /\ Len(rows) \in Nat /\ rows \in [1..Len(rows) -> [type: Types, at: Nat]]
        /\ Ids = 1..Len(rows)
    BY LenProperties DEF ListTyped, Ids
  <2>2. QED
    BY <2>1
<1>2. /\ CursorOf(row).at = Cut(rows[row].at) /\ CursorOf(row).row = row
      /\ CursorOf(row) # NoCursor
  BY <1>1 DEF CursorOf, NoCursor
<1>3. /\ Cut(rows[row].at) \in Nat /\ Cut(rows[row].at) <= rows[row].at
      /\ rows[i].at <= rows[row].at /\ Cut(rows[row].at) <= rows[i].at =>
           Cut(rows[i].at) = Cut(rows[row].at)
  BY <1>1, CutProperties
<1>4. /\ i < row => rows[i].at < rows[row].at
      /\ row < i => rows[row].at < rows[i].at
  BY DEF Ascending
<1>5. ASSUME After(i, CursorOf(row)) PROVE i < row
  <2>1. rows[i].at < Cut(rows[row].at) \/ i < row
    BY <1>2, <1>5 DEF After
  <2>2. QED
    BY <1>1, <1>3, <1>4, <2>1
<1>6. ASSUME ~After(i, CursorOf(row)), i < row PROVE Cut(rows[i].at) = Cut(rows[row].at)
  <2>1. ~(rows[i].at < Cut(rows[row].at))
    BY <1>2, <1>6 DEF After
  <2>2. QED
    BY <1>1, <1>3, <1>4, <1>6, <2>1
<1>7. QED
  BY <1>5, <1>6

\* More is appended; it goes on where the list ends.
LEMMA MoreReturnsStep ==
  ASSUME ListIInv, NEW r \in requests, LoadReturns(r), r.op = "more"
  PROVE  ListIInv'
<1> DEFINE part == r.answer
           posts == view.posts \o part.items
           edges == history.edges \cup Edges(r)
<1>1. /\ r \in Requested /\ Sound(r) /\ r.stage = "answered"
      /\ part \in Page /\ r.filter \in Filters /\ r.asOf \in Nat
      /\ IsPage(part, r.filter, r.cursor, r.asOf)
      /\ r.asOf <= Len(rows) /\ Range(part.items) \subseteq Ids
  <2>1. r \in Requested /\ Sound(r) /\ r.stage = "answered"
    BY DEF ListIInv, ListTyped, Standing, LoadReturns
  <2>2. QED
    BY <2>1 DEF Requested, Sound, AnswerStands
<1>2. Ids = 1..Len(rows) /\ Len(rows) \in Nat
  BY LenProperties DEF ListIInv, ListTyped, Ids
<1>3. /\ rows' = rows /\ requests' = requests \ {r}
      /\ view' = [view EXCEPT !.posts = posts, !.nextCursor = part.nextCursor]
      /\ history' = [history EXCEPT !.edges = edges]
  BY DEF LoadReturns, Shows
<1> HIDE DEF part
<1>4. /\ view.posts \in Seq(Nat) /\ part.items \in Seq(Nat) /\ posts \in Seq(Nat)
      /\ Range(posts) = Range(view.posts) \cup Range(part.items)
  <2>1. view.posts \in Seq(Nat) /\ part.items \in Seq(Nat)
    BY <1>1 DEF ListIInv, ListTyped, Page
  <2>2. QED
    BY <2>1, ConcatProperties, RangeConcatenation
<1>5. /\ part.items = <<>> => Edges(r) = {} /\ Range(part.items) = {}
      /\ part.items # <<>> => /\ Edges(r) = {Last(part.items)}
                              /\ Last(part.items) \in Range(part.items)
  <2>1. part.items # <<>> => Last(part.items) \in Range(part.items)
    BY <1>4, EmptySeq, LenProperties DEF Last, Range
  <2>2. part.items = <<>> => Range(part.items) = {}
    BY DEF Range
  <2>3. QED
    BY <2>1, <2>2 DEF Edges, part
<1>6. edges \subseteq Ids /\ edges \in SUBSET Nat
  BY <1>1, <1>2, <1>5 DEF ListIInv, Standing
<1>7. history.edges \subseteq edges /\ Edges(r) \subseteq edges
  OBVIOUS
<1> HIDE DEF posts, edges
<1>8. /\ view' \in [posts: Seq(Nat), nextCursor: Cursor, filter: Filters, error: BOOLEAN]
      /\ view'.posts = posts /\ view'.nextCursor = part.nextCursor
  BY <1>1, <1>3, <1>4 DEF ListIInv, ListTyped, Page
<1>9. /\ history' \in History
      /\ history'.asOf = history.asOf /\ history'.filter = history.filter
      /\ history'.edges = edges /\ history'.own = history.own
  BY <1>3, <1>6 DEF ListIInv, ListTyped, History
<1>10. history'.tangled = history.tangled
  <2>1. history \in History
    BY DEF ListIInv, ListTyped
  <2>2. QED
    BY ONLY <1>3, <2>1, Zenon DEF History
<1>11. ListTyped'
  BY <1>3, <1>8, <1>9 DEF ListIInv, ListTyped
<1>12. /\ Ascending'
       /\ \A s : Sound(s) => Sound(s)'
       /\ Ids' = Ids
  BY <1>3 DEF ListIInv, Ascending, Ids, Sound, AnswerStands, IsPage, IsCursor, Matches, After,
    CursorOf
<1>13. IsCursor(part.nextCursor)
  <2>1. CASE part.nextCursor = NoCursor
    BY <2>1 DEF IsCursor
  <2>2. CASE part.nextCursor # NoCursor
    <3>1. /\ part.nextCursor = CursorOf(Last(part.items))
          /\ Last(part.items) \in Ids
      BY <1>1, <1>5, <2>2 DEF IsPage
    <3>2. CursorOf(Last(part.items)).row = Last(part.items)
      BY DEF CursorOf
    <3>3. QED
      BY <3>1, <3>2 DEF IsCursor
  <2>3. QED
    BY <2>1, <2>2
<1>14. Standing'
  <2>1. \A s \in requests' : Sound(s)'
    BY <1>3, <1>12 DEF ListIInv, Standing
  <2>2. IsCursor(view.nextCursor)'
    BY <1>3, <1>8, <1>13 DEF IsCursor, Ids, CursorOf
  <2>3. history'.asOf <= Len(rows') /\ history'.own \subseteq Ids'
    BY <1>3, <1>9, <1>12 DEF ListIInv, Standing
  <2>4. Range(view'.posts) \subseteq Ids' /\ history'.edges \subseteq Ids'
    BY <1>1, <1>4, <1>6, <1>8, <1>9, <1>12 DEF ListIInv, Standing
  <2>5. QED
    BY <2>1, <2>2, <2>3, <2>4 DEF Standing
<1>15. ASSUME ~history.tangled PROVE Covered' /\ requests' = {}
  <2> DEFINE row == view.nextCursor.row
  <2>1. requests = {r} /\ Covered
        /\ r.filter = history.filter /\ r.cursor = view.nextCursor /\ r.cursor # NoCursor
        /\ history.asOf <= r.asOf
    BY <1>1, <1>15 DEF ListIInv, Straight, Fits
  <2>2. row \in Ids /\ r.cursor = CursorOf(row) /\ row \in history.edges
        /\ \A i \in Range(view.posts) : row <= i
    BY <2>1 DEF ListIInv, Standing, IsCursor, Covered
  <2>3. ReachedRow = row
    BY <2>1 DEF ReachedRow
  <2> HIDE DEF row
  <2>4. \A i \in Range(part.items) :
          /\ i \in 1..r.asOf /\ Matches(i, history.filter) /\ i < row
    <3> SUFFICES ASSUME NEW i \in Range(part.items)
                 PROVE  i \in 1..r.asOf /\ Matches(i, history.filter) /\ i < row
      OBVIOUS
    <3>1. i \in Ids /\ i \in 1..r.asOf /\ Matches(i, r.filter) /\ After(i, r.cursor)
      BY <1>1 DEF IsPage
    <3>2. i < row
      BY <2>2, <3>1, AfterRow DEF ListIInv
    <3>3. QED
      BY <2>1, <3>1, <3>2
  <2>5. \A i \in Range(view.posts) : i \notin Range(part.items)
    BY <1>2, <2>2, <2>4
  <2>6. IsInjective(posts)
    BY <1>1, <1>4, <2>1, <2>5, InjectiveConcat DEF IsPage, Covered, posts
  <2>7. \A i \in Range(posts) : Matches(i, history.filter) \/ i \in history.own
    BY <1>4, <2>1, <2>4 DEF Covered
  <2>8. part.nextCursor # NoCursor =>
          /\ part.nextCursor.row = Last(part.items)
          /\ part.nextCursor.row \in Range(part.items)
          /\ part.nextCursor.row \in edges
          /\ \A i \in Range(part.items) : part.nextCursor.row <= i
    BY <1>1, <1>5, <1>7 DEF IsPage, CursorOf
  <2>9. part.nextCursor # NoCursor =>
          \A i \in Range(posts) : part.nextCursor.row <= i
    <3> SUFFICES ASSUME part.nextCursor # NoCursor, NEW i \in Range(view.posts)
                 PROVE  part.nextCursor.row <= i
      BY <1>4, <2>8
    <3>1. part.nextCursor.row < row /\ row <= i
      BY <2>2, <2>4, <2>8
    <3>2. part.nextCursor.row \in Nat /\ row \in Nat /\ i \in Nat
      BY <1>1, <1>2, <2>2, <2>8 DEF ListIInv, Standing
    <3>3. QED
      BY <3>1, <3>2
  <2>10. /\ ReachedRow' \in Nat /\ ReachedRow' >= 1
         /\ part.nextCursor # NoCursor => ReachedRow' = part.nextCursor.row
    BY <1>2, <1>8, <1>13 DEF ReachedRow, IsCursor
  <2>11. ASSUME NEW i \in ReachedRow'..history.asOf,
                Matches(i, history.filter), i \notin Range(posts)
         PROVE  \E e \in edges : i < e /\ Cut(rows[i].at) = Cut(rows[e].at)
    <3>1. i \in Nat /\ i >= 1 /\ i <= history.asOf /\ i \in Ids /\ row \in Nat
          /\ i \in 1..r.asOf
      <4>1. history.asOf \in Nat /\ history.asOf <= Len(rows)
        BY DEF ListIInv, ListTyped, History, Standing
      <4>2. QED
        BY <1>1, <1>2, <2>1, <2>2, <2>10, <2>11, <4>1
    <3>2. i \notin Range(view.posts) /\ i \notin Range(part.items)
      BY <1>4, <2>11
    <3>3. CASE i >= row
      <4>1. i \in ReachedRow..history.asOf
        BY <2>3, <3>1, <3>3 DEF ListIInv, ListTyped, History
      <4>2. QED
        BY <1>7, <2>1, <2>11, <3>2, <4>1 DEF Covered
    <3>4. CASE i < row /\ ~After(i, r.cursor)
      BY <1>7, <2>2, <3>1, <3>4, AfterRow DEF ListIInv
    <3>5. CASE After(i, r.cursor)
      <4>1. part.nextCursor # NoCursor /\ i < part.nextCursor.row
        BY <1>1, <2>1, <2>11, <3>1, <3>2, <3>5 DEF IsPage
      <4>2. QED
        BY <2>10, <2>11, <3>1, <4>1
    <3>6. QED
      BY <3>1, <3>3, <3>4, <3>5
  <2>12. \A i : Matches(i, history.filter)' <=> Matches(i, history.filter)
    BY <1>3, <1>9 DEF Matches
  <2>13. requests' = {}
    BY <1>3, <2>1
  <2>14. Covered'
    <3>1. \A i \in Range(view'.posts) :
            Matches(i, history.filter)' \/ i \in history'.own
      BY <1>8, <1>9, <2>7, <2>12
    <3>2. \A i \in ReachedRow'..history'.asOf :
            Matches(i, history.filter)' /\ i \notin Range(view'.posts) =>
              \E e \in history'.edges : i < e /\ Cut(rows'[i].at) = Cut(rows'[e].at)
      <4>1. \A i : Cut(rows'[i].at) = Cut(rows[i].at)
        BY <1>3
      <4>2. QED
        BY <1>8, <1>9, <2>11, <2>12, <4>1
    <3>3. QED
      BY <1>8, <1>9, <2>6, <2>8, <2>9, <3>1, <3>2 DEF Covered
  <2>15. QED
    BY <2>13, <2>14
<1>16. Straight'
  BY <1>10, <1>15, Zenon DEF Straight
<1>17. QED
  BY <1>11, <1>12, <1>14, <1>16 DEF ListIInv
\* The own post goes on top.
LEMMA CreateReturnsStep ==
  ASSUME ListIInv, NEW r \in requests, CreateReturns(r)
  PROVE  ListIInv'
<1>1. r \in Requested /\ Sound(r) /\ r.op = "create" /\ r.stage = "answered"
  BY DEF ListIInv, ListTyped, Standing, CreateReturns
<1>2. PICK n \in Ids : r.answer.items = <<n>>
  BY <1>1 DEF Sound, AnswerStands
<1> DEFINE posts == <<n>> \o view.posts
           own == history.own \cup {n}
<1>3. Ids = 1..Len(rows) /\ Len(rows) \in Nat /\ n \in Nat
  BY LenProperties DEF ListIInv, ListTyped, Ids
<1>4. /\ rows' = rows /\ requests' = requests \ {r}
      /\ view' = [view EXCEPT !.posts = posts]
      /\ history' = [history EXCEPT !.own = own]
  BY <1>2 DEF CreateReturns
<1>5. /\ view.posts \in Seq(Nat) /\ <<n>> \in Seq(Nat) /\ posts \in Seq(Nat)
      /\ Range(<<n>>) = {n} /\ Range(posts) = {n} \cup Range(view.posts)
      /\ IsInjective(<<n>>)
  <2>1. view.posts \in Seq(Nat) /\ <<n>> \in Seq(Nat)
    BY <1>3 DEF ListIInv, ListTyped
  <2>2. Range(<<n>>) = {n} /\ IsInjective(<<n>>)
    BY DEF Range, IsInjective
  <2>3. posts \in Seq(Nat)
    BY <2>1, ConcatProperties
  <2>4. Range(posts) = {n} \cup Range(view.posts)
    <3> DEFINE top == <<n>>
               shown == view.posts
    <3>1. /\ top \in Seq(Nat) /\ shown \in Seq(Nat) /\ posts = top \o shown
          /\ Range(top) = {n}
      BY <2>1, <2>2
    <3> HIDE DEF top
    <3>2. Range(top \o shown) = Range(top) \cup Range(shown)
      BY ONLY <3>1, RangeConcatenation
    <3>3. QED
      BY <3>1, <3>2
  <2>5. QED
    BY <2>1, <2>2, <2>3, <2>4
<1>6. own \subseteq Ids /\ own \in SUBSET Nat
  BY <1>3 DEF ListIInv, Standing
<1>7. history.own \subseteq own /\ n \in own
  OBVIOUS
<1> HIDE DEF posts, own
<1>8. /\ view' \in [posts: Seq(Nat), nextCursor: Cursor, filter: Filters, error: BOOLEAN]
      /\ view'.posts = posts /\ view'.nextCursor = view.nextCursor
  BY <1>4, <1>5 DEF ListIInv, ListTyped
<1>9. /\ history' \in History
      /\ history'.asOf = history.asOf /\ history'.filter = history.filter
      /\ history'.edges = history.edges /\ history'.own = own
  BY <1>4, <1>6 DEF ListIInv, ListTyped, History
<1>10. history'.tangled = history.tangled
  <2>1. history \in History
    BY DEF ListIInv, ListTyped
  <2>2. QED
    BY ONLY <1>4, <2>1, Zenon DEF History
<1>11. ListTyped'
  BY <1>4, <1>8, <1>9 DEF ListIInv, ListTyped
<1>12. /\ Ascending'
       /\ \A s : Sound(s) => Sound(s)'
       /\ Ids' = Ids
  BY <1>4 DEF ListIInv, Ascending, Ids, Sound, AnswerStands, IsPage, IsCursor, Matches, After,
    CursorOf
<1>13. Standing'
  <2>1. \A s \in requests' : Sound(s)'
    BY <1>4, <1>12 DEF ListIInv, Standing
  <2>2. IsCursor(view.nextCursor)'
    BY <1>4, <1>8 DEF ListIInv, Standing, IsCursor, Ids, CursorOf
  <2>3. QED
    BY <1>4, <1>5, <1>6, <1>8, <1>9, <1>12, <2>1, <2>2 DEF ListIInv, Standing
<1>14. ASSUME ~history.tangled PROVE Covered' /\ requests' = {}
  <2>1. requests = {r} /\ Covered /\ n \notin Range(view.posts) /\ n > view.nextCursor.row
    <3>1. Head(<<n>>) = n
      OBVIOUS
    <3>2. QED
      BY <1>1, <1>2, <1>14, <3>1 DEF ListIInv, Straight, Fits
  <2>2. IsInjective(posts)
    BY <1>5, <2>1, InjectiveConcat DEF Covered, posts
  <2>3. ReachedRow' = ReachedRow
    BY <1>8 DEF ReachedRow
  <2>4. \A i : Matches(i, history.filter)' <=> Matches(i, history.filter)
    BY <1>4, <1>9 DEF Matches
  <2>5. \A i \in Range(view'.posts) : Matches(i, history.filter)' \/ i \in history'.own
    BY <1>5, <1>7, <1>8, <1>9, <2>1, <2>4 DEF Covered
  <2>6. \A i \in ReachedRow'..history'.asOf :
          Matches(i, history.filter)' /\ i \notin Range(view'.posts) =>
            \E e \in history'.edges : i < e /\ Cut(rows'[i].at) = Cut(rows'[e].at)
    <3>1. \A i : Cut(rows'[i].at) = Cut(rows[i].at)
      BY <1>4
    <3>2. Range(view.posts) \subseteq Range(view'.posts)
      BY <1>5, <1>8
    <3>3. QED
      BY <1>9, <2>1, <2>3, <2>4, <3>1, <3>2 DEF Covered
  <2>7. view'.nextCursor # NoCursor =>
          /\ view'.nextCursor.row \in history'.edges
          /\ \A i \in Range(view'.posts) : view'.nextCursor.row <= i
    <3>1. view.nextCursor # NoCursor => view.nextCursor.row \in Nat
      BY <1>3 DEF ListIInv, Standing, IsCursor
    <3>2. QED
      BY <1>3, <1>5, <1>8, <1>9, <2>1, <3>1 DEF Covered
  <2>8. requests' = {}
    BY <1>4, <2>1
  <2>9. QED
    BY <1>8, <2>2, <2>5, <2>6, <2>7, <2>8 DEF Covered
<1>15. Straight'
  BY <1>10, <1>14, Zenon DEF Straight
<1>16. QED
  BY <1>11, <1>12, <1>13, <1>15 DEF ListIInv

\* A request that fails leaves the list as it is.
LEMMA FailsStep ==
  ASSUME ListIInv, NEW r \in requests, ListRequestFails(r)
  PROVE  ListIInv'
<1> DEFINE fails == history.fails + 1
<1>1. /\ rows' = rows /\ requests' = requests \ {r}
      /\ view' = [view EXCEPT !.error = TRUE]
      /\ history' = [history EXCEPT !.fails = fails]
  BY DEF ListRequestFails
<1>h. history \in History /\ fails \in Nat
  BY DEF ListIInv, ListTyped, History
<1> HIDE DEF fails
<1>2. /\ view' \in [posts: Seq(Nat), nextCursor: Cursor, filter: Filters, error: BOOLEAN]
      /\ view'.posts = view.posts /\ view'.nextCursor = view.nextCursor
  BY <1>1 DEF ListIInv, ListTyped
<1>3. /\ history' \in History
      /\ history'.asOf = history.asOf /\ history'.filter = history.filter
      /\ history'.edges = history.edges /\ history'.own = history.own
  BY ONLY <1>1, <1>h DEF History
<1>4. history'.tangled = history.tangled
  BY ONLY <1>1, <1>h, Zenon DEF History
<1>5. ListTyped'
  BY <1>1, <1>2, <1>3 DEF ListIInv, ListTyped
<1>6. /\ Ascending'
      /\ \A s : Sound(s) => Sound(s)'
      /\ Ids' = Ids
  BY <1>1 DEF ListIInv, Ascending, Ids, Sound, AnswerStands, IsPage, IsCursor, Matches, After,
    CursorOf
<1>7. Standing'
  <2>1. \A s \in requests' : Sound(s)'
    BY <1>1, <1>6 DEF ListIInv, Standing
  <2>2. IsCursor(view.nextCursor)'
    BY <1>1, <1>2 DEF ListIInv, Standing, IsCursor, Ids, CursorOf
  <2>3. QED
    BY <1>1, <1>2, <1>3, <1>6, <2>1, <2>2 DEF ListIInv, Standing
<1>8. ASSUME ~history.tangled
      PROVE  /\ \A s, t \in requests' : s = t
             /\ \A s \in requests' : Fits(s)'
             /\ Covered'
  <2>1. /\ Covered /\ \A s, t \in requests : s = t
        /\ \A s \in requests : Fits(s)
    BY <1>8 DEF ListIInv, Straight
  <2>2. \A s : Fits(s)' <=> Fits(s)
    BY <1>2, <1>3 DEF Fits
  <2>3. Covered' <=> Covered
    BY <1>1, <1>2, <1>3 DEF Covered, ReachedRow, Matches
  <2>4. QED
    BY <1>1, <2>1, <2>2, <2>3
<1>9. Straight'
  BY <1>4, <1>8, Zenon DEF Straight
<1>10. QED
  BY <1>5, <1>6, <1>7, <1>9 DEF ListIInv

\* Every step keeps the invariant.
LEMMA ListNextIInv == ListIInv /\ [ListNext]_listVars => ListIInv'
<1> SUFFICES ASSUME ListIInv, [ListNext]_listVars PROVE ListIInv'
  OBVIOUS
<1>1. CASE \/ \E filter \in Filters : SetFilter(filter)
           \/ OnLoadMore \/ OnRetryListLoad
           \/ \E type \in Types : OnCreateContribution(type)
  BY <1>1, UserStep
<1>2. ASSUME NEW type \in Types, NEW gap \in 1..Grain, OtherCreates(type, gap) PROVE ListIInv'
  BY <1>2, OtherCreatesStep
<1>3. ASSUME NEW r \in requests, LoadServed(r) PROVE ListIInv'
  BY <1>3, LoadServedStep
<1>4. ASSUME NEW r \in requests, LoadReturns(r) PROVE ListIInv'
  BY <1>4, FirstReturnsStep, MoreReturnsStep DEF LoadReturns
<1>5. ASSUME NEW r \in requests, CreateReturns(r) PROVE ListIInv'
  BY <1>5, CreateReturnsStep
<1>6. ASSUME NEW r \in requests, ListRequestFails(r) PROVE ListIInv'
  BY <1>6, FailsStep
<1>7. ASSUME NEW r \in requests, NEW gap \in 1..Grain, CreateServed(r, gap) PROVE ListIInv'
  BY <1>7, CreateServedStep
<1>8. CASE UNCHANGED listVars
  <2>1. UNCHANGED <<rows, view, history>> /\ requests' = requests
    BY <1>8 DEF listVars
  <2>2. ListTyped'
    BY <2>1 DEF ListIInv, ListTyped
  <2>3. Standing'
    BY <2>1, AllRests DEF ListIInv, Standing, IsCursor, Ids, CursorOf
  <2>4. Straight'
    BY <2>1, AllRests DEF ListIInv, Straight
  <2>5. QED
    BY <2>1, <2>2, <2>3, <2>4, AllRests DEF ListIInv
<1>9. QED
  BY <1>1, <1>2, <1>3, <1>4, <1>5, <1>6, <1>7, <1>8 DEF ListNext

\* The invariant gives page, requests and history their types.
LEMMA ListIInvTypes ==
  ASSUME ListIInv
  PROVE  ListTypeOK
<1>1. /\ Len(rows) \in Nat /\ rows \in [1..Len(rows) -> [type: Types, at: Nat]]
      /\ Ids = 1..Len(rows)
  BY LenProperties DEF ListIInv, ListTyped, Ids
<1>2. \A i \in Ids : rows[i].type \in Types /\ rows[i].at \in Nat
  BY <1>1
<1>3. /\ Range(view.posts) \subseteq Ids
      /\ view.nextCursor.row \in Ids \cup {0}
  BY DEF ListIInv, Standing, IsCursor, NoCursor
<1>4. view.filter \in Filters /\ view.error \in BOOLEAN
  BY DEF ListIInv, ListTyped
<1>5. \A r \in requests :
        /\ r.op \in {"first", "more", "create"} /\ r.stage \in {"sent", "answered"}
        /\ r.filter \in Filters /\ Range(r.answer.items) \subseteq Ids
  BY DEF ListIInv, ListTyped, Requested, Standing, Sound
<1>6. /\ history.sent \in Nat /\ history.asOf \in 0..Len(rows)
      /\ history.edges \subseteq Ids /\ history.own \subseteq Ids
  BY <1>1 DEF ListIInv, ListTyped, History, Standing
<1>7. QED
  BY <1>2, <1>3, <1>4, <1>5, <1>6 DEF ListTypeOK

-----------------------------------------------------------------------------
(***************************************************************************)
(* The theorems.                                                           *)
(***************************************************************************)
\* The inductive invariant holds in every state of the list.
THEOREM ListInvariance == ListSpec => []ListIInv
<1>1. QED
  BY ListInitIInv, ListNextIInv, PTL DEF ListSpec

\* Page, requests and history have their types, and speak of posts there are.
THEOREM ListTypes == ListSpec => []ListTypeOK
<1>1. ListIInv => ListTypeOK
  BY ListIInvTypes
<1>2. QED
  BY <1>1, ListInvariance, PTL

\* Paging loses and repeats nothing, but for the rows of one millisecond that follow the
\* last row of an answer (page.tsx loadContributions, repository.ts listPosts).
THEOREM PagesCover == ListSpec => []PagesCoverTheList
<1>1. ListIInv => PagesCoverTheList
  BY DEF ListIInv, Straight, Covered, ReachedRow, PagesCoverTheList
<1>2. QED
  BY ListInvariance, <1>1, PTL

\* The parts of the web app keep their invariants next to each other: a step of one
\* leaves the state of the others alone.
THEOREM WebInvariance == Spec => [](FeedIInv /\ SessionIInv /\ ListIInv)
<1> DEFINE IInv == FeedIInv /\ SessionIInv /\ ListIInv
           vars == <<subject, feedVars, sessionVars, listVars>>
<1>1. Init => IInv
  BY FeedInitIInv, SessionInitIInv, ListInitIInv DEF Init
<1>2. IInv /\ [Next]_vars => IInv'
  <2> SUFFICES ASSUME IInv, [Next]_vars PROVE IInv'
    OBVIOUS
  <2>1. [FeedNext]_feedVars /\ [SessionNext]_sessionVars /\ [ListNext]_listVars
    BY DEF Next
  <2>2. QED
    BY <2>1, FeedNextIInv, SessionNextIInv, ListNextIInv
<1>3. QED
  BY <1>1, <1>2, PTL DEF Spec

\* The state of the connection, of the session and of the list have their types.
THEOREM WebTypes == Spec => []WebTypeOK
<1>1. FeedIInv /\ SessionIInv /\ ListIInv => WebTypeOK
  BY FeedIInvTypes, ListIInvTypes DEF SessionIInv, WebTypeOK
<1>2. QED
  BY <1>1, WebInvariance, PTL
=============================================================================
