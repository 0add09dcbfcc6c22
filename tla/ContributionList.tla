---------------------------- MODULE ContributionList ----------------------------
(***************************************************************************)
(* The list of contributions: the page that loads it a screen at a time          *)
(* (apps/web/src/app/(app)/app/contributions/page.tsx) and the keyset query that    *)
(* answers (repository.ts, listPosts), while members add posts.                     *)
(*                                                                         *)
(* A post is its number in the order of creation, with the microsecond the           *)
(* database keeps and its type.  The cursor of a page of results is the creation      *)
(* time of its last row as a JavaScript date, cut to the millisecond, and the row.     *)
(* The types do not change; the filters by state and difficulty work the same way.      *)
(* No event refreshes the list: the page takes events of the scope "list" alone,         *)
(* and nobody sends one (RealtimeClient).                                                *)
(***************************************************************************)
EXTENDS Naturals, FiniteSets, SequencesExt

CONSTANTS
  Types,        \* the types of posts
  Grain,        \* microseconds in a millisecond
  Limit,        \* the rows of one answer
  MaxPosts,     \* bound: posts
  MaxRequests,  \* bound: requests of the page
  MaxFails      \* bound: requests that fail

ASSUME ContributionListAssumption ==
  /\ "any" \notin Types
  /\ Grain \in Nat \ {0} /\ Limit \in Nat \ {0}
  /\ {MaxPosts, MaxRequests, MaxFails} \subseteq Nat

VARIABLES
  rows,      \* contribution_posts, by creation
  view,      \* the state of the page
  requests,  \* what the page asked and has not had answered
  history    \* what the answers of the page were made of

listVars == <<rows, view, requests, history>>

NoCursor == [at |-> 0, row |-> 0]
Filters == Types \cup {"any"}

\* Posts created while the database has them: each later than the one before.
Row(type, at) == [type |-> type, at |-> at]
LastAt == IF rows = <<>> THEN 0 ELSE Last(rows).at
Insert(type, gap) == rows' = Append(rows, Row(type, LastAt + gap))

-----------------------------------------------------------------------------
(* The query.                                                                *)

\* toIso of a timestamp: a date keeps milliseconds.
Cut(at) == (at \div Grain) * Grain

Matches(i, filter) == filter = "any" \/ rows[i].type = filter

\* "created_at < cursor or (created_at = cursor and id < row)", newest first.  Ids are
\* random, so that rows of one created_at come in any order: the model takes them in
\* that of their creation, one of the orders they may have.
After(i, cursor) ==
  cursor = NoCursor \/ rows[i].at < cursor.at \/ (rows[i].at = cursor.at /\ i < cursor.row)

CursorOf(i) == [at |-> Cut(rows[i].at), row |-> i]

Found(filter, cursor) == {i \in 1..Len(rows) : Matches(i, filter) /\ After(i, cursor)}

\* "order by created_at desc": of n rows, the one that k - 1 others are newer than.
Newest(found, n) ==
  [k \in 1..n |-> CHOOSE i \in found : Cardinality({j \in found : j > i}) = k - 1]

ListPosts_CursorOfExtraRow(filter, cursor) ==
  LET found == Found(filter, cursor)
  IN IF Cardinality(found) > Limit
     THEN [items |-> Newest(found, Limit),
           nextCursor |-> CursorOf(Last(Newest(found, Limit + 1)))]
     ELSE [items |-> Newest(found, Cardinality(found)), nextCursor |-> NoCursor]

ListPosts(filter, cursor) ==
  LET found == Found(filter, cursor)
  IN IF Cardinality(found) > Limit
     THEN [items |-> Newest(found, Limit),
           nextCursor |-> CursorOf(Last(Newest(found, Limit)))]
     ELSE [items |-> Newest(found, Cardinality(found)), nextCursor |-> NoCursor]

-----------------------------------------------------------------------------
(* The page.                                                                 *)

Nothing == [items |-> <<>>, nextCursor |-> NoCursor]

Request(op, filter, cursor) ==
  [number |-> history.sent + 1, op |-> op, filter |-> filter, cursor |-> cursor,
   stage |-> "sent", answer |-> Nothing, asOf |-> 0]

\* The page mounts with its first load under way.  In history: the requests sent;
\* how many posts there were when the list on the page was first asked for; its
\* filter; the last row of each of its answers; the own posts on it; and whether
\* since then requests overlapped, or more was asked for under another filter (the
\* load of a new filter failed, and the old list and its cursor are still there).
ListInit ==
  /\ rows = <<>>
  /\ view = [posts |-> <<>>, nextCursor |-> NoCursor, filter |-> "any", error |-> FALSE]
  /\ requests = {[number |-> 1, op |-> "first", filter |-> "any", cursor |-> NoCursor,
                  stage |-> "sent", answer |-> Nothing, asOf |-> 0]}
  /\ history = [sent |-> 1, fails |-> 0, asOf |-> 0, filter |-> "any", edges |-> {},
                own |-> {}, tangled |-> FALSE]

Asks(op, filter, cursor) ==
  /\ history.sent < MaxRequests
  /\ requests' = requests \cup {Request(op, filter, cursor)}
  /\ history' = [history EXCEPT !.sent = @ + 1,
                                !.tangled = @ \/ requests # {}
                                              \/ (op = "more" /\ filter # history.filter)]

Busy(op) == \E r \in requests : r.op = op

\* A changed filter makes a new loadContributions, which the effect then calls.
SetFilter(filter) ==
  /\ filter # view.filter
  /\ view' = [view EXCEPT !.filter = filter, !.error = FALSE]
  /\ Asks("first", filter, NoCursor)
  /\ UNCHANGED rows

\* The button is there while there is a cursor, and does nothing while it loads.
OnLoadMore ==
  /\ view.nextCursor # NoCursor
  /\ ~Busy("more")
  /\ view' = [view EXCEPT !.error = FALSE]
  /\ Asks("more", view.filter, view.nextCursor)
  /\ UNCHANGED rows

OnRetryListLoad ==
  /\ view.error
  /\ view' = [view EXCEPT !.error = FALSE]
  /\ Asks("first", view.filter, NoCursor)
  /\ UNCHANGED rows

OnCreateContribution(type) ==
  /\ ~Busy("create")
  /\ view' = [view EXCEPT !.error = FALSE]
  /\ Asks("create", type, NoCursor)
  /\ UNCHANGED rows

Replaced(r, q) == (requests \ {r}) \cup {q}

\* The server answers a load from the rows it then has.
LoadServed(r) ==
  /\ r.stage = "sent" /\ r.op \in {"first", "more"}
  /\ requests' = Replaced(r, [r EXCEPT !.stage = "answered", !.asOf = Len(rows),
                                       !.answer = ListPosts(r.filter, r.cursor)])
  /\ UNCHANGED <<rows, view, history>>

CreateServed(r, gap) ==
  /\ r.stage = "sent" /\ r.op = "create" /\ Len(rows) < MaxPosts
  /\ Insert(r.filter, gap)
  /\ requests' = Replaced(r, [r EXCEPT !.stage = "answered",
                                       !.answer.items = <<Len(rows')>>])
  /\ UNCHANGED <<view, history>>

\* Another member creates a post.
OtherCreates(type, gap) ==
  /\ Len(rows) < MaxPosts
  /\ Insert(type, gap)
  /\ UNCHANGED <<view, requests, history>>

\* loadContributions after its await: a load from the start replaces the list, a
\* load from a cursor is appended to whatever the list then is.
Shows(r) ==
  [view EXCEPT !.posts = IF r.op = "more" THEN @ \o r.answer.items ELSE r.answer.items,
               !.nextCursor = r.answer.nextCursor]

Edges(r) == IF r.answer.items = <<>> THEN {} ELSE {Last(r.answer.items)}

LoadReturns(r) ==
  /\ r.stage = "answered" /\ r.op \in {"first", "more"}
  /\ view' = Shows(r)
  /\ requests' = requests \ {r}
  /\ history' =
       IF r.op = "more" THEN [history EXCEPT !.edges = @ \cup Edges(r)]
       ELSE [history EXCEPT !.asOf = r.asOf, !.filter = r.filter, !.edges = Edges(r),
                            !.own = {},
                            !.tangled = @ /\ ~(requests = {r} /\ r.filter = view.filter)]
  /\ UNCHANGED rows

\* The created post goes on top of the list, whatever its filter is.
CreateReturns(r) ==
  /\ r.stage = "answered" /\ r.op = "create"
  /\ view' = [view EXCEPT !.posts = r.answer.items \o @]
  /\ requests' = requests \ {r}
  /\ history' = [history EXCEPT !.own = @ \cup {Head(r.answer.items)}]
  /\ UNCHANGED rows

\* A request fails, before the server has it or after.
ListRequestFails(r) ==
  /\ history.fails < MaxFails
  /\ requests' = requests \ {r}
  /\ view' = [view EXCEPT !.error = TRUE]
  /\ history' = [history EXCEPT !.fails = @ + 1]
  /\ UNCHANGED rows

ListNext ==
  \/ \E filter \in Filters : SetFilter(filter)
  \/ OnLoadMore \/ OnRetryListLoad
  \/ \E type \in Types :
       \/ OnCreateContribution(type)
       \/ \E gap \in 1..Grain : OtherCreates(type, gap)
  \/ \E r \in requests :
       \/ LoadServed(r) \/ LoadReturns(r) \/ CreateReturns(r) \/ ListRequestFails(r)
       \/ \E gap \in 1..Grain : CreateServed(r, gap)

ListSpec == ListInit /\ [][ListNext]_listVars
-----------------------------------------------------------------------------
Ids == 1..Len(rows)

ListTypeOK ==
  /\ \A i \in Ids : rows[i].type \in Types /\ rows[i].at \in Nat
  /\ Range(view.posts) \subseteq Ids
  /\ view.nextCursor.row \in Ids \cup {0}
  /\ view.filter \in Filters /\ view.error \in BOOLEAN
  /\ \A r \in requests :
       /\ r.op \in {"first", "more", "create"} /\ r.stage \in {"sent", "answered"}
       /\ r.filter \in Filters /\ Range(r.answer.items) \subseteq Ids
  /\ history.sent \in Nat /\ history.asOf \in 0..Len(rows)
  /\ history.edges \subseteq Ids /\ history.own \subseteq Ids

\* Paging loses and repeats nothing: while no two requests of the page overlapped
\* and no more was asked for under a filter that is not the list's, the list has no
\* post twice, only posts of the filter and the own new ones, and, down to its last
\* row, every post that was there when it was first asked for; but for the posts of
\* the same millisecond that follow the last row of an answer.
PagesCoverTheList ==
  requests = {} /\ ~history.tangled =>
    LET shown == Range(view.posts)
        reached == IF view.nextCursor = NoCursor THEN 1 ELSE view.nextCursor.row
    IN /\ IsInjective(view.posts)
       /\ \A i \in shown : Matches(i, history.filter) \/ i \in history.own
       /\ \A i \in reached..history.asOf :
            Matches(i, history.filter) /\ i \notin shown =>
              \E e \in history.edges : i < e /\ Cut(rows[i].at) = Cut(rows[e].at)
=============================================================================
