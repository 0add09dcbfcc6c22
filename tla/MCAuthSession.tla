----------------------------- MODULE MCAuthSession -----------------------------
(***************************************************************************)
(* Instances of AuthSession for TLC.  A behaviour is about sessions, where     *)
(* ann logs in, refreshes, logs out and reads, or about accounts, where two    *)
(* people register, log in and read.                                          *)
(***************************************************************************)
EXTENDS AuthSession, TLC

VARIABLE subject

\* imp took ann's e-mail, with a capital, for a username; both are accepted.
MCUsers == {"ann", "imp"}
MCNames == {"ann@x", "Ann@x", "imp@x", "ann"}
MCEmailOf == [u \in MCUsers |-> IF u = "ann" THEN "ann@x" ELSE "imp@x"]
MCUsernameOf == [u \in MCUsers |-> IF u = "ann" THEN "ann" ELSE "Ann@x"]
MCFold == [n \in MCNames |-> IF n = "Ann@x" THEN "ann@x" ELSE n]
MCLengthOf == [u \in MCUsers |-> IF u = "ann" THEN 8 ELSE 9]

Begun == {r \in Requests : stage[r] # "idle"}

\* One request about sessions has an actor of its own headers.  The last request of a
\* behaviour about accounts is not made, and no time passes.
InSubject ==
  \/ /\ subject = "sessions"
     /\ \A r \in Begun :
          /\ input[r].op # "register"
          /\ input[r].op = "login" => input[r].name = "ann" /\ input[r].length = 8
          /\ input[r].op \in BearerOps => input[r].header # "public"
     /\ Cardinality({r \in Begun : /\ input[r].op \in BearerOps
                                   /\ input[r].header # "anonymous"}) <= 1
  \/ /\ subject = "accounts"
     /\ Begun # Requests /\ now = 0
     /\ \A r \in Begun : input[r].op \in {"register", "login", "me"}

AccountsDone ==
  /\ subject = "accounts"
  /\ Running = {} /\ Cardinality(Requests \ Begun) = 1
  /\ UNCHANGED vars

MCInit == Init /\ subject \in {"sessions", "accounts"}

MCNext ==
  /\ UNCHANGED subject
  /\ Next \/ AccountsDone
  /\ InSubject'

MCSpec == MCInit /\ [][MCNext]_<<vars, subject>>

Symmetry == Permutations(Requests)
=============================================================================
