--------------------------- MODULE DraftSyncProofs ---------------------------
(***************************************************************************)
(* A draft is what its accepted edits made of it, for any pages, patches,    *)
(* fields, targets, snapshots under way and number of restarts.              *)
(***************************************************************************)
EXTENDS DraftSync, SequenceTheorems, TLAPS

\* An edit is made before it is accepted.
AcceptedWereMade == \A v \in DOMAIN Log : edit[Log[v]] # None

\* In the first life of the service nobody holds a version it has not reached.
NothingFromTheFuture ==
  Len(logs) = 1 =>
    /\ \A p \in Patches : edit[p] # None => edit[p] <= Version
    /\ \A c \in Clients : remote[c] # None => remote[c].version <= Version
    /\ \A c \in Clients : \A s \in fetched[c] : s.version <= Version

\* An acknowledgement on its way to a page is one the service gave.
ReturnedWasApplied ==
  \A c \in Clients :
    returned[c] # None /\ returned[c].status = "acknowledged" =>
      Applied(logs, waiting[c], returned[c].version)

IInv ==
  /\ DraftTypeOK
  /\ DraftIsItsEdits /\ AcceptedWereMade /\ EditsFollowTheirBase
  /\ NothingFromTheFuture
  /\ AcknowledgedWasApplied /\ ReturnedWasApplied

-----------------------------------------------------------------------------
(***************************************************************************)
(* Values.                                                                 *)
(***************************************************************************)
\* Results are entries, and only an acknowledgement has a version.
LEMMA ResultKinds ==
  ASSUME NEW result \in Result
  PROVE  /\ result \in Entry /\ result # None
         /\ result.status = "acknowledged" =>
              result.version \in Nat /\ result = Acknowledged(result.version)
         /\ result.status # "acknowledged" => result \in {Conflict, Rejected}
BY DraftNulls DEF Result, Entry, Acknowledged, Conflict, Rejected

\* The answers of the service are results.
LEMMA AnswersAreResults ==
  /\ Conflict \in Result /\ Rejected \in Result
  /\ Conflict # None /\ Rejected # None
  /\ Conflict.status # "acknowledged" /\ Rejected.status # "acknowledged"
  /\ \A v \in Nat : /\ Acknowledged(v) \in Result /\ Acknowledged(v) # None
                    /\ Acknowledged(v) # Conflict
                    /\ Acknowledged(v).status = "acknowledged"
                    /\ Acknowledged(v).version = v
<1>1. Conflict \in Result /\ Rejected \in Result
  BY DEF Result, Conflict, Rejected
<1>2. Conflict.status # "acknowledged" /\ Rejected.status # "acknowledged"
  BY DEF Conflict, Rejected
<1>3. ASSUME NEW v \in Nat
      PROVE  /\ Acknowledged(v) \in Result
             /\ Acknowledged(v).status = "acknowledged" /\ Acknowledged(v).version = v
  BY DEF Acknowledged, Result
<1>4. QED
  BY <1>1, <1>2, <1>3, ResultKinds

\* Marks of the store are entries, and none is an acknowledgement.
LEMMA MarksAreEntries ==
  ASSUME NEW status \in {"optimistic_applied", "retrying", "rolled_back"}
  PROVE  /\ [status |-> status] \in Entry /\ [status |-> status] # None
         /\ [status |-> status].status # "acknowledged"
<1>1. [status |-> status] \in Entry
  BY DEF Entry
<1>2. QED
  BY <1>1, DraftNulls

\* The version and the fields of the draft have their types.
LEMMA DraftParts ==
  ASSUME DraftTypeOK
  PROVE  Version \in Nat /\ Content \in Fields /\ Log \in Seq(Patches) /\ Len(logs) \in Nat \ {0}
<1>1. Version \in Nat
  BY DEF DraftTypeOK, Version, Snapshot
<1>2. Content \in Fields
  BY DEF DraftTypeOK, Content, Snapshot, Fields, Blank
<1>3. Len(logs) \in Nat \ {0} /\ Len(logs) \in DOMAIN logs
  BY EmptySeq DEF DraftTypeOK
<1>4. Log \in Seq(Patches)
  BY <1>3 DEF DraftTypeOK, Log
<1>5. QED
  BY <1>1, <1>2, <1>3, <1>4

\* What was applied in the only life of the service is not of the future.
LEMMA AppliedIsPast ==
  ASSUME DraftTypeOK, DraftIsItsEdits, Len(logs) = 1,
         NEW p \in Patches, NEW n, Applied(logs, p, n)
  PROVE  n \in Nat /\ n <= Version
<1>1. PICK l \in DOMAIN logs : n \in DOMAIN logs[l]
  BY DEF Applied
<1>2. l = Len(logs)
  BY <1>1 DEF DraftTypeOK
<1>3. n \in 1..Len(Log)
  BY <1>1, <1>2, DraftParts DEF Log
<1>4. QED
  BY <1>3, DraftParts DEF DraftIsItsEdits

\* What the service remembers as acknowledged it has applied.
LEMMA RememberedWasApplied ==
  ASSUME DraftTypeOK, DraftIsItsEdits, NEW p \in Patches,
         results[p] # None, results[p].status = "acknowledged"
  PROVE  Applied(logs, p, results[p].version)
<1>1. results[p] \in Result
  BY DEF DraftTypeOK
<1>2. results[p] # Conflict
  BY AnswersAreResults
<1>3. PICK v \in DOMAIN Log : Log[v] = p
  BY <1>2 DEF DraftIsItsEdits
<1>4. results[p] = Acknowledged(v) /\ v \in Nat
  BY <1>3, DraftParts DEF DraftIsItsEdits
<1>5. results[p].version = v
  BY <1>4, AnswersAreResults
<1>6. Len(logs) \in DOMAIN logs
  BY DraftParts DEF DraftTypeOK
<1>7. QED
  BY <1>3, <1>5, <1>6 DEF Applied, Log

-----------------------------------------------------------------------------
(***************************************************************************)
(* The service.                                                            *)
(***************************************************************************)
\* Nothing is there at the start.
THEOREM DraftInitIInv == DraftInit => IInv
<1> SUFFICES ASSUME DraftInit PROVE IInv
  OBVIOUS
<1>1. Log = <<>> /\ logs = << <<>> >>
  BY DEF DraftInit, Log
<1>2. DraftTypeOK
  <2>1. logs \in Seq(Seq(Patches)) /\ logs # <<>>
    BY <1>1
  <2>2. QED
    BY <2>1 DEF DraftInit, DraftTypeOK
<1>3. DraftIsItsEdits
  <2>1. \A k \in Keys : LeftBy(Log, k, Content[k])
    BY <1>1 DEF DraftInit, LeftBy, Content, Blank
  <2>2. QED
    BY <1>1, <2>1 DEF DraftInit, DraftIsItsEdits, Version
<1>4. AcceptedWereMade /\ EditsFollowTheirBase
  BY <1>1 DEF AcceptedWereMade, EditsFollowTheirBase
<1>5. NothingFromTheFuture
  BY DEF DraftInit, NothingFromTheFuture
<1>6. AcknowledgedWasApplied /\ ReturnedWasApplied
  BY DEF DraftInit, AcknowledgedWasApplied, ReturnedWasApplied
<1>7. QED
  BY <1>2, <1>3, <1>4, <1>5, <1>6 DEF IInv

\* As long as the service does nothing and no edit is made anew, what it holds agrees.
LEMMA ServiceRests ==
  ASSUME IInv, UNCHANGED server,
         \A p \in Patches : edit[p] # None => edit'[p] = edit[p]
  PROVE  /\ DraftIsItsEdits' /\ AcceptedWereMade' /\ EditsFollowTheirBase'
         /\ Version' = Version /\ Len(logs)' = Len(logs)
         /\ \A p \in Patches : \A n : Applied(logs', p, n) <=> Applied(logs, p, n)
<1>1. /\ draft' = draft /\ results' = results /\ logs' = logs
      /\ Log' = Log /\ Version' = Version /\ Content' = Content
  BY DEF server, Log, Version, Content
<1>2. DraftIsItsEdits'
  BY <1>1 DEF IInv, DraftIsItsEdits
<1>3. \A v \in DOMAIN Log : Log[v] \in Patches /\ edit'[Log[v]] = edit[Log[v]]
  BY DraftParts DEF IInv, AcceptedWereMade
<1>4. AcceptedWereMade' /\ EditsFollowTheirBase'
  BY <1>1, <1>3 DEF IInv, AcceptedWereMade, EditsFollowTheirBase
<1>5. QED
  BY <1>1, <1>2, <1>4 DEF Applied

\* The answer given to a page: of the right type, only to one that waits for it, and an
\* acknowledgement only of what has been applied.
LEMMA ReturnStep ==
  ASSUME DraftTypeOK, NEW p \in Patches, NEW result \in Result,
         Return(p, result), UNCHANGED waiting,
         \A q \in Patches : \A n : Applied(logs, q, n) => Applied(logs', q, n),
         result.status = "acknowledged" => Applied(logs', p, result.version),
         ReturnedWasApplied
  PROVE  /\ returned' \in [Clients -> Result \cup {None}]
         /\ \A c \in Clients : waiting'[c] = None => returned'[c] = None
         /\ ReturnedWasApplied'
<1>1. AuthorOf[p] \in Clients /\ p # None
  BY DraftAssumption, DraftNulls
<1>2. /\ returned \in [Clients -> Result \cup {None}]
      /\ \A c \in Clients : waiting[c] = None => returned[c] = None
      /\ waiting \in [Clients -> Patches \cup {None}]
  BY DEF DraftTypeOK
<1>3. CASE returned' = returned
  BY <1>2, <1>3 DEF ReturnedWasApplied
<1>4. CASE /\ waiting[AuthorOf[p]] = p
           /\ returned' = [returned EXCEPT ![AuthorOf[p]] = result]
  <2>1. /\ returned' \in [Clients -> Result \cup {None}]
        /\ \A c \in Clients : waiting'[c] = None => returned'[c] = None
    BY <1>1, <1>2, <1>4
  <2>2. ASSUME NEW c \in Clients, returned'[c] # None,
               returned'[c].status = "acknowledged"
        PROVE  Applied(logs', waiting'[c], returned'[c].version)
    <3>1. CASE c = AuthorOf[p]
      BY <1>2, <1>4, <2>2, <3>1
    <3>2. CASE c # AuthorOf[p]
      <4>1. returned'[c] = returned[c] /\ waiting[c] \in Patches
        BY <1>2, <1>4, <2>2, <3>2
      <4>2. Applied(logs, waiting[c], returned[c].version)
        BY <2>2, <4>1 DEF ReturnedWasApplied
      <4>3. QED
        BY <4>1, <4>2
    <3>3. QED
      BY <3>1, <3>2
  <2>3. QED
    BY <2>1, <2>2 DEF ReturnedWasApplied
<1>5. QED
  BY <1>3, <1>4 DEF Return

\* A repeated patch gets the answer it had.
LEMMA ReplayStep ==
  ASSUME IInv, NEW p \in Patches, Replay(p), UNCHANGED <<stores, waiting, fetched>>
  PROVE  IInv'
<1>1. /\ edit' = edit /\ remote' = remote /\ pending' = pending
      /\ draft' = draft /\ results' = results /\ logs' = logs /\ UNCHANGED server
  BY DEF stores, Replay, server
<1>2. /\ DraftIsItsEdits' /\ AcceptedWereMade' /\ EditsFollowTheirBase'
      /\ Version' = Version /\ Len(logs)' = Len(logs)
      /\ \A q \in Patches : \A n : Applied(logs', q, n) <=> Applied(logs, q, n)
  BY <1>1, ServiceRests
<1>3. results[p] \in Result
  BY DEF IInv, DraftTypeOK, Replay
<1>4. results[p].status = "acknowledged" => Applied(logs', p, results[p].version)
  BY <1>2, <1>3, RememberedWasApplied, ResultKinds DEF IInv
<1>5. /\ returned' \in [Clients -> Result \cup {None}]
      /\ \A c \in Clients : waiting'[c] = None => returned'[c] = None
      /\ ReturnedWasApplied'
  BY <1>2, <1>3, <1>4, ReturnStep DEF IInv, Replay
<1>6. DraftTypeOK'
  BY <1>1, <1>5 DEF IInv, DraftTypeOK
<1>7. NothingFromTheFuture'
  BY <1>1, <1>2 DEF IInv, NothingFromTheFuture
<1>8. AcknowledgedWasApplied'
  <2>1. ASSUME NEW q \in Patches, pending[q] # None, pending[q].status = "acknowledged"
        PROVE  Applied(logs', q, pending[q].version)
    BY <1>2, <2>1 DEF IInv, AcknowledgedWasApplied
  <2>2. QED
    BY <1>1, <2>1 DEF AcknowledgedWasApplied
<1>9. QED
  BY <1>2, <1>5, <1>6, <1>7, <1>8 DEF IInv

\* A conflict leaves the draft; the patch was not in it.
LEMMA TurnDownStep ==
  ASSUME IInv, NEW p \in Patches, TurnDown(p), UNCHANGED <<stores, waiting, fetched>>
  PROVE  IInv'
<1>1. /\ edit' = edit /\ remote' = remote /\ pending' = pending
      /\ draft' = draft /\ logs' = logs /\ Version' = Version /\ Log' = Log
      /\ Content' = Content /\ results' = [results EXCEPT ![p] = Conflict]
      /\ results[p] = None
  BY DEF stores, TurnDown, Version, Log, Content
<1>2. \A q \in Patches : \A n : Applied(logs', q, n) <=> Applied(logs, q, n)
  BY <1>1 DEF Applied
<1>3. results' \in [Patches -> Result \cup {None}] /\ results'[p] = Conflict
  BY <1>1, AnswersAreResults DEF IInv, DraftTypeOK
<1>4. /\ returned' \in [Clients -> Result \cup {None}]
      /\ \A c \in Clients : waiting'[c] = None => returned'[c] = None
      /\ ReturnedWasApplied'
  BY <1>2, ReturnStep, AnswersAreResults DEF IInv, TurnDown
<1>5. DraftTypeOK'
  BY <1>1, <1>3, <1>4 DEF IInv, DraftTypeOK
<1>6. \A v \in DOMAIN Log : Log[v] # p /\ Log[v] \in Patches
  <2>1. ASSUME NEW v \in DOMAIN Log PROVE results[Log[v]] # None /\ Log[v] \in Patches
    BY DraftParts, AnswersAreResults DEF IInv, DraftIsItsEdits
  <2>2. QED
    BY <1>1, <2>1
<1>7. DraftIsItsEdits'
  <2>1. \A v \in DOMAIN Log : results'[Log[v]] = Acknowledged(v)
    BY <1>1, <1>6 DEF IInv, DraftIsItsEdits
  <2>2. \A q \in Patches : results'[q] # None /\ results'[q] # Conflict =>
          \E v \in DOMAIN Log : Log[v] = q
    BY <1>1, <1>3 DEF IInv, DraftIsItsEdits, DraftTypeOK
  <2>3. QED
    BY <1>1, <2>1, <2>2 DEF IInv, DraftIsItsEdits
<1>8. AcceptedWereMade' /\ EditsFollowTheirBase' /\ NothingFromTheFuture'
  BY <1>1 DEF IInv, AcceptedWereMade, EditsFollowTheirBase, NothingFromTheFuture
<1>9. AcknowledgedWasApplied'
  <2>1. ASSUME NEW q \in Patches, pending[q] # None, pending[q].status = "acknowledged"
        PROVE  Applied(logs', q, pending[q].version)
    BY <1>2, <2>1 DEF IInv, AcknowledgedWasApplied
  <2>2. QED
    BY <1>1, <2>1 DEF AcknowledgedWasApplied
<1>10. QED
  BY <1>4, <1>5, <1>7, <1>8, <1>9 DEF IInv

\* The log of the life the service is in grows at its end; the other lives stay.
LEMMA LogGrows ==
  ASSUME DraftTypeOK, NEW p \in Patches,
         logs' = [logs EXCEPT ![Len(logs)] = Append(Log, p)]
  PROVE  /\ logs' \in Seq(Seq(Patches)) /\ logs' # <<>> /\ Len(logs') = Len(logs)
         /\ Log' = Append(Log, p)
         /\ \A q \in Patches : \A n :
              Applied(logs, q, n) => Applied(logs', q, n)
         /\ Applied(logs', p, Len(Log) + 1)
<1> DEFINE new == Append(Log, p)
<1>1. Log \in Seq(Patches) /\ Len(logs) \in 1..Len(logs) /\ logs \in Seq(Seq(Patches))
  BY DraftParts DEF DraftTypeOK
<1>2. /\ new \in Seq(Patches) /\ Len(new) = Len(Log) + 1 /\ Len(Log) \in Nat
      /\ DOMAIN new = 1..(Len(Log) + 1) /\ DOMAIN Log = 1..Len(Log)
      /\ \A n \in 1..Len(Log) : new[n] = Log[n]
      /\ new[Len(Log) + 1] = p
  BY <1>1, AppendProperties
<1> HIDE DEF new
<1>3. logs' = [logs EXCEPT ![Len(logs)] = new]
  BY DEF new
<1>4. logs' \in Seq(Seq(Patches)) /\ Len(logs') = Len(logs) /\ logs'[Len(logs)] = new
  BY <1>1, <1>2, <1>3, ExceptSeq
<1>5. logs' # <<>>
  BY <1>1, <1>4
<1>6. Log' = new
  BY <1>4 DEF Log
<1>7. DOMAIN logs' = DOMAIN logs
  BY <1>3
<1>8. Applied(logs', p, Len(Log) + 1)
  <2>1. Len(logs) \in DOMAIN logs'
    BY <1>1, <1>7
  <2>2. Len(Log) + 1 \in DOMAIN new
    BY <1>2
  <2>3. QED
    BY <2>1, <2>2, <1>2, <1>4 DEF Applied
<1>9. ASSUME NEW q \in Patches, NEW n, Applied(logs, q, n)
      PROVE  Applied(logs', q, n)
  <2>1. PICK l \in DOMAIN logs : n \in DOMAIN logs[l] /\ logs[l][n] = q
    BY <1>9 DEF Applied
  <2>2. CASE l = Len(logs)
    <3>1. n \in 1..Len(Log) /\ Log[n] = q
      BY <2>1, <2>2, <1>2 DEF Log
    <3>2. n \in DOMAIN new /\ new[n] = q
      BY <3>1, <1>2
    <3>3. QED
      BY <3>2, <2>1, <2>2, <1>4, <1>7 DEF Applied
  <2>3. CASE l # Len(logs)
    BY <2>1, <2>3, <1>3, <1>7 DEF Applied
  <2>4. QED
    BY <2>2, <2>3
<1>10. QED
  BY <1>4, <1>5, <1>6, <1>8, <1>9 DEF new

\* An accepted edit becomes the last one of its field and leaves the other fields.
LEMMA LeftByAppend ==
  ASSUME NEW log \in Seq(Patches), NEW p \in Patches, NEW k \in Keys, NEW value,
         LeftBy(log, k, value)
  PROVE  LeftBy(Append(log, p), k, IF KeyOf[p] = k THEN Effect(p) ELSE value)
<1> DEFINE new == Append(log, p)
<1>1. /\ Len(log) \in Nat /\ DOMAIN log = 1..Len(log)
      /\ DOMAIN new = 1..(Len(log) + 1)
      /\ \A n \in 1..Len(log) : new[n] = log[n]
      /\ new[Len(log) + 1] = p
  BY AppendProperties
<1> HIDE DEF new
<1>2. CASE KeyOf[p] = k
  <2>1. \A w \in DOMAIN new : w <= Len(log) + 1
    BY <1>1
  <2>2. Len(log) + 1 \in DOMAIN new
    BY <1>1
  <2>3. QED
    BY <2>1, <2>2, <1>1, <1>2 DEF LeftBy, new
<1>3. CASE KeyOf[p] # k
  <2>1. CASE value = Absent /\ \A v \in DOMAIN log : KeyOf[log[v]] # k
    <3>1. \A v \in DOMAIN new : KeyOf[new[v]] # k
      BY <1>1, <1>3, <2>1
    <3>2. QED
      BY <3>1, <2>1, <1>3 DEF LeftBy, new
  <2>2. ASSUME NEW v \in DOMAIN log, KeyOf[log[v]] = k, value = Effect(log[v]),
               \A w \in DOMAIN log : KeyOf[log[w]] = k => w <= v
        PROVE  LeftBy(Append(log, p), k, value)
    <3>1. v \in DOMAIN new /\ new[v] = log[v]
      BY <1>1
    <3>2. \A w \in DOMAIN new : KeyOf[new[w]] = k => w <= v
      BY <1>1, <1>3, <2>2
    <3>3. QED
      BY <3>1, <3>2, <2>2 DEF LeftBy, new
  <2>3. QED
    BY <1>3, <2>1, <2>2 DEF LeftBy
<1>4. QED
  BY <1>2, <1>3

\* The accepted patch was not in the log and is its last, and the one whose base is the
\* version before.
LEMMA TakeUpStep ==
  ASSUME IInv, NEW p \in Patches, edit[p] # None, TakeUp(p),
         UNCHANGED <<stores, waiting, fetched>>
  PROVE  IInv'
<1> DEFINE n == Len(Log) + 1
           ack == Acknowledged(n)
<1>1. /\ Version = Len(Log) /\ Version \in Nat /\ n \in Nat
      /\ Content \in Fields /\ Log \in Seq(Patches) /\ Len(logs) \in Nat
  BY DraftParts DEF IInv, DraftIsItsEdits
<1>2. /\ ~Stale(p) /\ Verdict(p) = ack
  BY <1>1, AnswersAreResults DEF TakeUp, Verdict
<1>3. /\ draft' = [target |-> TargetOf[p], version |-> n, fields |-> ApplyPatch(Content, p)]
      /\ logs' = [logs EXCEPT ![Len(logs)] = Append(Log, p)]
      /\ results' = [results EXCEPT ![p] = ack]
      /\ edit' = edit /\ remote' = remote /\ pending' = pending /\ fetched' = fetched
  BY <1>1 DEF TakeUp, Accept, stores
<1>4. /\ logs' \in Seq(Seq(Patches)) /\ logs' # <<>> /\ Len(logs') = Len(logs)
      /\ Log' = Append(Log, p)
      /\ \A q \in Patches : \A v : Applied(logs, q, v) => Applied(logs', q, v)
      /\ Applied(logs', p, n)
  BY <1>3, LogGrows DEF IInv
<1>5. /\ Len(Log') = n /\ Log' # <<>>
      /\ DOMAIN Log' = 1..n /\ DOMAIN Log = 1..(n - 1)
      /\ \A v \in 1..(n - 1) : Log'[v] = Log[v]
      /\ Log'[n] = p
  BY <1>1, <1>4, AppendProperties
<1>6. /\ ack \in Result /\ ack # None /\ ack # Conflict
      /\ ack.status = "acknowledged" /\ ack.version = n
  BY <1>1, AnswersAreResults
<1>7. /\ draft' \in Snapshot /\ draft' # None
      /\ Version' = n /\ Content' = ApplyPatch(Content, p)
  <2>1. Effect(p) \in Patches \cup {Absent} /\ KeyOf[p] \in Keys /\ TargetOf[p] \in Targets
    BY DraftAssumption DEF Effect
  <2>2. ApplyPatch(Content, p) \in Fields
    BY <1>1, <2>1 DEF ApplyPatch, Fields
  <2>3. draft' \in Snapshot
    BY <1>1, <1>3, <2>1, <2>2 DEF Snapshot
  <2>4. draft' # None
    BY <2>3, DraftNulls
  <2>5. QED
    BY <1>3, <2>3, <2>4 DEF Version, Content
<1>8. /\ returned' \in [Clients -> Result \cup {None}]
      /\ \A c \in Clients : waiting'[c] = None => returned'[c] = None
      /\ ReturnedWasApplied'
  <2>1. Return(p, ack)
    BY <1>2 DEF TakeUp
  <2> HIDE DEF ack, n
  <2>2. QED
    BY <2>1, <1>4, <1>6, ReturnStep DEF IInv
<1>9. results' \in [Patches -> Result \cup {None}]
  <2> HIDE DEF ack
  <2> QED
    BY <1>3, <1>6 DEF IInv, DraftTypeOK
<1>10. DraftTypeOK'
  BY <1>3, <1>4, <1>7, <1>8, <1>9 DEF IInv, DraftTypeOK
<1>11. \A v \in 1..(n - 1) : Log[v] # p /\ Log[v] \in Patches
  <2>1. results[p] = None
    BY DEF TakeUp
  <2>2. ASSUME NEW v \in 1..(n - 1) PROVE Log[v] # p /\ Log[v] \in Patches
    <3>1. results[Log[v]] = Acknowledged(v) /\ v \in Nat /\ Log[v] \in Patches
      BY <1>1, <1>5 DEF IInv, DraftIsItsEdits
    <3>2. QED
      BY <2>1, <3>1, AnswersAreResults
  <2>3. QED
    BY <2>2
<1>12. DraftIsItsEdits'
  <2>1. ASSUME NEW k \in Keys PROVE LeftBy(Log', k, Content'[k])
    <3>1. LeftBy(Log, k, Content[k])
      BY DEF IInv, DraftIsItsEdits
    <3>2. Content'[k] = IF KeyOf[p] = k THEN Effect(p) ELSE Content[k]
      BY <1>1, <1>7 DEF ApplyPatch, Fields
    <3>3. LeftBy(Append(Log, p), k, IF KeyOf[p] = k THEN Effect(p) ELSE Content[k])
      BY <1>1, <3>1, LeftByAppend
    <3>4. QED
      BY <1>4, <3>2, <3>3
  <2>2. ASSUME NEW v \in 1..n PROVE results'[Log'[v]] = Acknowledged(v)
    <3>1. CASE v = n
      BY <1>3, <1>5, <3>1 DEF IInv, DraftTypeOK
    <3>2. CASE v # n
      <4>1. v \in 1..(n - 1)
        BY <1>1, <3>2
      <4>2. results[Log[v]] = Acknowledged(v)
        BY <4>1, <1>5 DEF IInv, DraftIsItsEdits
      <4>3. QED
        BY <4>1, <4>2, <1>3, <1>5, <1>11 DEF IInv, DraftTypeOK
    <3>3. QED
      BY <3>1, <3>2
  <2>3. ASSUME NEW q \in Patches, results'[q] # None, results'[q] # Conflict
        PROVE  \E v \in DOMAIN Log' : Log'[v] = q
    <3>1. CASE q = p
      BY <3>1, <1>1, <1>5
    <3>2. CASE q # p
      <4>1. results[q] # None /\ results[q] # Conflict
        BY <2>3, <3>2, <1>3 DEF IInv, DraftTypeOK
      <4>2. PICK v \in DOMAIN Log : Log[v] = q
        BY <4>1 DEF IInv, DraftIsItsEdits
      <4>3. v \in DOMAIN Log' /\ Log'[v] = q
        BY <4>2, <1>1, <1>5
      <4>4. QED
        BY <4>3
    <3>3. QED
      BY <3>1, <3>2
  <2>4. QED
    BY <1>1, <1>5, <1>7, <2>1, <2>2, <2>3 DEF DraftIsItsEdits
<1>13. AcceptedWereMade'
  BY <1>1, <1>3, <1>5 DEF IInv, AcceptedWereMade
<1>14. EditsFollowTheirBase'
  <2>1. edit[p] \in Nat /\ edit[p] >= n - 1 /\ (Len(logs) = 1 => edit[p] = n - 1)
    <3>1. edit[p] \in Nat
      BY DEF IInv, DraftTypeOK, Bases
    <3>2. edit[p] >= n - 1
      BY <3>1, <1>1, <1>2 DEF Stale
    <3>3. Len(logs) = 1 => edit[p] <= Version
      BY DEF IInv, NothingFromTheFuture
    <3>4. QED
      BY <3>1, <3>2, <3>3, <1>1
  <2>2. ASSUME NEW v \in 1..n
        PROVE  /\ edit'[Log'[v]] >= v - 1
               /\ Len(logs') = 1 => edit'[Log'[v]] = v - 1
    <3>1. CASE v = n
      BY <2>1, <3>1, <1>3, <1>4, <1>5
    <3>2. CASE v # n
      <4>1. v \in 1..(n - 1)
        BY <1>1, <3>2
      <4>2. edit[Log[v]] >= v - 1 /\ (Len(logs) = 1 => edit[Log[v]] = v - 1)
        BY <4>1, <1>5 DEF IInv, EditsFollowTheirBase
      <4>3. QED
        BY <4>1, <4>2, <1>3, <1>4, <1>5
    <3>3. QED
      BY <3>1, <3>2
  <2>3. QED
    BY <2>2, <1>5 DEF EditsFollowTheirBase
<1>15. NothingFromTheFuture'
  <2> SUFFICES ASSUME Len(logs') = 1
               PROVE  /\ \A q \in Patches : edit[q] # None => edit[q] <= n
                      /\ \A c \in Clients : remote[c] # None => remote[c].version <= n
                      /\ \A c \in Clients : \A s \in fetched[c] : s.version <= n
    BY <1>3, <1>7 DEF NothingFromTheFuture
  <2>1. /\ \A q \in Patches : edit[q] # None => edit[q] <= n - 1
        /\ \A c \in Clients : remote[c] # None => remote[c].version <= n - 1
        /\ \A c \in Clients : \A s \in fetched[c] : s.version <= n - 1
    <3>1. Version = n - 1 /\ Len(logs) = 1
      <4>1. Len(logs) = 1
        BY <1>4
      <4>2. Version = n - 1
        BY <1>1
      <4>3. QED
        BY <4>1, <4>2
    <3> HIDE DEF n
    <3>2. QED
      BY <3>1 DEF IInv, NothingFromTheFuture
  <2>2. /\ \A q \in Patches : edit[q] # None => edit[q] \in Nat
        /\ \A c \in Clients : remote[c] # None => remote[c].version \in Nat
        /\ \A c \in Clients : \A s \in fetched[c] : s.version \in Nat
    BY DEF IInv, DraftTypeOK, Bases, Snapshot
  <2>3. \A i \in Nat : i <= n - 1 => i <= n
    BY <1>1
  <2> HIDE DEF n
  <2>4. QED
    BY <2>1, <2>2, <2>3
<1>16. AcknowledgedWasApplied'
  <2>1. ASSUME NEW q \in Patches, pending[q] # None, pending[q].status = "acknowledged"
        PROVE  Applied(logs', q, pending[q].version)
    BY <1>4, <2>1 DEF IInv, AcknowledgedWasApplied
  <2>2. QED
    BY <1>3, <2>1 DEF AcknowledgedWasApplied
<1>17. QED
  BY <1>8, <1>10, <1>12, <1>13, <1>14, <1>15, <1>16 DEF IInv

\* A refusal is no acknowledgement.
LEMMA RefuseStep ==
  ASSUME IInv, NEW p \in Patches, Refuse(p)
  PROVE  IInv'
<1>1. /\ edit' = edit /\ remote' = remote /\ pending' = pending /\ fetched' = fetched
      /\ draft' = draft /\ results' = results /\ logs' = logs /\ UNCHANGED server
      /\ UNCHANGED waiting /\ Return(p, Rejected)
  BY DEF stores, server, Refuse
<1>2. /\ DraftIsItsEdits' /\ AcceptedWereMade' /\ EditsFollowTheirBase'
      /\ Version' = Version
  BY <1>1, ServiceRests
<1>3. /\ returned' \in [Clients -> Result \cup {None}]
      /\ \A c \in Clients : waiting'[c] = None => returned'[c] = None
      /\ ReturnedWasApplied'
  BY <1>1, ReturnStep, AnswersAreResults DEF IInv
<1>4. DraftTypeOK'
  BY <1>1, <1>3 DEF IInv, DraftTypeOK
<1>5. NothingFromTheFuture' /\ AcknowledgedWasApplied'
  BY <1>1, <1>2 DEF IInv, NothingFromTheFuture, AcknowledgedWasApplied
<1>6. QED
  BY <1>2, <1>3, <1>4, <1>5 DEF IInv

\* A snapshot is the draft as it is.
LEMMA GetSnapshotStep ==
  ASSUME IInv, NEW c \in Clients, GetSnapshot(c)
  PROVE  IInv'
<1>1. /\ edit' = edit /\ remote' = remote /\ pending' = pending
      /\ draft' = draft /\ results' = results /\ logs' = logs /\ UNCHANGED server
      /\ waiting' = waiting /\ returned' = returned
      /\ draft # None /\ fetched' = [fetched EXCEPT ![c] = @ \cup {draft}]
  BY DEF stores, server, GetSnapshot
<1>2. /\ DraftIsItsEdits' /\ AcceptedWereMade' /\ EditsFollowTheirBase'
      /\ Version' = Version /\ Len(logs') = Len(logs)
  BY <1>1, ServiceRests
<1>3. DraftTypeOK'
  BY <1>1 DEF IInv, DraftTypeOK
<1>4. NothingFromTheFuture'
  <2> SUFFICES ASSUME Len(logs') = 1
               PROVE  \A d \in Clients : \A s \in fetched'[d] : s.version <= Version
    BY <1>1, <1>2 DEF IInv, NothingFromTheFuture
  <2>1. draft.version <= Version
    BY <1>1, DraftParts DEF IInv, Version
  <2>2. \A d \in Clients : \A s \in fetched[d] : s.version <= Version
    BY <1>2 DEF IInv, NothingFromTheFuture
  <2>3. QED
    BY <1>1, <2>1, <2>2 DEF IInv, DraftTypeOK
<1>5. AcknowledgedWasApplied' /\ ReturnedWasApplied'
  BY <1>1 DEF IInv, AcknowledgedWasApplied, ReturnedWasApplied
<1>6. QED
  BY <1>2, <1>3, <1>4, <1>5 DEF IInv

\* A new life has an empty log; what was applied in the lives before stays so.
LEMMA RestartStep ==
  ASSUME IInv, Restart
  PROVE  IInv'
<1>1. /\ edit' = edit /\ remote' = remote /\ pending' = pending
      /\ waiting' = waiting /\ returned' = returned /\ fetched' = fetched
      /\ draft' = None /\ results' = [p \in Patches |-> None]
      /\ logs' = Append(logs, <<>>)
  BY DEF stores, network, Restart
<1>2. /\ logs \in Seq(Seq(Patches)) /\ Len(logs) \in Nat \ {0} /\ <<>> \in Seq(Patches)
      /\ DOMAIN logs = 1..Len(logs)
  BY DraftParts DEF IInv, DraftTypeOK
<1>3. /\ logs' \in Seq(Seq(Patches)) /\ Len(logs') = Len(logs) + 1
      /\ DOMAIN logs' = 1..(Len(logs) + 1)
      /\ \A l \in 1..Len(logs) : logs'[l] = logs[l]
      /\ logs'[Len(logs) + 1] = <<>>
  BY <1>1, <1>2, AppendProperties
<1>4. logs' # <<>> /\ Len(logs') # 1 /\ Log' = <<>>
  BY <1>2, <1>3 DEF Log
<1>5. \A p \in Patches : \A n : Applied(logs, p, n) => Applied(logs', p, n)
  <2>1. ASSUME NEW l \in DOMAIN logs PROVE l \in DOMAIN logs' /\ logs'[l] = logs[l]
    BY <1>2, <1>3
  <2>2. QED
    BY <2>1 DEF Applied
<1>6. DraftTypeOK'
  BY <1>1, <1>3, <1>4 DEF IInv, DraftTypeOK
<1>7. DraftIsItsEdits'
  <2>1. Version' = 0 /\ Content' = Blank
    BY <1>1 DEF Version, Content
  <2>2. \A k \in Keys : LeftBy(Log', k, Content'[k])
    BY <1>4, <2>1 DEF LeftBy, Blank
  <2>3. QED
    BY <1>1, <1>4, <2>1, <2>2 DEF DraftIsItsEdits
<1>8. AcceptedWereMade' /\ EditsFollowTheirBase' /\ NothingFromTheFuture'
  BY <1>4 DEF AcceptedWereMade, EditsFollowTheirBase, NothingFromTheFuture
<1>9. AcknowledgedWasApplied'
  <2>1. ASSUME NEW q \in Patches, pending[q] # None, pending[q].status = "acknowledged"
        PROVE  Applied(logs', q, pending[q].version)
    BY <1>5, <2>1 DEF IInv, AcknowledgedWasApplied
  <2>2. QED
    BY <1>1, <2>1 DEF AcknowledgedWasApplied
<1>10. ReturnedWasApplied'
  <2>1. ASSUME NEW c \in Clients, returned[c] # None,
               returned[c].status = "acknowledged"
        PROVE  Applied(logs', waiting[c], returned[c].version)
    <3>1. waiting[c] \in Patches
      BY <2>1 DEF IInv, DraftTypeOK
    <3>2. QED
      BY <1>5, <2>1, <3>1 DEF IInv, ReturnedWasApplied
  <2>2. QED
    BY <1>1, <2>1 DEF ReturnedWasApplied
<1>11. QED
  BY <1>6, <1>7, <1>8, <1>9, <1>10 DEF IInv
-----------------------------------------------------------------------------
(***************************************************************************)
(* The store and the page.                                                 *)
(***************************************************************************)
\* A raised version is one the client held or one that was acknowledged.
LEMMA RaisedVersion ==
  ASSUME NEW snapshot \in Snapshot \cup {None}, NEW p \in Patches, NEW result \in Result
  PROVE  /\ Raised(snapshot, p, result) \in Snapshot \cup {None}
         /\ Raised(snapshot, p, result) # None =>
              \/ snapshot # None /\ Raised(snapshot, p, result) = snapshot
              \/ /\ result.status = "acknowledged"
                 /\ Raised(snapshot, p, result).version = result.version
<1>1. CASE Raised(snapshot, p, result) = snapshot
  BY <1>1
<1>2. CASE /\ result.status = "acknowledged" /\ snapshot # None
           /\ Raised(snapshot, p, result) = [snapshot EXCEPT !.version = result.version]
  <2>1. result.version \in Nat /\ snapshot \in Snapshot
    BY <1>2, ResultKinds
  <2>2. PICK v \in Nat : v = result.version
    BY <2>1
  <2>3. /\ [snapshot EXCEPT !.version = v] \in Snapshot
        /\ [snapshot EXCEPT !.version = v].version = v
    BY <2>1 DEF Snapshot
  <2>4. QED
    BY <1>2, <2>2, <2>3
<1>3. QED
  BY <1>1, <1>2 DEF Raised

\* A result the service gave is applied to the store, whatever happens to the call.
LEMMA ResultStep ==
  ASSUME IInv, NEW p \in Patches, NEW result \in Result,
         ApplyPatchResult(p, result), UNCHANGED server, UNCHANGED fetched,
         result.status = "acknowledged" => Applied(logs, p, result.version),
         waiting' \in [Clients -> Patches \cup {None}],
         returned' \in [Clients -> Result \cup {None}],
         \A c \in Clients : waiting'[c] = None => returned'[c] = None,
         ReturnedWasApplied'
  PROVE  IInv'
<1> DEFINE c == AuthorOf[p]
<1>1. /\ edit' = edit /\ fetched' = fetched
      /\ draft' = draft /\ results' = results /\ logs' = logs
      /\ pending' = [pending EXCEPT ![p] = IF @ = None THEN None ELSE result]
      /\ remote' = [remote EXCEPT ![c] = Raised(@, p, result)]
      /\ c \in Clients
  BY DraftAssumption DEF server, ApplyPatchResult, Mark
<1>2. /\ DraftIsItsEdits' /\ AcceptedWereMade' /\ EditsFollowTheirBase'
      /\ Version' = Version
  BY <1>1, ServiceRests
<1>3. pending' \in [Patches -> Entry \cup {None}]
  BY <1>1, ResultKinds DEF IInv, DraftTypeOK
<1>4. remote[c] \in Snapshot \cup {None}
  BY <1>1 DEF IInv, DraftTypeOK
<1>5. PICK new : new = Raised(remote[c], p, result)
  OBVIOUS
<1>6. /\ new \in Snapshot \cup {None}
      /\ new # None => \/ remote[c] # None /\ new = remote[c]
                       \/ result.status = "acknowledged" /\ new.version = result.version
  BY <1>4, <1>5, RaisedVersion
<1>7. remote' = [remote EXCEPT ![c] = new]
  BY <1>1, <1>5
<1> HIDE DEF c
<1>8. DraftTypeOK'
  BY <1>1, <1>3, <1>6, <1>7 DEF IInv, DraftTypeOK
<1>9. NothingFromTheFuture'
  <2> SUFFICES ASSUME Len(logs) = 1
               PROVE  \A d \in Clients : remote'[d] # None => remote'[d].version <= Version
    BY <1>1, <1>2 DEF IInv, NothingFromTheFuture
  <2>1. \A d \in Clients : remote[d] # None => remote[d].version <= Version
    BY DEF IInv, NothingFromTheFuture
  <2>2. new # None => new.version <= Version
    BY <1>1, <1>6, <2>1, AppliedIsPast DEF IInv
  <2>3. QED
    BY <1>7, <2>1, <2>2 DEF IInv, DraftTypeOK
<1>10. AcknowledgedWasApplied'
  <2>1. ASSUME NEW q \in Patches, pending'[q] # None,
               pending'[q].status = "acknowledged"
        PROVE  Applied(logs, q, pending'[q].version)
    <3>1. CASE q = p
      BY <1>1, <2>1, <3>1 DEF IInv, DraftTypeOK
    <3>2. CASE q # p
      <4>1. pending'[q] = pending[q]
        BY <1>1, <3>2 DEF IInv, DraftTypeOK
      <4>2. QED
        BY <2>1, <4>1 DEF IInv, AcknowledgedWasApplied
    <3>3. QED
      BY <3>1, <3>2
  <2>2. QED
    BY <1>1, <2>1 DEF AcknowledgedWasApplied
<1>11. QED
  BY <1>2, <1>8, <1>9, <1>10 DEF IInv

\* A mark that is no acknowledgement claims nothing.
LEMMA MarkStep ==
  ASSUME IInv, NEW p \in Patches, NEW mark \in Entry, mark.status # "acknowledged",
         Mark(p, mark), UNCHANGED server, UNCHANGED <<edit, remote, fetched>>,
         waiting' \in [Clients -> Patches \cup {None}],
         returned' \in [Clients -> Result \cup {None}],
         \A c \in Clients : waiting'[c] = None => returned'[c] = None,
         ReturnedWasApplied'
  PROVE  IInv'
<1>1. /\ edit' = edit /\ remote' = remote /\ fetched' = fetched
      /\ draft' = draft /\ results' = results /\ logs' = logs
      /\ pending' = [pending EXCEPT ![p] = IF @ = None THEN None ELSE mark]
  BY DEF server, Mark
<1>2. /\ DraftIsItsEdits' /\ AcceptedWereMade' /\ EditsFollowTheirBase'
      /\ Version' = Version
  BY <1>1, ServiceRests
<1>3. DraftTypeOK'
  BY <1>1 DEF IInv, DraftTypeOK
<1>4. NothingFromTheFuture'
  BY <1>1, <1>2 DEF IInv, NothingFromTheFuture
<1>5. AcknowledgedWasApplied'
  BY <1>1 DEF IInv, DraftTypeOK, AcknowledgedWasApplied
<1>6. QED
  BY <1>2, <1>3, <1>4, <1>5 DEF IInv

\* A call that has settled awaits nothing and has no answer.
LEMMA SettleStep ==
  ASSUME IInv, NEW c \in Clients, Settle(c)
  PROVE  /\ waiting' \in [Clients -> Patches \cup {None}]
         /\ returned' \in [Clients -> Result \cup {None}]
         /\ \A d \in Clients : waiting'[d] = None => returned'[d] = None
         /\ ReturnedWasApplied'
<1>1. /\ waiting' = [waiting EXCEPT ![c] = None] /\ returned' = [returned EXCEPT ![c] = None]
      /\ logs' = logs
  BY DEF Settle, server
<1>2. /\ waiting' \in [Clients -> Patches \cup {None}]
      /\ returned' \in [Clients -> Result \cup {None}]
      /\ \A d \in Clients : waiting'[d] = None => returned'[d] = None
  BY <1>1 DEF IInv, DraftTypeOK
<1>3. ReturnedWasApplied'
  BY <1>1 DEF IInv, DraftTypeOK, ReturnedWasApplied
<1>4. QED
  BY <1>2, <1>3

\* The type of the network, and what is on its way, when only the store changes.
LEMMA NetworkRests ==
  ASSUME IInv, UNCHANGED server, waiting' = waiting, returned' = returned
  PROVE  /\ waiting' \in [Clients -> Patches \cup {None}]
         /\ returned' \in [Clients -> Result \cup {None}]
         /\ \A c \in Clients : waiting'[c] = None => returned'[c] = None
         /\ ReturnedWasApplied'
BY DEF IInv, DraftTypeOK, ReturnedWasApplied, server

\* A page keeps the acknowledgement it was returned.
LEMMA SyncSucceedsStep ==
  ASSUME IInv, NEW c \in Clients, SyncSucceeds(c)
  PROVE  IInv'
<1>1. /\ returned[c] # None /\ returned[c].status = "acknowledged"
      /\ waiting[c] \in Patches /\ returned[c] \in Result
      /\ Applied(logs, waiting[c], returned[c].version)
  BY DEF SyncSucceeds, IInv, DraftTypeOK, ReturnedWasApplied
<1>2. /\ waiting' \in [Clients -> Patches \cup {None}]
      /\ returned' \in [Clients -> Result \cup {None}]
      /\ \A d \in Clients : waiting'[d] = None => returned'[d] = None
      /\ ReturnedWasApplied'
  BY SettleStep DEF SyncSucceeds
<1>3. ApplyPatchResult(waiting[c], returned[c]) /\ UNCHANGED server /\ UNCHANGED fetched
  BY DEF SyncSucceeds, Settle
<1>4. QED
  BY <1>1, <1>2, <1>3, ResultStep

\* A call that ends in any other way leaves a mark that promises nothing.
LEMMA SyncEndsStep ==
  ASSUME IInv, NEW c \in Clients, waiting[c] # None, MarkPatchRetrying(c), Settle(c)
  PROVE  IInv'
<1> DEFINE mark == [status |-> "retrying"]
<1>1. waiting[c] \in Patches
  BY DEF IInv, DraftTypeOK
<1>2. mark \in Entry /\ mark.status # "acknowledged"
  BY MarksAreEntries
<1>3. /\ waiting' \in [Clients -> Patches \cup {None}]
      /\ returned' \in [Clients -> Result \cup {None}]
      /\ \A d \in Clients : waiting'[d] = None => returned'[d] = None
      /\ ReturnedWasApplied'
  BY SettleStep
<1>4. Mark(waiting[c], mark) /\ UNCHANGED server /\ UNCHANGED <<edit, remote, fetched>>
  BY DEF MarkPatchRetrying, Settle
<1> HIDE DEF mark
<1>5. QED
  BY <1>1, <1>2, <1>3, <1>4, MarkStep

\* An event carries the result of the service.
LEMMA LifecycleStep ==
  ASSUME IInv, NEW p \in Patches, ApplyRealtimeLifecycle(p)
  PROVE  IInv'
<1>1. /\ results[p] # None /\ results[p] \in Result
      /\ ApplyPatchResult(p, results[p])
      /\ UNCHANGED server /\ UNCHANGED fetched
      /\ waiting' = waiting /\ returned' = returned
  BY DEF IInv, DraftTypeOK, ApplyRealtimeLifecycle, network
<1>2. results[p].status = "acknowledged" => Applied(logs, p, results[p].version)
  BY <1>1, RememberedWasApplied DEF IInv
<1>3. QED
  BY <1>1, <1>2, NetworkRests, ResultStep

\* A rollback leaves a mark that promises nothing.
LEMMA RollbackStep ==
  ASSUME IInv, NEW p \in Patches, RollbackPatch(p)
  PROVE  IInv'
<1> DEFINE mark == [status |-> "rolled_back"]
<1>1. mark \in Entry /\ mark.status # "acknowledged"
  BY MarksAreEntries
<1>2. /\ Mark(p, mark) /\ UNCHANGED server /\ UNCHANGED <<edit, remote, fetched>>
      /\ waiting' = waiting /\ returned' = returned
  BY DEF RollbackPatch, network
<1> HIDE DEF mark
<1>3. QED
  BY <1>1, <1>2, NetworkRests, MarkStep

\* A snapshot takes entries away; it is of a version the service has reached.
LEMMA LoadStep ==
  ASSUME IInv, NEW c \in Clients, LoadDraftSnapshot(c)
  PROVE  IInv'
<1>1. PICK s \in fetched[c] :
        /\ fetched' = [fetched EXCEPT ![c] = @ \ {s}]
        /\ HydrateRemoteSnapshot(c, s) \/ UNCHANGED stores
  BY DEF LoadDraftSnapshot
<1>2. /\ UNCHANGED server /\ waiting' = waiting /\ returned' = returned
      /\ edit' = edit /\ logs' = logs /\ draft' = draft /\ results' = results
      /\ s \in Snapshot
  BY <1>1 DEF LoadDraftSnapshot, IInv, DraftTypeOK, HydrateRemoteSnapshot, stores, server
<1>3. /\ DraftIsItsEdits' /\ AcceptedWereMade' /\ EditsFollowTheirBase'
      /\ Version' = Version
  BY <1>2, ServiceRests
<1>4. remote' = remote \/ remote' = [remote EXCEPT ![c] = s]
  BY <1>1 DEF HydrateRemoteSnapshot, stores
<1>5. /\ pending' \in [Patches -> Entry \cup {None}]
      /\ \A p \in Patches : pending'[p] \in {pending[p], None}
  BY <1>1 DEF HydrateRemoteSnapshot, stores, IInv, DraftTypeOK
<1>6. /\ fetched' \in [Clients -> SUBSET Snapshot]
      /\ \A d \in Clients : fetched'[d] \subseteq fetched[d]
  BY <1>1 DEF IInv, DraftTypeOK
<1>7. DraftTypeOK'
  BY <1>2, <1>4, <1>5, <1>6 DEF IInv, DraftTypeOK
<1>8. NothingFromTheFuture'
  <2> SUFFICES ASSUME Len(logs) = 1
               PROVE  /\ \A d \in Clients : remote'[d] # None => remote'[d].version <= Version
                      /\ \A d \in Clients : \A t \in fetched'[d] : t.version <= Version
    BY <1>2, <1>3 DEF IInv, NothingFromTheFuture
  <2>1. /\ \A d \in Clients : remote[d] # None => remote[d].version <= Version
        /\ \A d \in Clients : \A t \in fetched[d] : t.version <= Version
    BY DEF IInv, NothingFromTheFuture
  <2>2. QED
    BY <1>1, <1>4, <1>6, <2>1 DEF IInv, DraftTypeOK
<1>9. AcknowledgedWasApplied'
  <2>1. ASSUME NEW q \in Patches, pending'[q] # None,
               pending'[q].status = "acknowledged"
        PROVE  Applied(logs, q, pending'[q].version)
    <3>1. pending'[q] = pending[q]
      BY <1>5, <2>1
    <3>2. QED
      BY <2>1, <3>1 DEF IInv, AcknowledgedWasApplied
  <2>2. QED
    BY <1>2, <2>1 DEF AcknowledgedWasApplied
<1>10. ReturnedWasApplied'
  BY <1>2, NetworkRests
<1>11. QED
  BY <1>3, <1>7, <1>8, <1>9, <1>10 DEF IInv

\* An edit is made once, on the version its page holds.
LEMMA OnSyncStep ==
  ASSUME IInv, NEW c \in Clients, NEW p \in Patches, OnSyncDraft(c, p)
  PROVE  IInv'
<1>1. /\ UNCHANGED server /\ logs' = logs /\ draft' = draft /\ results' = results
      /\ returned' = returned /\ fetched' = fetched /\ remote' = remote
      /\ edit[p] = None /\ waiting[c] = None
      /\ edit' = [edit EXCEPT ![p] = Held(c)]
      /\ pending' = [pending EXCEPT ![p] = [status |-> "optimistic_applied"]]
      /\ waiting' = [waiting EXCEPT ![c] = p]
  BY DEF OnSyncDraft, EnqueueOptimisticPatch, server
<1>2. Held(c) \in Bases /\ Held(c) # None
  <2>1. Held(c) \in Bases
    BY DEF IInv, DraftTypeOK, Held, Snapshot, Bases
  <2>2. QED
    BY <2>1, DraftNulls
<1>3. \A q \in Patches : edit[q] # None => edit'[q] = edit[q]
  BY <1>1 DEF IInv, DraftTypeOK
<1>4. /\ DraftIsItsEdits' /\ AcceptedWereMade' /\ EditsFollowTheirBase'
      /\ Version' = Version
  BY <1>1, <1>3, ServiceRests
<1>5. PICK mark : /\ mark = [status |-> "optimistic_applied"]
                  /\ mark \in Entry /\ mark.status # "acknowledged"
  BY MarksAreEntries
<1>6. pending' = [pending EXCEPT ![p] = mark]
  BY <1>1, <1>5
<1>7. DraftTypeOK'
  <2>1. \A d \in Clients : waiting'[d] = None => returned'[d] = None
    BY <1>1 DEF IInv, DraftTypeOK
  <2>2. QED
    BY <1>1, <1>2, <1>5, <1>6, <2>1 DEF IInv, DraftTypeOK
<1>8. NothingFromTheFuture'
  <2> SUFFICES ASSUME Len(logs) = 1
               PROVE  \A q \in Patches : edit'[q] # None => edit'[q] <= Version
    BY <1>1, <1>4 DEF IInv, NothingFromTheFuture
  <2>1. Held(c) <= Version
    BY DraftParts DEF IInv, NothingFromTheFuture, Held
  <2>2. QED
    BY <1>1, <2>1 DEF IInv, NothingFromTheFuture, DraftTypeOK
<1>9. AcknowledgedWasApplied'
  BY <1>1, <1>5, <1>6 DEF IInv, DraftTypeOK, AcknowledgedWasApplied
<1>10. ReturnedWasApplied'
  <2>1. returned[c] = None
    BY <1>1 DEF IInv, DraftTypeOK
  <2>2. \A d \in Clients : d # c => waiting'[d] = waiting[d]
    BY <1>1 DEF IInv, DraftTypeOK
  <2>3. QED
    BY <1>1, <2>1, <2>2 DEF IInv, ReturnedWasApplied
<1>11. QED
  BY <1>4, <1>7, <1>8, <1>9, <1>10 DEF IInv
-----------------------------------------------------------------------------
(***************************************************************************)
(* The theorems.                                                           *)
(***************************************************************************)
\* Every step preserves the invariant.
THEOREM DraftNextIInv == IInv /\ [DraftNext]_draftVars => IInv'
<1> SUFFICES ASSUME IInv, [DraftNext]_draftVars PROVE IInv'
  OBVIOUS
<1>1. ASSUME NEW p \in Patches, SubmitPatch(p) PROVE IInv'
  BY <1>1, ReplayStep, TurnDownStep, TakeUpStep DEF SubmitPatch
<1>2. ASSUME NEW p \in Patches, Refuse(p) PROVE IInv'
  BY <1>2, RefuseStep
<1>3. ASSUME NEW p \in Patches, ApplyRealtimeLifecycle(p) PROVE IInv'
  BY <1>3, LifecycleStep
<1>4. ASSUME NEW p \in Patches, RollbackPatch(p) PROVE IInv'
  BY <1>4, RollbackStep
<1>5. ASSUME NEW c \in Clients, GetSnapshot(c) PROVE IInv'
  BY <1>5, GetSnapshotStep
<1>6. ASSUME NEW c \in Clients, LoadDraftSnapshot(c) PROVE IInv'
  BY <1>6, LoadStep
<1>7. ASSUME NEW c \in Clients, SyncSucceeds(c) PROVE IInv'
  BY <1>7, SyncSucceedsStep
<1>8. ASSUME NEW c \in Clients, SyncIsTurnedDown(c) PROVE IInv'
  <2>1. waiting[c] # None
    BY <1>8 DEF SyncIsTurnedDown, IInv, DraftTypeOK
  <2>2. QED
    BY <1>8, <2>1, SyncEndsStep DEF SyncIsTurnedDown
<1>9. ASSUME NEW c \in Clients, SyncFails(c) PROVE IInv'
  BY <1>9, SyncEndsStep DEF SyncFails
<1>10. ASSUME NEW c \in Clients, NEW p \in Patches, OnSyncDraft(c, p) PROVE IInv'
  BY <1>10, OnSyncStep
<1>11. CASE Restart
  BY <1>11, RestartStep
<1>12. CASE UNCHANGED draftVars
  <2>1. /\ UNCHANGED server /\ edit' = edit /\ remote' = remote /\ pending' = pending
        /\ waiting' = waiting /\ returned' = returned /\ fetched' = fetched
    BY <1>12 DEF draftVars, stores, network
  <2>2. logs' = logs /\ draft' = draft /\ results' = results
    BY <2>1 DEF server
  <2>3. DraftTypeOK'
    BY <2>1, <2>2 DEF IInv, DraftTypeOK
  <2>4. /\ DraftIsItsEdits' /\ AcceptedWereMade' /\ EditsFollowTheirBase'
        /\ Version' = Version
    BY <2>1, ServiceRests
  <2>5. NothingFromTheFuture' /\ AcknowledgedWasApplied' /\ ReturnedWasApplied'
    BY <2>1, <2>2, <2>4
    DEF IInv, NothingFromTheFuture, AcknowledgedWasApplied, ReturnedWasApplied
  <2>6. QED
    BY <2>3, <2>4, <2>5 DEF IInv
<1>13. QED
  BY <1>1, <1>2, <1>3, <1>4, <1>5, <1>6, <1>7, <1>8, <1>9, <1>10, <1>11, <1>12
  DEF DraftNext

\* What the service and the stores hold agrees in every state, whatever is lost,
\* late, repeated or forgotten.
THEOREM DraftInvariance == DraftSpec => []IInv
<1>1. QED
  BY DraftInitIInv, DraftNextIInv, PTL DEF DraftSpec

\* The variables have their types, and only an awaited call has an answer.
THEOREM DraftTypeCorrect == DraftSpec => []DraftTypeOK
<1>1. IInv => DraftTypeOK
  BY DEF IInv
<1>2. QED
  BY DraftInvariance, <1>1, PTL

\* A draft is what its accepted edits made of it, each in it once, and a patch is told
\* the version it made, however often it is sent (draft/service.ts submitPatch).
THEOREM DraftCorrect == DraftSpec => []DraftIsItsEdits
<1>1. IInv => DraftIsItsEdits
  BY DEF IInv
<1>2. QED
  BY DraftInvariance, <1>1, PTL

\* No lost update: until the service restarts, an edit is accepted only on the version
\* its page held when it was made, and never on an older one (STALE_BASE).
THEOREM NoLostUpdate == DraftSpec => []EditsFollowTheirBase
<1>1. IInv => EditsFollowTheirBase
  BY DEF IInv
<1>2. QED
  BY DraftInvariance, <1>1, PTL

\* What a store shows as acknowledged was accepted, as that version
\* (sync-store.ts applyResultInternal).
THEOREM AcknowledgedCorrect == DraftSpec => []AcknowledgedWasApplied
<1>1. IInv => AcknowledgedWasApplied
  BY DEF IInv
<1>2. QED
  BY DraftInvariance, <1>1, PTL
=============================================================================
