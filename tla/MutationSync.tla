----------------------------- MODULE MutationSync -----------------------------
(***************************************************************************)
(* Collaborative mutations: the intake service of apps/api, which numbers the *)
(* mutations of a target and remembers its answer to each, and the pending    *)
(* queue and reconciliation engine of a web client.  The intake changes no     *)
(* contribution: what it accepts is a number.                                *)
(*                                                                         *)
(* Nothing in the repository calls the engine but its tests, and nothing       *)
(* publishes a lifecycle event.  A caller may mark, roll back, enqueue again or  *)
(* remove an entry whatever its status, since neither the engine nor the queue *)
(* looks at it; it may send a mutation at any time, again with the same id;     *)
(* and it hands what the service answered to it to the engine, as the value of *)
(* the call or in an event: late, in any order, twice or never.               *)
(***************************************************************************)
EXTENDS Integers, Sequences, FiniteSets

CONSTANTS
  Mutations,      \* envelopes, each made by one client for one actor
  MutationTarget, \* its target
  Subjects,       \* the targets
  BaseOf,         \* the version it was made from, or NoBase
  Actors,         \* who may be signed in
  MutationAuthor, \* the actor its envelope names
  Ids,            \* what clients call their mutations
  MutationId,     \* the id its envelope has: two actors may choose the same
  NoActor, NoBase, NoEntry, NoResult,
  Enqueued,       \* bound: the mutations whose client keeps them in a queue
  MaxAttempts,    \* bound: the attempts a client counts
  MaxCrashes      \* bound: restarts of the service

\* What an envelope that passes validation may state as its base.
MutationBases == Nat \cup {NoBase}

ASSUME MutationAssumption ==
  /\ MutationTarget \in [Mutations -> Subjects]
  /\ BaseOf \in [Mutations -> MutationBases] /\ NoBase \notin Nat
  /\ MutationAuthor \in [Mutations -> Actors] /\ NoActor \notin Actors
  /\ MutationId \in [Mutations -> Ids]
  /\ MaxAttempts \in Nat /\ MaxCrashes \in Nat

VARIABLES
  targetVersion,    \* targetVersionByKey
  targetSequence,   \* targetSequenceByKey
  seen,             \* seenMutationResults: of an id, its actor and the result
  accepted,         \* of each life of the service, the mutations accepted per target
  answers,          \* what the service has ever answered to a mutation
  entry             \* the entry of a mutation in its client's queue

mutationVars ==
  <<targetVersion, targetSequence, seen, accepted, answers, entry>>

-----------------------------------------------------------------------------
Ack(v, n) == [status |-> "acknowledged", appliedVersion |-> v, sequence |-> n]
StaleBase == [status |-> "conflict"]
Rejection == [status |-> "rejected"]

Answers == [status: {"acknowledged"}, appliedVersion: Nat, sequence: Nat]
             \cup [status: {"conflict", "rejected"}]

\* StoredResult
Remembered == [actor: Actors, result: Answers]

ASSUME MutationNulls ==
  NoResult \notin Answers \cup Remembered

Pending == {"pending", "optimistic_applied", "retrying"}
Terminal == {"acknowledged", "rejected", "conflicted", "rolled_back", "failed"}

Queued == [status: Pending \cup Terminal, attempts: Nat \ {0},
           result: Answers \cup {NoResult}]

MutationInit ==
  /\ targetVersion = [t \in Subjects |-> 0]
  /\ targetSequence = [t \in Subjects |-> 0]
  /\ seen = [i \in Ids |-> NoResult]
  /\ accepted = << [t \in Subjects |-> <<>>] >>
  /\ answers = [m \in Mutations |-> {}]
  /\ entry = [m \in Mutations |-> NoEntry]

-----------------------------------------------------------------------------
(***************************************************************************)
(* The intake.                                                             *)
(***************************************************************************)
IsStale(m) == BaseOf[m] # NoBase /\ BaseOf[m] < targetVersion[MutationTarget[m]]

Answer(m, result) == answers' = [answers EXCEPT ![m] = @ \cup {result}]

Remember(m, result) ==
  seen' = [seen EXCEPT ![MutationId[m]] =
             [actor |-> MutationAuthor[m], result |-> result]]

Unseen(m) == seen[MutationId[m]] = NoResult

\* Nobody is signed in, or another than the envelope names, or another used the id:
\* the call is refused and leaves no trace.
TurnAway(m, caller) ==
  /\ caller # MutationAuthor[m] \/ (~Unseen(m) /\ seen[MutationId[m]].actor # caller)
  /\ Answer(m, Rejection)
  /\ UNCHANGED <<targetVersion, targetSequence, seen, accepted>>

Repeat(m) ==
  /\ ~Unseen(m) /\ seen[MutationId[m]].actor = MutationAuthor[m]
  /\ Answer(m, seen[MutationId[m]].result)
  /\ UNCHANGED <<targetVersion, targetSequence, seen, accepted>>

\* The actor lacks the capability of this type of mutation: a rejection that stands.
Forbid(m) ==
  /\ Unseen(m)
  /\ Remember(m, Rejection)
  /\ Answer(m, Rejection)
  /\ UNCHANGED <<targetVersion, targetSequence, accepted>>

Turn(m) ==
  /\ Unseen(m) /\ IsStale(m)
  /\ Remember(m, StaleBase)
  /\ Answer(m, StaleBase)
  /\ UNCHANGED <<targetVersion, targetSequence, accepted>>

Take_NotRemembered(m) ==
  LET t == MutationTarget[m]
  IN /\ Unseen(m) /\ ~IsStale(m)
     /\ targetVersion' = [targetVersion EXCEPT ![t] = @ + 1]
     /\ targetSequence' = [targetSequence EXCEPT ![t] = @ + 1]
     /\ accepted' = [accepted EXCEPT ![Len(accepted)][t] = Append(@, m)]
     /\ Answer(m, Ack(targetVersion[t] + 1, targetSequence[t] + 1))
     /\ UNCHANGED seen

Take(m) ==
  LET t == MutationTarget[m]
      ack == Ack(targetVersion[t] + 1, targetSequence[t] + 1)
  IN /\ Unseen(m) /\ ~IsStale(m)
     /\ targetVersion' = [targetVersion EXCEPT ![t] = @ + 1]
     /\ targetSequence' = [targetSequence EXCEPT ![t] = @ + 1]
     /\ Remember(m, ack)
     /\ accepted' = [accepted EXCEPT ![Len(accepted)][t] = Append(@, m)]
     /\ Answer(m, ack)

\* A call for m reaches the service, made by caller.  The route lets only actors through
\* who are signed in and may submit, and every role that may submit has the capability of
\* each type: the service checks all of it again, with either outcome for the capability
\* of an id that it has not seen.
SubmitMutation(m, caller) ==
  /\ \/ TurnAway(m, caller)
     \/ /\ caller = MutationAuthor[m]
        /\ Repeat(m) \/ Forbid(m) \/ Turn(m) \/ Take(m)
  /\ UNCHANGED entry

Crash ==
  /\ Len(accepted) <= MaxCrashes
  /\ \E t \in Subjects : targetVersion[t] > 0
  /\ targetVersion' = [t \in Subjects |-> 0]
  /\ targetSequence' = [t \in Subjects |-> 0]
  /\ seen' = [i \in Ids |-> NoResult]
  /\ accepted' = Append(accepted, [t \in Subjects |-> <<>>])
  /\ UNCHANGED <<answers, entry>>

-----------------------------------------------------------------------------
(***************************************************************************)
(* The client.                                                             *)
(***************************************************************************)
Keep(m, e) ==
  /\ entry' = [entry EXCEPT ![m] = e]
  /\ UNCHANGED <<targetVersion, targetSequence, seen, accepted, answers>>

Marked(e, status) == [e EXCEPT !.status = status]

\* A mutation that is in the queue already is not enqueued a second time.
Enqueue(m) ==
  /\ m \in Enqueued /\ entry[m] = NoEntry
  /\ Keep(m, [status |-> "pending", attempts |-> 1, result |-> NoResult])

\* ... and yet marked again, whatever has become of it.
EnqueueOptimistic(m) ==
  \/ /\ m \in Enqueued /\ entry[m] = NoEntry
     /\ Keep(m, [status |-> "optimistic_applied", attempts |-> 1, result |-> NoResult])
  \/ /\ entry[m] # NoEntry
     /\ Keep(m, Marked(entry[m], "optimistic_applied"))

\* isStaleAcknowledgement: held is the result of the entry.
StaleAcknowledgement(held, result) ==
  /\ held # NoResult
  /\ held.status = "acknowledged" /\ result.status = "acknowledged"
  /\ \/ result.appliedVersion < held.appliedVersion
     \/ result.sequence < held.sequence

Applies_AnyAcknowledgement(e, result) == e.status \notin Terminal

\* applyResult: the cases in which the engine applies a result.
Applies(e, result) ==
  e.status \notin Terminal /\ ~StaleAcknowledgement(e.result, result)

WithResult_StatusOnly(e, result) ==
  [e EXCEPT !.status = IF result.status = "conflict" THEN "conflicted"
                       ELSE result.status]

WithResult(e, result) ==
  [e EXCEPT !.status = IF result.status = "conflict" THEN "conflicted"
                       ELSE result.status,
            !.result = result]

ApplyResult(m, result) ==
  /\ entry[m] # NoEntry
  /\ Applies(entry[m], result)
  /\ Keep(m, WithResult(entry[m], result))

\* An event whose id was applied before has nothing to apply; one that is out of order
\* is dropped, as if it had not come.
HandleRealtimeLifecycleEvent(m, result) == ApplyResult(m, result)

MarkRetrying(m) ==
  /\ entry[m] # NoEntry
  /\ entry[m].attempts < MaxAttempts
  /\ Keep(m, [Marked(entry[m], "retrying") EXCEPT !.attempts = @ + 1])

RollbackMutation(m) ==
  /\ entry[m] # NoEntry
  /\ Keep(m, Marked(entry[m], "rolled_back"))

MarkFailed(m) ==
  /\ entry[m] # NoEntry
  /\ Keep(m, Marked(entry[m], "failed"))

Remove(m) ==
  /\ entry[m] # NoEntry
  /\ Keep(m, NoEntry)

MutationNext ==
  \E m \in Mutations :
    \/ \E caller \in Actors \cup {NoActor} : SubmitMutation(m, caller)
    \/ Enqueue(m) \/ EnqueueOptimistic(m)
    \/ \E r \in answers[m] : ApplyResult(m, r) \/ HandleRealtimeLifecycleEvent(m, r)
    \/ MarkRetrying(m) \/ RollbackMutation(m) \/ MarkFailed(m) \/ Remove(m)
    \/ Crash

-----------------------------------------------------------------------------
(***************************************************************************)
(* Properties.                                                             *)
(***************************************************************************)
\* The types of the variables; and an entry that is shown as acknowledged, rejected or
\* conflicted has the answer of the service that says so.
MutationTypeOK ==
  /\ targetVersion \in [Subjects -> Nat] /\ targetSequence \in [Subjects -> Nat]
  /\ seen \in [Ids -> Remembered \cup {NoResult}]
  /\ accepted \in Seq([Subjects -> Seq(Mutations)]) /\ accepted # <<>>
  /\ answers \in [Mutations -> SUBSET Answers]
  /\ entry \in [Mutations -> Queued \cup {NoEntry}]
  /\ \A m \in Mutations : entry[m] # NoEntry =>
       /\ entry[m].result \in answers[m] \cup {NoResult}
       /\ entry[m].status \in {"acknowledged", "rejected"} =>
            entry[m].result \in answers[m] /\ entry[m].result.status = entry[m].status
       /\ entry[m].status = "conflicted" => entry[m].result = StaleBase

\* A mutation counts once, however often it is sent, refused and sent again: the version
\* and the sequence of a target are the number of mutations accepted for it, and what
\* the service remembers of the id of each is its author and its place among them
\* (mutation/service.ts submitMutation).
MutationsCountOnce ==
  LET log == accepted[Len(accepted)]
  IN \A t \in Subjects :
       /\ targetVersion[t] = Len(log[t]) /\ targetSequence[t] = Len(log[t])
       /\ \A n \in DOMAIN log[t] :
            seen[MutationId[log[t][n]]] =
              [actor |-> MutationAuthor[log[t][n]], result |-> Ack(n, n)]

\* What a queue shows of a mutation moves forward: no answer and no event changes an
\* entry that is settled, it changes only when the caller marks or removes it, and then
\* keeps its result; and an acknowledgement is never replaced by an older one, not even
\* after such a mark and by a service that has forgotten it.  So an acknowledged mutation
\* is shown as rejected or conflicted only where the caller has marked it once more and
\* another answer came late (reconciliation-engine.ts:94,169, pending-queue.ts:60-87).
ResultsMoveForward ==
  [][\A m \in Mutations :
       entry[m] # NoEntry /\ entry'[m] # NoEntry =>
         /\ entry[m].status \in Terminal /\ entry'[m] # entry[m] =>
              /\ entry'[m].status \in {"optimistic_applied", "retrying", "rolled_back", "failed"}
              /\ entry'[m].result = entry[m].result
         /\ ~StaleAcknowledgement(entry[m].result, entry'[m].result)]_mutationVars

MutationSpec == MutationInit /\ [][MutationNext]_mutationVars
=============================================================================
