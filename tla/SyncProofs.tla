------------------------------ MODULE SyncProofs ------------------------------
(***************************************************************************)
(* The intake counts a mutation once and a queue keeps its results, for any  *)
(* mutations, targets, bases, attempts and number of restarts; and what is    *)
(* proved of drafts holds of projections.                                    *)
(***************************************************************************)
EXTENDS ProjectionSync, MutationSync, SequenceTheorems, TLAPS

IInv == MutationTypeOK /\ MutationsCountOnce

\* The log of the service grows in its last place.
LEMMA LastReplaced ==
  ASSUME NEW S, NEW s \in Seq(S), s # <<>>, NEW e \in S
  PROVE  /\ [s EXCEPT ![Len(s)] = e] \in Seq(S)
         /\ [s EXCEPT ![Len(s)] = e] # <<>>
         /\ Len([s EXCEPT ![Len(s)] = e]) = Len(s)
         /\ [s EXCEPT ![Len(s)] = e][Len(s)] = e
<1>1. Len(s) \in 1..Len(s)
  BY EmptySeq
<1>2. /\ [s EXCEPT ![Len(s)] = e] \in Seq(S)
      /\ Len([s EXCEPT ![Len(s)] = e]) = Len(s)
      /\ [s EXCEPT ![Len(s)] = e][Len(s)] = e
  BY <1>1, ExceptSeq
<1>3. QED
  BY <1>1, <1>2

\* An answer is one of the three kinds, and only an acknowledgement has a version.
LEMMA AnswerKinds ==
  ASSUME NEW result \in Answers
  PROVE  \/ /\ result.status = "acknowledged" /\ result # StaleBase
            /\ result.appliedVersion \in Nat /\ result.sequence \in Nat
         \/ result.status = "conflict" /\ result = StaleBase
         \/ result.status = "rejected" /\ result = Rejection
BY DEF Answers, StaleBase, Rejection

\* Each result of the service is an answer, and can be remembered.
LEMMA ResultsAreAnswers ==
  ASSUME NEW v \in Nat, NEW n \in Nat
  PROVE  /\ Ack(v, n) \in Answers /\ StaleBase \in Answers /\ Rejection \in Answers
         /\ \A m \in Mutations, result \in Answers :
              [actor |-> MutationAuthor[m], result |-> result] \in Remembered
BY MutationAssumption DEF Ack, Answers, StaleBase, Rejection, Remembered

\* What is remembered is no hole in the memory.
LEMMA RememberedIsSeen ==
  ASSUME NEW row \in Remembered
  PROVE  row # NoResult
BY MutationNulls

\* What the type invariant says of one entry.
Settled(e, given) ==
  e # NoEntry =>
    /\ e.result \in given \cup {NoResult}
    /\ e.status \in {"acknowledged", "rejected"} =>
         e.result \in given /\ e.result.status = e.status
    /\ e.status = "conflicted" => e.result = StaleBase

\* The service starts empty, and so does a queue.
THEOREM MutationInitIInv == MutationInit => IInv
<1> SUFFICES ASSUME MutationInit PROVE IInv
  OBVIOUS
<1>1. MutationTypeOK
  <2>1. [t \in Subjects |-> <<>>] \in [Subjects -> Seq(Mutations)]
    OBVIOUS
  <2>2. accepted \in Seq([Subjects -> Seq(Mutations)]) /\ accepted # <<>>
    BY <2>1 DEF MutationInit
  <2>3. QED
    BY <2>2 DEF MutationInit, MutationTypeOK
<1>2. accepted[Len(accepted)] = [t \in Subjects |-> <<>>]
  BY DEF MutationInit
<1>3. MutationsCountOnce
  BY <1>2 DEF MutationInit, MutationsCountOnce
<1>4. QED
  BY <1>1, <1>3 DEF IInv
-----------------------------------------------------------------------------
(***************************************************************************)
(* The intake.                                                             *)
(***************************************************************************)
\* The queues stay as they are while the service gives another answer.
LEMMA EntriesStaySettled ==
  ASSUME MutationTypeOK, UNCHANGED entry,
         answers' \in [Mutations -> SUBSET Answers],
         \A m \in Mutations : answers[m] \subseteq answers'[m]
  PROVE  \A m \in Mutations : Settled(entry'[m], answers'[m])
BY DEF MutationTypeOK, Settled

\* What the service remembers of a mutation that it has not seen, and answers: nothing
\* it has counted is forgotten.
LEMMA AnsweredStep ==
  ASSUME IInv, NEW m \in Mutations, NEW result \in Answers, Answer(m, result),
         UNCHANGED <<targetVersion, targetSequence, accepted, entry>>,
         UNCHANGED seen \/ (Unseen(m) /\ Remember(m, result))
  PROVE  IInv'
<1> USE DEF IInv
<1>1. seen' \in [Ids -> Remembered \cup {NoResult}]
  <2>1. CASE UNCHANGED seen
    BY <2>1 DEF MutationTypeOK
  <2>2. CASE Remember(m, result)
    <3>1. [actor |-> MutationAuthor[m], result |-> result] \in Remembered
      BY ResultsAreAnswers
    <3>2. QED
      BY <2>2, <3>1, MutationAssumption DEF Remember, MutationTypeOK
  <2>3. QED
    BY <2>1, <2>2
<1>2. /\ answers' \in [Mutations -> SUBSET Answers]
      /\ \A q \in Mutations : answers[q] \subseteq answers'[q]
  BY DEF Answer, MutationTypeOK
<1>3. MutationTypeOK'
  BY <1>1, <1>2, EntriesStaySettled DEF MutationTypeOK, Settled
<1>4. MutationsCountOnce'
  <2> DEFINE log == accepted[Len(accepted)]
  <2>1. log \in [Subjects -> Seq(Mutations)]
    BY DEF MutationTypeOK
  <2>2. ASSUME NEW t \in Subjects, NEW n \in DOMAIN log[t]
        PROVE  seen'[MutationId[log[t][n]]] = seen[MutationId[log[t][n]]]
    <3>1. n \in Nat /\ log[t][n] \in Mutations
      BY <2>1, <2>2
    <3>2. /\ MutationId[log[t][n]] \in Ids
          /\ seen[MutationId[log[t][n]]] =
               [actor |-> MutationAuthor[log[t][n]], result |-> Ack(n, n)]
      BY <2>2, <3>1, MutationAssumption DEF MutationsCountOnce
    <3>3. seen[MutationId[log[t][n]]] \in Remembered
      BY <3>1, <3>2, ResultsAreAnswers
    <3>4. Unseen(m) => MutationId[log[t][n]] # MutationId[m]
      BY <3>3, RememberedIsSeen DEF Unseen
    <3>5. QED
      BY <3>2, <3>4 DEF Remember, MutationTypeOK
  <2>3. QED
    BY <2>1, <2>2 DEF MutationsCountOnce
<1>5. QED
  BY <1>3, <1>4

\* The accepted mutation takes the next place of its target; it had none.
LEMMA TakeStep ==
  ASSUME IInv, NEW m \in Mutations, Take(m), UNCHANGED entry
  PROVE  IInv'
<1> USE DEF IInv
<1> DEFINE t == MutationTarget[m]
           ack == Ack(targetVersion[t] + 1, targetSequence[t] + 1)
           last == Len(accepted)
           log == accepted[last]
<1>1. /\ t \in Subjects
      /\ targetVersion[t] \in Nat /\ targetSequence[t] \in Nat
      /\ last \in Nat \ {0}
      /\ log \in [Subjects -> Seq(Mutations)]
      /\ log[t] \in Seq(Mutations)
  <2>1. t \in Subjects
    BY MutationAssumption
  <2>2. targetVersion[t] \in Nat /\ targetSequence[t] \in Nat
    BY <2>1 DEF MutationTypeOK
  <2>3. accepted \in Seq([Subjects -> Seq(Mutations)]) /\ last \in Nat \ {0}
    BY EmptySeq DEF MutationTypeOK
  <2>4. log \in [Subjects -> Seq(Mutations)]
    BY <2>3
  <2>5. log[t] \in Seq(Mutations)
    BY <2>1, <2>4
  <2> HIDE DEF t, last, log
  <2>6. QED
    BY <2>1, <2>2, <2>3, <2>4, <2>5
<1>2. /\ ack \in Answers
      /\ [actor |-> MutationAuthor[m], result |-> ack] \in Remembered
  <2>1. targetVersion[t] + 1 \in Nat /\ targetSequence[t] + 1 \in Nat
    BY <1>1
  <2>2. QED
    BY ONLY <2>1, ResultsAreAnswers, m \in Mutations DEF ack
<1>3. Append(log[t], m) \in Seq(Mutations)
  BY <1>1
<1>4. /\ Len(accepted') = last /\ accepted' # <<>>
      /\ accepted' \in Seq([Subjects -> Seq(Mutations)])
      /\ accepted'[last] = [log EXCEPT ![t] = Append(@, m)]
  <2> DEFINE new == [log EXCEPT ![t] = Append(@, m)]
  <2>1. new \in [Subjects -> Seq(Mutations)]
    BY <1>1, <1>3
  <2>2. accepted' = [accepted EXCEPT ![last] = new]
    BY DEF Take
  <2>3. accepted \in Seq([Subjects -> Seq(Mutations)]) /\ accepted # <<>>
    BY DEF MutationTypeOK
  <2>4. PICK row : row = new
    OBVIOUS
  <2>5. /\ [accepted EXCEPT ![last] = row] \in Seq([Subjects -> Seq(Mutations)])
        /\ [accepted EXCEPT ![last] = row] # <<>>
        /\ Len([accepted EXCEPT ![last] = row]) = last
        /\ [accepted EXCEPT ![last] = row][last] = row
    <3> HIDE DEF new
    <3> QED
      BY <2>1, <2>3, <2>4, LastReplaced, EmptySeq
  <2>6. QED
    <3>1. accepted' = [accepted EXCEPT ![last] = row]
      BY <2>2, <2>4, Zenon
    <3>2. row = [log EXCEPT ![t] = Append(@, m)]
      BY <2>4
    <3> HIDE DEF log, t, last
    <3> QED
      BY <2>5, <3>1, <3>2
<1>5. /\ answers' \in [Mutations -> SUBSET Answers]
      /\ \A q \in Mutations : answers[q] \subseteq answers'[q]
  BY <1>2 DEF Take, Answer, MutationTypeOK
<1>6. \A q \in Mutations : Settled(entry'[q], answers'[q])
  BY <1>5, EntriesStaySettled
<1>7. seen' \in [Ids -> Remembered \cup {NoResult}]
  BY <1>2, MutationAssumption DEF Take, Remember, MutationTypeOK
<1>8. /\ targetVersion' \in [Subjects -> Nat] /\ targetSequence' \in [Subjects -> Nat]
  BY <1>1 DEF Take, MutationTypeOK
<1>9. entry' \in [Mutations -> Queued \cup {NoEntry}]
  BY DEF MutationTypeOK
<1>10. MutationTypeOK'
  BY <1>4, <1>5, <1>6, <1>7, <1>8, <1>9 DEF MutationTypeOK, Settled
<1>11. ASSUME NEW u \in Subjects
       PROVE  /\ targetVersion'[u] = Len(accepted'[last][u])
              /\ targetSequence'[u] = Len(accepted'[last][u])
              /\ \A n \in DOMAIN accepted'[last][u] :
                   seen'[MutationId[accepted'[last][u][n]]] =
                     [actor |-> MutationAuthor[accepted'[last][u][n]],
                      result |-> Ack(n, n)]
  <2>1. /\ targetVersion[u] = Len(log[u]) /\ targetSequence[u] = Len(log[u])
        /\ \A n \in DOMAIN log[u] :
             seen[MutationId[log[u][n]]] =
               [actor |-> MutationAuthor[log[u][n]], result |-> Ack(n, n)]
    BY DEF MutationsCountOnce
  <2>2. ASSUME NEW n \in DOMAIN log[u]
        PROVE  /\ MutationId[log[u][n]] \in Ids
               /\ MutationId[log[u][n]] # MutationId[m]
    <3>1. log[u][n] \in Mutations /\ n \in Nat
      BY <1>1
    <3>2. seen[MutationId[log[u][n]]] \in Remembered
      BY <3>1, <2>1, ResultsAreAnswers
    <3>3. QED
      BY <3>1, <3>2, RememberedIsSeen, MutationAssumption DEF Take, Unseen
  <2>3. \A n \in DOMAIN log[u] :
          seen'[MutationId[log[u][n]]] =
            [actor |-> MutationAuthor[log[u][n]], result |-> Ack(n, n)]
    <3>1. \A i \in Ids \ {MutationId[m]} : seen'[i] = seen[i]
      BY DEF Take, Remember, MutationTypeOK
    <3>2. QED
      BY <2>1, <2>2, <3>1
  <2>4. CASE u = t
    <3>1. accepted'[last][u] = Append(log[u], m)
      BY <1>1, <1>4, <2>4
    <3>2. /\ Len(Append(log[u], m)) = Len(log[u]) + 1
          /\ \A n \in 1..Len(log[u]) : Append(log[u], m)[n] = log[u][n]
          /\ Append(log[u], m)[Len(log[u]) + 1] = m
          /\ DOMAIN Append(log[u], m) = 1..(Len(log[u]) + 1)
          /\ DOMAIN log[u] = 1..Len(log[u])
          /\ Len(log[u]) \in Nat
      BY <1>1, <2>4, AppendProperties
    <3>3. seen'[MutationId[m]] =
            [actor |-> MutationAuthor[m], result |-> Ack(Len(log[u]) + 1, Len(log[u]) + 1)]
      BY <2>1, <2>4, MutationAssumption DEF Take, Remember, MutationTypeOK
    <3>4. targetVersion'[u] = Len(log[u]) + 1 /\ targetSequence'[u] = Len(log[u]) + 1
      BY <2>1, <2>4 DEF Take, MutationTypeOK
    <3>5. ASSUME NEW n \in 1..(Len(log[u]) + 1)
          PROVE  seen'[MutationId[Append(log[u], m)[n]]] =
                   [actor |-> MutationAuthor[Append(log[u], m)[n]], result |-> Ack(n, n)]
      <4>1. CASE n = Len(log[u]) + 1
        BY <4>1, <3>2, <3>3
      <4>2. CASE n # Len(log[u]) + 1
        <5>1. n \in 1..Len(log[u])
          BY <4>2, <3>2
        <5>2. QED
          BY <5>1, <3>2, <2>3
      <4>3. QED
        BY <4>1, <4>2
    <3>6. QED
      BY <3>1, <3>2, <3>4, <3>5
  <2>5. CASE u # t
    <3>1. accepted'[last][u] = log[u]
      BY <1>1, <1>4, <2>5
    <3>2. targetVersion'[u] = targetVersion[u] /\ targetSequence'[u] = targetSequence[u]
      BY <2>5 DEF Take, MutationTypeOK
    <3>3. QED
      BY <3>1, <3>2, <2>1, <2>3
  <2>6. QED
    BY <2>4, <2>5
<1>12. MutationsCountOnce'
  <2> HIDE DEF t, ack, last, log
  <2>1. accepted'[Len(accepted')] = accepted'[last]
    BY <1>4
  <2> HIDE DEF IInv
  <2>2. QED
    BY <1>11, <2>1 DEF MutationsCountOnce
<1>13. QED
  BY <1>10, <1>12

\* A call is refused, answered from memory, turned down or taken.
LEMMA SubmitStep ==
  ASSUME IInv, NEW m \in Mutations, NEW caller, SubmitMutation(m, caller)
  PROVE  IInv'
<1>1. UNCHANGED entry
  BY DEF SubmitMutation
<1>2. Rejection \in Answers /\ StaleBase \in Answers
  BY ResultsAreAnswers, 0 \in Nat
<1>3. CASE TurnAway(m, caller)
  BY <1>1, <1>2, <1>3, AnsweredStep DEF TurnAway
<1>4. CASE Repeat(m)
  <2>1. seen[MutationId[m]].result \in Answers
    BY <1>4, MutationAssumption DEF Repeat, Unseen, IInv, MutationTypeOK, Remembered
  <2>2. QED
    BY <1>1, <1>4, <2>1, AnsweredStep DEF Repeat
<1>5. CASE Forbid(m)
  BY <1>1, <1>2, <1>5, AnsweredStep DEF Forbid
<1>6. CASE Turn(m)
  BY <1>1, <1>2, <1>6, AnsweredStep DEF Turn
<1>7. CASE Take(m)
  BY <1>1, <1>7, TakeStep
<1>8. QED
  BY <1>3, <1>4, <1>5, <1>6, <1>7 DEF SubmitMutation

\* A restart empties the service, and a new life of the log begins.
LEMMA CrashStep ==
  ASSUME IInv, Crash
  PROVE  IInv'
<1> DEFINE none == [t \in Subjects |-> <<>>]
<1>1. none \in [Subjects -> Seq(Mutations)]
  OBVIOUS
<1>2. accepted \in Seq([Subjects -> Seq(Mutations)])
  BY DEF IInv, MutationTypeOK
<1>3. /\ accepted' \in Seq([Subjects -> Seq(Mutations)])
      /\ Len(accepted') = Len(accepted) + 1
      /\ accepted'[Len(accepted')] = none
      /\ accepted' # <<>>
  <2>1. accepted' = Append(accepted, none)
    BY DEF Crash
  <2>2. /\ Append(accepted, none) \in Seq([Subjects -> Seq(Mutations)])
        /\ Append(accepted, none) # <<>>
        /\ Len(Append(accepted, none)) = Len(accepted) + 1
        /\ Append(accepted, none)[Len(accepted) + 1] = none
    <3> HIDE DEF none
    <3> QED
      BY <1>1, <1>2
  <2>3. QED
    <3> HIDE DEF none
    <3> QED
      BY <2>1, <2>2
<1>4. \A q \in Mutations : Settled(entry'[q], answers'[q])
  BY EntriesStaySettled DEF Crash, IInv, MutationTypeOK
<1>5. MutationTypeOK'
  BY <1>3, <1>4 DEF Crash, IInv, MutationTypeOK, Settled
<1>6. MutationsCountOnce'
  BY <1>3 DEF Crash, MutationsCountOnce
<1>7. QED
  BY <1>5, <1>6 DEF IInv
-----------------------------------------------------------------------------
(***************************************************************************)
(* The client.                                                             *)
(***************************************************************************)
\* A new entry of one mutation, settled if it says so, or none, keeps the invariant.
LEMMA KeepStep ==
  ASSUME IInv, NEW m \in Mutations, NEW e \in Queued \cup {NoEntry},
         Settled(e, answers[m]), Keep(m, e)
  PROVE  IInv'
<1>1. entry' \in [Mutations -> Queued \cup {NoEntry}]
  BY DEF Keep, IInv, MutationTypeOK
<1>2. \A q \in Mutations : Settled(entry'[q], answers'[q])
  BY DEF Keep, IInv, MutationTypeOK, Settled
<1>3. MutationTypeOK'
  BY <1>1, <1>2 DEF Keep, IInv, MutationTypeOK, Settled
<1>4. MutationsCountOnce'
  BY DEF Keep, IInv, MutationsCountOnce
<1>5. QED
  BY <1>3, <1>4 DEF IInv

\* A new entry has no result to agree with.
LEMMA NewEntry ==
  ASSUME NEW status \in Pending, NEW given
  PROVE  LET e == [status |-> status, attempts |-> 1, result |-> NoResult]
         IN e \in Queued /\ Settled(e, given)
BY DEF Queued, Pending, Settled

\* A mark of the caller leaves the result, and shows no answer.
LEMMA MarkSettles ==
  ASSUME NEW given, NEW e \in Queued, Settled(e, given), e # NoEntry,
         NEW status \in {"optimistic_applied", "retrying", "rolled_back", "failed"}
  PROVE  /\ Marked(e, status) \in Queued /\ Settled(Marked(e, status), given)
         /\ Marked(e, status).status = status
         /\ Marked(e, status).result = e.result
         /\ Marked(e, status).attempts = e.attempts
<1>1. /\ Marked(e, status) \in Queued
      /\ Marked(e, status).status = status
      /\ Marked(e, status).result = e.result
      /\ Marked(e, status).attempts = e.attempts
  BY DEF Marked, Queued, Pending, Terminal
<1>2. QED
  BY <1>1 DEF Settled

\* So does the mark that counts an attempt.
LEMMA RetrySettles ==
  ASSUME NEW given, NEW e \in Queued, Settled(e, given), e # NoEntry
  PROVE  LET f == [Marked(e, "retrying") EXCEPT !.attempts = @ + 1]
         IN /\ f \in Queued /\ Settled(f, given)
            /\ f.status = "retrying" /\ f.result = e.result
<1> DEFINE g == Marked(e, "retrying")
           f == [g EXCEPT !.attempts = @ + 1]
<1>1. g \in Queued /\ g.status = "retrying" /\ g.result = e.result
  BY MarkSettles
<1>2. g = [status |-> g.status, attempts |-> g.attempts, result |-> g.result]
  <2> HIDE DEF g
  <2> QED
    BY <1>1 DEF Queued
<1>3. g.attempts \in Nat \ {0}
  <2> HIDE DEF g
  <2> QED
    BY <1>1 DEF Queued
<1>4. PICK n \in Nat \ {0} : n = g.attempts + 1
  <2> HIDE DEF g
  <2> QED
    BY <1>3
<1>5. f = [g EXCEPT !.attempts = n]
  BY <1>4, Zenon
<1>6. f \in Queued /\ f.status = "retrying" /\ f.result = e.result
  <2> HIDE DEF f, g
  <2> QED
    BY <1>1, <1>2, <1>5 DEF Queued
<1>7. Settled(f, given)
  <2> HIDE DEF f
  <2> QED
    BY <1>6 DEF Settled
<1>8. QED
  BY <1>6, <1>7

\* A result that is applied settles the entry by it.
LEMMA WithResultSettles ==
  ASSUME NEW given \in SUBSET Answers, NEW e \in Queued, NEW r \in given
  PROVE  WithResult(e, r) \in Queued /\ Settled(WithResult(e, r), given)
<1>1. \/ r.status = "acknowledged"
      \/ r.status = "conflict" /\ r = StaleBase
      \/ r.status = "rejected"
  BY AnswerKinds
<1>2. /\ WithResult(e, r).result = r
      /\ WithResult(e, r).attempts = e.attempts
      /\ r.status # "conflict" => WithResult(e, r).status = r.status
      /\ r.status = "conflict" => WithResult(e, r).status = "conflicted"
  BY DEF WithResult, Queued
<1>3. WithResult(e, r) \in Queued
  BY <1>1, <1>2 DEF WithResult, Queued, Pending, Terminal
<1>4. QED
  BY <1>1, <1>2, <1>3 DEF Settled

\* Every action keeps the inductive invariant.
THEOREM MutationNextIInv == IInv /\ [MutationNext]_mutationVars => IInv'
<1> SUFFICES ASSUME IInv, [MutationNext]_mutationVars PROVE IInv'
  OBVIOUS
<1>1. CASE UNCHANGED mutationVars
  BY <1>1 DEF mutationVars, IInv, MutationTypeOK, MutationsCountOnce
<1>2. CASE MutationNext
  <2>1. PICK m \in Mutations :
          \/ \E caller \in Actors \cup {NoActor} : SubmitMutation(m, caller)
          \/ Enqueue(m) \/ EnqueueOptimistic(m)
          \/ \E r \in answers[m] : ApplyResult(m, r)
          \/ MarkRetrying(m) \/ RollbackMutation(m) \/ MarkFailed(m) \/ Remove(m)
          \/ Crash
    BY <1>2 DEF MutationNext, HandleRealtimeLifecycleEvent
  <2>2. entry[m] # NoEntry => entry[m] \in Queued /\ Settled(entry[m], answers[m])
    BY DEF IInv, MutationTypeOK, Settled
  <2>3. CASE \E caller \in Actors \cup {NoActor} : SubmitMutation(m, caller)
    BY <2>3, SubmitStep
  <2>4. CASE Enqueue(m)
    BY <2>4, NewEntry, KeepStep DEF Enqueue, Pending
  <2>5. CASE EnqueueOptimistic(m)
    BY <2>2, <2>5, NewEntry, MarkSettles, KeepStep DEF EnqueueOptimistic, Pending
  <2>6. ASSUME NEW r \in answers[m], ApplyResult(m, r) PROVE IInv'
    <3>1. answers[m] \in SUBSET Answers
      BY DEF IInv, MutationTypeOK
    <3>2. entry[m] \in Queued /\ Keep(m, WithResult(entry[m], r))
      BY <2>2, <2>6 DEF ApplyResult
    <3>3. QED
      BY <3>1, <3>2, WithResultSettles, KeepStep
  <2>7. CASE MarkRetrying(m)
    BY <2>2, <2>7, RetrySettles, KeepStep DEF MarkRetrying
  <2>8. CASE RollbackMutation(m)
    BY <2>2, <2>8, MarkSettles, KeepStep DEF RollbackMutation
  <2>9. CASE MarkFailed(m)
    BY <2>2, <2>9, MarkSettles, KeepStep DEF MarkFailed
  <2>10. CASE Remove(m)
    BY <2>10, KeepStep DEF Remove, Settled
  <2>11. CASE Crash
    BY <2>11, CrashStep
  <2>12. QED
    BY <2>1, <2>3, <2>4, <2>5, <2>6, <2>7, <2>8, <2>9, <2>10, <2>11
<1>3. QED
  BY <1>1, <1>2

\* The inductive invariant holds in every state of the intake and of the queues.
THEOREM MutationInvariance == MutationSpec => []IInv
<1>1. MutationInit => IInv
  BY MutationInitIInv
<1>2. IInv /\ [MutationNext]_mutationVars => IInv'
  BY MutationNextIInv
<1>3. QED
  BY <1>1, <1>2, PTL DEF MutationSpec

\* An entry is settled by an answer the service gave, and keeps it
\* (reconciliation-engine.ts, pending-queue.ts).
THEOREM MutationTypeCorrect == MutationSpec => []MutationTypeOK
<1>1. IInv => MutationTypeOK
  BY DEF IInv
<1>2. QED
  BY <1>1, MutationInvariance, PTL

\* A mutation is counted once, however often and however late it is sent
\* (mutation/service.ts submitMutation).
THEOREM CountedOnce == MutationSpec => []MutationsCountOnce
<1>1. IInv => MutationsCountOnce
  BY DEF IInv
<1>2. QED
  BY <1>1, MutationInvariance, PTL
-----------------------------------------------------------------------------
\* What one step may do to the entry of a mutation.
MovesForward(m) ==
  entry[m] # NoEntry /\ entry'[m] # NoEntry =>
    /\ entry[m].status \in Terminal /\ entry'[m] # entry[m] =>
         /\ entry'[m].status \in {"optimistic_applied", "retrying", "rolled_back", "failed"}
         /\ entry'[m].result = entry[m].result
    /\ ~StaleAcknowledgement(entry[m].result, entry'[m].result)

\* No answer is older than itself.
LEMMA SameResult ==
  ASSUME NEW held \in Answers \cup {NoResult}
  PROVE  ~StaleAcknowledgement(held, held)
BY AnswerKinds DEF StaleAcknowledgement

\* Each entry moves forward in every step.
LEMMA StepForward ==
  ASSUME MutationTypeOK, [MutationNext]_mutationVars, NEW m \in Mutations
  PROVE  MovesForward(m)
<1> SUFFICES ASSUME entry[m] # NoEntry, entry'[m] # NoEntry PROVE MovesForward(m)
  BY DEF MovesForward
<1>1. /\ entry[m] \in Queued /\ entry[m].result \in Answers \cup {NoResult}
      /\ Settled(entry[m], answers[m])
  BY DEF MutationTypeOK, Queued, Settled
<1>2. CASE entry'[m] = entry[m]
  BY <1>1, <1>2, SameResult DEF MovesForward
<1>3. CASE entry'[m] # entry[m]
  <2>1. PICK q \in Mutations :
          \/ Enqueue(q) \/ EnqueueOptimistic(q)
          \/ \E r \in answers[q] : ApplyResult(q, r)
          \/ MarkRetrying(q) \/ RollbackMutation(q) \/ MarkFailed(q) \/ Remove(q)
    BY <1>3 DEF MutationNext, mutationVars, SubmitMutation, Crash,
                HandleRealtimeLifecycleEvent
  <2>2. PICK e : Keep(q, e)
    BY <2>1 DEF Enqueue, EnqueueOptimistic, ApplyResult, MarkRetrying,
                RollbackMutation, MarkFailed, Remove
  <2>3. q = m
    BY <1>3, <2>2 DEF Keep, MutationTypeOK
  <2>4. ASSUME NEW f, Keep(m, f) PROVE entry'[m] = f
    BY <2>4 DEF Keep, MutationTypeOK
  <2>5. ~Enqueue(m) /\ ~Remove(m)
    BY <2>4 DEF Enqueue, Remove
  <2>6. ASSUME NEW r \in answers[m], ApplyResult(m, r)
        PROVE  MovesForward(m)
    <3>1. /\ entry[m].status \notin Terminal
          /\ ~StaleAcknowledgement(entry[m].result, r)
          /\ entry'[m] = WithResult(entry[m], r)
      BY <2>4, <2>6 DEF ApplyResult, Applies
    <3>2. entry'[m].result = r
      BY <1>1, <3>1 DEF WithResult, Queued
    <3>3. QED
      BY <3>1, <3>2 DEF MovesForward
  <2>7. ASSUME NEW status \in {"optimistic_applied", "retrying", "rolled_back", "failed"},
               entry'[m].status = status, entry'[m].result = entry[m].result
        PROVE  MovesForward(m)
    BY <1>1, <2>7, SameResult DEF MovesForward
  <2>8. CASE EnqueueOptimistic(m)
    <3>1. entry'[m] = Marked(entry[m], "optimistic_applied")
      BY <2>4, <2>8 DEF EnqueueOptimistic
    <3>2. QED
      BY <1>1, <2>7, <3>1, MarkSettles
  <2>9. CASE MarkRetrying(m)
    <3>1. entry'[m] = [Marked(entry[m], "retrying") EXCEPT !.attempts = @ + 1]
      BY <2>4, <2>9 DEF MarkRetrying
    <3>2. QED
      BY <1>1, <2>7, <3>1, RetrySettles
  <2>10. CASE RollbackMutation(m)
    <3>1. entry'[m] = Marked(entry[m], "rolled_back")
      BY <2>4, <2>10 DEF RollbackMutation
    <3>2. QED
      BY <1>1, <2>7, <3>1, MarkSettles
  <2>11. CASE MarkFailed(m)
    <3>1. entry'[m] = Marked(entry[m], "failed")
      BY <2>4, <2>11 DEF MarkFailed
    <3>2. QED
      BY <1>1, <2>7, <3>1, MarkSettles
  <2>12. QED
    BY <2>1, <2>3, <2>5, <2>6, <2>8, <2>9, <2>10, <2>11
<1>4. QED
  BY <1>2, <1>3

\* No answer and no event changes a settled entry, which keeps its result whatever the
\* caller marks it as; and an acknowledgement is not replaced by an older one, not even
\* by that of a service that has forgotten it (reconciliation-engine.ts applyResult,
\* isStaleAcknowledgement).
THEOREM MovedForward == MutationSpec => ResultsMoveForward
<1>1. MutationTypeOK /\ [MutationNext]_mutationVars =>
        [\A m \in Mutations : MovesForward(m)]_mutationVars
  BY StepForward
<1>2. QED
  BY <1>1, MutationTypeCorrect, PTL DEF MutationSpec, ResultsMoveForward, MovesForward

-----------------------------------------------------------------------------
(***************************************************************************)
(* Projections.  ProjectionSync is DraftSync under other names, and Twin is   *)
(* the proof about drafts under the same ones.                               *)
(***************************************************************************)
Twin == INSTANCE DraftSyncProofs WITH
  Patches <- Updates, Targets <- Workspaces,
  AuthorOf <- UpdateAuthor, KeyOf <- UpdateKey, TargetOf <- UpdateTarget,
  Deletions <- Removals, RolledBack <- RolledBackUpdates,
  MaxFetches <- MaxProjections, MaxRestarts <- MaxProjectionRestarts,
  draft <- projection, results <- updateResults, edit <- update,
  remote <- remoteProjection, pending <- pendingUpdates,
  waiting <- awaited, returned <- answered, fetched <- projectionsFetched,
  logs <- updateLogs

\* The assumptions of the proof about drafts are those of the projections.
LEMMA TwinAssumption == Twin!DraftAssumption
BY ProjectionAssumption DEF Twin!DraftAssumption

\* The nulls of projections are fit for drafts.
LEMMA TwinNulls == Twin!DraftNulls
BY ProjectionNulls
DEF Twin!DraftNulls, Store!Snapshot, Store!Entry, Store!Result, Store!Fields,
    Twin!Snapshot, Twin!Entry, Twin!Result, Twin!Fields, Bases, Twin!Bases

\* The projections begin as the drafts do.
LEMMA TwinInit == ProjectionInit => Twin!DraftInit
BY DEF ProjectionInit, Store!DraftInit, Twin!DraftInit

\* What the service does to a projection it does to a draft: it answers,
LEMMA TwinService ==
  ASSUME NEW u \in Updates
  PROVE  /\ SubmitUpdate(u) => Twin!SubmitPatch(u)
         /\ RefuseUpdate(u) => Twin!Refuse(u)
BY DEF SubmitUpdate, RefuseUpdate,
  Store!SubmitPatch, Store!Refuse, Twin!SubmitPatch, Twin!Refuse,
  Store!Replay, Store!TurnDown, Store!TakeUp, Store!Accept, Store!Return,
  Twin!Replay, Twin!TurnDown, Twin!TakeUp, Twin!Accept, Twin!Return,
  Store!Verdict, Store!ElsewhereAimed, Store!Stale, Store!Version, Store!Content,
  Twin!Verdict, Twin!ElsewhereAimed, Twin!Stale, Twin!Version, Twin!Content,
  Store!ApplyPatch, Store!Effect, Store!Log, Store!Blank,
  Twin!ApplyPatch, Twin!Effect, Twin!Log, Twin!Blank,
  Store!Acknowledged, Store!Conflict, Store!Rejected,
  Twin!Acknowledged, Twin!Conflict, Twin!Rejected,
  Store!server, Store!stores, Twin!server, Twin!stores

\* it is read,
LEMMA TwinIsRead ==
  ASSUME NEW c \in Clients
  PROVE  GetProjection(c) => Twin!GetSnapshot(c)
<1>1. Store!Cardinality(projectionsFetched[c]) = Twin!Cardinality(projectionsFetched[c])
  BY Zenon DEF Store!Cardinality, Twin!Cardinality
<1>2. QED
  BY <1>1 DEF GetProjection, Store!GetSnapshot, Twin!GetSnapshot,
    Store!server, Store!stores, Twin!server, Twin!stores

\* and it forgets.
LEMMA TwinForgets == ForgetProjections => Twin!Restart
BY DEF ForgetProjections, Store!Restart, Twin!Restart,
  Store!stores, Store!network, Twin!stores, Twin!network

\* So does the store.
LEMMA TwinStore ==
  ASSUME NEW u \in Updates
  PROVE  /\ ApplyUpdateLifecycle(u) => Twin!ApplyRealtimeLifecycle(u)
         /\ RollbackUpdate(u) => Twin!RollbackPatch(u)
BY DEF ApplyUpdateLifecycle, RollbackUpdate,
  Store!ApplyRealtimeLifecycle, Store!RollbackPatch, Store!ApplyPatchResult,
  Twin!ApplyRealtimeLifecycle, Twin!RollbackPatch, Twin!ApplyPatchResult,
  Store!Mark, Store!Raised, Twin!Mark, Twin!Raised,
  Store!server, Store!stores, Store!network, Twin!server, Twin!stores, Twin!network

\* So does the page: it loads,
LEMMA TwinLoad ==
  ASSUME NEW c \in Clients
  PROVE  LoadProjectionSnapshot(c) => Twin!LoadDraftSnapshot(c)
BY DEF LoadProjectionSnapshot, Store!LoadDraftSnapshot, Twin!LoadDraftSnapshot,
  Store!HydrateRemoteSnapshot, Twin!HydrateRemoteSnapshot, Store!Kept, Twin!Kept,
  Store!server, Store!stores, Twin!server, Twin!stores

\* it sends,
LEMMA TwinClick ==
  ASSUME NEW c \in Clients, NEW u \in Updates
  PROVE  OnSyncProjection(c, u) => Twin!OnSyncDraft(c, u)
BY DEF OnSyncProjection, Store!OnSyncDraft, Twin!OnSyncDraft,
  Store!EnqueueOptimisticPatch, Twin!EnqueueOptimisticPatch, Store!Held, Twin!Held,
  Store!server, Twin!server

\* and a call of it ends in one of three ways.
LEMMA TwinSettles ==
  ASSUME NEW c \in Clients
  PROVE  /\ UpdateSucceeds(c) => Twin!SyncSucceeds(c)
         /\ UpdateIsTurnedDown(c) => Twin!SyncIsTurnedDown(c)
         /\ UpdateFails(c) => Twin!SyncFails(c)
BY DEF UpdateSucceeds, UpdateIsTurnedDown, UpdateFails,
  Store!SyncSucceeds, Store!SyncIsTurnedDown, Store!SyncFails,
  Twin!SyncSucceeds, Twin!SyncIsTurnedDown, Twin!SyncFails,
  Store!MarkPatchRetrying, Store!ApplyPatchResult, Store!Settle,
  Twin!MarkPatchRetrying, Twin!ApplyPatchResult, Twin!Settle,
  Store!Mark, Store!Raised, Twin!Mark, Twin!Raised, Store!server, Twin!server

\* Every step on projections is one of the twin.
LEMMA TwinNext ==
  [ProjectionNext]_projectionVars => [Twin!DraftNext]_(Twin!draftVars)
<1>1. UNCHANGED projectionVars => UNCHANGED Twin!draftVars
  BY DEF projectionVars, Twin!draftVars, Twin!server, Twin!stores, Twin!network
<1>2. ProjectionNext => Twin!DraftNext
  BY TwinService, TwinIsRead, TwinForgets, TwinStore, TwinLoad, TwinClick, TwinSettles
  DEF ProjectionNext, Twin!DraftNext
<1>3. QED
  BY <1>1, <1>2

\* A projection is what its accepted updates made of it, for any pages, updates, fields,
\* workspaces and number of restarts (projection/service.ts, lib/projections/sync-store.ts).
THEOREM ProjectionCorrect == ProjectionSpec => []ProjectionIsItsUpdates
<1>1. ProjectionInit => Twin!IInv
  BY TwinInit, TwinAssumption, TwinNulls, Twin!DraftInitIInv
<1>2. Twin!IInv /\ [ProjectionNext]_projectionVars => Twin!IInv'
  BY TwinNext, TwinAssumption, TwinNulls, Twin!DraftNextIInv
<1>3. Twin!IInv => ProjectionIsItsUpdates
  BY DEF Twin!IInv, ProjectionIsItsUpdates,
    Twin!DraftTypeOK, Twin!DraftIsItsEdits, Twin!EditsFollowTheirBase,
    Twin!AcknowledgedWasApplied, Store!DraftTypeOK, Store!DraftIsItsEdits,
    Store!EditsFollowTheirBase, Store!AcknowledgedWasApplied,
    Twin!Snapshot, Twin!Result, Twin!Entry, Twin!Fields, Twin!Bases,
    Store!Snapshot, Store!Result, Store!Entry, Store!Fields, Store!Bases,
    Twin!Version, Twin!Content, Twin!Log, Twin!Blank, Twin!LeftBy, Twin!Effect,
    Store!Version, Store!Content, Store!Log, Store!Blank, Store!LeftBy, Store!Effect,
    Twin!Acknowledged, Twin!Conflict, Twin!Applied,
    Store!Acknowledged, Store!Conflict, Store!Applied
<1>4. QED
  BY <1>1, <1>2, <1>3, PTL DEF ProjectionSpec
=============================================================================
