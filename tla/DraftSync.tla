------------------------------ MODULE DraftSync ------------------------------
(***************************************************************************)
(* The shared draft of a post: the in-memory service of apps/api that       *)
(* numbers the edits it accepts and remembers its answer to each patch, the *)
(* optimistic store of a web client (lib/drafts/sync-store.ts) and the page *)
(* of the post, which fetches the draft and sends the user's edits.          *)
(*                                                                         *)
(* A call may reach the service late, more than once or never: the service   *)
(* is written to be called again with a patch it has answered, whoever calls *)
(* it.  The page itself sends each edit once.  Nothing in the repository      *)
(* publishes the lifecycle events the page listens to: an event is taken to   *)
(* carry an answer the service remembers.                                    *)
(***************************************************************************)
EXTENDS Integers, Sequences, FiniteSets

CONSTANTS
  Clients,      \* each an open page, of a user of its own
  Patches,      \* edits somebody may make; each click has a random patch id
  Keys,         \* fields of the draft
  Targets,
  AuthorOf, KeyOf, TargetOf,    \* of a patch
  Deletions,    \* the patches that set their field to null
  Absent, None,
  RolledBack,   \* bound: the patches somebody may roll back
  MaxFetches,   \* bound: snapshots on their way to a page
  MaxRestarts   \* bound: restarts of the service

ASSUME DraftAssumption ==
  /\ AuthorOf \in [Patches -> Clients]
  /\ KeyOf \in [Patches -> Keys]
  /\ TargetOf \in [Patches -> Targets]
  /\ Deletions \subseteq Patches
  /\ Absent \notin Patches
  /\ RolledBack \subseteq Patches
  /\ MaxFetches \in [Clients -> Nat] /\ MaxRestarts \in Nat

VARIABLES
  draft,      \* the stored snapshot
  results,    \* seenPatchResults
  edit,       \* the base of a patch, once it has been made
  remote,     \* remoteDraft of each store
  pending,    \* the entry of a patch in pendingPatches of its author's store
  waiting,    \* the patch whose call a page awaits
  returned,   \* the answer to that call, on its way
  fetched,    \* snapshots on their way to each page
  logs        \* of each life of the service, the patches it accepted

server == <<draft, results, logs>>
stores == <<edit, remote, pending>>
network == <<waiting, returned, fetched>>
draftVars == <<server, stores, network>>

-----------------------------------------------------------------------------
Fields == [Keys -> Patches \cup {Absent}]
Blank == [k \in Keys |-> Absent]

\* What an envelope that passes validation may state as its base.
Bases == Nat

Snapshot == [target: Targets, version: Nat, fields: Fields]

\* version: of the draft once the patch is in it.
Result == [status: {"acknowledged"}, version: Nat] \cup
          [status: {"conflict", "rejected"}]

Acknowledged(v) == [status |-> "acknowledged", version |-> v]
Conflict == [status |-> "conflict"]
Rejected == [status |-> "rejected"]

\* An entry has the status of its result and keeps the version of an acknowledgement.
\* A patch is in one store and there once: the order of the list, which only the
\* display reads, is left out.
Entry == Result \cup [status: {"optimistic_applied", "rolled_back", "retrying"}]

ASSUME DraftNulls ==
  /\ None \notin Snapshot /\ None \notin Entry
  /\ None \notin Patches /\ None \notin Bases

DraftInit ==
  /\ draft = None
  /\ results = [p \in Patches |-> None]
  /\ logs = << <<>> >>
  /\ edit = [p \in Patches |-> None]
  /\ remote = [c \in Clients |-> None]
  /\ pending = [p \in Patches |-> None]
  /\ waiting = [c \in Clients |-> None]
  /\ returned = [c \in Clients |-> None]
  /\ fetched = [c \in Clients |-> {}]

-----------------------------------------------------------------------------
(***************************************************************************)
(* The service.  Each operation runs to its end without an await.           *)
(***************************************************************************)
Effect(p) == IF p \in Deletions THEN Absent ELSE p

ApplyPatch(fields, p) == [fields EXCEPT ![KeyOf[p]] = Effect(p)]

Version == IF draft = None THEN 0 ELSE draft.version
Content == IF draft = None THEN Blank ELSE draft.fields

Log == logs[Len(logs)]

Stale_OffByOne(p) == edit[p] < Version - 1

Stale(p) == edit[p] < Version

ElsewhereAimed(p) == draft # None /\ draft.target # TargetOf[p]

Verdict_VersionBefore(p) ==
  IF ElsewhereAimed(p) \/ Stale(p) THEN Conflict ELSE Acknowledged(Version)

\* The answer to a patch it has not seen.  Every role that can sign in may sync.
Verdict(p) ==
  IF ElsewhereAimed(p) \/ Stale(p) THEN Conflict ELSE Acknowledged(Version + 1)

\* The answer goes to the page that awaits it, if one still does.
Return(p, result) ==
  LET c == AuthorOf[p]
  IN returned' = IF waiting[c] = p /\ returned[c] = None
                 THEN [returned EXCEPT ![c] = result] ELSE returned

Accept_Forgets(p) ==
  /\ draft' = [target |-> TargetOf[p], version |-> Version + 1,
               fields |-> ApplyPatch(Content, p)]
  /\ logs' = [logs EXCEPT ![Len(logs)] = Append(Log, p)]
  /\ UNCHANGED results

\* The answer is remembered, whatever it is.
Accept(p) ==
  /\ draft' = [target |-> TargetOf[p], version |-> Version + 1,
               fields |-> ApplyPatch(Content, p)]
  /\ logs' = [logs EXCEPT ![Len(logs)] = Append(Log, p)]
  /\ results' = [results EXCEPT ![p] = Acknowledged(Version + 1)]

Replay(p) ==
  /\ results[p] # None
  /\ Return(p, results[p])
  /\ UNCHANGED server

TurnDown(p) ==
  /\ results[p] = None /\ Verdict(p) = Conflict
  /\ results' = [results EXCEPT ![p] = Conflict]
  /\ Return(p, Conflict)
  /\ UNCHANGED <<draft, logs>>

TakeUp(p) ==
  /\ results[p] = None /\ Verdict(p) # Conflict
  /\ Accept(p)
  /\ Return(p, Verdict(p))

\* A call for p reaches the service.
SubmitPatch(p) ==
  /\ edit[p] # None
  /\ Replay(p) \/ TurnDown(p) \/ TakeUp(p)
  /\ UNCHANGED <<stores, waiting, fetched>>

\* Not signed in any more, or signed in as somebody else: the id is not consumed.
Refuse(p) ==
  /\ waiting[AuthorOf[p]] = p /\ returned[AuthorOf[p]] = None
  /\ Return(p, Rejected)
  /\ UNCHANGED <<server, stores, waiting, fetched>>

GetSnapshot(c) ==
  /\ draft # None
  /\ Cardinality(fetched[c]) < MaxFetches[c]
  /\ fetched' = [fetched EXCEPT ![c] = @ \cup {draft}]
  /\ UNCHANGED <<server, stores, waiting, returned>>

\* With no draft there is nothing to lose.
Restart ==
  /\ draft # None
  /\ Len(logs) <= MaxRestarts
  /\ draft' = None
  /\ results' = [p \in Patches |-> None]
  /\ logs' = Append(logs, <<>>)
  /\ UNCHANGED <<stores, network>>

-----------------------------------------------------------------------------
(***************************************************************************)
(* The store.                                                              *)
(***************************************************************************)
\* The entry of p, if there is one, takes the result.
Mark(p, result) ==
  pending' = [pending EXCEPT ![p] = IF @ = None THEN None ELSE result]

\* What an acknowledgement does to the snapshot a client holds: it raises the version,
\* and only the version.
Raised(snapshot, p, result) ==
  IF /\ result.status = "acknowledged" /\ snapshot # None /\ pending[p] # None
     /\ result.version > snapshot.version
  THEN [snapshot EXCEPT !.version = result.version] ELSE snapshot

\* applyResultInternal
ApplyPatchResult(p, result) ==
  /\ Mark(p, result)
  /\ remote' = [remote EXCEPT ![AuthorOf[p]] = Raised(@, p, result)]
  /\ UNCHANGED edit

\* A store that has no entry of the patch lets the event pass.
ApplyRealtimeLifecycle(p) ==
  /\ results[p] # None
  /\ ApplyPatchResult(p, results[p])
  /\ UNCHANGED <<server, network>>

\* What a snapshot leaves of the list.
Kept(e, snapshot) ==
  CASE e.status = "acknowledged" -> e.version > snapshot.version
    [] OTHER -> e.status # "rolled_back"

HydrateRemoteSnapshot(c, snapshot) ==
  /\ remote' = [remote EXCEPT ![c] = snapshot]
  /\ pending' = [p \in Patches |->
       IF AuthorOf[p] = c /\ pending[p] # None /\ ~Kept(pending[p], snapshot)
       THEN None ELSE pending[p]]
  /\ UNCHANGED edit

Held(c) == IF remote[c] = None THEN 0 ELSE remote[c].version

EnqueueOptimisticPatch(c, p) ==
  /\ edit' = [edit EXCEPT ![p] = Held(c)]
  /\ pending' = [pending EXCEPT ![p] = [status |-> "optimistic_applied"]]
  /\ UNCHANGED remote

-----------------------------------------------------------------------------
(***************************************************************************)
(* The page.                                                               *)
(***************************************************************************)
\* loadDraftSnapshot, on mount, with a new access token, or on an event.  A snapshot
\* that was slow replaces a newer one; an error leaves everything as it is.
LoadDraftSnapshot(c) ==
  \E s \in fetched[c] :
    /\ fetched' = [fetched EXCEPT ![c] = @ \ {s}]
    /\ \/ HydrateRemoteSnapshot(c, s)
       \/ UNCHANGED stores
    /\ UNCHANGED <<server, waiting, returned>>

\* The button is disabled until the call before it has settled.
OnSyncDraft(c, p) ==
  /\ AuthorOf[p] = c /\ edit[p] = None
  /\ waiting[c] = None
  /\ EnqueueOptimisticPatch(c, p)
  /\ waiting' = [waiting EXCEPT ![c] = p]
  /\ UNCHANGED <<server, returned, fetched>>

Settle_AnswerKept(c) ==
  /\ waiting' = [waiting EXCEPT ![c] = None]
  /\ UNCHANGED <<server, returned, fetched>>

Settle(c) ==
  /\ waiting' = [waiting EXCEPT ![c] = None]
  /\ returned' = [returned EXCEPT ![c] = None]
  /\ UNCHANGED <<server, fetched>>

SyncSucceeds(c) ==
  /\ returned[c] # None /\ returned[c].status = "acknowledged"
  /\ ApplyPatchResult(waiting[c], returned[c])
  /\ Settle(c)

MarkPatchRetrying(c) ==
  /\ Mark(waiting[c], [status |-> "retrying"])
  /\ UNCHANGED <<edit, remote>>

\* The client of the HTTP API rejects every answer that is not of the 2xx, and the
\* body of a 409 is not the error envelope it reads: a conflict is one error of many.
SyncIsTurnedDown(c) ==
  /\ returned[c] # None /\ returned[c].status # "acknowledged"
  /\ MarkPatchRetrying(c)
  /\ Settle(c)

\* Timed out, aborted or cut off, before or after the service acted.
SyncFails(c) ==
  /\ waiting[c] # None
  /\ MarkPatchRetrying(c)
  /\ Settle(c)

\* No caller in the repository; a test rolls a patch back.
RollbackPatch(p) ==
  /\ p \in RolledBack
  /\ pending[p] # None /\ pending[p].status \in {"optimistic_applied", "retrying"}
  /\ Mark(p, [status |-> "rolled_back"])
  /\ UNCHANGED <<server, edit, remote, network>>

DraftNext ==
  \/ \E p \in Patches : \/ SubmitPatch(p) \/ Refuse(p)
                        \/ ApplyRealtimeLifecycle(p) \/ RollbackPatch(p)
  \/ \E c \in Clients :
       \/ GetSnapshot(c) \/ LoadDraftSnapshot(c)
       \/ SyncSucceeds(c) \/ SyncIsTurnedDown(c) \/ SyncFails(c)
       \/ \E p \in Patches : OnSyncDraft(c, p)
  \/ Restart

-----------------------------------------------------------------------------
(***************************************************************************)
(* Properties.                                                             *)
(***************************************************************************)
\* The types of the variables; and only an awaited call has an answer, so that a call
\* that was given up is not settled by an answer that comes late (page onSyncDraft).
DraftTypeOK ==
  /\ draft \in Snapshot \cup {None}
  /\ results \in [Patches -> Result \cup {None}]
  /\ logs \in Seq(Seq(Patches)) /\ logs # <<>>
  /\ edit \in [Patches -> Bases \cup {None}]
  /\ remote \in [Clients -> Snapshot \cup {None}]
  /\ pending \in [Patches -> Entry \cup {None}]
  /\ waiting \in [Clients -> Patches \cup {None}]
  /\ returned \in [Clients -> Result \cup {None}]
  /\ \A c \in Clients : waiting[c] = None => returned[c] = None
  /\ fetched \in [Clients -> SUBSET Snapshot]

\* The value the edits of a log leave in field k: that of the last one of this field.
LeftBy(log, k, value) ==
  \/ value = Absent /\ \A v \in DOMAIN log : KeyOf[log[v]] # k
  \/ \E v \in DOMAIN log :
       /\ KeyOf[log[v]] = k /\ value = Effect(log[v])
       /\ \A w \in DOMAIN log : KeyOf[log[w]] = k => w <= v

\* The draft is what the accepted edits made of it, one version each, in the order
\* they were accepted; and a patch is acknowledged with the version it has in that
\* order or is not in it: a call that is repeated, however late, neither applies its
\* edit twice nor is told something else (draft/service.ts, seenPatchResults).
DraftIsItsEdits ==
  /\ (draft = None) <=> (Log = <<>>)
  /\ Version = Len(Log)
  /\ \A k \in Keys : LeftBy(Log, k, Content[k])
  /\ \A v \in DOMAIN Log : results[Log[v]] = Acknowledged(v)
  /\ \A p \in Patches : results[p] # None /\ results[p] # Conflict =>
       \E v \in DOMAIN Log : Log[v] = p

\* No lost update: as long as the service has not restarted, an edit is accepted only
\* on the version its page held when it was made.  A page may hold a version it never
\* fetched (an acknowledgement moves it) or fall back to an older one (a late
\* snapshot), but never one the service has not reached.
EditsFollowTheirBase ==
  \A v \in DOMAIN Log :
    edit[Log[v]] >= v - 1 /\ (Len(logs) = 1 => edit[Log[v]] = v - 1)

\* In one of the lives, the service made p version n.
Applied(lives, p, n) ==
  \E l \in DOMAIN lives : n \in DOMAIN lives[l] /\ lives[l][n] = p

\* What a store holds as acknowledged was accepted, as that version, in some life of
\* the service: no order of answers, events, retries, rollbacks and restarts makes it
\* up.
AcknowledgedWasApplied ==
  \A p \in Patches :
    pending[p] # None /\ pending[p].status = "acknowledged" =>
      Applied(logs, p, pending[p].version)

\* docs/03-engineering/collaborative-mutation-foundation/frontend-mutation-flow.md: a
\* conflict makes the "transition to conflict state".  An edit whose conflict has come
\* back is not left as one that is still to be sent.  It is: the page takes the 409
\* for a failed call, and keeps the edit as "retrying".
ConflictIsMarked ==
  [][\A c \in Clients :
       (returned[c] = Conflict /\ returned'[c] = None /\ SyncIsTurnedDown(c)) =>
         pending'[waiting[c]] \in {None, Conflict, [status |-> "rolled_back"]}]_draftVars

DraftSpec == DraftInit /\ [][DraftNext]_draftVars
=============================================================================
