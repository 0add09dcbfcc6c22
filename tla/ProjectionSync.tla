---------------------------- MODULE ProjectionSync ----------------------------
(***************************************************************************)
(* The shared projection of a post's workspace.  Its service, its store and  *)
(* its half of the page are those of DraftSync once more, line for line, for  *)
(* updates of a projection, whose target is a workspace and a post.           *)
(*                                                                         *)
(* The contract calls the base of an update baseDraftVersion; the service      *)
(* compares it with the version of the projection, and the page states that   *)
(* version, so that it is a base like any other.  Projections and drafts share *)
(* nothing.                                                                   *)
(***************************************************************************)
EXTENDS DraftSync

CONSTANTS
  Updates, Workspaces, UpdateAuthor, UpdateKey, UpdateTarget,
  Removals,         \* the updates that set their field to null
  RolledBackUpdates, MaxProjections, MaxProjectionRestarts   \* bounds

ASSUME ProjectionAssumption ==
  /\ UpdateAuthor \in [Updates -> Clients]
  /\ UpdateKey \in [Updates -> Keys]
  /\ UpdateTarget \in [Updates -> Workspaces]
  /\ Removals \subseteq Updates
  /\ Absent \notin Updates
  /\ RolledBackUpdates \subseteq Updates
  /\ MaxProjections \in [Clients -> Nat] /\ MaxProjectionRestarts \in Nat

VARIABLES
  projection, updateResults, update, remoteProjection, pendingUpdates,
  awaited, answered, projectionsFetched, updateLogs

Store == INSTANCE DraftSync WITH
  Patches <- Updates, Targets <- Workspaces,
  AuthorOf <- UpdateAuthor, KeyOf <- UpdateKey, TargetOf <- UpdateTarget,
  Deletions <- Removals, RolledBack <- RolledBackUpdates,
  MaxFetches <- MaxProjections, MaxRestarts <- MaxProjectionRestarts,
  draft <- projection, results <- updateResults, edit <- update,
  remote <- remoteProjection, pending <- pendingUpdates,
  waiting <- awaited, returned <- answered, fetched <- projectionsFetched,
  logs <- updateLogs

ASSUME ProjectionNulls ==
  /\ None \notin Store!Snapshot /\ None \notin Store!Entry
  /\ None \notin Updates /\ None \notin Bases

projectionVars ==
  <<projection, updateResults, update, remoteProjection, pendingUpdates,
    awaited, answered, projectionsFetched, updateLogs>>

ProjectionInit == Store!DraftInit

ApplyUpdate(fields, u) == Store!ApplyPatch(fields, u)
VerdictOnUpdate(u) == Store!Verdict(u)
AcceptUpdate(u) == Store!Accept(u)

SubmitUpdate_Twice(u) ==
  /\ update[u] # None
  /\ AcceptUpdate(u)
  /\ UNCHANGED <<update, remoteProjection, pendingUpdates, awaited, answered,
                 projectionsFetched>>

SubmitUpdate(u) == Store!SubmitPatch(u)
RefuseUpdate(u) == Store!Refuse(u)
GetProjection(c) == Store!GetSnapshot(c)
ForgetProjections == Store!Restart

ApplyUpdateResult(u, result) == Store!ApplyPatchResult(u, result)
HydrateProjection(c, s) == Store!HydrateRemoteSnapshot(c, s)
EnqueueOptimisticUpdate(c, u) == Store!EnqueueOptimisticPatch(c, u)
MarkUpdateRetrying(c) == Store!MarkPatchRetrying(c)
ApplyUpdateLifecycle(u) == Store!ApplyRealtimeLifecycle(u)
RollbackUpdate(u) == Store!RollbackPatch(u)

LoadProjectionSnapshot(c) == Store!LoadDraftSnapshot(c)
OnSyncProjection(c, u) == Store!OnSyncDraft(c, u)
UpdateSucceeds(c) == Store!SyncSucceeds(c)
UpdateIsTurnedDown(c) == Store!SyncIsTurnedDown(c)
UpdateFails(c) == Store!SyncFails(c)

ProjectionNext ==
  \/ \E u \in Updates : \/ SubmitUpdate(u) \/ RefuseUpdate(u)
                        \/ ApplyUpdateLifecycle(u) \/ RollbackUpdate(u)
  \/ \E c \in Clients :
       \/ GetProjection(c) \/ LoadProjectionSnapshot(c)
       \/ UpdateSucceeds(c) \/ UpdateIsTurnedDown(c) \/ UpdateFails(c)
       \/ \E u \in Updates : OnSyncProjection(c, u)
  \/ ForgetProjections

ProjectionSpec == ProjectionInit /\ [][ProjectionNext]_projectionVars

\* The projection is what the accepted updates made of it, one version each; an update
\* is accepted on the version its page held (projection/service.ts); and the updates a
\* store holds as acknowledged are among them.
ProjectionIsItsUpdates ==
  /\ Store!DraftTypeOK
  /\ Store!DraftIsItsEdits
  /\ Store!EditsFollowTheirBase
  /\ Store!AcknowledgedWasApplied
=============================================================================
