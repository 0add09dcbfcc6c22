CONSTANTS
  Clients = {"a", "b"}
  Keys = {"note"}
  Absent = Absent
  None = None
  Patches = {"a1", "a2", "b1"}
  Targets = {"post"}
  AuthorOf <- MCAuthorOf
  KeyOf <- MCKeyOf
  TargetOf <- MCTargetOf
  Deletions = {}
  RolledBack = {"b1"}
  MaxFetches <- MCMaxFetches
  MaxRestarts = 1
  Updates = {"a1", "b1"}
  Workspaces = {"workspace"}
  UpdateAuthor <- MCUpdateAuthor
  UpdateKey <- MCUpdateKey
  UpdateTarget <- MCUpdateTarget
  Removals = {"b1"}
  RolledBackUpdates = {"a1"}
  MaxProjections <- MCMaxFetches
  MaxProjectionRestarts = 1
  Mutations = {"m", "m0", "m2", "n"}
  Subjects = {"post"}
  MutationTarget <- MCMutationTarget
  BaseOf <- MCBaseOf
  Actors = {"a", "b"}
  MutationAuthor <- MCMutationAuthor
  Ids = {"m", "m0", "m2"}
  MutationId <- MCMutationId
  NoActor = NoActor
  NoBase = NoBase
  NoEntry = NoEntry
  NoResult = NoResult
  Enqueued = {"m"}
  MaxAttempts = 2
  MaxCrashes = 1
CHECK_DEADLOCK FALSE
SPECIFICATION Spec
INVARIANT DraftTypeOK
INVARIANT DraftIsItsEdits
INVARIANT EditsFollowTheirBase
INVARIANT AcknowledgedWasApplied
INVARIANT ProjectionIsItsUpdates
INVARIANT MutationTypeOK
INVARIANT MutationsCountOnce
PROPERTY ResultsMoveForward
