CONSTANTS
  Users = {u1, u2}
  Guest = guest
  Posts = {p1}
  Requests = {r1, r2, r3, r4}
  Titles = {t1}
  Credits = {0, 1}
  Keep = Keep
  NoPost = NoPost
  NoInput = NoInput
  Ops = {"create", "update", "cancel", "transition", "submit", "accept"}
  Targets = {"in_review", "accepted", "in_progress"}
  Backend = "memory"
  PoolSize = 3
  MaxInFlight = 1
  MaxFaults = 0
SYMMETRY Symmetry
SPECIFICATION Spec
INVARIANT OneCollaborationPerPost
PROPERTY ImplementsPostLifecycle
