CONSTANTS
  Users = {u1, u2}
  Guest = guest
  Posts = {p1}
  Requests = {r1, r2, r3, r4}
  Titles = {t1}
  Credits = {1}
  Keep = Keep
  NoPost = NoPost
  NoInput = NoInput
  Ops = {"create", "submit", "accept"}
  Targets = {}
  Backend = "postgres"
  PoolSize = 3
  MaxInFlight = 2
  MaxFaults = 0
SYMMETRY Symmetry
SPECIFICATION Spec
INVARIANT OneCollaborationPerResponse
