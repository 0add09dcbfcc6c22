CONSTANTS
  Users = {u1, u2}
  Guest = guest
  Posts = {p1}
  Requests = {r1, r2}
  Titles = {t1}
  Credits = {1}
  Keep = Keep
  NoPost = NoPost
  NoInput = NoInput
  Ops = {"create", "submit", "accept"}
  Targets = {}
  Backend = "postgres"
  PoolSize = 3
  MaxInFlight = 1
  MaxFaults = 1
SYMMETRY Symmetry
SPECIFICATION Spec
INVARIANT AllOrNothing
