CONSTANTS
  Users = {u1, u2}
  Guest = guest
  Posts = {p1}
  Requests = {r1, r2, r3}
  Titles = {t1}
  Credits = {1}
  Keep = Keep
  NoPost = NoPost
  NoInput = NoInput
  Ops = {"create", "cancel"}
  Targets = {}
  Backend = "postgres"
  PoolSize = 2
  MaxInFlight = 2
  MaxFaults = 0
SPECIFICATION FairSpec
PROPERTY AllAnswered
CHECK_DEADLOCK FALSE
