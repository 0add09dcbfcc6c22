CONSTANTS
  Users = {u1}
  Guest = guest
  Posts = {p1}
  Requests = {r1, r2, r3}
  Titles = {t1, t2}
  Credits = {0, 1}
  Keep = Keep
  NoPost = NoPost
  NoInput = NoInput
  Ops = {"create", "update", "cancel"}
  Targets = {}
  Backend = "postgres"
  PoolSize = 3
  MaxInFlight = 3
  MaxFaults = 1
SPECIFICATION FairSpec
INVARIANT CreditStaysPositive
PROPERTY EditsKeepState
PROPERTY AnsweredOrExhausted
CHECK_DEADLOCK FALSE
