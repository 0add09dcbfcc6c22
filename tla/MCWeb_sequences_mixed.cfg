SPECIFICATION Spec
CONSTANTS
  Posts = {"p", "q"}
  RoomEvents = {2}
  MaxSessions = 1
  MaxLines = 1
  Budgets <- MCTwoPages
  Tabs = {1}
  MaxTokens = 1
  MaxLoads = 1
  MaxFailures = 0
  Types = {"help"}
  Grain = 2
  Limit = 1
  MaxPosts = 1
  MaxRequests = 1
  MaxFails = 0
CHECK_DEADLOCK FALSE
PROPERTY UpdatesReload
