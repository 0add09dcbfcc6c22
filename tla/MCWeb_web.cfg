SPECIFICATION Spec
CONSTANTS
  Posts = {"p"}
  RoomEvents = {1}
  MaxSessions = 2
  MaxLines = 3
  Budgets <- MCBudgets
  Tabs = {1, 2}
  MaxTokens = 2
  MaxLoads = 2
  MaxFailures = 1
  Types = {"help", "teach"}
  Grain = 2
  Limit = 1
  MaxPosts = 3
  MaxRequests = 3
  MaxFails = 1
CHECK_DEADLOCK FALSE
INVARIANT WebTypeOK
INVARIANT SubscriptionsReach
INVARIANT OneLineOfTheSession
INVARIANT LastActStands
INVARIANT PagesCoverTheList
PROPERTY Reconnects
