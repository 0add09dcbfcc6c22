CONSTANTS
  Connections = {c1, c2, c3}
  Users = {u1, u2}
  Topics = {room, list}
  Rooms = {room}
  NoToken = NoToken
  NoContext = NoContext
  NoSession = NoSession
  NoSnapshot = NoSnapshot
  StaleAfter = 0
  SessionStaleAfter = 1
  TokenWindow = 1
  Horizon = 2
SYMMETRY Symmetry
SPECIFICATION Spec
INVARIANT TypeOK
INVARIANT IndexAgrees
INVARIANT PresenceAgrees
INVARIANT SessionsAgree
INVARIANT TokenHeldOnce
INVARIANT RosterIsCurrent
