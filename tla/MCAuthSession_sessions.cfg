CONSTANTS
  Requests = {r1, r2, r3, r4}
  Users <- MCUsers
  Names <- MCNames
  EmailOf <- MCEmailOf
  UsernameOf <- MCUsernameOf
  Fold <- MCFold
  LengthOf <- MCLengthOf
  Lengths = {8, 9}
  Registered = {"ann"}
  NoUser = NoUser
  NoSession = NoSession
  None = None
  NoPair = NoPair
  Kinds = {"register", "login", "refresh", "logout", "me"}
  Headers = {"anonymous", "public", "user"}
  Backend = "db"
  Ttl = 1
  Horizon = 1
  InFlight = 2
  MaxFaults = 1
SYMMETRY Symmetry
SPECIFICATION MCSpec
INVARIANT TypeOK
INVARIANT IndexAgrees
INVARIANT NoActorAfterLogout
INVARIANT LogoutMissesOnlyOverlap
INVARIANT ReplaysOverlap
INVARIANT TokensDieByRotation
PROPERTY RevokedStaysRevoked
PROPERTY OwnEmailLogsIn
