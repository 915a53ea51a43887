SPECIFICATION MCFairSpec
CONSTANTS
  NoSession = NoSession
  NoRequest = NoRequest
  Sessions = {1, 2, 3, 4}
  Requests = {r1, r2}
  Enforced = TRUE
  Strategies = {"FORCE_LOGOUT_EXISTING", "DENY_NEW_LOGIN"}
INVARIANTS
  TypeOK
  OneHeadPerLogin
  LoggedOutEverywhere
  OneDevice
PROPERTIES
  ActiveGivesWay
  EveryRequestEnds
  KeepsChains
CHECK_DEADLOCK FALSE
