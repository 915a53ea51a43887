SPECIFICATION Spec
CONSTANTS
  NoSession = NoSession
  NoRequest = NoRequest
  Sessions = {1, 2, 3}
  Requests = {r1, r2}
  Enforced = FALSE
  Strategies = {"FORCE_LOGOUT_EXISTING", "DENY_NEW_LOGIN"}
INVARIANTS
  LoggedOutEverywhere
CHECK_DEADLOCK FALSE
