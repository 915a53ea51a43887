SPECIFICATION Spec
CONSTANTS
  b1 = b1
  Broadcasts = {b1}
  NoBroadcast = NoBroadcast
  LastReader = 2
  PageSize = 1
  TickTake = 1
  Ticks = {t1, t2}
  Desks = {d1, d2}
  MaxErrands = 3
  MaxMishaps = 1
  Messages = {m1, m2}
  NoMessage = NoMessage
  Carriers = {c1, c2}
  MaxAttempts = 2
  MaxTroubles = 2
INVARIANTS
  MailoutsTypeOK
  OneMessageEach
  AudienceReached
  MailedOnce
PROPERTIES
  QuietAfterCancel
  EveryMailoutEnds
CHECK_DEADLOCK FALSE
