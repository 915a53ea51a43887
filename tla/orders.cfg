SPECIFICATION Spec
CONSTANTS
  o1 = o1
  o2 = o2
  p1 = p1
  p2 = p2
  monthly = monthly
  forever = forever
  NoOrder = NoOrder
  Orders = {o1, o2}
  Jobs = {p1, p2}
  Plans = {forever}
  PlanOf <- BothForever
  LifetimePlans = {forever}
  Delistable = {}
  CouponOrders = {o1, o2}
  CouponLimit = 1
  RetryOrders = {o1}
  Stacking = TRUE
  MaxFaults = 1
SYMMETRY JobSymmetry
INVARIANTS
  TypeOK
  GrantOnlyPaid
  SuccessAccountedFor
  FailedIsUnpaid
PROPERTIES
  TerminalLeftByStaleWriteOnly
  KeepsPromise
CHECK_DEADLOCK FALSE
