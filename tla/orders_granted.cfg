SPECIFICATION FairSpec
CONSTANTS
  o1 = o1
  o2 = o2
  p1 = p1
  p2 = p2
  monthly = monthly
  forever = forever
  NoOrder = NoOrder
  Orders = {o1}
  Jobs = {p1, p2}
  Plans = {forever}
  PlanOf <- BothForever
  LifetimePlans = {forever}
  Delistable = {}
  CouponOrders = {o1}
  CouponLimit = 1
  RetryOrders = {}
  Stacking = TRUE
  MaxFaults = 0
PROPERTY PaidIsGranted
CHECK_DEADLOCK FALSE
