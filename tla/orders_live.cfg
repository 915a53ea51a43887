SPECIFICATION FairSpec
CONSTANTS
  o1 = o1
  o2 = o2
  p1 = p1
  p2 = p2
  monthly = monthly
  forever = forever
  NoOrder = NoOrder
  Orders = {o1}
  Jobs = {p1, p2}
  Plans = {monthly}
  PlanOf <- BothMonthly
  LifetimePlans = {}
  Delistable = {monthly}
  CouponOrders = {o1}
  CouponLimit = 1
  RetryOrders = {o1}
  Stacking = TRUE
  MaxFaults = 2
PROPERTIES
  EveryOrderCloses
  PaidIsSettled
CHECK_DEADLOCK FALSE
