--------------------------- MODULE PaymentOrdersMC ---------------------------
(***************************************************************************)
(* Small instances of PaymentOrders for TLC.                               *)
(***************************************************************************)
EXTENDS PaymentOrders, TLC

CONSTANTS o1, o2, p1, p2, monthly, forever

\* Both requests ask for the plan that never ends, so that an activation finds
\* a lifetime subscription, and compete for one coupon.
BothForever == [o \in Orders |-> forever]
BothMonthly == [o \in Orders |-> monthly]

JobSymmetry == Permutations(Jobs)
=============================================================================
