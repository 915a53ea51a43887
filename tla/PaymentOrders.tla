---------------------------- MODULE PaymentOrders ----------------------------
(***************************************************************************)
(* One student's one-time purchases: src/modules/payments/payments.service *)
(* from checkout to the subscription, its entitlements and the coupon      *)
(* redemption, with subscriptions.service called on the way.               *)
(*                                                                         *)
(* Every await of the code is a step boundary here.  A row is written      *)
(* unconditionally from values read some steps earlier, because that is    *)
(* what the code does: no order update carries a version or a status       *)
(* condition.  Four callers reach refreshOrderStatus (the status poll, the *)
(* webhook, the admin's finalize and the reconcile tick); after their own  *)
(* lookup they run the same code, so each concurrent call is one job.      *)
(*                                                                         *)
(* The horizon is shorter than a subscription: no subscription reaches its *)
(* own endsAt here.  CANCELLED is folded into FAILED (same transitions,    *)
(* same handling) and refunds are left out.                                *)
(***************************************************************************)
EXTENDS Naturals, Sequences, Functions

CONSTANTS
  Orders,         \* the checkout requests of the student, one order each
  Jobs,           \* concurrent calls of refreshOrderStatus
  NoOrder,        \* the order of an idle job
  Plans, PlanOf,  \* the plans on offer, and the plan each request asks for
  LifetimePlans,  \* plans whose subscription has no end
  Delistable,     \* plans an admin may switch off and on
  CouponOrders,   \* requests that carry the coupon code
  CouponLimit,    \* coupon.maxRedemptions
  RetryOrders,    \* orders whose page lets the payer retry a failed attempt
  Stacking,       \* the SUBSCRIPTION_STACKING setting
  MaxFaults       \* bound: process deaths and failed calls

ASSUME OrdersAssumption ==
  /\ NoOrder \notin Orders
  /\ PlanOf \in [Orders -> Plans]
  /\ LifetimePlans \subseteq Plans /\ Delistable \subseteq Plans
  /\ CouponOrders \subseteq Orders /\ RetryOrders \subseteq Orders
  /\ CouponLimit \in Nat /\ MaxFaults \in Nat /\ Stacking \in BOOLEAN

VARIABLES
  status,       \* paymentOrder.status, "none" before the row exists
  lapsed,       \* orders whose expiresAt has passed
  book,         \* order rows by createdAt
  checkout,     \* how far each checkout request got
  attempt,      \* external: the latest payment attempt at the provider
  onSale,       \* plans with isActive
  sub,          \* subscription.status of the order's subscription
  access,       \* the entitlements of that subscription
  redemptions,  \* couponRedemption rows of the order
  job,          \* the calls in flight, with what they read
  faults,       \* faults left
  dropped       \* history: SUCCESS orders whose activation was given up

vars == <<status, lapsed, book, checkout, attempt, onSale, sub, access,
          redemptions, job, faults, dropped>>

OpenStatuses == {"CREATED", "PENDING"}
TerminalStatuses == {"SUCCESS", "FAILED", "EXPIRED", "CANCELLED", "REFUNDED"}
OrderStatuses == OpenStatuses \cup TerminalStatuses

\* A call of refreshOrderStatus at some step, with its local variables, and one
\* whose step uses none of them.
Call(step, o, read, answer, subscribed, doomed) ==
  [pc |-> step, order |-> o, read |-> read, answer |-> answer,
   subscribed |-> subscribed, doomed |-> doomed]
At(step, o) == Call(step, o, "none", "none", FALSE, {})
IdleJob == At("idle", NoOrder)

\* The steps of activateSubscription, up to and after the subscription row.
BeforeSubscription ==
  {"activating", "looking", "replacing", "revoking", "creating"}
Activating == BeforeSubscription \cup {"entitling"}
JobSteps == {"idle", "asking", "writing", "redeeming", "recording"} \cup Activating

\* applyTransition: the table of allowed moves, and "stay" for every other.
Allowed ==
  [CREATED   |-> {"PENDING", "SUCCESS", "FAILED", "EXPIRED", "CANCELLED"},
   PENDING   |-> {"SUCCESS", "FAILED", "EXPIRED", "CANCELLED", "REFUNDED"},
   SUCCESS   |-> {"REFUNDED"},
   FAILED    |-> {}, EXPIRED |-> {}, CANCELLED |-> {}, REFUNDED |-> {}]
\* Faulty variant: a move outside the table yields no status at all.
TransitionOrUndefined(current, next) ==
  IF next \in Allowed[current] THEN next ELSE "undefined"
ApplyTransition(current, next) ==
  IF next \in Allowed[current] THEN next ELSE current

\* normalizeStatus: the state of the latest attempt decides.
\* Faulty variants: what is not recognised counts as paid, or as failed.
UnknownIsPaid(latest) == IF latest = "failed" THEN "FAILED" ELSE "SUCCESS"
UnknownIsFailed(latest) == IF latest = "paid" THEN "SUCCESS" ELSE "FAILED"
NormalizeStatus(latest) ==
  [paid |-> "SUCCESS", failed |-> "FAILED", expired |-> "EXPIRED",
   open |-> "PENDING"][latest]

ActiveSubscriptions == {o \in Orders : sub[o] = "ACTIVE"}
IsLifetime(o) == PlanOf[o] \in LifetimePlans
\* Read by activateSubscription to choose between stacking and replacing.
CanStack == Stacking /\ \A o \in ActiveSubscriptions : ~IsLifetime(o)

\* subscription.paymentOrderId is unique.  Faulty variants: no index at all, and
\* an index on the user and the plan.
NeverUnique(o) == FALSE
UniquePerPlan(o) == \E q \in Orders : PlanOf[q] = PlanOf[o] /\ sub[q] # "none"
HasSubscription(o) == sub[o] # "none"

\* What expireStaleOrders selects.  Faulty variants: settled orders too, and
\* PENDING orders only.
LapsedOrders == {o \in lapsed : status[o] # "none"}
LapsedPending == {o \in lapsed : status[o] = "PENDING"}
StaleOrders == {o \in lapsed : status[o] \in OpenStatuses}

\* How a call goes on after its status write: the update returns the row with
\* its subscription as of now, and only SUCCESS leads on.  Faulty variant: only
\* the move from PENDING to SUCCESS does.
ActivateFromPending(o, next) ==
  IF next = "SUCCESS" /\ status[o] = "PENDING"
    THEN Call("activating", o, "none", "none", HasSubscription(o), {})
    ELSE IdleJob
AfterWrite(o, next) ==
  IF next = "SUCCESS"
    THEN Call("activating", o, "none", "none", HasSubscription(o), {})
    ELSE IdleJob

Init ==
  /\ status = [o \in Orders |-> "none"]
  /\ lapsed = {}
  /\ book = << >>
  /\ checkout = [o \in Orders |-> "idle"]
  /\ attempt = [o \in Orders |-> "absent"]
  /\ onSale = Plans
  /\ sub = [o \in Orders |-> "none"]
  /\ access = [o \in Orders |-> "none"]
  /\ redemptions = [o \in Orders |-> 0]
  /\ job = [p \in Jobs |-> IdleJob]
  /\ faults = MaxFaults
  /\ dropped = {}

-----------------------------------------------------------------------------
(* checkout *)

\* The newest open, unexpired order of the plan answers the request when it
\* has a payment link; an older one is not looked at.
Reused(o) ==
  LET open == {i \in DOMAIN book : /\ PlanOf[book[i]] = PlanOf[o]
                                   /\ status[book[i]] \in OpenStatuses
                                   /\ book[i] \notin lapsed}
  IN  \E i \in open : (\A j \in open : j <= i) /\ checkout[book[i]] = "linked"

\* An active subscription to the same plan blocks its purchase, unless it ends
\* within the renewal window, which it may or may not.
PurchaseAllowed(o) ==
  \A q \in ActiveSubscriptions : PlanOf[q] = PlanOf[o] => ~IsLifetime(o)

\* Only paid orders have redemption rows, so open orders do not count.
CouponAvailable(o) ==
  o \in CouponOrders =>
    FoldFunction(LAMBDA a, b : a + b, 0, redemptions) < CouponLimit

\* The reads of checkout, when none of them refuses or answers the request:
\* first the plan and the student's subscriptions, then orders and redemptions.
\* Requests carry keys of their own; the lookup of a repeated idempotency key
\* would only answer more of them.
StartCheckout(o) ==
  /\ checkout[o] = "idle"
  /\ PlanOf[o] \in onSale
  /\ PurchaseAllowed(o)
  /\ checkout' = [checkout EXCEPT ![o] = "allowed"]
  /\ UNCHANGED <<status, lapsed, book, attempt, onSale, sub, access,
                 redemptions, job, faults, dropped>>

ClearCheckout(o) ==
  /\ checkout[o] = "allowed"
  /\ ~Reused(o)
  /\ CouponAvailable(o)
  /\ checkout' = [checkout EXCEPT ![o] = "cleared"]
  /\ UNCHANGED <<status, lapsed, book, attempt, onSale, sub, access,
                 redemptions, job, faults, dropped>>

CreateOrder(o) ==
  /\ checkout[o] = "cleared"
  /\ checkout' = [checkout EXCEPT ![o] = "created"]
  /\ status' = [status EXCEPT ![o] = "CREATED"]
  /\ book' = Append(book, o)
  /\ UNCHANGED <<lapsed, attempt, onSale, sub, access, redemptions, job,
                 faults, dropped>>

\* The provider learns of the order.
InitiatePayment(o) ==
  /\ checkout[o] = "created"
  /\ checkout' = [checkout EXCEPT ![o] = "initiated"]
  /\ attempt' = [attempt EXCEPT ![o] = "open"]
  /\ UNCHANGED <<status, lapsed, book, onSale, sub, access, redemptions, job,
                 faults, dropped>>

\* PENDING and the link are written whatever the status is by now.
AttachLink(o) ==
  /\ checkout[o] = "initiated"
  /\ checkout' = [checkout EXCEPT ![o] = "linked"]
  /\ status' = [status EXCEPT ![o] = "PENDING"]
  /\ UNCHANGED <<lapsed, book, attempt, onSale, sub, access, redemptions, job,
                 faults, dropped>>

\* The request ends early: the provider refuses it, its answer is lost, the
\* database fails or the process dies.
CheckoutDies(o) ==
  /\ checkout[o] \in {"allowed", "cleared", "created", "initiated"}
  /\ faults > 0
  /\ faults' = faults - 1
  /\ checkout' = [checkout EXCEPT ![o] = "gone"]
  /\ UNCHANGED <<status, lapsed, book, attempt, onSale, sub, access,
                 redemptions, job, dropped>>

Checkout(o) ==
  \/ StartCheckout(o) \/ ClearCheckout(o) \/ CreateOrder(o)
  \/ InitiatePayment(o) \/ AttachLink(o) \/ CheckoutDies(o)

-----------------------------------------------------------------------------
(* External: the provider, the payer, the admin and the clock. *)

\* The payer has the link once checkout has answered.
Pay(o) ==
  /\ checkout[o] = "linked"
  /\ attempt[o] = "open"
  /\ attempt' = [attempt EXCEPT ![o] = "paid"]
  /\ UNCHANGED <<status, lapsed, book, checkout, onSale, sub, access,
                 redemptions, job, faults, dropped>>

AttemptFails(o) ==
  /\ checkout[o] = "linked"
  /\ attempt[o] = "open"
  /\ attempt' = [attempt EXCEPT ![o] = "failed"]
  /\ UNCHANGED <<status, lapsed, book, checkout, onSale, sub, access,
                 redemptions, job, faults, dropped>>

\* A new attempt on the same payment page becomes the latest one.
RetryPayment(o) ==
  /\ attempt[o] = "failed"
  /\ o \in RetryOrders
  /\ attempt' = [attempt EXCEPT ![o] = "open"]
  /\ UNCHANGED <<status, lapsed, book, checkout, onSale, sub, access,
                 redemptions, job, faults, dropped>>

\* expireAfterSeconds counts from the initiation, which follows expiresAt's now.
ProviderExpires(o) ==
  /\ attempt[o] = "open"
  /\ o \in lapsed
  /\ attempt' = [attempt EXCEPT ![o] = "expired"]
  /\ UNCHANGED <<status, lapsed, book, checkout, onSale, sub, access,
                 redemptions, job, faults, dropped>>

Lapse(o) ==
  /\ status[o] # "none"
  /\ o \notin lapsed
  /\ lapsed' = lapsed \cup {o}
  /\ UNCHANGED <<status, book, checkout, attempt, onSale, sub, access,
                 redemptions, job, faults, dropped>>

\* updatePlan sets isActive; it does not look at open orders.
SwitchPlan(plan) ==
  /\ plan \in Delistable
  /\ onSale' = IF plan \in onSale THEN onSale \ {plan} ELSE onSale \cup {plan}
  /\ UNCHANGED <<status, lapsed, book, checkout, attempt, sub, access,
                 redemptions, job, faults, dropped>>

\* expireStaleOrders: one updateMany, and the provider is not asked.
ExpireStaleOrders ==
  /\ StaleOrders # {}
  /\ status' = [o \in Orders |-> IF o \in StaleOrders THEN "EXPIRED" ELSE status[o]]
  /\ UNCHANGED <<lapsed, book, checkout, attempt, onSale, sub, access,
                 redemptions, job, faults, dropped>>

-----------------------------------------------------------------------------
(* refreshOrderStatus *)

\* A terminal order ends the call at once, so the call changes nothing.
BeginRefresh(p, o) ==
  /\ job[p].pc = "idle"
  /\ status[o] \in OpenStatuses
  /\ job' = [job EXCEPT ![p] = Call("asking", o, status[o], "none", FALSE, {})]
  /\ UNCHANGED <<status, lapsed, book, checkout, attempt, onSale, sub, access,
                 redemptions, faults, dropped>>

AskProvider(p) ==
  LET o == job[p].order IN
  /\ job[p].pc = "asking"
  /\ attempt[o] # "absent"
  /\ job' = [job EXCEPT ![p] = Call("writing", o, job[p].read,
                                    NormalizeStatus(attempt[o]), FALSE, {})]
  /\ UNCHANGED <<status, lapsed, book, checkout, attempt, onSale, sub, access,
                 redemptions, faults, dropped>>

\* The provider has no such order: checkStatus throws and the call ends.
ProviderUnaware(p) ==
  /\ job[p].pc = "asking"
  /\ attempt[job[p].order] = "absent"
  /\ job' = [job EXCEPT ![p] = IdleJob]
  /\ UNCHANGED <<status, lapsed, book, checkout, attempt, onSale, sub, access,
                 redemptions, faults, dropped>>

\* The status written is computed from the one read before the provider was asked.
WriteStatus(p) ==
  LET o    == job[p].order
      next == ApplyTransition(job[p].read, job[p].answer)
  IN  /\ job[p].pc = "writing"
      /\ status' = [status EXCEPT ![o] = next]
      /\ job' = [job EXCEPT ![p] = AfterWrite(o, next)]
      /\ UNCHANGED <<lapsed, book, checkout, attempt, onSale, sub, access,
                     redemptions, faults, dropped>>

\* The job ends early at any await.  An order whose activation is given up
\* before its subscription exists is remembered.
JobDies(p) ==
  /\ job[p].pc # "idle"
  /\ faults > 0
  /\ faults' = faults - 1
  /\ job' = [job EXCEPT ![p] = IdleJob]
  /\ dropped' = IF job[p].pc \in BeforeSubscription
                  THEN dropped \cup {job[p].order} ELSE dropped
  /\ UNCHANGED <<status, lapsed, book, checkout, attempt, onSale, sub, access,
                 redemptions>>

-----------------------------------------------------------------------------
(* handleOneTimeOrderSuccess and activateSubscription *)

\* The order came back with its subscription: nothing to activate.
SkipActivation(p) ==
  /\ job[p].pc = "activating"
  /\ job[p].subscribed
  /\ job' = [job EXCEPT ![p] = At("redeeming", job[p].order)]
  /\ UNCHANGED <<status, lapsed, book, checkout, attempt, onSale, sub, access,
                 redemptions, faults, dropped>>

\* The plan is read: "Plan not found or inactive." is thrown, and swallowed by the
\* caller.
RefuseActivation(p) ==
  /\ job[p].pc = "activating"
  /\ ~job[p].subscribed
  /\ PlanOf[job[p].order] \notin onSale
  /\ job' = [job EXCEPT ![p] = At("redeeming", job[p].order)]
  /\ dropped' = dropped \cup {job[p].order}
  /\ UNCHANGED <<status, lapsed, book, checkout, attempt, onSale, sub, access,
                 redemptions, faults>>

FindPlan(p) ==
  /\ job[p].pc = "activating"
  /\ ~job[p].subscribed
  /\ PlanOf[job[p].order] \in onSale
  /\ job' = [job EXCEPT ![p] = At("looking", job[p].order)]
  /\ UNCHANGED <<status, lapsed, book, checkout, attempt, onSale, sub, access,
                 redemptions, faults, dropped>>

LookUpSubscriptions(p) ==
  LET doomed == IF CanStack THEN {} ELSE ActiveSubscriptions IN
  /\ job[p].pc = "looking"
  /\ job' = [job EXCEPT ![p] =
               Call(IF doomed = {} THEN "creating" ELSE "replacing",
                    job[p].order, "none", "none", FALSE, doomed)]
  /\ UNCHANGED <<status, lapsed, book, checkout, attempt, onSale, sub, access,
                 redemptions, faults, dropped>>

\* expireSubscriptionsByIds, first update.
ReplaceSubscriptions(p) ==
  /\ job[p].pc = "replacing"
  /\ sub' = [o \in Orders |-> IF o \in job[p].doomed THEN "EXPIRED" ELSE sub[o]]
  /\ job' = [job EXCEPT ![p] = Call("revoking", job[p].order, "none", "none",
                                    FALSE, job[p].doomed)]
  /\ UNCHANGED <<status, lapsed, book, checkout, attempt, onSale, access,
                 redemptions, faults, dropped>>

\* expireSubscriptionsByIds, second update: entitlement rows there are by now.
RevokeEntitlements(p) ==
  /\ job[p].pc = "revoking"
  /\ access' = [o \in Orders |->
                  IF o \in job[p].doomed /\ access[o] = "live"
                    THEN "revoked" ELSE access[o]]
  /\ job' = [job EXCEPT ![p] = At("creating", job[p].order)]
  /\ UNCHANGED <<status, lapsed, book, checkout, attempt, onSale, sub,
                 redemptions, faults, dropped>>

CreateSubscription(p) ==
  LET o == job[p].order IN
  /\ job[p].pc = "creating"
  /\ ~HasSubscription(o)
  /\ sub' = [sub EXCEPT ![o] = "ACTIVE"]
  /\ job' = [job EXCEPT ![p] = At("entitling", o)]
  /\ UNCHANGED <<status, lapsed, book, checkout, attempt, onSale, access,
                 redemptions, faults, dropped>>

\* paymentOrderId is unique: the second insert fails and the caller goes on.
DuplicateSubscription(p) ==
  /\ job[p].pc = "creating"
  /\ HasSubscription(job[p].order)
  /\ job' = [job EXCEPT ![p] = At("redeeming", job[p].order)]
  /\ UNCHANGED <<status, lapsed, book, checkout, attempt, onSale, sub, access,
                 redemptions, faults, dropped>>

GrantEntitlements(p) ==
  /\ job[p].pc = "entitling"
  /\ access' = [access EXCEPT ![job[p].order] = "live"]
  /\ job' = [job EXCEPT ![p] = At("redeeming", job[p].order)]
  /\ UNCHANGED <<status, lapsed, book, checkout, attempt, onSale, sub,
                 redemptions, faults, dropped>>

\* A database call of the activation fails; handleOneTimeOrderSuccess swallows it.
ActivationFails(p) ==
  /\ job[p].pc \in Activating
  /\ ~job[p].subscribed
  /\ faults > 0
  /\ faults' = faults - 1
  /\ job' = [job EXCEPT ![p] = At("redeeming", job[p].order)]
  /\ dropped' = IF job[p].pc \in BeforeSubscription
                  THEN dropped \cup {job[p].order} ELSE dropped
  /\ UNCHANGED <<status, lapsed, book, checkout, attempt, onSale, sub, access,
                 redemptions>>

-----------------------------------------------------------------------------
(* redeemCoupon *)

FindRedemption(p) ==
  LET o == job[p].order IN
  /\ job[p].pc = "redeeming"
  /\ job' = [job EXCEPT ![p] =
              IF o \in CouponOrders /\ redemptions[o] = 0
                THEN At("recording", o) ELSE IdleJob]
  /\ UNCHANGED <<status, lapsed, book, checkout, attempt, onSale, sub, access,
                 redemptions, faults, dropped>>

RecordRedemption(p) ==
  /\ job[p].pc = "recording"
  /\ redemptions' = [redemptions EXCEPT ![job[p].order] = redemptions[job[p].order] + 1]
  /\ job' = [job EXCEPT ![p] = IdleJob]
  /\ UNCHANGED <<status, lapsed, book, checkout, attempt, onSale, sub, access,
                 faults, dropped>>

\* Every step a job takes of its own.
JobStep(p) ==
  \/ AskProvider(p) \/ ProviderUnaware(p) \/ WriteStatus(p)
  \/ SkipActivation(p) \/ RefuseActivation(p) \/ FindPlan(p)
  \/ LookUpSubscriptions(p)
  \/ ReplaceSubscriptions(p) \/ RevokeEntitlements(p)
  \/ CreateSubscription(p) \/ DuplicateSubscription(p) \/ GrantEntitlements(p)
  \/ FindRedemption(p) \/ RecordRedemption(p)

Environment(o) ==
  Pay(o) \/ AttemptFails(o) \/ RetryPayment(o) \/ ProviderExpires(o) \/ Lapse(o)

Next ==
  \/ \E o \in Orders : Checkout(o) \/ Environment(o)
  \/ \E plan \in Plans : SwitchPlan(plan)
  \/ ExpireStaleOrders
  \/ \E p \in Jobs, o \in Orders : BeginRefresh(p, o)
  \/ \E p \in Jobs : JobStep(p) \/ JobDies(p) \/ ActivationFails(p)

Spec == Init /\ [][Next]_vars

\* Time passes, the reconcile tick runs every interval (it sweeps, then refreshes
\* every open order that has not lapsed), and a call in flight comes back.
\* Nothing obliges the student, the provider or an admin.
Fairness ==
  /\ \A o \in Orders : WF_vars(Lapse(o))
  /\ WF_vars(ExpireStaleOrders)
  /\ \A o \in Orders :
       WF_vars(o \notin lapsed /\ \E p \in Jobs : BeginRefresh(p, o))
  /\ \A p \in Jobs : WF_vars(JobStep(p))

FairSpec == Spec /\ Fairness

-----------------------------------------------------------------------------
(* Properties *)

Job ==
  [pc: JobSteps, order: Orders \cup {NoOrder},
   read: OpenStatuses \cup {"none"}, answer: OrderStatuses \cup {"none"},
   subscribed: BOOLEAN, doomed: SUBSET Orders]

\* The rows and the calls in flight have the shape the schema and the code give
\* them; a call in flight is about an order, and one that asks or writes has
\* found it open.
TypeOK ==
  /\ status \in [Orders -> OrderStatuses \cup {"none"}]
  /\ lapsed \subseteq Orders
  /\ book \in Seq(Orders)
  /\ checkout \in [Orders -> {"idle", "allowed", "cleared", "created",
                              "initiated", "linked", "gone"}]
  /\ attempt \in [Orders -> {"absent", "open", "failed", "paid", "expired"}]
  /\ onSale \subseteq Plans
  /\ sub \in [Orders -> {"none", "ACTIVE", "EXPIRED"}]
  /\ access \in [Orders -> {"none", "live", "revoked"}]
  /\ redemptions \in [Orders -> Nat]
  /\ job \in [Jobs -> Job]
  /\ \A p \in Jobs :
       /\ job[p].pc # "idle" => job[p].order \in Orders
       /\ job[p].pc \in {"asking", "writing"} => job[p].read \in OpenStatuses
       /\ job[p].pc = "writing" => job[p].answer \in OrderStatuses
  /\ faults \in 0..MaxFaults
  /\ dropped \subseteq Orders

\* Whatever calls overlap, die or answer late, the code calls an order SUCCESS,
\* creates its subscription and entitlements and counts its coupon only after
\* the provider has taken the money.
GrantOnlyPaid ==
  \A o \in Orders :
    (\/ status[o] = "SUCCESS"
     \/ sub[o] # "none"
     \/ access[o] # "none"
     \/ redemptions[o] > 0)
      => attempt[o] = "paid"

\* A SUCCESS order without a subscription is being activated at this moment, or
\* its one activation was given up (the process died, a call failed, the plan
\* was off sale): no interleaving of healthy calls loses a grant.
SuccessAccountedFor ==
  \A o \in Orders :
    status[o] = "SUCCESS" /\ sub[o] = "none" =>
      \/ o \in dropped
      \/ \E p \in Jobs : /\ job[p].order = o
                         /\ job[p].pc \in BeforeSubscription
                         /\ ~job[p].subscribed

\* An order whose page allows no second attempt is marked FAILED only when no
\* money was or will be taken for it.
FailedIsUnpaid ==
  \A o \in Orders \ RetryOrders : status[o] = "FAILED" => attempt[o] = "failed"

\* An order leaves a terminal status only by the two writes that carry a status
\* decided earlier: a refresh that read the order while it was open, and the
\* checkout's own PENDING.  The expiry sweep never overwrites a settled order.
TerminalLeftByStaleWriteOnly ==
  [][\A o \in Orders :
       status[o] \in TerminalStatuses /\ status'[o] # status[o] =>
         \/ \E p \in Jobs : /\ job[p].pc = "writing" /\ job'[p].pc # "writing"
                            /\ job[p].order = o
                            /\ job[p].read \in OpenStatuses
         \/ checkout[o] = "initiated" /\ checkout'[o] = "linked"]_vars

\* The subscription of an order is replaced only if the student has paid for
\* another purchase.
ReplacedByAnotherPurchase ==
  \A o \in Orders : sub[o] = "EXPIRED" =>
    \E q \in Orders \ {o} : attempt[q] = "paid"

\* No order stays open for ever: the sweep closes what nobody finishes.
EveryOrderCloses ==
  \A o \in Orders :
    status[o] \in OpenStatuses ~> status[o] \in TerminalStatuses

\* A paid order is not left in limbo: it is granted, or the backend has closed
\* it or given its activation up.
PaidIsSettled ==
  \A o \in Orders :
    attempt[o] = "paid"
      ~> \/ sub[o] # "none"
         \/ status[o] \in {"EXPIRED", "FAILED"}
         \/ o \in dropped

\* The reconcile job finalizes what was paid: a payment leads to a subscription.
PaidIsGranted ==
  \A o \in Orders : attempt[o] = "paid" ~> sub[o] # "none"

-----------------------------------------------------------------------------
(* What the component promises, and that it keeps the promise. *)

Promise == INSTANCE PaidAccess WITH
  paid      <- {o \in Orders : attempt[o] = "paid"},
  granted   <- {o \in Orders : sub[o] # "none"},
  withdrawn <- {o \in Orders : sub[o] = "EXPIRED"}

\* Orders are paid, then granted, then perhaps replaced: never granted unpaid,
\* never granted twice, never revived.
KeepsPromise == Promise!Spec
=============================================================================
