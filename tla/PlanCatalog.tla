------------------------------ MODULE PlanCatalog ------------------------------
(***************************************************************************)
(* The plans and coupons on sale: src/modules/payments/plans.service and   *)
(* coupons.service, with what createCheckoutOrder links to them.           *)
(*                                                                         *)
(* A plan holds its length twice: durationDays, from which a subscription  *)
(* gets its end, and the validity in its metadata, which decides first     *)
(* whether there is an end at all (isLifetimePlan).  An update reads the   *)
(* plan and writes both, or only the second.  Deletions count what is      *)
(* linked in one transaction and delete in a statement of their own.       *)
(* Keys, names, prices and other metadata are left out.                    *)
(***************************************************************************)
EXTENDS Naturals

CONSTANTS
  Plans,         \* plans
  Coupons,       \* coupons
  NewOrders,     \* orders
  Nothing,       \* no plan, coupon, input or validity
  Sellers,        \* requests at a time
  Inputs,        \* durations an administrator gives: Days(n), Lasting(unit, value)
  LifetimeDays,  \* SUBSCRIPTION_LIFETIME_DAYS
  MaxEditions    \* bound: requests begun

Unit == {"DAYS", "MONTHS", "YEARS", "LIFETIME"}
Days(n) == [durationDays |-> n, unit |-> Nothing, value |-> Nothing]
Lasting(unit, value) == [durationDays |-> Nothing, unit |-> unit, value |-> value]

ASSUME PlanCatalogAssumption ==
  /\ LifetimeDays \in Nat \ {0} /\ MaxEditions \in Nat
  /\ Nothing \notin Plans \cup Coupons \cup Unit \cup Nat
  /\ \A i \in Inputs : \/ i.unit = Nothing /\ i.durationDays \in Nat \ {0}
                       \/ i.unit \in Unit /\ (i.unit # "LIFETIME" => i.value \in Nat \ {0})

VARIABLES
  plan,       \* each plan: its durationDays and its validity
  coupons,    \* coupons there are
  order,      \* each order: its plan and its coupon
  seller,      \* where each request is
  editions,   \* requests left
  overwrote,  \* history: plans whose validity was last written from an old reading
  slipped,    \* history: orders made after a deletion counted
  bared       \* history: orders that lost their plan or coupon

kvars == <<plan, coupons, order, seller, editions, overwrote, slipped, bared>>

NoPlan == [durationDays |-> 0, validity |-> Nothing]
NoOrder == [plan |-> Nothing, coupon |-> Nothing, made |-> FALSE]
Gone == [pc |-> "away"]
OnSale == {p \in Plans : plan[p] # NoPlan}

\* A plan the seed makes has no validity.
PlanCatalogInit ==
  /\ plan \in [Plans -> {NoPlan, [durationDays |-> 365, validity |-> Nothing]}]
  /\ coupons = Coupons
  /\ order = [o \in NewOrders |-> NoOrder]
  /\ seller = [c \in Sellers |-> Gone]
  /\ editions = MaxEditions
  /\ overwrote = {} /\ slipped = {} /\ bared = {}

-----------------------------------------------------------------------------
(* Durations *)

convertToDays(value, unit) ==
  CASE unit = "MONTHS" -> value * 30
    [] unit = "YEARS" -> value * 365
    [] unit = "LIFETIME" -> LifetimeDays
    [] OTHER -> value

Validity(unit, value, days) == [unit |-> unit, value |-> value, durationDays |-> days]

deriveValidityFromDurationDays(n) ==
  IF n >= LifetimeDays THEN Validity("LIFETIME", Nothing, n)
  ELSE IF n % 365 = 0 THEN Validity("YEARS", n \div 365, n)
  ELSE IF n % 30 = 0 THEN Validity("MONTHS", n \div 30, n)
  ELSE Validity("DAYS", n, n)

\* The validity the metadata hold, or the one of the days.
KnownValidity(days, validity) ==
  IF validity # Nothing THEN validity ELSE deriveValidityFromDurationDays(days)

\* The unit wins over the days, and what is on record serves when neither is given.
resolveDuration(input, days, validity) ==
  IF input = Nothing THEN KnownValidity(days, validity)
  ELSE IF input.unit = Nothing THEN deriveValidityFromDurationDays(input.durationDays)
  ELSE Validity(input.unit, input.value, convertToDays(input.value, input.unit))

isLifetimePlan(p) ==
  \/ plan[p].validity # Nothing /\ plan[p].validity.unit = "LIFETIME"
  \/ plan[p].durationDays >= LifetimeDays

-----------------------------------------------------------------------------
(* createPlan and updatePlan *)

Ask(c, request) ==
  /\ seller[c] = Gone
  /\ editions > 0 /\ editions' = editions - 1
  /\ seller' = [seller EXCEPT ![c] = request]
Done(c) == seller' = [seller EXCEPT ![c] = Gone]
At(c, pc) == seller[c].pc = pc
Concerned(x) == \E c \in Sellers : seller[c] # Gone /\ seller[c].it = x

\* An id that left no trace stands for a new one.
CreatePlan(c, p, input) ==
  LET v == resolveDuration(input, 0, Nothing) IN
  /\ p \notin OnSale /\ input # Nothing
  /\ p \notin overwrote /\ ~Concerned(p)
  /\ Ask(c, Gone)
  /\ plan' = [plan EXCEPT ![p] = [durationDays |-> v.durationDays, validity |-> v]]
  /\ UNCHANGED <<coupons, order, overwrote, slipped, bared>>

\* input is Nothing when only the metadata are given.
BeginUpdatePlan(c, p, input) ==
  /\ p \in OnSale
  /\ Ask(c, [pc |-> "updating", it |-> p, input |-> input, stale |-> FALSE,
             validity |-> resolveDuration(input, plan[p].durationDays, plan[p].validity)])
  /\ UNCHANGED <<plan, coupons, order, overwrote, slipped, bared>>

\* The days are written only when a duration is given, the validity always.  Faulty
\* variant: only when it is given in days.
DaysGiven(input) == input # Nothing /\ input.unit = Nothing
DurationGiven(input) == input # Nothing
UpdatePlan(c) ==
  LET r == seller[c]
      p == r.it IN
  /\ At(c, "updating")
  /\ IF p \in OnSale
       THEN /\ plan' = [plan EXCEPT
                 ![p].durationDays = IF DurationGiven(r.input) THEN r.validity.durationDays ELSE @,
                 ![p].validity = r.validity]
            /\ overwrote' = IF r.input = Nothing /\ r.stale THEN overwrote \cup {p}
                            ELSE IF r.input = Nothing THEN overwrote ELSE overwrote \ {p}
       ELSE UNCHANGED <<plan, overwrote>>
  /\ seller' = [d \in Sellers |->
       IF d = c THEN Gone
       ELSE IF At(d, "updating") /\ seller[d].it = p THEN [seller[d] EXCEPT !.stale = TRUE]
       ELSE seller[d]]
  /\ UNCHANGED <<coupons, order, editions, slipped, bared>>

-----------------------------------------------------------------------------
(* Orders, and the deletion of what they name *)

Makes(p, k) == /\ p \in OnSale /\ k \in coupons \cup {Nothing}

BeginOrder(c, o, p, k) ==
  /\ ~order[o].made /\ ~Concerned(o)
  /\ Makes(p, k)
  /\ Ask(c, [pc |-> "ordering", it |-> o, plan |-> p, coupon |-> k])
  /\ UNCHANGED <<plan, coupons, order, overwrote, slipped, bared>>

\* A plan or coupon deleted meanwhile fails the insert.
MakeOrder(c) ==
  LET r == seller[c] IN
  /\ At(c, "ordering")
  /\ IF Makes(r.plan, r.coupon)
       THEN /\ order' = [order EXCEPT ![r.it] =
                 [plan |-> r.plan, coupon |-> r.coupon, made |-> TRUE]]
            /\ slipped' = IF \E d \in Sellers : /\ At(d, "deletingPlan") \/ At(d, "deletingCoupon")
                                               /\ seller[d].it \in {r.plan, r.coupon}
                            THEN slipped \cup {r.it} ELSE slipped
       ELSE UNCHANGED <<order, slipped>>
  /\ Done(c)
  /\ UNCHANGED <<plan, coupons, editions, overwrote, bared>>

\* What links a plan: its orders, and the subscriptions and mandates made from them.
\* Faulty variant: the orders are not counted.
NeverLinked(x) == FALSE
Linked(x) == \E o \in NewOrders : order[o].made /\ x \in {order[o].plan, order[o].coupon}

BeginDeletePlan(c, p) ==
  /\ p \in OnSale /\ ~Linked(p)
  /\ Ask(c, [pc |-> "deletingPlan", it |-> p])
  /\ UNCHANGED <<plan, coupons, order, overwrote, slipped, bared>>

\* An order made since keeps its row and loses its plan.
DeletePlan(c) ==
  LET p == seller[c].it
      losing == {o \in NewOrders : order[o].plan = p} IN
  /\ At(c, "deletingPlan")
  /\ plan' = [plan EXCEPT ![p] = NoPlan]
  /\ order' = [o \in NewOrders |-> IF o \in losing THEN [order[o] EXCEPT !.plan = Nothing] ELSE order[o]]
  /\ bared' = bared \cup losing
  /\ overwrote' = overwrote \ {p}
  /\ Done(c)
  /\ UNCHANGED <<coupons, editions, slipped>>

BeginDeleteCoupon(c, k) ==
  /\ k \in coupons /\ ~Linked(k)
  /\ Ask(c, [pc |-> "deletingCoupon", it |-> k])
  /\ UNCHANGED <<plan, coupons, order, overwrote, slipped, bared>>

DeleteCoupon(c) ==
  LET k == seller[c].it
      losing == {o \in NewOrders : order[o].coupon = k} IN
  /\ At(c, "deletingCoupon")
  /\ coupons' = coupons \ {k}
  /\ order' = [o \in NewOrders |-> IF o \in losing THEN [order[o] EXCEPT !.coupon = Nothing] ELSE order[o]]
  /\ bared' = bared \cup losing
  /\ Done(c)
  /\ UNCHANGED <<plan, editions, overwrote, slipped>>

-----------------------------------------------------------------------------

PlanCatalogNext ==
  \E c \in Sellers :
    \/ UpdatePlan(c) \/ MakeOrder(c) \/ DeletePlan(c) \/ DeleteCoupon(c)
    \/ \E k \in Coupons : BeginDeleteCoupon(c, k)
    \/ \E p \in Plans :
         \/ BeginDeletePlan(c, p)
         \/ \E i \in Inputs : CreatePlan(c, p, i)
         \/ \E i \in Inputs \cup {Nothing} : BeginUpdatePlan(c, p, i)
         \/ \E o \in NewOrders, k \in Coupons \cup {Nothing} : BeginOrder(c, o, p, k)

PlanCatalogSpec == PlanCatalogInit /\ [][PlanCatalogNext]_kvars

-----------------------------------------------------------------------------
(* Properties *)

\* Plans, orders and requests have the shape of the schema and the code.
PlanCatalogTypeOK ==
  /\ \A p \in OnSale :
       /\ plan[p].durationDays \in Nat \ {0}
       /\ plan[p].validity # Nothing => plan[p].validity.unit \in Unit
  /\ coupons \subseteq Coupons
  /\ \A o \in NewOrders :
       /\ order[o].plan \in OnSale \cup {Nothing}
       /\ order[o].coupon \in coupons \cup {Nothing}
  /\ \A c \in Sellers :
       seller[c].pc \in {"away", "updating", "ordering", "deletingPlan", "deletingCoupon"}
  /\ editions \in 0 .. MaxEditions
  /\ overwrote \subseteq Plans /\ slipped \cup bared \subseteq NewOrders

\* A plan's two lengths agree, and it is a lifetime plan exactly when its days say so,
\* unless a metadata update wrote back the validity of an older length.
ValidityAgrees ==
  \A p \in OnSale \ overwrote :
    /\ plan[p].validity # Nothing => plan[p].validity.durationDays = plan[p].durationDays
    /\ isLifetimePlan(p) <=> plan[p].durationDays >= LifetimeDays

\* A deletion leaves no order without its plan or coupon but one made after it counted.
OrdersKeepTheirPlan == bared \subseteq slipped
=============================================================================
