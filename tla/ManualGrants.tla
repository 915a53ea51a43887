----------------------------- MODULE ManualGrants -----------------------------
(***************************************************************************)
(* Access an admin gives one student: src/modules/users/users.service,     *)
(* activateSubscriptionByAdmin with the subscriptions.service it calls,    *)
(* and revokeEntitlement.                                                  *)
(*                                                                         *)
(* The order of a grant is written CREATED, already expired, before the    *)
(* subscription, and SUCCESS or FAILED after it.  A grant that dies leaves *)
(* what it wrote.  Stacking is off, or what is active is for a lifetime:   *)
(* a new subscription replaces every active one.                           *)
(***************************************************************************)
EXTENDS Naturals

CONSTANTS
  Grants,      \* requests, each with its order and subscription
  Lifetime,    \* those of a plan without end
  MaxFaults    \* bound: failed statements and process deaths

ASSUME ManualGrantsAssumption == Lifetime \subseteq Grants /\ MaxFaults \in Nat

VARIABLES
  grantOrder,  \* paymentOrder.status of the grant
  grantSub,    \* status of its subscription
  grantRight,  \* its entitlement: none, open, or closed (its endsAt has come)
  desk,        \* where the request is
  replacing,   \* the subscriptions it read as active
  faults,      \* faults left
  spoiled      \* history: grants an error, a death or another grant cut across

gvars == <<grantOrder, grantSub, grantRight, desk, replacing, faults, spoiled>>

ManualGrantsInit ==
  /\ grantOrder = [g \in Grants |-> "none"]
  /\ grantSub = [g \in Grants |-> "none"]
  /\ grantRight = [g \in Grants |-> "none"]
  /\ desk = [g \in Grants |-> "away"]
  /\ replacing = [g \in Grants |-> {}]
  /\ faults = MaxFaults
  /\ spoiled = {}

Hand(g, step) == desk' = [desk EXCEPT ![g] = step]
ActiveGrants == {g \in Grants : grantSub[g] = "ACTIVE"}

-----------------------------------------------------------------------------

CreateManualOrder(g) ==
  /\ grantOrder[g] = "none"
  /\ grantOrder' = [grantOrder EXCEPT ![g] = "CREATED"]
  /\ Hand(g, "reading")
  /\ UNCHANGED <<grantSub, grantRight, replacing, faults, spoiled>>

\* expireStaleOrders: expiresAt is the moment the order was made.
SweepManualOrder(g) ==
  /\ grantOrder[g] = "CREATED"
  /\ grantOrder' = [grantOrder EXCEPT ![g] = "EXPIRED"]
  /\ UNCHANGED <<grantSub, grantRight, desk, replacing, faults, spoiled>>

\* activateSubscription
ReadActive(g) ==
  /\ desk[g] = "reading"
  /\ replacing' = [replacing EXCEPT ![g] = ActiveGrants]
  /\ Hand(g, IF ActiveGrants = {} THEN "subscribing" ELSE "expiring")
  /\ UNCHANGED <<grantOrder, grantSub, grantRight, faults, spoiled>>

ExpireReplaced(g) ==
  /\ desk[g] = "expiring"
  /\ grantSub' = [q \in Grants |-> IF q \in replacing[g] THEN "EXPIRED" ELSE grantSub[q]]
  /\ Hand(g, "closing")
  /\ UNCHANGED <<grantOrder, grantRight, replacing, faults, spoiled>>

\* A replaced grant that has not created its entitlement yet opens it after this.
CloseReplaced(g) ==
  /\ desk[g] = "closing"
  /\ grantRight' = [q \in Grants |-> IF q \in replacing[g] /\ grantRight[q] = "open"
                                       THEN "closed" ELSE grantRight[q]]
  /\ spoiled' = spoiled \cup {q \in replacing[g] : grantRight[q] = "none"}
  /\ replacing' = [replacing EXCEPT ![g] = {}]
  /\ Hand(g, "subscribing")
  /\ UNCHANGED <<grantOrder, grantSub, faults>>

CreateSubscription(g) ==
  /\ desk[g] = "subscribing"
  /\ grantSub' = [grantSub EXCEPT ![g] = "ACTIVE"]
  /\ Hand(g, "entitling")
  /\ UNCHANGED <<grantOrder, grantRight, replacing, faults, spoiled>>

CreateEntitlements(g) ==
  /\ desk[g] = "entitling"
  /\ grantRight' = [grantRight EXCEPT ![g] = "open"]
  /\ Hand(g, "concluding")
  /\ UNCHANGED <<grantOrder, grantSub, replacing, faults, spoiled>>

\* Whatever the sweep has made of the order.  Faulty variant: only if it is CREATED.
ConcludedIfCreated(g) == IF grantOrder[g] = "CREATED" THEN "SUCCESS" ELSE grantOrder[g]
Concluded(g) == "SUCCESS"
ConcludeGrant(g) ==
  /\ desk[g] = "concluding"
  /\ grantOrder' = [grantOrder EXCEPT ![g] = Concluded(g)]
  /\ Hand(g, "away")
  /\ UNCHANGED <<grantSub, grantRight, replacing, faults, spoiled>>

-----------------------------------------------------------------------------
(* Failures and revocation *)

\* What an error at this step leaves half done.
HalfDone(g) ==
  (IF grantSub[g] # "none" THEN {g} ELSE {})
    \cup (IF desk[g] = "closing" THEN replacing[g] ELSE {})

GrantFails(g) ==
  /\ desk[g] \notin {"away", "failing"}
  /\ faults > 0 /\ faults' = faults - 1
  /\ spoiled' = spoiled \cup HalfDone(g)
  /\ replacing' = [replacing EXCEPT ![g] = {}]
  /\ Hand(g, "failing")
  /\ UNCHANGED <<grantOrder, grantSub, grantRight>>

MarkFailed(g) ==
  /\ desk[g] = "failing"
  /\ grantOrder' = [grantOrder EXCEPT ![g] = "FAILED"]
  /\ Hand(g, "away")
  /\ UNCHANGED <<grantSub, grantRight, replacing, faults, spoiled>>

GrantDies(g) ==
  /\ desk[g] # "away"
  /\ faults > 0 /\ faults' = faults - 1
  /\ spoiled' = spoiled \cup HalfDone(g)
  /\ replacing' = [replacing EXCEPT ![g] = {}]
  /\ Hand(g, "away")
  /\ UNCHANGED <<grantOrder, grantSub, grantRight>>

\* revokeEntitlement finds entitlements without an end, whoever gave them.
RevokeEntitlement ==
  LET revoked == {g \in Lifetime : grantRight[g] = "open"} IN
  /\ revoked # {}
  /\ grantRight' = [g \in Grants |-> IF g \in revoked THEN "closed" ELSE grantRight[g]]
  /\ UNCHANGED <<grantOrder, grantSub, desk, replacing, faults, spoiled>>

GrantStep(g) ==
  \/ ReadActive(g) \/ ExpireReplaced(g) \/ CloseReplaced(g)
  \/ CreateSubscription(g) \/ CreateEntitlements(g) \/ ConcludeGrant(g) \/ MarkFailed(g)

ManualGrantsNext ==
  \/ \E g \in Grants :
       \/ CreateManualOrder(g) \/ SweepManualOrder(g) \/ GrantStep(g)
       \/ GrantFails(g) \/ GrantDies(g)
  \/ RevokeEntitlement

ManualGrantsSpec == ManualGrantsInit /\ [][ManualGrantsNext]_gvars

-----------------------------------------------------------------------------
(* Properties *)

\* Rows and requests have the shape of the schema and the code; nothing is written
\* before its order.
ManualGrantsTypeOK ==
  /\ grantOrder \in [Grants -> {"none", "CREATED", "EXPIRED", "SUCCESS", "FAILED"}]
  /\ grantSub \in [Grants -> {"none", "ACTIVE", "EXPIRED"}]
  /\ grantRight \in [Grants -> {"none", "open", "closed"}]
  /\ \A g \in Grants : grantRight[g] # "none" => grantSub[g] # "none"
  /\ \A g \in Grants : grantSub[g] # "none" => grantOrder[g] # "none"
  /\ desk \in [Grants -> {"away", "reading", "expiring", "closing", "subscribing",
                          "entitling", "concluding", "failing"}]
  /\ replacing \in [Grants -> SUBSET Grants]
  /\ \A g \in Grants : replacing[g] # {} => desk[g] \in {"expiring", "closing"}
  /\ faults \in 0 .. MaxFaults
  /\ spoiled \subseteq Grants

\* Once its request is over, the order of a grant tells what the student got, although
\* the sweep may have expired it on the way: SUCCESS if and only if there is a
\* subscription and its entitlement was given.  And an open entitlement belongs to an
\* active subscription.  Both fail only for a grant that an error or a death cut
\* across after it wrote its subscription, or that another grant replaced half way.
ManualOrderTells ==
  \A g \in Grants \ spoiled :
    /\ desk[g] = "away" =>
         /\ (grantOrder[g] = "SUCCESS") = (grantSub[g] # "none")
         /\ (grantOrder[g] = "SUCCESS") = (grantRight[g] # "none")
    /\ grantRight[g] = "open" =>
         grantSub[g] = "ACTIVE" \/ \E q \in Grants : desk[q] = "closing" /\ g \in replacing[q]
=============================================================================
