------------------------- MODULE PaymentOrdersProofs -------------------------
(***************************************************************************)
(* Proofs about PaymentOrders, for any number of orders, calls and faults. *)
(*                                                                         *)
(* The inductive invariant has four parts: the types; what the calls in    *)
(* flight know of subscriptions; the evidence of payment each call carries *)
(* from its answer to the redemption; and the account of every SUCCESS     *)
(* order without a subscription.  Each part is preserved given the parts   *)
(* before it, one lemma per part and one step per action.                  *)
(***************************************************************************)
EXTENDS PaymentOrders, SequenceTheorems, TLAPS

\* applyTransition, asked from an open status, yields a status of the schema, and
\* a settled one only when that is what it was asked for.
LEMMA TransitionTyped ==
  ASSUME NEW current \in OpenStatuses, NEW next \in OrderStatuses
  PROVE  /\ ApplyTransition(current, next) \in OrderStatuses
         /\ ApplyTransition(current, next) = "SUCCESS" => next = "SUCCESS"
         /\ ApplyTransition(current, next) = "FAILED" => next = "FAILED"
BY DEF ApplyTransition, Allowed, OpenStatuses, OrderStatuses, TerminalStatuses

\* normalizeStatus says SUCCESS only of a paid attempt and FAILED only of a
\* failed one.
LEMMA NormalizeTyped ==
  ASSUME NEW latest \in {"open", "failed", "paid", "expired"}
  PROVE  /\ NormalizeStatus(latest) \in OrderStatuses
         /\ NormalizeStatus(latest) = "SUCCESS" => latest = "paid"
         /\ NormalizeStatus(latest) = "FAILED" => latest = "failed"
BY DEF NormalizeStatus, OrderStatuses, OpenStatuses, TerminalStatuses

\* Every step of checkout, sweep, refresh and activation keeps the types.
LEMMA TypeStep == TypeOK /\ [Next]_vars => TypeOK'
<1> SUFFICES ASSUME TypeOK, [Next]_vars PROVE TypeOK'
  OBVIOUS
<1> USE OrdersAssumption
<1> USE DEF TypeOK
<1>1. ASSUME NEW o \in Orders, StartCheckout(o) PROVE TypeOK'
  BY <1>1 DEF StartCheckout
<1>2. ASSUME NEW o \in Orders, ClearCheckout(o) PROVE TypeOK'
  BY <1>2 DEF ClearCheckout
<1>3. ASSUME NEW o \in Orders, CreateOrder(o) PROVE TypeOK'
  BY <1>3 DEF CreateOrder, OrderStatuses, OpenStatuses
<1>4. ASSUME NEW o \in Orders, InitiatePayment(o) PROVE TypeOK'
  BY <1>4 DEF InitiatePayment
<1>5. ASSUME NEW o \in Orders, AttachLink(o) PROVE TypeOK'
  BY <1>5 DEF AttachLink, OrderStatuses, OpenStatuses
<1>6. ASSUME NEW o \in Orders, CheckoutDies(o) PROVE TypeOK'
  BY <1>6 DEF CheckoutDies
<1>7. ASSUME NEW o \in Orders, Pay(o) PROVE TypeOK'
  BY <1>7 DEF Pay
<1>8. ASSUME NEW o \in Orders, AttemptFails(o) PROVE TypeOK'
  BY <1>8 DEF AttemptFails
<1>9. ASSUME NEW o \in Orders, RetryPayment(o) PROVE TypeOK'
  BY <1>9 DEF RetryPayment
<1>10. ASSUME NEW o \in Orders, ProviderExpires(o) PROVE TypeOK'
  BY <1>10 DEF ProviderExpires
<1>11. ASSUME NEW o \in Orders, Lapse(o) PROVE TypeOK'
  BY <1>11 DEF Lapse
<1>12. ASSUME NEW p \in Jobs, AskProvider(p) PROVE TypeOK'
  <2>1. attempt[job[p].order] \in {"open", "failed", "paid", "expired"}
    BY <1>12 DEF AskProvider
  <2>2. NormalizeStatus(attempt[job[p].order]) \in OrderStatuses
    BY <2>1, NormalizeTyped
  <2> QED
    BY <1>12, <2>2
    DEF AskProvider, JobSteps, Activating, BeforeSubscription, OpenStatuses,
        Job, Call, At, IdleJob
<1>13. ASSUME NEW p \in Jobs, ProviderUnaware(p) PROVE TypeOK'
  BY <1>13
  DEF ProviderUnaware, JobSteps, Activating, BeforeSubscription,
      OpenStatuses, Job, Call, At, IdleJob
<1>14. ASSUME NEW p \in Jobs, WriteStatus(p) PROVE TypeOK'
  BY <1>14, TransitionTyped
  DEF WriteStatus, JobSteps, Activating, BeforeSubscription, OpenStatuses,
      Job, Call, At, IdleJob, AfterWrite, HasSubscription
<1>15. ASSUME NEW p \in Jobs, SkipActivation(p) PROVE TypeOK'
  BY <1>15
  DEF SkipActivation, JobSteps, Activating, BeforeSubscription,
      OpenStatuses, Job, Call, At, IdleJob
<1>16. ASSUME NEW p \in Jobs, RefuseActivation(p) PROVE TypeOK'
  BY <1>16
  DEF RefuseActivation, JobSteps, Activating, BeforeSubscription,
      OpenStatuses, Job, Call, At, IdleJob
<1>17. ASSUME NEW p \in Jobs, FindPlan(p) PROVE TypeOK'
  BY <1>17
  DEF FindPlan, JobSteps, Activating, BeforeSubscription, OpenStatuses, Job,
      Call, At, IdleJob
<1>18. ASSUME NEW p \in Jobs, LookUpSubscriptions(p) PROVE TypeOK'
  BY <1>18
  DEF LookUpSubscriptions, JobSteps, Activating, BeforeSubscription,
      OpenStatuses, Job, Call, At, IdleJob, ActiveSubscriptions
<1>19. ASSUME NEW p \in Jobs, ReplaceSubscriptions(p) PROVE TypeOK'
  BY <1>19
  DEF ReplaceSubscriptions, JobSteps, Activating, BeforeSubscription,
      OpenStatuses, Job, Call, At, IdleJob
<1>20. ASSUME NEW p \in Jobs, RevokeEntitlements(p) PROVE TypeOK'
  BY <1>20
  DEF RevokeEntitlements, JobSteps, Activating, BeforeSubscription,
      OpenStatuses, Job, Call, At, IdleJob
<1>21. ASSUME NEW p \in Jobs, CreateSubscription(p) PROVE TypeOK'
  BY <1>21
  DEF CreateSubscription, JobSteps, Activating, BeforeSubscription,
      OpenStatuses, Job, Call, At, IdleJob, HasSubscription
<1>22. ASSUME NEW p \in Jobs, DuplicateSubscription(p) PROVE TypeOK'
  BY <1>22
  DEF DuplicateSubscription, JobSteps, Activating, BeforeSubscription,
      OpenStatuses, Job, Call, At, IdleJob
<1>23. ASSUME NEW p \in Jobs, GrantEntitlements(p) PROVE TypeOK'
  BY <1>23
  DEF GrantEntitlements, JobSteps, Activating, BeforeSubscription,
      OpenStatuses, Job, Call, At, IdleJob
<1>24. ASSUME NEW p \in Jobs, FindRedemption(p) PROVE TypeOK'
  BY <1>24
  DEF FindRedemption, JobSteps, Activating, BeforeSubscription,
      OpenStatuses, Job, Call, At, IdleJob
<1>25. ASSUME NEW p \in Jobs, RecordRedemption(p) PROVE TypeOK'
  BY <1>25
  DEF RecordRedemption, JobSteps, Activating, BeforeSubscription,
      OpenStatuses, Job, Call, At, IdleJob
<1>26. ASSUME NEW p \in Jobs, JobDies(p) PROVE TypeOK'
  BY <1>26
  DEF JobDies, JobSteps, Activating, BeforeSubscription, OpenStatuses, Job,
      Call, At, IdleJob
<1>27. ASSUME NEW p \in Jobs, ActivationFails(p) PROVE TypeOK'
  BY <1>27
  DEF ActivationFails, JobSteps, Activating, BeforeSubscription,
      OpenStatuses, Job, Call, At, IdleJob
<1>28. ASSUME NEW p \in Jobs, NEW o \in Orders, BeginRefresh(p, o)
      PROVE TypeOK'
  BY <1>28
  DEF BeginRefresh, JobSteps, Activating, BeforeSubscription, OpenStatuses,
      Job, Call, At, IdleJob
<1>29. ASSUME NEW plan \in Plans, SwitchPlan(plan) PROVE TypeOK'
  BY <1>29 DEF SwitchPlan
<1>30. CASE ExpireStaleOrders
  BY <1>30 DEF ExpireStaleOrders, OrderStatuses, TerminalStatuses
<1>31. CASE UNCHANGED vars
  BY <1>31 DEF vars
<1> QED
  BY <1>1, <1>2, <1>3, <1>4, <1>5, <1>6, <1>7, <1>8, <1>9, 
     <1>10, <1>11, <1>12, <1>13, <1>14, <1>15, <1>16, <1>17, 
     <1>18, <1>19, <1>20, <1>21, <1>22, <1>23, <1>24, <1>25, 
     <1>26, <1>27, <1>28, <1>29, <1>30, <1>31
  DEF Next, Checkout, Environment, JobStep

\* The order rows and the calls in flight keep the shape the schema gives them.
THEOREM TypeInvariance == Spec => []TypeOK
<1>1. Init => TypeOK
  BY OrdersAssumption
  DEF Init, TypeOK, IdleJob, At, Call, Job, JobSteps
<1> QED
  BY <1>1, TypeStep, PTL DEF Spec

-----------------------------------------------------------------------------

\* A call that skips its activation, or is about to replace subscriptions, has
\* seen the rows; no subscription row is ever deleted.
KnownSubscriptions ==
  \A p \in Jobs :
    /\ job[p].subscribed =>
         job[p].order \in Orders /\ sub[job[p].order] # "none"
    /\ \A o \in job[p].doomed : sub[o] # "none"


\* What a call has seen of subscriptions stays true.
LEMMA KnownStep ==
  TypeOK /\ KnownSubscriptions /\ [Next]_vars => KnownSubscriptions'
<1> SUFFICES ASSUME TypeOK, KnownSubscriptions, [Next]_vars
             PROVE  KnownSubscriptions'
  OBVIOUS
<1> USE OrdersAssumption
<1> USE DEF TypeOK, KnownSubscriptions
<1>1. ASSUME NEW o \in Orders, StartCheckout(o) PROVE KnownSubscriptions'
  BY <1>1 DEF StartCheckout, OpenStatuses, StaleOrders
<1>2. ASSUME NEW o \in Orders, ClearCheckout(o) PROVE KnownSubscriptions'
  BY <1>2 DEF ClearCheckout, OpenStatuses, StaleOrders
<1>3. ASSUME NEW o \in Orders, CreateOrder(o) PROVE KnownSubscriptions'
  BY <1>3 DEF CreateOrder, OpenStatuses, StaleOrders
<1>4. ASSUME NEW o \in Orders, InitiatePayment(o) PROVE KnownSubscriptions'
  BY <1>4 DEF InitiatePayment, OpenStatuses, StaleOrders
<1>5. ASSUME NEW o \in Orders, AttachLink(o) PROVE KnownSubscriptions'
  BY <1>5 DEF AttachLink, OpenStatuses, StaleOrders
<1>6. ASSUME NEW o \in Orders, CheckoutDies(o) PROVE KnownSubscriptions'
  BY <1>6 DEF CheckoutDies, OpenStatuses, StaleOrders
<1>7. ASSUME NEW o \in Orders, Pay(o) PROVE KnownSubscriptions'
  BY <1>7 DEF Pay, OpenStatuses, StaleOrders
<1>8. ASSUME NEW o \in Orders, AttemptFails(o) PROVE KnownSubscriptions'
  BY <1>8 DEF AttemptFails, OpenStatuses, StaleOrders
<1>9. ASSUME NEW o \in Orders, RetryPayment(o) PROVE KnownSubscriptions'
  BY <1>9 DEF RetryPayment, OpenStatuses, StaleOrders
<1>10. ASSUME NEW o \in Orders, ProviderExpires(o) PROVE KnownSubscriptions'
  BY <1>10 DEF ProviderExpires, OpenStatuses, StaleOrders
<1>11. ASSUME NEW o \in Orders, Lapse(o) PROVE KnownSubscriptions'
  BY <1>11 DEF Lapse, OpenStatuses, StaleOrders
<1>12. ASSUME NEW p \in Jobs, AskProvider(p) PROVE KnownSubscriptions'
  BY <1>12
  DEF AskProvider, JobSteps, Activating, BeforeSubscription, OpenStatuses,
      Job, Call, At, IdleJob
<1>13. ASSUME NEW p \in Jobs, ProviderUnaware(p) PROVE KnownSubscriptions'
  BY <1>13
  DEF ProviderUnaware, JobSteps, Activating, BeforeSubscription,
      OpenStatuses, Job, Call, At, IdleJob
<1>14. ASSUME NEW p \in Jobs, WriteStatus(p) PROVE KnownSubscriptions'
  BY <1>14
  DEF WriteStatus, JobSteps, Activating, BeforeSubscription, OpenStatuses,
      Job, Call, At, IdleJob, AfterWrite, HasSubscription
<1>15. ASSUME NEW p \in Jobs, SkipActivation(p) PROVE KnownSubscriptions'
  BY <1>15
  DEF SkipActivation, JobSteps, Activating, BeforeSubscription,
      OpenStatuses, Job, Call, At, IdleJob
<1>16. ASSUME NEW p \in Jobs, RefuseActivation(p) PROVE KnownSubscriptions'
  BY <1>16
  DEF RefuseActivation, JobSteps, Activating, BeforeSubscription,
      OpenStatuses, Job, Call, At, IdleJob
<1>17. ASSUME NEW p \in Jobs, FindPlan(p) PROVE KnownSubscriptions'
  BY <1>17
  DEF FindPlan, JobSteps, Activating, BeforeSubscription, OpenStatuses, Job,
      Call, At, IdleJob
<1>18. ASSUME NEW p \in Jobs, LookUpSubscriptions(p) PROVE KnownSubscriptions'
  BY <1>18
  DEF LookUpSubscriptions, JobSteps, Activating, BeforeSubscription,
      OpenStatuses, Job, Call, At, IdleJob, ActiveSubscriptions
<1>19. ASSUME NEW p \in Jobs, ReplaceSubscriptions(p) PROVE KnownSubscriptions'
  BY <1>19
  DEF ReplaceSubscriptions, JobSteps, Activating, BeforeSubscription,
      OpenStatuses, Job, Call, At, IdleJob
<1>20. ASSUME NEW p \in Jobs, RevokeEntitlements(p) PROVE KnownSubscriptions'
  BY <1>20
  DEF RevokeEntitlements, JobSteps, Activating, BeforeSubscription,
      OpenStatuses, Job, Call, At, IdleJob
<1>21. ASSUME NEW p \in Jobs, CreateSubscription(p) PROVE KnownSubscriptions'
  BY <1>21
  DEF CreateSubscription, JobSteps, Activating, BeforeSubscription,
      OpenStatuses, Job, Call, At, IdleJob, HasSubscription
<1>22. ASSUME NEW p \in Jobs, DuplicateSubscription(p) PROVE KnownSubscriptions'
  BY <1>22
  DEF DuplicateSubscription, JobSteps, Activating, BeforeSubscription,
      OpenStatuses, Job, Call, At, IdleJob, HasSubscription
<1>23. ASSUME NEW p \in Jobs, GrantEntitlements(p) PROVE KnownSubscriptions'
  BY <1>23
  DEF GrantEntitlements, JobSteps, Activating, BeforeSubscription,
      OpenStatuses, Job, Call, At, IdleJob
<1>24. ASSUME NEW p \in Jobs, FindRedemption(p) PROVE KnownSubscriptions'
  BY <1>24
  DEF FindRedemption, JobSteps, Activating, BeforeSubscription,
      OpenStatuses, Job, Call, At, IdleJob
<1>25. ASSUME NEW p \in Jobs, RecordRedemption(p) PROVE KnownSubscriptions'
  BY <1>25
  DEF RecordRedemption, JobSteps, Activating, BeforeSubscription,
      OpenStatuses, Job, Call, At, IdleJob
<1>26. ASSUME NEW p \in Jobs, JobDies(p) PROVE KnownSubscriptions'
  BY <1>26
  DEF JobDies, JobSteps, Activating, BeforeSubscription, OpenStatuses, Job,
      Call, At, IdleJob
<1>27. ASSUME NEW p \in Jobs, ActivationFails(p) PROVE KnownSubscriptions'
  BY <1>27
  DEF ActivationFails, JobSteps, Activating, BeforeSubscription,
      OpenStatuses, Job, Call, At, IdleJob
<1>28. ASSUME NEW p \in Jobs, NEW o \in Orders, BeginRefresh(p, o)
      PROVE KnownSubscriptions'
  BY <1>28
  DEF BeginRefresh, JobSteps, Activating, BeforeSubscription, OpenStatuses,
      Job, Call, At, IdleJob
<1>29. ASSUME NEW plan \in Plans, SwitchPlan(plan) PROVE KnownSubscriptions'
  BY <1>29 DEF SwitchPlan, OpenStatuses, StaleOrders
<1>30. CASE ExpireStaleOrders
  BY <1>30 DEF ExpireStaleOrders, OpenStatuses, StaleOrders
<1>31. CASE UNCHANGED vars
  BY <1>31 DEF vars, OpenStatuses, StaleOrders
<1> QED
  BY <1>1, <1>2, <1>3, <1>4, <1>5, <1>6, <1>7, <1>8, <1>9, 
     <1>10, <1>11, <1>12, <1>13, <1>14, <1>15, <1>16, <1>17, 
     <1>18, <1>19, <1>20, <1>21, <1>22, <1>23, <1>24, <1>25, 
     <1>26, <1>27, <1>28, <1>29, <1>30, <1>31
  DEF Next, Checkout, Environment, JobStep

\* The order row exists, and the provider knows of it, only once checkout got there.
CheckoutOrder ==
  \A o \in Orders :
    /\ checkout[o] \in {"idle", "allowed", "cleared"} => status[o] = "none"
    /\ checkout[o] \in {"idle", "allowed", "cleared", "created"}
         => attempt[o] = "absent"

\* What the provider's answer proves travels with the call: one that will write
\* SUCCESS, activate or redeem is about an order that is paid, and no attempt
\* follows a payment.
CallEvidence ==
  \A p \in Jobs :
    LET o == job[p].order IN
    /\ job[p].pc = "writing" /\ job[p].answer = "SUCCESS" => attempt[o] = "paid"
    /\ job[p].pc = "writing" /\ job[p].answer = "FAILED" /\ o \notin RetryOrders
         => attempt[o] = "failed"
    /\ job[p].pc # "idle" => checkout[o] \notin {"idle", "allowed", "cleared"}
    /\ job[p].pc \in Activating \cup {"redeeming", "recording"}
         => attempt[o] = "paid"

\* All that is known of the provider when the backend acts.
Evidence == CheckoutOrder /\ CallEvidence /\ GrantOnlyPaid /\ FailedIsUnpaid

\* No step writes SUCCESS, a subscription, an entitlement or a redemption for an
\* order that is not paid, nor FAILED for one that is.
LEMMA EvidenceStep ==
  TypeOK /\ KnownSubscriptions /\ Evidence /\ [Next]_vars => Evidence'
<1> SUFFICES ASSUME TypeOK, KnownSubscriptions, Evidence, [Next]_vars
             PROVE  Evidence'
  OBVIOUS
<1> USE OrdersAssumption
<1> USE DEF TypeOK, Evidence, CheckoutOrder, CallEvidence, GrantOnlyPaid,
            FailedIsUnpaid, KnownSubscriptions
<1>1. ASSUME NEW o \in Orders, StartCheckout(o) PROVE Evidence'
  BY <1>1
  DEF StartCheckout, OpenStatuses, OrderStatuses, TerminalStatuses,
      StaleOrders
<1>2. ASSUME NEW o \in Orders, ClearCheckout(o) PROVE Evidence'
  BY <1>2
  DEF ClearCheckout, OpenStatuses, OrderStatuses, TerminalStatuses,
      StaleOrders
<1>3. ASSUME NEW o \in Orders, CreateOrder(o) PROVE Evidence'
  BY <1>3
  DEF CreateOrder, OpenStatuses, OrderStatuses, TerminalStatuses,
      StaleOrders
<1>4. ASSUME NEW o \in Orders, InitiatePayment(o) PROVE Evidence'
  BY <1>4
  DEF InitiatePayment, OpenStatuses, OrderStatuses, TerminalStatuses,
      StaleOrders
<1>5. ASSUME NEW o \in Orders, AttachLink(o) PROVE Evidence'
  <2>1. CheckoutOrder'
    BY <1>5 DEF AttachLink, OrderStatuses, OpenStatuses
  <2>2. CallEvidence'
    BY <1>5 DEF AttachLink, OrderStatuses, OpenStatuses
  <2>3. GrantOnlyPaid'
    BY <1>5 DEF AttachLink, OrderStatuses, OpenStatuses
  <2>4. FailedIsUnpaid'
    BY <1>5 DEF AttachLink, OrderStatuses, OpenStatuses
  <2> QED
    BY <2>1, <2>2, <2>3, <2>4
<1>6. ASSUME NEW o \in Orders, CheckoutDies(o) PROVE Evidence'
  BY <1>6
  DEF CheckoutDies, OpenStatuses, OrderStatuses, TerminalStatuses,
      StaleOrders
<1>7. ASSUME NEW o \in Orders, Pay(o) PROVE Evidence'
  BY <1>7 DEF Pay, OpenStatuses, OrderStatuses, TerminalStatuses, StaleOrders
<1>8. ASSUME NEW o \in Orders, AttemptFails(o) PROVE Evidence'
  BY <1>8
  DEF AttemptFails, OpenStatuses, OrderStatuses, TerminalStatuses,
      StaleOrders
<1>9. ASSUME NEW o \in Orders, RetryPayment(o) PROVE Evidence'
  BY <1>9
  DEF RetryPayment, OpenStatuses, OrderStatuses, TerminalStatuses,
      StaleOrders
<1>10. ASSUME NEW o \in Orders, ProviderExpires(o) PROVE Evidence'
  BY <1>10
  DEF ProviderExpires, OpenStatuses, OrderStatuses, TerminalStatuses,
      StaleOrders
<1>11. ASSUME NEW o \in Orders, Lapse(o) PROVE Evidence'
  BY <1>11
  DEF Lapse, OpenStatuses, OrderStatuses, TerminalStatuses, StaleOrders
<1>12. ASSUME NEW p \in Jobs, AskProvider(p) PROVE Evidence'
  <2> DEFINE o == job[p].order
  <2>1. /\ o \in Orders
        /\ attempt[o] \in {"open", "failed", "paid", "expired"}
    BY <1>12 DEF AskProvider
  <2>2. /\ NormalizeStatus(attempt[o]) = "SUCCESS" => attempt[o] = "paid"
        /\ NormalizeStatus(attempt[o]) = "FAILED" => attempt[o] = "failed"
    BY <2>1, NormalizeTyped
  <2>3. CallEvidence'
    BY <1>12, <2>1, <2>2
    DEF AskProvider, JobSteps, Activating, BeforeSubscription, Job, Call
  <2>4. (CheckoutOrder /\ GrantOnlyPaid /\ FailedIsUnpaid)'
    BY <1>12 DEF AskProvider
  <2> QED
    BY <2>3, <2>4
<1>13. ASSUME NEW p \in Jobs, ProviderUnaware(p) PROVE Evidence'
  BY <1>13
  DEF ProviderUnaware, JobSteps, Activating, BeforeSubscription,
      OpenStatuses, Job, Call, At, IdleJob, OrderStatuses, TerminalStatuses
<1>14. ASSUME NEW p \in Jobs, WriteStatus(p) PROVE Evidence'
  <2>1. CheckoutOrder'
    BY <1>14, TransitionTyped
    DEF WriteStatus, JobSteps, Activating, BeforeSubscription, Job, Call,
        At, IdleJob, AfterWrite
  <2>2. CallEvidence'
    BY <1>14, TransitionTyped
    DEF WriteStatus, JobSteps, Activating, BeforeSubscription, Job, Call,
        At, IdleJob, AfterWrite
  <2>3. GrantOnlyPaid'
    BY <1>14, TransitionTyped
    DEF WriteStatus, JobSteps, Activating, BeforeSubscription, Job, Call,
        At, IdleJob, AfterWrite
  <2>4. FailedIsUnpaid'
    BY <1>14, TransitionTyped
    DEF WriteStatus, JobSteps, Activating, BeforeSubscription, Job, Call,
        At, IdleJob, AfterWrite
  <2> QED
    BY <2>1, <2>2, <2>3, <2>4
<1>15. ASSUME NEW p \in Jobs, SkipActivation(p) PROVE Evidence'
  BY <1>15
  DEF SkipActivation, JobSteps, Activating, BeforeSubscription,
      OpenStatuses, Job, Call, At, IdleJob, OrderStatuses, TerminalStatuses
<1>16. ASSUME NEW p \in Jobs, RefuseActivation(p) PROVE Evidence'
  BY <1>16
  DEF RefuseActivation, JobSteps, Activating, BeforeSubscription,
      OpenStatuses, Job, Call, At, IdleJob, OrderStatuses, TerminalStatuses
<1>17. ASSUME NEW p \in Jobs, FindPlan(p) PROVE Evidence'
  BY <1>17
  DEF FindPlan, JobSteps, Activating, BeforeSubscription, OpenStatuses, Job,
      Call, At, IdleJob, OrderStatuses, TerminalStatuses
<1>18. ASSUME NEW p \in Jobs, LookUpSubscriptions(p) PROVE Evidence'
  BY <1>18
  DEF LookUpSubscriptions, JobSteps, Activating, BeforeSubscription,
      OpenStatuses, Job, Call, At, IdleJob, OrderStatuses, TerminalStatuses,
      ActiveSubscriptions
<1>19. ASSUME NEW p \in Jobs, ReplaceSubscriptions(p) PROVE Evidence'
  BY <1>19
  DEF ReplaceSubscriptions, JobSteps, Activating, BeforeSubscription,
      OpenStatuses, Job, Call, At, IdleJob, OrderStatuses, TerminalStatuses
<1>20. ASSUME NEW p \in Jobs, RevokeEntitlements(p) PROVE Evidence'
  BY <1>20
  DEF RevokeEntitlements, JobSteps, Activating, BeforeSubscription,
      OpenStatuses, Job, Call, At, IdleJob, OrderStatuses, TerminalStatuses
<1>21. ASSUME NEW p \in Jobs, CreateSubscription(p) PROVE Evidence'
  BY <1>21
  DEF CreateSubscription, JobSteps, Activating, BeforeSubscription,
      OpenStatuses, Job, Call, At, IdleJob, OrderStatuses, TerminalStatuses,
      HasSubscription
<1>22. ASSUME NEW p \in Jobs, DuplicateSubscription(p) PROVE Evidence'
  BY <1>22
  DEF DuplicateSubscription, JobSteps, Activating, BeforeSubscription,
      OpenStatuses, Job, Call, At, IdleJob, OrderStatuses, TerminalStatuses
<1>23. ASSUME NEW p \in Jobs, GrantEntitlements(p) PROVE Evidence'
  BY <1>23
  DEF GrantEntitlements, JobSteps, Activating, BeforeSubscription,
      OpenStatuses, Job, Call, At, IdleJob, OrderStatuses, TerminalStatuses
<1>24. ASSUME NEW p \in Jobs, FindRedemption(p) PROVE Evidence'
  BY <1>24
  DEF FindRedemption, JobSteps, Activating, BeforeSubscription,
      OpenStatuses, Job, Call, At, IdleJob, OrderStatuses, TerminalStatuses
<1>25. ASSUME NEW p \in Jobs, RecordRedemption(p) PROVE Evidence'
  BY <1>25
  DEF RecordRedemption, JobSteps, Activating, BeforeSubscription,
      OpenStatuses, Job, Call, At, IdleJob, OrderStatuses, TerminalStatuses
<1>26. ASSUME NEW p \in Jobs, JobDies(p) PROVE Evidence'
  BY <1>26
  DEF JobDies, JobSteps, Activating, BeforeSubscription, OpenStatuses, Job,
      Call, At, IdleJob, OrderStatuses, TerminalStatuses
<1>27. ASSUME NEW p \in Jobs, ActivationFails(p) PROVE Evidence'
  BY <1>27
  DEF ActivationFails, JobSteps, Activating, BeforeSubscription,
      OpenStatuses, Job, Call, At, IdleJob, OrderStatuses, TerminalStatuses
<1>28. ASSUME NEW p \in Jobs, NEW o \in Orders, BeginRefresh(p, o)
      PROVE Evidence'
  BY <1>28
  DEF BeginRefresh, JobSteps, Activating, BeforeSubscription, OpenStatuses,
      Job, Call, At, IdleJob, OrderStatuses, TerminalStatuses
<1>29. ASSUME NEW plan \in Plans, SwitchPlan(plan) PROVE Evidence'
  BY <1>29
  DEF SwitchPlan, OpenStatuses, OrderStatuses, TerminalStatuses, StaleOrders
<1>30. CASE ExpireStaleOrders
  BY <1>30
  DEF ExpireStaleOrders, OpenStatuses, OrderStatuses, TerminalStatuses,
      StaleOrders
<1>31. CASE UNCHANGED vars
  BY <1>31
  DEF vars, OpenStatuses, OrderStatuses, TerminalStatuses, StaleOrders
<1> QED
  BY <1>1, <1>2, <1>3, <1>4, <1>5, <1>6, <1>7, <1>8, <1>9, 
     <1>10, <1>11, <1>12, <1>13, <1>14, <1>15, <1>16, <1>17, 
     <1>18, <1>19, <1>20, <1>21, <1>22, <1>23, <1>24, <1>25, 
     <1>26, <1>27, <1>28, <1>29, <1>30, <1>31
  DEF Next, Checkout, Environment, JobStep

\* The call is activating the order and will not skip it.
AccountsFor(p, o) ==
  job[p].order = o /\ job[p].pc \in BeforeSubscription /\ ~job[p].subscribed

\* A SUCCESS order loses the call that activates it only to its subscription, or
\* to an activation given up.
LEMMA AccountingStep ==
  /\ TypeOK /\ KnownSubscriptions /\ SuccessAccountedFor
  /\ [Next]_vars
  => SuccessAccountedFor'
<1> SUFFICES ASSUME TypeOK, KnownSubscriptions, SuccessAccountedFor, [Next]_vars
             PROVE  SuccessAccountedFor'
  OBVIOUS
<1> USE OrdersAssumption
<1> USE DEF TypeOK, KnownSubscriptions, SuccessAccountedFor
<1>1. ASSUME NEW o \in Orders, StartCheckout(o) PROVE SuccessAccountedFor'
  BY <1>1 DEF StartCheckout, OpenStatuses, StaleOrders
<1>2. ASSUME NEW o \in Orders, ClearCheckout(o) PROVE SuccessAccountedFor'
  BY <1>2 DEF ClearCheckout, OpenStatuses, StaleOrders
<1>3. ASSUME NEW o \in Orders, CreateOrder(o) PROVE SuccessAccountedFor'
  BY <1>3 DEF CreateOrder, OpenStatuses, StaleOrders
<1>4. ASSUME NEW o \in Orders, InitiatePayment(o) PROVE SuccessAccountedFor'
  BY <1>4 DEF InitiatePayment, OpenStatuses, StaleOrders
<1>5. ASSUME NEW o \in Orders, AttachLink(o) PROVE SuccessAccountedFor'
  BY <1>5 DEF AttachLink, OpenStatuses, StaleOrders
<1>6. ASSUME NEW o \in Orders, CheckoutDies(o) PROVE SuccessAccountedFor'
  BY <1>6 DEF CheckoutDies, OpenStatuses, StaleOrders
<1>7. ASSUME NEW o \in Orders, Pay(o) PROVE SuccessAccountedFor'
  BY <1>7 DEF Pay, OpenStatuses, StaleOrders
<1>8. ASSUME NEW o \in Orders, AttemptFails(o) PROVE SuccessAccountedFor'
  BY <1>8 DEF AttemptFails, OpenStatuses, StaleOrders
<1>9. ASSUME NEW o \in Orders, RetryPayment(o) PROVE SuccessAccountedFor'
  BY <1>9 DEF RetryPayment, OpenStatuses, StaleOrders
<1>10. ASSUME NEW o \in Orders, ProviderExpires(o) PROVE SuccessAccountedFor'
  BY <1>10 DEF ProviderExpires, OpenStatuses, StaleOrders
<1>11. ASSUME NEW o \in Orders, Lapse(o) PROVE SuccessAccountedFor'
  BY <1>11 DEF Lapse, OpenStatuses, StaleOrders
<1>12. ASSUME NEW p \in Jobs, AskProvider(p) PROVE SuccessAccountedFor'
  <2>1. ASSUME NEW q \in Orders, (status[q] = "SUCCESS" /\ sub[q] = "none")',
               q \notin dropped'
        PROVE  (\E r \in Jobs : AccountsFor(r, q))'
    <3>1. PICK r \in Jobs : AccountsFor(r, q)
      BY <1>12, <2>1 DEF AskProvider, AccountsFor
    <3>2. r # p
      BY <1>12, <2>1, <3>1
      DEF AskProvider, HasSubscription, AccountsFor, BeforeSubscription
    <3>3. job'[r] = job[r]
      BY <1>12, <3>2 DEF AskProvider
    <3> QED
      BY <3>1, <3>3 DEF AccountsFor
  <2> QED
    BY <2>1 DEF AccountsFor
<1>13. ASSUME NEW p \in Jobs, ProviderUnaware(p) PROVE SuccessAccountedFor'
  <2>1. ASSUME NEW q \in Orders, (status[q] = "SUCCESS" /\ sub[q] = "none")',
               q \notin dropped'
        PROVE  (\E r \in Jobs : AccountsFor(r, q))'
    <3>1. PICK r \in Jobs : AccountsFor(r, q)
      BY <1>13, <2>1 DEF ProviderUnaware, AccountsFor
    <3>2. r # p
      BY <1>13, <2>1, <3>1
      DEF ProviderUnaware, HasSubscription, AccountsFor, BeforeSubscription
    <3>3. job'[r] = job[r]
      BY <1>13, <3>2 DEF ProviderUnaware
    <3> QED
      BY <3>1, <3>3 DEF AccountsFor
  <2> QED
    BY <2>1 DEF AccountsFor
<1>14. ASSUME NEW p \in Jobs, WriteStatus(p) PROVE SuccessAccountedFor'
  BY <1>14
  DEF WriteStatus, JobSteps, Activating, BeforeSubscription, OpenStatuses,
      Job, Call, At, IdleJob, AfterWrite, HasSubscription
<1>15. ASSUME NEW p \in Jobs, SkipActivation(p) PROVE SuccessAccountedFor'
  BY <1>15
  DEF SkipActivation, JobSteps, Activating, BeforeSubscription,
      OpenStatuses, Job, Call, At, IdleJob
<1>16. ASSUME NEW p \in Jobs, RefuseActivation(p) PROVE SuccessAccountedFor'
  BY <1>16
  DEF RefuseActivation, JobSteps, Activating, BeforeSubscription,
      OpenStatuses, Job, Call, At, IdleJob
<1>17. ASSUME NEW p \in Jobs, FindPlan(p) PROVE SuccessAccountedFor'
  BY <1>17
  DEF FindPlan, JobSteps, Activating, BeforeSubscription, OpenStatuses, Job,
      Call, At, IdleJob
<1>18. ASSUME NEW p \in Jobs, LookUpSubscriptions(p) PROVE SuccessAccountedFor'
  BY <1>18
  DEF LookUpSubscriptions, JobSteps, Activating, BeforeSubscription,
      OpenStatuses, Job, Call, At, IdleJob, ActiveSubscriptions
<1>19. ASSUME NEW p \in Jobs, ReplaceSubscriptions(p) PROVE SuccessAccountedFor'
  <2>1. ASSUME NEW q \in Orders, (status[q] = "SUCCESS" /\ sub[q] = "none")',
               q \notin dropped'
        PROVE  (\E r \in Jobs : AccountsFor(r, q))'
    <3>1. PICK r \in Jobs : AccountsFor(r, q)
      BY <1>19, <2>1 DEF ReplaceSubscriptions, AccountsFor
    <3>2. CASE r = p
      BY <1>19, <3>1, <3>2
      DEF ReplaceSubscriptions, AccountsFor, Call, BeforeSubscription
    <3>3. CASE r # p
      <4>1. job'[r] = job[r]
        BY <1>19, <3>3 DEF ReplaceSubscriptions
      <4> QED
        BY <3>1, <4>1 DEF AccountsFor
    <3> QED
      BY <3>2, <3>3
  <2> QED
    BY <2>1 DEF AccountsFor
<1>20. ASSUME NEW p \in Jobs, RevokeEntitlements(p) PROVE SuccessAccountedFor'
  BY <1>20
  DEF RevokeEntitlements, JobSteps, Activating, BeforeSubscription,
      OpenStatuses, Job, Call, At, IdleJob
<1>21. ASSUME NEW p \in Jobs, CreateSubscription(p) PROVE SuccessAccountedFor'
  BY <1>21
  DEF CreateSubscription, JobSteps, Activating, BeforeSubscription,
      OpenStatuses, Job, Call, At, IdleJob, HasSubscription
<1>22. ASSUME NEW p \in Jobs, DuplicateSubscription(p) PROVE SuccessAccountedFor'
  BY <1>22
  DEF DuplicateSubscription, JobSteps, Activating, BeforeSubscription,
      OpenStatuses, Job, Call, At, IdleJob, HasSubscription
<1>23. ASSUME NEW p \in Jobs, GrantEntitlements(p) PROVE SuccessAccountedFor'
  <2>1. ASSUME NEW q \in Orders, (status[q] = "SUCCESS" /\ sub[q] = "none")',
               q \notin dropped'
        PROVE  (\E r \in Jobs : AccountsFor(r, q))'
    <3>1. PICK r \in Jobs : AccountsFor(r, q)
      BY <1>23, <2>1 DEF GrantEntitlements, AccountsFor
    <3>2. r # p
      BY <1>23, <2>1, <3>1
      DEF GrantEntitlements, HasSubscription, AccountsFor,
          BeforeSubscription
    <3>3. job'[r] = job[r]
      BY <1>23, <3>2 DEF GrantEntitlements
    <3> QED
      BY <3>1, <3>3 DEF AccountsFor
  <2> QED
    BY <2>1 DEF AccountsFor
<1>24. ASSUME NEW p \in Jobs, FindRedemption(p) PROVE SuccessAccountedFor'
  <2>1. ASSUME NEW q \in Orders, (status[q] = "SUCCESS" /\ sub[q] = "none")',
               q \notin dropped'
        PROVE  (\E r \in Jobs : AccountsFor(r, q))'
    <3>1. PICK r \in Jobs : AccountsFor(r, q)
      BY <1>24, <2>1 DEF FindRedemption, AccountsFor
    <3>2. r # p
      BY <1>24, <2>1, <3>1
      DEF FindRedemption, HasSubscription, AccountsFor, BeforeSubscription
    <3>3. job'[r] = job[r]
      BY <1>24, <3>2 DEF FindRedemption
    <3> QED
      BY <3>1, <3>3 DEF AccountsFor
  <2> QED
    BY <2>1 DEF AccountsFor
<1>25. ASSUME NEW p \in Jobs, RecordRedemption(p) PROVE SuccessAccountedFor'
  <2>1. ASSUME NEW q \in Orders, (status[q] = "SUCCESS" /\ sub[q] = "none")',
               q \notin dropped'
        PROVE  (\E r \in Jobs : AccountsFor(r, q))'
    <3>1. PICK r \in Jobs : AccountsFor(r, q)
      BY <1>25, <2>1 DEF RecordRedemption, AccountsFor
    <3>2. r # p
      BY <1>25, <2>1, <3>1
      DEF RecordRedemption, HasSubscription, AccountsFor, BeforeSubscription
    <3>3. job'[r] = job[r]
      BY <1>25, <3>2 DEF RecordRedemption
    <3> QED
      BY <3>1, <3>3 DEF AccountsFor
  <2> QED
    BY <2>1 DEF AccountsFor
<1>26. ASSUME NEW p \in Jobs, JobDies(p) PROVE SuccessAccountedFor'
  BY <1>26
  DEF JobDies, JobSteps, Activating, BeforeSubscription, OpenStatuses, Job,
      Call, At, IdleJob
<1>27. ASSUME NEW p \in Jobs, ActivationFails(p) PROVE SuccessAccountedFor'
  BY <1>27
  DEF ActivationFails, JobSteps, Activating, BeforeSubscription,
      OpenStatuses, Job, Call, At, IdleJob
<1>28. ASSUME NEW p \in Jobs, NEW o \in Orders, BeginRefresh(p, o)
      PROVE SuccessAccountedFor'
  <2>1. ASSUME NEW q \in Orders, (status[q] = "SUCCESS" /\ sub[q] = "none")',
               q \notin dropped'
        PROVE  (\E r \in Jobs : AccountsFor(r, q))'
    <3>1. PICK r \in Jobs : AccountsFor(r, q)
      BY <1>28, <2>1 DEF BeginRefresh, AccountsFor
    <3>2. r # p
      BY <1>28, <2>1, <3>1
      DEF BeginRefresh, HasSubscription, AccountsFor, BeforeSubscription
    <3>3. job'[r] = job[r]
      BY <1>28, <3>2 DEF BeginRefresh
    <3> QED
      BY <3>1, <3>3 DEF AccountsFor
  <2> QED
    BY <2>1 DEF AccountsFor
<1>29. ASSUME NEW plan \in Plans, SwitchPlan(plan) PROVE SuccessAccountedFor'
  BY <1>29 DEF SwitchPlan, OpenStatuses, StaleOrders
<1>30. CASE ExpireStaleOrders
  BY <1>30 DEF ExpireStaleOrders, OpenStatuses, StaleOrders
<1>31. CASE UNCHANGED vars
  BY <1>31 DEF vars, OpenStatuses, StaleOrders
<1> QED
  BY <1>1, <1>2, <1>3, <1>4, <1>5, <1>6, <1>7, <1>8, <1>9, 
     <1>10, <1>11, <1>12, <1>13, <1>14, <1>15, <1>16, <1>17, 
     <1>18, <1>19, <1>20, <1>21, <1>22, <1>23, <1>24, <1>25, 
     <1>26, <1>27, <1>28, <1>29, <1>30, <1>31
  DEF Next, Checkout, Environment, JobStep

-----------------------------------------------------------------------------
\* Inductive: each part is preserved given all of them.
IInv == TypeOK /\ KnownSubscriptions /\ Evidence /\ SuccessAccountedFor

\* Every reachable state satisfies the four parts.
LEMMA Induction == Spec => []IInv
<1>1. Init => IInv
  <2> SUFFICES ASSUME Init PROVE IInv
    OBVIOUS
  <2>1. TypeOK
    BY OrdersAssumption DEF Init, TypeOK, IdleJob, At, Call, Job, JobSteps
  <2>2. KnownSubscriptions /\ SuccessAccountedFor
    BY DEF Init, KnownSubscriptions, SuccessAccountedFor, IdleJob, At, Call
  <2>3. Evidence
    BY DEF Init, Evidence, CheckoutOrder, CallEvidence, GrantOnlyPaid,
           FailedIsUnpaid, IdleJob, At, Call, Activating, BeforeSubscription
  <2> QED
    BY <2>1, <2>2, <2>3 DEF IInv
<1>2. IInv /\ [Next]_vars => IInv'
  BY TypeStep, KnownStep, EvidenceStep, AccountingStep DEF IInv
<1> QED
  BY <1>1, <1>2, PTL DEF Spec

\* SUCCESS, the subscription, its entitlements and the coupon's redemption come
\* only after the provider has taken the money, however many calls overlap.
THEOREM GrantsArePaid == Spec => []GrantOnlyPaid
<1>1. IInv => GrantOnlyPaid
  BY DEF IInv, Evidence
<1> QED
  BY <1>1, Induction, PTL

\* An order whose page allows one attempt is FAILED only if that attempt failed.
THEOREM FailuresAreUnpaid == Spec => []FailedIsUnpaid
<1>1. IInv => FailedIsUnpaid
  BY DEF IInv, Evidence
<1> QED
  BY <1>1, Induction, PTL

\* Healthy calls of refreshOrderStatus never lose a grant between them: a SUCCESS
\* order without a subscription is being activated or was given up.
THEOREM GrantsAreAccountedFor == Spec => []SuccessAccountedFor
<1>1. IInv => SuccessAccountedFor
  BY DEF IInv
<1> QED
  BY <1>1, Induction, PTL

\* A terminal order changes status only by a write computed from an older read,
\* or by checkout's own PENDING: never by the sweep, never by a fresh refresh.
THEOREM TerminalIsStable == Spec => TerminalLeftByStaleWriteOnly
<1> DEFINE Stale(o) ==
      \/ \E p \in Jobs : /\ job[p].pc = "writing" /\ job'[p].pc # "writing"
                         /\ job[p].order = o
                         /\ job[p].read \in OpenStatuses
      \/ checkout[o] = "initiated" /\ checkout'[o] = "linked"
<1> DEFINE Stable == \A o \in Orders :
      status[o] \in TerminalStatuses /\ status'[o] # status[o] => Stale(o)
<1>1. IInv /\ [Next]_vars => Stable
  <2> SUFFICES ASSUME IInv, [Next]_vars, NEW o \in Orders,
                      status[o] \in TerminalStatuses, status'[o] # status[o]
               PROVE  Stale(o)
    OBVIOUS
  <2> USE DEF IInv, TypeOK
  <2>1. ASSUME NEW q \in Orders, CreateOrder(q) PROVE Stale(o)
    BY <2>1 DEF CreateOrder, Evidence, CheckoutOrder, TerminalStatuses
  <2>2. ASSUME NEW q \in Orders, AttachLink(q) PROVE Stale(o)
    BY <2>2 DEF AttachLink
  <2>3. ASSUME NEW p \in Jobs, WriteStatus(p) PROVE Stale(o)
    BY <2>3 DEF WriteStatus, AfterWrite, Call, At, IdleJob
  <2>4. CASE ExpireStaleOrders
    BY <2>4 DEF ExpireStaleOrders, StaleOrders, OpenStatuses, TerminalStatuses
  <2>5. status' = status
        \/ (\E q \in Orders : CreateOrder(q) \/ AttachLink(q))
        \/ (\E p \in Jobs : WriteStatus(p)) \/ ExpireStaleOrders
    BY DEF Next, vars, Checkout, Environment, JobStep, StartCheckout,
           ClearCheckout,
           InitiatePayment, CheckoutDies, Pay, AttemptFails, RetryPayment,
           ProviderExpires, Lapse, SwitchPlan, BeginRefresh, AskProvider,
           ProviderUnaware, JobDies, SkipActivation, RefuseActivation, FindPlan,
           LookUpSubscriptions, ReplaceSubscriptions, RevokeEntitlements,
           CreateSubscription, DuplicateSubscription, GrantEntitlements,
           ActivationFails, FindRedemption, RecordRedemption
  <2> QED
    BY <2>1, <2>2, <2>3, <2>4, <2>5
<1>2. IInv /\ [Next]_vars =>
      [\A o \in Orders :
         status[o] \in TerminalStatuses /\ status'[o] # status[o] =>
           Stale(o)]_vars
  BY <1>1
<1> QED
  BY <1>2, Induction, PTL DEF Spec, TerminalLeftByStaleWriteOnly

-----------------------------------------------------------------------------
\* The promise's variables in terms of the code's.
Paid == {o \in Orders : attempt[o] = "paid"}
Granted == {o \in Orders : sub[o] # "none"}
Withdrawn == {o \in Orders : sub[o] = "EXPIRED"}

\* Every step of the code is a payment, a grant, a withdrawal or, to the promise,
\* nothing at all.
LEMMA PromiseStep ==
  IInv /\ [Next]_vars => [Promise!Next]_(Promise!accessVars)
<1> SUFFICES ASSUME IInv, [Next]_vars
             PROVE  [Promise!Next]_(Promise!accessVars)
  OBVIOUS
<1> USE DEF IInv, TypeOK, Promise!accessVars
<1>1. ASSUME NEW o \in Orders, Pay(o)
      PROVE  Promise!Next
  <2>1. Paid' = Paid \cup {o} /\ Granted' = Granted /\ Withdrawn' = Withdrawn
    BY <1>1 DEF Pay, Paid, Granted, Withdrawn
  <2> QED
    BY <2>1 DEF Promise!Next, Promise!Pay, Paid, Granted, Withdrawn
<1>2. ASSUME NEW p \in Jobs, CreateSubscription(p)
      PROVE  Promise!Next
  <2> DEFINE o == job[p].order
  <2>1. o \in Orders /\ o \in Paid /\ o \notin Granted
    BY <1>2
    DEF CreateSubscription, HasSubscription, Evidence, CallEvidence, Activating,
        BeforeSubscription, Paid, Granted
  <2>2. Paid' = Paid /\ Granted' = Granted \cup {o} /\ Withdrawn' = Withdrawn
    BY <1>2, <2>1 DEF CreateSubscription, HasSubscription, Paid, Granted, Withdrawn
  <2> QED
    BY <2>1, <2>2 DEF Promise!Next, Promise!Grant, Paid, Granted, Withdrawn
<1>3. ASSUME NEW p \in Jobs, ReplaceSubscriptions(p)
      PROVE  Promise!Next
  <2>1. job[p].doomed \in SUBSET Orders /\ job[p].doomed \subseteq Granted
    BY <1>3 DEF Job, KnownSubscriptions, Granted
  <2>2. /\ Paid' = Paid
        /\ Granted' = Granted
        /\ Withdrawn' = Withdrawn \cup job[p].doomed
    BY <1>3, <2>1 DEF ReplaceSubscriptions, Paid, Granted, Withdrawn
  <2> QED
    BY <2>1, <2>2 DEF Promise!Next, Promise!Withdraw, Paid, Granted, Withdrawn
<1>4. ASSUME NEW o \in Orders,
             \/ InitiatePayment(o) \/ AttemptFails(o) \/ RetryPayment(o)
             \/ ProviderExpires(o)
      PROVE  UNCHANGED Promise!accessVars
  <2>1. Paid' = Paid /\ Granted' = Granted /\ Withdrawn' = Withdrawn
    BY <1>4
    DEF InitiatePayment, AttemptFails, RetryPayment, ProviderExpires, Evidence,
        CheckoutOrder, Paid, Granted, Withdrawn
  <2> QED
    BY <2>1 DEF Paid, Granted, Withdrawn
<1>5. \/ UNCHANGED <<attempt, sub>>
      \/ \E o \in Orders : \/ Pay(o) \/ InitiatePayment(o) \/ AttemptFails(o)
                          \/ RetryPayment(o) \/ ProviderExpires(o)
      \/ \E p \in Jobs : CreateSubscription(p) \/ ReplaceSubscriptions(p)
  BY DEF Next, vars, Checkout, Environment, JobStep, StartCheckout,
         ClearCheckout, CreateOrder,
         AttachLink, CheckoutDies, Lapse, SwitchPlan, ExpireStaleOrders,
         BeginRefresh, AskProvider, ProviderUnaware, WriteStatus, JobDies,
         SkipActivation, RefuseActivation, FindPlan, LookUpSubscriptions,
         RevokeEntitlements, DuplicateSubscription, GrantEntitlements,
         ActivationFails, FindRedemption, RecordRedemption
<1> QED
  BY <1>1, <1>2, <1>3, <1>4, <1>5

\* The payments code implements PaidAccess: money first, one grant per order, and
\* a withdrawal only of what was granted.
THEOREM PromiseIsKept == Spec => KeepsPromise
<1>1. Init => Promise!Init
  BY DEF Init, Promise!Init
<1> QED
  BY <1>1, PromiseStep, Induction, PTL DEF Spec, KeepsPromise, Promise!Spec
=============================================================================
