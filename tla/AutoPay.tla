------------------------------- MODULE AutoPay -------------------------------
(***************************************************************************)
(* One student's AutoPay mandate: src/modules/payments/payments.service    *)
(* from the setup order to the charges of each period, and                 *)
(* payments.autopay.service, whose tick starts them.                       *)
(*                                                                         *)
(* A tick, a status poll, a webhook or a reconcile call is a worker that   *)
(* takes one await at a time.  The mandate's nextChargeAt is told apart    *)
(* only as due now, soon (the retry interval away) or later (one period    *)
(* after what was paid last).  How a checkout comes to its PENDING order   *)
(* and how a subscription is written is module PaymentOrders; here an      *)
(* order brings its subscription or does not.  CANCELLED is folded into    *)
(* FAILED, reminders are left out.                                         *)
(***************************************************************************)
EXTENDS Naturals

CONSTANTS
  Setup,     \* the AUTOPAY_SETUP order
  Charges,   \* the AUTOPAY_CHARGE orders; bound: their number
  NoBill,    \* the order of a worker that has none
  Workers,   \* ticks and refreshes at a time
  MaxPolls,  \* bound: status checks begun
  MaxSlips   \* bound: process deaths and failed statements

ASSUME AutoPayAssumption ==
  /\ Setup \notin Charges /\ NoBill \notin Charges \cup {Setup}
  /\ MaxPolls \in Nat /\ MaxSlips \in Nat

Bills == Charges \cup {Setup}

VARIABLES
  bill,      \* paymentOrder.status of each order
  due,       \* orders whose expiresAt has passed
  mandate,   \* paymentMandate.status, "none" before the row exists
  next,      \* paymentMandate.nextChargeAt
  debit,     \* external: the order at the provider
  granted,   \* orders with a subscription
  worker,    \* where each worker is
  polls,     \* status checks left
  slips,     \* slips left
  allowed,   \* history: why a debit may come: "period", "mishap" or nothing
  forsaken   \* history: SUCCESS orders whose handling was given up

avars == <<bill, due, mandate, next, debit, granted, worker, polls, slips,
           allowed, forsaken>>

OpenBills == {b \in Bills : bill[b] \in {"CREATED", "PENDING"}}
MadeCharges == {c \in Charges : bill[c] # "none"}

At(step, b) == [pc |-> step, bill |-> b, answer |-> "none"]
Off == At("off", NoBill)
Carrying(w, b) ==
  worker[w].bill = b /\ worker[w].pc \in {"moving", "enabling", "activating"}

AutoPayInit ==
  /\ bill = [b \in Bills |-> "none"]
  /\ due = {}
  /\ mandate = "none" /\ next = "unset"
  /\ debit = [b \in Bills |-> "absent"]
  /\ granted = {}
  /\ worker = [w \in Workers |-> Off]
  /\ polls = MaxPolls /\ slips = MaxSlips
  /\ allowed = "period" /\ forsaken = {}

\* Which of the unused rows or workers is taken makes no difference.
FirstOf(S) == CHOOSE x \in S : TRUE
Starts(w) == worker[w] = Off /\ w = FirstOf({v \in Workers : worker[v] = Off})

Go(w, step) == worker' = [worker EXCEPT ![w].pc = step]
Leave(w) == worker' = [worker EXCEPT ![w] = Off]

-----------------------------------------------------------------------------
(* The provider and the clock *)

\* checkout of a plan with AutoPay, up to its link.
OpenSetup ==
  /\ bill[Setup] = "none"
  /\ bill' = [bill EXCEPT ![Setup] = "PENDING"]
  /\ debit' = [debit EXCEPT ![Setup] = "open"]
  /\ UNCHANGED <<due, mandate, next, granted, worker, polls, slips, allowed, forsaken>>

\* External: the payer approves the setup, or the provider debits a charge it was
\* notified of, before the order's expireAt.  What was later is then less than a
\* period away.
Debit(b) ==
  /\ debit[b] = "open"
  /\ b = Setup \/ b \notin due
  /\ debit' = [debit EXCEPT ![b] = "paid"]
  /\ allowed' = IF allowed = "period" THEN "nothing" ELSE allowed
  /\ next' = IF next = "later" THEN "soon" ELSE next
  /\ UNCHANGED <<bill, due, mandate, granted, worker, polls, slips, forsaken>>

DebitFails(c) ==
  /\ debit[c] = "open"
  /\ debit' = [debit EXCEPT ![c] = "failed"]
  /\ UNCHANGED <<bill, due, mandate, next, granted, worker, polls, slips,
                 allowed, forsaken>>

\* redemptionRetryStrategy STANDARD_RETRY: until its order's expireAt the provider
\* tries a failed debit again, although the order may be FAILED by now.
ProviderRetries(c) ==
  /\ debit[c] = "failed" /\ c \notin due
  /\ debit' = [debit EXCEPT ![c] = "open"]
  /\ UNCHANGED <<bill, due, mandate, next, granted, worker, polls, slips,
                 allowed, forsaken>>

ProviderGivesUp(b) ==
  /\ debit[b] = "open" /\ b \in due
  /\ debit' = [debit EXCEPT ![b] = "expired"]
  /\ UNCHANGED <<bill, due, mandate, next, granted, worker, polls, slips,
                 allowed, forsaken>>

\* The lapse of a settled order, which nobody looks at, is left out.
BillLapses(b) ==
  /\ b \notin due
  /\ b \in OpenBills \/ debit[b] = "open"
  /\ due' = due \cup {b}
  /\ UNCHANGED <<bill, mandate, next, debit, granted, worker, polls, slips,
                 allowed, forsaken>>

RetryComes ==
  /\ next = "soon" /\ next' = "due"
  /\ UNCHANGED <<bill, due, mandate, debit, granted, worker, polls, slips,
                 allowed, forsaken>>

\* A period is longer than any request and the life of any order.
PeriodPasses ==
  /\ next # "unset" /\ next' = "due"
  /\ \A w \in Workers : worker[w] = Off
  /\ \A b \in Bills : debit[b] # "open"
  /\ allowed' = "period"
  /\ due' = {b \in Bills : bill[b] # "none"}
  /\ UNCHANGED <<bill, mandate, debit, granted, worker, polls, slips, forsaken>>

\* expireStaleOrders asks nobody.  Faulty variant: PENDING orders only.
SweptIfPending == {b \in due : bill[b] = "PENDING"}
Swept == due \cap OpenBills
SweepBills ==
  /\ Swept # {}
  /\ bill' = [b \in Bills |-> IF b \in Swept THEN "EXPIRED" ELSE bill[b]]
  /\ allowed' = IF \E b \in Swept : debit[b] = "paid" THEN "mishap" ELSE allowed
  /\ UNCHANGED <<due, mandate, next, debit, granted, worker, polls, slips, forsaken>>

-----------------------------------------------------------------------------
(* processDueAutoPayCharges and initiateAutoPayChargeForMandate *)

\* A tick finds the mandate due.  Bound: no tick once every charge is used.
Scan(w) ==
  /\ Starts(w) /\ MadeCharges # Charges
  /\ mandate = "ACTIVE" /\ next = "due"
  /\ worker' = [worker EXCEPT ![w] = At("looking", NoBill)]
  /\ UNCHANGED <<bill, due, mandate, next, debit, granted, polls, slips,
                 allowed, forsaken>>

\* Faulty variant: a charge whose answer is outstanding does not count.
OnlyCreated == {c \in Charges : bill[c] = "CREATED"}
PendingCharges == OpenBills \cap Charges
LookForPending(w) ==
  /\ worker[w].pc = "looking"
  /\ IF PendingCharges # {} THEN Leave(w) ELSE Go(w, "ordering")
  /\ UNCHANGED <<bill, due, mandate, next, debit, granted, polls, slips,
                 allowed, forsaken>>

\* The mandate is not read again: it may have been charged or moved on since, or a
\* charge's SUCCESS may be about to move it on.
Raced ==
  \/ PendingCharges # {} \/ next # "due"
  \/ \E v \in Workers : worker[v].pc = "moving"
CreateCharge(w) ==
  LET c == FirstOf(Charges \ MadeCharges) IN
  /\ worker[w].pc = "ordering" /\ MadeCharges # Charges
  /\ bill' = [bill EXCEPT ![c] = "CREATED"]
  /\ allowed' = IF Raced THEN "mishap" ELSE allowed
  /\ worker' = [worker EXCEPT ![w].pc = "postponing", ![w].bill = c]
  /\ UNCHANGED <<due, mandate, next, debit, granted, polls, slips, forsaken>>

\* The retry's date is written over whatever date there is; a success may have moved
\* the mandate on meanwhile.
PutRetryBack ==
  /\ next' = "soon"
  /\ allowed' = IF next = "later" THEN "mishap" ELSE allowed
PostponeMandate(w) ==
  /\ worker[w].pc = "postponing"
  /\ PutRetryBack
  /\ Go(w, "notifying")
  /\ UNCHANGED <<bill, due, mandate, debit, granted, polls, slips, forsaken>>

\* A refused notification is recorded and passed over.
NotifyProvider(w) ==
  LET c == worker[w].bill IN
  /\ worker[w].pc = "notifying"
  /\ \/ debit' = [debit EXCEPT ![c] = "open"]
     \/ UNCHANGED debit
  /\ Go(w, "executing")
  /\ UNCHANGED <<bill, due, mandate, next, granted, polls, slips, allowed, forsaken>>

\* normalizeStatus of the provider's answer.
Normalized(d) ==
  [open |-> "PENDING", paid |-> "SUCCESS", failed |-> "FAILED", expired |-> "EXPIRED"][d]

\* A redemption the provider does not know is an error, and the order waits for the
\* sweep.
ExecuteCharge(w) ==
  LET c == worker[w].bill IN
  /\ worker[w].pc = "executing"
  /\ IF debit[c] = "absent" THEN Leave(w)
     ELSE worker' = [worker EXCEPT ![w].pc = "writing", ![w].answer = Normalized(debit[c])]
  /\ UNCHANGED <<bill, due, mandate, next, debit, granted, polls, slips,
                 allowed, forsaken>>

-----------------------------------------------------------------------------
(* refreshOrderStatus *)

\* Bound: a setup the payer has not decided is not asked about.
BeginStatus(w, b) ==
  /\ Starts(w) /\ b \in OpenBills
  /\ worker' = [worker EXCEPT ![w] = At("asking", b)]
  /\ b = Setup => debit[b] # "open"
  /\ polls > 0 /\ polls' = polls - 1
  /\ UNCHANGED <<bill, due, mandate, next, debit, granted, slips,
                 allowed, forsaken>>

AskStatus(w) ==
  LET b == worker[w].bill IN
  /\ worker[w].pc = "asking"
  /\ IF debit[b] = "absent" THEN Leave(w)
     ELSE worker' = [worker EXCEPT ![w].pc = "writing", ![w].answer = Normalized(debit[b])]
  /\ UNCHANGED <<bill, due, mandate, next, debit, granted, polls, slips,
                 allowed, forsaken>>

\* Faulty variants: any end of a setup enables, and only a setup is followed up.
AnyEndEnables(b, status) ==
  IF b = Setup /\ status # "PENDING" THEN "enabling" ELSE "off"
SetupOnly(b, status) ==
  IF b = Setup /\ status = "SUCCESS" THEN "enabling" ELSE "off"
FollowUp(b, status) ==
  IF status = "SUCCESS" THEN (IF b = Setup THEN "enabling" ELSE "moving")
  ELSE IF b # Setup /\ status \in {"FAILED", "EXPIRED"} THEN "retrying" ELSE "off"

\* applyTransition allows every answer from the CREATED or PENDING that was read,
\* whatever the status is by now.
WriteStatus(w) ==
  LET b == worker[w].bill
      status == worker[w].answer
      step == FollowUp(b, status) IN
  /\ worker[w].pc = "writing"
  /\ bill' = [bill EXCEPT ![b] = status]
  /\ IF step = "off" THEN Leave(w) ELSE worker' = [worker EXCEPT ![w] = At(step, b)]
  /\ allowed' = IF status = "FAILED" /\ (b \notin due \/ debit[b] # "failed")
                  THEN "mishap" ELSE allowed
  /\ UNCHANGED <<due, mandate, next, debit, granted, polls, slips, forsaken>>

\* handleAutoPaySetupSuccess: the mandate, found or created.
EnableMandate(w) ==
  /\ worker[w].pc = "enabling"
  /\ mandate' = "ACTIVE" /\ next' = "later"
  /\ Go(w, "activating")
  /\ UNCHANGED <<bill, due, debit, granted, polls, slips, allowed, forsaken>>

\* handleAutoPayChargeSuccess.  Faulty variant: the retry stays.
NextUnmoved == next
NextAfterCharge == "later"
MoveMandateOn(w) ==
  /\ worker[w].pc = "moving"
  /\ mandate' = "ACTIVE" /\ next' = NextAfterCharge
  /\ Go(w, "activating")
  /\ UNCHANGED <<bill, due, debit, granted, polls, slips, allowed, forsaken>>

\* handleAutoPayChargeFailure.
RetryMandate(w) ==
  /\ worker[w].pc = "retrying"
  /\ mandate' = "ACTIVE" /\ PutRetryBack
  /\ Leave(w)
  /\ UNCHANGED <<bill, due, debit, granted, polls, slips, forsaken>>

\* handleOneTimeOrderSuccess and activateSubscription.
ActivatePeriod(w) ==
  LET b == worker[w].bill IN
  /\ worker[w].pc = "activating"
  /\ granted' = granted \cup {b}
  /\ Leave(w)
  /\ UNCHANGED <<bill, due, mandate, next, debit, polls, slips, allowed, forsaken>>

-----------------------------------------------------------------------------
(* What goes wrong *)

\* A statement or a call fails, or the process dies; activateSubscription also fails,
\* and its error is swallowed, when updatePlan has taken the plan off offer.  A charge
\* that succeeded and does not move the mandate on leaves it to be charged again.
Slip(w) ==
  LET b == worker[w].bill IN
  /\ worker[w] # Off
  /\ slips > 0 /\ slips' = slips - 1
  /\ forsaken' = IF Carrying(w, b) THEN forsaken \cup {b} ELSE forsaken
  /\ allowed' = IF worker[w].pc = "moving" THEN "mishap" ELSE allowed
  /\ Leave(w)
  /\ UNCHANGED <<bill, due, mandate, next, debit, granted, polls>>

WorkerStep(w) ==
  \/ LookForPending(w) \/ CreateCharge(w) \/ PostponeMandate(w) \/ NotifyProvider(w) \/ ExecuteCharge(w)
  \/ AskStatus(w) \/ WriteStatus(w)
  \/ EnableMandate(w) \/ MoveMandateOn(w) \/ RetryMandate(w) \/ ActivatePeriod(w)

AutoPayNext ==
  \/ \E w \in Workers : Scan(w) \/ WorkerStep(w) \/ Slip(w)
  \/ \E w \in Workers, b \in Bills : BeginStatus(w, b)
  \/ OpenSetup \/ RetryComes \/ PeriodPasses \/ SweepBills
  \/ \E b \in Bills : Debit(b) \/ ProviderGivesUp(b) \/ BillLapses(b)
  \/ \E c \in Charges : DebitFails(c) \/ ProviderRetries(c)

AutoPaySpec == AutoPayInit /\ [][AutoPayNext]_avars

\* The AutoPay tick and the reconcile tick fire every interval, a request goes on,
\* time passes, and the provider gives an order up at its expireAt.
AutoPayFairness ==
  /\ \A w \in Workers : WF_avars(WorkerStep(w))
  /\ WF_avars(\E w \in Workers : Scan(w))
  /\ WF_avars(SweepBills)
  /\ \A b \in Bills : WF_avars(BillLapses(b)) /\ WF_avars(ProviderGivesUp(b))

AutoPayFairSpec == AutoPaySpec /\ AutoPayFairness

-----------------------------------------------------------------------------
(* Properties *)

\* Rows and workers have the shape of the schema and the code; there are charges only
\* of a mandate, and a mandate only of a paid setup.
AutoPayTypeOK ==
  /\ bill \in [Bills -> {"none", "CREATED", "PENDING", "SUCCESS", "FAILED", "EXPIRED"}]
  /\ due \subseteq {b \in Bills : bill[b] # "none"}
  /\ mandate \in {"none", "ACTIVE"}
  /\ next \in {"unset", "due", "soon", "later"}
  /\ (mandate = "none") = (next = "unset")
  /\ debit \in [Bills -> {"absent", "open", "paid", "failed", "expired"}]
  /\ MadeCharges # {} => mandate = "ACTIVE"
  /\ mandate = "ACTIVE" => debit[Setup] = "paid"
  /\ granted \subseteq Bills /\ forsaken \subseteq Bills
  /\ worker \in [Workers ->
       [pc : {"off", "looking", "ordering", "postponing", "notifying", "executing",
              "asking", "writing", "enabling", "moving", "retrying", "activating"},
        bill : Bills \cup {NoBill},
        answer : {"none", "PENDING", "SUCCESS", "FAILED", "EXPIRED"}]]
  /\ \A w \in Workers :
       worker[w].pc \in {"off", "looking", "ordering"} <=> worker[w].bill = NoBill
  /\ polls \in 0 .. MaxPolls /\ slips \in 0 .. MaxSlips
  /\ allowed \in {"period", "mishap", "nothing"}

\* Between two debits of the mandate a period passes, unless in this period a tick
\* went past the look for a pending charge while another tick or a charge's success
\* was under way, the sweep expired an order whose debit nobody had asked about, the
\* process died between a charge's SUCCESS and the mandate's next date, a retry's date
\* was written over that next date, or an order was FAILED that the provider goes on
\* trying.
ChargedOncePerPeriod ==
  [][\A c \in Charges :
       debit[c] # "paid" /\ debit'[c] = "paid" => allowed # "nothing"]_avars

\* A SUCCESS order has brought its subscription, is being handled, or was given up:
\* the process died, a statement failed, or the plan was no longer on offer.
EveryDebitCounts ==
  \A b \in Bills : bill[b] = "SUCCESS" =>
    b \in granted \/ b \in forsaken \/ \E w \in Workers : Carrying(w, b)

\* A mandate that is due is charged: no order that was left behind by a dead process,
\* a refused notification or a silent provider blocks it for good.
DueMandateIsCharged ==
  next = "due" ~> next # "due" \/ MadeCharges = Charges
=============================================================================
