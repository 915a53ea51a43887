------------------------------- MODULE Refunds -------------------------------
(***************************************************************************)
(* The refunds of one paid order: src/modules/payments/payments.service,   *)
(* refundOrder and getRefundStatusByMerchantRefundId.                      *)
(*                                                                         *)
(* What was refunded is not stored: it is summed from the latest status    *)
(* event of each refund.  A clerk is a request of the admin panel, one     *)
(* await at a time; a late refresh is a status check that read the order   *)
(* as PENDING before it was paid.  Amounts are in units of the smallest    *)
(* refund; PhonePe is external, and refunds whatever it is asked to.       *)
(***************************************************************************)
EXTENDS Integers, FiniteSets, FiniteSetsExt, Functions

CONSTANTS
  Paid,        \* finalAmountPaise of the order
  Refunds,     \* merchantRefundIds
  NoRefund,    \* the refund of a clerk that has none
  Clerks,      \* requests at a time
  MaxRefreshes,\* bound: status checks of the order under way at first
  MaxRequests, \* bound: requests begun
  MaxMisses    \* bound: process deaths and failed statements

ASSUME RefundsAssumption ==
  /\ Paid \in Nat \ {0} /\ IsFiniteSet(Refunds) /\ NoRefund \notin Refunds
  /\ MaxRefreshes \in Nat /\ MaxRequests \in Nat /\ MaxMisses \in Nat

VARIABLES
  paidOrder,   \* paymentOrder.status
  refreshes,   \* SUCCESS answers not written yet
  asked,       \* external: the amount the provider accepted for each refund, or 0
  outcome,     \* external: the refund's state at the provider
  initiated,   \* refunds with a PHONEPE_REFUND_INITIATED event
  latest,      \* state of the refund's latest PHONEPE_REFUND_STATUS event
  clerk,       \* where each clerk is
  requests,    \* requests left
  misses,      \* misses left
  unsure       \* history: a refund was asked for while another was not in the events

rvars == <<paidOrder, refreshes, asked, outcome, initiated, latest, clerk, requests, misses,
           unsure>>

Away == [pc |-> "away", refund |-> NoRefund, amount |-> 0, answer |-> "none"]

RefundsInit ==
  /\ paidOrder = "SUCCESS" /\ refreshes = MaxRefreshes
  /\ asked = [r \in Refunds |-> 0]
  /\ outcome = [r \in Refunds |-> "none"]
  /\ initiated = {}
  /\ latest = [r \in Refunds |-> "none"]
  /\ clerk = [k \in Clerks |-> Away]
  /\ requests = MaxRequests /\ misses = MaxMisses
  /\ unsure = FALSE

\* Which of the free clerks takes a request makes no difference.
Free(k) == clerk[k] = Away /\ k = CHOOSE j \in Clerks : clerk[j] = Away

Turn(k, step) == clerk' = [clerk EXCEPT ![k].pc = step]
Part(k) == clerk' = [clerk EXCEPT ![k] = Away]
Total(S) == SumFunctionOnSet(asked, S)

\* getSuccessfulRefundedAmountPaise.  Faulty variant: a refund under way counts.
CountsAll == {r \in Refunds : latest[r] # "none"}
Counted == {r \in Refunds : latest[r] = "SUCCESS"}
Refunded == Total(Counted)
Remaining == IF Refunded < Paid THEN Paid - Refunded ELSE 0

\* What the provider will have paid back, and a refund the events do not tell of.
Accepted == {r \in Refunds : outcome[r] \in {"PENDING", "SUCCESS"}}
OutOfSight(k) ==
  \/ \E r \in Accepted : latest[r] # "SUCCESS"
  \/ \E j \in Clerks \ {k} : clerk[j].pc = "calling"

-----------------------------------------------------------------------------
(* refundOrder *)

\* A refund asked for by its id and by an amount, 0 when all that remains is meant.
BeginRefund(k, r, amount) ==
  /\ Free(k)
  /\ paidOrder \in {"SUCCESS", "REFUNDED"}
  /\ requests > 0 /\ requests' = requests - 1
  /\ clerk' = [clerk EXCEPT ![k] = [Away EXCEPT !.pc = "finding", !.refund = r,
                                                !.amount = amount]]
  /\ UNCHANGED <<paidOrder, refreshes, asked, outcome, initiated, latest, misses, unsure>>

\* An id that is known only has its status checked.
FindRefund(k) ==
  /\ clerk[k].pc = "finding"
  /\ Turn(k, IF clerk[k].refund \in initiated THEN "checking" ELSE "summing")
  /\ UNCHANGED <<paidOrder, refreshes, asked, outcome, initiated, latest, requests, misses,
                 unsure>>

\* Faulty variant: the limit is what was paid.
WithinPaid(amount) == amount <= Paid
WithinLimit(amount) == Remaining > 0 /\ amount <= Remaining
SumRefunds(k) ==
  LET wanted == clerk[k].amount
      amount == IF wanted = 0 THEN Remaining ELSE wanted IN
  /\ clerk[k].pc = "summing"
  /\ IF WithinLimit(amount)
       THEN /\ clerk' = [clerk EXCEPT ![k].pc = "calling", ![k].amount = amount]
            /\ unsure' = (unsure \/ OutOfSight(k))
       ELSE Part(k) /\ UNCHANGED unsure
  /\ UNCHANGED <<paidOrder, refreshes, asked, outcome, initiated, latest, requests, misses>>

\* The provider knows an id once and refuses it the second time.
CallProvider(k) ==
  LET r == clerk[k].refund IN
  /\ clerk[k].pc = "calling"
  /\ IF outcome[r] = "none"
       THEN /\ asked' = [asked EXCEPT ![r] = clerk[k].amount]
            /\ outcome' = [outcome EXCEPT ![r] = "PENDING"]
            /\ clerk' = [clerk EXCEPT ![k].pc = "recording", ![k].amount = 0]
       ELSE Part(k) /\ UNCHANGED <<asked, outcome>>
  /\ UNCHANGED <<paidOrder, refreshes, initiated, latest, requests, misses, unsure>>

RecordRefund(k) ==
  /\ clerk[k].pc = "recording"
  /\ initiated' = initiated \cup {clerk[k].refund}
  /\ Turn(k, "checking")
  /\ UNCHANGED <<paidOrder, refreshes, asked, outcome, latest, requests, misses, unsure>>

-----------------------------------------------------------------------------
(* getRefundStatusByMerchantRefundId, refreshRefundStatus, applyRefundStatusToOrder *)

BeginCheck(k, r) ==
  /\ Free(k) /\ r \in initiated
  /\ requests > 0 /\ requests' = requests - 1
  /\ clerk' = [clerk EXCEPT ![k] = [Away EXCEPT !.pc = "checking", !.refund = r]]
  /\ UNCHANGED <<paidOrder, refreshes, asked, outcome, initiated, latest, misses, unsure>>

AskRefund(k) ==
  /\ clerk[k].pc = "checking"
  /\ clerk' = [clerk EXCEPT ![k].pc = "noting", ![k].amount = 0,
                            ![k].answer = outcome[clerk[k].refund]]
  /\ UNCHANGED <<paidOrder, refreshes, asked, outcome, initiated, latest, requests, misses,
                 unsure>>

\* The events are ordered by when they are written, not by when they were true.
NoteStatus(k) ==
  /\ clerk[k].pc = "noting"
  /\ latest' = [latest EXCEPT ![clerk[k].refund] = clerk[k].answer]
  /\ IF clerk[k].answer = "SUCCESS" THEN Turn(k, "applying") ELSE Part(k)
  /\ UNCHANGED <<paidOrder, refreshes, asked, outcome, initiated, requests, misses, unsure>>

ApplyRefunds(k) ==
  /\ clerk[k].pc = "applying"
  /\ IF Refunded < Paid \/ paidOrder = "REFUNDED" THEN Part(k) ELSE Turn(k, "marking")
  /\ UNCHANGED <<paidOrder, refreshes, asked, outcome, initiated, latest, requests, misses,
                 unsure>>

MarkRefunded(k) ==
  /\ clerk[k].pc = "marking"
  /\ paidOrder' = "REFUNDED"
  /\ Part(k)
  /\ UNCHANGED <<refreshes, asked, outcome, initiated, latest, requests, misses, unsure>>

-----------------------------------------------------------------------------
(* The provider, late answers, and what goes wrong *)

RefundSettles(r, answer) ==
  /\ outcome[r] = "PENDING"
  /\ outcome' = [outcome EXCEPT ![r] = answer]
  /\ UNCHANGED <<paidOrder, refreshes, asked, initiated, latest, clerk, requests, misses, unsure>>

\* refreshOrderStatus writes what it computed from the status it read.
LateRefresh ==
  /\ refreshes > 0 /\ refreshes' = refreshes - 1
  /\ paidOrder' = "SUCCESS"
  /\ UNCHANGED <<asked, outcome, initiated, latest, clerk, requests, misses, unsure>>

\* After the provider has accepted a refund, nothing but its event tells of it.
ClerkMisses(k) ==
  /\ clerk[k] # Away
  /\ misses > 0 /\ misses' = misses - 1
  /\ Part(k)
  /\ UNCHANGED <<paidOrder, refreshes, asked, outcome, initiated, latest, requests, unsure>>

ClerkStep(k) ==
  \/ FindRefund(k) \/ SumRefunds(k) \/ CallProvider(k) \/ RecordRefund(k)
  \/ AskRefund(k) \/ NoteStatus(k) \/ ApplyRefunds(k) \/ MarkRefunded(k)

RefundsNext ==
  \/ \E k \in Clerks : ClerkStep(k) \/ ClerkMisses(k)
  \/ \E k \in Clerks, r \in Refunds :
       BeginCheck(k, r) \/ \E amount \in 0 .. Paid : BeginRefund(k, r, amount)
  \/ \E r \in Refunds : RefundSettles(r, "SUCCESS") \/ RefundSettles(r, "FAILED")
  \/ LateRefresh

RefundsSpec == RefundsInit /\ [][RefundsNext]_rvars

-----------------------------------------------------------------------------
(* Properties *)

\* Rows, events and requests have the shape of the schema and the code; an event
\* tells of a refund the provider accepted, and only what it said.
RefundsTypeOK ==
  /\ paidOrder \in {"SUCCESS", "REFUNDED"}
  /\ refreshes \in 0 .. MaxRefreshes
  /\ asked \in [Refunds -> 0 .. Paid]
  /\ outcome \in [Refunds -> {"none", "PENDING", "SUCCESS", "FAILED"}]
  /\ initiated \subseteq {r \in Refunds : outcome[r] # "none"}
  /\ \A r \in Refunds :
       /\ latest[r] \in {"none", "PENDING", outcome[r]}
       /\ latest[r] # "none" => r \in initiated
  /\ clerk \in [Clerks ->
       [pc : {"away", "finding", "summing", "calling", "recording", "checking", "noting",
              "applying", "marking"},
        refund : Refunds \cup {NoRefund}, amount : 0 .. Paid,
        answer : {"none", "PENDING", "SUCCESS", "FAILED"}]]
  /\ requests \in 0 .. MaxRequests /\ misses \in 0 .. MaxMisses
  /\ unsure \in BOOLEAN

\* An order that is REFUNDED was paid back in full, whatever order the answers are
\* written in; and no more than was paid is paid back, unless a refund was asked for
\* while another one was on its way to the provider, not settled there, or settled
\* without an event that says so.
RefundsAddUp ==
  /\ paidOrder = "REFUNDED" =>
       Total({r \in Refunds : outcome[r] = "SUCCESS"}) >= Paid
  /\ Total(Accepted) <= Paid \/ unsure
=============================================================================
