---------------------------- MODULE AutoPayProofs ----------------------------
(***************************************************************************)
(* Proofs about AutoPay, for any number of charges and workers.            *)
(*                                                                         *)
(* A period is debited once because at most one charge can be debited at a *)
(* time, and because after a debit a tick meets either the charge that is  *)
(* still pending, or a worker about to move the mandate on, or a mandate   *)
(* that was moved on.  Whatever breaks this is named in `allowed'.         *)
(***************************************************************************)
EXTENDS AutoPay, TLAPS

\* What a worker may rely on.
Grounds(w) ==
  LET b == worker[w].bill IN
  /\ worker[w].pc \in {"looking", "ordering"} => mandate = "ACTIVE"
  /\ b \in Bills => bill[b] # "none"
  /\ worker[w].pc \in {"postponing", "notifying", "executing", "moving", "retrying"} =>
       b \in Charges
  /\ worker[w].pc \in {"postponing", "notifying"} => debit[b] = "absent"
  /\ worker[w].pc = "writing" =>
       /\ worker[w].answer # "none"
       /\ worker[w].answer = "SUCCESS" => debit[b] = "paid"
       /\ worker[w].answer = "EXPIRED" => debit[b] = "expired"
  /\ worker[w].pc = "enabling" => b = Setup /\ debit[b] = "paid"

\* The provider knows of no order that was not made, and one worker makes a charge.
Opening(w, c) == worker[w].pc \in {"postponing", "notifying"} /\ worker[w].bill = c
Origin ==
  /\ \A b \in Bills : bill[b] = "none" => debit[b] = "absent"
  /\ \A w, v \in Workers, c \in Charges : Opening(w, c) /\ Opening(v, c) => w = v

\* A charge that can still be debited.
Alive(c) ==
  /\ c \notin due
  /\ debit[c] \in {"open", "failed"} \/ \E w \in Workers : Opening(w, c)

\* It is one only, and a tick that looks for a pending charge finds it.
OneAlive ==
  allowed # "mishap" =>
    /\ \A c \in Charges : Alive(c) => c \in OpenBills
    /\ \A c, d \in Charges : Alive(c) /\ Alive(d) => c = d

\* After a debit there is none until the period has passed, and no tick makes one.
Covered ==
  \/ mandate = "none"
  \/ \E c \in Charges : c \in OpenBills /\ debit[c] = "paid"
  \/ \E w \in Workers : worker[w].pc = "moving"
  \/ next = "later"
NoneLeft ==
  allowed = "nothing" => Covered /\ \A c \in Charges : ~Alive(c)

IInv ==
  /\ AutoPayTypeOK
  /\ \A w \in Workers : Grounds(w)
  /\ Origin
  /\ EveryDebitCounts
  /\ OneAlive
  /\ NoneLeft

\* normalizeStatus: an answer that settles an order says what became of its debit.
LEMMA AnswerTyped ==
  ASSUME NEW d \in {"open", "paid", "failed", "expired"}
  PROVE  /\ Normalized(d) \in {"PENDING", "SUCCESS", "FAILED", "EXPIRED"}
         /\ Normalized(d) = "SUCCESS" => d = "paid"
         /\ Normalized(d) = "EXPIRED" => d = "expired"
BY DEF Normalized

\* What follows a status that was written: a success is always carried on.
LEMMA FollowUpTyped ==
  ASSUME NEW b \in Bills, NEW s \in {"PENDING", "SUCCESS", "FAILED", "EXPIRED"}
  PROVE  /\ FollowUp(b, s) \in {"off", "enabling", "moving", "retrying"}
         /\ FollowUp(b, s) = "enabling" <=> b = Setup /\ s = "SUCCESS"
         /\ FollowUp(b, s) = "moving" <=> b # Setup /\ s = "SUCCESS"
         /\ FollowUp(b, s) = "retrying" => b # Setup
BY DEF FollowUp

\* A worker that writes an answer leaves, or goes on with that order.
LEMMA WriterGoesOn ==
  ASSUME IInv, NEW w \in Workers, WriteStatus(w)
  PROVE  LET b == worker[w].bill
             s == worker[w].answer
             step == FollowUp(b, s)
         IN  /\ b \in Bills
             /\ s \in {"PENDING", "SUCCESS", "FAILED", "EXPIRED"}
             /\ s = "SUCCESS" => debit[b] = "paid"
             /\ s = "EXPIRED" => debit[b] = "expired"
             /\ bill' = [bill EXCEPT ![b] = s]
             /\ allowed' = IF s = "FAILED" /\ (b \notin due \/ debit[b] # "failed")
                             THEN "mishap" ELSE allowed
             /\ UNCHANGED <<due, mandate, next, debit, granted, polls, slips, forsaken>>
             /\ worker' = [worker EXCEPT ![w] = IF step = "off" THEN Off ELSE At(step, b)]
<1>1. worker[w].bill \in Bills /\ worker[w].answer # "none"
  BY DEF IInv, AutoPayTypeOK, Grounds, WriteStatus
<1>2. worker[w].answer \in {"PENDING", "SUCCESS", "FAILED", "EXPIRED"}
  BY <1>1 DEF IInv, AutoPayTypeOK
<1>3. CASE FollowUp(worker[w].bill, worker[w].answer) = "off"
  BY <1>1, <1>2, <1>3 DEF IInv, AutoPayTypeOK, Grounds, WriteStatus, Leave, Off, At
<1>4. CASE FollowUp(worker[w].bill, worker[w].answer) # "off"
  BY <1>1, <1>2, <1>4 DEF IInv, AutoPayTypeOK, Grounds, WriteStatus, Off, At
<1> QED
  BY <1>3, <1>4

\* A worker that asks about an order was idle, and there is that order.
LEMMA AskerWasOff ==
  ASSUME IInv, NEW w \in Workers, NEW b \in Bills, BeginStatus(w, b)
  PROVE  /\ worker[w].pc = "off" /\ b # NoBill /\ bill[b] # "none"
         /\ worker' = [worker EXCEPT ![w] = [pc |-> "asking", bill |-> b, answer |-> "none"]]
         /\ UNCHANGED <<bill, due, mandate, next, debit, granted, slips, allowed, forsaken>>
         /\ polls' \in 0 .. MaxPolls
<1>1. worker[w].pc = "off" /\ b # NoBill /\ bill[b] # "none"
  BY AutoPayAssumption DEF BeginStatus, Starts, OpenBills, Off, At, Bills
<1> QED
  BY <1>1, AutoPayAssumption DEF IInv, AutoPayTypeOK, BeginStatus, At

\* Every step keeps the types; of the provider's orders it needs to know their origin.
LEMMA TypesKept ==
  ASSUME IInv, [AutoPayNext]_avars PROVE AutoPayTypeOK'
<1> USE AutoPayAssumption DEF IInv, AutoPayTypeOK, Bills, MadeCharges
<1>1. ASSUME OpenSetup PROVE AutoPayTypeOK'
  <2>1. debit[Setup] = "absent" /\ mandate = "none"
    BY <1>1 DEF OpenSetup, Origin
  <2>2. MadeCharges' = MadeCharges
    BY <1>1 DEF OpenSetup
  <2> QED
    BY <1>1, <2>1, <2>2 DEF OpenSetup
<1>2. ASSUME RetryComes PROVE AutoPayTypeOK'
  BY <1>2 DEF RetryComes
<1>3. ASSUME PeriodPasses PROVE AutoPayTypeOK'
  BY <1>3 DEF PeriodPasses
<1>4. ASSUME SweepBills PROVE AutoPayTypeOK'
  BY <1>4 DEF SweepBills, Swept, OpenBills
<1>5. ASSUME NEW b \in Bills, Debit(b) PROVE AutoPayTypeOK'
  BY <1>5 DEF Debit
<1>6. ASSUME NEW b \in Bills, ProviderGivesUp(b) PROVE AutoPayTypeOK'
  BY <1>6 DEF ProviderGivesUp
<1>7. ASSUME NEW b \in Bills, BillLapses(b) PROVE AutoPayTypeOK'
  BY <1>7 DEF BillLapses, OpenBills, Origin
<1>8. ASSUME NEW c \in Charges, DebitFails(c) PROVE AutoPayTypeOK'
  BY <1>8 DEF DebitFails
<1>9. ASSUME NEW c \in Charges, ProviderRetries(c) PROVE AutoPayTypeOK'
  BY <1>9 DEF ProviderRetries
<1>10. ASSUME NEW w \in Workers, Scan(w) PROVE AutoPayTypeOK'
  BY <1>10 DEF Scan, Starts, Off, At
<1>11. ASSUME NEW w \in Workers, LookForPending(w) PROVE AutoPayTypeOK'
  BY <1>11 DEF LookForPending, Go, Leave, Off, At, Grounds
<1>12. ASSUME NEW w \in Workers, CreateCharge(w) PROVE AutoPayTypeOK'
  BY <1>12 DEF CreateCharge, FirstOf, Raced, PendingCharges, Grounds
<1>13. ASSUME NEW w \in Workers, PostponeMandate(w) PROVE AutoPayTypeOK'
  BY <1>13 DEF PostponeMandate, PutRetryBack, Go, Grounds
<1>14. ASSUME NEW w \in Workers, NotifyProvider(w) PROVE AutoPayTypeOK'
  BY <1>14 DEF NotifyProvider, Go, Grounds
<1>15. ASSUME NEW w \in Workers, ExecuteCharge(w) PROVE AutoPayTypeOK'
  BY <1>15 DEF ExecuteCharge, Leave, Off, At
<1>16. ASSUME NEW w \in Workers, AskStatus(w) PROVE AutoPayTypeOK'
  BY <1>16 DEF AskStatus, Leave, Off, At
<1>17. ASSUME NEW w \in Workers, WriteStatus(w) PROVE AutoPayTypeOK'
  <2>1. PICK o \in Bills, s \in {"PENDING", "SUCCESS", "FAILED", "EXPIRED"} :
            /\ o = worker[w].bill /\ s = worker[w].answer
            /\ worker' = [worker EXCEPT ![w] = IF FollowUp(o, s) = "off" THEN Off
                                                  ELSE At(FollowUp(o, s), o)]
    BY <1>17, WriterGoesOn
  <2> QED
    BY <1>17, <2>1, WriterGoesOn, FollowUpTyped DEF Off, At, Grounds
<1>18. ASSUME NEW w \in Workers, EnableMandate(w) PROVE AutoPayTypeOK'
  BY <1>18 DEF EnableMandate, Go, Grounds
<1>19. ASSUME NEW w \in Workers, MoveMandateOn(w) PROVE AutoPayTypeOK'
  BY <1>19 DEF MoveMandateOn, NextAfterCharge, Go, Grounds
<1>20. ASSUME NEW w \in Workers, RetryMandate(w) PROVE AutoPayTypeOK'
  BY <1>20 DEF RetryMandate, PutRetryBack, Leave, Off, At, Grounds
<1>21. ASSUME NEW w \in Workers, ActivatePeriod(w) PROVE AutoPayTypeOK'
  BY <1>21 DEF ActivatePeriod, Leave, Off, At
<1>22. ASSUME NEW w \in Workers, Slip(w) PROVE AutoPayTypeOK'
  BY <1>22 DEF Slip, Carrying, Leave, Off, At
<1>23. ASSUME NEW w \in Workers, NEW b \in Bills, BeginStatus(w, b) PROVE AutoPayTypeOK'
  BY <1>23, AskerWasOff
<1>24. CASE UNCHANGED avars
  BY <1>24 DEF avars
<1> QED
  BY <1>1, <1>2, <1>3, <1>4, <1>5, <1>6, <1>7, <1>8, <1>9, <1>10, <1>11, <1>12, <1>13, <1>14, <1>15, <1>16, <1>17, <1>18, <1>19, <1>20, <1>21, <1>22, <1>23, <1>24 DEF AutoPayNext, WorkerStep

\* Every step keeps what each worker relies on: only the worker that made a charge
\* tells the provider of it.
LEMMA GroundsKept ==
  ASSUME IInv, [AutoPayNext]_avars PROVE \A v \in Workers : Grounds(v)'
<1> USE AutoPayAssumption DEF IInv, Grounds, AutoPayTypeOK, Bills
<1>1. ASSUME OpenSetup PROVE \A v \in Workers : Grounds(v)'
  BY <1>1 DEF OpenSetup
<1>2. ASSUME RetryComes PROVE \A v \in Workers : Grounds(v)'
  BY <1>2 DEF RetryComes
<1>3. ASSUME PeriodPasses PROVE \A v \in Workers : Grounds(v)'
  BY <1>3 DEF PeriodPasses
<1>4. ASSUME SweepBills PROVE \A v \in Workers : Grounds(v)'
  BY <1>4 DEF SweepBills, Swept, OpenBills
<1>5. ASSUME NEW b \in Bills, Debit(b) PROVE \A v \in Workers : Grounds(v)'
  BY <1>5 DEF Debit
<1>6. ASSUME NEW b \in Bills, ProviderGivesUp(b) PROVE \A v \in Workers : Grounds(v)'
  BY <1>6 DEF ProviderGivesUp
<1>7. ASSUME NEW b \in Bills, BillLapses(b) PROVE \A v \in Workers : Grounds(v)'
  BY <1>7 DEF BillLapses, OpenBills
<1>8. ASSUME NEW c \in Charges, DebitFails(c) PROVE \A v \in Workers : Grounds(v)'
  BY <1>8 DEF DebitFails
<1>9. ASSUME NEW c \in Charges, ProviderRetries(c) PROVE \A v \in Workers : Grounds(v)'
  BY <1>9 DEF ProviderRetries
<1>10. ASSUME NEW w \in Workers, Scan(w) PROVE \A v \in Workers : Grounds(v)'
  BY <1>10 DEF Scan, Starts, Off, At
<1>11. ASSUME NEW w \in Workers, LookForPending(w) PROVE \A v \in Workers : Grounds(v)'
  BY <1>11 DEF LookForPending, Go, Leave, Off, At
<1>12. ASSUME NEW w \in Workers, CreateCharge(w) PROVE \A v \in Workers : Grounds(v)'
  BY <1>12 DEF CreateCharge, MadeCharges, FirstOf, Raced, PendingCharges
<1>13. ASSUME NEW w \in Workers, PostponeMandate(w) PROVE \A v \in Workers : Grounds(v)'
  BY <1>13 DEF PostponeMandate, PutRetryBack, Go
<1>14. ASSUME NEW w \in Workers, NotifyProvider(w) PROVE \A v \in Workers : Grounds(v)'
  BY <1>14 DEF NotifyProvider, Go, Origin, Opening
<1>15. ASSUME NEW w \in Workers, ExecuteCharge(w) PROVE \A v \in Workers : Grounds(v)'
  <2>1. CASE debit[worker[w].bill] = "absent"
    BY <1>15, <2>1 DEF ExecuteCharge, Leave, Off, At
  <2>2. CASE debit[worker[w].bill] # "absent"
    BY <1>15, <2>2, AnswerTyped DEF ExecuteCharge, Leave, Off, At
  <2> QED
    BY <2>1, <2>2
<1>16. ASSUME NEW w \in Workers, AskStatus(w) PROVE \A v \in Workers : Grounds(v)'
  <2>1. CASE debit[worker[w].bill] = "absent"
    BY <1>16, <2>1 DEF AskStatus, Leave, Off, At
  <2>2. CASE debit[worker[w].bill] # "absent"
    BY <1>16, <2>2, AnswerTyped DEF AskStatus, Leave, Off, At
  <2> QED
    BY <2>1, <2>2
<1>17. ASSUME NEW w \in Workers, WriteStatus(w) PROVE \A v \in Workers : Grounds(v)'
  <2>1. PICK o \in Bills, s \in {"PENDING", "SUCCESS", "FAILED", "EXPIRED"} :
            /\ o = worker[w].bill /\ s = worker[w].answer
            /\ worker' = [worker EXCEPT ![w] = IF FollowUp(o, s) = "off" THEN Off
                                                  ELSE At(FollowUp(o, s), o)]
    BY <1>17, WriterGoesOn
  <2> QED
    BY <1>17, <2>1, WriterGoesOn, FollowUpTyped DEF Off, At
<1>18. ASSUME NEW w \in Workers, EnableMandate(w) PROVE \A v \in Workers : Grounds(v)'
  BY <1>18 DEF EnableMandate, Go
<1>19. ASSUME NEW w \in Workers, MoveMandateOn(w) PROVE \A v \in Workers : Grounds(v)'
  BY <1>19 DEF MoveMandateOn, NextAfterCharge, Go
<1>20. ASSUME NEW w \in Workers, RetryMandate(w) PROVE \A v \in Workers : Grounds(v)'
  BY <1>20 DEF RetryMandate, PutRetryBack, Leave, Off, At
<1>21. ASSUME NEW w \in Workers, ActivatePeriod(w) PROVE \A v \in Workers : Grounds(v)'
  BY <1>21 DEF ActivatePeriod, Leave, Off, At
<1>22. ASSUME NEW w \in Workers, Slip(w) PROVE \A v \in Workers : Grounds(v)'
  BY <1>22 DEF Slip, Carrying, Leave, Off, At
<1>23. ASSUME NEW w \in Workers, NEW b \in Bills, BeginStatus(w, b) PROVE \A v \in Workers : Grounds(v)'
  BY <1>23, AskerWasOff
<1>24. CASE UNCHANGED avars
  BY <1>24 DEF avars
<1> QED
  BY <1>1, <1>2, <1>3, <1>4, <1>5, <1>6, <1>7, <1>8, <1>9, <1>10, <1>11, <1>12, <1>13, <1>14, <1>15, <1>16, <1>17, <1>18, <1>19, <1>20, <1>21, <1>22, <1>23, <1>24 DEF AutoPayNext, WorkerStep

\* Every step keeps the origin of charges: a row is made by one tick, which is then the
\* only one to open it at the provider.
LEMMA OriginKept ==
  ASSUME IInv, [AutoPayNext]_avars PROVE Origin'
<1> USE AutoPayAssumption DEF IInv, Origin, Opening, AutoPayTypeOK, Bills, Grounds
<1>1. ASSUME OpenSetup PROVE Origin'
  BY <1>1 DEF OpenSetup
<1>2. ASSUME RetryComes PROVE Origin'
  BY <1>2 DEF RetryComes
<1>3. ASSUME PeriodPasses PROVE Origin'
  BY <1>3 DEF PeriodPasses
<1>4. ASSUME SweepBills PROVE Origin'
  BY <1>4 DEF SweepBills, Swept, OpenBills
<1>5. ASSUME NEW b \in Bills, Debit(b) PROVE Origin'
  BY <1>5 DEF Debit
<1>6. ASSUME NEW b \in Bills, ProviderGivesUp(b) PROVE Origin'
  BY <1>6 DEF ProviderGivesUp
<1>7. ASSUME NEW b \in Bills, BillLapses(b) PROVE Origin'
  BY <1>7 DEF BillLapses, OpenBills
<1>8. ASSUME NEW c \in Charges, DebitFails(c) PROVE Origin'
  BY <1>8 DEF DebitFails
<1>9. ASSUME NEW c \in Charges, ProviderRetries(c) PROVE Origin'
  BY <1>9 DEF ProviderRetries
<1>10. ASSUME NEW w \in Workers, Scan(w) PROVE Origin'
  BY <1>10 DEF Scan, Starts, Off, At
<1>11. ASSUME NEW w \in Workers, LookForPending(w) PROVE Origin'
  BY <1>11 DEF LookForPending, Go, Leave, Off, At
<1>12. ASSUME NEW w \in Workers, CreateCharge(w) PROVE Origin'
  BY <1>12 DEF CreateCharge, MadeCharges, FirstOf, Raced, PendingCharges
<1>13. ASSUME NEW w \in Workers, PostponeMandate(w) PROVE Origin'
  BY <1>13 DEF PostponeMandate, PutRetryBack, Go
<1>14. ASSUME NEW w \in Workers, NotifyProvider(w) PROVE Origin'
  BY <1>14 DEF NotifyProvider, Go
<1>15. ASSUME NEW w \in Workers, ExecuteCharge(w) PROVE Origin'
  BY <1>15 DEF ExecuteCharge, Leave, Off, At
<1>16. ASSUME NEW w \in Workers, AskStatus(w) PROVE Origin'
  BY <1>16 DEF AskStatus, Leave, Off, At
<1>17. ASSUME NEW w \in Workers, WriteStatus(w) PROVE Origin'
  <2>1. PICK o \in Bills, s \in {"PENDING", "SUCCESS", "FAILED", "EXPIRED"} :
            /\ o = worker[w].bill /\ s = worker[w].answer
            /\ worker' = [worker EXCEPT ![w] = IF FollowUp(o, s) = "off" THEN Off
                                                  ELSE At(FollowUp(o, s), o)]
    BY <1>17, WriterGoesOn
  <2> QED
    BY <1>17, <2>1, WriterGoesOn, FollowUpTyped DEF Off, At
<1>18. ASSUME NEW w \in Workers, EnableMandate(w) PROVE Origin'
  BY <1>18 DEF EnableMandate, Go
<1>19. ASSUME NEW w \in Workers, MoveMandateOn(w) PROVE Origin'
  BY <1>19 DEF MoveMandateOn, NextAfterCharge, Go
<1>20. ASSUME NEW w \in Workers, RetryMandate(w) PROVE Origin'
  BY <1>20 DEF RetryMandate, PutRetryBack, Leave, Off, At
<1>21. ASSUME NEW w \in Workers, ActivatePeriod(w) PROVE Origin'
  BY <1>21 DEF ActivatePeriod, Leave, Off, At
<1>22. ASSUME NEW w \in Workers, Slip(w) PROVE Origin'
  BY <1>22 DEF Slip, Carrying, Leave, Off, At
<1>23. ASSUME NEW w \in Workers, NEW b \in Bills, BeginStatus(w, b) PROVE Origin'
  BY <1>23, AskerWasOff
<1>24. CASE UNCHANGED avars
  BY <1>24 DEF avars
<1> QED
  BY <1>1, <1>2, <1>3, <1>4, <1>5, <1>6, <1>7, <1>8, <1>9, <1>10, <1>11, <1>12, <1>13, <1>14, <1>15, <1>16, <1>17, <1>18, <1>19, <1>20, <1>21, <1>22, <1>23, <1>24 DEF AutoPayNext, WorkerStep

\* Every step keeps the account of SUCCESS orders: an answer SUCCESS is followed up.
LEMMA DebitsKept ==
  ASSUME IInv, [AutoPayNext]_avars PROVE EveryDebitCounts'
<1> USE AutoPayAssumption DEF IInv, EveryDebitCounts, Carrying, AutoPayTypeOK
<1>1. ASSUME OpenSetup PROVE EveryDebitCounts'
  BY <1>1 DEF OpenSetup
<1>2. ASSUME RetryComes PROVE EveryDebitCounts'
  BY <1>2 DEF RetryComes
<1>3. ASSUME PeriodPasses PROVE EveryDebitCounts'
  BY <1>3 DEF PeriodPasses
<1>4. ASSUME SweepBills PROVE EveryDebitCounts'
  BY <1>4 DEF SweepBills, Swept, OpenBills
<1>5. ASSUME NEW b \in Bills, Debit(b) PROVE EveryDebitCounts'
  BY <1>5 DEF Debit
<1>6. ASSUME NEW b \in Bills, ProviderGivesUp(b) PROVE EveryDebitCounts'
  BY <1>6 DEF ProviderGivesUp
<1>7. ASSUME NEW b \in Bills, BillLapses(b) PROVE EveryDebitCounts'
  BY <1>7 DEF BillLapses, OpenBills
<1>8. ASSUME NEW c \in Charges, DebitFails(c) PROVE EveryDebitCounts'
  BY <1>8 DEF DebitFails
<1>9. ASSUME NEW c \in Charges, ProviderRetries(c) PROVE EveryDebitCounts'
  BY <1>9 DEF ProviderRetries
<1>10. ASSUME NEW w \in Workers, Scan(w) PROVE EveryDebitCounts'
  BY <1>10 DEF Scan, Starts, Off, At
<1>11. ASSUME NEW w \in Workers, LookForPending(w) PROVE EveryDebitCounts'
  BY <1>11 DEF LookForPending, Go, Leave, Off, At
<1>12. ASSUME NEW w \in Workers, CreateCharge(w) PROVE EveryDebitCounts'
  BY <1>12 DEF CreateCharge, MadeCharges, FirstOf, Raced, PendingCharges
<1>13. ASSUME NEW w \in Workers, PostponeMandate(w) PROVE EveryDebitCounts'
  BY <1>13 DEF PostponeMandate, PutRetryBack, Go
<1>14. ASSUME NEW w \in Workers, NotifyProvider(w) PROVE EveryDebitCounts'
  BY <1>14 DEF NotifyProvider, Go
<1>15. ASSUME NEW w \in Workers, ExecuteCharge(w) PROVE EveryDebitCounts'
  BY <1>15 DEF ExecuteCharge, Leave, Off, At
<1>16. ASSUME NEW w \in Workers, AskStatus(w) PROVE EveryDebitCounts'
  BY <1>16 DEF AskStatus, Leave, Off, At
<1>17. ASSUME NEW w \in Workers, WriteStatus(w) PROVE EveryDebitCounts'
  <2>1. PICK o \in Bills, s \in {"PENDING", "SUCCESS", "FAILED", "EXPIRED"} :
            /\ o = worker[w].bill /\ s = worker[w].answer
            /\ worker' = [worker EXCEPT ![w] = IF FollowUp(o, s) = "off" THEN Off
                                                  ELSE At(FollowUp(o, s), o)]
    BY <1>17, WriterGoesOn
  <2> QED
    BY <1>17, <2>1, WriterGoesOn, FollowUpTyped DEF Off, At
<1>18. ASSUME NEW w \in Workers, EnableMandate(w) PROVE EveryDebitCounts'
  BY <1>18 DEF EnableMandate, Go
<1>19. ASSUME NEW w \in Workers, MoveMandateOn(w) PROVE EveryDebitCounts'
  BY <1>19 DEF MoveMandateOn, NextAfterCharge, Go
<1>20. ASSUME NEW w \in Workers, RetryMandate(w) PROVE EveryDebitCounts'
  BY <1>20 DEF RetryMandate, PutRetryBack, Leave, Off, At
<1>21. ASSUME NEW w \in Workers, ActivatePeriod(w) PROVE EveryDebitCounts'
  BY <1>21 DEF ActivatePeriod, Leave, Off, At
<1>22. ASSUME NEW w \in Workers, Slip(w) PROVE EveryDebitCounts'
  BY <1>22 DEF Slip, Leave, Off, At
<1>23. ASSUME NEW w \in Workers, NEW b \in Bills, BeginStatus(w, b) PROVE EveryDebitCounts'
  BY <1>23, AskerWasOff
<1>24. CASE UNCHANGED avars
  BY <1>24 DEF avars
<1> QED
  BY <1>1, <1>2, <1>3, <1>4, <1>5, <1>6, <1>7, <1>8, <1>9, <1>10, <1>11, <1>12, <1>13, <1>14, <1>15, <1>16, <1>17, <1>18, <1>19, <1>20, <1>21, <1>22, <1>23, <1>24 DEF AutoPayNext, WorkerStep

\* Every step but a mishap leaves at most one charge that can be debited, and leaves it
\* among the pending ones.
LEMMA OneAliveKept ==
  ASSUME IInv, [AutoPayNext]_avars PROVE OneAlive'
<1> USE AutoPayAssumption DEF IInv, OneAlive, Alive, Opening, OpenBills, AutoPayTypeOK, Origin, Grounds, Bills
<1>1. ASSUME OpenSetup PROVE OneAlive'
  BY <1>1 DEF OpenSetup
<1>2. ASSUME RetryComes PROVE OneAlive'
  BY <1>2 DEF RetryComes
<1>3. ASSUME PeriodPasses PROVE OneAlive'
  BY <1>3 DEF PeriodPasses
<1>4. ASSUME SweepBills PROVE OneAlive'
  BY <1>4 DEF SweepBills, Swept
<1>5. ASSUME NEW b \in Bills, Debit(b) PROVE OneAlive'
  BY <1>5 DEF Debit
<1>6. ASSUME NEW b \in Bills, ProviderGivesUp(b) PROVE OneAlive'
  BY <1>6 DEF ProviderGivesUp
<1>7. ASSUME NEW b \in Bills, BillLapses(b) PROVE OneAlive'
  BY <1>7 DEF BillLapses
<1>8. ASSUME NEW c \in Charges, DebitFails(c) PROVE OneAlive'
  BY <1>8 DEF DebitFails
<1>9. ASSUME NEW c \in Charges, ProviderRetries(c) PROVE OneAlive'
  BY <1>9 DEF ProviderRetries
<1>10. ASSUME NEW w \in Workers, Scan(w) PROVE OneAlive'
  BY <1>10 DEF Scan, Starts, Off, At
<1>11. ASSUME NEW w \in Workers, LookForPending(w) PROVE OneAlive'
  BY <1>11 DEF LookForPending, Go, Leave, Off, At
<1>12. ASSUME NEW w \in Workers, CreateCharge(w) PROVE OneAlive'
  BY <1>12 DEF CreateCharge, MadeCharges, FirstOf, Raced, PendingCharges
<1>13. ASSUME NEW w \in Workers, PostponeMandate(w) PROVE OneAlive'
  BY <1>13 DEF PostponeMandate, PutRetryBack, Go
<1>14. ASSUME NEW w \in Workers, NotifyProvider(w) PROVE OneAlive'
  BY <1>14 DEF NotifyProvider, Go
<1>15. ASSUME NEW w \in Workers, ExecuteCharge(w) PROVE OneAlive'
  BY <1>15 DEF ExecuteCharge, Leave, Off, At
<1>16. ASSUME NEW w \in Workers, AskStatus(w) PROVE OneAlive'
  BY <1>16 DEF AskStatus, Leave, Off, At
<1>17. ASSUME NEW w \in Workers, WriteStatus(w) PROVE OneAlive'
  <2>1. PICK o \in Bills, s \in {"PENDING", "SUCCESS", "FAILED", "EXPIRED"} :
            /\ o = worker[w].bill /\ s = worker[w].answer
            /\ worker' = [worker EXCEPT ![w] = IF FollowUp(o, s) = "off" THEN Off
                                                  ELSE At(FollowUp(o, s), o)]
    BY <1>17, WriterGoesOn
  <2> QED
    BY <1>17, <2>1, WriterGoesOn, FollowUpTyped DEF Off, At
<1>18. ASSUME NEW w \in Workers, EnableMandate(w) PROVE OneAlive'
  BY <1>18 DEF EnableMandate, Go
<1>19. ASSUME NEW w \in Workers, MoveMandateOn(w) PROVE OneAlive'
  BY <1>19 DEF MoveMandateOn, NextAfterCharge, Go
<1>20. ASSUME NEW w \in Workers, RetryMandate(w) PROVE OneAlive'
  BY <1>20 DEF RetryMandate, PutRetryBack, Leave, Off, At
<1>21. ASSUME NEW w \in Workers, ActivatePeriod(w) PROVE OneAlive'
  BY <1>21 DEF ActivatePeriod, Leave, Off, At
<1>22. ASSUME NEW w \in Workers, Slip(w) PROVE OneAlive'
  BY <1>22 DEF Slip, Carrying, Leave, Off, At
<1>23. ASSUME NEW w \in Workers, NEW b \in Bills, BeginStatus(w, b) PROVE OneAlive'
  BY <1>23, AskerWasOff
<1>24. CASE UNCHANGED avars
  BY <1>24 DEF avars
<1> QED
  BY <1>1, <1>2, <1>3, <1>4, <1>5, <1>6, <1>7, <1>8, <1>9, <1>10, <1>11, <1>12, <1>13, <1>14, <1>15, <1>16, <1>17, <1>18, <1>19, <1>20, <1>21, <1>22, <1>23, <1>24 DEF AutoPayNext, WorkerStep

\* Every step but a mishap keeps a debited period closed: the charge that was paid stays
\* pending until its SUCCESS moves the mandate on, and no tick makes another.
LEMMA NoneLeftKept ==
  ASSUME IInv, [AutoPayNext]_avars PROVE NoneLeft'
<1> USE AutoPayAssumption DEF IInv, NoneLeft, Covered, Alive, Opening, OpenBills, AutoPayTypeOK, Origin, Grounds, Bills, OneAlive
<1>1. ASSUME OpenSetup PROVE NoneLeft'
  BY <1>1 DEF OpenSetup
<1>2. ASSUME RetryComes PROVE NoneLeft'
  BY <1>2 DEF RetryComes
<1>3. ASSUME PeriodPasses PROVE NoneLeft'
  BY <1>3 DEF PeriodPasses
<1>4. ASSUME SweepBills PROVE NoneLeft'
  BY <1>4 DEF SweepBills, Swept
<1>5. ASSUME NEW b \in Bills, Debit(b) PROVE NoneLeft'
  <2>1. CASE b = Setup
    <3>1. mandate = "none" /\ MadeCharges = {}
      BY <1>5, <2>1 DEF Debit
    <3>2. \A c \in Charges : bill[c] = "none"
      BY <3>1 DEF MadeCharges
    <3> QED
      BY <1>5, <2>1, <3>1, <3>2 DEF Debit
  <2>2. CASE b \in Charges
    <3>1. Alive(b)
      BY <1>5, <2>2 DEF Debit
    <3>2. CASE allowed # "period"
      BY <1>5, <2>2, <3>1, <3>2 DEF Debit
    <3>3. CASE allowed = "period"
      <4>1. b \in OpenBills /\ \A c \in Charges : Alive(c) => c = b
        BY <2>2, <3>1, <3>3
      <4>2. \A c \in Charges : ~Alive(c)'
        BY <1>5, <2>2, <3>3, <4>1 DEF Debit
      <4> QED
        BY <1>5, <2>2, <4>1, <4>2 DEF Debit
    <3> QED
      BY <3>2, <3>3
  <2> QED
    BY <2>1, <2>2
<1>6. ASSUME NEW b \in Bills, ProviderGivesUp(b) PROVE NoneLeft'
  BY <1>6 DEF ProviderGivesUp
<1>7. ASSUME NEW b \in Bills, BillLapses(b) PROVE NoneLeft'
  BY <1>7 DEF BillLapses
<1>8. ASSUME NEW c \in Charges, DebitFails(c) PROVE NoneLeft'
  BY <1>8 DEF DebitFails
<1>9. ASSUME NEW c \in Charges, ProviderRetries(c) PROVE NoneLeft'
  BY <1>9 DEF ProviderRetries
<1>10. ASSUME NEW w \in Workers, Scan(w) PROVE NoneLeft'
  BY <1>10 DEF Scan, Starts, Off, At
<1>11. ASSUME NEW w \in Workers, LookForPending(w) PROVE NoneLeft'
  BY <1>11 DEF LookForPending, Go, Leave, Off, At
<1>12. ASSUME NEW w \in Workers, CreateCharge(w) PROVE NoneLeft'
  BY <1>12 DEF CreateCharge, MadeCharges, FirstOf, Raced, PendingCharges
<1>13. ASSUME NEW w \in Workers, PostponeMandate(w) PROVE NoneLeft'
  BY <1>13 DEF PostponeMandate, PutRetryBack, Go
<1>14. ASSUME NEW w \in Workers, NotifyProvider(w) PROVE NoneLeft'
  BY <1>14 DEF NotifyProvider, Go
<1>15. ASSUME NEW w \in Workers, ExecuteCharge(w) PROVE NoneLeft'
  <2>1. PICK r \in [pc : {"off", "writing"}, bill : Bills \cup {NoBill},
                     answer : {"none", "PENDING", "SUCCESS", "FAILED", "EXPIRED"}] :
          worker' = [worker EXCEPT ![w] = r]
    BY <1>15, AnswerTyped DEF ExecuteCharge, Leave, Off, At
  <2> QED
    BY <1>15, <2>1 DEF ExecuteCharge
<1>16. ASSUME NEW w \in Workers, AskStatus(w) PROVE NoneLeft'
  BY <1>16 DEF AskStatus, Leave, Off, At
<1>17. ASSUME NEW w \in Workers, WriteStatus(w) PROVE NoneLeft'
  <2> SUFFICES ASSUME allowed' = "nothing" PROVE NoneLeft'
    OBVIOUS
  <2> DEFINE o == worker[w].bill
             s == worker[w].answer
  <2>1. allowed = "nothing" /\ ~(s = "FAILED" /\ debit[o] # "failed")
    BY <1>17, WriterGoesOn
  <2>2. \A c \in Charges : ~Alive(c)'
    BY <1>17, <2>1, WriterGoesOn, FollowUpTyped DEF Off, At
  <2>3. ASSUME NEW c \in Charges, c \in OpenBills, debit[c] = "paid" PROVE Covered'
    <3>1. CASE c # o
      BY <1>17, <2>3, <3>1, WriterGoesOn
    <3>2. CASE c = o /\ s = "SUCCESS"
      BY <1>17, <2>3, <3>2, WriterGoesOn, FollowUpTyped DEF At
    <3>3. CASE c = o /\ s = "PENDING"
      BY <1>17, <2>3, <3>3, WriterGoesOn
    <3> QED
      BY <1>17, <2>1, <2>3, <3>1, <3>2, <3>3, WriterGoesOn
  <2>4. ASSUME NEW v \in Workers, worker[v].pc = "moving" PROVE Covered'
    <3>1. v # w
      BY <1>17, <2>4 DEF WriteStatus
    <3> QED
      BY <2>4, <3>1, <1>17, WriterGoesOn
  <2>5. mandate' = mandate /\ next' = next
    BY <1>17 DEF WriteStatus
  <2> QED
    BY <2>1, <2>2, <2>3, <2>4, <2>5
<1>18. ASSUME NEW w \in Workers, EnableMandate(w) PROVE NoneLeft'
  BY <1>18 DEF EnableMandate, Go
<1>19. ASSUME NEW w \in Workers, MoveMandateOn(w) PROVE NoneLeft'
  BY <1>19 DEF MoveMandateOn, NextAfterCharge, Go
<1>20. ASSUME NEW w \in Workers, RetryMandate(w) PROVE NoneLeft'
  BY <1>20 DEF RetryMandate, PutRetryBack, Leave, Off, At, MadeCharges
<1>21. ASSUME NEW w \in Workers, ActivatePeriod(w) PROVE NoneLeft'
  BY <1>21 DEF ActivatePeriod, Leave, Off, At
<1>22. ASSUME NEW w \in Workers, Slip(w) PROVE NoneLeft'
  BY <1>22 DEF Slip, Carrying, Leave, Off, At
<1>23. ASSUME NEW w \in Workers, NEW b \in Bills, BeginStatus(w, b) PROVE NoneLeft'
  BY <1>23, AskerWasOff
<1>24. CASE UNCHANGED avars
  BY <1>24 DEF avars
<1> QED
  BY <1>1, <1>2, <1>3, <1>4, <1>5, <1>6, <1>7, <1>8, <1>9, <1>10, <1>11, <1>12, <1>13, <1>14, <1>15, <1>16, <1>17, <1>18, <1>19, <1>20, <1>21, <1>22, <1>23, <1>24 DEF AutoPayNext, WorkerStep

-----------------------------------------------------------------------------
\* The invariant holds when nothing has been ordered yet.
LEMMA InitIInv == AutoPayInit => IInv
BY AutoPayAssumption
   DEF AutoPayInit, IInv, AutoPayTypeOK, Grounds, Origin, Opening, EveryDebitCounts,
       OneAlive, Alive, NoneLeft, Off, At, Bills, MadeCharges, OpenBills

THEOREM Invariance == AutoPaySpec => []IInv
<1>1. IInv /\ [AutoPayNext]_avars => IInv'
  BY TypesKept, GroundsKept, OriginKept, DebitsKept, OneAliveKept, NoneLeftKept DEF IInv
<1> QED
  BY InitIInv, <1>1, PTL DEF AutoPaySpec

\* Rows and workers always have the shape of the schema and the code, and a mandate
\* comes only of a paid setup.
THEOREM TypeInvariance == AutoPaySpec => []AutoPayTypeOK
<1>1. IInv => AutoPayTypeOK
  BY DEF IInv
<1> QED
  BY Invariance, <1>1, PTL

\* No debit is lost: the SUCCESS order has brought its subscription, is being handled,
\* or was given up.
THEOREM DebitsCount == AutoPaySpec => []EveryDebitCounts
<1>1. IInv => EveryDebitCounts
  BY DEF IInv
<1> QED
  BY Invariance, <1>1, PTL

\* The mandate is debited once a period unless one of the named mishaps has happened:
\* the debited charge was alive, and after a debit none is.
THEOREM ChargedOnce == AutoPaySpec => ChargedOncePerPeriod
<1>1. ASSUME IInv, [AutoPayNext]_avars,
             NEW c \in Charges, debit[c] # "paid", debit'[c] = "paid"
      PROVE  allowed # "nothing"
  <2> USE AutoPayAssumption DEF IInv, AutoPayTypeOK, Bills
  <2>1. ASSUME NEW b \in Bills, Debit(b) PROVE allowed # "nothing"
    <3>1. b = c
      BY <1>1, <2>1 DEF Debit
    <3>2. Alive(c)
      BY <2>1, <3>1 DEF Debit, Alive
    <3> QED
      BY <1>1, <3>2 DEF NoneLeft
  <2>2. CASE OpenSetup
    BY <1>1, <2>2 DEF OpenSetup
  <2>3. ASSUME NEW b \in Bills, ProviderGivesUp(b) PROVE FALSE
    BY <1>1, <2>3 DEF ProviderGivesUp
  <2>4. ASSUME NEW d \in Charges, DebitFails(d) \/ ProviderRetries(d) PROVE FALSE
    BY <1>1, <2>4 DEF DebitFails, ProviderRetries
  <2>5. ASSUME NEW w \in Workers, NotifyProvider(w) PROVE FALSE
    BY <1>1, <2>5 DEF NotifyProvider, Grounds
  <2>6. CASE UNCHANGED debit
    BY <1>1, <2>6
  <2>7. ASSUME NEW w \in Workers, WorkerStep(w) \/ Scan(w) \/ Slip(w), ~NotifyProvider(w)
        PROVE  UNCHANGED debit
    BY <2>7 DEF WorkerStep, Scan, Slip, LookForPending, CreateCharge, PostponeMandate,
       ExecuteCharge, AskStatus, WriteStatus, EnableMandate, MoveMandateOn, RetryMandate,
       ActivatePeriod
  <2>8. ASSUME NEW b \in Bills, BillLapses(b) \/ \E w \in Workers : BeginStatus(w, b)
        PROVE  UNCHANGED debit
    BY <2>8 DEF BillLapses, BeginStatus
  <2>9. ASSUME RetryComes \/ PeriodPasses \/ SweepBills \/ UNCHANGED avars
        PROVE  UNCHANGED debit
    BY <2>9 DEF RetryComes, PeriodPasses, SweepBills, avars
  <2> QED
    BY <1>1, <2>1, <2>2, <2>3, <2>4, <2>5, <2>6, <2>7, <2>8, <2>9 DEF AutoPayNext
<1>2. IInv /\ [AutoPayNext]_avars =>
        [\A c \in Charges :
           debit[c] # "paid" /\ debit'[c] = "paid" => allowed # "nothing"]_avars
  BY <1>1
<1> QED
  BY Invariance, <1>2, PTL DEF AutoPaySpec, ChargedOncePerPeriod
=============================================================================
