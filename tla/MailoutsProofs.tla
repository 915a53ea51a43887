---------------------------- MODULE MailoutsProofs ----------------------------
(***************************************************************************)
(* Proofs about Broadcasts and Deliveries, for any number of broadcasts,   *)
(* readers, messages, ticks, requests and workers.                         *)
(*                                                                         *)
(* A message that is at no risk has one carrier at a time, so a mail that  *)
(* left is noted before anybody reads the row again.  A broadcast that is  *)
(* not excused has one tick at a time, and its pages follow one another:   *)
(* behind the cursor everybody has been reached, before it nobody.         *)
(***************************************************************************)
EXTENDS MailoutsMC, FiniteSetTheorems, WellFoundedInduction, TLAPS

-----------------------------------------------------------------------------
(* Deliveries *)

Holds(c, m) == carrier[c].pc # "idle" /\ carrier[c].m = m

\* A thread that rests has nothing in hand.
Idle ==
  \A c \in Carriers : carrier[c].pc = "idle" =>
    carrier[c].m = NoMessage /\ carrier[c].try = 0 /\ ~carrier[c].queued

\* Nobody has a message whose row does not exist.
Unborn ==
  \A m \in Messages : mstatus[m] = "none" =>
    /\ job[m] = "absent" /\ failures[m] = 0 /\ mails[m] = 0
    /\ \A c \in Carriers : ~Holds(c, m)

\* The request that is about to enqueue a message has it for itself.
Adding ==
  \A c \in Carriers, m \in Messages : Holds(c, m) /\ carrier[c].pc = "adding" =>
    /\ mstatus[m] = "PENDING" /\ job[m] = "absent" /\ failures[m] = 0 /\ mails[m] = 0
    /\ ~carrier[c].queued
    /\ \A d \in Carriers : Holds(d, m) => d = c

\* A message at no risk has one carrier, the queue's worker or the request.
OneCarrier ==
  \A m \in Messages \ risked :
    /\ \A c, d \in Carriers : Holds(c, m) /\ Holds(d, m) => c = d
    /\ \A c \in Carriers : Holds(c, m) =>
         job[m] = IF carrier[c].queued THEN "active" ELSE "absent"

\* Its mail leaves once, and is noted, or about to be.
Noted ==
  \A m \in Messages \ risked :
    /\ mails[m] <= 1
    /\ mails[m] = 1 =>
         mstatus[m] = "SENT" \/ \E c \in Carriers : Holds(c, m) /\ carrier[c].pc = "noting"
    /\ mstatus[m] = "SENT" =>
         \A c \in Carriers : Holds(c, m) =>
           carrier[c].pc \in {"reading", "returning", "throwing"}

DeliveriesInv == DeliveriesTypeOK /\ Idle /\ Unborn /\ Adding /\ OneCarrier /\ Noted

Threads ==
  [Carriers -> [pc : Carrying \cup {"idle", "adding", "returning", "throwing"},
                m : Messages \cup {NoMessage}, try : 0 .. MaxAttempts, queued : BOOLEAN]]

\* A thread that goes on or rests keeps its shape.
LEMMA StepTyped ==
  ASSUME carrier \in Threads, NEW c \in Carriers,
         NEW step \in Carrying \cup {"returning", "throwing"}
  PROVE  /\ GoOn(c, step) => carrier' \in Threads
         /\ Rest(c) => carrier' \in Threads
         /\ Ended(c, step) => carrier' \in Threads
<1>1. GoOn(c, step) => carrier' \in Threads
  BY DEF GoOn, Threads
<1>2. Rest(c) => carrier' \in Threads
  BY DeliveriesAssumption DEF Rest, Resting, Threads
<1> QED
  BY <1>1, <1>2 DEF Ended

\* A thread that does not rest is at some step.
LEMMA AtWork ==
  ASSUME DeliveriesTypeOK, Idle, NEW c \in Carriers, carrier[c] # Resting
  PROVE  carrier[c].pc # "idle"
<1> SUFFICES ASSUME carrier[c].pc = "idle" PROVE carrier[c] = Resting
  OBVIOUS
<1>1. carrier[c] = [pc |-> carrier[c].pc, m |-> carrier[c].m, try |-> carrier[c].try,
                    queued |-> carrier[c].queued]
  BY DEF DeliveriesTypeOK
<1> QED
  BY <1>1 DEF Idle, Resting, DeliveriesTypeOK

\* Every step that puts a thread to rest takes all from its hands.
LEMMA IdleKept ==
  ASSUME DeliveriesInv, [DeliveriesNext]_dvars PROVE Idle'
<1> USE DeliveriesAssumption DEF DeliveriesInv, DeliveriesTypeOK, Carrying, Idle
<1>1. ASSUME NEW c \in Carriers, NEW m \in Messages, SendTemplateToUser(c, m) PROVE Idle'
  BY <1>1 DEF SendTemplateToUser, CreateMessage, Resting
<1>2. ASSUME NEW c \in Carriers, NEW m \in Messages, ResendMessage(c, m) PROVE Idle'
  BY <1>2 DEF ResendMessage, CreateMessage, Resting
<1>3. ASSUME NEW c \in Carriers, EnqueueMessage(c) PROVE Idle'
  BY <1>3 DEF EnqueueMessage, Rest, Resting
<1>4. ASSUME NEW c \in Carriers, EnqueueFails(c) PROVE Idle'
  BY <1>4 DEF EnqueueFails, Trouble
<1>5. ASSUME NEW c \in Carriers, NEW m \in Messages, TakeJob(c, m) PROVE Idle'
  BY <1>5 DEF TakeJob, AttemptNumber, Resting
<1>6. ASSUME NEW c \in Carriers, ReadMessage(c) PROVE Idle'
  BY <1>6 DEF ReadMessage, Delivered, Ended, GoOn, Rest, Resting
<1>7. ASSUME NEW c \in Carriers, MarkAttempt(c) PROVE Idle'
  BY <1>7 DEF MarkAttempt, GoOn
<1>8. ASSUME NEW c \in Carriers, SendMail(c) PROVE Idle'
  BY <1>8 DEF SendMail, Mailed, GoOn
<1>9. ASSUME NEW c \in Carriers, NoteSent(c) PROVE Idle'
  BY <1>9 DEF NoteSent, Ended, GoOn, Rest, Resting
<1>10. ASSUME NEW c \in Carriers, CatchError(c) PROVE Idle'
  BY <1>10 DEF CatchError, ShouldRetry, Ended, GoOn, Rest, Resting
<1>11. ASSUME NEW c \in Carriers, ReportToQueue(c) PROVE Idle'
  BY <1>11 DEF ReportToQueue, Abandon, Rest, Resting
<1>12. ASSUME NEW c \in Carriers, MailFails(c) PROVE Idle'
  BY <1>12 DEF MailFails, Trouble, Mailed, GoOn
<1>13. ASSUME NEW c \in Carriers, WriteFails(c) PROVE Idle'
  BY <1>13 DEF WriteFails, Trouble, GoOn, Rest, Abandon, Resting
<1>14. ASSUME NEW c \in Carriers, DieCarrying(c) PROVE Idle'
  BY <1>14 DEF DieCarrying, Trouble, Abandon, Rest, Resting
<1>15. ASSUME NEW m \in Messages, StalledJob(m) PROVE Idle'
  BY <1>15 DEF StalledJob, Abandon
<1>16. CASE UNCHANGED dvars
  BY <1>16 DEF dvars
<1> QED
  BY <1>1, <1>2, <1>3, <1>4, <1>5, <1>6, <1>7, <1>8,
     <1>9, <1>10, <1>11, <1>12, <1>13, <1>14, <1>15, <1>16
  DEF DeliveriesNext, CarrierStep, CarrierTrouble

\* Every step keeps the shape of rows, jobs and threads.
LEMMA MessagesTyped ==
  ASSUME DeliveriesInv, [DeliveriesNext]_dvars PROVE DeliveriesTypeOK'
<1> USE DeliveriesAssumption DEF DeliveriesInv, DeliveriesTypeOK, Carrying, Idle, Adding,
     Unborn, Holds
<1>1. ASSUME NEW c \in Carriers, NEW m \in Messages, SendTemplateToUser(c, m) PROVE DeliveriesTypeOK'
  BY <1>1 DEF SendTemplateToUser, CreateMessage, Resting
<1>2. ASSUME NEW c \in Carriers, NEW m \in Messages, ResendMessage(c, m) PROVE DeliveriesTypeOK'
  BY <1>2 DEF ResendMessage, CreateMessage, Resting
<1>3. ASSUME NEW c \in Carriers, EnqueueMessage(c) PROVE DeliveriesTypeOK'
  BY <1>3 DEF EnqueueMessage, Rest, Resting
<1>4. ASSUME NEW c \in Carriers, EnqueueFails(c) PROVE DeliveriesTypeOK'
  BY <1>4 DEF EnqueueFails, Trouble
<1>5. ASSUME NEW c \in Carriers, NEW m \in Messages, TakeJob(c, m) PROVE DeliveriesTypeOK'
  BY <1>5 DEF TakeJob, AttemptNumber, Resting
<1>6. ASSUME NEW c \in Carriers, ReadMessage(c) PROVE DeliveriesTypeOK'
  <2>1. carrier' \in Threads
    BY <1>6, StepTyped DEF ReadMessage, Threads
  <2> QED
    BY <1>6, <2>1 DEF ReadMessage, Delivered, Ended, GoOn, Rest, Resting, Threads
<1>7. ASSUME NEW c \in Carriers, MarkAttempt(c) PROVE DeliveriesTypeOK'
  BY <1>7 DEF MarkAttempt, GoOn
<1>8. ASSUME NEW c \in Carriers, SendMail(c) PROVE DeliveriesTypeOK'
  BY <1>8 DEF SendMail, Mailed, GoOn
<1>9. ASSUME NEW c \in Carriers, NoteSent(c) PROVE DeliveriesTypeOK'
  <2>1. CASE carrier[c].queued
    <3>1. GoOn(c, "returning")
      BY <1>9, <2>1 DEF NoteSent, Ended
    <3> QED
      BY <1>9, <2>1, <3>1 DEF NoteSent, GoOn
  <2>2. CASE ~carrier[c].queued
    <3>1. Rest(c)
      BY <1>9, <2>2 DEF NoteSent, Ended
    <3> QED
      BY <1>9, <2>2, <3>1 DEF NoteSent, Rest, Resting
  <2> QED
    BY <2>1, <2>2
<1>10. ASSUME NEW c \in Carriers, CatchError(c) PROVE DeliveriesTypeOK'
  <2>1. CASE ShouldRetry(c)
    <3>1. GoOn(c, "throwing") /\ carrier[c].queued
      BY <1>10, <2>1 DEF CatchError, Ended, ShouldRetry
    <3> QED
      BY <1>10, <2>1, <3>1 DEF CatchError, GoOn
  <2>2. CASE ~ShouldRetry(c) /\ carrier[c].queued
    <3>1. GoOn(c, "returning")
      BY <1>10, <2>2 DEF CatchError, Ended
    <3> QED
      BY <1>10, <2>2, <3>1 DEF CatchError, GoOn
  <2>3. CASE ~ShouldRetry(c) /\ ~carrier[c].queued
    <3>1. Rest(c)
      BY <1>10, <2>3 DEF CatchError, Ended
    <3> QED
      BY <1>10, <2>3, <3>1 DEF CatchError, Rest, Resting
  <2> QED
    BY <2>1, <2>2, <2>3
<1>11. ASSUME NEW c \in Carriers, ReportToQueue(c) PROVE DeliveriesTypeOK'
  <2>1. carrier[c].m \in Messages /\ carrier[c].queued /\ failures[carrier[c].m] < MaxAttempts
    BY <1>11 DEF ReportToQueue
  <2>2. carrier' \in Threads
    BY <1>11, StepTyped DEF ReportToQueue, Threads
  <2> QED
    BY <1>11, <2>1, <2>2 DEF ReportToQueue, Abandon, Rest, Resting, Threads
<1>12. ASSUME NEW c \in Carriers, MailFails(c) PROVE DeliveriesTypeOK'
  BY <1>12 DEF MailFails, Trouble, Mailed, GoOn
<1>13. ASSUME NEW c \in Carriers, WriteFails(c) PROVE DeliveriesTypeOK'
  <2>1. carrier' \in Threads
    BY <1>13, StepTyped DEF WriteFails, Threads
  <2> QED
    BY <1>13, <2>1 DEF WriteFails, Trouble, GoOn, Rest, Abandon, Resting, Threads
<1>14. ASSUME NEW c \in Carriers, DieCarrying(c) PROVE DeliveriesTypeOK'
  BY <1>14, AtWork DEF DieCarrying, Trouble, Abandon, Rest, Resting
<1>15. ASSUME NEW m \in Messages, StalledJob(m) PROVE DeliveriesTypeOK'
  BY <1>15 DEF StalledJob, Abandon
<1>16. CASE UNCHANGED dvars
  BY <1>16 DEF dvars
<1> QED
  BY <1>1, <1>2, <1>3, <1>4, <1>5, <1>6, <1>7, <1>8,
     <1>9, <1>10, <1>11, <1>12, <1>13, <1>14, <1>15, <1>16
  DEF DeliveriesNext, CarrierStep, CarrierTrouble

\* Every step keeps a message without a row untouched.
LEMMA UnbornKept ==
  ASSUME DeliveriesInv, [DeliveriesNext]_dvars PROVE Unborn'
<1> USE DeliveriesAssumption DEF DeliveriesInv, DeliveriesTypeOK, Carrying, Unborn, Holds
<1>1. ASSUME NEW c \in Carriers, NEW m \in Messages, SendTemplateToUser(c, m) PROVE Unborn'
  BY <1>1 DEF SendTemplateToUser, CreateMessage, Resting
<1>2. ASSUME NEW c \in Carriers, NEW m \in Messages, ResendMessage(c, m) PROVE Unborn'
  BY <1>2 DEF ResendMessage, CreateMessage, Resting
<1>3. ASSUME NEW c \in Carriers, EnqueueMessage(c) PROVE Unborn'
  BY <1>3 DEF EnqueueMessage, Rest, Resting
<1>4. ASSUME NEW c \in Carriers, EnqueueFails(c) PROVE Unborn'
  BY <1>4 DEF EnqueueFails, Trouble
<1>5. ASSUME NEW c \in Carriers, NEW m \in Messages, TakeJob(c, m) PROVE Unborn'
  BY <1>5 DEF TakeJob, AttemptNumber, Resting
<1>6. ASSUME NEW c \in Carriers, ReadMessage(c) PROVE Unborn'
  BY <1>6 DEF ReadMessage, Delivered, Ended, GoOn, Rest, Resting
<1>7. ASSUME NEW c \in Carriers, MarkAttempt(c) PROVE Unborn'
  BY <1>7 DEF MarkAttempt, GoOn
<1>8. ASSUME NEW c \in Carriers, SendMail(c) PROVE Unborn'
  BY <1>8 DEF SendMail, Mailed, GoOn
<1>9. ASSUME NEW c \in Carriers, NoteSent(c) PROVE Unborn'
  BY <1>9 DEF NoteSent, Ended, GoOn, Rest, Resting
<1>10. ASSUME NEW c \in Carriers, CatchError(c) PROVE Unborn'
  BY <1>10 DEF CatchError, ShouldRetry, Ended, GoOn, Rest, Resting
<1>11. ASSUME NEW c \in Carriers, ReportToQueue(c) PROVE Unborn'
  BY <1>11 DEF ReportToQueue, Abandon, Rest, Resting
<1>12. ASSUME NEW c \in Carriers, MailFails(c) PROVE Unborn'
  BY <1>12 DEF MailFails, Trouble, Mailed, GoOn
<1>13. ASSUME NEW c \in Carriers, WriteFails(c) PROVE Unborn'
  BY <1>13 DEF WriteFails, Trouble, GoOn, Rest, Abandon, Resting
<1>14. ASSUME NEW c \in Carriers, DieCarrying(c) PROVE Unborn'
  BY <1>14 DEF DieCarrying, Trouble, Abandon, Rest, Resting
<1>15. ASSUME NEW m \in Messages, StalledJob(m) PROVE Unborn'
  BY <1>15 DEF StalledJob, Abandon
<1>16. CASE UNCHANGED dvars
  BY <1>16 DEF dvars
<1> QED
  BY <1>1, <1>2, <1>3, <1>4, <1>5, <1>6, <1>7, <1>8,
     <1>9, <1>10, <1>11, <1>12, <1>13, <1>14, <1>15, <1>16
  DEF DeliveriesNext, CarrierStep, CarrierTrouble

\* Every step leaves the message to the request that is about to enqueue it.
LEMMA AddingKept ==
  ASSUME DeliveriesInv, [DeliveriesNext]_dvars PROVE Adding'
<1> USE DeliveriesAssumption DEF DeliveriesInv, DeliveriesTypeOK, Carrying, Unborn,
     Adding, Holds
<1>1. ASSUME NEW c \in Carriers, NEW m \in Messages, SendTemplateToUser(c, m) PROVE Adding'
  BY <1>1 DEF SendTemplateToUser, CreateMessage, Resting
<1>2. ASSUME NEW c \in Carriers, NEW m \in Messages, ResendMessage(c, m) PROVE Adding'
  BY <1>2 DEF ResendMessage, CreateMessage, Resting
<1>3. ASSUME NEW c \in Carriers, EnqueueMessage(c) PROVE Adding'
  BY <1>3 DEF EnqueueMessage, Rest, Resting
<1>4. ASSUME NEW c \in Carriers, EnqueueFails(c) PROVE Adding'
  BY <1>4 DEF EnqueueFails, Trouble
<1>5. ASSUME NEW c \in Carriers, NEW m \in Messages, TakeJob(c, m) PROVE Adding'
  BY <1>5 DEF TakeJob, AttemptNumber, Resting
<1>6. ASSUME NEW c \in Carriers, ReadMessage(c) PROVE Adding'
  BY <1>6 DEF ReadMessage, Delivered, Ended, GoOn, Rest, Resting
<1>7. ASSUME NEW c \in Carriers, MarkAttempt(c) PROVE Adding'
  BY <1>7 DEF MarkAttempt, GoOn
<1>8. ASSUME NEW c \in Carriers, SendMail(c) PROVE Adding'
  BY <1>8 DEF SendMail, Mailed, GoOn
<1>9. ASSUME NEW c \in Carriers, NoteSent(c) PROVE Adding'
  BY <1>9 DEF NoteSent, Ended, GoOn, Rest, Resting
<1>10. ASSUME NEW c \in Carriers, CatchError(c) PROVE Adding'
  BY <1>10 DEF CatchError, ShouldRetry, Ended, GoOn, Rest, Resting
<1>11. ASSUME NEW c \in Carriers, ReportToQueue(c) PROVE Adding'
  BY <1>11 DEF ReportToQueue, Abandon, Rest, Resting
<1>12. ASSUME NEW c \in Carriers, MailFails(c) PROVE Adding'
  BY <1>12 DEF MailFails, Trouble, Mailed, GoOn
<1>13. ASSUME NEW c \in Carriers, WriteFails(c) PROVE Adding'
  BY <1>13 DEF WriteFails, Trouble, GoOn, Rest, Abandon, Resting
<1>14. ASSUME NEW c \in Carriers, DieCarrying(c) PROVE Adding'
  BY <1>14 DEF DieCarrying, Trouble, Abandon, Rest, Resting
<1>15. ASSUME NEW m \in Messages, StalledJob(m) PROVE Adding'
  BY <1>15 DEF StalledJob, Abandon
<1>16. CASE UNCHANGED dvars
  BY <1>16 DEF dvars
<1> QED
  BY <1>1, <1>2, <1>3, <1>4, <1>5, <1>6, <1>7, <1>8,
     <1>9, <1>10, <1>11, <1>12, <1>13, <1>14, <1>15, <1>16
  DEF DeliveriesNext, CarrierStep, CarrierTrouble

\* Every step but a job that was believed refused keeps one carrier for a message.
LEMMA OneCarrierKept ==
  ASSUME DeliveriesInv, [DeliveriesNext]_dvars PROVE OneCarrier'
<1> USE DeliveriesAssumption DEF DeliveriesInv, DeliveriesTypeOK, Carrying, Unborn,
     Adding, OneCarrier, Holds
<1>1. ASSUME NEW c \in Carriers, NEW m \in Messages, SendTemplateToUser(c, m) PROVE OneCarrier'
  BY <1>1 DEF SendTemplateToUser, CreateMessage, Resting
<1>2. ASSUME NEW c \in Carriers, NEW m \in Messages, ResendMessage(c, m) PROVE OneCarrier'
  BY <1>2 DEF ResendMessage, CreateMessage, Resting
<1>3. ASSUME NEW c \in Carriers, EnqueueMessage(c) PROVE OneCarrier'
  BY <1>3 DEF EnqueueMessage, Rest, Resting
<1>4. ASSUME NEW c \in Carriers, EnqueueFails(c) PROVE OneCarrier'
  BY <1>4 DEF EnqueueFails, Trouble
<1>5. ASSUME NEW c \in Carriers, NEW m \in Messages, TakeJob(c, m) PROVE OneCarrier'
  BY <1>5 DEF TakeJob, AttemptNumber, Resting
<1>6. ASSUME NEW c \in Carriers, ReadMessage(c) PROVE OneCarrier'
  <2>1. \/ GoOn(c, "marking") \/ GoOn(c, "returning")
        \/ Rest(c)
    BY <1>6 DEF ReadMessage, Ended
  <2>2. UNCHANGED <<job, risked>>
    BY <1>6 DEF ReadMessage
  <2>3. CASE GoOn(c, "marking") \/ GoOn(c, "returning")
    BY <1>6, <2>2, <2>3 DEF ReadMessage, GoOn
  <2>4. CASE Rest(c)
    BY <2>2, <2>4 DEF Rest, Resting
  <2> QED
    BY <2>1, <2>3, <2>4
<1>7. ASSUME NEW c \in Carriers, MarkAttempt(c) PROVE OneCarrier'
  BY <1>7 DEF MarkAttempt, GoOn
<1>8. ASSUME NEW c \in Carriers, SendMail(c) PROVE OneCarrier'
  BY <1>8 DEF SendMail, Mailed, GoOn
<1>9. ASSUME NEW c \in Carriers, NoteSent(c) PROVE OneCarrier'
  <2>1. CASE carrier[c].queued
    <3>1. GoOn(c, "returning")
      BY <1>9, <2>1 DEF NoteSent, Ended
    <3> QED
      BY <1>9, <2>1, <3>1 DEF NoteSent, GoOn
  <2>2. CASE ~carrier[c].queued
    <3>1. Rest(c)
      BY <1>9, <2>2 DEF NoteSent, Ended
    <3> QED
      BY <1>9, <2>2, <3>1 DEF NoteSent, Rest, Resting
  <2> QED
    BY <2>1, <2>2
<1>10. ASSUME NEW c \in Carriers, CatchError(c) PROVE OneCarrier'
  <2>1. CASE ShouldRetry(c)
    <3>1. GoOn(c, "throwing") /\ carrier[c].queued
      BY <1>10, <2>1 DEF CatchError, Ended, ShouldRetry
    <3> QED
      BY <1>10, <2>1, <3>1 DEF CatchError, GoOn
  <2>2. CASE ~ShouldRetry(c) /\ carrier[c].queued
    <3>1. GoOn(c, "returning")
      BY <1>10, <2>2 DEF CatchError, Ended
    <3> QED
      BY <1>10, <2>2, <3>1 DEF CatchError, GoOn
  <2>3. CASE ~ShouldRetry(c) /\ ~carrier[c].queued
    <3>1. Rest(c)
      BY <1>10, <2>3 DEF CatchError, Ended
    <3> QED
      BY <1>10, <2>3, <3>1 DEF CatchError, Rest, Resting
  <2> QED
    BY <2>1, <2>2, <2>3
<1>11. ASSUME NEW c \in Carriers, ReportToQueue(c) PROVE OneCarrier'
  BY <1>11 DEF ReportToQueue, Abandon, Rest, Resting
<1>12. ASSUME NEW c \in Carriers, MailFails(c) PROVE OneCarrier'
  BY <1>12 DEF MailFails, Trouble, Mailed, GoOn
<1>13. ASSUME NEW c \in Carriers, WriteFails(c) PROVE OneCarrier'
  BY <1>13 DEF WriteFails, Trouble, GoOn, Rest, Abandon, Resting
<1>14. ASSUME NEW c \in Carriers, DieCarrying(c) PROVE OneCarrier'
  BY <1>14 DEF DieCarrying, Trouble, Abandon, Rest, Resting
<1>15. ASSUME NEW m \in Messages, StalledJob(m) PROVE OneCarrier'
  BY <1>15 DEF StalledJob, Abandon
<1>16. CASE UNCHANGED dvars
  BY <1>16 DEF dvars
<1> QED
  BY <1>1, <1>2, <1>3, <1>4, <1>5, <1>6, <1>7, <1>8,
     <1>9, <1>10, <1>11, <1>12, <1>13, <1>14, <1>15, <1>16
  DEF DeliveriesNext, CarrierStep, CarrierTrouble

\* Every step but the risky ones keeps mails noted.
LEMMA NotedKept ==
  ASSUME DeliveriesInv, [DeliveriesNext]_dvars PROVE Noted'
<1> USE DeliveriesAssumption DEF DeliveriesInv, DeliveriesTypeOK, Carrying, Unborn,
     Adding, OneCarrier, Noted, Holds
<1>1. ASSUME NEW c \in Carriers, NEW m \in Messages, SendTemplateToUser(c, m) PROVE Noted'
  BY <1>1 DEF SendTemplateToUser, CreateMessage, Resting
<1>2. ASSUME NEW c \in Carriers, NEW m \in Messages, ResendMessage(c, m) PROVE Noted'
  BY <1>2 DEF ResendMessage, CreateMessage, Resting
<1>3. ASSUME NEW c \in Carriers, EnqueueMessage(c) PROVE Noted'
  BY <1>3 DEF EnqueueMessage, Rest, Resting
<1>4. ASSUME NEW c \in Carriers, EnqueueFails(c) PROVE Noted'
  <2> DEFINE k == carrier[c].m
  <2>1. mails[k] = 0 /\ mstatus[k] = "PENDING"
    BY <1>4 DEF EnqueueFails
  <2>2. \A d \in Carriers, m \in Messages \ {k} : Holds(d, m)' <=> Holds(d, m)
    BY <1>4 DEF EnqueueFails
  <2> QED
    BY <1>4, <2>1, <2>2 DEF EnqueueFails
<1>5. ASSUME NEW c \in Carriers, NEW m \in Messages, TakeJob(c, m) PROVE Noted'
  BY <1>5 DEF TakeJob, AttemptNumber, Resting
<1>6. ASSUME NEW c \in Carriers, ReadMessage(c) PROVE Noted'
  BY <1>6 DEF ReadMessage, Delivered, Ended, GoOn, Rest, Resting
<1>7. ASSUME NEW c \in Carriers, MarkAttempt(c) PROVE Noted'
  BY <1>7 DEF MarkAttempt, GoOn
<1>8. ASSUME NEW c \in Carriers, SendMail(c) PROVE Noted'
  BY <1>8 DEF SendMail, Mailed, GoOn
<1>9. ASSUME NEW c \in Carriers, NoteSent(c) PROVE Noted'
  <2>1. CASE carrier[c].queued
    <3>1. GoOn(c, "returning")
      BY <1>9, <2>1 DEF NoteSent, Ended
    <3> QED
      BY <1>9, <2>1, <3>1 DEF NoteSent, GoOn
  <2>2. CASE ~carrier[c].queued
    <3>1. Rest(c)
      BY <1>9, <2>2 DEF NoteSent, Ended
    <3> QED
      BY <1>9, <2>2, <3>1 DEF NoteSent, Rest, Resting
  <2> QED
    BY <2>1, <2>2
<1>10. ASSUME NEW c \in Carriers, CatchError(c) PROVE Noted'
  <2>1. CASE ShouldRetry(c)
    <3>1. GoOn(c, "throwing") /\ carrier[c].queued
      BY <1>10, <2>1 DEF CatchError, Ended, ShouldRetry
    <3> QED
      BY <1>10, <2>1, <3>1 DEF CatchError, GoOn
  <2>2. CASE ~ShouldRetry(c) /\ carrier[c].queued
    <3>1. GoOn(c, "returning")
      BY <1>10, <2>2 DEF CatchError, Ended
    <3> QED
      BY <1>10, <2>2, <3>1 DEF CatchError, GoOn
  <2>3. CASE ~ShouldRetry(c) /\ ~carrier[c].queued
    <3>1. Rest(c)
      BY <1>10, <2>3 DEF CatchError, Ended
    <3> QED
      BY <1>10, <2>3, <3>1 DEF CatchError, Rest, Resting
  <2> QED
    BY <2>1, <2>2, <2>3
<1>11. ASSUME NEW c \in Carriers, ReportToQueue(c) PROVE Noted'
  BY <1>11 DEF ReportToQueue, Abandon, Rest, Resting
<1>12. ASSUME NEW c \in Carriers, MailFails(c) PROVE Noted'
  BY <1>12 DEF MailFails, Trouble, Mailed, GoOn
<1>13. ASSUME NEW c \in Carriers, WriteFails(c) PROVE Noted'
  <2>1. UNCHANGED <<mstatus, mails>>
    BY <1>13 DEF WriteFails
  <2>2. CASE carrier[c].pc = "noting"
    <3>1. GoOn(c, "catching") /\ risked' = risked \cup {carrier[c].m}
      BY <1>13, <2>2 DEF WriteFails
    <3> QED
      BY <2>1, <2>2, <3>1 DEF GoOn
  <2>3. CASE carrier[c].pc # "noting" /\ GoOn(c, "throwing")
    BY <1>13, <2>1, <2>3 DEF WriteFails, GoOn
  <2>4. CASE carrier[c].pc # "noting" /\ Rest(c)
    BY <1>13, <2>1, <2>4 DEF WriteFails, Rest, Resting
  <2> QED
    BY <1>13, <2>2, <2>3, <2>4 DEF WriteFails
<1>14. ASSUME NEW c \in Carriers, DieCarrying(c) PROVE Noted'
  BY <1>14 DEF DieCarrying, Trouble, Abandon, Rest, Resting
<1>15. ASSUME NEW m \in Messages, StalledJob(m) PROVE Noted'
  BY <1>15 DEF StalledJob, Abandon
<1>16. CASE UNCHANGED dvars
  BY <1>16 DEF dvars
<1> QED
  BY <1>1, <1>2, <1>3, <1>4, <1>5, <1>6, <1>7, <1>8,
     <1>9, <1>10, <1>11, <1>12, <1>13, <1>14, <1>15, <1>16
  DEF DeliveriesNext, CarrierStep, CarrierTrouble

-----------------------------------------------------------------------------
(* The pages of a dispatch *)

\* A set of numbers has a least element: the naturals are well founded.
LEMMA LeastNumber ==
  ASSUME NEW T \in SUBSET Nat, T # {}
  PROVE  \E x \in T : \A y \in T : x <= y
<1> DEFINE R == OpToRel(<, Nat)
<1>1. IsWellFoundedOn(R, Nat)
  BY NatLessThanWellFounded
<1>2. \A x, y \in Nat : <<y, x>> \notin R => x <= y
  BY DEF OpToRel
<1> HIDE DEF R
<1>3. \E x \in T : \A y \in T : ~(<<y, x>> \in R)
  BY <1>1, WFMin
<1> QED
  BY <1>2, <1>3

\* Among some readers there is a first one.
LEMMA FirstReader ==
  ASSUME NEW S \in SUBSET Readers, S # {}
  PROVE  FirstOf(S) \in S /\ \A v \in S : FirstOf(S) <= v
<1>1. S \in SUBSET Nat
  BY BroadcastsAssumption DEF Readers
<1>2. \E u \in S : \A v \in S : u <= v
  BY <1>1, LeastNumber
<1> QED
  BY <1>2 DEF FirstOf

\* And a last one.
LEMMA LastReaderOf ==
  ASSUME NEW S \in SUBSET Readers, S # {}
  PROVE  LastOf(S) \in S /\ \A v \in S : v <= LastOf(S)
<1> DEFINE M == {LastReader - v : v \in S}
<1>1. M \in SUBSET Nat
  BY BroadcastsAssumption DEF Readers
<1>2. M # {}
  OBVIOUS
<1>3. \E m \in M : \A n \in M : m <= n
  <2> HIDE DEF M
  <2> QED
    BY <1>1, <1>2, LeastNumber
<1>4. PICK u \in S : \A v \in S : LastReader - u <= LastReader - v
  BY <1>3
<1>5. \A v \in S : v <= u
  BY <1>4, BroadcastsAssumption DEF Readers
<1> QED
  BY <1>5 DEF LastOf

\* The next page's rows lie behind the cursor; when the cursor's own row is still in
\* the audience, none is missing.
LEMMA RowsFacts ==
  ASSUME audience \subseteq Readers, NEW c \in 0 .. LastReader
  PROVE  /\ FromCursor(c) \subseteq audience
         /\ \A u \in FromCursor(c) : c < u
         /\ c = 0 \/ c \in audience => \A u \in audience : c < u => u \in FromCursor(c)
<1> DEFINE above == {u \in audience : u >= c}
<1>1. FromCursor(c) = IF c = 0 \/ above = {} THEN above ELSE above \ {FirstOf(above)}
  BY DEF FromCursor
<1>2. above \in SUBSET Readers /\ above \subseteq audience
  OBVIOUS
<1>3. \A u \in Readers : u \in Nat /\ 0 < u
  BY BroadcastsAssumption DEF Readers
<1>4. \A u \in above : u >= c
  OBVIOUS
<1>5. \A u \in audience : u >= c => u \in above
  OBVIOUS
<1> HIDE DEF above
<1>6. above # {} => FirstOf(above) \in above /\ \A v \in above : FirstOf(above) <= v
  BY <1>2, FirstReader
<1>7. c \in Nat
  BY BroadcastsAssumption
<1>8. CASE c = 0
  BY <1>1, <1>2, <1>3, <1>4, <1>5, <1>8
<1>9. CASE c # 0 /\ above = {}
  BY <1>1, <1>2, <1>3, <1>5, <1>7, <1>9
<1>10. CASE c # 0 /\ above # {}
  <2>1. FirstOf(above) \in Nat /\ FirstOf(above) >= c
    BY <1>2, <1>3, <1>4, <1>6, <1>10
  <2>2. FromCursor(c) \subseteq audience /\ \A u \in FromCursor(c) : c < u
    <3>1. ASSUME NEW u \in FromCursor(c) PROVE u \in audience /\ c < u
      <4>1. u \in above /\ u # FirstOf(above)
        BY <1>1, <1>10, <3>1
      <4>2. u \in Nat /\ u \in audience /\ FirstOf(above) <= u
        BY <1>2, <1>3, <1>6, <1>10, <4>1
      <4> QED
        BY <1>7, <2>1, <4>1, <4>2
    <3> QED
      BY <3>1
  <2>3. ASSUME c \in audience, NEW u \in audience, c < u PROVE u \in FromCursor(c)
    <3>1. c \in above
      BY <1>5, <1>7, <2>3
    <3>2. FirstOf(above) <= c
      BY <1>6, <1>10, <3>1
    <3>3. u \in Nat /\ u # FirstOf(above)
      BY <1>2, <1>3, <1>7, <2>1, <2>3, <3>2
    <3>4. u \in above
      BY <1>5, <1>7, <2>3, <3>3
    <3> QED
      BY <1>1, <1>10, <3>3, <3>4
  <2> QED
    BY <1>10, <2>2, <2>3
<1> QED
  BY <1>8, <1>9, <1>10

\* A page takes the first rows without a gap, and is empty only when there are none.
Users(c) ==
  {u \in FromCursor(c) : Cardinality({v \in FromCursor(c) : v < u}) < PageSize}
LEMMA PageFacts ==
  ASSUME audience \subseteq Readers, NEW c \in 0 .. LastReader
  PROVE  /\ Users(c) \subseteq FromCursor(c)
         /\ Users(c) = {} => FromCursor(c) = {}
         /\ Users(c) # {} =>
              /\ LastOf(Users(c)) \in Users(c)
              /\ \A u \in Users(c) : u <= LastOf(Users(c))
              /\ \A u \in FromCursor(c) : u <= LastOf(Users(c)) => u \in Users(c)
<1> DEFINE rows == FromCursor(c)
           before(y) == {v \in rows : v < y}
<1>1. rows \in SUBSET Readers
  BY RowsFacts
<1>2. \A u \in Readers : u \in Nat
  BY BroadcastsAssumption DEF Readers
<1>3. \A S \in SUBSET Readers : IsFiniteSet(S)
  <2>1. IsFiniteSet(1 .. LastReader)
    BY BroadcastsAssumption, FS_Interval
  <2> QED
    BY <2>1, FS_Subset DEF Readers
<1>4. \A u \in rows : u \in Users(c) <=> Cardinality(before(u)) < PageSize
  BY DEF Users
<1>5. Users(c) \subseteq rows
  BY DEF Users
<1> HIDE DEF rows
<1>6. ASSUME rows # {} PROVE Users(c) # {}
  <2>1. FirstOf(rows) \in rows /\ \A v \in rows : FirstOf(rows) <= v
    BY <1>1, <1>6, FirstReader
  <2>2. before(FirstOf(rows)) = {}
    BY <1>1, <1>2, <2>1
  <2>3. Cardinality(before(FirstOf(rows))) = 0
    BY <2>2, FS_EmptySet
  <2>4. 0 < PageSize
    BY BroadcastsAssumption
  <2> QED
    BY <1>4, <2>1, <2>3, <2>4
<1>7. ASSUME NEW x \in Users(c), NEW u \in rows, u <= x PROVE u \in Users(c)
  <2>1. before(u) \in SUBSET before(x) 
    BY <1>1, <1>2, <1>5, <1>7
  <2>2. before(x) \in SUBSET Readers
    BY <1>1
  <2> HIDE DEF before
  <2>3. IsFiniteSet(before(x))
    BY <1>3, <2>2
  <2>4. IsFiniteSet(before(u)) /\ Cardinality(before(u)) <= Cardinality(before(x))
    BY <2>1, <2>3, FS_Subset
  <2>5. Cardinality(before(u)) \in Nat /\ Cardinality(before(x)) \in Nat
    BY <2>3, <2>4, FS_CardinalityType
  <2>6. Cardinality(before(x)) < PageSize
    BY <1>4, <1>5, <1>7
  <2>7. Cardinality(before(u)) < PageSize
    BY <2>4, <2>5, <2>6, BroadcastsAssumption
  <2> QED
    BY <1>4, <1>7, <2>7
<1>8. Users(c) # {} => LastOf(Users(c)) \in Users(c) /\ \A u \in Users(c) : u <= LastOf(Users(c))
  BY <1>1, <1>5, LastReaderOf
<1> QED
  BY <1>5, <1>6, <1>7, <1>8 DEF rows

-----------------------------------------------------------------------------
(* Broadcasts *)

\* What was never due has no message, and no tick has it in hand.
NotYetDue ==
  \A b \in Broadcasts : bstatus[b] \in {"none", "DRAFT"} =>
    ~InDispatch(b) /\ \A u \in Readers : made[b][u] = 0

\* A broadcast that is not excused is dispatched by one tick, which has written to
\* nobody beyond its cursor and to nobody left on its page.
OneDispatch ==
  \A b \in Broadcasts \ excused :
    /\ \A t, s \in Ticks : Dispatching(t, b) /\ Dispatching(s, b) => t = s
    /\ bstatus[b] = "SCHEDULED" /\ ~InDispatch(b) => \A u \in Readers : made[b][u] = 0
    /\ \A t \in Ticks, u \in Readers : Dispatching(t, b) /\ made[b][u] # 0 =>
         u <= tick[t].cursor /\ u \notin tick[t].page

\* Whoever stayed in reach has been written to up to the cursor, but for the page.
OnItsWay ==
  \A t \in Ticks, b \in Broadcasts : Dispatching(t, b) =>
    /\ \A u \in Readers \ moved[b] : u \in audience /\ u \in enabled
    /\ b \notin jumped =>
         /\ tick[t].cursor = 0 \/ tick[t].cursor \in audience
         /\ \A u \in Readers \ moved[b] :
              u <= tick[t].cursor \/ tick[t].pc = "closing" =>
                made[b][u] > 0 \/ u \in tick[t].page

\* Nobody has a broadcast in hand that was silenced.
Silent ==
  \A b \in silenced :
    /\ bstatus[b] \in {"CANCELLED", "gone"}
    /\ ~InDispatch(b)
    /\ \A d \in Desks : desk[d].pc = "scheduling" => desk[d].b # b

BroadcastsInv ==
  /\ BroadcastsTypeOK
  /\ NotYetDue
  /\ OneDispatch /\ OneMessageEach
  /\ OnItsWay /\ AudienceReached
  /\ Silent

TickThreads ==
  [Ticks -> [pc : {"idle", "next", "checking", "voiding", "listing", "sending", "closing"},
             todo : Seq(Broadcasts), b : Broadcasts \cup {NoBroadcast},
             link : BOOLEAN, cursor : 0 .. LastReader, page : SUBSET Readers]]

\* The shape of rows and desks, and of threads.
RowsOK ==
  /\ template \in {"active", "inactive", "gone"}
  /\ bstatus \in [Broadcasts -> {"none", "DRAFT", "SCHEDULED", "SENT", "CANCELLED", "gone"}]
  /\ linked \subseteq {b \in Broadcasts : Existing(b)}
  /\ template = "gone" => linked = {}
  /\ audience \subseteq Readers /\ enabled \subseteq Readers
  /\ made \in [Broadcasts -> [Readers -> 0 .. 2]]
  /\ desk \in [Desks -> [pc : {"idle", "creating", "scheduling", "cancelling", "deleting",
                               "dropping"},
                         b : Broadcasts \cup {NoBroadcast}]]
  /\ \A d \in Desks : desk[d].pc \notin {"idle", "dropping"} => desk[d].b \in Broadcasts
  /\ errands \in 0 .. MaxErrands /\ mishaps \in 0 .. MaxMishaps
  /\ excused \subseteq Broadcasts /\ jumped \subseteq Broadcasts /\ silenced \subseteq Broadcasts
  /\ moved \in [Broadcasts -> SUBSET Readers]
ThreadOK(thread) ==
  /\ thread.pc \in {"idle", "next"} <=> thread.b = NoBroadcast
  /\ thread.pc = "next" => thread.todo # <<>>
  /\ thread.pc = "sending" <=> thread.page # {}
  /\ \A u \in thread.page : u <= thread.cursor
ThreadsOK == tick \in TickThreads /\ \A t \in Ticks : ThreadOK(tick[t])

LEMMA ShapeOfBroadcasts == BroadcastsTypeOK <=> RowsOK /\ ThreadsOK
  BY DEF BroadcastsTypeOK, RowsOK, ThreadsOK, ThreadOK, TickThreads
LEMMA ShapeOfBroadcastsNext == BroadcastsTypeOK' <=> RowsOK' /\ ThreadsOK'
  BY DEF BroadcastsTypeOK, RowsOK, ThreadsOK, ThreadOK, TickThreads

\* What the lemmas below need of it.
Shapes ==
  /\ bstatus \in [Broadcasts -> {"none", "DRAFT", "SCHEDULED", "SENT", "CANCELLED", "gone"}]
  /\ excused \subseteq Broadcasts /\ jumped \subseteq Broadcasts /\ silenced \subseteq Broadcasts
  /\ audience \subseteq Readers /\ enabled \subseteq Readers
  /\ made \in [Broadcasts -> [Readers -> 0 .. 2]] /\ moved \in [Broadcasts -> SUBSET Readers]
  /\ \A s \in Ticks : /\ tick[s].cursor \in 0 .. LastReader /\ tick[s].page \in SUBSET Readers
                      /\ \A u \in tick[s].page : u <= tick[s].cursor

\* What a step of a tick does to its thread: the others keep theirs, and this one has
\* nothing in hand any more, takes a broadcast in hand, or goes on with its own.
OnlyTick(t) == tick' \in TickThreads /\ \A s \in Ticks \ {t} : tick'[s] = tick[s]
Frees(t) ==
  /\ OnlyTick(t)
  /\ tick'[t].b = NoBroadcast /\ tick'[t].page = {}
  /\ tick'[t].pc \in {"idle", "next"}
  /\ tick'[t].pc = "next" => tick'[t].todo # <<>>
Takes(t, b) ==
  /\ OnlyTick(t)
  /\ tick'[t].b = b /\ tick'[t].pc = "checking"
  /\ tick'[t].cursor = 0 /\ tick'[t].page = {}
Goes(t, cursor, page, steps) ==
  /\ OnlyTick(t)
  /\ tick[t].b \in Broadcasts /\ tick'[t].b = tick[t].b
  /\ tick'[t].cursor = cursor /\ tick'[t].page = page
  /\ tick'[t].pc \in steps

\* What a tick writes to a broadcast's row, and to a reader.
Writes(b, s) ==
  /\ bstatus' \in [Broadcasts -> {"none", "DRAFT", "SCHEDULED", "SENT", "CANCELLED", "gone"}]
  /\ bstatus'[b] = IF Existing(b) THEN s ELSE bstatus[b]
  /\ \A c \in Broadcasts \ {b} : bstatus'[c] = bstatus[c]
Mails(b, u) ==
  /\ made' \in [Broadcasts -> [Readers -> 0 .. 2]]
  /\ made'[b][u] = IF made[b][u] = 0 THEN 1 ELSE 2
  /\ \A c \in Broadcasts, v \in Readers : c # b \/ v # u => made'[c][v] = made[c][v]

\* The steps of a tick, by what they do to its thread and to the rows.
Started(t) ==
  /\ tick[t].b = NoBroadcast /\ Frees(t)
  /\ UNCHANGED <<records, desk, errands, mishaps, history>>
Opened(t) ==
  /\ tick[t].b = NoBroadcast
  /\ \/ Frees(t) /\ UNCHANGED <<excused, moved>>
     \/ \E b \in Broadcasts :
          /\ bstatus[b] = "SCHEDULED" /\ Takes(t, b)
          /\ excused' = IF InDispatch(b) THEN excused \cup {b} ELSE excused
          /\ moved' \in [Broadcasts -> SUBSET Readers]
          /\ moved'[b] = moved[b] \cup (Readers \ (audience \cap enabled))
          /\ \A c \in Broadcasts \ {b} : moved'[c] = moved[c]
  /\ UNCHANGED <<records, desk, errands, mishaps, jumped, silenced>>
Checked(t) ==
  /\ tick[t].pc = "checking"
  /\ Goes(t, tick[t].cursor, tick[t].page, {"listing", "voiding"})
  /\ UNCHANGED <<records, desk, errands, mishaps, history>>
Parted(t) ==
  /\ Frees(t) /\ tick[t].b \in Broadcasts
  /\ \/ tick[t].pc = "voiding" /\ Writes(tick[t].b, "CANCELLED")
     \/ tick[t].pc = "closing" /\ Writes(tick[t].b, "SENT")
  /\ UNCHANGED <<template, linked, audience, enabled, made, desk, errands, mishaps, history>>
Failed(t) ==
  /\ Frees(t)
  /\ \/ tick[t].b = NoBroadcast /\ excused' = excused
     \/ tick[t].b \in Broadcasts /\ excused' = excused \cup {tick[t].b}
  /\ mishaps' \in 0 .. MaxMishaps
  /\ UNCHANGED <<records, desk, errands, moved, jumped, silenced>>
Listed(t) ==
  /\ tick[t].pc = "listing" /\ tick[t].page = {} /\ tick[t].cursor \in 0 .. LastReader
  /\ \/ Users(tick[t].cursor) = {} /\ Goes(t, tick[t].cursor, {}, {"closing"})
     \/ /\ Users(tick[t].cursor) # {}
        /\ Goes(t, LastOf(Users(tick[t].cursor)), Users(tick[t].cursor) \cap enabled,
                {"listing", "sending"})
  /\ tick'[t].pc = "sending" <=> tick'[t].page # {}
  /\ UNCHANGED <<records, desk, errands, mishaps, history>>
Sent(t) ==
  /\ tick[t].b \in Broadcasts /\ tick[t].pc = "sending"
  /\ \/ Frees(t) /\ excused' = excused \cup {tick[t].b} /\ made' = made
     \/ \E u \in tick[t].page :
          /\ u \in Readers
          /\ Goes(t, tick[t].cursor, tick[t].page \ {u}, {"listing", "sending"})
          /\ tick'[t].pc = "sending" <=> tick'[t].page # {}
          /\ excused' = excused /\ Mails(tick[t].b, u)
  /\ UNCHANGED <<template, bstatus, linked, audience, enabled, desk, errands, mishaps,
                 moved, jumped, silenced>>

\* One thread's step leaves the shape of the others.
LEMMA ThreadKept ==
  ASSUME ThreadsOK, NEW t \in Ticks, OnlyTick(t), ThreadOK(tick'[t])
  PROVE  ThreadsOK'
<1>1. \A s \in Ticks : ThreadOK(tick'[s])
  BY DEF ThreadsOK, OnlyTick
<1> QED
  BY <1>1 DEF ThreadsOK, OnlyTick, ThreadOK

\* A tick that is done with a broadcast has none in hand.
LEMMA Advancing ==
  ASSUME BroadcastsTypeOK, NEW t \in Ticks, NEW todo \in Seq(Broadcasts),
         tick' = [tick EXCEPT ![t] = NextOf(todo)]
  PROVE  Frees(t)
<1>1. NextOf(todo) \in [pc : {"idle", "next"}, todo : Seq(Broadcasts), b : {NoBroadcast},
                        link : {FALSE}, cursor : {0}, page : {{}}]
  BY DEF NextOf, TickIdle, TickAt
<1>2. NextOf(todo).pc = "next" => NextOf(todo).todo # <<>>
  BY DEF NextOf, TickIdle, TickAt
<1>3. 0 \in 0 .. LastReader
  BY BroadcastsAssumption
<1>4. tick \in TickThreads
  BY DEF BroadcastsTypeOK, TickThreads
<1> HIDE DEF NextOf
<1> QED
  BY <1>1, <1>2, <1>3, <1>4 DEF Frees, OnlyTick, TickThreads

\* A tick that voids or closes its broadcast has none in hand any more.
LEMMA Ending ==
  ASSUME BroadcastsTypeOK, NEW t \in Ticks, VoidBroadcast(t) \/ CloseBroadcast(t)
  PROVE  Parted(t)
<1>1. tick[t].todo \in Seq(Broadcasts) /\ tick[t].b \in Broadcasts
  BY DEF VoidBroadcast, CloseBroadcast, BroadcastsTypeOK
<1>2. Frees(t)
  BY <1>1, Advancing DEF VoidBroadcast, CloseBroadcast, Advance
<1>3. bstatus \in [Broadcasts -> {"none", "DRAFT", "SCHEDULED", "SENT", "CANCELLED", "gone"}]
  BY DEF BroadcastsTypeOK
<1>4. CASE VoidBroadcast(t)
  <2>1. Writes(tick[t].b, "CANCELLED")
    BY <1>1, <1>3, <1>4 DEF VoidBroadcast, Voided, Writes
  <2> QED
    BY <1>1, <1>2, <1>4, <2>1 DEF VoidBroadcast, Parted
<1>5. CASE CloseBroadcast(t)
  <2>1. Writes(tick[t].b, "SENT")
    BY <1>1, <1>3, <1>5 DEF CloseBroadcast, Writes
  <2> QED
    BY <1>1, <1>2, <1>5, <2>1 DEF CloseBroadcast, Parted
<1> QED
  BY <1>4, <1>5

\* So has one whose dispatch fails, or that dies: what it had in hand is excused.
LEMMA Failing ==
  ASSUME BroadcastsTypeOK, NEW t \in Ticks, DispatchFails(t) \/ DieInTick(t)
  PROVE  Failed(t)
<1>1. /\ tick[t].todo \in Seq(Broadcasts) /\ <<>> \in Seq(Broadcasts)
      /\ tick[t].b \in Broadcasts \cup {NoBroadcast} /\ mishaps \in 0 .. MaxMishaps
  BY DEF BroadcastsTypeOK
<1>2. TickIdle = NextOf(<<>>)
  BY DEF NextOf
<1>3. Frees(t)
  BY <1>1, <1>2, Advancing DEF DispatchFails, DieInTick, CutShort, Advance
<1>4. mishaps' \in 0 .. MaxMishaps
  BY <1>1, BroadcastsAssumption DEF DispatchFails, DieInTick
<1> QED
  BY <1>1, <1>3, <1>4 DEF DispatchFails, DieInTick, CutShort, Failed

\* A tick that starts has nothing in hand yet.
LEMMA Starting ==
  ASSUME BroadcastsTypeOK, NEW t \in Ticks, StartTick(t)
  PROVE  Started(t)
<1>1. PICK n \in 1 .. TickTake :
      \E todo \in [1 .. n -> {b \in Broadcasts : bstatus[b] = "SCHEDULED"}] :
        tick' = [tick EXCEPT ![t] = NextOf(todo)]
  BY DEF StartTick
<1>2. PICK todo \in [1 .. n -> {b \in Broadcasts : bstatus[b] = "SCHEDULED"}] :
        tick' = [tick EXCEPT ![t] = NextOf(todo)]
  BY <1>1
<1>3. n \in Nat
  BY BroadcastsAssumption
<1>4. todo \in [1 .. n -> Broadcasts]
  BY <1>2
<1>5. todo \in Seq(Broadcasts)
  BY <1>3, <1>4
<1>6. tick[t].b = NoBroadcast
  BY DEF StartTick, TickIdle, TickAt
<1>7. UNCHANGED <<records, desk, errands, mishaps, history>>
  BY DEF StartTick
<1> QED
  BY <1>2, <1>5, <1>6, <1>7, Advancing DEF Started

\* A tick that reads its next broadcast takes it in hand or passes it over.
LEMMA Reading ==
  ASSUME BroadcastsTypeOK, NEW t \in Ticks, ReadBroadcast(t)
  PROVE  Opened(t)
<1> DEFINE b == Head(tick[t].todo)
           rest == Tail(tick[t].todo)
<1>0. UNCHANGED <<records, desk, errands, mishaps, jumped, silenced>>
  BY DEF ReadBroadcast
<1>1. b \in Broadcasts /\ rest \in Seq(Broadcasts) /\ tick[t].b = NoBroadcast
  BY DEF ReadBroadcast, BroadcastsTypeOK
<1>2. CASE Dispatchable(b)
  <2>1. tick' = [tick EXCEPT ![t] = TickAt("checking", rest, b, b \in linked)]
    BY <1>2 DEF ReadBroadcast
  <2>2. tick \in TickThreads /\ 0 \in 0 .. LastReader
    BY BroadcastsAssumption DEF BroadcastsTypeOK, TickThreads
  <2>3. Takes(t, b)
    BY <1>1, <2>1, <2>2 DEF TickAt, TickThreads, OnlyTick, Takes
  <2>4. /\ moved' = [moved EXCEPT ![b] = @ \cup (Readers \ (audience \cap enabled))]
        /\ excused' = IF InDispatch(b) THEN excused \cup {b} ELSE excused
        /\ bstatus[b] = "SCHEDULED"
    BY <1>2 DEF ReadBroadcast, Dispatchable
  <2>5. moved \in [Broadcasts -> SUBSET Readers]
    BY DEF BroadcastsTypeOK
  <2> HIDE DEF b
  <2>6. /\ moved' \in [Broadcasts -> SUBSET Readers]
        /\ moved'[b] = moved[b] \cup (Readers \ (audience \cap enabled))
        /\ \A c \in Broadcasts \ {b} : moved'[c] = moved[c]
    BY <1>1, <2>4, <2>5
  <2> QED
    BY <1>0, <1>1, <2>3, <2>4, <2>6 DEF Opened
<1>3. CASE ~Dispatchable(b)
  <2>1. tick' = [tick EXCEPT ![t] = NextOf(rest)]
    BY <1>3 DEF ReadBroadcast
  <2> QED
    BY <1>0, <1>1, <1>3, <2>1, Advancing DEF ReadBroadcast, Opened
<1> QED
  BY <1>2, <1>3

\* A tick that has read its template lists, or voids the broadcast.
LEMMA Checking ==
  ASSUME BroadcastsTypeOK, NEW t \in Ticks, ReadTemplate(t)
  PROVE  Checked(t)
<1> DEFINE step == IF tick[t].link /\ template = "active" THEN "listing" ELSE "voiding"
<1>1. tick[t].pc = "checking" /\ tick' = [tick EXCEPT ![t].pc = step]
  BY DEF ReadTemplate, Goto
<1>2. step \in {"listing", "voiding"}
  OBVIOUS
<1> HIDE DEF step
<1>3. tick \in TickThreads /\ tick[t].b \in Broadcasts
  BY <1>1 DEF BroadcastsTypeOK, TickThreads
<1>4. OnlyTick(t)
  BY <1>1, <1>2, <1>3 DEF TickThreads, OnlyTick
<1>5. UNCHANGED <<records, desk, errands, mishaps, history>>
  BY DEF ReadTemplate
<1> QED
  BY <1>1, <1>2, <1>3, <1>4, <1>5 DEF TickThreads, Goes, Checked

\* A tick that lists goes to its next page, or is about to close the broadcast.
LEMMA Listing ==
  ASSUME BroadcastsTypeOK, NEW t \in Ticks, ListUsers(t)
  PROVE  Listed(t)
<1> DEFINE c == tick[t].cursor
<1>0. UNCHANGED <<records, desk, errands, mishaps, history>>
  BY DEF ListUsers
<1>1. /\ tick[t].b \in Broadcasts /\ tick[t].pc = "listing" /\ tick[t].page = {}
      /\ c \in 0 .. LastReader /\ tick \in TickThreads /\ audience \subseteq Readers
  BY DEF ListUsers, BroadcastsTypeOK, TickThreads
<1>2. CASE Users(c) = {}
  <2>1. tick' = [tick EXCEPT ![t].pc = "closing"]
    BY <1>2 DEF ListUsers, Users, Goto
  <2>2. OnlyTick(t)
    BY <1>1, <2>1 DEF OnlyTick, TickThreads
  <2>3. /\ tick'[t].b = tick[t].b /\ tick'[t].cursor = tick[t].cursor
        /\ tick'[t].page = tick[t].page /\ tick'[t].pc = "closing"
    BY <1>1, <2>1 DEF TickThreads
  <2> QED
    BY <1>0, <1>1, <1>2, <2>2, <2>3 DEF Goes, Listed
<1>3. CASE Users(c) # {}
  <2> DEFINE page == Users(c) \cap enabled
             step == IF page = {} THEN "listing" ELSE "sending"
  <2>1. tick' = [tick EXCEPT ![t].cursor = LastOf(Users(c)), ![t].page = page, ![t].pc = step]
    BY <1>3 DEF ListUsers, Users
  <2>2. LastOf(Users(c)) \in 0 .. LastReader /\ page \in SUBSET Readers
    <3>1. LastOf(Users(c)) \in audience /\ page \subseteq audience
      BY <1>1, <1>3, PageFacts, RowsFacts
    <3>2. Readers \subseteq 0 .. LastReader
      BY BroadcastsAssumption DEF Readers
    <3> QED
      BY <1>1, <3>1, <3>2
  <2>3. step \in {"listing", "sending"}
    OBVIOUS
  <2> HIDE DEF c, page, step
  <2>4. OnlyTick(t)
    <3>1. [tick[t] EXCEPT !.cursor = LastOf(Users(c))] \in
            [pc : {"listing"}, todo : Seq(Broadcasts), b : Broadcasts,
             link : BOOLEAN, cursor : 0 .. LastReader, page : SUBSET Readers]
      BY <1>1, <2>2 DEF TickThreads
    <3>2. [[[tick[t] EXCEPT !.cursor = LastOf(Users(c))] EXCEPT !.page = page] EXCEPT !.pc = step]
            \in [pc : {"listing", "sending"}, todo : Seq(Broadcasts), b : Broadcasts,
                 link : BOOLEAN, cursor : 0 .. LastReader, page : SUBSET Readers]
      BY <2>2, <2>3, <3>1
    <3> QED
      BY <1>1, <2>1, <3>2 DEF OnlyTick, TickThreads
  <2>5. /\ tick'[t].b = tick[t].b /\ tick'[t].cursor = LastOf(Users(c))
        /\ tick'[t].page = page /\ tick'[t].pc = step
    BY <1>1, <2>1 DEF TickThreads
  <2> QED
    BY <1>0, <1>1, <1>3, <2>4, <2>5 DEF Goes, Listed, c, page, step
<1> QED
  BY <1>2, <1>3

\* A tick that sends writes to a reader on its page, or fails on a template that is
\* gone.
LEMMA Sending ==
  ASSUME BroadcastsTypeOK, NEW t \in Ticks, SendMessage(t)
  PROVE  Sent(t)
<1> DEFINE b == tick[t].b
           u == FirstOf(tick[t].page)
           rest == tick[t].page \ {u}
           step == IF rest = {} THEN "listing" ELSE "sending"
<1>0. UNCHANGED <<template, bstatus, linked, audience, enabled, desk, errands, mishaps,
                  moved, jumped, silenced>>
  BY DEF SendMessage
<1>1. /\ b \in Broadcasts /\ tick[t].pc = "sending" /\ tick[t].page \in SUBSET Readers
      /\ tick[t].page # {} /\ tick[t].todo \in Seq(Broadcasts) /\ tick \in TickThreads
  BY DEF SendMessage, BroadcastsTypeOK, TickThreads
<1>2. u \in tick[t].page /\ u \in Readers
  BY <1>1, FirstReader
<1>3. CASE template = "gone"
  <2>1. CutShort(t) /\ made' = made
    BY <1>3 DEF SendMessage
  <2>2. tick' = [tick EXCEPT ![t] = NextOf(tick[t].todo)] /\ excused' = excused \cup {b}
    BY <2>1 DEF CutShort, Advance
  <2> QED
    BY <1>0, <1>1, <2>1, <2>2, Advancing DEF Sent
<1>4. CASE template # "gone"
  <2>1. /\ tick' = [tick EXCEPT ![t].page = rest, ![t].pc = step]
        /\ made' = [made EXCEPT ![b][u] = IF @ = 0 THEN 1 ELSE 2] /\ excused' = excused
    BY <1>4 DEF SendMessage
  <2>2. rest \in SUBSET Readers /\ step \in {"listing", "sending"}
    BY <1>1
  <2> HIDE DEF rest, step, u
  <2>3. OnlyTick(t)
    <3>1. [[tick[t] EXCEPT !.page = rest] EXCEPT !.pc = step]
            \in [pc : {"listing", "sending"}, todo : Seq(Broadcasts), b : Broadcasts,
                 link : BOOLEAN, cursor : 0 .. LastReader, page : SUBSET Readers]
      BY <1>1, <2>2 DEF TickThreads
    <3> QED
      BY <1>1, <2>1, <3>1 DEF OnlyTick, TickThreads
  <2>4. /\ tick'[t].b = b /\ tick'[t].cursor = tick[t].cursor
        /\ tick'[t].page = rest /\ tick'[t].pc = step
    BY <1>1, <2>1 DEF TickThreads
  <2>5. Goes(t, tick[t].cursor, rest, {"listing", "sending"})
    BY <1>1, <2>2, <2>3, <2>4 DEF Goes
  <2>6. tick'[t].pc = "sending" <=> tick'[t].page # {}
    BY <2>4 DEF step
  <2>7. Goes(t, tick[t].cursor, tick[t].page \ {u}, {"listing", "sending"})
    BY <2>5 DEF rest
  <2>8. Mails(tick[t].b, u)
    <3>1. made \in [Broadcasts -> [Readers -> 0 .. 2]]
      BY DEF BroadcastsTypeOK
    <3> HIDE DEF b
    <3>2. /\ made' \in [Broadcasts -> [Readers -> 0 .. 2]]
          /\ made'[b] = [made[b] EXCEPT ![u] = IF @ = 0 THEN 1 ELSE 2]
          /\ \A c \in Broadcasts \ {b} : made'[c] = made[c]
      BY <1>1, <1>2, <2>1, <3>1
    <3>3. Mails(b, u)
      BY <1>1, <1>2, <3>1, <3>2 DEF Mails
    <3> QED
      BY <3>3 DEF b
  <2>9. \E x \in tick[t].page :
          /\ x \in Readers
          /\ Goes(t, tick[t].cursor, tick[t].page \ {x}, {"listing", "sending"})
          /\ tick'[t].pc = "sending" <=> tick'[t].page # {}
          /\ excused' = excused /\ Mails(tick[t].b, x)
    <3> USE <1>2
    <3> WITNESS u \in tick[t].page
    <3> QED
      BY <2>1, <2>6, <2>7, <2>8
  <2> QED
    BY <1>0, <1>1, <2>9 DEF Sent
<1> QED
  BY <1>3, <1>4

\* Every step keeps the shape of rows and threads.
LEMMA BroadcastsTyped ==
  ASSUME BroadcastsInv, [BroadcastsNext]_bvars PROVE BroadcastsTypeOK'
<1> USE BroadcastsAssumption DEF BroadcastsInv
<1>0. RowsOK /\ ThreadsOK /\ NoBroadcast \notin Broadcasts
  BY ShapeOfBroadcasts
<1>1. ASSUME NEW d \in Desks, NEW b \in Broadcasts, BeginCreate(d, b) PROVE BroadcastsTypeOK'
  BY <1>1 DEF BroadcastsTypeOK, Existing, BeginCreate, Errand, records, history
<1>2. ASSUME NEW d \in Desks, NEW b \in Broadcasts, BeginSchedule(d, b) PROVE BroadcastsTypeOK'
  BY <1>2 DEF BroadcastsTypeOK, Existing, BeginSchedule, Errand, records, history
<1>3. ASSUME NEW d \in Desks, NEW b \in Broadcasts, BeginCancel(d, b) PROVE BroadcastsTypeOK'
  BY <1>3 DEF BroadcastsTypeOK, Existing, BeginCancel, Errand, records, history
<1>4. ASSUME NEW d \in Desks, NEW b \in Broadcasts, BeginDelete(d, b) PROVE BroadcastsTypeOK'
  BY <1>4 DEF BroadcastsTypeOK, Existing, BeginDelete, Errand, records, history
<1>5. ASSUME NEW d \in Desks, CreateBroadcast(d) PROVE BroadcastsTypeOK'
  <2>1. UNCHANGED <<template, audience, enabled, made, tick, errands, mishaps, history>> /\ Done(d)
    BY <1>5 DEF CreateBroadcast
  <2>2. CASE UNCHANGED <<bstatus, linked>>
    BY <1>0, <2>1, <2>2, ShapeOfBroadcastsNext
    DEF RowsOK, ThreadsOK, ThreadOK, TickThreads, Existing, Done, DeskIdle, history
  <2>3. CASE template # "gone" /\ bstatus[desk[d].b] = "none"
    <3>1. desk[d].b \in Broadcasts /\ linked' = linked \cup {desk[d].b}
      BY <1>0, <1>5, <2>3 DEF RowsOK, CreateBroadcast
    <3>2. PICK s \in {"DRAFT", "SCHEDULED"} : bstatus' = [bstatus EXCEPT ![desk[d].b] = s]
      BY <1>5, <2>3 DEF CreateBroadcast
    <3> QED
      BY <1>0, <2>1, <2>3, <3>1, <3>2, ShapeOfBroadcastsNext
      DEF RowsOK, ThreadsOK, ThreadOK, TickThreads, Existing, Done, DeskIdle, history
  <2> QED
    BY <1>5, <2>2, <2>3 DEF CreateBroadcast
<1>6. ASSUME NEW d \in Desks, ScheduleBroadcast(d) PROVE BroadcastsTypeOK'
  BY <1>6 DEF BroadcastsTypeOK, Existing, ScheduleBroadcast, Done, DeskIdle
<1>7. ASSUME NEW d \in Desks, CancelBroadcast(d) PROVE BroadcastsTypeOK'
  BY <1>7 DEF BroadcastsTypeOK, Existing, CancelBroadcast, Done, DeskIdle
<1>8. ASSUME NEW d \in Desks, DeleteBroadcast(d) PROVE BroadcastsTypeOK'
  BY <1>8 DEF BroadcastsTypeOK, Existing, DeleteBroadcast, Done, DeskIdle, history
<1>9. ASSUME UpdateTemplate PROVE BroadcastsTypeOK'
  BY <1>9 DEF BroadcastsTypeOK, Existing, UpdateTemplate, history
<1>10. ASSUME NEW d \in Desks, BeginDeleteTemplate(d) PROVE BroadcastsTypeOK'
  BY <1>10 DEF BroadcastsTypeOK, Existing, BeginDeleteTemplate, Errand, records, history
<1>11. ASSUME NEW d \in Desks, DeleteTemplate(d) PROVE BroadcastsTypeOK'
  BY <1>11 DEF BroadcastsTypeOK, Existing, DeleteTemplate, Done, DeskIdle, history
<1>12. ASSUME NEW u \in Readers, UpdatePreference(u) PROVE BroadcastsTypeOK'
  BY <1>12 DEF BroadcastsTypeOK, Existing, UpdatePreference, Disturb
<1>13. ASSUME NEW u \in Readers, ChangeUser(u) PROVE BroadcastsTypeOK'
  BY <1>13 DEF BroadcastsTypeOK, Existing, ChangeUser, Disturb
<1>14. ASSUME NEW t \in Ticks, StartTick(t) PROVE BroadcastsTypeOK'
  <2>1. Started(t)
    BY <1>14, Starting
  <2>2. OnlyTick(t) /\ ThreadOK(tick'[t])
    BY <1>0, <2>1 DEF Started, Frees, ThreadOK
  <2>3. RowsOK'
    BY <1>0, <2>1 DEF RowsOK, Started, Existing, records, history
  <2> QED
    BY <1>0, <2>2, <2>3, ThreadKept, ShapeOfBroadcastsNext
<1>15. ASSUME NEW t \in Ticks, ReadBroadcast(t) PROVE BroadcastsTypeOK'
  <2>1. Opened(t)
    BY <1>15, Reading
  <2>2. OnlyTick(t) /\ ThreadOK(tick'[t])
    BY <1>0, <2>1 DEF Opened, Frees, Takes, ThreadOK
  <2>3. RowsOK'
    BY <1>0, <2>1 DEF RowsOK, Opened, Existing, records
  <2> QED
    BY <1>0, <2>2, <2>3, ThreadKept, ShapeOfBroadcastsNext
<1>16. ASSUME NEW t \in Ticks, ReadTemplate(t) PROVE BroadcastsTypeOK'
  <2>1. Checked(t)
    BY <1>16, Checking
  <2>2. OnlyTick(t) /\ ThreadOK(tick'[t])
    BY <1>0, <2>1 DEF Checked, Goes, ThreadOK, ThreadsOK
  <2>3. RowsOK'
    BY <1>0, <2>1 DEF RowsOK, Checked, Existing, records, history
  <2> QED
    BY <1>0, <2>2, <2>3, ThreadKept, ShapeOfBroadcastsNext
<1>17. ASSUME NEW t \in Ticks, VoidBroadcast(t) \/ CloseBroadcast(t) PROVE BroadcastsTypeOK'
  <2>1. Parted(t)
    BY <1>17, Ending
  <2>2. OnlyTick(t) /\ ThreadOK(tick'[t])
    BY <1>0, <2>1 DEF Parted, Frees, ThreadOK
  <2>3. RowsOK'
    BY <1>0, <2>1 DEF RowsOK, Parted, Existing, Writes, history
  <2> QED
    BY <1>0, <2>2, <2>3, ThreadKept, ShapeOfBroadcastsNext
<1>18. ASSUME NEW t \in Ticks, ListUsers(t) PROVE BroadcastsTypeOK'
  <2>1. Listed(t)
    BY <1>18, Listing
  <2>2. OnlyTick(t) /\ ThreadOK(tick'[t])
    <3>1. \A u \in tick'[t].page : u <= tick'[t].cursor
      BY <1>0, <2>1, PageFacts DEF RowsOK, Listed, Goes
    <3> QED
      BY <1>0, <2>1, <3>1 DEF Listed, Goes, ThreadOK
  <2>3. RowsOK'
    BY <1>0, <2>1 DEF RowsOK, Listed, Existing, records, history
  <2> QED
    BY <1>0, <2>2, <2>3, ThreadKept, ShapeOfBroadcastsNext
<1>19. ASSUME NEW t \in Ticks, SendMessage(t) PROVE BroadcastsTypeOK'
  <2>1. Sent(t)
    BY <1>19, Sending
  <2>2. OnlyTick(t) /\ ThreadOK(tick'[t])
    BY <1>0, <2>1 DEF Sent, Frees, Goes, ThreadsOK, ThreadOK
  <2>3. RowsOK'
    BY <1>0, <2>1 DEF RowsOK, Sent, Existing, Mails
  <2> QED
    BY <1>0, <2>2, <2>3, ThreadKept, ShapeOfBroadcastsNext
<1>20. ASSUME NEW t \in Ticks, DispatchFails(t) \/ DieInTick(t) PROVE BroadcastsTypeOK'
  <2>1. Failed(t)
    BY <1>20, Failing
  <2>2. OnlyTick(t) /\ ThreadOK(tick'[t])
    BY <1>0, <2>1 DEF Failed, Frees, ThreadOK
  <2>3. RowsOK'
    BY <1>0, <2>1 DEF RowsOK, Failed, Existing, records
  <2> QED
    BY <1>0, <2>2, <2>3, ThreadKept, ShapeOfBroadcastsNext
<1>21. ASSUME NEW d \in Desks, DieAtDesk(d) PROVE BroadcastsTypeOK'
  BY <1>21 DEF BroadcastsTypeOK, Existing, DieAtDesk, Done, DeskIdle, records, history
<1>22. CASE UNCHANGED bvars
  BY <1>22 DEF BroadcastsTypeOK, Existing, bvars, records, history
<1> QED
  BY <1>1, <1>2, <1>3, <1>4, <1>5, <1>6, <1>7, <1>8, <1>9, <1>10, <1>11, <1>12, <1>13,
     <1>14, <1>15, <1>16, <1>17, <1>18, <1>19, <1>20, <1>21, <1>22
  DEF BroadcastsNext, TickStep, DeskStep

\* Every step leaves a broadcast alone that was never due.
LEMMA NotYetDueKept ==
  ASSUME BroadcastsInv, [BroadcastsNext]_bvars PROVE NotYetDue'
<1> USE BroadcastsAssumption DEF BroadcastsInv, Shapes
<1>0. UNCHANGED <<bstatus, tick, made>> => NotYetDue'
  BY DEF NotYetDue, InDispatch, Dispatching
<1>1. Shapes
  BY DEF BroadcastsTypeOK, Shapes
<1>2. ASSUME NEW d \in Desks, NEW b \in Broadcasts, BeginCreate(d, b) PROVE NotYetDue'
  BY <1>0, <1>2 DEF BeginCreate, Errand, records, history
<1>3. ASSUME NEW d \in Desks, NEW b \in Broadcasts, BeginSchedule(d, b) PROVE NotYetDue'
  BY <1>0, <1>3 DEF BeginSchedule, Errand, records, history
<1>4. ASSUME NEW d \in Desks, NEW b \in Broadcasts, BeginCancel(d, b) PROVE NotYetDue'
  BY <1>0, <1>4 DEF BeginCancel, Errand, records, history
<1>5. ASSUME NEW d \in Desks, NEW b \in Broadcasts, BeginDelete(d, b) PROVE NotYetDue'
  BY <1>0, <1>5 DEF BeginDelete, Errand, records, history
<1>6. ASSUME NEW d \in Desks, CreateBroadcast(d) PROVE NotYetDue'
  BY <1>6
  DEF NotYetDue, InDispatch, Dispatching, BroadcastsTypeOK, CreateBroadcast, Done,
      DeskIdle, history
<1>7. ASSUME NEW d \in Desks, ScheduleBroadcast(d) PROVE NotYetDue'
  BY <1>7
  DEF NotYetDue, InDispatch, Dispatching, BroadcastsTypeOK, ScheduleBroadcast, Done,
      DeskIdle, Existing
<1>8. ASSUME NEW d \in Desks, CancelBroadcast(d) PROVE NotYetDue'
  BY <1>8
  DEF NotYetDue, InDispatch, Dispatching, BroadcastsTypeOK, CancelBroadcast, Done,
      DeskIdle, Existing
<1>9. ASSUME NEW d \in Desks, DeleteBroadcast(d) PROVE NotYetDue'
  BY <1>9
  DEF NotYetDue, InDispatch, Dispatching, BroadcastsTypeOK, DeleteBroadcast, Done,
      DeskIdle, Existing, history
<1>10. ASSUME UpdateTemplate PROVE NotYetDue'
  BY <1>0, <1>10 DEF UpdateTemplate, history
<1>11. ASSUME NEW d \in Desks, BeginDeleteTemplate(d) PROVE NotYetDue'
  BY <1>0, <1>11 DEF BeginDeleteTemplate, Errand, records, history
<1>12. ASSUME NEW d \in Desks, DeleteTemplate(d) PROVE NotYetDue'
  BY <1>0, <1>12 DEF DeleteTemplate, history
<1>13. ASSUME NEW u \in Readers, UpdatePreference(u) PROVE NotYetDue'
  BY <1>0, <1>13 DEF UpdatePreference
<1>14. ASSUME NEW u \in Readers, ChangeUser(u) PROVE NotYetDue'
  BY <1>0, <1>14 DEF ChangeUser
<1>15. ASSUME NEW t \in Ticks, StartTick(t) PROVE NotYetDue'
  <2>1. Started(t)
    BY <1>15, Starting
  <2> QED
    BY <1>1, <2>1
    DEF Started, Frees, OnlyTick, records, history, NotYetDue, InDispatch, Dispatching
<1>16. ASSUME NEW t \in Ticks, ReadBroadcast(t) PROVE NotYetDue'
  <2>1. Opened(t)
    BY <1>16, Reading
  <2> QED
    BY <1>1, <2>1
    DEF Opened, Frees, Takes, OnlyTick, records, NotYetDue, InDispatch, Dispatching
<1>17. ASSUME NEW t \in Ticks, ReadTemplate(t) PROVE NotYetDue'
  <2>1. Checked(t)
    BY <1>17, Checking
  <2> QED
    BY <1>1, <2>1
    DEF Checked, Goes, OnlyTick, records, history, NotYetDue, InDispatch, Dispatching
<1>18. ASSUME NEW t \in Ticks, VoidBroadcast(t) \/ CloseBroadcast(t) PROVE NotYetDue'
  <2>1. Parted(t)
    BY <1>18, Ending
  <2>2. \A b \in Broadcasts : bstatus'[b] \in {"none", "DRAFT"} => bstatus[b] \in {"none", "DRAFT"}
    BY <2>1 DEF Parted, Writes
  <2>3. \A s \in Ticks, b \in Broadcasts : tick'[s].b = b => tick[s].b = b
    BY <2>1 DEF Parted, Frees, OnlyTick
  <2>4. made' = made
    BY <2>1 DEF Parted
  <2> QED
    BY <2>2, <2>3, <2>4 DEF NotYetDue, InDispatch, Dispatching
<1>19. ASSUME NEW t \in Ticks, ListUsers(t) PROVE NotYetDue'
  <2>1. Listed(t)
    BY <1>19, Listing
  <2> QED
    BY <1>1, <2>1
    DEF Listed, Goes, OnlyTick, records, history, NotYetDue, InDispatch, Dispatching
<1>20. ASSUME NEW t \in Ticks, SendMessage(t) PROVE NotYetDue'
  <2>1. Sent(t)
    BY <1>20, Sending
  <2>2. /\ tick[t].b \in Broadcasts
        /\ UNCHANGED <<bstatus, audience, enabled, desk, moved, jumped, silenced>>
    BY <2>1 DEF Sent
  <2>3. ASSUME Frees(t), made' = made, excused' = excused \cup {tick[t].b} PROVE NotYetDue'
    BY <1>1, <2>2, <2>3 DEF Frees, OnlyTick, NotYetDue, InDispatch, Dispatching
  <2>4. ASSUME NEW u \in tick[t].page, u \in Readers,
               Goes(t, tick[t].cursor, tick[t].page \ {u}, {"listing", "sending"}),
               Mails(tick[t].b, u), excused' = excused
        PROVE  NotYetDue'
    <3>1. \A s \in Ticks \ {t} : tick'[s] = tick[s]
      BY <2>4 DEF Goes, OnlyTick
    <3>2. /\ tick'[t].b = tick[t].b /\ tick'[t].cursor = tick[t].cursor
          /\ tick'[t].page = tick[t].page \ {u} /\ tick'[t].pc # "closing"
      BY <2>4 DEF Goes
    <3>3. bstatus[tick[t].b] \notin {"none", "DRAFT"}
      BY <2>2 DEF NotYetDue, InDispatch, Dispatching
    <3>4. \A b \in Broadcasts \ {tick[t].b}, v \in Readers : made'[b][v] = made[b][v]
      BY <2>4 DEF Mails
    <3> QED
      BY <2>2, <3>1, <3>2, <3>3, <3>4 DEF NotYetDue, InDispatch, Dispatching
  <2> QED
    BY <2>1, <2>3, <2>4 DEF Sent
<1>21. ASSUME NEW t \in Ticks, DispatchFails(t) \/ DieInTick(t) PROVE NotYetDue'
  <2>1. Failed(t)
    BY <1>21, Failing
  <2> QED
    BY <1>1, <2>1 DEF Failed, Frees, OnlyTick, records, NotYetDue, InDispatch, Dispatching
<1>22. ASSUME NEW d \in Desks, DieAtDesk(d) PROVE NotYetDue'
  BY <1>0, <1>22 DEF DieAtDesk, records, history
<1>23. CASE UNCHANGED bvars
  BY <1>0, <1>23 DEF bvars, records, history
<1> QED
  BY <1>0, <1>2, <1>3, <1>4, <1>5, <1>6, <1>7, <1>8, <1>9, <1>10, <1>11, <1>12, <1>13, 
     <1>14, <1>15, <1>16, <1>17, <1>18, <1>19, <1>20, <1>21, <1>22, <1>23
  DEF BroadcastsNext, TickStep, DeskStep

\* Every step but the excused ones keeps a dispatch to one tick that goes forward.
LEMMA OneDispatchKept ==
  ASSUME BroadcastsInv, [BroadcastsNext]_bvars PROVE OneDispatch'
<1> USE BroadcastsAssumption DEF BroadcastsInv, Shapes
<1>0. UNCHANGED <<bstatus, made, tick, excused>> => OneDispatch'
  BY DEF NotYetDue, OneDispatch, InDispatch, Dispatching
<1>1. Shapes
  BY DEF BroadcastsTypeOK, Shapes
<1>2. ASSUME NEW d \in Desks, NEW b \in Broadcasts, BeginCreate(d, b) PROVE OneDispatch'
  BY <1>0, <1>2 DEF BeginCreate, Errand, records, history
<1>3. ASSUME NEW d \in Desks, NEW b \in Broadcasts, BeginSchedule(d, b) PROVE OneDispatch'
  BY <1>0, <1>3 DEF BeginSchedule, Errand, records, history
<1>4. ASSUME NEW d \in Desks, NEW b \in Broadcasts, BeginCancel(d, b) PROVE OneDispatch'
  BY <1>0, <1>4 DEF BeginCancel, Errand, records, history
<1>5. ASSUME NEW d \in Desks, NEW b \in Broadcasts, BeginDelete(d, b) PROVE OneDispatch'
  BY <1>0, <1>5 DEF BeginDelete, Errand, records, history
<1>6. ASSUME NEW d \in Desks, CreateBroadcast(d) PROVE OneDispatch'
  BY <1>6
  DEF NotYetDue, OneDispatch, InDispatch, Dispatching, BroadcastsTypeOK, CreateBroadcast,
      Done, DeskIdle, history
<1>7. ASSUME NEW d \in Desks, ScheduleBroadcast(d) PROVE OneDispatch'
  <2>1. /\ UNCHANGED <<made, tick>>
        /\ \A c \in Broadcasts :
             bstatus'[c] = IF c = desk[d].b /\ Existing(c) THEN "SCHEDULED" ELSE bstatus[c]
    BY <1>1, <1>7 DEF ScheduleBroadcast
  <2>2. excused' = IF bstatus[desk[d].b] \in {"SENT", "CANCELLED"}
                   THEN excused \cup {desk[d].b} ELSE excused
    BY <1>7 DEF ScheduleBroadcast
  <2> QED
    BY <1>1, <2>1, <2>2 DEF Existing, NotYetDue, OneDispatch, InDispatch, Dispatching
<1>8. ASSUME NEW d \in Desks, CancelBroadcast(d) PROVE OneDispatch'
  <2>1. /\ UNCHANGED <<made, tick>>
        /\ \A c \in Broadcasts :
             bstatus'[c] = IF c = desk[d].b /\ Existing(c) THEN "CANCELLED" ELSE bstatus[c]
    BY <1>1, <1>8 DEF CancelBroadcast
  <2>2. excused' = excused
    BY <1>8 DEF CancelBroadcast
  <2> QED
    BY <1>1, <2>1, <2>2 DEF Existing, NotYetDue, OneDispatch, InDispatch, Dispatching
<1>9. ASSUME NEW d \in Desks, DeleteBroadcast(d) PROVE OneDispatch'
  BY <1>9
  DEF NotYetDue, OneDispatch, InDispatch, Dispatching, BroadcastsTypeOK, DeleteBroadcast,
      Done, DeskIdle, Existing, history
<1>10. ASSUME UpdateTemplate PROVE OneDispatch'
  BY <1>0, <1>10 DEF UpdateTemplate, history
<1>11. ASSUME NEW d \in Desks, BeginDeleteTemplate(d) PROVE OneDispatch'
  BY <1>0, <1>11 DEF BeginDeleteTemplate, Errand, records, history
<1>12. ASSUME NEW d \in Desks, DeleteTemplate(d) PROVE OneDispatch'
  BY <1>0, <1>12 DEF DeleteTemplate, history
<1>13. ASSUME NEW u \in Readers, UpdatePreference(u) PROVE OneDispatch'
  BY <1>0, <1>13 DEF UpdatePreference
<1>14. ASSUME NEW u \in Readers, ChangeUser(u) PROVE OneDispatch'
  BY <1>0, <1>14 DEF ChangeUser
<1>15. ASSUME NEW t \in Ticks, StartTick(t) PROVE OneDispatch'
  <2>1. Started(t)
    BY <1>15, Starting
  <2>2. UNCHANGED <<bstatus, made, excused>>
    BY <2>1 DEF Started, records, history
  <2>3. tick[t].b = NoBroadcast /\ tick'[t].b = NoBroadcast
    BY <2>1 DEF Started, Frees
  <2>4. \A s \in Ticks \ {t} : tick'[s] = tick[s]
    BY <2>1 DEF Started, Frees, OnlyTick
  <2>5. \A b \in Broadcasts : InDispatch(b)' <=> InDispatch(b)
    BY <2>3, <2>4 DEF InDispatch, Dispatching
  <2> QED
    BY <2>2, <2>3, <2>4, <2>5 DEF OneDispatch, Dispatching
<1>16. ASSUME NEW t \in Ticks, ReadBroadcast(t) PROVE OneDispatch'
  <2>1. Opened(t)
    BY <1>16, Reading
  <2>2. UNCHANGED <<bstatus, made>> /\ tick[t].b = NoBroadcast
    BY <2>1 DEF Opened, records
  <2>3. CASE Frees(t) /\ UNCHANGED excused
    BY <1>1, <2>2, <2>3 DEF Frees, OnlyTick, OneDispatch, InDispatch, Dispatching
  <2>4. ASSUME NEW b \in Broadcasts, bstatus[b] = "SCHEDULED", Takes(t, b),
               excused' = IF InDispatch(b) THEN excused \cup {b} ELSE excused
        PROVE  OneDispatch'
    <3>1. tick'[t].b = b /\ \A s \in Ticks \ {t} : tick'[s] = tick[s]
      BY <2>4 DEF Takes, OnlyTick
    <3>2. \A c \in Broadcasts \ {b} : InDispatch(c)' <=> InDispatch(c)
      BY <2>2, <3>1 DEF InDispatch, Dispatching
    <3>3. b \notin excused' => (\A s \in Ticks : tick[s].b # b) /\ \A u \in Readers : made[b][u] = 0
      BY <2>4 DEF OneDispatch, InDispatch, Dispatching
    <3>4. InDispatch(b)'
      BY <3>1 DEF InDispatch, Dispatching
    <3>5. excused \subseteq excused'
      BY <2>4
    <3> HIDE DEF BroadcastsInv
    <3>6. OneDispatch
      BY DEF BroadcastsInv
    <3> QED
      BY <2>2, <3>1, <3>2, <3>3, <3>4, <3>5, <3>6 DEF OneDispatch, Dispatching
  <2> QED
    BY <2>1, <2>3, <2>4 DEF Opened
<1>17. ASSUME NEW t \in Ticks, ReadTemplate(t) PROVE OneDispatch'
  <2>1. Checked(t)
    BY <1>17, Checking
  <2>2. UNCHANGED <<bstatus, made, excused>> /\ OnlyTick(t)
    BY <2>1 DEF Checked, Goes, records, history
  <2>3. \A s \in Ticks : tick'[s].b = tick[s].b
    BY <2>1 DEF Checked, Goes, OnlyTick
  <2>4. \A b : InDispatch(b)' <=> InDispatch(b)
    BY <2>3 DEF InDispatch, Dispatching
  <2>5. tick'[t].cursor = tick[t].cursor /\ tick'[t].page = tick[t].page
    BY <2>1 DEF Checked, Goes
  <2>6. \A b \in Broadcasts \ excused, s \in Ticks, u \in Readers : tick[s].b = b /\ made[b][u] # 0 =>
          u <= tick'[s].cursor /\ u \notin tick'[s].page
    BY <1>1, <2>2, <2>5 DEF OnlyTick, OneDispatch, Dispatching, Readers
  <2> QED
    BY <2>2, <2>3, <2>4, <2>6 DEF OneDispatch, Dispatching
<1>18. ASSUME NEW t \in Ticks, VoidBroadcast(t) \/ CloseBroadcast(t) PROVE OneDispatch'
  <2>1. Parted(t)
    BY <1>18, Ending
  <2>2. UNCHANGED <<made, excused>> /\ tick[t].b \in Broadcasts /\ tick'[t].b = NoBroadcast
    BY <2>1 DEF Parted, Frees, history
  <2>3. \A s \in Ticks \ {t} : tick'[s] = tick[s]
    BY <2>1 DEF Parted, Frees, OnlyTick
  <2>4. /\ bstatus'[tick[t].b] # "SCHEDULED"
        /\ \A b \in Broadcasts \ {tick[t].b} : bstatus'[b] = bstatus[b]
    BY <2>1 DEF Parted, Writes, Existing
  <2>5. \A b \in Broadcasts \ {tick[t].b} : InDispatch(b)' <=> InDispatch(b)
    BY <2>2, <2>3 DEF InDispatch, Dispatching
  <2> QED
    BY <2>2, <2>3, <2>4, <2>5 DEF OneDispatch, Dispatching
<1>19. ASSUME NEW t \in Ticks, ListUsers(t) PROVE OneDispatch'
  <2>1. Listed(t)
    BY <1>19, Listing
  <2>2. UNCHANGED <<bstatus, made, excused>> /\ OnlyTick(t)
    BY <2>1 DEF Listed, Goes, records, history
  <2>3. \A s \in Ticks : tick'[s].b = tick[s].b
    BY <2>1 DEF Listed, Goes, OnlyTick
  <2>4. \A b : InDispatch(b)' <=> InDispatch(b)
    BY <2>3 DEF InDispatch, Dispatching
  <2>5. /\ tick[t].cursor \in Nat /\ tick'[t].cursor \in Nat
        /\ tick[t].cursor <= tick'[t].cursor
        /\ \A u \in tick'[t].page : u \in Nat /\ tick[t].cursor < u
    <3> DEFINE c == tick[t].cursor
    <3>1. c \in 0 .. LastReader /\ audience \subseteq Readers
      BY <1>1
    <3>2. \A u \in Users(c) : u \in Nat /\ c < u
      <4>1. Users(c) \subseteq Readers /\ \A u \in Users(c) : c < u
        BY <3>1, RowsFacts, PageFacts
      <4> QED
        BY <4>1 DEF Readers
    <3>3. CASE Users(c) = {}
      BY <2>1, <3>1, <3>3 DEF Listed, Goes
    <3>4. CASE Users(c) # {}
      <4>1. LastOf(Users(c)) \in Users(c)
        BY <3>1, <3>4, PageFacts
      <4>2. tick'[t].cursor = LastOf(Users(c)) /\ tick'[t].page \subseteq Users(c)
        BY <2>1, <3>4 DEF Listed, Goes
      <4> HIDE DEF c
      <4>3. c \in Nat /\ c <= LastOf(Users(c))
        BY <3>1, <3>2, <4>1
      <4> QED
        BY <3>2, <4>1, <4>2, <4>3 DEF c
    <3> QED
      BY <3>3, <3>4
  <2>6. \A b \in Broadcasts \ excused, s \in Ticks, u \in Readers : tick[s].b = b /\ made[b][u] # 0 =>
          u <= tick'[s].cursor /\ u \notin tick'[s].page
    BY <1>1, <2>2, <2>5 DEF OnlyTick, OneDispatch, Dispatching, Readers
  <2> QED
    BY <2>2, <2>3, <2>4, <2>6 DEF OneDispatch, Dispatching
<1>20. ASSUME NEW t \in Ticks, SendMessage(t) PROVE OneDispatch'
  <2>1. Sent(t)
    BY <1>20, Sending
  <2>2. /\ tick[t].b \in Broadcasts
        /\ UNCHANGED <<bstatus, audience, enabled, desk, moved, jumped, silenced>>
    BY <2>1 DEF Sent
  <2>3. ASSUME Frees(t), made' = made, excused' = excused \cup {tick[t].b} PROVE OneDispatch'
    <3>1. tick'[t].b = NoBroadcast /\ \A s \in Ticks \ {t} : tick'[s] = tick[s]
      BY <2>3 DEF Frees, OnlyTick
    <3>2. \A b \in Broadcasts \ excused' : InDispatch(b)' <=> InDispatch(b)
      BY <2>2, <2>3, <3>1 DEF InDispatch, Dispatching
    <3> QED
      BY <2>2, <2>3, <3>1, <3>2 DEF OneDispatch, Dispatching
  <2>4. ASSUME NEW u \in tick[t].page, u \in Readers,
               Goes(t, tick[t].cursor, tick[t].page \ {u}, {"listing", "sending"}),
               Mails(tick[t].b, u), excused' = excused
        PROVE  OneDispatch'
    <3>1. \A s \in Ticks \ {t} : tick'[s] = tick[s]
      BY <2>4 DEF Goes, OnlyTick
    <3>2. /\ tick'[t].b = tick[t].b /\ tick'[t].cursor = tick[t].cursor
          /\ tick'[t].page = tick[t].page \ {u} /\ tick'[t].pc # "closing"
      BY <2>4 DEF Goes
    <3>3. \A b \in Broadcasts, v \in Readers : b # tick[t].b \/ v # u => made'[b][v] = made[b][v]
      BY <2>4 DEF Mails
    <3>4. u <= tick[t].cursor
      BY <1>1, <2>4
    <3>5. \A b \in Broadcasts : InDispatch(b) <=> \E s \in Ticks : tick'[s].b = b
      BY <3>1, <3>2 DEF InDispatch, Dispatching
    <3>6. \A b \in Broadcasts \ excused', p, s \in Ticks : tick'[p].b = b /\ tick'[s].b = b => p = s
      BY <2>4, <3>1, <3>2 DEF OneDispatch, Dispatching
    <3>7. ASSUME NEW b \in Broadcasts \ excused', bstatus'[b] = "SCHEDULED",
                 ~\E s \in Ticks : tick'[s].b = b,
                 NEW v \in Readers
          PROVE  made'[b][v] = 0
      BY <2>2, <2>4, <3>2, <3>3, <3>5, <3>7 DEF OneDispatch
    <3>8. ASSUME NEW b \in Broadcasts \ excused', NEW s \in Ticks, NEW v \in Readers,
                 tick'[s].b = b, made'[b][v] # 0
          PROVE  v <= tick'[s].cursor /\ v \notin tick'[s].page
      <4>1. tick[s].b = b /\ b \in Broadcasts \ excused
        BY <2>4, <3>1, <3>2, <3>8
      <4>2. CASE b = tick[t].b /\ v = u
        BY <3>2, <3>4, <3>6, <3>8, <4>1, <4>2
      <4>3. CASE b # tick[t].b \/ v # u
        BY <3>1, <3>2, <3>3, <3>8, <4>1, <4>3 DEF OneDispatch, Dispatching
      <4> QED
        BY <4>2, <4>3
    <3> QED
      BY <3>6, <3>7, <3>8 DEF OneDispatch, InDispatch, Dispatching
  <2> QED
    BY <2>1, <2>3, <2>4 DEF Sent
<1>21. ASSUME NEW t \in Ticks, DispatchFails(t) \/ DieInTick(t) PROVE OneDispatch'
  <2>1. Failed(t)
    BY <1>21, Failing
  <2>2. ASSUME NEW b \in Broadcasts, b \notin excused'
        PROVE  /\ \A p, s \in Ticks : tick'[p].b = b /\ tick'[s].b = b => p = s
               /\ bstatus'[b] = "SCHEDULED" /\ (\A s \in Ticks : tick'[s].b # b) =>
                    \A u \in Readers : made'[b][u] = 0
               /\ \A s \in Ticks, u \in Readers : tick'[s].b = b /\ made'[b][u] # 0 =>
                    u <= tick'[s].cursor /\ u \notin tick'[s].page
    <3>1. \A p, s \in Ticks : tick'[p].b = b /\ tick'[s].b = b => p = s
      BY <1>1, <2>1, <2>2
      DEF Failed, Frees, OnlyTick, records, OneDispatch, InDispatch, Dispatching
    <3>2. bstatus'[b] = "SCHEDULED" /\ (\A s \in Ticks : tick'[s].b # b) =>
            \A u \in Readers : made'[b][u] = 0
      BY <1>1, <2>1, <2>2
      DEF Failed, Frees, OnlyTick, records, OneDispatch, InDispatch, Dispatching
    <3>3. \A s \in Ticks, u \in Readers : tick'[s].b = b /\ made'[b][u] # 0 =>
            u <= tick'[s].cursor /\ u \notin tick'[s].page
      BY <1>1, <2>1, <2>2
      DEF Failed, Frees, OnlyTick, records, OneDispatch, InDispatch, Dispatching
    <3> QED
      BY <3>1, <3>2, <3>3
  <2> QED
    BY <2>2 DEF OneDispatch, InDispatch, Dispatching
<1>22. ASSUME NEW d \in Desks, DieAtDesk(d) PROVE OneDispatch'
  BY <1>0, <1>22 DEF DieAtDesk, records, history
<1>23. CASE UNCHANGED bvars
  BY <1>0, <1>23 DEF bvars, records, history
<1> QED
  BY <1>0, <1>2, <1>3, <1>4, <1>5, <1>6, <1>7, <1>8, <1>9, <1>10, <1>11, <1>12, <1>13, 
     <1>14, <1>15, <1>16, <1>17, <1>18, <1>19, <1>20, <1>21, <1>22, <1>23
  DEF BroadcastsNext, TickStep, DeskStep

\* Every step of a single dispatch writes to readers it has not written to.
LEMMA OneMessageKept ==
  ASSUME BroadcastsInv, [BroadcastsNext]_bvars PROVE OneMessageEach'
<1> USE BroadcastsAssumption DEF BroadcastsInv, Shapes
<1>0. UNCHANGED <<made, excused>> => OneMessageEach'
  BY DEF OneMessageEach, OneDispatch, Dispatching
<1>1. Shapes
  BY DEF BroadcastsTypeOK, Shapes
<1>2. ASSUME NEW d \in Desks, NEW b \in Broadcasts, BeginCreate(d, b) PROVE OneMessageEach'
  BY <1>0, <1>2 DEF BeginCreate, Errand, records, history
<1>3. ASSUME NEW d \in Desks, NEW b \in Broadcasts, BeginSchedule(d, b) PROVE OneMessageEach'
  BY <1>0, <1>3 DEF BeginSchedule, Errand, records, history
<1>4. ASSUME NEW d \in Desks, NEW b \in Broadcasts, BeginCancel(d, b) PROVE OneMessageEach'
  BY <1>0, <1>4 DEF BeginCancel, Errand, records, history
<1>5. ASSUME NEW d \in Desks, NEW b \in Broadcasts, BeginDelete(d, b) PROVE OneMessageEach'
  BY <1>0, <1>5 DEF BeginDelete, Errand, records, history
<1>6. ASSUME NEW d \in Desks, CreateBroadcast(d) PROVE OneMessageEach'
  BY <1>0, <1>6 DEF CreateBroadcast, history
<1>7. ASSUME NEW d \in Desks, ScheduleBroadcast(d) PROVE OneMessageEach'
  BY <1>7
  DEF OneMessageEach, OneDispatch, Dispatching, BroadcastsTypeOK, ScheduleBroadcast, Done,
      DeskIdle, Existing
<1>8. ASSUME NEW d \in Desks, CancelBroadcast(d) PROVE OneMessageEach'
  BY <1>0, <1>8 DEF CancelBroadcast
<1>9. ASSUME NEW d \in Desks, DeleteBroadcast(d) PROVE OneMessageEach'
  BY <1>0, <1>9 DEF DeleteBroadcast, history
<1>10. ASSUME UpdateTemplate PROVE OneMessageEach'
  BY <1>0, <1>10 DEF UpdateTemplate, history
<1>11. ASSUME NEW d \in Desks, BeginDeleteTemplate(d) PROVE OneMessageEach'
  BY <1>0, <1>11 DEF BeginDeleteTemplate, Errand, records, history
<1>12. ASSUME NEW d \in Desks, DeleteTemplate(d) PROVE OneMessageEach'
  BY <1>0, <1>12 DEF DeleteTemplate, history
<1>13. ASSUME NEW u \in Readers, UpdatePreference(u) PROVE OneMessageEach'
  BY <1>0, <1>13 DEF UpdatePreference
<1>14. ASSUME NEW u \in Readers, ChangeUser(u) PROVE OneMessageEach'
  BY <1>0, <1>14 DEF ChangeUser
<1>15. ASSUME NEW t \in Ticks, StartTick(t) PROVE OneMessageEach'
  BY <1>0, <1>15 DEF StartTick, records, history
<1>16. ASSUME NEW t \in Ticks, ReadBroadcast(t) PROVE OneMessageEach'
  <2>1. Opened(t)
    BY <1>16, Reading
  <2> QED
    BY <1>1, <2>1
    DEF Opened, Frees, Takes, OnlyTick, records, OneMessageEach, OneDispatch, Dispatching
<1>17. ASSUME NEW t \in Ticks, ReadTemplate(t) PROVE OneMessageEach'
  BY <1>0, <1>17 DEF ReadTemplate, records, history
<1>18. ASSUME NEW t \in Ticks, VoidBroadcast(t) \/ CloseBroadcast(t) PROVE OneMessageEach'
  BY <1>0, <1>18, Ending DEF Parted, history
<1>19. ASSUME NEW t \in Ticks, ListUsers(t) PROVE OneMessageEach'
  BY <1>0, <1>19 DEF ListUsers, records, history
<1>20. ASSUME NEW t \in Ticks, SendMessage(t) PROVE OneMessageEach'
  <2>1. Sent(t)
    BY <1>20, Sending
  <2> QED
    BY <1>1, <2>1
    DEF Sent, Frees, Goes, OnlyTick, Mails, OneMessageEach, OneDispatch, Dispatching
<1>21. ASSUME NEW t \in Ticks, DispatchFails(t) \/ DieInTick(t) PROVE OneMessageEach'
  <2>1. Failed(t)
    BY <1>21, Failing
  <2> QED
    BY <1>1, <2>1
    DEF Failed, Frees, OnlyTick, records, OneMessageEach, OneDispatch, Dispatching
<1>22. ASSUME NEW d \in Desks, DieAtDesk(d) PROVE OneMessageEach'
  BY <1>0, <1>22 DEF DieAtDesk, records, history
<1>23. CASE UNCHANGED bvars
  BY <1>0, <1>23 DEF bvars, records, history
<1> QED
  BY <1>0, <1>2, <1>3, <1>4, <1>5, <1>6, <1>7, <1>8, <1>9, <1>10, <1>11, <1>12, <1>13, 
     <1>14, <1>15, <1>16, <1>17, <1>18, <1>19, <1>20, <1>21, <1>22, <1>23
  DEF BroadcastsNext, TickStep, DeskStep

\* Every step leaves nobody out behind the cursor, but who was out of reach.
LEMMA OnItsWayKept ==
  ASSUME BroadcastsInv, [BroadcastsNext]_bvars PROVE OnItsWay'
<1> USE BroadcastsAssumption DEF BroadcastsInv, Shapes
<1>0. UNCHANGED <<tick, moved, audience, enabled, jumped, made>> => OnItsWay'
  BY DEF OnItsWay, InDispatch, Dispatching
<1>1. Shapes
  BY DEF BroadcastsTypeOK, Shapes
<1>2. ASSUME NEW d \in Desks, NEW b \in Broadcasts, BeginCreate(d, b) PROVE OnItsWay'
  BY <1>0, <1>2 DEF BeginCreate, Errand, records, history
<1>3. ASSUME NEW d \in Desks, NEW b \in Broadcasts, BeginSchedule(d, b) PROVE OnItsWay'
  BY <1>0, <1>3 DEF BeginSchedule, Errand, records, history
<1>4. ASSUME NEW d \in Desks, NEW b \in Broadcasts, BeginCancel(d, b) PROVE OnItsWay'
  BY <1>0, <1>4 DEF BeginCancel, Errand, records, history
<1>5. ASSUME NEW d \in Desks, NEW b \in Broadcasts, BeginDelete(d, b) PROVE OnItsWay'
  BY <1>0, <1>5 DEF BeginDelete, Errand, records, history
<1>6. ASSUME NEW d \in Desks, CreateBroadcast(d) PROVE OnItsWay'
  BY <1>0, <1>6 DEF CreateBroadcast, history
<1>7. ASSUME NEW d \in Desks, ScheduleBroadcast(d) PROVE OnItsWay'
  BY <1>0, <1>7 DEF ScheduleBroadcast
<1>8. ASSUME NEW d \in Desks, CancelBroadcast(d) PROVE OnItsWay'
  BY <1>0, <1>8 DEF CancelBroadcast
<1>9. ASSUME NEW d \in Desks, DeleteBroadcast(d) PROVE OnItsWay'
  BY <1>0, <1>9 DEF DeleteBroadcast, history
<1>10. ASSUME UpdateTemplate PROVE OnItsWay'
  BY <1>0, <1>10 DEF UpdateTemplate, history
<1>11. ASSUME NEW d \in Desks, BeginDeleteTemplate(d) PROVE OnItsWay'
  BY <1>0, <1>11 DEF BeginDeleteTemplate, Errand, records, history
<1>12. ASSUME NEW d \in Desks, DeleteTemplate(d) PROVE OnItsWay'
  BY <1>0, <1>12 DEF DeleteTemplate, history
<1>13. ASSUME NEW u \in Readers, UpdatePreference(u) PROVE OnItsWay'
  BY <1>13
  DEF OnItsWay, InDispatch, Dispatching, BroadcastsTypeOK, UpdatePreference, Disturb
<1>14. ASSUME NEW u \in Readers, ChangeUser(u) PROVE OnItsWay'
  BY <1>14 DEF OnItsWay, InDispatch, Dispatching, BroadcastsTypeOK, ChangeUser, Disturb
<1>15. ASSUME NEW t \in Ticks, StartTick(t) PROVE OnItsWay'
  <2>1. Started(t)
    BY <1>15, Starting
  <2> QED
    BY <1>1, <2>1
    DEF Started, Frees, OnlyTick, records, history, OnItsWay, InDispatch, Dispatching
<1>16. ASSUME NEW t \in Ticks, ReadBroadcast(t) PROVE OnItsWay'
  <2>1. Opened(t)
    BY <1>16, Reading
  <2>2. CASE Frees(t) /\ UNCHANGED moved
    BY <1>1, <2>1, <2>2 DEF Opened, Frees, OnlyTick, records, OnItsWay, Dispatching
  <2>3. ASSUME NEW b \in Broadcasts, Takes(t, b),
               moved'[b] = moved[b] \cup (Readers \ (audience \cap enabled)),
               \A c \in Broadcasts \ {b} : moved'[c] = moved[c]
        PROVE  OnItsWay'
    <3>1. UNCHANGED <<made, audience, enabled, jumped>>
      BY <2>1 DEF Opened, records
    <3>2. \A u \in Readers \ moved'[b] : u \in audience /\ u \in enabled /\ u \notin moved[b] /\ ~(u <= 0)
      BY <2>3 DEF Readers
    <3>3. ASSUME NEW s \in Ticks \ {t}, NEW c \in Broadcasts, tick'[s].b = c
          PROVE  tick[s].b = c /\ tick'[s] = tick[s] /\ Readers \ moved'[c] \subseteq Readers \ moved[c]
      BY <2>3, <3>3 DEF Takes, OnlyTick
    <3>4. tick'[t].b = b /\ tick'[t].cursor = 0 /\ tick'[t].pc = "checking"
      BY <2>3 DEF Takes
    <3> QED
      BY <3>1, <3>2, <3>3, <3>4 DEF OnItsWay, Dispatching
  <2> QED
    BY <2>1, <2>2, <2>3 DEF Opened
<1>17. ASSUME NEW t \in Ticks, ReadTemplate(t) PROVE OnItsWay'
  <2>1. Checked(t)
    BY <1>17, Checking
  <2> QED
    BY <1>1, <2>1
    DEF Checked, Goes, OnlyTick, records, history, OnItsWay, InDispatch, Dispatching
<1>18. ASSUME NEW t \in Ticks, VoidBroadcast(t) \/ CloseBroadcast(t) PROVE OnItsWay'
  <2>1. Parted(t)
    BY <1>18, Ending
  <2> QED
    BY <1>1, <2>1
    DEF Parted, Frees, OnlyTick, Writes, history, OnItsWay, InDispatch, Dispatching
<1>19. ASSUME NEW t \in Ticks, ListUsers(t) PROVE OnItsWay'
  <2>1. Listed(t)
    BY <1>19, Listing
  <2> DEFINE c == tick[t].cursor
  <2>2. /\ OnlyTick(t) /\ tick[t].b \in Broadcasts /\ tick'[t].b = tick[t].b
        /\ UNCHANGED <<made, audience, enabled, jumped, moved>>
        /\ tick[t].page = {} /\ tick[t].pc = "listing" /\ c \in Nat
    BY <1>1, <2>1 DEF Listed, Goes, records, history
  <2>3. \A s \in Ticks \ {t} : tick'[s] = tick[s]
    BY <2>2 DEF OnlyTick
  <2>4. ASSUME NEW b \in Broadcasts \ jumped, tick[t].b = b
        PROVE  /\ tick'[t].cursor = 0 \/ tick'[t].cursor \in audience
               /\ \A u \in Readers \ moved[b] :
                    u <= tick'[t].cursor \/ tick'[t].pc = "closing" =>
                      made[b][u] > 0 \/ u \in tick'[t].page
    <3>1. c = 0 \/ c \in audience
      BY <2>4 DEF OnItsWay, Dispatching
    <3>2. \A u \in Readers \ moved[b] : u \in audience /\ u \in enabled /\ u \in Nat
      BY <2>4 DEF OnItsWay, Dispatching, Readers
    <3>3. \A u \in Readers \ moved[b] : u <= c => made[b][u] > 0
      BY <2>2, <2>4 DEF OnItsWay, Dispatching
    <3>4. \A u \in audience : c < u => u \in FromCursor(c)
      BY <1>1, <3>1, RowsFacts
    <3>5. CASE Users(c) = {}
      <4>1. tick'[t].cursor = c /\ FromCursor(c) = {}
        BY <1>1, <2>1, <3>5, PageFacts DEF Listed, Goes
      <4>2. \A u \in Readers \ moved[b] : u <= c
        BY <2>2, <3>2, <3>4, <4>1
      <4> QED
        BY <3>1, <3>3, <4>1, <4>2
    <3>6. CASE Users(c) # {}
      <4>1. /\ tick'[t].cursor = LastOf(Users(c)) /\ tick'[t].page = Users(c) \cap enabled
            /\ tick'[t].pc # "closing"
        BY <2>1, <3>6 DEF Listed, Goes
      <4>2. /\ LastOf(Users(c)) \in audience
            /\ \A u \in FromCursor(c) : u <= LastOf(Users(c)) => u \in Users(c)
        BY <1>1, <3>6, RowsFacts, PageFacts
      <4>3. \A u \in Readers \ moved[b] : u <= LastOf(Users(c)) => u <= c \/ u \in Users(c)
        BY <2>2, <3>2, <3>4, <4>2
      <4> QED
        BY <3>2, <3>3, <4>1, <4>2, <4>3
    <3> QED
      BY <3>5, <3>6
  <2> HIDE DEF c
  <2> QED
    BY <2>2, <2>3, <2>4 DEF OnItsWay, Dispatching
<1>20. ASSUME NEW t \in Ticks, SendMessage(t) PROVE OnItsWay'
  <2>1. Sent(t)
    BY <1>20, Sending
  <2>2. /\ tick[t].b \in Broadcasts
        /\ UNCHANGED <<bstatus, audience, enabled, desk, moved, jumped, silenced>>
    BY <2>1 DEF Sent
  <2>3. ASSUME Frees(t), made' = made, excused' = excused \cup {tick[t].b} PROVE OnItsWay'
    BY <1>1, <2>2, <2>3 DEF Frees, OnlyTick, OnItsWay, Dispatching
  <2>4. ASSUME NEW u \in tick[t].page, u \in Readers,
               Goes(t, tick[t].cursor, tick[t].page \ {u}, {"listing", "sending"}),
               Mails(tick[t].b, u), excused' = excused
        PROVE  OnItsWay'
    <3>1. \A s \in Ticks \ {t} : tick'[s] = tick[s]
      BY <2>4 DEF Goes, OnlyTick
    <3>2. /\ tick'[t].b = tick[t].b /\ tick'[t].cursor = tick[t].cursor
          /\ tick'[t].page = tick[t].page \ {u} /\ tick'[t].pc # "closing"
      BY <2>4 DEF Goes
    <3>3. /\ made'[tick[t].b][u] > 0
          /\ \A b \in Broadcasts, v \in Readers : made[b][v] > 0 => made'[b][v] > 0
      BY <1>1, <2>2, <2>4 DEF Mails
    <3>4. tick[t].pc = "sending"
      BY <2>1 DEF Sent
    <3> QED
      BY <2>2, <2>4, <3>1, <3>2, <3>3, <3>4 DEF OnItsWay, Dispatching
  <2> QED
    BY <2>1, <2>3, <2>4 DEF Sent
<1>21. ASSUME NEW t \in Ticks, DispatchFails(t) \/ DieInTick(t) PROVE OnItsWay'
  <2>1. Failed(t)
    BY <1>21, Failing
  <2> QED
    BY <1>1, <2>1 DEF Failed, Frees, OnlyTick, records, OnItsWay, InDispatch, Dispatching
<1>22. ASSUME NEW d \in Desks, DieAtDesk(d) PROVE OnItsWay'
  BY <1>0, <1>22 DEF DieAtDesk, records, history
<1>23. CASE UNCHANGED bvars
  BY <1>0, <1>23 DEF bvars, records, history
<1> QED
  BY <1>0, <1>2, <1>3, <1>4, <1>5, <1>6, <1>7, <1>8, <1>9, <1>10, <1>11, <1>12, <1>13, 
     <1>14, <1>15, <1>16, <1>17, <1>18, <1>19, <1>20, <1>21, <1>22, <1>23
  DEF BroadcastsNext, TickStep, DeskStep

\* Every step that sends a broadcast had reached everybody who stayed in reach.
LEMMA ReachedKept ==
  ASSUME BroadcastsInv, [BroadcastsNext]_bvars PROVE AudienceReached'
<1> USE BroadcastsAssumption DEF BroadcastsInv, Shapes
<1>0. UNCHANGED <<bstatus, moved, made, jumped>> => AudienceReached'
  BY DEF AudienceReached, OnItsWay, Dispatching
<1>1. Shapes
  BY DEF BroadcastsTypeOK, Shapes
<1>2. ASSUME NEW d \in Desks, NEW b \in Broadcasts, BeginCreate(d, b) PROVE AudienceReached'
  BY <1>0, <1>2 DEF BeginCreate, Errand, records, history
<1>3. ASSUME NEW d \in Desks, NEW b \in Broadcasts, BeginSchedule(d, b) PROVE AudienceReached'
  BY <1>0, <1>3 DEF BeginSchedule, Errand, records, history
<1>4. ASSUME NEW d \in Desks, NEW b \in Broadcasts, BeginCancel(d, b) PROVE AudienceReached'
  BY <1>0, <1>4 DEF BeginCancel, Errand, records, history
<1>5. ASSUME NEW d \in Desks, NEW b \in Broadcasts, BeginDelete(d, b) PROVE AudienceReached'
  BY <1>0, <1>5 DEF BeginDelete, Errand, records, history
<1>6. ASSUME NEW d \in Desks, CreateBroadcast(d) PROVE AudienceReached'
  BY <1>6
  DEF AudienceReached, OnItsWay, Dispatching, BroadcastsTypeOK, CreateBroadcast, Done,
      DeskIdle, history
<1>7. ASSUME NEW d \in Desks, ScheduleBroadcast(d) PROVE AudienceReached'
  BY <1>7
  DEF AudienceReached, OnItsWay, Dispatching, BroadcastsTypeOK, ScheduleBroadcast, Done,
      DeskIdle, Existing
<1>8. ASSUME NEW d \in Desks, CancelBroadcast(d) PROVE AudienceReached'
  BY <1>8
  DEF AudienceReached, OnItsWay, Dispatching, BroadcastsTypeOK, CancelBroadcast, Done,
      DeskIdle, Existing
<1>9. ASSUME NEW d \in Desks, DeleteBroadcast(d) PROVE AudienceReached'
  BY <1>9
  DEF AudienceReached, OnItsWay, Dispatching, BroadcastsTypeOK, DeleteBroadcast, Done,
      DeskIdle, Existing, history
<1>10. ASSUME UpdateTemplate PROVE AudienceReached'
  BY <1>0, <1>10 DEF UpdateTemplate, history
<1>11. ASSUME NEW d \in Desks, BeginDeleteTemplate(d) PROVE AudienceReached'
  BY <1>0, <1>11 DEF BeginDeleteTemplate, Errand, records, history
<1>12. ASSUME NEW d \in Desks, DeleteTemplate(d) PROVE AudienceReached'
  BY <1>0, <1>12 DEF DeleteTemplate, history
<1>13. ASSUME NEW u \in Readers, UpdatePreference(u) PROVE AudienceReached'
  BY <1>13
  DEF AudienceReached, OnItsWay, Dispatching, BroadcastsTypeOK, UpdatePreference, Disturb
<1>14. ASSUME NEW u \in Readers, ChangeUser(u) PROVE AudienceReached'
  BY <1>14 DEF AudienceReached, OnItsWay, Dispatching, BroadcastsTypeOK, ChangeUser, Disturb
<1>15. ASSUME NEW t \in Ticks, StartTick(t) PROVE AudienceReached'
  BY <1>0, <1>15 DEF StartTick, records, history
<1>16. ASSUME NEW t \in Ticks, ReadBroadcast(t) PROVE AudienceReached'
  <2>1. Opened(t)
    BY <1>16, Reading
  <2> QED
    BY <1>1, <2>1
    DEF Opened, Frees, Takes, OnlyTick, records, AudienceReached, OnItsWay, Dispatching
<1>17. ASSUME NEW t \in Ticks, ReadTemplate(t) PROVE AudienceReached'
  BY <1>0, <1>17 DEF ReadTemplate, records, history
<1>18. ASSUME NEW t \in Ticks, VoidBroadcast(t) \/ CloseBroadcast(t) PROVE AudienceReached'
  <2>1. Parted(t)
    BY <1>18, Ending
  <2> DEFINE b == tick[t].b
  <2>2. /\ b \in Broadcasts /\ UNCHANGED <<made, moved, jumped>>
        /\ \A c \in Broadcasts \ {b} : bstatus'[c] = bstatus[c]
    BY <2>1 DEF Parted, Writes, history
  <2>3. bstatus'[b] = "SENT" => bstatus[b] = "SENT" \/ tick[t].pc = "closing"
    BY <2>1 DEF Parted, Writes
  <2>4. tick[t].page = {} \/ tick[t].pc # "closing"
    BY DEF BroadcastsTypeOK
  <2>5. tick[t].pc = "closing" /\ b \notin jumped => \A u \in Readers \ moved[b] : made[b][u] > 0
    BY <2>2, <2>4 DEF OnItsWay, Dispatching
  <2> HIDE DEF b
  <2> QED
    BY <2>2, <2>3, <2>5 DEF AudienceReached
<1>19. ASSUME NEW t \in Ticks, ListUsers(t) PROVE AudienceReached'
  BY <1>0, <1>19 DEF ListUsers, records, history
<1>20. ASSUME NEW t \in Ticks, SendMessage(t) PROVE AudienceReached'
  <2>1. Sent(t)
    BY <1>20, Sending
  <2> QED
    BY <1>1, <2>1
    DEF Sent, Frees, Goes, OnlyTick, Mails, AudienceReached, OnItsWay, Dispatching
<1>21. ASSUME NEW t \in Ticks, DispatchFails(t) \/ DieInTick(t) PROVE AudienceReached'
  BY <1>0, <1>21, Failing DEF Failed, records
<1>22. ASSUME NEW d \in Desks, DieAtDesk(d) PROVE AudienceReached'
  BY <1>0, <1>22 DEF DieAtDesk, records, history
<1>23. CASE UNCHANGED bvars
  BY <1>0, <1>23 DEF bvars, records, history
<1> QED
  BY <1>0, <1>2, <1>3, <1>4, <1>5, <1>6, <1>7, <1>8, <1>9, <1>10, <1>11, <1>12, <1>13, 
     <1>14, <1>15, <1>16, <1>17, <1>18, <1>19, <1>20, <1>21, <1>22, <1>23
  DEF BroadcastsNext, TickStep, DeskStep

\* Every step leaves a silenced broadcast alone.
LEMMA SilentKept ==
  ASSUME BroadcastsInv, [BroadcastsNext]_bvars PROVE Silent'
<1> USE BroadcastsAssumption DEF BroadcastsInv, Shapes
<1>0. UNCHANGED <<silenced, bstatus, tick, desk>> => Silent'
  BY DEF Silent, InDispatch, Dispatching
<1>1. Shapes
  BY DEF BroadcastsTypeOK, Shapes
<1>2. ASSUME NEW d \in Desks, NEW b \in Broadcasts, BeginCreate(d, b) PROVE Silent'
  BY <1>2
  DEF Silent, InDispatch, Dispatching, BroadcastsTypeOK, BeginCreate, Errand, records,
      history
<1>3. ASSUME NEW d \in Desks, NEW b \in Broadcasts, BeginSchedule(d, b) PROVE Silent'
  BY <1>3
  DEF Silent, InDispatch, Dispatching, BroadcastsTypeOK, BeginSchedule, Errand, records,
      history, Existing
<1>4. ASSUME NEW d \in Desks, NEW b \in Broadcasts, BeginCancel(d, b) PROVE Silent'
  BY <1>4
  DEF Silent, InDispatch, Dispatching, BroadcastsTypeOK, BeginCancel, Errand, records,
      history
<1>5. ASSUME NEW d \in Desks, NEW b \in Broadcasts, BeginDelete(d, b) PROVE Silent'
  BY <1>5
  DEF Silent, InDispatch, Dispatching, BroadcastsTypeOK, BeginDelete, Errand, records,
      history
<1>6. ASSUME NEW d \in Desks, CreateBroadcast(d) PROVE Silent'
  BY <1>6
  DEF Silent, InDispatch, Dispatching, BroadcastsTypeOK, CreateBroadcast, Done, DeskIdle,
      history
<1>7. ASSUME NEW d \in Desks, ScheduleBroadcast(d) PROVE Silent'
  BY <1>7
  DEF Silent, InDispatch, Dispatching, BroadcastsTypeOK, ScheduleBroadcast, Done,
      DeskIdle, Existing
<1>8. ASSUME NEW d \in Desks, CancelBroadcast(d) PROVE Silent'
  BY <1>8
  DEF Silent, InDispatch, Dispatching, BroadcastsTypeOK, CancelBroadcast, Done, DeskIdle,
      Existing
<1>9. ASSUME NEW d \in Desks, DeleteBroadcast(d) PROVE Silent'
  BY <1>9
  DEF Silent, InDispatch, Dispatching, BroadcastsTypeOK, DeleteBroadcast, Done, DeskIdle,
      Existing, history
<1>10. ASSUME UpdateTemplate PROVE Silent'
  BY <1>0, <1>10 DEF UpdateTemplate, history
<1>11. ASSUME NEW d \in Desks, BeginDeleteTemplate(d) PROVE Silent'
  BY <1>11
  DEF Silent, InDispatch, Dispatching, BroadcastsTypeOK, BeginDeleteTemplate, Errand,
      records, history
<1>12. ASSUME NEW d \in Desks, DeleteTemplate(d) PROVE Silent'
  BY <1>12
  DEF Silent, InDispatch, Dispatching, BroadcastsTypeOK, DeleteTemplate, Done, DeskIdle,
      history
<1>13. ASSUME NEW u \in Readers, UpdatePreference(u) PROVE Silent'
  BY <1>0, <1>13 DEF UpdatePreference
<1>14. ASSUME NEW u \in Readers, ChangeUser(u) PROVE Silent'
  BY <1>0, <1>14 DEF ChangeUser
<1>15. ASSUME NEW t \in Ticks, StartTick(t) PROVE Silent'
  <2>1. Started(t)
    BY <1>15, Starting
  <2> QED
    BY <1>1, <2>1
    DEF Started, Frees, OnlyTick, records, history, Silent, InDispatch, Dispatching
<1>16. ASSUME NEW t \in Ticks, ReadBroadcast(t) PROVE Silent'
  <2>1. Opened(t)
    BY <1>16, Reading
  <2> QED
    BY <1>1, <2>1
    DEF Opened, Frees, Takes, OnlyTick, records, Silent, InDispatch, Dispatching
<1>17. ASSUME NEW t \in Ticks, ReadTemplate(t) PROVE Silent'
  <2>1. Checked(t)
    BY <1>17, Checking
  <2> QED
    BY <1>1, <2>1
    DEF Checked, Goes, OnlyTick, records, history, Silent, InDispatch, Dispatching
<1>18. ASSUME NEW t \in Ticks, VoidBroadcast(t) \/ CloseBroadcast(t) PROVE Silent'
  <2>1. Parted(t)
    BY <1>18, Ending
  <2> QED
    BY <1>1, <2>1
    DEF Parted, Frees, OnlyTick, Writes, history, Silent, InDispatch, Dispatching
<1>19. ASSUME NEW t \in Ticks, ListUsers(t) PROVE Silent'
  <2>1. Listed(t)
    BY <1>19, Listing
  <2> QED
    BY <1>1, <2>1
    DEF Listed, Goes, OnlyTick, records, history, Silent, InDispatch, Dispatching
<1>20. ASSUME NEW t \in Ticks, SendMessage(t) PROVE Silent'
  <2>1. Sent(t)
    BY <1>20, Sending
  <2>2. /\ tick[t].b \in Broadcasts
        /\ UNCHANGED <<bstatus, audience, enabled, desk, moved, jumped, silenced>>
    BY <2>1 DEF Sent
  <2>3. ASSUME Frees(t), made' = made, excused' = excused \cup {tick[t].b} PROVE Silent'
    <3>1. tick'[t].b = NoBroadcast /\ \A s \in Ticks \ {t} : tick'[s] = tick[s]
      BY <2>3 DEF Frees, OnlyTick
    <3> QED
      BY <1>1, <2>2, <3>1 DEF Silent, InDispatch, Dispatching
  <2>4. ASSUME NEW u \in tick[t].page, u \in Readers,
               Goes(t, tick[t].cursor, tick[t].page \ {u}, {"listing", "sending"}),
               Mails(tick[t].b, u), excused' = excused
        PROVE  Silent'
    <3>1. \A s \in Ticks \ {t} : tick'[s] = tick[s]
      BY <2>4 DEF Goes, OnlyTick
    <3>2. /\ tick'[t].b = tick[t].b /\ tick'[t].cursor = tick[t].cursor
          /\ tick'[t].page = tick[t].page \ {u} /\ tick'[t].pc # "closing"
      BY <2>4 DEF Goes
    <3> QED
      BY <1>1, <2>2, <3>1, <3>2 DEF Silent, InDispatch, Dispatching
  <2> QED
    BY <2>1, <2>3, <2>4 DEF Sent
<1>21. ASSUME NEW t \in Ticks, DispatchFails(t) \/ DieInTick(t) PROVE Silent'
  <2>1. Failed(t)
    BY <1>21, Failing
  <2> QED
    BY <1>1, <2>1 DEF Failed, Frees, OnlyTick, records, Silent, InDispatch, Dispatching
<1>22. ASSUME NEW d \in Desks, DieAtDesk(d) PROVE Silent'
  BY <1>22
  DEF Silent, InDispatch, Dispatching, BroadcastsTypeOK, DieAtDesk, Done, DeskIdle,
      records, history
<1>23. CASE UNCHANGED bvars
  BY <1>0, <1>23 DEF bvars, records, history
<1> QED
  BY <1>0, <1>2, <1>3, <1>4, <1>5, <1>6, <1>7, <1>8, <1>9, <1>10, <1>11, <1>12, <1>13, 
     <1>14, <1>15, <1>16, <1>17, <1>18, <1>19, <1>20, <1>21, <1>22, <1>23
  DEF BroadcastsNext, TickStep, DeskStep

\* A broadcast that is silenced gets no message any more, and stays as it is.
LEMMA QuietStep ==
  ASSUME BroadcastsInv, [BroadcastsNext]_bvars, NEW b \in silenced
  PROVE  made'[b] = made[b] /\ bstatus'[b] \in {"CANCELLED", "gone"}
<1>1. /\ Silent' /\ b \in Broadcasts /\ ~InDispatch(b)
      /\ made \in [Broadcasts -> [Readers -> 0 .. 2]]
  BY SilentKept DEF BroadcastsInv, BroadcastsTypeOK, Silent
<1>2. ASSUME NEW d \in Desks, DeskStep(d) \/ DieAtDesk(d) PROVE made' = made /\ b \in silenced'
  BY <1>2 DEF DeskStep, DieAtDesk, CreateBroadcast, ScheduleBroadcast, CancelBroadcast,
     DeleteBroadcast, BeginDeleteTemplate, DeleteTemplate, BeginCreate, BeginSchedule,
     BeginCancel, BeginDelete, records, history
<1>3. ASSUME NEW u \in Readers, UpdatePreference(u) \/ ChangeUser(u)
      PROVE  made' = made /\ b \in silenced'
  BY <1>3 DEF UpdatePreference, ChangeUser
<1>4. ASSUME NEW t \in Ticks, StartTick(t) \/ TickStep(t) \/ DispatchFails(t) \/ DieInTick(t)
      PROVE  silenced' = silenced /\ (made' = made \/ SendMessage(t))
  BY <1>4 DEF StartTick, TickStep, ReadBroadcast, ReadTemplate, VoidBroadcast, ListUsers,
     SendMessage, CloseBroadcast, DispatchFails, DieInTick, records, history
<1>5. ASSUME NEW t \in Ticks, SendMessage(t) PROVE made'[b] = made[b]
  <2>1. Sent(t)
    BY <1>5, Sending DEF BroadcastsInv
  <2>2. tick[t].b # b
    BY <1>1 DEF InDispatch, Dispatching
  <2>3. ASSUME NEW u \in Readers, Mails(tick[t].b, u) PROVE made'[b] = made[b]
    <3>1. \A v \in Readers : made'[b][v] = made[b][v]
      BY <1>1, <2>2, <2>3 DEF Mails
    <3>2. made'[b] \in [Readers -> 0 .. 2] /\ made[b] \in [Readers -> 0 .. 2]
      BY <1>1, <2>3 DEF Mails
    <3> QED
      BY <3>1, <3>2
  <2> QED
    BY <2>1, <2>3 DEF Sent
<1>6. b \in silenced' /\ made'[b] = made[b]
  BY <1>2, <1>3, <1>4, <1>5 DEF BroadcastsNext, UpdateTemplate, bvars, records, history
<1> QED
  BY <1>1, <1>6 DEF Silent

-----------------------------------------------------------------------------
(* Both together *)

MailoutsInv == BroadcastsInv /\ DeliveriesInv

LEMMA BroadcastsStep ==
  ASSUME BroadcastsInv, [BroadcastsNext]_bvars PROVE BroadcastsInv'
  BY BroadcastsTyped, NotYetDueKept, OneDispatchKept, OneMessageKept, OnItsWayKept,
     ReachedKept, SilentKept
  DEF BroadcastsInv

LEMMA DeliveriesStep ==
  ASSUME DeliveriesInv, [DeliveriesNext]_dvars PROVE DeliveriesInv'
  BY MessagesTyped, IdleKept, UnbornKept, AddingKept, OneCarrierKept, NotedKept
  DEF DeliveriesInv

LEMMA Initially == Init => MailoutsInv
<1> SUFFICES ASSUME Init PROVE MailoutsInv
  OBVIOUS
<1>1. BroadcastsInv
  <2> USE BroadcastsAssumption DEF Init, BroadcastsInit
  <2>1. TickIdle \in [pc : {"idle"}, todo : {<<>>}, b : {NoBroadcast}, link : {FALSE},
                      cursor : {0}, page : {{}}]
    BY DEF TickIdle, TickAt
  <2>2. ThreadsOK
    <3>1. 0 \in 0 .. LastReader /\ <<>> \in Seq(Broadcasts)
      OBVIOUS
    <3> QED
      BY <2>1, <3>1 DEF ThreadsOK, ThreadOK, TickThreads
  <2>3. RowsOK
    BY DEF RowsOK, DeskIdle, Existing
  <2>4. \A b \in Broadcasts : ~InDispatch(b)
    BY <2>1 DEF InDispatch, Dispatching
  <2>5. NotYetDue /\ OneMessageEach /\ AudienceReached /\ Silent
    BY <2>4 DEF NotYetDue, OneMessageEach, AudienceReached, Silent
  <2>6. OneDispatch /\ OnItsWay
    BY <2>4 DEF OneDispatch, OnItsWay, InDispatch, Dispatching
  <2> QED
    BY <2>2, <2>3, <2>5, <2>6, ShapeOfBroadcasts DEF BroadcastsInv
<1>2. DeliveriesInv
  <2> USE DeliveriesAssumption DEF Init, DeliveriesInit, Resting
  <2>1. DeliveriesTypeOK
    BY DEF DeliveriesTypeOK, Carrying
  <2>2. Idle /\ Unborn /\ Adding /\ OneCarrier
    BY DEF Idle, Unborn, Adding, OneCarrier, Holds
  <2>3. Noted
    BY DEF Noted, Holds
  <2> QED
    BY <2>1, <2>2, <2>3 DEF DeliveriesInv
<1> QED
  BY <1>1, <1>2 DEF MailoutsInv

\* The invariant of both components.
THEOREM Invariance == Spec => []MailoutsInv
<1>1. ASSUME MailoutsInv, [Next]_vars PROVE MailoutsInv'
  <2>1. BroadcastsInv /\ DeliveriesInv
    BY <1>1 DEF MailoutsInv
  <2>2. [BroadcastsNext]_bvars /\ [DeliveriesNext]_dvars
    BY <1>1 DEF Next, InBroadcasts, InDeliveries, vars
  <2> QED
    BY <2>1, <2>2, BroadcastsStep, DeliveriesStep DEF MailoutsInv
<1> QED
  BY Initially, <1>1, PTL DEF Spec

\* Both components' rows and threads always have the shape of the schema and the code.
THEOREM TypeInvariance == Spec => []MailoutsTypeOK
<1>1. MailoutsInv => MailoutsTypeOK
  BY DEF MailoutsInv, BroadcastsInv, DeliveriesInv, MailoutsTypeOK
<1> QED
  BY Invariance, <1>1, PTL

\* A reader gets one message of a broadcast that was not dispatched again after a
\* dispatch that was overlapped, cut short or followed by a late schedule.
THEOREM OneMessage == Spec => []OneMessageEach
<1>1. MailoutsInv => OneMessageEach
  BY DEF MailoutsInv, BroadcastsInv
<1> QED
  BY Invariance, <1>1, PTL

\* A SENT broadcast reached everybody who stayed in reach, unless a page's last reader
\* left the audience meanwhile.
THEOREM Reached == Spec => []AudienceReached
<1>1. MailoutsInv => AudienceReached
  BY DEF MailoutsInv, BroadcastsInv
<1> QED
  BY Invariance, <1>1, PTL

\* A message that is at no risk is mailed once at most.
THEOREM MailedAtMostOnce == Spec => []MailedOnce
<1>1. MailoutsInv => MailedOnce
  <2>1. MailoutsInv => DeliveriesTypeOK /\ Noted
    BY DEF MailoutsInv, DeliveriesInv
  <2> QED
    BY <2>1 DEF Noted, MailedOnce
<1> QED
  BY Invariance, <1>1, PTL

\* A broadcast cancelled while nobody had it in hand stays cancelled, and nobody gets a
\* message of it any more.
THEOREM Quiet == Spec => QuietAfterCancel
<1>1. MailoutsInv /\ [Next]_vars =>
        [\A b \in silenced :
           made'[b] = made[b] /\ bstatus'[b] \in {"CANCELLED", "gone"}]_bvars
  <2>1. MailoutsInv => BroadcastsInv
    BY DEF MailoutsInv
  <2>2. [Next]_vars => [BroadcastsNext]_bvars
    BY DEF Next, InBroadcasts, InDeliveries, vars
  <2> QED
    BY <2>1, <2>2, QuietStep
<1> QED
  BY Invariance, <1>1, PTL DEF Spec, QuietAfterCancel
=============================================================================
