------------------------------ MODULE Deliveries ------------------------------
(***************************************************************************)
(* Deliveries: the life of one notification message, from the row that     *)
(* sendTemplateToUser, resendMessage or a broadcast creates, over the      *)
(* queue and its retries, to the mail server:                              *)
(* src/modules/notifications/notifications.service (enqueueMessage,        *)
(* processMessage) and notifications.consumer, the queue's worker.         *)
(*                                                                         *)
(* A thread is a request that makes and enqueues a message, or a           *)
(* processing of one.  Subject, text and recipient are left out: the mail  *)
(* server takes a mail or refuses it.                                      *)
(***************************************************************************)
EXTENDS Naturals

CONSTANTS
  Messages,     \* message rows
  NoMessage,    \* the message of an idle thread
  Carriers,     \* requests and processings at a time
  MaxAttempts,  \* NOTIFICATIONS_MAX_ATTEMPTS
  MaxTroubles   \* bound: failed statements, queue calls, mails, and deaths

ASSUME DeliveriesAssumption ==
  /\ NoMessage \notin Messages
  /\ MaxAttempts \in Nat \ {0} /\ MaxTroubles \in Nat

VARIABLES
  mstatus,   \* notificationMessage.status, "none" before the row exists
  attempts,  \* notificationMessage.attempts
  job,       \* external: the queue's job of the message
  failures,  \* external: attemptsMade of the job
  mails,     \* external: mails that left for the message: none, one, or more
  carrier,   \* where each thread is
  troubles,  \* troubles left
  risked,    \* history: messages whose mail may have left without a trace
  lost       \* history: messages whose last carrier gave up without a trace

dvars == <<mstatus, attempts, job, failures, mails, carrier, troubles, risked, lost>>

Resting == [pc |-> "idle", m |-> NoMessage, try |-> 0, queued |-> FALSE]
Carrying == {"reading", "marking", "sending", "noting", "catching"}

DeliveriesInit ==
  /\ mstatus = [m \in Messages |-> "none"]
  /\ attempts = [m \in Messages |-> 0]
  /\ job = [m \in Messages |-> "absent"]
  /\ failures = [m \in Messages |-> 0]
  /\ mails = [m \in Messages |-> 0]
  /\ carrier = [c \in Carriers |-> Resting]
  /\ troubles = MaxTroubles
  /\ risked = {} /\ lost = {}

GoOn(c, step) == carrier' = [carrier EXCEPT ![c].pc = step]
Rest(c) == carrier' = [carrier EXCEPT ![c] = Resting]
Trouble == troubles > 0 /\ troubles' = troubles - 1

-----------------------------------------------------------------------------
(* Making a message *)

CreateMessage(c, m) ==
  /\ carrier[c] = Resting /\ mstatus[m] = "none"
  /\ mstatus' = [mstatus EXCEPT ![m] = "PENDING"]
  /\ carrier' = [carrier EXCEPT ![c] = [pc |-> "adding", m |-> m, try |-> 0,
                                        queued |-> FALSE]]
  /\ UNCHANGED <<attempts, job, failures, mails, troubles, risked, lost>>

\* A notice of the account or of a payment, which no preference stops, or a message
\* of a broadcast.
SendTemplateToUser(c, m) == CreateMessage(c, m)

\* Another row with the contents of one that may be in any state.
ResendMessage(c, m) ==
  /\ \E sent \in Messages : mstatus[sent] # "none"
  /\ CreateMessage(c, m)

EnqueueMessage(c) ==
  /\ carrier[c].pc = "adding"
  /\ job' = [job EXCEPT ![carrier[c].m] = "waiting"]
  /\ Rest(c)
  /\ UNCHANGED <<mstatus, attempts, failures, mails, troubles, risked, lost>>

\* The queue cannot be reached, or its answer is lost: the message is processed
\* inline, whether the queue has it or not.
EnqueueFails(c) ==
  LET m == carrier[c].m IN
  /\ carrier[c].pc = "adding"
  /\ Trouble
  /\ \/ UNCHANGED <<job, risked>>
     \/ job' = [job EXCEPT ![m] = "waiting"] /\ risked' = risked \cup {m}
  /\ carrier' = [carrier EXCEPT ![c] = [pc |-> "reading", m |-> m, try |-> 1,
                                        queued |-> FALSE]]
  /\ UNCHANGED <<mstatus, attempts, failures, mails, lost>>

-----------------------------------------------------------------------------
(* processMessage, by the queue's worker or inline *)

\* Faulty variant: attempts are counted from the failures alone.
AttemptsMade(m) == failures[m]
AttemptNumber(m) == failures[m] + 1
TakeJob(c, m) ==
  /\ carrier[c] = Resting /\ job[m] = "waiting"
  /\ job' = [job EXCEPT ![m] = "active"]
  /\ carrier' = [carrier EXCEPT ![c] = [pc |-> "reading", m |-> m, try |-> AttemptNumber(m),
                                        queued |-> TRUE]]
  /\ UNCHANGED <<mstatus, attempts, failures, mails, troubles, risked, lost>>

\* The processing returns, or throws; the worker then tells the queue.
Ended(c, step) == IF carrier[c].queued THEN GoOn(c, step) ELSE Rest(c)

\* Faulty variant: a message is processed whatever its status.
NeverDelivered(m) == FALSE
Delivered(m) == mstatus[m] = "SENT"
ReadMessage(c) ==
  /\ carrier[c].pc = "reading"
  /\ IF Delivered(carrier[c].m) THEN Ended(c, "returning") ELSE GoOn(c, "marking")
  /\ UNCHANGED <<mstatus, attempts, job, failures, mails, troubles, risked, lost>>

MarkAttempt(c) ==
  /\ carrier[c].pc = "marking"
  /\ attempts' = [attempts EXCEPT ![carrier[c].m] = carrier[c].try]
  /\ GoOn(c, "sending")
  /\ UNCHANGED <<mstatus, job, failures, mails, troubles, risked, lost>>

Mailed(m) == mails' = [mails EXCEPT ![m] = IF @ = 0 THEN 1 ELSE 2]
SendMail(c) ==
  /\ carrier[c].pc = "sending"
  /\ Mailed(carrier[c].m)
  /\ GoOn(c, "noting")
  /\ UNCHANGED <<mstatus, attempts, job, failures, troubles, risked, lost>>

NoteSent(c) ==
  /\ carrier[c].pc = "noting"
  /\ mstatus' = [mstatus EXCEPT ![carrier[c].m] = "SENT"]
  /\ Ended(c, "returning")
  /\ UNCHANGED <<attempts, job, failures, mails, troubles, risked, lost>>

\* Faulty variant: an inline processing expects a retry, too.
RetryExpected(c) == carrier[c].try < MaxAttempts
ShouldRetry(c) == carrier[c].queued /\ carrier[c].try < MaxAttempts

CatchError(c) ==
  LET m == carrier[c].m IN
  /\ carrier[c].pc = "catching"
  /\ mstatus' = [mstatus EXCEPT ![m] = IF ShouldRetry(c) THEN "PENDING" ELSE "FAILED"]
  /\ IF ShouldRetry(c) THEN Ended(c, "throwing") ELSE Ended(c, "returning")
  /\ UNCHANGED <<attempts, job, failures, mails, troubles, risked, lost>>

\* Nobody is left to look at a message that has not ended.
Abandon(m) == lost' = IF mstatus[m] = "PENDING" THEN lost \cup {m} ELSE lost

\* External: a job that returned is completed; one that threw waits for its next
\* attempt, or has failed for good.
ReportToQueue(c) ==
  LET m == carrier[c].m again == failures[m] + 1 < MaxAttempts IN
  /\ \/ /\ carrier[c].pc = "returning"
        /\ job' = [job EXCEPT ![m] = "over"]
        /\ UNCHANGED <<failures, lost>>
     \/ /\ carrier[c].pc = "throwing"
        /\ job' = [job EXCEPT ![m] = IF again THEN "waiting" ELSE "over"]
        /\ failures' = [failures EXCEPT ![m] = @ + 1]
        /\ IF again THEN UNCHANGED lost ELSE Abandon(m)
  /\ Rest(c)
  /\ UNCHANGED <<mstatus, attempts, mails, troubles, risked>>

-----------------------------------------------------------------------------
(* What goes wrong *)

\* The mail is refused, no transport is configured or the channel is not EMAIL; or
\* the mail leaves and the server's answer does not arrive.
MailFails(c) ==
  LET m == carrier[c].m IN
  /\ carrier[c].pc = "sending"
  /\ Trouble
  /\ \/ UNCHANGED <<mails, risked>>
     \/ Mailed(m) /\ risked' = risked \cup {m}
  /\ GoOn(c, "catching")
  /\ UNCHANGED <<mstatus, attempts, job, failures, lost>>

\* A statement fails: outside the try, in it behind the mail, or in its catch.
WriteFails(c) ==
  LET m == carrier[c].m IN
  /\ Trouble
  /\ \/ /\ carrier[c].pc \in {"reading", "marking", "catching"}
        /\ IF carrier[c].queued
             THEN GoOn(c, "throwing") /\ UNCHANGED lost
             ELSE Rest(c) /\ Abandon(m)
        /\ UNCHANGED risked
     \/ /\ carrier[c].pc = "noting"
        /\ GoOn(c, "catching")
        /\ risked' = risked \cup {m} /\ UNCHANGED lost
  /\ UNCHANGED <<mstatus, attempts, job, failures, mails>>

\* The process dies: what the worker had in hand is left to the queue, what was
\* about to be enqueued or was processed inline to nobody.
DieCarrying(c) ==
  LET m == carrier[c].m IN
  /\ carrier[c] # Resting
  /\ Trouble
  /\ risked' = IF carrier[c].pc = "noting" THEN risked \cup {m} ELSE risked
  /\ IF carrier[c].queued THEN UNCHANGED lost ELSE Abandon(m)
  /\ Rest(c)
  /\ UNCHANGED <<mstatus, attempts, job, failures, mails>>

\* External: the queue finds an active job without a worker, and offers it again or,
\* if that happened before, gives it up.
StalledJob(m) ==
  /\ job[m] = "active"
  /\ \A c \in Carriers : ~(carrier[c].queued /\ carrier[c].m = m)
  /\ \/ job' = [job EXCEPT ![m] = "waiting"] /\ UNCHANGED lost
     \/ job' = [job EXCEPT ![m] = "over"] /\ Abandon(m)
  /\ UNCHANGED <<mstatus, attempts, failures, mails, carrier, troubles, risked>>

CarrierStep(c) ==
  \/ EnqueueMessage(c) \/ ReadMessage(c) \/ MarkAttempt(c) \/ SendMail(c) \/ NoteSent(c)
  \/ CatchError(c) \/ ReportToQueue(c)

CarrierTrouble(c) == EnqueueFails(c) \/ MailFails(c) \/ WriteFails(c) \/ DieCarrying(c)

DeliveriesNext ==
  \/ \E c \in Carriers : CarrierStep(c) \/ CarrierTrouble(c)
  \/ \E c \in Carriers, m \in Messages : SendTemplateToUser(c, m) \/ ResendMessage(c, m) \/ TakeJob(c, m)
  \/ \E m \in Messages : StalledJob(m)

DeliveriesSpec == DeliveriesInit /\ [][DeliveriesNext]_dvars

-----------------------------------------------------------------------------
(* Properties *)

\* Rows, jobs and threads have the shape of the schema, the queue and the code; a job
\* with a worker is active, and has one worker only.
DeliveriesTypeOK ==
  /\ mstatus \in [Messages -> {"none", "PENDING", "SENT", "FAILED"}]
  /\ attempts \in [Messages -> 0 .. MaxAttempts]
  /\ job \in [Messages -> {"absent", "waiting", "active", "over"}]
  /\ failures \in [Messages -> 0 .. MaxAttempts]
  /\ \A m \in Messages : job[m] \in {"waiting", "active"} => failures[m] < MaxAttempts
  /\ mails \in [Messages -> 0 .. 2]
  /\ carrier \in [Carriers -> [pc : Carrying \cup {"idle", "adding", "returning", "throwing"},
                               m : Messages \cup {NoMessage}, try : 0 .. MaxAttempts,
                               queued : BOOLEAN]]
  /\ \A c \in Carriers :
       /\ carrier[c].pc # "idle" => carrier[c].m \in Messages
       /\ carrier[c].pc \in {"returning", "throwing"} => carrier[c].queued
       /\ carrier[c].pc \in Carrying => carrier[c].try > 0
       /\ carrier[c].queued => job[carrier[c].m] = "active"
  /\ \A c, d \in Carriers :
       carrier[c].queued /\ carrier[d].queued /\ carrier[c].m = carrier[d].m => c = d
  /\ troubles \in 0 .. MaxTroubles
  /\ risked \subseteq Messages /\ lost \subseteq Messages

\* A message leaves as one mail, unless the mail may have left without a trace: its
\* processing died or failed between the mail and the note of it, the server's answer
\* was lost, or the queue took a job the request believed it had refused.  Retries and
\* jobs offered again do not send it twice.
MailedOnce == \A m \in Messages : mails[m] <= 1 \/ m \in risked

\* Every message is sent or fails in the end, unless its carrier gave up without a
\* trace: it died before the queue had the message or while it sent it inline, or the
\* last attempt failed in a statement around the sending.
EveryMessageEnds ==
  \A m \in Messages : mstatus[m] = "PENDING" ~> mstatus[m] # "PENDING" \/ m \in lost
=============================================================================
