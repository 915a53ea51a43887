------------------------------ MODULE PrintJobs ------------------------------
(***************************************************************************)
(* Print jobs: src/modules/print-engine/print-engine.service, from an      *)
(* administrator's request over the shared queue to the printed paper, and *)
(* print-jobs.consumer, the queue's worker.                                *)
(*                                                                         *)
(* A print job is a row and, when it is queued, an entry of the queue with *)
(* the same id.  Requests and processings are threads that take one await  *)
(* at a time; a request that processes a job inline goes on as that        *)
(* processing.  The questions printed, the layout and the PDF are left     *)
(* out: a job has an output or has none.                                   *)
(***************************************************************************)
EXTENDS Naturals

CONSTANTS
  Jobs,         \* print jobs
  NoJob,        \* the job of an idle thread
  Threads,      \* requests, boots and processings at a time
  Modes,        \* "queue" and, with PRINT_FORCE_INLINE_PROCESSING, "inline"
  MaxRequests,  \* bound: requests of administrators and boots
  MaxFaults     \* bound: process deaths and failed calls

ASSUME PrintAssumption ==
  /\ NoJob \notin Jobs
  /\ Modes \subseteq {"queue", "inline"}
  /\ MaxRequests \in Nat /\ MaxFaults \in Nat

VARIABLES
  status,    \* printJob.status, "none" before the row exists and "gone" after
  output,    \* outputFileAssetId is set
  entry,     \* external: the queue's entry, "over" once completed or failed
  thread,    \* where each thread is, its job, whether a queue entry is its own, and
             \* (history) whether it found the job cancelled
  requests,  \* requests left
  faults,    \* faults left
  orphaned   \* history: jobs given up since their last creation, retry or boot

vars == <<status, output, entry, thread, requests, faults, orphaned>>

Unfinished(j) == status[j] \in {"QUEUED", "RUNNING"}
Exists(j) == status[j] \notin {"none", "gone"}

At(step, j, own) == [pc |-> step, job |-> j, queued |-> own, cancelled |-> FALSE]
Idle == At("idle", NoJob, FALSE)
Enqueueing == {"enqueueing", "resetting", "adding", "checking"}
Processing == {"reading", "starting", "rendering", "storing", "finishing", "failing"}
Steps == {"idle", "retrying", "cancelling", "removing", "deleting", "erasing",
          "returning"} \cup Enqueueing \cup Processing

\* getInitialJobStatus.
InitialStatuses ==
  {IF m = "inline" THEN "RUNNING" ELSE "QUEUED" : m \in Modes}

Init ==
  /\ status = [j \in Jobs |-> "none"]
  /\ output = [j \in Jobs |-> FALSE]
  /\ entry = [j \in Jobs |-> "absent"]
  /\ thread = [t \in Threads |-> Idle]
  /\ requests = MaxRequests /\ faults = MaxFaults
  /\ orphaned = {}

Goto(t, step) == thread' = [thread EXCEPT ![t].pc = step]
Stop(t) == thread' = [thread EXCEPT ![t] = Idle]

\* A thread of an idle slot takes up a request about j.
Ask(t, step, j) ==
  /\ thread[t] = Idle
  /\ requests > 0
  /\ requests' = requests - 1
  /\ thread' = [thread EXCEPT ![t] = At(step, j, FALSE)]

\* Nobody else is bound to take an unfinished job up.
GiveUp(j) == orphaned' = IF Unfinished(j) THEN orphaned \cup {j} ELSE orphaned

-----------------------------------------------------------------------------
(* The administrator *)

CreateJob(t, j) ==
  /\ status[j] = "none"
  /\ Ask(t, "enqueueing", j)
  /\ \E s \in InitialStatuses : status' = [status EXCEPT ![j] = s]
  /\ UNCHANGED <<output, entry, faults, orphaned>>

\* retryJob, its read.
BeginRetry(t, j) ==
  /\ status[j] \in {"QUEUED", "FAILED", "CANCELLED"}
  /\ Ask(t, "retrying", j)
  /\ UNCHANGED <<status, output, entry, faults, orphaned>>

\* Its update.  Faulty variant: the last output stays.
OutputKept(j) == output[j]
OutputAfterRetry(j) == FALSE
RetryJob(t) ==
  LET j == thread[t].job IN
  /\ thread[t].pc = "retrying"
  /\ IF Exists(j)
       THEN /\ \E s \in InitialStatuses : status' = [status EXCEPT ![j] = s]
            /\ output' = [output EXCEPT ![j] = OutputAfterRetry(j)]
            /\ orphaned' = orphaned \ {j}
            /\ Goto(t, "resetting")
       ELSE Stop(t) /\ UNCHANGED <<status, output, orphaned>>
  /\ UNCHANGED <<entry, requests, faults>>

BeginCancel(t, j) ==
  /\ Exists(j) /\ status[j] # "DONE"
  /\ Ask(t, "cancelling", j)
  /\ UNCHANGED <<status, output, entry, faults, orphaned>>

CancelJob(t) ==
  LET j == thread[t].job IN
  /\ thread[t].pc = "cancelling"
  /\ IF Exists(j)
       THEN status' = [status EXCEPT ![j] = "CANCELLED"] /\ Goto(t, "removing")
       ELSE Stop(t) /\ UNCHANGED status
  /\ UNCHANGED <<output, entry, requests, faults, orphaned>>

BeginDelete(t, j) ==
  /\ Exists(j) /\ status[j] # "RUNNING"
  /\ Ask(t, "deleting", j)
  /\ UNCHANGED <<status, output, entry, faults, orphaned>>

\* The transaction that takes the row and its references away.
EraseJob(t) ==
  LET j == thread[t].job IN
  /\ thread[t].pc = "erasing"
  /\ status' = [status EXCEPT ![j] = "gone"]
  /\ Stop(t)
  /\ UNCHANGED <<output, entry, requests, faults, orphaned>>

\* requeueQueuedJobsOnBoot finds the job QUEUED, some time before its turn comes.
Boot(t, j) ==
  /\ "queue" \in Modes
  /\ status[j] = "QUEUED"
  /\ Ask(t, "resetting", j)
  /\ orphaned' = orphaned \ {j}
  /\ UNCHANGED <<status, output, entry, faults>>

-----------------------------------------------------------------------------
(* enqueue and removeExistingQueueJob *)

\* The setting is looked at once more: it may have changed since the status.
ProcessInline(t) ==
  /\ thread[t].pc \in {"enqueueing", "resetting"}
  /\ "inline" \in Modes
  /\ Goto(t, "reading")
  /\ UNCHANGED <<status, output, entry, requests, faults, orphaned>>

\* An active entry stays.  Faulty variant: it goes like any other.
RemovesAny(j) == "absent"
AfterRemoval(j) == IF entry[j] = "active" THEN "active" ELSE "absent"

\* removeExistingQueueJob before a retried or a requeued job is added, and before
\* a job is deleted.
RemoveFirst(t) ==
  LET j == thread[t].job IN
  /\ \/ thread[t].pc = "resetting" /\ "queue" \in Modes /\ Goto(t, "adding")
     \/ thread[t].pc = "deleting" /\ Goto(t, "erasing")
  /\ entry' = [entry EXCEPT ![j] = AfterRemoval(j)]
  /\ UNCHANGED <<status, output, requests, faults, orphaned>>

Checking(j) == \E t \in Threads : thread[t].job = j /\ thread[t].pc = "checking"

\* The same at the end of a cancellation: a job retried since loses its entry, or
\* the one that would show its retry that it must be added again.
RemoveLast(t) ==
  LET j == thread[t].job IN
  /\ thread[t].pc = "removing"
  /\ entry' = [entry EXCEPT ![j] = AfterRemoval(j)]
  /\ IF entry[j] = "waiting" \/ (entry[j] = "over" /\ Checking(j))
       THEN GiveUp(j) ELSE UNCHANGED orphaned
  /\ Stop(t)
  /\ UNCHANGED <<status, output, requests, faults>>

\* The queue ignores an entry whose id it holds.
AddEntry(t) ==
  LET j == thread[t].job IN
  /\ \/ thread[t].pc = "enqueueing" /\ "queue" \in Modes
     \/ thread[t].pc = "adding"
  /\ entry' = [entry EXCEPT ![j] = IF entry[j] = "absent" THEN "waiting" ELSE entry[j]]
  /\ Goto(t, "checking")
  /\ UNCHANGED <<status, output, requests, faults, orphaned>>

\* An entry that is over is removed and added again; an active one is taken for
\* good, although its processing may have had its last look at the row.
\* Faulty variant: an entry that is over is taken for good, too.
NeverStale(j) == FALSE
Stale(j) == entry[j] = "over"
CheckEntry(t) ==
  LET j == thread[t].job IN
  /\ thread[t].pc = "checking"
  /\ entry' = [entry EXCEPT ![j] = IF Stale(j) THEN "waiting" ELSE entry[j]]
  /\ IF \E u \in Threads : thread[u].job = j /\ thread[u].pc = "returning"
       THEN GiveUp(j) ELSE UNCHANGED orphaned
  /\ Stop(t)
  /\ UNCHANGED <<status, output, requests, faults>>

-----------------------------------------------------------------------------
(* processJob, inline or by the queue's worker *)

TakeEntry(t, j) ==
  /\ thread[t] = Idle
  /\ entry[j] = "waiting"
  /\ entry' = [entry EXCEPT ![j] = "active"]
  /\ thread' = [thread EXCEPT ![t] = At("reading", j, TRUE)]
  /\ UNCHANGED <<status, output, requests, faults, orphaned>>

\* The processing is over; the worker still has to tell the queue.
Leave(t) == IF thread[t].queued THEN Goto(t, "returning") ELSE Stop(t)

\* Faulty variant: a cancelled job is not skipped.
SkipsDone(j) == ~Exists(j) \/ status[j] = "DONE"
Skipped(j) == ~Exists(j) \/ status[j] \in {"CANCELLED", "DONE"}
ReadJob(t) ==
  /\ thread[t].pc = "reading"
  /\ IF Skipped(thread[t].job) THEN Leave(t)
     ELSE thread' = [thread EXCEPT ![t].pc = "starting",
                                   ![t].cancelled = status[thread[t].job] = "CANCELLED"]
  /\ UNCHANGED <<status, output, entry, requests, faults, orphaned>>

\* Each write of the processing finds the row by its id alone.
Write(t, s, out, next) ==
  LET j == thread[t].job IN
  IF Exists(j)
    THEN /\ status' = [status EXCEPT ![j] = s]
         /\ output' = [output EXCEPT ![j] = out]
         /\ IF next = "end" THEN Leave(t) ELSE Goto(t, next)
    ELSE Leave(t) /\ UNCHANGED <<status, output>>

StartJob(t) ==
  /\ thread[t].pc = "starting"
  /\ Write(t, "RUNNING", output[thread[t].job], "rendering")
  /\ UNCHANGED <<entry, requests, faults, orphaned>>

\* Rendering may fail on its own: bad content, no browser.  Where it goes then;
\* faulty variant: nothing catches it.
NoCatch(t) == Leave(t)
AfterError(t) == Goto(t, "failing")
Render(t) ==
  /\ thread[t].pc = "rendering"
  /\ Goto(t, "storing") \/ AfterError(t)
  /\ UNCHANGED <<status, output, entry, requests, faults, orphaned>>

\* storePdf: the asset, its object, its confirmation, its reference.
StorePdf(t) ==
  /\ thread[t].pc = "storing"
  /\ Goto(t, "finishing") \/ AfterError(t)
  /\ UNCHANGED <<status, output, entry, requests, faults, orphaned>>

FinishJob(t) ==
  /\ thread[t].pc = "finishing"
  /\ Write(t, "DONE", TRUE, "end")
  /\ UNCHANGED <<entry, requests, faults, orphaned>>

FailJob(t) ==
  /\ thread[t].pc = "failing"
  /\ Write(t, "FAILED", output[thread[t].job], "end")
  /\ UNCHANGED <<entry, requests, faults, orphaned>>

\* The consumer swallows errors, so the entry completes either way.
Return(t) ==
  /\ thread[t].pc = "returning"
  /\ entry' = [entry EXCEPT ![thread[t].job] = "over"]
  /\ Stop(t)
  /\ UNCHANGED <<status, output, requests, faults, orphaned>>

-----------------------------------------------------------------------------
(* What goes wrong *)

\* A statement of a processing fails: outside its try, in it, or in its catch.
StatementFails(t) ==
  /\ faults > 0 /\ faults' = faults - 1
  /\ \/ /\ thread[t].pc \in {"reading", "starting", "failing"}
        /\ Leave(t) /\ GiveUp(thread[t].job)
     \/ /\ thread[t].pc = "finishing"
        /\ AfterError(t) /\ UNCHANGED orphaned
  /\ UNCHANGED <<status, output, entry, requests>>

\* The queue cannot be reached: enqueue falls back to processing inline, and
\* removeExistingQueueJob lets the request go on.
QueueFails(t) ==
  /\ faults > 0 /\ faults' = faults - 1
  /\ \/ thread[t].pc \in {"enqueueing", "adding"} /\ "queue" \in Modes /\ Goto(t, "reading")
     \/ thread[t].pc = "checking" /\ Goto(t, "reading")
     \/ thread[t].pc = "resetting" /\ "queue" \in Modes /\ Goto(t, "adding")
     \/ thread[t].pc = "deleting" /\ Goto(t, "erasing")
     \/ thread[t].pc = "removing" /\ Stop(t)
  /\ UNCHANGED <<status, output, entry, requests, orphaned>>

\* The process of a thread dies, or a request's statement fails.  What the worker
\* had in hand is left to the queue; a request that had to enqueue its job or to
\* delete it, and an inline processing, leave it to nobody.
Die(t) ==
  /\ thread[t].pc # "idle"
  /\ faults > 0 /\ faults' = faults - 1
  /\ Stop(t)
  /\ IF ~thread[t].queued /\ thread[t].pc \in Enqueueing \cup Processing \cup {"erasing"}
       THEN GiveUp(thread[t].job) ELSE UNCHANGED orphaned
  /\ UNCHANGED <<status, output, entry, requests>>

\* External: the queue finds an active entry without a worker.  It offers it again,
\* or, if that happened before, gives it up.
Stalled(j) ==
  /\ entry[j] = "active"
  /\ \A t \in Threads : ~(thread[t].queued /\ thread[t].job = j)
  /\ \/ entry' = [entry EXCEPT ![j] = "waiting"] /\ UNCHANGED orphaned
     \/ entry' = [entry EXCEPT ![j] = "over"] /\ GiveUp(j)
  /\ UNCHANGED <<status, output, thread, requests, faults>>

\* External: removeOnComplete and removeOnFail keep the last thousand, more than
\* are over between an add and its check.
Evict(j) ==
  /\ entry[j] = "over" /\ ~Checking(j)
  /\ entry' = [entry EXCEPT ![j] = "absent"]
  /\ UNCHANGED <<status, output, thread, requests, faults, orphaned>>

Request(t, j) ==
  CreateJob(t, j) \/ BeginRetry(t, j) \/ BeginCancel(t, j) \/ BeginDelete(t, j) \/ Boot(t, j)

Step(t) ==
  \/ RetryJob(t) \/ CancelJob(t) \/ EraseJob(t)
  \/ ProcessInline(t) \/ RemoveFirst(t) \/ RemoveLast(t) \/ AddEntry(t) \/ CheckEntry(t)
  \/ ReadJob(t) \/ StartJob(t) \/ Render(t) \/ StorePdf(t) \/ FinishJob(t) \/ FailJob(t)
  \/ Return(t)

Fault(t) == StatementFails(t) \/ QueueFails(t) \/ Die(t)

Next ==
  \/ \E t \in Threads : Step(t) \/ Fault(t)
  \/ \E t \in Threads, j \in Jobs : Request(t, j) \/ TakeEntry(t, j)
  \/ \E j \in Jobs : Stalled(j) \/ Evict(j)

Spec == Init /\ [][Next]_vars

\* Threads go on, a worker with a free slot takes what waits, and the queue looks
\* for stalled entries.  Nobody is obliged to ask for anything or to boot.
Fairness ==
  /\ \A t \in Threads : WF_vars(Step(t))
  /\ \A j \in Jobs : WF_vars(\E t \in Threads : TakeEntry(t, j)) /\ WF_vars(Stalled(j))
FairSpec == Spec /\ Fairness

-----------------------------------------------------------------------------
(* Properties *)

\* Rows, entries and threads have the shape of the schema, the queue and the code;
\* an entry being processed by the worker is active, and by one thread only.
TypeOK ==
  /\ status \in [Jobs -> {"none", "QUEUED", "RUNNING", "DONE", "FAILED", "CANCELLED", "gone"}]
  /\ output \in [Jobs -> BOOLEAN]
  /\ entry \in [Jobs -> {"absent", "waiting", "active", "over"}]
  /\ thread \in [Threads -> [pc : Steps, job : Jobs \cup {NoJob}, queued : BOOLEAN,
                           cancelled : BOOLEAN]]
  /\ \A t \in Threads :
       /\ thread[t].pc # "idle" => thread[t].job \in Jobs
       /\ thread[t].pc = "returning" => thread[t].queued
       /\ thread[t].queued =>
            /\ thread[t].pc \in Processing \cup {"returning"}
            /\ entry[thread[t].job] = "active"
  /\ \A t, u \in Threads :
       thread[t].queued /\ thread[u].queued /\ thread[t].job = thread[u].job => t = u
  /\ requests \in 0 .. MaxRequests /\ faults \in 0 .. MaxFaults
  /\ orphaned \subseteq Jobs

\* Somebody will take the job further: the queue, a processing, or a request that
\* is about to enqueue or delete it.
InHand(j) ==
  \/ entry[j] = "waiting"
  \/ entry[j] = "active" /\ \A t \in Threads : ~(thread[t].queued /\ thread[t].job = j)
  \/ \E t \in Threads :
       thread[t].job = j /\ thread[t].pc \in Enqueueing \cup Processing \cup {"erasing"}

\* A QUEUED or RUNNING job is in somebody's hand, or it was given up in one of the
\* ways the code leaves open: its process died or its statement failed, a retry
\* met the entry of a processing on its way out, or a cancellation took the entry
\* of a job retried meanwhile.  No other interleaving strands a job.
UnfinishedIsInHand ==
  \A j \in Jobs : Unfinished(j) => InHand(j) \/ j \in orphaned

\* A DONE job has its paper, and a QUEUED one does not offer that of an earlier
\* printing, however processings and retries of the job overlap.
OutputMatchesStatus ==
  \A j \in Jobs : /\ status[j] = "DONE" => output[j]
                  /\ status[j] = "QUEUED" => ~output[j]

\* A cancelled job is cancelled for good unless it is retried or deleted, or a
\* processing goes on that had not found it cancelled.
CancelledUnlessOverlapped ==
  [][\A j \in Jobs : status[j] = "CANCELLED" /\ status'[j] # "CANCELLED" =>
       \E t \in Threads :
         /\ thread[t].job = j /\ thread'[t] # thread[t]
         /\ thread[t].pc \in {"retrying", "erasing", "starting", "finishing", "failing"}
         /\ ~thread[t].cancelled]_vars

\* Every job ends unless it is given up: it is printed, fails, is cancelled or is
\* deleted.
EveryJobEnds ==
  \A j \in Jobs : Unfinished(j) ~> ~Unfinished(j) \/ j \in orphaned
=============================================================================
