--------------------------- MODULE PrintJobsProofs ---------------------------
(***************************************************************************)
(* Theorems about PrintJobs, for any number of jobs, threads, requests and *)
(* faults.                                                                 *)
(***************************************************************************)
EXTENDS PrintJobs, TLAPS

\* What takes a job further whatever the queue holds.
Working == Processing \cup {"enqueueing", "resetting", "adding", "erasing"}

\* A request about to check its entry finds one, or has no need of it.
EntryIsThere ==
  \A t \in Threads : thread[t].pc = "checking" /\ Unfinished(thread[t].job) =>
    \/ entry[thread[t].job] # "absent"
    \/ thread[t].job \in orphaned
    \/ \E u \in Threads : thread[u].job = thread[t].job /\ thread[u].pc \in Working

NoneFoundCancelled == \A t \in Threads : ~thread[t].cancelled

OutputLater == \A j \in Jobs : status[j] = "none" => ~output[j]

IInv ==
  /\ TypeOK /\ UnfinishedIsInHand /\ OutputMatchesStatus
  /\ EntryIsThere /\ NoneFoundCancelled /\ OutputLater

-----------------------------------------------------------------------------
(* How a step changes its thread. *)

\* A thread that goes on keeps its job and its entry.
LEMMA GotoThread ==
  ASSUME TypeOK, NEW t \in Threads, NEW s \in Steps, Goto(t, s)
  PROVE  /\ thread'[t].pc = s /\ thread'[t].job = thread[t].job
         /\ thread'[t].queued = thread[t].queued
         /\ thread'[t].cancelled = thread[t].cancelled
         /\ \A u \in Threads \ {t} : thread'[u] = thread[u]
         /\ thread' \in [Threads -> [pc : Steps, job : Jobs \cup {NoJob},
                                     queued : BOOLEAN, cancelled : BOOLEAN]]
BY DEF TypeOK, Goto

\* A thread that stops is idle.
LEMMA StopThread ==
  ASSUME TypeOK, NEW t \in Threads, Stop(t)
  PROVE  /\ thread'[t] = Idle /\ thread'[t].pc = "idle" /\ thread'[t].job = NoJob
         /\ ~thread'[t].queued /\ ~thread'[t].cancelled
         /\ \A u \in Threads \ {t} : thread'[u] = thread[u]
         /\ thread' \in [Threads -> [pc : Steps, job : Jobs \cup {NoJob},
                                     queued : BOOLEAN, cancelled : BOOLEAN]]
BY DEF TypeOK, Stop, Idle, At, Steps

\* A thread that takes up a job was idle.
LEMMA TakeUp ==
  ASSUME TypeOK, NEW t \in Threads, NEW j \in Jobs, NEW s \in Steps, NEW own \in BOOLEAN,
         thread[t] = Idle, thread' = [thread EXCEPT ![t] = At(s, j, own)]
  PROVE  /\ thread[t].pc = "idle" /\ ~thread[t].queued
         /\ thread'[t].pc = s /\ thread'[t].job = j /\ thread'[t].queued = own
         /\ ~thread'[t].cancelled
         /\ \A u \in Threads \ {t} : thread'[u] = thread[u]
         /\ thread' \in [Threads -> [pc : Steps, job : Jobs \cup {NoJob},
                                     queued : BOOLEAN, cancelled : BOOLEAN]]
BY DEF TypeOK, Idle, At

\* The processing is over: its thread returns to the queue or stops.
LEMMA LeaveThread ==
  ASSUME TypeOK, NEW t \in Threads, Leave(t), thread[t].pc \in Processing
  PROVE  /\ \/ thread[t].queued /\ Goto(t, "returning")
            \/ ~thread[t].queued /\ Stop(t)
BY DEF TypeOK, Leave

-----------------------------------------------------------------------------

LEMMA InitInv == Init => IInv
BY PrintAssumption DEF Init, IInv, TypeOK, UnfinishedIsInHand, OutputMatchesStatus, EntryIsThere,
  NoneFoundCancelled, OutputLater, Unfinished, Idle, At, Steps

\* A job stays in hand while its entry does not change and its threads go on.
LEMMA StaysInHand ==
  ASSUME NEW k \in Jobs, InHand(k), entry'[k] = entry[k],
         \A u \in Threads : thread[u].job = k => thread'[u] = thread[u],
         \A u \in Threads : thread'[u].queued => thread[u] = thread'[u]
  PROVE  InHand(k)'
BY DEF InHand

\* A request creates its job, or changes nothing but its own thread.
LEMMA RequestEffect ==
  ASSUME TypeOK, NEW t \in Threads, NEW j \in Jobs, Request(t, j)
  PROVE  \E s \in {"enqueueing", "retrying", "cancelling", "deleting", "resetting"} :
           /\ Ask(t, s, j)
           /\ entry' = entry /\ faults' = faults /\ output' = output
           /\ \/ status' = status
              \/ /\ s = "enqueueing" /\ status[j] = "none"
                 /\ \E n \in {"QUEUED", "RUNNING"} : status' = [status EXCEPT ![j] = n]
           /\ \/ orphaned' = orphaned
              \/ s = "resetting" /\ orphaned' = orphaned \ {j}
<1>1. CASE CreateJob(t, j)
  BY <1>1 DEF CreateJob, InitialStatuses
<1>2. CASE BeginRetry(t, j)
  BY <1>2 DEF BeginRetry
<1>3. CASE BeginCancel(t, j)
  BY <1>3 DEF BeginCancel
<1>4. CASE BeginDelete(t, j)
  BY <1>4 DEF BeginDelete
<1>5. CASE Boot(t, j)
  BY <1>5 DEF Boot
<1> QED
  BY <1>1, <1>2, <1>3, <1>4, <1>5 DEF Request

LEMMA RequestStep ==
  ASSUME IInv, NEW t \in Threads, NEW j \in Jobs, Request(t, j)
  PROVE  IInv'
<1> USE DEF IInv
<1>0. PICK s \in {"enqueueing", "retrying", "cancelling", "deleting", "resetting"} :
        /\ Ask(t, s, j)
        /\ entry' = entry /\ faults' = faults /\ output' = output
        /\ \/ status' = status
           \/ /\ s = "enqueueing" /\ status[j] = "none"
              /\ \E n \in {"QUEUED", "RUNNING"} : status' = [status EXCEPT ![j] = n]
        /\ \/ orphaned' = orphaned
           \/ s = "resetting" /\ orphaned' = orphaned \ {j}
  BY RequestEffect
<1>1. /\ thread[t].pc = "idle" /\ ~thread[t].queued
      /\ thread'[t].pc = s /\ thread'[t].job = j /\ ~thread'[t].queued
      /\ ~thread'[t].cancelled
      /\ \A u \in Threads \ {t} : thread'[u] = thread[u]
      /\ thread' \in [Threads -> [pc : Steps, job : Jobs \cup {NoJob},
                                  queued : BOOLEAN, cancelled : BOOLEAN]]
      /\ requests' \in 0 .. MaxRequests
  <2>1. s \in Steps
    BY DEF Steps, Enqueueing
  <2>2. /\ thread[t] = Idle /\ thread' = [thread EXCEPT ![t] = At(s, j, FALSE)]
        /\ requests > 0 /\ requests' = requests - 1
    BY <1>0 DEF Ask
  <2>3. requests' \in 0 .. MaxRequests
    BY <2>2, PrintAssumption DEF TypeOK
  <2> QED
    BY <2>1, <2>2, <2>3 DEF TypeOK, Idle, At
<1>3. TypeOK'
  BY <1>0, <1>1 DEF TypeOK, Processing
<1>4. UnfinishedIsInHand'
  <2> SUFFICES ASSUME NEW k \in Jobs, Unfinished(k)'
               PROVE  InHand(k)' \/ k \in orphaned'
    BY DEF UnfinishedIsInHand
  <2>1. CASE k = j /\ s \in {"enqueueing", "resetting"}
    BY <2>1, <1>1 DEF InHand, Enqueueing
  <2>2. CASE ~(k = j /\ s \in {"enqueueing", "resetting"})
    <3>1. Unfinished(k)
      BY <2>2, <1>0 DEF Unfinished, TypeOK
    <3>2. k \in orphaned => k \in orphaned'
      BY <2>2, <1>0
    <3>3. InHand(k) => InHand(k)'
      BY <1>0, <1>1 DEF InHand, Enqueueing, Processing
    <3> QED
      BY <3>1, <3>2, <3>3 DEF UnfinishedIsInHand
  <2> QED
    BY <2>1, <2>2
<1>5. EntryIsThere'
  <2> SUFFICES ASSUME NEW v \in Threads, thread'[v].pc = "checking",
                      Unfinished(thread[v].job)'
               PROVE  \/ entry'[thread'[v].job] # "absent"
                      \/ thread'[v].job \in orphaned'
                      \/ \E u \in Threads :
                           thread'[u].job = thread'[v].job /\ thread'[u].pc \in Working
    BY <1>1 DEF EntryIsThere
  <2>0. v # t /\ thread'[v] = thread[v] /\ thread[v].job \in Jobs
    BY <1>1 DEF TypeOK
  <2>1. CASE thread[v].job = j /\ s \in {"enqueueing", "resetting"}
    BY <2>0, <2>1, <1>1 DEF Working
  <2>2. CASE ~(thread[v].job = j /\ s \in {"enqueueing", "resetting"})
    <3>1. Unfinished(thread[v].job)
      BY <2>0, <2>2, <1>0 DEF Unfinished, TypeOK
    <3>2. \A u \in Threads : thread[u].pc \in Working => thread'[u] = thread[u]
      BY <1>1 DEF Working, Processing
    <3> QED
      BY <2>0, <2>2, <3>1, <3>2, <1>0 DEF EntryIsThere
  <2> QED
    BY <2>1, <2>2
<1>6. OutputMatchesStatus' /\ OutputLater'
  BY <1>0 DEF TypeOK, OutputMatchesStatus, OutputLater
<1>7. NoneFoundCancelled'
  BY <1>1 DEF NoneFoundCancelled
<1> QED
  BY <1>3, <1>4, <1>5, <1>6, <1>7

-----------------------------------------------------------------------------
(* The steps of requests *)

\* A thread goes from one step to the next, which keeps its job in hand if the
\* last one did; what it changes besides is its job's row and entry.
LEMMA GoingOn ==
  ASSUME IInv, NEW t \in Threads, NEW s \in Steps \ {"idle", "returning", "checking"},
         Goto(t, s), NEW j \in Jobs, j = thread[t].job,
         thread[t].pc \notin {"idle", "returning"},
         thread[t].pc \in Working \cup {"checking"} => s \in Working,
         thread[t].queued => s \in Processing,
         status' \in [Jobs -> {"none", "QUEUED", "RUNNING", "DONE", "FAILED",
                               "CANCELLED", "gone"}],
         entry' \in [Jobs -> {"absent", "waiting", "active", "over"}],
         \A k \in Jobs \ {j} : status'[k] = status[k] /\ entry'[k] = entry[k],
         Unfinished(j)' => Unfinished(j) \/ s \in Working,
         entry'[j] = entry[j] \/ (s \in Working /\ entry[j] # "active"),
         orphaned' \subseteq Jobs,
         \A k \in orphaned : k \in orphaned' \/ (k = j /\ s \in Working),
         output' \in [Jobs -> BOOLEAN], OutputMatchesStatus', OutputLater',
         requests' = requests, faults' \in 0 .. MaxFaults
  PROVE  IInv'
<1> USE DEF IInv
<1>1. TypeOK
  OBVIOUS
<1>2. /\ thread'[t].pc = s /\ thread'[t].job = j
      /\ thread'[t].queued = thread[t].queued
      /\ thread'[t].cancelled = thread[t].cancelled
      /\ \A u \in Threads \ {t} : thread'[u] = thread[u]
      /\ thread' \in [Threads -> [pc : Steps, job : Jobs \cup {NoJob},
                                  queued : BOOLEAN, cancelled : BOOLEAN]]
  <2> HIDE DEF IInv
  <2> QED
    BY <1>1, GotoThread
<1>3. TypeOK'
  <2>1. \A u \in Threads : thread'[u].queued => thread[u].queued /\ thread'[u].job = thread[u].job
    BY <1>2
  <2>2. ASSUME NEW u \in Threads, thread'[u].queued
        PROVE  entry'[thread'[u].job] = "active"
    <3>1. thread[u].job \in Jobs /\ entry[thread[u].job] = "active" /\ thread'[u].job = thread[u].job
      BY <2>1, <2>2 DEF TypeOK, Processing
    <3> QED
      BY <3>1
  <2>3. \A u \in Threads : thread'[u].queued => thread'[u].pc \in Processing \cup {"returning"}
    BY <1>2 DEF TypeOK
  <2>4. \A u \in Threads : /\ thread'[u].pc # "idle" => thread'[u].job \in Jobs
                          /\ thread'[u].pc = "returning" => thread'[u].queued
    BY <1>2 DEF TypeOK
  <2>5. \A u, v \in Threads :
          thread'[u].queued /\ thread'[v].queued /\ thread'[u].job = thread'[v].job => u = v
    BY <2>1 DEF TypeOK
  <2> QED
    BY <1>2, <2>2, <2>3, <2>4, <2>5 DEF TypeOK
<1>4. UnfinishedIsInHand'
  <2> SUFFICES ASSUME NEW k \in Jobs, Unfinished(k)'
               PROVE  InHand(k)' \/ k \in orphaned'
    BY DEF UnfinishedIsInHand
  <2>1. CASE k = j /\ s \in Working
    BY <2>1, <1>2 DEF InHand, Working, Enqueueing
  <2>2. CASE ~(k = j /\ s \in Working)
    <3>1. Unfinished(k) /\ entry'[k] = entry[k]
      BY <2>2 DEF Unfinished
    <3>2. InHand(k) => InHand(k)'
      BY <2>2, <3>1, <1>2 DEF InHand, Working, Enqueueing
    <3> QED
      BY <2>2, <3>1, <3>2 DEF UnfinishedIsInHand
  <2> QED
    BY <2>1, <2>2
<1>5. EntryIsThere'
  <2> SUFFICES ASSUME NEW v \in Threads, thread'[v].pc = "checking",
                      Unfinished(thread[v].job)'
               PROVE  \/ entry'[thread'[v].job] # "absent"
                      \/ thread'[v].job \in orphaned'
                      \/ \E u \in Threads :
                           thread'[u].job = thread'[v].job /\ thread'[u].pc \in Working
    BY DEF EntryIsThere
  <2>0. v # t /\ thread'[v] = thread[v] /\ thread[v].job \in Jobs
    BY <1>2 DEF TypeOK
  <2>1. CASE thread[v].job = j /\ s \in Working
    BY <2>1, <2>0, <1>2
  <2>2. CASE ~(thread[v].job = j /\ s \in Working)
    <3>1. Unfinished(thread[v].job) /\ entry'[thread[v].job] = entry[thread[v].job]
      BY <2>0, <2>2 DEF Unfinished
    <3>2. \A u \in Threads : thread[u].job = thread[v].job /\ thread[u].pc \in Working
            => thread'[u].job = thread[v].job /\ thread'[u].pc \in Working
      BY <1>2
    <3> QED
      BY <2>0, <2>2, <3>1, <3>2 DEF EntryIsThere
  <2> QED
    BY <2>1, <2>2
<1>6. NoneFoundCancelled'
  BY <1>2 DEF NoneFoundCancelled
<1> QED
  BY <1>3, <1>4, <1>5, <1>6

\* A thread stops, or returns to the queue: its job is finished or given up, or was
\* not in its hand, or falls back to the queue with its entry.
LEMMA Ending ==
  ASSUME IInv, NEW t \in Threads, NEW j \in Jobs, j = thread[t].job,
         \/ Goto(t, "returning") /\ thread[t].queued /\ thread[t].pc \in Processing
         \/ Stop(t),
         status' \in [Jobs -> {"none", "QUEUED", "RUNNING", "DONE", "FAILED",
                               "CANCELLED", "gone"}],
         entry' = entry,
         \A k \in Jobs \ {j} : status'[k] = status[k],
         \/ ~Unfinished(j)'
         \/ j \in orphaned'
         \/ status'[j] = status[j]
              /\ \/ thread[t].pc \notin Working \cup {"checking"}
                 \/ thread[t].queued /\ Stop(t),
         orphaned \subseteq orphaned', orphaned' \subseteq Jobs,
         output' \in [Jobs -> BOOLEAN], OutputMatchesStatus', OutputLater',
         requests' = requests, faults' \in 0 .. MaxFaults
  PROVE  IInv'
<1> USE DEF IInv
<1>1. TypeOK
  OBVIOUS
<1>2. \A u \in Threads \ {t} : thread'[u] = thread[u]
  <2> HIDE DEF IInv
  <2> QED
    BY <1>1, GotoThread, StopThread DEF Steps
<1>3. \/ /\ thread'[t].pc = "returning" /\ thread'[t].job = j /\ thread'[t].queued
         /\ thread[t].queued
      \/ Stop(t) /\ thread'[t].pc = "idle" /\ ~thread'[t].queued
  <2> HIDE DEF IInv
  <2> QED
    BY <1>1, GotoThread, StopThread DEF Steps
<1>4. ~thread'[t].cancelled
  <2>1. ~thread[t].cancelled
    BY DEF NoneFoundCancelled
  <2> HIDE DEF IInv
  <2> QED
    BY <1>1, <2>1, GotoThread, StopThread DEF Steps
<1>5. thread' \in [Threads -> [pc : Steps, job : Jobs \cup {NoJob},
                               queued : BOOLEAN, cancelled : BOOLEAN]]
  <2> HIDE DEF IInv
  <2> QED
    BY <1>1, GotoThread, StopThread DEF Steps
<1>6. TypeOK'
  BY <1>2, <1>3, <1>5 DEF TypeOK
<1>7. UnfinishedIsInHand'
  <2> SUFFICES ASSUME NEW k \in Jobs, Unfinished(k)', k \notin orphaned'
               PROVE  InHand(k)'
    BY DEF UnfinishedIsInHand
  <2>1. Unfinished(k) /\ InHand(k)
    BY DEF Unfinished, UnfinishedIsInHand
  <2>2. CASE k # j
    BY <2>1, <2>2, <1>2, <1>3 DEF InHand, Enqueueing, Processing
  <2>3. CASE k = j /\ thread[t].pc \notin Working \cup {"checking"}
    BY <2>1, <2>3, <1>2, <1>3 DEF InHand, Working, Enqueueing
  <2>4. CASE k = j /\ thread[t].queued /\ Stop(t)
    <3>1. entry'[k] = "active" /\ \A u \in Threads \ {t} : ~(thread[u].queued /\ thread[u].job = k)
      BY <2>4 DEF TypeOK
    <3>2. ~thread'[t].queued
      <4> HIDE DEF IInv
      <4> QED
        BY <1>1, <2>4, StopThread
    <3> QED
      BY <3>1, <3>2, <1>2 DEF InHand
  <2> QED
    BY <2>2, <2>3, <2>4
<1>8. EntryIsThere'
  <2> SUFFICES ASSUME NEW v \in Threads, thread'[v].pc = "checking",
                      Unfinished(thread[v].job)', thread'[v].job \notin orphaned',
                      entry'[thread'[v].job] = "absent"
               PROVE  \E u \in Threads :
                        thread'[u].job = thread'[v].job /\ thread'[u].pc \in Working
    BY DEF EntryIsThere
  <2>0. v # t /\ thread'[v] = thread[v] /\ thread[v].job \in Jobs
    BY <1>2, <1>3 DEF TypeOK
  <2>1. Unfinished(thread[v].job)
    BY <2>0 DEF Unfinished
  <2>2. PICK u \in Threads : thread[u].job = thread[v].job /\ thread[u].pc \in Working
    BY <2>0, <2>1 DEF EntryIsThere
  <2>3. u # t
    BY <2>0, <2>2 DEF TypeOK
  <2> QED
    BY <2>0, <2>2, <2>3, <1>2
<1>9. NoneFoundCancelled'
  BY <1>2, <1>4 DEF NoneFoundCancelled
<1> QED
  BY <1>6, <1>7, <1>8, <1>9

\* retryJob, cancelJob and deleteJob, on their thread's job.
LEMMA AdminStep ==
  ASSUME IInv, NEW t \in Threads, RetryJob(t) \/ CancelJob(t) \/ EraseJob(t)
  PROVE  IInv'
<1>1. /\ TypeOK /\ OutputMatchesStatus /\ OutputLater
  BY DEF IInv
<1>2. PICK j \in Jobs : j = thread[t].job /\ ~thread[t].queued
  BY <1>1 DEF TypeOK, RetryJob, CancelJob, EraseJob, Processing
<1>3. CASE RetryJob(t) /\ Exists(j)
  <2>1. PICK n \in {"QUEUED", "RUNNING"} : status' = [status EXCEPT ![j] = n]
    BY <1>2, <1>3 DEF RetryJob, InitialStatuses
  <2>2. /\ Goto(t, "resetting") /\ thread[t].pc = "retrying"
        /\ output' = [output EXCEPT ![j] = FALSE] /\ orphaned' = orphaned \ {j}
        /\ entry' = entry /\ requests' = requests /\ faults' = faults
    BY <1>2, <1>3 DEF RetryJob, OutputAfterRetry
  <2>3. OutputMatchesStatus' /\ OutputLater'
    BY <1>1, <1>2, <2>1, <2>2 DEF TypeOK, OutputMatchesStatus, OutputLater
  <2>4. /\ status' \in [Jobs -> {"none", "QUEUED", "RUNNING", "DONE", "FAILED",
                                 "CANCELLED", "gone"}]
        /\ output' \in [Jobs -> BOOLEAN]
        /\ \A k \in Jobs \ {j} : status'[k] = status[k]
    BY <1>1, <1>2, <2>1, <2>2 DEF TypeOK
  <2>5. /\ "resetting" \in Steps \ {"idle", "returning", "checking"}
        /\ "resetting" \in Working
    BY DEF Steps, Working, Enqueueing
  <2>6. /\ entry' \in [Jobs -> {"absent", "waiting", "active", "over"}]
        /\ orphaned' \subseteq Jobs /\ faults' \in 0 .. MaxFaults
    BY <1>1, <2>2 DEF TypeOK
  <2> QED
    BY <1>2, <2>2, <2>3, <2>4, <2>5, <2>6, GoingOn
<1>4. CASE CancelJob(t) /\ Exists(j)
  <2>1. /\ Goto(t, "removing") /\ thread[t].pc = "cancelling"
        /\ status' = [status EXCEPT ![j] = "CANCELLED"] /\ output' = output
        /\ orphaned' = orphaned
        /\ entry' = entry /\ requests' = requests /\ faults' = faults
    BY <1>2, <1>4 DEF CancelJob
  <2>2. OutputMatchesStatus' /\ OutputLater'
    BY <1>1, <1>2, <2>1 DEF TypeOK, OutputMatchesStatus, OutputLater
  <2>3. /\ status' \in [Jobs -> {"none", "QUEUED", "RUNNING", "DONE", "FAILED",
                                 "CANCELLED", "gone"}]
        /\ output' \in [Jobs -> BOOLEAN]
        /\ \A k \in Jobs \ {j} : status'[k] = status[k]
        /\ ~Unfinished(j)'
    BY <1>1, <1>2, <2>1 DEF TypeOK, Unfinished
  <2>4. /\ "removing" \in Steps \ {"idle", "returning", "checking"}
        /\ "cancelling" \notin Working \cup {"checking"}
    BY DEF Steps, Working, Processing
  <2>5. /\ entry' \in [Jobs -> {"absent", "waiting", "active", "over"}]
        /\ orphaned' \subseteq Jobs /\ faults' \in 0 .. MaxFaults
    BY <1>1, <2>1 DEF TypeOK
  <2> QED
    BY <1>2, <2>1, <2>2, <2>3, <2>4, <2>5, GoingOn
<1>5. CASE EraseJob(t) \/ ~Exists(j)
  <2>1. /\ Stop(t) /\ output' = output /\ orphaned' = orphaned
        /\ entry' = entry /\ requests' = requests /\ faults' = faults
        /\ status' = status \/ status' = [status EXCEPT ![j] = "gone"]
        /\ ~Exists(j)'
    BY <1>1, <1>2, <1>5 DEF RetryJob, CancelJob, EraseJob, Exists, TypeOK
  <2>2. OutputMatchesStatus' /\ OutputLater'
    BY <1>1, <1>2, <2>1 DEF TypeOK, OutputMatchesStatus, OutputLater
  <2>3. /\ status' \in [Jobs -> {"none", "QUEUED", "RUNNING", "DONE", "FAILED",
                                 "CANCELLED", "gone"}]
        /\ output' \in [Jobs -> BOOLEAN]
        /\ \A k \in Jobs \ {j} : status'[k] = status[k]
        /\ ~Unfinished(j)'
    BY <1>1, <1>2, <2>1 DEF TypeOK, Unfinished, Exists
  <2>4. orphaned' \subseteq Jobs /\ orphaned \subseteq orphaned' /\ faults' \in 0 .. MaxFaults
    BY <1>1, <2>1 DEF TypeOK
  <2> QED
    BY <1>2, <2>1, <2>2, <2>3, <2>4, Ending
<1> QED
  BY <1>3, <1>4, <1>5 DEF EraseJob

\* The thread goes on and nothing else happens.
LEMMA QuietStep ==
  ASSUME IInv, NEW t \in Threads, NEW s \in Working, Goto(t, s),
         thread[t].pc \notin {"idle", "returning"},
         thread[t].queued => s \in Processing,
         UNCHANGED <<status, output, entry, orphaned>>,
         requests' = requests, faults' \in 0 .. MaxFaults
  PROVE  IInv'
<1>1. TypeOK /\ OutputMatchesStatus /\ OutputLater
  BY DEF IInv
<1>2. PICK j \in Jobs : j = thread[t].job
  BY <1>1 DEF TypeOK
<1>3. s \in Steps \ {"idle", "returning", "checking"}
  BY DEF Steps, Working, Enqueueing, Processing
<1>4. /\ status' \in [Jobs -> {"none", "QUEUED", "RUNNING", "DONE", "FAILED",
                               "CANCELLED", "gone"}]
      /\ entry' \in [Jobs -> {"absent", "waiting", "active", "over"}]
      /\ output' \in [Jobs -> BOOLEAN] /\ orphaned' \subseteq Jobs
  BY <1>1 DEF TypeOK
<1>5. OutputMatchesStatus' /\ OutputLater' /\ (Unfinished(j)' => Unfinished(j))
  BY <1>1 DEF OutputMatchesStatus, OutputLater, Unfinished
<1> QED
  BY <1>2, <1>3, <1>4, <1>5, GoingOn

\* The processing leaves its job, finished or given up.
LEMMA LeavingStep ==
  ASSUME IInv, NEW t \in Threads, Leave(t), thread[t].pc \in Processing,
         NEW j \in Jobs, j = thread[t].job,
         status' \in [Jobs -> {"none", "QUEUED", "RUNNING", "DONE", "FAILED",
                               "CANCELLED", "gone"}],
         entry' = entry,
         \A k \in Jobs \ {j} : status'[k] = status[k],
         ~Unfinished(j)' \/ j \in orphaned',
         orphaned \subseteq orphaned', orphaned' \subseteq Jobs,
         output' \in [Jobs -> BOOLEAN], OutputMatchesStatus', OutputLater',
         requests' = requests, faults' \in 0 .. MaxFaults
  PROVE  IInv'
<1>1. \/ thread[t].queued /\ Goto(t, "returning")
      \/ Stop(t)
  BY LeaveThread DEF IInv
<1> QED
  BY <1>1, Ending

\* A write of the processing that goes on.
LEMMA WriteOn ==
  ASSUME IInv, NEW t \in Threads, NEW j \in Jobs, j = thread[t].job, Exists(j),
         thread[t].pc = "starting", Write(t, "RUNNING", output[j], "rendering"),
         UNCHANGED <<entry, requests, faults, orphaned>>
  PROVE  IInv'
<1>1. TypeOK /\ OutputMatchesStatus /\ OutputLater
  BY DEF IInv
<1>2. /\ Goto(t, "rendering")
      /\ status' = [status EXCEPT ![j] = "RUNNING"]
      /\ output' = output
  BY <1>1 DEF Write, TypeOK
<1>3. /\ status' \in [Jobs -> {"none", "QUEUED", "RUNNING", "DONE", "FAILED",
                               "CANCELLED", "gone"}]
      /\ entry' \in [Jobs -> {"absent", "waiting", "active", "over"}]
      /\ output' \in [Jobs -> BOOLEAN] /\ orphaned' \subseteq Jobs
      /\ faults' \in 0 .. MaxFaults
      /\ \A k \in Jobs \ {j} : status'[k] = status[k]
  BY <1>1, <1>2 DEF TypeOK
<1>4. OutputMatchesStatus' /\ OutputLater'
  BY <1>1, <1>2 DEF TypeOK, OutputMatchesStatus, OutputLater
<1>5. /\ "rendering" \in Steps \ {"idle", "returning", "checking"}
      /\ "rendering" \in Working /\ "rendering" \in Processing
  BY DEF Steps, Working, Processing
<1> QED
  BY <1>2, <1>3, <1>4, <1>5, GoingOn

\* A write of the processing that ends it.
LEMMA WriteLast ==
  ASSUME IInv, NEW t \in Threads, NEW j \in Jobs, j = thread[t].job, Exists(j),
         thread[t].pc \in Processing,
         NEW s \in {"DONE", "FAILED"}, NEW out \in BOOLEAN,
         s = "DONE" => out,
         Write(t, s, out, "end"),
         UNCHANGED <<entry, requests, faults, orphaned>>
  PROVE  IInv'
<1>1. TypeOK /\ OutputMatchesStatus /\ OutputLater
  BY DEF IInv
<1>2. /\ Leave(t)
      /\ status' = [status EXCEPT ![j] = s]
      /\ output' = [output EXCEPT ![j] = out]
  BY DEF Write
<1>3. /\ status' \in [Jobs -> {"none", "QUEUED", "RUNNING", "DONE", "FAILED",
                               "CANCELLED", "gone"}]
      /\ entry' = entry
      /\ output' \in [Jobs -> BOOLEAN] /\ orphaned' \subseteq Jobs
      /\ orphaned \subseteq orphaned'
      /\ requests' = requests /\ faults' \in 0 .. MaxFaults
      /\ \A k \in Jobs \ {j} : status'[k] = status[k]
  BY <1>1, <1>2 DEF TypeOK
<1>4. OutputMatchesStatus' /\ OutputLater'
  BY <1>1, <1>2 DEF TypeOK, OutputMatchesStatus, OutputLater
<1>5. ~Unfinished(j)'
  BY <1>1, <1>2 DEF Unfinished, TypeOK
<1> QED
  BY <1>2, <1>3, <1>4, <1>5, LeavingStep

\* A processing that leaves the row as it is, because it is over, or gives it up.
LEMMA LeavingQuietly ==
  ASSUME IInv, NEW t \in Threads, Leave(t), thread[t].pc \in Processing,
         UNCHANGED <<status, output, entry>>,
         (~Unfinished(thread[t].job) /\ orphaned' = orphaned) \/ GiveUp(thread[t].job),
         requests' = requests, faults' \in 0 .. MaxFaults
  PROVE  IInv'
<1>1. TypeOK /\ OutputMatchesStatus /\ OutputLater
  BY DEF IInv
<1>2. PICK j \in Jobs : j = thread[t].job
  BY <1>1 DEF TypeOK, Processing
<1>3. /\ status' \in [Jobs -> {"none", "QUEUED", "RUNNING", "DONE", "FAILED",
                               "CANCELLED", "gone"}]
      /\ output' \in [Jobs -> BOOLEAN]
      /\ \A k \in Jobs \ {j} : status'[k] = status[k]
      /\ orphaned' \subseteq Jobs /\ orphaned \subseteq orphaned'
  BY <1>1, <1>2 DEF TypeOK, GiveUp
<1>4. OutputMatchesStatus' /\ OutputLater'
  BY <1>1 DEF OutputMatchesStatus, OutputLater
<1>5. ~Unfinished(j)' \/ j \in orphaned'
  BY <1>2 DEF Unfinished, GiveUp
<1> QED
  BY <1>2, <1>3, <1>4, <1>5, LeavingStep

-----------------------------------------------------------------------------
(* The steps of a processing *)

LEMMA ProcessingStep ==
  ASSUME IInv, NEW t \in Threads,
         \/ ProcessInline(t) \/ ReadJob(t) \/ StartJob(t) \/ Render(t) \/ StorePdf(t)
         \/ FinishJob(t) \/ FailJob(t)
  PROVE  IInv'
<1>1. TypeOK /\ NoneFoundCancelled
  BY DEF IInv
<1>2. thread[t].pc \in Processing \cup {"enqueueing", "resetting"}
  BY DEF ProcessInline, ReadJob, StartJob, Render, StorePdf, FinishJob, FailJob, Processing
<1>3. PICK j \in Jobs : j = thread[t].job
  BY <1>1, <1>2 DEF TypeOK, Processing
<1>4. {"reading", "starting", "storing", "finishing", "failing"} \subseteq Working \cap Processing
  BY DEF Working, Processing
<1>5. faults \in 0 .. MaxFaults /\ output[j] \in BOOLEAN
  BY <1>1 DEF TypeOK
<1>6. CASE ProcessInline(t)
  BY <1>4, <1>5, <1>6, QuietStep DEF ProcessInline
<1>7. CASE ReadJob(t)
  <2>1. CASE Skipped(thread[t].job)
    <3>1. ~Unfinished(thread[t].job)
      BY <2>1 DEF Skipped, Exists, Unfinished
    <3> QED
      BY <1>5, <1>7, <2>1, <3>1, LeavingQuietly DEF ReadJob, Processing
  <2>2. CASE ~Skipped(thread[t].job)
    <3>1. /\ thread' = [thread EXCEPT ![t].pc = "starting", ![t].cancelled = FALSE]
          /\ thread[t].pc = "reading"
      BY <1>7, <2>2 DEF ReadJob, Skipped
    <3>2. /\ ~thread[t].cancelled
          /\ thread \in [Threads -> [pc : Steps, job : Jobs \cup {NoJob},
                                     queued : BOOLEAN, cancelled : BOOLEAN]]
      BY <1>1 DEF NoneFoundCancelled, TypeOK
    <3>3. Goto(t, "starting")
      BY <3>1, <3>2 DEF Goto
    <3> QED
      BY <1>4, <1>5, <1>7, <3>1, <3>3, QuietStep DEF ReadJob
  <2> QED
    BY <2>1, <2>2
<1>8. CASE Render(t) \/ StorePdf(t)
  BY <1>4, <1>5, <1>8, QuietStep DEF Render, StorePdf, AfterError
<1>9. CASE (StartJob(t) \/ FinishJob(t) \/ FailJob(t)) /\ ~Exists(j)
  <2>1. /\ Leave(t) /\ UNCHANGED <<status, output, entry>> /\ orphaned' = orphaned
        /\ requests' = requests /\ faults' = faults /\ thread[t].pc \in Processing
    BY <1>3, <1>9 DEF StartJob, FinishJob, FailJob, Write, Processing
  <2>2. ~Unfinished(thread[t].job)
    BY <1>3, <1>9 DEF Unfinished, Exists
  <2> QED
    BY <1>5, <2>1, <2>2, LeavingQuietly
<1>10. CASE StartJob(t) /\ Exists(j)
  BY <1>3, <1>10, WriteOn DEF StartJob
<1>11. CASE FinishJob(t) /\ Exists(j)
  BY <1>2, <1>3, <1>11, WriteLast DEF FinishJob, Processing
<1>12. CASE FailJob(t) /\ Exists(j)
  BY <1>3, <1>5, <1>12, WriteLast DEF FailJob, Processing
<1> QED
  BY <1>6, <1>7, <1>8, <1>9, <1>10, <1>11, <1>12

LEMMA FaultStep ==
  ASSUME IInv, NEW t \in Threads, Fault(t)
  PROVE  IInv'
<1>1. TypeOK /\ OutputMatchesStatus /\ OutputLater
  BY DEF IInv
<1>2. thread[t].pc # "idle" /\ faults' \in 0 .. MaxFaults
  BY <1>1, PrintAssumption DEF Fault, StatementFails, QueueFails, Die, TypeOK
<1>3. PICK j \in Jobs : j = thread[t].job
  BY <1>1, <1>2 DEF TypeOK
<1>4. {"reading", "starting", "adding", "erasing", "failing"} \subseteq Working
  BY DEF Working, Processing
<1>5. /\ status \in [Jobs -> {"none", "QUEUED", "RUNNING", "DONE", "FAILED",
                              "CANCELLED", "gone"}]
      /\ output \in [Jobs -> BOOLEAN] /\ orphaned \subseteq Jobs
      /\ OutputMatchesStatus /\ OutputLater
  BY <1>1 DEF TypeOK
<1>6. CASE StatementFails(t)
  <2>1. CASE thread[t].pc \in {"reading", "starting", "failing"}
    BY <1>2, <1>6, <2>1, LeavingQuietly DEF StatementFails, Processing
  <2>2. CASE thread[t].pc = "finishing"
    <3>1. /\ Goto(t, "failing") /\ UNCHANGED <<status, output, entry, orphaned>>
          /\ requests' = requests
      BY <1>6, <2>2 DEF StatementFails, AfterError
    <3> QED
      BY <1>2, <1>4, <2>2, <3>1, QuietStep DEF Processing
  <2> QED
    BY <1>6, <2>1, <2>2 DEF StatementFails
<1>7. CASE QueueFails(t)
  <2>1. /\ UNCHANGED <<status, output, entry, orphaned>> /\ requests' = requests
        /\ ~thread[t].queued
    BY <1>1, <1>7 DEF QueueFails, TypeOK, Processing
  <2>2. CASE thread[t].pc = "removing"
    <3>1. Stop(t) /\ thread[t].pc \notin Working \cup {"checking"}
      BY <1>7, <2>2 DEF QueueFails, Working, Processing
    <3>2. OutputMatchesStatus' /\ OutputLater'
      BY <1>5, <2>1 DEF OutputMatchesStatus, OutputLater
    <3> QED
      BY <1>2, <1>3, <1>5, <2>1, <3>1, <3>2, Ending
  <2>3. CASE thread[t].pc # "removing"
    <3>1. PICK s \in {"reading", "adding", "erasing"} : Goto(t, s)
      BY <1>7, <2>3 DEF QueueFails
    <3>2. thread[t].pc \notin {"idle", "returning"}
      BY <1>7 DEF QueueFails
    <3> QED
      BY <1>2, <1>4, <2>1, <3>1, <3>2, QuietStep
  <2> QED
    BY <2>2, <2>3
<1>8. CASE Die(t)
  <2>1. /\ Stop(t) /\ UNCHANGED <<status, output, entry>> /\ requests' = requests
        /\ orphaned \subseteq orphaned' /\ orphaned' \subseteq Jobs
    BY <1>3, <1>5, <1>8 DEF Die, GiveUp
  <2>2. \/ ~Unfinished(j)' \/ j \in orphaned'
        \/ thread[t].pc \notin Working \cup {"checking"}
        \/ thread[t].queued
    BY <1>3, <1>8 DEF Die, GiveUp, Unfinished, Working, Enqueueing
  <2>3. OutputMatchesStatus' /\ OutputLater'
    BY <1>5, <2>1 DEF OutputMatchesStatus, OutputLater
  <2> QED
    BY <1>2, <1>3, <1>5, <2>1, <2>2, <2>3, Ending
<1> QED
  BY <1>6, <1>7, <1>8 DEF Fault

-----------------------------------------------------------------------------
(* The steps that change an entry *)

LEMMA RemoveFirstStep ==
  ASSUME IInv, NEW t \in Threads, RemoveFirst(t)
  PROVE  IInv'
<1>1. TypeOK /\ OutputMatchesStatus /\ OutputLater
  BY DEF IInv
<1>2. PICK j \in Jobs : j = thread[t].job /\ ~thread[t].queued
  BY <1>1 DEF TypeOK, RemoveFirst, Processing
<1>3. PICK s \in {"adding", "erasing"} : Goto(t, s)
  BY DEF RemoveFirst
<1>4. /\ s \in Steps \ {"idle", "returning", "checking"} /\ s \in Working
      /\ thread[t].pc \notin {"idle", "returning"}
  BY DEF RemoveFirst, Steps, Working, Enqueueing
<1>5. /\ UNCHANGED <<status, output, requests, faults, orphaned>>
      /\ entry' = [entry EXCEPT ![j] = AfterRemoval(j)]
  BY <1>2 DEF RemoveFirst
<1>6. /\ entry' \in [Jobs -> {"absent", "waiting", "active", "over"}]
      /\ entry'[j] = entry[j] \/ entry[j] # "active"
      /\ \A k \in Jobs \ {j} : entry'[k] = entry[k] /\ status'[k] = status[k]
      /\ status' \in [Jobs -> {"none", "QUEUED", "RUNNING", "DONE", "FAILED",
                               "CANCELLED", "gone"}]
      /\ output' \in [Jobs -> BOOLEAN] /\ orphaned' \subseteq Jobs
      /\ faults' \in 0 .. MaxFaults
  BY <1>1, <1>5 DEF TypeOK, AfterRemoval
<1>7. OutputMatchesStatus' /\ OutputLater'
  BY <1>1, <1>5 DEF OutputMatchesStatus, OutputLater
<1> QED
  BY <1>2, <1>3, <1>4, <1>5, <1>6, <1>7, GoingOn

LEMMA RemoveLastStep ==
  ASSUME IInv, NEW t \in Threads, RemoveLast(t)
  PROVE  IInv'
<1> USE DEF IInv
<1>1. TypeOK
  OBVIOUS
<1>2. PICK j \in Jobs : j = thread[t].job /\ ~thread[t].queued /\ thread[t].pc = "removing"
  BY DEF TypeOK, RemoveLast, Processing
<1>3. /\ Stop(t) /\ UNCHANGED <<status, output, requests, faults>>
      /\ entry' = [entry EXCEPT ![j] = AfterRemoval(j)]
      /\ IF entry[j] = "waiting" \/ (entry[j] = "over" /\ Checking(j))
           THEN GiveUp(j) ELSE UNCHANGED orphaned
  BY <1>2 DEF RemoveLast
<1>4. /\ thread'[t].pc = "idle" /\ ~thread'[t].queued /\ ~thread'[t].cancelled
      /\ \A u \in Threads \ {t} : thread'[u] = thread[u]
      /\ thread' \in [Threads -> [pc : Steps, job : Jobs \cup {NoJob},
                                  queued : BOOLEAN, cancelled : BOOLEAN]]
  <2> HIDE DEF IInv
  <2> QED
    BY <1>1, <1>3, StopThread
<1>5. /\ entry' \in [Jobs -> {"absent", "waiting", "active", "over"}]
      /\ entry[j] = "active" => entry'[j] = "active"
      /\ \A k \in Jobs \ {j} : entry'[k] = entry[k]
      /\ orphaned \subseteq orphaned' /\ orphaned' \subseteq Jobs
  BY <1>3 DEF TypeOK, AfterRemoval, GiveUp
<1>6. TypeOK'
  BY <1>3, <1>4, <1>5 DEF TypeOK
<1>7. UnfinishedIsInHand'
  <2> SUFFICES ASSUME NEW k \in Jobs, Unfinished(k)', k \notin orphaned'
               PROVE  InHand(k)'
    BY DEF UnfinishedIsInHand
  <2>1. Unfinished(k) /\ InHand(k)
    BY <1>3, <1>5 DEF Unfinished, UnfinishedIsInHand
  <2>2. entry[k] \in {"waiting", "active"} => entry'[k] = entry[k]
    BY <1>3, <1>5, <2>1 DEF GiveUp
  <2> QED
    BY <1>2, <1>4, <2>1, <2>2 DEF InHand, Enqueueing, Processing
<1>8. EntryIsThere'
  <2> SUFFICES ASSUME NEW v \in Threads, thread'[v].pc = "checking",
                      Unfinished(thread[v].job)', thread'[v].job \notin orphaned',
                      entry'[thread'[v].job] = "absent"
               PROVE  \E u \in Threads :
                        thread'[u].job = thread'[v].job /\ thread'[u].pc \in Working
    BY <1>4 DEF EntryIsThere
  <2>0. v # t /\ thread'[v] = thread[v] /\ thread[v].job \in Jobs
    BY <1>4 DEF TypeOK
  <2>1. Unfinished(thread[v].job) /\ thread[v].job \notin orphaned
    BY <2>0, <1>3, <1>5 DEF Unfinished
  <2>2. entry[thread[v].job] = "absent"
    <3>1. CASE thread[v].job = j
      <4>1. Checking(j)
        BY <2>0, <3>1 DEF Checking
      <4>2. ~GiveUp(j)
        BY <2>0, <2>1, <3>1 DEF GiveUp
      <4> QED
        BY <4>1, <4>2, <1>3, <1>5, <2>0, <3>1 DEF TypeOK
    <3>2. CASE thread[v].job # j
      BY <3>2, <2>0, <1>5
    <3> QED
      BY <3>1, <3>2
  <2>3. PICK u \in Threads : thread[u].job = thread[v].job /\ thread[u].pc \in Working
    BY <2>0, <2>1, <2>2 DEF EntryIsThere
  <2>4. u # t
    BY <2>3, <1>2 DEF Working, Processing
  <2> QED
    BY <2>0, <2>3, <2>4, <1>4
<1>9. OutputMatchesStatus' /\ OutputLater' /\ NoneFoundCancelled'
  BY <1>3, <1>4 DEF OutputMatchesStatus, OutputLater, NoneFoundCancelled
<1> QED
  BY <1>6, <1>7, <1>8, <1>9

LEMMA AddStep ==
  ASSUME IInv, NEW t \in Threads, AddEntry(t)
  PROVE  IInv'
<1> USE DEF IInv
<1>1. TypeOK
  OBVIOUS
<1>2. PICK j \in Jobs : j = thread[t].job /\ ~thread[t].queued
  BY DEF TypeOK, AddEntry, Processing
<1>3. /\ Goto(t, "checking") /\ UNCHANGED <<status, output, requests, faults, orphaned>>
      /\ entry' = [entry EXCEPT ![j] = IF entry[j] = "absent" THEN "waiting" ELSE entry[j]]
  BY <1>2 DEF AddEntry
<1>4. /\ thread'[t].pc = "checking" /\ thread'[t].job = j /\ ~thread'[t].queued
      /\ thread'[t].cancelled = thread[t].cancelled
      /\ \A u \in Threads \ {t} : thread'[u] = thread[u]
      /\ thread' \in [Threads -> [pc : Steps, job : Jobs \cup {NoJob},
                                  queued : BOOLEAN, cancelled : BOOLEAN]]
  <2> HIDE DEF IInv
  <2>1. "checking" \in Steps
    BY DEF Steps, Enqueueing
  <2> QED
    BY <1>1, <1>2, <1>3, <2>1, GotoThread
<1>5. /\ entry' \in [Jobs -> {"absent", "waiting", "active", "over"}]
      /\ entry'[j] # "absent"
      /\ entry[j] # "absent" => entry'[j] = entry[j]
      /\ \A k \in Jobs \ {j} : entry'[k] = entry[k]
  BY <1>3 DEF TypeOK
<1>6. TypeOK'
  BY <1>3, <1>4, <1>5 DEF TypeOK
<1>7. UnfinishedIsInHand'
  <2> SUFFICES ASSUME NEW k \in Jobs, Unfinished(k)', k \notin orphaned'
               PROVE  InHand(k)'
    BY DEF UnfinishedIsInHand
  <2>1. CASE k = j
    BY <2>1, <1>4 DEF InHand, Enqueueing
  <2>2. CASE k # j
    <3>1. Unfinished(k) /\ InHand(k) /\ entry'[k] = entry[k]
      BY <2>2, <1>3, <1>5 DEF Unfinished, UnfinishedIsInHand
    <3> QED
      BY <2>2, <3>1, <1>2, <1>4 DEF InHand
  <2> QED
    BY <2>1, <2>2
<1>8. EntryIsThere'
  <2> SUFFICES ASSUME NEW v \in Threads, thread'[v].pc = "checking",
                      Unfinished(thread[v].job)', thread'[v].job \notin orphaned',
                      entry'[thread'[v].job] = "absent"
               PROVE  \E u \in Threads :
                        thread'[u].job = thread'[v].job /\ thread'[u].pc \in Working
    BY <1>2, <1>4 DEF EntryIsThere
  <2>0. v # t /\ thread'[v] = thread[v] /\ thread[v].job \in Jobs \ {j}
    BY <1>4, <1>5 DEF TypeOK
  <2>1. Unfinished(thread[v].job) /\ entry[thread[v].job] = "absent"
    BY <2>0, <1>3, <1>5 DEF Unfinished
  <2>2. PICK u \in Threads : thread[u].job = thread[v].job /\ thread[u].pc \in Working
    BY <2>0, <2>1, <1>3 DEF EntryIsThere
  <2> QED
    BY <2>0, <2>2, <1>2, <1>4
<1>9. OutputMatchesStatus' /\ OutputLater' /\ NoneFoundCancelled'
  BY <1>3, <1>4 DEF OutputMatchesStatus, OutputLater, NoneFoundCancelled
<1> QED
  BY <1>6, <1>7, <1>8, <1>9

LEMMA CheckStep ==
  ASSUME IInv, NEW t \in Threads, CheckEntry(t)
  PROVE  IInv'
<1> USE DEF IInv
<1>1. TypeOK
  OBVIOUS
<1>2. PICK j \in Jobs : j = thread[t].job /\ ~thread[t].queued /\ thread[t].pc = "checking"
  BY DEF TypeOK, CheckEntry, Processing
<1>3. /\ Stop(t) /\ UNCHANGED <<status, output, requests, faults>>
      /\ entry' = [entry EXCEPT ![j] = IF entry[j] = "over" THEN "waiting" ELSE entry[j]]
      /\ IF \E u \in Threads : thread[u].job = j /\ thread[u].pc = "returning"
           THEN GiveUp(j) ELSE UNCHANGED orphaned
  BY <1>2 DEF CheckEntry, Stale
<1>4. /\ thread'[t].pc = "idle" /\ ~thread'[t].queued /\ ~thread'[t].cancelled
      /\ \A u \in Threads \ {t} : thread'[u] = thread[u]
      /\ thread' \in [Threads -> [pc : Steps, job : Jobs \cup {NoJob},
                                  queued : BOOLEAN, cancelled : BOOLEAN]]
  <2> HIDE DEF IInv
  <2> QED
    BY <1>1, <1>3, StopThread
<1>5. /\ entry' \in [Jobs -> {"absent", "waiting", "active", "over"}]
      /\ entry[j] \in {"absent", "active"} => entry'[j] = entry[j]
      /\ entry[j] \in {"waiting", "over"} => entry'[j] = "waiting"
      /\ \A k \in Jobs \ {j} : entry'[k] = entry[k]
      /\ orphaned \subseteq orphaned' /\ orphaned' \subseteq Jobs
  BY <1>3 DEF TypeOK, GiveUp
<1>6. TypeOK'
  BY <1>3, <1>4, <1>5 DEF TypeOK
<1>7. UnfinishedIsInHand'
  <2> SUFFICES ASSUME NEW k \in Jobs, Unfinished(k)', k \notin orphaned'
               PROVE  InHand(k)'
    BY DEF UnfinishedIsInHand
  <2>0. Unfinished(k) /\ k \notin orphaned
    BY <1>3, <1>5 DEF Unfinished
  <2>1. CASE k # j
    <3>1. InHand(k) /\ entry'[k] = entry[k]
      BY <2>0, <2>1, <1>5 DEF UnfinishedIsInHand
    <3> QED
      BY <2>1, <3>1, <1>2, <1>4 DEF InHand
  <2>2. CASE k = j
    <3>1. \A u \in Threads : ~(thread[u].job = j /\ thread[u].pc = "returning")
      BY <2>0, <2>2, <1>3 DEF GiveUp
    <3>2. CASE \E u \in Threads : thread[u].job = j /\ thread[u].pc \in Working
      <4>1. PICK u \in Threads : thread[u].job = j /\ thread[u].pc \in Working
        BY <3>2
      <4>2. u # t
        BY <4>1, <1>2 DEF Working, Processing
      <4> QED
        BY <4>1, <4>2, <2>2, <1>4 DEF InHand, Working, Enqueueing
    <3>3. CASE ~\E u \in Threads : thread[u].job = j /\ thread[u].pc \in Working
      <4>1. entry[j] # "absent"
        BY <3>3, <2>0, <2>2, <1>2 DEF EntryIsThere
      <4>2. entry'[j] \in {"waiting", "active"}
        BY <4>1, <1>5 DEF TypeOK
      <4>3. \A u \in Threads : ~(thread[u].queued /\ thread[u].job = j)
        BY <3>1, <3>3 DEF TypeOK, Working
      <4> QED
        BY <4>2, <4>3, <2>2, <1>4 DEF InHand
    <3> QED
      BY <3>2, <3>3
  <2> QED
    BY <2>1, <2>2
<1>8. EntryIsThere'
  <2> SUFFICES ASSUME NEW v \in Threads, thread'[v].pc = "checking",
                      Unfinished(thread[v].job)', thread'[v].job \notin orphaned',
                      entry'[thread'[v].job] = "absent"
               PROVE  \E u \in Threads :
                        thread'[u].job = thread'[v].job /\ thread'[u].pc \in Working
    BY <1>4 DEF EntryIsThere
  <2>0. v # t /\ thread'[v] = thread[v] /\ thread[v].job \in Jobs
    BY <1>4 DEF TypeOK
  <2>1. Unfinished(thread[v].job) /\ entry[thread[v].job] = "absent"
    BY <2>0, <1>3, <1>5 DEF Unfinished, TypeOK
  <2>2. PICK u \in Threads : thread[u].job = thread[v].job /\ thread[u].pc \in Working
    BY <2>0, <2>1, <1>5 DEF EntryIsThere
  <2>3. u # t
    BY <2>2, <1>2 DEF Working, Processing
  <2> QED
    BY <2>0, <2>2, <2>3, <1>4
<1>9. OutputMatchesStatus' /\ OutputLater' /\ NoneFoundCancelled'
  BY <1>3, <1>4 DEF OutputMatchesStatus, OutputLater, NoneFoundCancelled
<1> QED
  BY <1>6, <1>7, <1>8, <1>9

\* The worker ends its entry; the job is in other hands or finished.
LEMMA ReturnStep ==
  ASSUME IInv, NEW t \in Threads, Return(t)
  PROVE  IInv'
<1> USE DEF IInv
<1>1. TypeOK
  OBVIOUS
<1>2. PICK j \in Jobs : j = thread[t].job /\ thread[t].queued /\ thread[t].pc = "returning"
  BY DEF TypeOK, Return
<1>3. /\ Stop(t) /\ UNCHANGED <<status, output, requests, faults, orphaned>>
      /\ entry' = [entry EXCEPT ![j] = "over"]
      /\ entry[j] = "active"
  BY <1>2 DEF Return, TypeOK
<1>4. /\ thread'[t].pc = "idle" /\ ~thread'[t].queued /\ ~thread'[t].cancelled
      /\ \A u \in Threads \ {t} : thread'[u] = thread[u]
      /\ thread' \in [Threads -> [pc : Steps, job : Jobs \cup {NoJob},
                                  queued : BOOLEAN, cancelled : BOOLEAN]]
  <2> HIDE DEF IInv
  <2> QED
    BY <1>1, <1>3, StopThread
<1>5. /\ entry' \in [Jobs -> {"absent", "waiting", "active", "over"}]
      /\ entry'[j] # "absent"
      /\ \A k \in Jobs \ {j} : entry'[k] = entry[k]
  BY <1>3 DEF TypeOK
<1>6. TypeOK'
  <2>1. \A u \in Threads \ {t} : ~(thread[u].queued /\ thread[u].job = j)
    BY <1>2 DEF TypeOK
  <2> QED
    BY <2>1, <1>3, <1>4, <1>5 DEF TypeOK, Processing
<1>7. UnfinishedIsInHand'
  <2> SUFFICES ASSUME NEW k \in Jobs, Unfinished(k)', k \notin orphaned'
               PROVE  InHand(k)'
    BY DEF UnfinishedIsInHand
  <2>1. InHand(k)
    BY <1>3 DEF Unfinished, UnfinishedIsInHand
  <2>2. CASE k # j
    BY <2>1, <2>2, <1>2, <1>4, <1>5 DEF InHand
  <2>3. CASE k = j
    <3>1. PICK u \in Threads : /\ thread[u].job = j
                               /\ thread[u].pc \in Enqueueing \cup Processing \cup {"erasing"}
      BY <2>1, <2>3, <1>2, <1>3 DEF InHand
    <3>2. u # t
      BY <3>1, <1>2 DEF Enqueueing, Processing
    <3> QED
      BY <3>1, <3>2, <2>3, <1>4 DEF InHand
  <2> QED
    BY <2>2, <2>3
<1>8. EntryIsThere'
  <2> SUFFICES ASSUME NEW v \in Threads, thread'[v].pc = "checking",
                      Unfinished(thread[v].job)', thread'[v].job \notin orphaned',
                      entry'[thread'[v].job] = "absent"
               PROVE  \E u \in Threads :
                        thread'[u].job = thread'[v].job /\ thread'[u].pc \in Working
    BY <1>4 DEF EntryIsThere
  <2>0. v # t /\ thread'[v] = thread[v] /\ thread[v].job \in Jobs \ {j}
    BY <1>4, <1>5 DEF TypeOK
  <2>1. Unfinished(thread[v].job) /\ entry[thread[v].job] = "absent"
    BY <2>0, <1>3, <1>5 DEF Unfinished, TypeOK
  <2>2. PICK u \in Threads : thread[u].job = thread[v].job /\ thread[u].pc \in Working
    BY <2>0, <2>1, <1>3 DEF EntryIsThere
  <2>3. u # t
    BY <2>2, <1>2 DEF Working, Processing
  <2> QED
    BY <2>0, <2>2, <2>3, <1>4
<1>9. OutputMatchesStatus' /\ OutputLater' /\ NoneFoundCancelled'
  BY <1>3, <1>4 DEF OutputMatchesStatus, OutputLater, NoneFoundCancelled
<1> QED
  BY <1>6, <1>7, <1>8, <1>9

LEMMA TakeStep ==
  ASSUME IInv, NEW t \in Threads, NEW j \in Jobs, TakeEntry(t, j)
  PROVE  IInv'
<1> USE DEF IInv
<1>1. /\ thread[t] = Idle /\ thread' = [thread EXCEPT ![t] = At("reading", j, TRUE)]
      /\ entry[j] = "waiting" /\ entry' = [entry EXCEPT ![j] = "active"]
      /\ UNCHANGED <<status, output, requests, faults, orphaned>>
  BY DEF TakeEntry
<1>2. /\ thread[t].pc = "idle"
      /\ thread'[t].pc = "reading" /\ thread'[t].job = j /\ thread'[t].queued
      /\ ~thread'[t].cancelled
      /\ \A u \in Threads \ {t} : thread'[u] = thread[u]
      /\ thread' \in [Threads -> [pc : Steps, job : Jobs \cup {NoJob},
                                  queued : BOOLEAN, cancelled : BOOLEAN]]
  <2>1. "reading" \in Steps
    BY DEF Steps, Processing
  <2> QED
    BY <1>1, <2>1 DEF TypeOK, Idle, At
<1>3. /\ entry' \in [Jobs -> {"absent", "waiting", "active", "over"}]
      /\ entry'[j] = "active"
      /\ \A k \in Jobs \ {j} : entry'[k] = entry[k]
  BY <1>1 DEF TypeOK
<1>4. TypeOK'
  <2>1. \A u \in Threads \ {t} : ~(thread[u].queued /\ thread[u].job = j)
    BY <1>1 DEF TypeOK
  <2>2. ASSUME NEW u \in Threads, thread'[u].queued
        PROVE  entry'[thread'[u].job] = "active" /\ thread'[u].pc \in Processing \cup {"returning"}
    <3>1. CASE u = t
      BY <3>1, <1>2, <1>3 DEF Processing
    <3>2. CASE u # t
      BY <2>1, <2>2, <3>2, <1>2, <1>3 DEF TypeOK, Processing
    <3> QED
      BY <3>1, <3>2
  <2>3. \A u \in Threads : /\ thread'[u].pc # "idle" => thread'[u].job \in Jobs
                          /\ thread'[u].pc = "returning" => thread'[u].queued
    BY <1>2 DEF TypeOK
  <2>4. \A u, v \in Threads :
          thread'[u].queued /\ thread'[v].queued /\ thread'[u].job = thread'[v].job => u = v
    BY <2>1, <1>2 DEF TypeOK
  <2>5. \A u \in Threads : thread'[u].queued =>
          /\ thread'[u].pc \in Processing \cup {"returning"}
          /\ entry'[thread'[u].job] = "active"
    BY <2>2
  <2>6. UNCHANGED <<status, output, requests, faults, orphaned>> /\ TypeOK
    BY <1>1
  <2> HIDE DEF IInv
  <2> QED
    BY <2>3, <2>4, <2>5, <2>6, <1>2, <1>3 DEF TypeOK
<1>5. UnfinishedIsInHand'
  <2> SUFFICES ASSUME NEW k \in Jobs, Unfinished(k)', k \notin orphaned'
               PROVE  InHand(k)'
    BY DEF UnfinishedIsInHand
  <2>1. InHand(k)
    BY <1>1 DEF Unfinished, UnfinishedIsInHand
  <2>2. CASE k # j
    BY <2>1, <2>2, <1>2, <1>3 DEF InHand, Enqueueing, Processing
  <2>3. CASE k = j
    BY <2>3, <1>2 DEF InHand, Processing
  <2> QED
    BY <2>2, <2>3
<1>6. EntryIsThere'
  <2> SUFFICES ASSUME NEW v \in Threads, thread'[v].pc = "checking",
                      Unfinished(thread[v].job)', thread'[v].job \notin orphaned',
                      entry'[thread'[v].job] = "absent"
               PROVE  \E u \in Threads :
                        thread'[u].job = thread'[v].job /\ thread'[u].pc \in Working
    BY <1>2 DEF EntryIsThere
  <2>0. v # t /\ thread'[v] = thread[v] /\ thread[v].job \in Jobs \ {j}
    BY <1>2, <1>3 DEF TypeOK
  <2>1. Unfinished(thread[v].job) /\ entry[thread[v].job] = "absent"
    BY <2>0, <1>1, <1>3 DEF Unfinished
  <2>2. PICK u \in Threads : thread[u].job = thread[v].job /\ thread[u].pc \in Working
    BY <2>0, <2>1, <1>1 DEF EntryIsThere
  <2>3. u # t
    BY <2>2, <1>2 DEF Working, Processing
  <2> QED
    BY <2>0, <2>2, <2>3, <1>2
<1>7. OutputMatchesStatus' /\ OutputLater' /\ NoneFoundCancelled'
  BY <1>1, <1>2 DEF OutputMatchesStatus, OutputLater, NoneFoundCancelled
<1> QED
  BY <1>4, <1>5, <1>6, <1>7

\* What the queue does by itself.
LEMMA QueueStep ==
  ASSUME IInv, NEW j \in Jobs, Stalled(j) \/ Evict(j)
  PROVE  IInv'
<1> USE DEF IInv
<1>1. PICK e \in {"waiting", "over", "absent"} :
        /\ entry' = [entry EXCEPT ![j] = e]
        /\ UNCHANGED <<status, output, thread, requests, faults>>
        /\ e = "absent" => ~Checking(j) /\ entry[j] = "over"
        /\ e # "absent" => entry[j] = "active"
        /\ \A t \in Threads : ~(thread[t].queued /\ thread[t].job = j)
        /\ IF e = "over" THEN GiveUp(j) ELSE UNCHANGED orphaned
  BY DEF Stalled, Evict, TypeOK
<1>2. /\ entry' \in [Jobs -> {"absent", "waiting", "active", "over"}]
      /\ entry'[j] = e
      /\ \A k \in Jobs \ {j} : entry'[k] = entry[k]
      /\ orphaned \subseteq orphaned' /\ orphaned' \subseteq Jobs
  BY <1>1 DEF TypeOK, GiveUp
<1>3. TypeOK'
  BY <1>1, <1>2 DEF TypeOK
<1>4. UnfinishedIsInHand'
  <2> SUFFICES ASSUME NEW k \in Jobs, Unfinished(k)', k \notin orphaned'
               PROVE  InHand(k)'
    BY DEF UnfinishedIsInHand
  <2>1. InHand(k) /\ Unfinished(k)
    BY <1>1, <1>2 DEF Unfinished, UnfinishedIsInHand
  <2>2. CASE k # j
    BY <2>1, <2>2, <1>1, <1>2 DEF InHand
  <2>3. CASE k = j
    BY <2>1, <2>3, <1>1, <1>2 DEF InHand, GiveUp
  <2> QED
    BY <2>2, <2>3
<1>5. EntryIsThere'
  <2> SUFFICES ASSUME NEW v \in Threads, thread[v].pc = "checking",
                      Unfinished(thread[v].job), thread[v].job \notin orphaned,
                      entry'[thread[v].job] = "absent"
               PROVE  \E u \in Threads :
                        thread[u].job = thread[v].job /\ thread[u].pc \in Working
    BY <1>1, <1>2 DEF EntryIsThere, Unfinished
  <2>1. thread[v].job \in Jobs
    BY DEF TypeOK
  <2>2. CASE thread[v].job # j
    BY <2>1, <2>2, <1>2 DEF EntryIsThere
  <2>3. CASE thread[v].job = j
    BY <2>3, <1>1, <1>2 DEF Checking
  <2> QED
    BY <2>2, <2>3
<1>6. OutputMatchesStatus' /\ OutputLater' /\ NoneFoundCancelled'
  BY <1>1 DEF OutputMatchesStatus, OutputLater, NoneFoundCancelled
<1> QED
  BY <1>3, <1>4, <1>5, <1>6

-----------------------------------------------------------------------------

LEMMA StepInv == IInv /\ [Next]_vars => IInv'
<1> SUFFICES ASSUME IInv, [Next]_vars PROVE IInv'
  OBVIOUS
<1>1. ASSUME NEW t \in Threads, Step(t) PROVE IInv'
  BY <1>1, AdminStep, ProcessingStep, RemoveFirstStep, RemoveLastStep, AddStep, CheckStep,
     ReturnStep DEF Step
<1>2. ASSUME NEW t \in Threads, Fault(t) PROVE IInv'
  BY <1>2, FaultStep
<1>3. ASSUME NEW t \in Threads, NEW j \in Jobs, Request(t, j) PROVE IInv'
  BY <1>3, RequestStep
<1>4. ASSUME NEW t \in Threads, NEW j \in Jobs, TakeEntry(t, j) PROVE IInv'
  BY <1>4, TakeStep
<1>5. ASSUME NEW j \in Jobs, Stalled(j) \/ Evict(j) PROVE IInv'
  BY <1>5, QueueStep
<1>6. CASE UNCHANGED vars
  BY <1>6 DEF vars, IInv, TypeOK, UnfinishedIsInHand, OutputMatchesStatus, EntryIsThere,
    NoneFoundCancelled, OutputLater, Unfinished, InHand
<1> QED
  BY <1>1, <1>2, <1>3, <1>4, <1>5, <1>6 DEF Next

\* The strengthened invariant holds in every reachable state.
THEOREM Invariance == Spec => []IInv
BY InitInv, StepInv, PTL DEF Spec

\* Rows, entries and threads keep their shape, and the worker processes an entry by
\* one thread at a time (processJob, removeExistingQueueJob).
THEOREM TypeInvariance == Spec => []TypeOK
<1>1. IInv => TypeOK
  BY DEF IInv
<1> QED
  BY <1>1, Invariance, PTL

\* Whatever requests, boots, processings and queue offers overlap, a job that is not
\* finished is in somebody's hand unless it was given up in one of the three ways
\* the code leaves open (enqueue, removeExistingQueueJob, processJob).
THEOREM NoJobIsStranded == Spec => []UnfinishedIsInHand
<1>1. IInv => UnfinishedIsInHand
  BY DEF IInv
<1> QED
  BY <1>1, Invariance, PTL

\* A DONE job has its paper and a QUEUED one none (retryJob, processJob).
THEOREM OutputIsCurrent == Spec => []OutputMatchesStatus
<1>1. IInv => OutputMatchesStatus
  BY DEF IInv
<1> QED
  BY <1>1, Invariance, PTL

\* A cancelled job comes back only by a retry, a deletion or a processing that had
\* not found it cancelled (cancelJob, processJob).
THEOREM CancellationHolds == Spec => CancelledUnlessOverlapped
<1> DEFINE Kept == \A j \in Jobs : status[j] = "CANCELLED" /\ status'[j] # "CANCELLED" =>
       \E t \in Threads :
         /\ thread[t].job = j /\ thread'[t] # thread[t]
         /\ thread[t].pc \in {"retrying", "erasing", "starting", "finishing", "failing"}
         /\ ~thread[t].cancelled
<1>1. IInv /\ [Next]_vars => [Kept]_vars
  <2> SUFFICES ASSUME IInv, Next, NEW j \in Jobs,
                      status[j] = "CANCELLED", status'[j] # "CANCELLED"
               PROVE  \E t \in Threads :
                        /\ thread[t].job = j /\ thread'[t] # thread[t]
                        /\ thread[t].pc \in {"retrying", "erasing", "starting", "finishing",
                                             "failing"}
                        /\ ~thread[t].cancelled
    BY DEF vars
  <2>1. TypeOK /\ NoneFoundCancelled
    BY DEF IInv
  <2>2. PICK t \in Threads :
          /\ RetryJob(t) \/ EraseJob(t) \/ StartJob(t) \/ FinishJob(t) \/ FailJob(t)
    <3>1. ASSUME NEW t \in Threads, Fault(t) PROVE FALSE
      BY <3>1 DEF Fault, StatementFails, QueueFails, Die
    <3>2. ASSUME NEW t \in Threads, NEW k \in Jobs, Request(t, k) \/ TakeEntry(t, k) PROVE FALSE
      BY <3>2, <2>1 DEF Request, CreateJob, BeginRetry, BeginCancel, BeginDelete, Boot,
         TakeEntry, TypeOK
    <3>3. ASSUME NEW k \in Jobs, Stalled(k) \/ Evict(k) PROVE FALSE
      BY <3>3 DEF Stalled, Evict
    <3>4. ASSUME NEW t \in Threads, CancelJob(t) PROVE FALSE
      BY <3>4, <2>1 DEF CancelJob, TypeOK
    <3> QED
      BY <3>1, <3>2, <3>3, <3>4 DEF Next, Step, ProcessInline, RemoveFirst, RemoveLast, AddEntry,
         CheckEntry, ReadJob, Render, StorePdf, Return
  <2>3. /\ thread[t].pc \in {"retrying", "erasing", "starting", "finishing", "failing"}
        /\ thread[t].job \in Jobs
    BY <2>1, <2>2 DEF RetryJob, EraseJob, StartJob, FinishJob, FailJob, TypeOK
  <2>4. thread[t].job = j
    BY <2>1, <2>2 DEF RetryJob, EraseJob, StartJob, FinishJob, FailJob, Write, TypeOK
  <2>5. thread'[t].pc # thread[t].pc
    <3>1. \/ Stop(t) \/ Leave(t)
          \/ Goto(t, "resetting") /\ thread[t].pc = "retrying"
          \/ Goto(t, "rendering")
      BY <2>2 DEF RetryJob, EraseJob, StartJob, FinishJob, FailJob, Write
    <3>2. \/ thread'[t].pc = "idle" \/ thread'[t].pc = "returning"
          \/ thread'[t].pc = "resetting" /\ thread[t].pc = "retrying"
          \/ thread'[t].pc = "rendering"
      BY <2>1, <3>1 DEF Stop, Leave, Goto, Idle, At, TypeOK
    <3> QED
      BY <2>3, <3>2
  <2> QED
    BY <2>1, <2>3, <2>4, <2>5 DEF NoneFoundCancelled
<1> QED
  BY <1>1, Invariance, PTL DEF Spec, CancelledUnlessOverlapped
=============================================================================
