SPECIFICATION FairSpec
CONSTANTS
  j1 = j1
  t1 = t1
  t2 = t2
  t3 = t3
  NoJob = NoJob
  Jobs = {j1}
  Threads = {t1, t2, t3}
  Modes = {"queue", "inline"}
  MaxRequests = 4
  MaxFaults = 1
INVARIANTS
  TypeOK
  UnfinishedIsInHand
  OutputMatchesStatus
PROPERTIES
  CancelledUnlessOverlapped
  EveryJobEnds
CHECK_DEADLOCK FALSE
