SPECIFICATION Spec
CONSTANTS
  q1 = q1
  q2 = q2
  q3 = q3
  a1 = a1
  r1 = r1
  r2 = r2
  NoAttempt = NoAttempt
  NoSheet = NoSheet
  Attempts = {a1}
  Requests = {r1, r2}
  Questions = {q1, q2, q3}
  Configs <- OnlyPreset
  Sheets <- SomeSheets
  MaxEdits = 1
INVARIANTS
  EverySubmissionScored
CHECK_DEADLOCK FALSE
