SPECIFICATION AutoPayFairSpec
CONSTANTS
  Setup = setup
  Charges = {c1, c2}
  NoBill = NoBill
  Workers = {w1, w2}
  MaxPolls = 2
  MaxSlips = 1
INVARIANTS
  AutoPayTypeOK
  EveryDebitCounts
PROPERTIES
  ChargedOncePerPeriod
  DueMandateIsCharged
CHECK_DEADLOCK FALSE
