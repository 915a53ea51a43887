----------------------------- MODULE PrintJobsMC -----------------------------
(***************************************************************************)
(* A small instance of PrintJobs for TLC: one job, whose requests and      *)
(* processings are what interferes with one another.                       *)
(***************************************************************************)
EXTENDS PrintJobs

CONSTANTS j1, t1, t2, t3
=============================================================================
