------------------------------ MODULE AutoPayMC ------------------------------
(***************************************************************************)
(* AutoPay on a small instance: a setup and two charges, two workers.      *)
(***************************************************************************)
EXTENDS AutoPay
=============================================================================
