----------------------------- MODULE PaidAccess -----------------------------
(***************************************************************************)
(* What the payments component promises about access, without the order    *)
(* statuses, the provider calls or the concurrency: money first, then one  *)
(* grant, then perhaps a withdrawal, and nothing of that is ever undone.   *)
(***************************************************************************)
CONSTANT Orders  \* what can be paid for

VARIABLES
  paid,       \* orders the provider has taken the money for
  granted,    \* orders that got their subscription
  withdrawn   \* granted orders whose subscription was replaced

accessVars == <<paid, granted, withdrawn>>

Init == paid = {} /\ granted = {} /\ withdrawn = {}

Pay(o) ==
  /\ paid' = paid \cup {o}
  /\ UNCHANGED <<granted, withdrawn>>

Grant(o) ==
  /\ o \in paid \ granted
  /\ granted' = granted \cup {o}
  /\ UNCHANGED <<paid, withdrawn>>

\* One purchase may replace every subscription there is.
Withdraw(S) ==
  /\ S \subseteq granted
  /\ withdrawn' = withdrawn \cup S
  /\ UNCHANGED <<paid, granted>>

Next ==
  \/ \E o \in Orders : Pay(o) \/ Grant(o)
  \/ \E S \in SUBSET Orders : Withdraw(S)

Spec == Init /\ [][Next]_accessVars
=============================================================================
