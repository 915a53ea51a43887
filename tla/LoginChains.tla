----------------------------- MODULE LoginChains -----------------------------
(***************************************************************************)
(* What refresh tokens promise, without requests, locks or settings: a     *)
(* login starts a chain, the chain has at most one session that can be     *)
(* refreshed, refreshing replaces that session by a new one, and a chain   *)
(* without one is over for good.                                           *)
(***************************************************************************)
CONSTANT Sessions

VARIABLES
  issued,   \* sessions ever opened
  heads     \* pairs of a login, named by its first session, and its session

chainVars == <<issued, heads>>

Init == issued = {} /\ heads = {}

\* One transaction may end any chains and start or continue one.
End(S) ==
  /\ heads' = heads \ S
  /\ UNCHANGED issued

LogIn(s, S) ==
  /\ heads' = (heads \ S) \cup {<<s, s>>}
  /\ issued' = issued \cup {s}

Rotate(p, s, S) ==
  /\ heads' = (heads \ S) \cup {<<p[1], s>>}
  /\ issued' = issued \cup {s}

Next ==
  \E S \in SUBSET heads :
    \/ End(S)
    \/ \E s \in Sessions \ issued : LogIn(s, S) \/ \E p \in S : Rotate(p, s, S)

Spec == Init /\ [][Next]_chainVars
=============================================================================
