--------------------------- MODULE AuthSessionsMC ---------------------------
(***************************************************************************)
(* A small instance of AuthSessions for TLC: two requests at a time and    *)
(* sessions numbered 1 .. 4.  A request that issues a session takes the    *)
(* first that is unused; none of the unused ones occurs in any row, so     *)
(* that it does not matter which.  The last is for the device that no    *)
(* login has seen: it is what that device's session is rotated to.         *)
(***************************************************************************)
EXTENDS AuthSessions, FiniteSetsExt, Integers

Issues(r) ==
  /\ \A s \in Unused : fresh'[r] <= s
  /\ fresh'[r] = Max(Sessions) => sid'[r] \in unseen

MCNext ==
  \E r \in Requests :
    \/ Login(r) /\ Issues(r)
    \/ Refresh(r) /\ Issues(r)
    \/ Logout(r) \/ EndAll(r) \/ Validate(r) \/ Step(r) \/ Rollback(r)

MCSpec == Init /\ [][MCNext]_vars
MCFairSpec == MCSpec /\ Fairness
=============================================================================
