-------------------------- MODULE AuthSessionsProofs --------------------------
(***************************************************************************)
(* Proofs about AuthSessions, for any number of sessions and requests.     *)
(*                                                                         *)
(* The inductive invariant has four parts that hold for every account      *)
(* (what requests know, at which step which request can be, which rows a   *)
(* transaction holds, one head per login) and five that need the single    *)
(* session enforcement: then whoever opens a session holds the user row    *)
(* when it commits, and so does whoever ends them all (UserRow, Sweep,     *)
(* LoggedOutEverywhere), and whoever opens one looks for the others first  *)
(* (Apart, OneDevice).                                                     *)
(***************************************************************************)
EXTENDS AuthSessions, TLAPS

\* Requests present sessions that exist, and open ones nobody else opens.
Known ==
  /\ \A r \in Requests :
       /\ kind[r] \in {"refresh", "logout", "validate"} => sid[r] \in made
       /\ Opens(r) => fresh[r] \in Sessions \ made
       /\ ~Opens(r) => fresh[r] = NoSession
       /\ reach[r] \subseteq made
  /\ \A q, r \in Requests : Opens(q) /\ fresh[q] = fresh[r] => q = r
  /\ \A s \in made : root[s] \in made
  /\ ended \subseteq made

\* Which requests can be at which step.
Phase ==
  \A r \in Requests :
    /\ pc[r] = "idle" => kind[r] = "none"
    /\ pc[r] = "reading" => kind[r] = "refresh"
    /\ pc[r] \in {"opening", "revoking", "pointing"}
         => kind[r] \in {"login", "refresh", "endAll"}
    /\ pc[r] = "claiming" => kind[r] \in {"refresh", "logout"}
    /\ pc[r] = "clearing" => kind[r] = "logout"
    /\ pc[r] = "committing"
         => kind[r] \in {"login", "refresh", "logout", "endAll"}
    /\ pc[r] \in {"checking", "adopting"} => kind[r] = "validate"

Base == TypeOK /\ Known /\ Phase

\* Every statement keeps the types.
LEMMA TypeStep == Base /\ [Next]_vars => TypeOK'
<1> SUFFICES ASSUME Base, [Next]_vars PROVE TypeOK'
  OBVIOUS
<1> USE AuthAssumption
<1>1. ASSUME NEW r \in Requests, Login(r) PROVE TypeOK'
  BY <1>1
  DEF Login, Start, Unused, TypeOK, Base, Known, Phase, InTransaction, rows,
      request
<1>2. ASSUME NEW r \in Requests, Refresh(r) PROVE TypeOK'
  BY <1>2
  DEF Refresh, Start, Unused, TypeOK, Base, Known, Phase, InTransaction,
      rows, request
<1>3. ASSUME NEW r \in Requests, Logout(r) PROVE TypeOK'
  BY <1>3
  DEF Logout, Start, TypeOK, Base, Known, Phase, InTransaction, rows,
      request
<1>4. ASSUME NEW r \in Requests, EndAll(r) PROVE TypeOK'
  BY <1>4
  DEF EndAll, Start, TypeOK, Base, Known, Phase, InTransaction, rows,
      request
<1>5. ASSUME NEW r \in Requests, Validate(r) PROVE TypeOK'
  BY <1>5
  DEF Validate, Start, TypeOK, Base, Known, Phase, InTransaction, rows,
      request
<1>6. ASSUME NEW r \in Requests, ReadUser(r) PROVE TypeOK'
  BY <1>6
  DEF ReadUser, Goto, Finish, TypeOK, Base, InTransaction, rows, request
<1>7. ASSUME NEW r \in Requests, FindOthers(r) PROVE TypeOK'
  BY <1>7
  DEF FindOthers, Goto, Targets, TypeOK, Base, Known, Phase, InTransaction,
      rows, request
<1>8. ASSUME NEW r \in Requests, DenyLogin(r) PROVE TypeOK'
  BY <1>8
  DEF DenyLogin, Goto, Finish, TypeOK, Base, Known, Phase, InTransaction,
      rows, request
<1>9. ASSUME NEW r \in Requests, AdmitLogin(r) PROVE TypeOK'
  BY <1>9
  DEF AdmitLogin, Goto, TypeOK, Base, Known, Phase, InTransaction, rows,
      request
<1>10. ASSUME NEW r \in Requests, NEW s \in Sessions, RevokeOne(r, s)
      PROVE  TypeOK'
  BY <1>10
  DEF RevokeOne, Held, TypeOK, Base, Known, Phase, InTransaction, rows,
      request
<1>11. ASSUME NEW r \in Requests, RevokedAll(r) PROVE TypeOK'
  BY <1>11
  DEF RevokedAll, Goto, AfterRevoking, TypeOK, Base, Known, Phase,
      InTransaction, rows, request
<1>12. ASSUME NEW r \in Requests, Claim(r) PROVE TypeOK'
  BY <1>12
  DEF Claim, Goto, Claimable, Held, AfterClaim, TypeOK, Base, Known, Phase,
      InTransaction, rows, request
<1>13. ASSUME NEW r \in Requests, LoseClaim(r) PROVE TypeOK'
  BY <1>13
  DEF LoseClaim, Goto, Finish, TypeOK, Base, InTransaction, rows, request
<1>14. ASSUME NEW r \in Requests, PointUser(r) PROVE TypeOK'
  BY <1>14
  DEF PointUser, Goto, TypeOK, Base, Known, Phase, InTransaction, rows,
      request
<1>15. ASSUME NEW r \in Requests, ClearPointer(r) PROVE TypeOK'
  BY <1>15
  DEF ClearPointer, Goto, TypeOK, Base, Known, Phase, InTransaction, rows,
      request
<1>16. ASSUME NEW r \in Requests, Commit(r) PROVE TypeOK'
  BY <1>16
  DEF Commit, Goto, Finish, Opens, TypeOK, Base, Known, Phase,
      InTransaction, rows, request
<1>17. ASSUME NEW r \in Requests, CheckSession(r) PROVE TypeOK'
  BY <1>17
  DEF CheckSession, Goto, Finish, TypeOK, Base, Known, Phase, InTransaction,
      rows, request
<1>18. ASSUME NEW r \in Requests, Adopt(r) PROVE TypeOK'
  BY <1>18
  DEF Adopt, Goto, Finish, Adopted, TypeOK, Base, Known, Phase,
      InTransaction, rows, request
<1>19. ASSUME NEW r \in Requests, Rollback(r) PROVE TypeOK'
  BY <1>19
  DEF Rollback, Goto, Finish, TypeOK, Base, Known, Phase, InTransaction,
      rows, request
<1>20. CASE UNCHANGED vars
  BY <1>20
  DEF vars, rows, request, TypeOK, Base, Known, Phase, InTransaction, rows,
      request
<1> QED
  BY <1>1, <1>2, <1>3, <1>4, <1>5, <1>6, <1>7, <1>8, <1>9, <1>10, <1>11,
     <1>12, <1>13, <1>14, <1>15, <1>16, <1>17, <1>18, <1>19, <1>20 DEF
     Next, Begin, Step

\* What requests know of sessions stays true.
LEMMA KnownStep == Base /\ [Next]_vars => Known'
<1> SUFFICES ASSUME Base, [Next]_vars PROVE Known'
  OBVIOUS
<1> USE AuthAssumption
<1>1. ASSUME NEW r \in Requests, Login(r) PROVE Known'
  BY <1>1
  DEF Login, Start, Unused, TypeOK, Base, Known, Phase, Opens, rows, request
<1>2. ASSUME NEW r \in Requests, Refresh(r) PROVE Known'
  BY <1>2
  DEF Refresh, Start, Unused, TypeOK, Base, Known, Phase, Opens, rows,
      request
<1>3. ASSUME NEW r \in Requests, Logout(r) PROVE Known'
  BY <1>3 DEF Logout, Start, TypeOK, Base, Known, Phase, Opens, rows, request
<1>4. ASSUME NEW r \in Requests, EndAll(r) PROVE Known'
  BY <1>4 DEF EndAll, Start, TypeOK, Base, Known, Phase, Opens, rows, request
<1>5. ASSUME NEW r \in Requests, Validate(r) PROVE Known'
  BY <1>5 DEF Validate, Start, TypeOK, Base, Known, Phase, Opens, rows, request
<1>6. ASSUME NEW r \in Requests, ReadUser(r) PROVE Known'
  BY <1>6
  DEF ReadUser, Goto, Finish, TypeOK, Base, Known, Phase, Opens, rows,
      request
<1>7. ASSUME NEW r \in Requests, FindOthers(r) PROVE Known'
  BY <1>7
  DEF FindOthers, Goto, Targets, TypeOK, Base, Known, Phase, Opens, rows,
      request
<1>8. ASSUME NEW r \in Requests, DenyLogin(r) PROVE Known'
  BY <1>8
  DEF DenyLogin, Goto, Finish, TypeOK, Base, Known, Phase, Opens, rows,
      request
<1>9. ASSUME NEW r \in Requests, AdmitLogin(r) PROVE Known'
  BY <1>9
  DEF AdmitLogin, Goto, TypeOK, Base, Known, Phase, Opens, rows, request
<1>10. ASSUME NEW r \in Requests, NEW s \in Sessions, RevokeOne(r, s)
      PROVE  Known'
  BY <1>10
  DEF RevokeOne, Held, TypeOK, Base, Known, Phase, Opens, rows, request
<1>11. ASSUME NEW r \in Requests, RevokedAll(r) PROVE Known'
  BY <1>11
  DEF RevokedAll, Goto, AfterRevoking, TypeOK, Base, Known, Phase, Opens,
      rows, request
<1>12. ASSUME NEW r \in Requests, Claim(r) PROVE Known'
  BY <1>12
  DEF Claim, Goto, Claimable, Held, AfterClaim, TypeOK, Base, Known, Phase,
      Opens, rows, request
<1>13. ASSUME NEW r \in Requests, LoseClaim(r) PROVE Known'
  BY <1>13
  DEF LoseClaim, Goto, Finish, TypeOK, Base, Known, Phase, Opens, rows,
      request
<1>14. ASSUME NEW r \in Requests, PointUser(r) PROVE Known'
  BY <1>14
  DEF PointUser, Goto, TypeOK, Base, Known, Phase, Opens, rows, request
<1>15. ASSUME NEW r \in Requests, ClearPointer(r) PROVE Known'
  BY <1>15
  DEF ClearPointer, Goto, TypeOK, Base, Known, Phase, Opens, rows, request
<1>16. ASSUME NEW r \in Requests, Commit(r) PROVE Known'
  BY <1>16
  DEF Commit, Goto, Finish, Opens, TypeOK, Base, Known, Phase, Opens, rows,
      request
<1>17. ASSUME NEW r \in Requests, CheckSession(r) PROVE Known'
  BY <1>17
  DEF CheckSession, Goto, Finish, TypeOK, Base, Known, Phase, Opens, rows,
      request
<1>18. ASSUME NEW r \in Requests, Adopt(r) PROVE Known'
  BY <1>18
  DEF Adopt, Goto, Finish, Adopted, TypeOK, Base, Known, Phase, Opens, rows,
      request
<1>19. ASSUME NEW r \in Requests, Rollback(r) PROVE Known'
  BY <1>19
  DEF Rollback, Goto, Finish, TypeOK, Base, Known, Phase, Opens, rows,
      request
<1>20. CASE UNCHANGED vars
  BY <1>20
  DEF vars, rows, request, TypeOK, Base, Known, Phase, Opens, rows, request
<1> QED
  BY <1>1, <1>2, <1>3, <1>4, <1>5, <1>6, <1>7, <1>8, <1>9, <1>10, <1>11,
     <1>12, <1>13, <1>14, <1>15, <1>16, <1>17, <1>18, <1>19, <1>20 DEF
     Next, Begin, Step

\* Every statement leads to a step of the same request.
LEMMA PhaseStep == Base /\ [Next]_vars => Phase'
<1> SUFFICES ASSUME Base, [Next]_vars PROVE Phase'
  OBVIOUS
<1> USE AuthAssumption
<1>1. ASSUME NEW r \in Requests, Login(r) PROVE Phase'
  BY <1>1 DEF Login, Start, Unused, TypeOK, Base, Phase, rows, request
<1>2. ASSUME NEW r \in Requests, Refresh(r) PROVE Phase'
  BY <1>2 DEF Refresh, Start, Unused, TypeOK, Base, Phase, rows, request
<1>3. ASSUME NEW r \in Requests, Logout(r) PROVE Phase'
  BY <1>3 DEF Logout, Start, TypeOK, Base, Phase, rows, request
<1>4. ASSUME NEW r \in Requests, EndAll(r) PROVE Phase'
  BY <1>4 DEF EndAll, Start, TypeOK, Base, Phase, rows, request
<1>5. ASSUME NEW r \in Requests, Validate(r) PROVE Phase'
  BY <1>5 DEF Validate, Start, TypeOK, Base, Phase, rows, request
<1>6. ASSUME NEW r \in Requests, ReadUser(r) PROVE Phase'
  BY <1>6 DEF ReadUser, Goto, Finish, TypeOK, Base, Phase, rows, request
<1>7. ASSUME NEW r \in Requests, FindOthers(r) PROVE Phase'
  BY <1>7 DEF FindOthers, Goto, Targets, TypeOK, Base, Phase, rows, request
<1>8. ASSUME NEW r \in Requests, DenyLogin(r) PROVE Phase'
  BY <1>8 DEF DenyLogin, Goto, Finish, TypeOK, Base, Phase, rows, request
<1>9. ASSUME NEW r \in Requests, AdmitLogin(r) PROVE Phase'
  BY <1>9 DEF AdmitLogin, Goto, TypeOK, Base, Phase, rows, request
<1>10. ASSUME NEW r \in Requests, NEW s \in Sessions, RevokeOne(r, s)
      PROVE  Phase'
  BY <1>10 DEF RevokeOne, Held, TypeOK, Base, Phase, rows, request
<1>11. ASSUME NEW r \in Requests, RevokedAll(r) PROVE Phase'
  BY <1>11
  DEF RevokedAll, Goto, AfterRevoking, TypeOK, Base, Phase, rows, request
<1>12. ASSUME NEW r \in Requests, Claim(r) PROVE Phase'
  BY <1>12
  DEF Claim, Goto, Claimable, Held, AfterClaim, TypeOK, Base, Phase, rows,
      request
<1>13. ASSUME NEW r \in Requests, LoseClaim(r) PROVE Phase'
  BY <1>13 DEF LoseClaim, Goto, Finish, TypeOK, Base, Phase, rows, request
<1>14. ASSUME NEW r \in Requests, PointUser(r) PROVE Phase'
  BY <1>14 DEF PointUser, Goto, TypeOK, Base, Phase, rows, request
<1>15. ASSUME NEW r \in Requests, ClearPointer(r) PROVE Phase'
  BY <1>15 DEF ClearPointer, Goto, TypeOK, Base, Phase, rows, request
<1>16. ASSUME NEW r \in Requests, Commit(r) PROVE Phase'
  BY <1>16 DEF Commit, Goto, Finish, Opens, TypeOK, Base, Phase, rows, request
<1>17. ASSUME NEW r \in Requests, CheckSession(r) PROVE Phase'
  BY <1>17 DEF CheckSession, Goto, Finish, TypeOK, Base, Phase, rows, request
<1>18. ASSUME NEW r \in Requests, Adopt(r) PROVE Phase'
  BY <1>18 DEF Adopt, Goto, Finish, Adopted, TypeOK, Base, Phase, rows, request
<1>19. ASSUME NEW r \in Requests, Rollback(r) PROVE Phase'
  BY <1>19 DEF Rollback, Goto, Finish, TypeOK, Base, Phase, rows, request
<1>20. CASE UNCHANGED vars
  BY <1>20 DEF vars, rows, request, TypeOK, Base, Phase, rows, request
<1> QED
  BY <1>1, <1>2, <1>3, <1>4, <1>5, <1>6, <1>7, <1>8, <1>9, <1>10, <1>11,
     <1>12, <1>13, <1>14, <1>15, <1>16, <1>17, <1>18, <1>19, <1>20 DEF
     Next, Begin, Step

-----------------------------------------------------------------------------

\* A transaction holds unrevoked rows that nobody else holds, and among them the
\* session it rotates; a logout's session is revoked or about to be.
Locks ==
  /\ \A r \in Requests :
       /\ held[r] \subseteq live
       /\ kind[r] = "refresh" /\ pc[r] \in {"pointing", "committing"}
            => sid[r] \in held[r]
       /\ kind[r] = "logout" /\ pc[r] \in {"clearing", "committing"}
            => sid[r] \in held[r] \/ sid[r] \notin live
  /\ \A q, r \in Requests : q # r => held[q] \cap held[r] = {}

\* A revoked row was held by nobody but its revoker.
LEMMA LockStep == Base /\ Locks /\ [Next]_vars => Locks'
<1> SUFFICES ASSUME Base /\ Locks, [Next]_vars PROVE Locks'
  OBVIOUS
<1> USE AuthAssumption
<1>1. ASSUME NEW r \in Requests, Login(r) PROVE Locks'
  BY <1>1
  DEF Login, Start, Unused, TypeOK, Base, Known, Phase, Locks, Opens, rows,
      request
<1>2. ASSUME NEW r \in Requests, Refresh(r) PROVE Locks'
  BY <1>2
  DEF Refresh, Start, Unused, TypeOK, Base, Known, Phase, Locks, Opens,
      rows, request
<1>3. ASSUME NEW r \in Requests, Logout(r) PROVE Locks'
  BY <1>3
  DEF Logout, Start, TypeOK, Base, Known, Phase, Locks, Opens, rows, request
<1>4. ASSUME NEW r \in Requests, EndAll(r) PROVE Locks'
  BY <1>4
  DEF EndAll, Start, TypeOK, Base, Known, Phase, Locks, Opens, rows, request
<1>5. ASSUME NEW r \in Requests, Validate(r) PROVE Locks'
  BY <1>5
  DEF Validate, Start, TypeOK, Base, Known, Phase, Locks, Opens, rows,
      request
<1>6. ASSUME NEW r \in Requests, ReadUser(r) PROVE Locks'
  BY <1>6
  DEF ReadUser, Goto, Finish, TypeOK, Base, Known, Phase, Locks, Opens,
      rows, request
<1>7. ASSUME NEW r \in Requests, FindOthers(r) PROVE Locks'
  BY <1>7
  DEF FindOthers, Goto, Targets, TypeOK, Base, Known, Phase, Locks, Opens,
      rows, request
<1>8. ASSUME NEW r \in Requests, DenyLogin(r) PROVE Locks'
  BY <1>8
  DEF DenyLogin, Goto, Finish, TypeOK, Base, Known, Phase, Locks, Opens,
      rows, request
<1>9. ASSUME NEW r \in Requests, AdmitLogin(r) PROVE Locks'
  BY <1>9
  DEF AdmitLogin, Goto, TypeOK, Base, Known, Phase, Locks, Opens, rows,
      request
<1>10. ASSUME NEW r \in Requests, NEW s \in Sessions, RevokeOne(r, s)
      PROVE  Locks'
  BY <1>10
  DEF RevokeOne, Held, TypeOK, Base, Known, Phase, Locks, Opens, rows,
      request
<1>11. ASSUME NEW r \in Requests, RevokedAll(r) PROVE Locks'
  BY <1>11
  DEF RevokedAll, Goto, AfterRevoking, TypeOK, Base, Known, Phase, Locks,
      Opens, rows, request
<1>12. ASSUME NEW r \in Requests, Claim(r) PROVE Locks'
  BY <1>12
  DEF Claim, Goto, Claimable, Held, AfterClaim, TypeOK, Base, Known, Phase,
      Locks, Opens, rows, request
<1>13. ASSUME NEW r \in Requests, LoseClaim(r) PROVE Locks'
  BY <1>13
  DEF LoseClaim, Goto, Finish, TypeOK, Base, Known, Phase, Locks, Opens,
      rows, request
<1>14. ASSUME NEW r \in Requests, PointUser(r) PROVE Locks'
  BY <1>14
  DEF PointUser, Goto, TypeOK, Base, Known, Phase, Locks, Opens, rows,
      request
<1>15. ASSUME NEW r \in Requests, ClearPointer(r) PROVE Locks'
  BY <1>15
  DEF ClearPointer, Goto, TypeOK, Base, Known, Phase, Locks, Opens, rows,
      request
<1>16. ASSUME NEW r \in Requests, Commit(r) PROVE Locks'
  BY <1>16
  DEF Commit, Goto, Finish, Opens, TypeOK, Base, Known, Phase, Locks, Opens,
      rows, request
<1>17. ASSUME NEW r \in Requests, CheckSession(r) PROVE Locks'
  BY <1>17
  DEF CheckSession, Goto, Finish, TypeOK, Base, Known, Phase, Locks, Opens,
      rows, request
<1>18. ASSUME NEW r \in Requests, Adopt(r) PROVE Locks'
  BY <1>18
  DEF Adopt, Goto, Finish, Adopted, TypeOK, Base, Known, Phase, Locks,
      Opens, rows, request
<1>19. ASSUME NEW r \in Requests, Rollback(r) PROVE Locks'
  BY <1>19
  DEF Rollback, Goto, Finish, TypeOK, Base, Known, Phase, Locks, Opens,
      rows, request
<1>20. CASE UNCHANGED vars
  BY <1>20
  DEF vars, rows, request, TypeOK, Base, Known, Phase, Locks, Opens, rows,
      request
<1> QED
  BY <1>1, <1>2, <1>3, <1>4, <1>5, <1>6, <1>7, <1>8, <1>9, <1>10, <1>11,
     <1>12, <1>13, <1>14, <1>15, <1>16, <1>17, <1>18, <1>19, <1>20 DEF
     Next, Begin, Step

\* Rotation moves a login's head; a new login has a name of its own.
LEMMA HeadStep ==
  Base /\ Locks /\ OneHeadPerLogin
    /\ [Next]_vars => OneHeadPerLogin'
<1> SUFFICES ASSUME Base /\ Locks /\ OneHeadPerLogin, [Next]_vars
  PROVE  OneHeadPerLogin'
  OBVIOUS
<1> USE AuthAssumption
<1>1. ASSUME NEW r \in Requests, Login(r) PROVE OneHeadPerLogin'
  BY <1>1
  DEF Login, Start, Unused, TypeOK, Base, Known, Phase, Locks,
      OneHeadPerLogin, Opens, rows, request
<1>2. ASSUME NEW r \in Requests, Refresh(r) PROVE OneHeadPerLogin'
  BY <1>2
  DEF Refresh, Start, Unused, TypeOK, Base, Known, Phase, Locks,
      OneHeadPerLogin, Opens, rows, request
<1>3. ASSUME NEW r \in Requests, Logout(r) PROVE OneHeadPerLogin'
  BY <1>3
  DEF Logout, Start, TypeOK, Base, Known, Phase, Locks, OneHeadPerLogin,
      Opens, rows, request
<1>4. ASSUME NEW r \in Requests, EndAll(r) PROVE OneHeadPerLogin'
  BY <1>4
  DEF EndAll, Start, TypeOK, Base, Known, Phase, Locks, OneHeadPerLogin,
      Opens, rows, request
<1>5. ASSUME NEW r \in Requests, Validate(r) PROVE OneHeadPerLogin'
  BY <1>5
  DEF Validate, Start, TypeOK, Base, Known, Phase, Locks, OneHeadPerLogin,
      Opens, rows, request
<1>6. ASSUME NEW r \in Requests, ReadUser(r) PROVE OneHeadPerLogin'
  BY <1>6
  DEF ReadUser, Goto, Finish, TypeOK, Base, Known, Phase, Locks,
      OneHeadPerLogin, Opens, rows, request
<1>7. ASSUME NEW r \in Requests, FindOthers(r) PROVE OneHeadPerLogin'
  BY <1>7
  DEF FindOthers, Goto, Targets, TypeOK, Base, Known, Phase, Locks,
      OneHeadPerLogin, Opens, rows, request
<1>8. ASSUME NEW r \in Requests, DenyLogin(r) PROVE OneHeadPerLogin'
  BY <1>8
  DEF DenyLogin, Goto, Finish, TypeOK, Base, Known, Phase, Locks,
      OneHeadPerLogin, Opens, rows, request
<1>9. ASSUME NEW r \in Requests, AdmitLogin(r) PROVE OneHeadPerLogin'
  BY <1>9
  DEF AdmitLogin, Goto, TypeOK, Base, Known, Phase, Locks, OneHeadPerLogin,
      Opens, rows, request
<1>10. ASSUME NEW r \in Requests, NEW s \in Sessions, RevokeOne(r, s)
      PROVE  OneHeadPerLogin'
  BY <1>10
  DEF RevokeOne, Held, TypeOK, Base, Known, Phase, Locks, OneHeadPerLogin,
      Opens, rows, request
<1>11. ASSUME NEW r \in Requests, RevokedAll(r) PROVE OneHeadPerLogin'
  BY <1>11
  DEF RevokedAll, Goto, AfterRevoking, TypeOK, Base, Known, Phase, Locks,
      OneHeadPerLogin, Opens, rows, request
<1>12. ASSUME NEW r \in Requests, Claim(r) PROVE OneHeadPerLogin'
  BY <1>12
  DEF Claim, Goto, Claimable, Held, AfterClaim, TypeOK, Base, Known, Phase,
      Locks, OneHeadPerLogin, Opens, rows, request
<1>13. ASSUME NEW r \in Requests, LoseClaim(r) PROVE OneHeadPerLogin'
  BY <1>13
  DEF LoseClaim, Goto, Finish, TypeOK, Base, Known, Phase, Locks,
      OneHeadPerLogin, Opens, rows, request
<1>14. ASSUME NEW r \in Requests, PointUser(r) PROVE OneHeadPerLogin'
  BY <1>14
  DEF PointUser, Goto, TypeOK, Base, Known, Phase, Locks, OneHeadPerLogin,
      Opens, rows, request
<1>15. ASSUME NEW r \in Requests, ClearPointer(r) PROVE OneHeadPerLogin'
  BY <1>15
  DEF ClearPointer, Goto, TypeOK, Base, Known, Phase, Locks,
      OneHeadPerLogin, Opens, rows, request
<1>16. ASSUME NEW r \in Requests, Commit(r) PROVE OneHeadPerLogin'
  BY <1>16
  DEF Commit, Goto, Finish, Opens, TypeOK, Base, Known, Phase, Locks,
      OneHeadPerLogin, Opens, rows, request
<1>17. ASSUME NEW r \in Requests, CheckSession(r) PROVE OneHeadPerLogin'
  BY <1>17
  DEF CheckSession, Goto, Finish, TypeOK, Base, Known, Phase, Locks,
      OneHeadPerLogin, Opens, rows, request
<1>18. ASSUME NEW r \in Requests, Adopt(r) PROVE OneHeadPerLogin'
  BY <1>18
  DEF Adopt, Goto, Finish, Adopted, TypeOK, Base, Known, Phase, Locks,
      OneHeadPerLogin, Opens, rows, request
<1>19. ASSUME NEW r \in Requests, Rollback(r) PROVE OneHeadPerLogin'
  BY <1>19
  DEF Rollback, Goto, Finish, TypeOK, Base, Known, Phase, Locks,
      OneHeadPerLogin, Opens, rows, request
<1>20. CASE UNCHANGED vars
  BY <1>20
  DEF vars, rows, request, TypeOK, Base, Known, Phase, Locks,
      OneHeadPerLogin, Opens, rows, request
<1> QED
  BY <1>1, <1>2, <1>3, <1>4, <1>5, <1>6, <1>7, <1>8, <1>9, <1>10, <1>11,
     <1>12, <1>13, <1>14, <1>15, <1>16, <1>17, <1>18, <1>19, <1>20 DEF
     Next, Begin, Step

-----------------------------------------------------------------------------

\* Under enforcement the user row is held by whoever is about to commit a new
\* session, and by whoever ends all sessions from its first statement on.
UserRow ==
  \A r \in Requests :
    /\ Opens(r) /\ pc[r] = "committing" => holder = r
    /\ kind[r] = "endAll" /\ pc[r] \in {"opening", "revoking", "committing"}
         => holder = r
    /\ holder = r /\ kind[r] = "logout" => active = sid[r]

\* So no session appears while all are being ended, and none is missed.
Sweep ==
  \A r \in Requests :
    /\ kind[r] = "endAll" /\ pc[r] = "revoking"
         => live \subseteq seen[r] \cup held[r]
    /\ kind[r] = "endAll" /\ pc[r] = "committing" => live \subseteq held[r]

\* The user row is updated before a new session is committed.
LEMMA UserRowStep == Enforced /\ Base /\ UserRow /\ [Next]_vars => UserRow'
<1> SUFFICES ASSUME Enforced /\ Base /\ UserRow, [Next]_vars PROVE UserRow'
  OBVIOUS
<1> USE AuthAssumption
<1>1. ASSUME NEW r \in Requests, Login(r) PROVE UserRow'
  BY <1>1
  DEF Login, Start, Unused, TypeOK, Base, Known, Phase, UserRow, Opens,
      rows, request
<1>2. ASSUME NEW r \in Requests, Refresh(r) PROVE UserRow'
  BY <1>2
  DEF Refresh, Start, Unused, TypeOK, Base, Known, Phase, UserRow, Opens,
      rows, request
<1>3. ASSUME NEW r \in Requests, Logout(r) PROVE UserRow'
  BY <1>3
  DEF Logout, Start, TypeOK, Base, Known, Phase, UserRow, Opens,
      InTransaction,
             rows, request
<1>4. ASSUME NEW r \in Requests, EndAll(r) PROVE UserRow'
  BY <1>4
  DEF EndAll, Start, TypeOK, Base, Known, Phase, UserRow, Opens, rows,
      request
<1>5. ASSUME NEW r \in Requests, Validate(r) PROVE UserRow'
  BY <1>5
  DEF Validate, Start, TypeOK, Base, Known, Phase, UserRow, Opens, rows,
      request
<1>6. ASSUME NEW r \in Requests, ReadUser(r) PROVE UserRow'
  BY <1>6
  DEF ReadUser, Goto, Finish, TypeOK, Base, Known, Phase, UserRow, Opens,
      rows, request
<1>7. ASSUME NEW r \in Requests, FindOthers(r) PROVE UserRow'
  BY <1>7
  DEF FindOthers, Goto, Targets, TypeOK, Base, Known, Phase, UserRow, Opens,
      rows, request
<1>8. ASSUME NEW r \in Requests, DenyLogin(r) PROVE UserRow'
  BY <1>8
  DEF DenyLogin, Goto, Finish, TypeOK, Base, Known, Phase, UserRow, Opens,
      rows, request
<1>9. ASSUME NEW r \in Requests, AdmitLogin(r) PROVE UserRow'
  BY <1>9
  DEF AdmitLogin, Goto, TypeOK, Base, Known, Phase, UserRow, Opens, rows,
      request
<1>10. ASSUME NEW r \in Requests, NEW s \in Sessions, RevokeOne(r, s)
      PROVE  UserRow'
  BY <1>10
  DEF RevokeOne, Held, TypeOK, Base, Known, Phase, UserRow, Opens, rows,
      request
<1>11. ASSUME NEW r \in Requests, RevokedAll(r) PROVE UserRow'
  BY <1>11
  DEF RevokedAll, Goto, AfterRevoking, TypeOK, Base, Known, Phase, UserRow,
      Opens, rows, request
<1>12. ASSUME NEW r \in Requests, Claim(r) PROVE UserRow'
  BY <1>12
  DEF Claim, Goto, Claimable, Held, AfterClaim, TypeOK, Base, Known, Phase,
      UserRow, Opens, rows, request
<1>13. ASSUME NEW r \in Requests, LoseClaim(r) PROVE UserRow'
  BY <1>13
  DEF LoseClaim, Goto, Finish, TypeOK, Base, Known, Phase, UserRow, Opens,
      rows, request
<1>14. ASSUME NEW r \in Requests, PointUser(r) PROVE UserRow'
  BY <1>14
  DEF PointUser, Goto, TypeOK, Base, Known, Phase, UserRow, Opens, rows,
      request
<1>15. ASSUME NEW r \in Requests, ClearPointer(r) PROVE UserRow'
  BY <1>15
  DEF ClearPointer, Goto, TypeOK, Base, Known, Phase, UserRow, Opens, rows,
      request
<1>16. ASSUME NEW r \in Requests, Commit(r) PROVE UserRow'
  BY <1>16
  DEF Commit, Goto, Finish, Opens, TypeOK, Base, Known, Phase, UserRow,
      Opens, rows, request
<1>17. ASSUME NEW r \in Requests, CheckSession(r) PROVE UserRow'
  BY <1>17
  DEF CheckSession, Goto, Finish, TypeOK, Base, Known, Phase, UserRow,
      Opens, rows, request
<1>18. ASSUME NEW r \in Requests, Adopt(r) PROVE UserRow'
  BY <1>18
  DEF Adopt, Goto, Finish, Adopted, TypeOK, Base, Known, Phase, UserRow,
      Opens, rows, request
<1>19. ASSUME NEW r \in Requests, Rollback(r) PROVE UserRow'
  BY <1>19
  DEF Rollback, Goto, Finish, TypeOK, Base, Known, Phase, UserRow, Opens,
      rows, request
<1>20. CASE UNCHANGED vars
  BY <1>20
  DEF vars, rows, request, TypeOK, Base, Known, Phase, UserRow, Opens, rows,
      request
<1> QED
  BY <1>1, <1>2, <1>3, <1>4, <1>5, <1>6, <1>7, <1>8, <1>9, <1>10, <1>11,
     <1>12, <1>13, <1>14, <1>15, <1>16, <1>17, <1>18, <1>19, <1>20 DEF
     Next, Begin, Step

\* The sweep of EndAll sees every session there is.
LEMMA SweepStep ==
  Enforced /\ Base /\ UserRow /\ Sweep
    /\ [Next]_vars => Sweep'
<1> SUFFICES ASSUME Enforced /\ Base /\ UserRow /\ Sweep, [Next]_vars
  PROVE  Sweep'
  OBVIOUS
<1> USE AuthAssumption
<1>1. ASSUME NEW r \in Requests, Login(r) PROVE Sweep'
  BY <1>1
  DEF Login, Start, Unused, TypeOK, Base, Known, Phase, UserRow, Sweep,
      Opens, Held, rows, request
<1>2. ASSUME NEW r \in Requests, Refresh(r) PROVE Sweep'
  BY <1>2
  DEF Refresh, Start, Unused, TypeOK, Base, Known, Phase, UserRow, Sweep,
      Opens, Held, rows, request
<1>3. ASSUME NEW r \in Requests, Logout(r) PROVE Sweep'
  BY <1>3
  DEF Logout, Start, TypeOK, Base, Known, Phase, UserRow, Sweep, Opens,
      Held, rows, request
<1>4. ASSUME NEW r \in Requests, EndAll(r) PROVE Sweep'
  BY <1>4
  DEF EndAll, Start, TypeOK, Base, Known, Phase, UserRow, Sweep, Opens,
      Held, rows, request
<1>5. ASSUME NEW r \in Requests, Validate(r) PROVE Sweep'
  BY <1>5
  DEF Validate, Start, TypeOK, Base, Known, Phase, UserRow, Sweep, Opens,
      Held, rows, request
<1>6. ASSUME NEW r \in Requests, ReadUser(r) PROVE Sweep'
  BY <1>6
  DEF ReadUser, Goto, Finish, TypeOK, Base, Known, Phase, UserRow, Sweep,
      Opens, Held, rows, request
<1>7. ASSUME NEW r \in Requests, FindOthers(r) PROVE Sweep'
  BY <1>7
  DEF FindOthers, Goto, Targets, TypeOK, Base, Known, Phase, UserRow, Sweep,
      Opens, Held, rows, request
<1>8. ASSUME NEW r \in Requests, DenyLogin(r) PROVE Sweep'
  BY <1>8
  DEF DenyLogin, Goto, Finish, TypeOK, Base, Known, Phase, UserRow, Sweep,
      Opens, Held, rows, request
<1>9. ASSUME NEW r \in Requests, AdmitLogin(r) PROVE Sweep'
  BY <1>9
  DEF AdmitLogin, Goto, TypeOK, Base, Known, Phase, UserRow, Sweep, Opens,
      Held, rows, request
<1>10. ASSUME NEW r \in Requests, NEW s \in Sessions, RevokeOne(r, s)
      PROVE  Sweep'
  BY <1>10
  DEF RevokeOne, Held, TypeOK, Base, Known, Phase, UserRow, Sweep, Opens,
      Held, rows, request
<1>11. ASSUME NEW r \in Requests, RevokedAll(r) PROVE Sweep'
  BY <1>11
  DEF RevokedAll, Goto, AfterRevoking, TypeOK, Base, Known, Phase, UserRow,
      Sweep, Opens, Held, rows, request
<1>12. ASSUME NEW r \in Requests, Claim(r) PROVE Sweep'
  BY <1>12
  DEF Claim, Goto, Claimable, Held, AfterClaim, TypeOK, Base, Known, Phase,
      UserRow, Sweep, Opens, Held, rows, request
<1>13. ASSUME NEW r \in Requests, LoseClaim(r) PROVE Sweep'
  BY <1>13
  DEF LoseClaim, Goto, Finish, TypeOK, Base, Known, Phase, UserRow, Sweep,
      Opens, Held, rows, request
<1>14. ASSUME NEW r \in Requests, PointUser(r) PROVE Sweep'
  BY <1>14
  DEF PointUser, Goto, TypeOK, Base, Known, Phase, UserRow, Sweep, Opens,
      Held, rows, request
<1>15. ASSUME NEW r \in Requests, ClearPointer(r) PROVE Sweep'
  BY <1>15
  DEF ClearPointer, Goto, TypeOK, Base, Known, Phase, UserRow, Sweep, Opens,
      Held, rows, request
<1>16. ASSUME NEW r \in Requests, Commit(r) PROVE Sweep'
  BY <1>16
  DEF Commit, Goto, Finish, Opens, TypeOK, Base, Known, Phase, UserRow,
      Sweep, Opens, Held, rows, request
<1>17. ASSUME NEW r \in Requests, CheckSession(r) PROVE Sweep'
  BY <1>17
  DEF CheckSession, Goto, Finish, TypeOK, Base, Known, Phase, UserRow,
      Sweep, Opens, Held, rows, request
<1>18. ASSUME NEW r \in Requests, Adopt(r) PROVE Sweep'
  BY <1>18
  DEF Adopt, Goto, Finish, Adopted, TypeOK, Base, Known, Phase, UserRow,
      Sweep, Opens, Held, rows, request
<1>19. ASSUME NEW r \in Requests, Rollback(r) PROVE Sweep'
  BY <1>19
  DEF Rollback, Goto, Finish, TypeOK, Base, Known, Phase, UserRow, Sweep,
      Opens, Held, rows, request
<1>20. CASE UNCHANGED vars
  BY <1>20
  DEF vars, rows, request, TypeOK, Base, Known, Phase, UserRow, Sweep,
      Opens, Held, rows, request
<1> QED
  BY <1>1, <1>2, <1>3, <1>4, <1>5, <1>6, <1>7, <1>8, <1>9, <1>10, <1>11,
     <1>12, <1>13, <1>14, <1>15, <1>16, <1>17, <1>18, <1>19, <1>20 DEF
     Next, Begin, Step

\* Nothing of an ended login lives on.
LEMMA EndedStep ==
  Enforced /\ Base /\ Locks /\ UserRow /\ Sweep /\ LoggedOutEverywhere
    /\ [Next]_vars => LoggedOutEverywhere'
<1> SUFFICES ASSUME Enforced /\ Base /\ Locks /\ UserRow,
                  Sweep /\ LoggedOutEverywhere, [Next]_vars
  PROVE  LoggedOutEverywhere'
  OBVIOUS
<1> USE AuthAssumption
<1>1. ASSUME NEW r \in Requests, Login(r) PROVE LoggedOutEverywhere'
  BY <1>1
  DEF Login, Start, Unused, TypeOK, Base, Known, Phase, Locks, UserRow,
      Sweep, LoggedOutEverywhere, Opens, rows, request
<1>2. ASSUME NEW r \in Requests, Refresh(r) PROVE LoggedOutEverywhere'
  BY <1>2
  DEF Refresh, Start, Unused, TypeOK, Base, Known, Phase, Locks, UserRow,
      Sweep, LoggedOutEverywhere, Opens, rows, request
<1>3. ASSUME NEW r \in Requests, Logout(r) PROVE LoggedOutEverywhere'
  BY <1>3
  DEF Logout, Start, TypeOK, Base, Known, Phase, Locks, UserRow, Sweep,
      LoggedOutEverywhere, Opens, rows, request
<1>4. ASSUME NEW r \in Requests, EndAll(r) PROVE LoggedOutEverywhere'
  BY <1>4
  DEF EndAll, Start, TypeOK, Base, Known, Phase, Locks, UserRow, Sweep,
      LoggedOutEverywhere, Opens, rows, request
<1>5. ASSUME NEW r \in Requests, Validate(r) PROVE LoggedOutEverywhere'
  BY <1>5
  DEF Validate, Start, TypeOK, Base, Known, Phase, Locks, UserRow, Sweep,
      LoggedOutEverywhere, Opens, rows, request
<1>6. ASSUME NEW r \in Requests, ReadUser(r) PROVE LoggedOutEverywhere'
  BY <1>6
  DEF ReadUser, Goto, Finish, TypeOK, Base, Known, Phase, Locks, UserRow,
      Sweep, LoggedOutEverywhere, Opens, rows, request
<1>7. ASSUME NEW r \in Requests, FindOthers(r) PROVE LoggedOutEverywhere'
  BY <1>7
  DEF FindOthers, Goto, Targets, TypeOK, Base, Known, Phase, Locks, UserRow,
      Sweep, LoggedOutEverywhere, Opens, rows, request
<1>8. ASSUME NEW r \in Requests, DenyLogin(r) PROVE LoggedOutEverywhere'
  BY <1>8
  DEF DenyLogin, Goto, Finish, TypeOK, Base, Known, Phase, Locks, UserRow,
      Sweep, LoggedOutEverywhere, Opens, rows, request
<1>9. ASSUME NEW r \in Requests, AdmitLogin(r) PROVE LoggedOutEverywhere'
  BY <1>9
  DEF AdmitLogin, Goto, TypeOK, Base, Known, Phase, Locks, UserRow, Sweep,
      LoggedOutEverywhere, Opens, rows, request
<1>10. ASSUME NEW r \in Requests, NEW s \in Sessions, RevokeOne(r, s)
      PROVE  LoggedOutEverywhere'
  BY <1>10
  DEF RevokeOne, Held, TypeOK, Base, Known, Phase, Locks, UserRow, Sweep,
      LoggedOutEverywhere, Opens, rows, request
<1>11. ASSUME NEW r \in Requests, RevokedAll(r) PROVE LoggedOutEverywhere'
  BY <1>11
  DEF RevokedAll, Goto, AfterRevoking, TypeOK, Base, Known, Phase, Locks,
      UserRow, Sweep, LoggedOutEverywhere, Opens, rows, request
<1>12. ASSUME NEW r \in Requests, Claim(r) PROVE LoggedOutEverywhere'
  BY <1>12
  DEF Claim, Goto, Claimable, Held, AfterClaim, TypeOK, Base, Known, Phase,
      Locks, UserRow, Sweep, LoggedOutEverywhere, Opens, rows, request
<1>13. ASSUME NEW r \in Requests, LoseClaim(r) PROVE LoggedOutEverywhere'
  BY <1>13
  DEF LoseClaim, Goto, Finish, TypeOK, Base, Known, Phase, Locks, UserRow,
      Sweep, LoggedOutEverywhere, Opens, rows, request
<1>14. ASSUME NEW r \in Requests, PointUser(r) PROVE LoggedOutEverywhere'
  BY <1>14
  DEF PointUser, Goto, TypeOK, Base, Known, Phase, Locks, UserRow, Sweep,
      LoggedOutEverywhere, Opens, rows, request
<1>15. ASSUME NEW r \in Requests, ClearPointer(r) PROVE LoggedOutEverywhere'
  BY <1>15
  DEF ClearPointer, Goto, TypeOK, Base, Known, Phase, Locks, UserRow, Sweep,
      LoggedOutEverywhere, Opens, rows, request
<1>16. ASSUME NEW r \in Requests, Commit(r) PROVE LoggedOutEverywhere'
  BY <1>16
  DEF Commit, Goto, Finish, Opens, TypeOK, Base, Known, Phase, Locks,
      UserRow, Sweep, LoggedOutEverywhere, Opens, rows, request
<1>17. ASSUME NEW r \in Requests, CheckSession(r) PROVE LoggedOutEverywhere'
  BY <1>17
  DEF CheckSession, Goto, Finish, TypeOK, Base, Known, Phase, Locks,
      UserRow, Sweep, LoggedOutEverywhere, Opens, rows, request
<1>18. ASSUME NEW r \in Requests, Adopt(r) PROVE LoggedOutEverywhere'
  BY <1>18
  DEF Adopt, Goto, Finish, Adopted, TypeOK, Base, Known, Phase, Locks,
      UserRow, Sweep, LoggedOutEverywhere, Opens, rows, request
<1>19. ASSUME NEW r \in Requests, Rollback(r) PROVE LoggedOutEverywhere'
  BY <1>19
  DEF Rollback, Goto, Finish, TypeOK, Base, Known, Phase, Locks, UserRow,
      Sweep, LoggedOutEverywhere, Opens, rows, request
<1>20. CASE UNCHANGED vars
  BY <1>20
  DEF vars, rows, request, TypeOK, Base, Known, Phase, Locks, UserRow,
      Sweep, LoggedOutEverywhere, Opens, rows, request
<1> QED
  BY <1>1, <1>2, <1>3, <1>4, <1>5, <1>6, <1>7, <1>8, <1>9, <1>10, <1>11,
     <1>12, <1>13, <1>14, <1>15, <1>16, <1>17, <1>18, <1>19, <1>20 DEF
     Next, Begin, Step

-----------------------------------------------------------------------------

\* A request that has looked for the other sessions has every live one among those it
\* still has to revoke and those it has revoked, but for its own and those it could not
\* see.
Apart ==
  \A q \in Requests :
    /\ pc[q] # "revoking" => seen[q] = {}
    /\ Looked(q) => \A s \in live :
         \/ s \in seen[q] \cup held[q] \cup unseen
         \/ kind[q] = "refresh" /\ s = sid[q]

\* What a statement of one request does to the sessions another has to revoke.
LEMMA ApartStep ==
  Enforced /\ Base /\ Locks /\ Apart /\ [Next]_vars => Apart'
<1> SUFFICES ASSUME Enforced /\ Base /\ Locks /\ Apart, [Next]_vars PROVE Apart'
  OBVIOUS
<1> USE AuthAssumption
<1>1. ASSUME NEW r \in Requests, Login(r) PROVE Apart'
  BY <1>1
  DEF Login, Start, Unused, TypeOK, Base, Known, Phase, Locks, Apart, Looked,
      Opens, rows, request
<1>2. ASSUME NEW r \in Requests, Refresh(r) PROVE Apart'
  BY <1>2
  DEF Refresh, Start, Unused, TypeOK, Base, Known, Phase, Locks, Apart,
      Looked, Opens, rows, request
<1>3. ASSUME NEW r \in Requests, Logout(r) PROVE Apart'
  BY <1>3
  DEF Logout, Start, TypeOK, Base, Known, Phase, Locks, Apart, Looked, Opens,
      rows, request
<1>4. ASSUME NEW r \in Requests, EndAll(r) PROVE Apart'
  BY <1>4
  DEF EndAll, Start, TypeOK, Base, Known, Phase, Locks, Apart, Looked, Opens,
      rows, request
<1>5. ASSUME NEW r \in Requests, Validate(r) PROVE Apart'
  BY <1>5
  DEF Validate, Start, TypeOK, Base, Known, Phase, Locks, Apart, Looked,
      Opens, rows, request
<1>6. ASSUME NEW r \in Requests, ReadUser(r) PROVE Apart'
  BY <1>6
  DEF ReadUser, Goto, Finish, TypeOK, Base, Known, Phase, Locks, Apart,
      Looked, Opens, rows, request
<1>7. ASSUME NEW r \in Requests, FindOthers(r) PROVE Apart'
  BY <1>7
  DEF FindOthers, Goto, Targets, TypeOK, Base, Known, Phase, Locks, Apart,
      Looked, Opens, rows, request
<1>8. ASSUME NEW r \in Requests, DenyLogin(r) PROVE Apart'
  BY <1>8
  DEF DenyLogin, Goto, Finish, TypeOK, Base, Known, Phase, Locks, Apart,
      Looked, Opens, rows, request
<1>9. ASSUME NEW r \in Requests, AdmitLogin(r) PROVE Apart'
  BY <1>9
  DEF AdmitLogin, Goto, TypeOK, Base, Known, Phase, Locks, Apart, Looked,
      Opens, rows, request
<1>10. ASSUME NEW r \in Requests, NEW s \in Sessions, RevokeOne(r, s)
      PROVE  Apart'
  BY <1>10
  DEF RevokeOne, Held, TypeOK, Base, Known, Phase, Locks, Apart, Looked,
      Opens, rows, request
<1>11. ASSUME NEW r \in Requests, RevokedAll(r) PROVE Apart'
  BY <1>11
  DEF RevokedAll, Goto, AfterRevoking, TypeOK, Base, Known, Phase, Locks,
      Apart, Looked, Opens, rows, request
<1>12. ASSUME NEW r \in Requests, Claim(r) PROVE Apart'
  BY <1>12
  DEF Claim, Goto, Claimable, Held, AfterClaim, TypeOK, Base, Known, Phase,
      Locks, Apart, Looked, Opens, rows, request
<1>13. ASSUME NEW r \in Requests, LoseClaim(r) PROVE Apart'
  BY <1>13
  DEF LoseClaim, Goto, Finish, TypeOK, Base, Known, Phase, Locks, Apart,
      Looked, Opens, rows, request
<1>14. ASSUME NEW r \in Requests, PointUser(r) PROVE Apart'
  BY <1>14
  DEF PointUser, Goto, TypeOK, Base, Known, Phase, Locks, Apart, Looked,
      Opens, rows, request
<1>15. ASSUME NEW r \in Requests, ClearPointer(r) PROVE Apart'
  BY <1>15
  DEF ClearPointer, Goto, TypeOK, Base, Known, Phase, Locks, Apart, Looked,
      Opens, rows, request
<1>16. ASSUME NEW r \in Requests, Commit(r) PROVE Apart'
  BY <1>16
  DEF Commit, Goto, Finish, TypeOK, Base, Known, Phase, Locks, Apart, Looked,
      Opens, rows, request
<1>17. ASSUME NEW r \in Requests, CheckSession(r) PROVE Apart'
  BY <1>17
  DEF CheckSession, Goto, Finish, TypeOK, Base, Known, Phase, Locks, Apart,
      Looked, Opens, rows, request
<1>18. ASSUME NEW r \in Requests, Adopt(r) PROVE Apart'
  BY <1>18
  DEF Adopt, Goto, Finish, Adopted, TypeOK, Base, Known, Phase, Locks, Apart,
      Looked, Opens, rows, request
<1>19. ASSUME NEW r \in Requests, Rollback(r) PROVE Apart'
  BY <1>19
  DEF Rollback, Goto, Finish, TypeOK, Base, Known, Phase, Locks, Apart,
      Looked, Opens, rows, request
<1>20. CASE UNCHANGED vars
  BY <1>20 DEF vars, rows, request, Apart, Looked, Opens
<1> QED
  BY <1>1, <1>2, <1>3, <1>4, <1>5, <1>6, <1>7, <1>8, <1>9, <1>10, <1>11,
     <1>12, <1>13, <1>14, <1>15, <1>16, <1>17, <1>18, <1>19, <1>20 DEF
     Next, Begin, Step

\* Only a commit brings a session or forgets that one was unseen.
LEMMA DeviceStep ==
  Enforced /\ Base /\ Locks /\ Apart /\ OneDevice /\ [Next]_vars => OneDevice'
<1> SUFFICES ASSUME Enforced /\ Base /\ Locks, Apart /\ OneDevice, [Next]_vars
             PROVE  OneDevice'
  OBVIOUS
<1>1. ASSUME NEW r \in Requests, Commit(r) PROVE OneDevice'
  <2>1. CASE Opens(r)
    <3>1. /\ live' = (live \ held[r]) \cup {fresh[r]}
          /\ unseen \cap live' \subseteq unseen'
      BY <1>1, <2>1 DEF Commit
    <3>2. seen[r] = {} /\ \A s \in live : s \in held[r] \cup unseen
      BY <1>1, <2>1 DEF Commit, Apart, Looked, Locks
    <3> QED
      BY <3>1, <3>2 DEF OneDevice
  <2>2. CASE ~Opens(r)
    BY <1>1, <2>2 DEF Commit, OneDevice
  <2> QED
    BY <2>1, <2>2
<1>2. ASSUME UNCHANGED <<live, unseen>> PROVE OneDevice'
  BY <1>2 DEF OneDevice
<1> QED
  BY <1>1, <1>2
  DEF Next, Begin, Step, vars, rows, Start, Login, Refresh, Logout, EndAll,
      Validate, ReadUser, FindOthers, DenyLogin, AdmitLogin, RevokeOne,
      RevokedAll, Claim, LoseClaim, PointUser, ClearPointer, CheckSession,
      Adopt, Rollback

-----------------------------------------------------------------------------

\* Inductive for every account.
IInv == Base /\ Locks /\ OneHeadPerLogin

\* Inductive for an account with single session enforcement.
EnforcedInv ==
  /\ IInv
  /\ UserRow /\ Sweep /\ LoggedOutEverywhere
  /\ Apart /\ OneDevice

\* Every reachable state satisfies it.
LEMMA Induction == Spec => []IInv
<1>1. Init => IInv
  <2> SUFFICES ASSUME Init PROVE IInv
    OBVIOUS
  <2> USE AuthAssumption DEF Init
  <2>1. TypeOK
    BY DEF TypeOK, InTransaction
  <2>2. Known
    BY DEF Known, Opens
  <2>3. Phase /\ Locks /\ OneHeadPerLogin
    BY DEF Phase, Locks, OneHeadPerLogin
  <2> QED
    BY <2>1, <2>2, <2>3 DEF IInv, Base
<1>2. IInv /\ [Next]_vars => IInv'
  BY TypeStep, KnownStep, PhaseStep, LockStep, HeadStep DEF IInv, Base
<1> QED
  BY <1>1, <1>2, PTL DEF Spec

\* Every reachable state of such an account satisfies it.
LEMMA EnforcedInduction ==
  ASSUME Enforced PROVE Spec => []EnforcedInv
<1> DEFINE Rest == UserRow /\ Sweep /\ LoggedOutEverywhere /\ Apart /\ OneDevice
<1>1. Init => Rest
  BY AuthAssumption
  DEF Init, UserRow, Sweep, LoggedOutEverywhere, Apart, OneDevice, Looked, Opens
<1>2. IInv /\ Rest /\ [Next]_vars => Rest'
  BY UserRowStep, SweepStep, EndedStep, ApartStep, DeviceStep DEF IInv
<1>3. EnforcedInv <=> IInv /\ Rest
  BY DEF EnforcedInv
<1> HIDE DEF Rest
<1> QED
  BY <1>1, <1>2, <1>3, Induction, PTL DEF Spec

\* Rows, locks and requests keep their shape, and only an open transaction holds
\* rows.
THEOREM TypeInvariance == Spec => []TypeOK
<1>1. IInv => TypeOK
  BY DEF IInv, Base
<1> QED
  BY <1>1, Induction, PTL

\* However many requests present one refresh token, its login keeps one session
\* that can be refreshed.
THEOREM RotationNeverForks == Spec => []OneHeadPerLogin
<1>1. IInv => OneHeadPerLogin
  BY DEF IInv
<1> QED
  BY <1>1, Induction, PTL

\* With the enforcement on, force logout, password reset and blocking miss no
\* session, not even one being rotated while they run.
THEOREM LogoutReachesEverySession ==
  ASSUME Enforced PROVE Spec => []LoggedOutEverywhere
<1>1. EnforcedInv => LoggedOutEverywhere
  BY DEF EnforcedInv
<1> QED
  BY <1>1, EnforcedInduction, PTL

\* A student has one device: two sessions are live at once only when one of them was
\* opened past the look of a request that opens a session too.
THEOREM SessionsAreAlone == Spec => []OneDevice
<1>1. CASE Enforced
  <2>1. EnforcedInv => OneDevice
    BY DEF EnforcedInv
  <2> QED
    BY <1>1, <2>1, EnforcedInduction, PTL
<1>2. CASE ~Enforced
  <2>1. OneDevice
    BY <1>2 DEF OneDevice
  <2> QED
    BY <2>1, PTL
<1> QED
  BY <1>1, <1>2

\* With the enforcement on, the active session gives way only to a login, to its own
\* rotation or, revoked, to none, unless one of two devices went unseen.
THEOREM ActiveIsDisplacedByNewer ==
  ASSUME Enforced PROVE Spec => ActiveGivesWay
<1> DEFINE Yields ==
      \/ active' = NoSession /\ active \notin live'
      \/ /\ active' \notin made \cup {NoSession}
         /\ \/ active \notin live
            \/ root'[active'] \in {active', root[active]}
            \/ active \in unseen
            \/ \E s \in unseen : root[s] = root'[active']
<1>1. ASSUME EnforcedInv, [Next]_vars, active # NoSession, active' # active
      PROVE Yields
  <2> USE AuthAssumption DEF EnforcedInv, IInv
  <2>1. ASSUME NEW r \in Requests, Commit(r) PROVE Yields
    <3>1. holder = r
      BY <2>1, <1>1 DEF Commit
    <3>2. CASE Opens(r)
      <4>1. active' = fresh[r]
        BY <2>1, <3>1, <3>2 DEF Commit
      <4>2. active' \notin made \cup {NoSession}
        BY <1>1, <4>1, <3>2 DEF Base, Known
      <4>3. CASE kind[r] = "login"
        BY <1>1, <2>1, <4>1, <4>2, <4>3, <3>2 DEF Commit, Base, Known, TypeOK
      <4>4. CASE kind[r] = "refresh"
        <5>1. root'[active'] = root[sid[r]] /\ sid[r] \in live
          BY <1>1, <2>1, <4>1, <4>2, <4>4, <3>2 DEF Commit, Base, Known, TypeOK, Locks
        <5>2. active = sid[r] \/ active \notin live \/ active \in unseen \/ sid[r] \in unseen
          BY <1>1, <5>1 DEF OneDevice
        <5> QED
          BY <4>2, <5>1, <5>2
      <4> QED
        BY <3>2, <4>3, <4>4 DEF Opens
    <3>3. CASE kind[r] = "logout"
      BY <1>1, <2>1, <3>1, <3>3 DEF Commit, Opens, Locks, UserRow
    <3>4. CASE kind[r] = "endAll"
      BY <1>1, <2>1, <3>1, <3>4 DEF Commit, Opens, Sweep, Base, TypeOK
    <3> QED
      BY <1>1, <2>1, <3>2, <3>3, <3>4 DEF Commit, Base, Phase, Opens
  <2>2. ASSUME NEW r \in Requests, Adopt(r) PROVE FALSE
    BY <1>1, <2>2 DEF Adopt, Adopted
  <2>3. ASSUME UNCHANGED active PROVE FALSE
    BY <1>1, <2>3
  <2> QED
    BY <1>1, <2>1, <2>2, <2>3
    DEF Next, Begin, Step, vars, rows, Start, Login, Refresh, Logout, EndAll,
        Validate, ReadUser, FindOthers, DenyLogin, AdmitLogin, RevokeOne,
        RevokedAll, Claim, LoseClaim, PointUser, ClearPointer, CheckSession,
        Rollback
<1>2. EnforcedInv /\ [Next]_vars
        => [active # NoSession /\ active' # active => Yields]_vars
  BY <1>1
<1> QED
  BY <1>2, EnforcedInduction, PTL DEF Spec, ActiveGivesWay

-----------------------------------------------------------------------------

\* The promise's heads in terms of the rows.
Heads == {<<root[s], s>> : s \in live}

\* A step that keeps the rows is nothing to the promise.
LEMMA QuietStep ==
  UNCHANGED <<made, live, root>> => UNCHANGED Chains!chainVars
BY DEF Chains!chainVars

\* A commit ends the chains of the rows it holds, and starts or continues one.
LEMMA CommitStep ==
  ASSUME IInv, NEW r \in Requests, Commit(r)
  PROVE  Chains!Next
<1> USE DEF IInv
<1>1. PICK S \in SUBSET Heads : S = {<<root[s], s>> : s \in held[r]}
  BY DEF Heads, Locks
<1>2. PICK n : n = fresh[r]
  OBVIOUS
<1>3. PICK p : p = <<root[sid[r]], sid[r]>>
  OBVIOUS
<1>4. CASE kind[r] = "login"
  <2>1. n \in Sessions \ made
    BY <1>2, <1>4 DEF Base, Known, Opens, Commit
  <2>2. /\ made' = made \cup {n}
        /\ live' = (live \ held[r]) \cup {n}
        /\ root' = [root EXCEPT ![n] = n]
    BY <1>2, <1>4 DEF Commit, Opens
  <2>3. Heads' = (Heads \ S) \cup {<<n, n>>}
    BY <1>1, <2>1, <2>2 DEF Heads, Base, TypeOK
  <2>4. Chains!LogIn(n, S)
    BY <2>2, <2>3 DEF Chains!LogIn, Heads
  <2> QED
    BY <2>1, <2>4 DEF Chains!Next, Heads
<1>5. CASE kind[r] = "refresh"
  <2>1. n \in Sessions \ made /\ sid[r] \in held[r]
    BY <1>2, <1>5 DEF Base, Known, Opens, Locks, Commit
  <2>2. /\ made' = made \cup {n}
        /\ live' = (live \ held[r]) \cup {n}
        /\ root' = [root EXCEPT ![n] = p[1]]
    BY <1>2, <1>3, <1>5 DEF Commit, Opens
  <2>3. p[1] = root[sid[r]] /\ p \in S
    BY <1>1, <1>3, <2>1
  <2>4. Heads' = (Heads \ S) \cup {<<p[1], n>>}
    BY <1>1, <2>1, <2>2, <2>3 DEF Heads, Base, TypeOK
  <2>5. Chains!Rotate(p, n, S)
    BY <2>2, <2>4 DEF Chains!Rotate, Heads
  <2> QED
    BY <2>1, <2>3, <2>5 DEF Chains!Next, Heads
<1>6. CASE kind[r] \in {"logout", "endAll"}
  <2>1. made' = made /\ live' = live \ held[r] /\ root' = root
    BY <1>6 DEF Commit, Opens
  <2>2. Heads' = Heads \ S
    BY <1>1, <2>1 DEF Heads
  <2>3. Chains!End(S)
    BY <2>1, <2>2 DEF Chains!End, Heads
  <2> QED
    BY <2>3 DEF Chains!Next, Heads
<1> QED
  BY <1>4, <1>5, <1>6 DEF Commit, Base, Phase

\* The sessions implement LoginChains: a chain never forks, and once it has no
\* session left it is over.
THEOREM ChainsAreKept == Spec => KeepsChains
<1>1. Init => Chains!Init
  BY DEF Init, Chains!Init
<1>2. ASSUME IInv, [Next]_vars PROVE [Chains!Next]_(Chains!chainVars)
  <2>1. ASSUME NEW r \in Requests, Commit(r) PROVE Chains!Next
    BY <1>2, <2>1, CommitStep
  <2>2. ASSUME UNCHANGED <<made, live, root>>
        PROVE  UNCHANGED Chains!chainVars
    BY <2>2, QuietStep
  <2> QED
    BY <1>2, <2>1, <2>2
    DEF Next, Begin, Step, vars, rows, Start, Login, Refresh, Logout, EndAll,
        Validate, ReadUser, FindOthers, DenyLogin, AdmitLogin, RevokeOne,
        RevokedAll, Claim, LoseClaim, PointUser, ClearPointer, CheckSession,
        Adopt, Rollback
<1> QED
  BY <1>1, <1>2, Induction, PTL DEF Spec, KeepsChains, Chains!Spec
=============================================================================
