---------------------------- MODULE AuthSessions ----------------------------
(***************************************************************************)
(* The refresh sessions of one account: src/modules/auth/auth.service and  *)
(* auth-session.service, with the three admin and password operations that *)
(* end every session.                                                      *)
(*                                                                         *)
(* Every statement of a transaction is a step.  The database reads         *)
(* committed rows: a statement sees what was committed when it starts, an  *)
(* update waits for the transaction that holds the row and then looks at   *)
(* the row again, and nothing of a transaction shows before its commit.    *)
(* A row is held by the transaction that updated it, so requests that take *)
(* the session rows and the user row in different orders can wait for one  *)
(* another in a circle; the database then rolls one of them back.          *)
(*                                                                         *)
(* A session row is made by the transaction that opens it, a step nobody   *)
(* sees; blocked users, who are turned away before their session is looked *)
(* at, and the note view sessions are left out.                            *)
(***************************************************************************)
EXTENDS Naturals, FiniteSets

CONSTANTS
  Sessions,    \* session ids (the sid of a token pair)
  NoSession,   \* activeStudentSessionId is null
  Requests,    \* concurrent requests
  NoRequest,   \* nobody holds the row
  Enforced,    \* a student, with STUDENT_SINGLE_SESSION_ENFORCEMENT on
  Strategies   \* values STUDENT_SINGLE_SESSION_STRATEGY takes over time

ASSUME AuthAssumption ==
  /\ NoSession \notin Sessions
  /\ NoRequest \notin Requests
  /\ Enforced \in BOOLEAN
  /\ Strategies \subseteq {"FORCE_LOGOUT_EXISTING", "DENY_NEW_LOGIN"}

VARIABLES
  made,      \* committed refreshSession rows
  live,      \* those with revokedAt null
  active,    \* committed user.activeStudentSessionId
  root,      \* history: the login a session descends from by rotation
  held,      \* session rows the request's transaction has revoked, uncommitted
  holder,    \* the request whose transaction has updated the user row
  kind, pc,  \* what the request does, and how far it got
  sid,       \* the session of the token it presents
  fresh,     \* the session it opens
  seen,      \* rows its updateMany still has to revoke
  reach,     \* history: logins that had a live session when it began
  ended,     \* history: logins ended by a committed EndAll
  unseen     \* history: live sessions opened past another request's look at the others

rows == <<made, live, active, root, unseen>>
request == <<kind, sid, fresh, reach>>
vars == <<rows, held, holder, request, pc, seen, ended>>

\* The transaction of a request is open.
InTransaction(r) ==
  pc[r] \in {"opening", "revoking", "claiming", "pointing", "clearing", "committing"}

Held(s) == \E q \in Requests : s \in held[q]
Opens(r) == kind[r] \in {"login", "refresh"}
\* A request that opens a session has looked for the others.
Looked(r) == Opens(r) /\ pc[r] \in {"revoking", "claiming", "pointing", "committing"}
Unused == Sessions \ (made \cup {fresh[q] : q \in Requests})

Init ==
  /\ made = {} /\ live = {}
  /\ active = NoSession
  /\ root = [s \in Sessions |-> s]
  /\ held = [r \in Requests |-> {}]
  /\ holder = NoRequest
  /\ kind = [r \in Requests |-> "none"]
  /\ pc = [r \in Requests |-> "idle"]
  /\ sid = [r \in Requests |-> NoSession]
  /\ fresh = [r \in Requests |-> NoSession]
  /\ seen = [r \in Requests |-> {}]
  /\ reach = [r \in Requests |-> {}]
  /\ ended = {} /\ unseen = {}

Start(r, k, step, s, n) ==
  /\ pc[r] = "idle"
  /\ kind' = [kind EXCEPT ![r] = k]
  /\ pc' = [pc EXCEPT ![r] = step]
  /\ sid' = [sid EXCEPT ![r] = s]
  /\ fresh' = [fresh EXCEPT ![r] = n]
  /\ reach' = [reach EXCEPT ![r] = IF k = "endAll" THEN {root[t] : t \in live} ELSE {}]
  /\ UNCHANGED <<rows, held, holder, seen, ended>>

Goto(r, step) == pc' = [pc EXCEPT ![r] = step]

\* The request is over: its transaction, if any, holds nothing any more.  Faulty
\* variant: the transaction stays open.
FinishOnly(r) ==
  /\ Goto(r, "idle")
  /\ kind' = [kind EXCEPT ![r] = "none"]
  /\ sid' = [sid EXCEPT ![r] = NoSession]
  /\ fresh' = [fresh EXCEPT ![r] = NoSession]
  /\ reach' = [reach EXCEPT ![r] = {}]
  /\ UNCHANGED <<held, holder, seen>>
Finish(r) ==
  /\ Goto(r, "idle")
  /\ held' = [held EXCEPT ![r] = {}]
  /\ holder' = IF holder = r THEN NoRequest ELSE holder
  /\ seen' = [seen EXCEPT ![r] = {}]
  /\ kind' = [kind EXCEPT ![r] = "none"]
  /\ sid' = [sid EXCEPT ![r] = NoSession]
  /\ fresh' = [fresh EXCEPT ![r] = NoSession]
  /\ reach' = [reach EXCEPT ![r] = {}]

-----------------------------------------------------------------------------
(* The requests, up to their transaction *)

\* login and register: the password has been compared and the tokens issued.
Login(r) ==
  \E n \in Unused :
    Start(r, "login", IF Enforced THEN "opening" ELSE "committing", NoSession, n)

\* refresh finds the session unrevoked.
Refresh(r) == \E s \in live, n \in Unused : Start(r, "refresh", "reading", s, n)

\* logout verifies the token's signature only.
Logout(r) == \E s \in made : Start(r, "logout", "claiming", s, NoSession)

\* resetPassword, blockUser and forceLogout.
EndAll(r) == Start(r, "endAll", "pointing", NoSession, NoSession)

\* A guarded request of a student: the token carries a session, and the user
\* row just read has no active one.  Any other such request changes nothing.
Validate(r) ==
  /\ Enforced /\ active = NoSession
  /\ \E s \in made : Start(r, "validate", "checking", s, NoSession)

\* refresh reads the user and turns away a session that is not the active one.
ReadUser(r) ==
  /\ pc[r] = "reading"
  /\ IF Enforced /\ active \notin {NoSession, sid[r]}
       THEN Finish(r)
       ELSE /\ Goto(r, IF Enforced THEN "opening" ELSE "claiming")
            /\ UNCHANGED <<held, holder, request, seen>>
  /\ UNCHANGED <<rows, ended>>

-----------------------------------------------------------------------------
(* createLoginSession, rotateRefreshSession and the other transactions *)

\* Where a request goes once the rows it saw are revoked.
AfterRevoking(r) ==
  IF kind[r] = "login" THEN "pointing"
  ELSE IF kind[r] = "refresh" THEN "claiming" ELSE "committing"

\* The rows a request that logs others out is after: its own, being rotated, is
\* not one of them.  Faulty variant: the active one is not either.
SparesActive(r) == live \ {active}
Targets(r) == IF kind[r] = "refresh" THEN live \ {sid[r]} ELSE live

\* The statement that looks for the account's unrevoked sessions.
FindOthers(r) ==
  /\ pc[r] = "opening"
  /\ kind[r] = "login" => "FORCE_LOGOUT_EXISTING" \in Strategies
  /\ seen' = [seen EXCEPT ![r] = Targets(r)]
  /\ Goto(r, "revoking")
  /\ UNCHANGED <<rows, held, holder, request, ended>>

\* DENY_NEW_LOGIN: an unrevoked session turns the login away.
DenyLogin(r) ==
  /\ pc[r] = "opening" /\ kind[r] = "login"
  /\ "DENY_NEW_LOGIN" \in Strategies
  /\ live # {}
  /\ Finish(r)
  /\ UNCHANGED <<rows, ended>>

AdmitLogin(r) ==
  /\ pc[r] = "opening" /\ kind[r] = "login"
  /\ "DENY_NEW_LOGIN" \in Strategies
  /\ live = {}
  /\ Goto(r, "pointing")
  /\ UNCHANGED <<rows, held, holder, request, seen, ended>>

\* One row of the updateMany: it waits for the row's holder, then revokes the
\* row if it is still unrevoked.
RevokeOne(r, s) ==
  /\ pc[r] = "revoking"
  /\ s \in seen[r] /\ ~Held(s)
  /\ seen' = [seen EXCEPT ![r] = seen[r] \ {s}]
  /\ held' = [held EXCEPT ![r] = IF s \in live THEN held[r] \cup {s} ELSE held[r]]
  /\ UNCHANGED <<rows, holder, request, pc, ended>>

RevokedAll(r) ==
  /\ pc[r] = "revoking" /\ seen[r] = {}
  /\ Goto(r, AfterRevoking(r))
  /\ UNCHANGED <<rows, held, holder, request, seen, ended>>

\* Where a request goes once its own session is revoked.  Faulty variant: a
\* refresh leaves the user row alone.
ClaimThenCommit(r) == IF kind[r] = "logout" THEN "clearing" ELSE "committing"
AfterClaim(r) ==
  IF kind[r] = "logout" THEN "clearing"
  ELSE IF Enforced THEN "pointing" ELSE "committing"

\* updateMany of the presented session where revokedAt is null.  Faulty variant:
\* without that condition.
ClaimAnyway(r) == ~Held(sid[r])
Claimable(r) == ~Held(sid[r]) /\ sid[r] \in live
Claim(r) ==
  /\ pc[r] = "claiming"
  /\ Claimable(r)
  /\ held' = [held EXCEPT ![r] = held[r] \cup {sid[r]}]
  /\ Goto(r, AfterClaim(r))
  /\ UNCHANGED <<rows, holder, request, seen, ended>>

\* Revoked already: a refresh throws inside its transaction, a logout goes on.
\* Faulty variant: the refresh tries again until the row is unrevoked.
RetryClaim(r) ==
  /\ pc[r] = "claiming" /\ sid[r] \notin live /\ kind[r] = "logout"
  /\ Goto(r, "clearing")
  /\ UNCHANGED <<rows, held, holder, request, seen, ended>>
LoseClaim(r) ==
  /\ pc[r] = "claiming" /\ sid[r] \notin live
  /\ IF kind[r] = "refresh"
       THEN Finish(r)
       ELSE Goto(r, "clearing") /\ UNCHANGED <<held, holder, request, seen>>
  /\ UNCHANGED <<rows, ended>>

\* user.update of activeStudentSessionId; EndAll starts with it.
PointUser(r) ==
  /\ pc[r] = "pointing" /\ holder = NoRequest
  /\ holder' = r
  /\ Goto(r, IF kind[r] = "endAll" THEN "opening" ELSE "committing")
  /\ UNCHANGED <<rows, held, request, seen, ended>>

\* logout: user.updateMany where activeStudentSessionId is the session.
ClearPointer(r) ==
  /\ pc[r] = "clearing"
  /\ active = sid[r] => holder = NoRequest
  /\ holder' = IF active = sid[r] THEN r ELSE holder
  /\ Goto(r, "committing")
  /\ UNCHANGED <<rows, held, request, seen, ended>>

\* Everything the transaction did shows at once.
Commit(r) ==
  LET opened == IF Opens(r) THEN {fresh[r]} ELSE {} IN
  /\ pc[r] = "committing"
  /\ made' = made \cup opened
  /\ live' = (live \ held[r]) \cup opened
  /\ root' = IF kind[r] = "refresh"
               THEN [root EXCEPT ![fresh[r]] = root[sid[r]]]
               ELSE IF kind[r] = "login" THEN [root EXCEPT ![fresh[r]] = fresh[r]]
               ELSE root
  /\ active' = IF holder # r THEN active
               ELSE IF Opens(r) THEN fresh[r] ELSE NoSession
  /\ ended' = IF kind[r] = "endAll" THEN ended \cup reach[r] ELSE ended
  /\ unseen' = (unseen \cap live') \cup
                 {s \in opened : \E q \in Requests \ {r} : Looked(q)}
  /\ Finish(r)

\* The connection is lost, the transaction times out or its process dies.
Rollback(r) ==
  /\ InTransaction(r)
  /\ Finish(r)
  /\ UNCHANGED <<rows, ended>>

\* Whom a request cannot go on without.
WaitsFor(r) ==
  {q \in Requests \ {r} :
     \/ pc[r] = "revoking" /\ seen[r] # {} /\ (\A s \in seen[r] : Held(s))
          /\ seen[r] \cap held[q] # {}
     \/ pc[r] = "claiming" /\ sid[r] \in held[q]
     \/ pc[r] \in {"pointing", "adopting"} /\ holder = q
     \/ pc[r] = "clearing" /\ active = sid[r] /\ holder = q}

\* External: the database finds requests that wait for one another and rolls
\* one of them back.
Deadlocked(r) ==
  \E D \in SUBSET Requests : r \in D /\ \A q \in D : WaitsFor(q) \cap D # {}
BreakDeadlock(r) == Deadlocked(r) /\ Rollback(r)

-----------------------------------------------------------------------------
(* enforceStudentSession *)

\* The session is looked up; a revoked one ends the request.
CheckSession(r) ==
  /\ pc[r] = "checking"
  /\ IF sid[r] \in live
       THEN Goto(r, "adopting") /\ UNCHANGED <<held, holder, request, seen>>
       ELSE Finish(r)
  /\ UNCHANGED <<rows, ended>>

\* updateMany where activeStudentSessionId is null; whether it adopted or not, the
\* request is answered.  Faulty variant: without that condition.
AdoptOver(r) == sid[r]
Adopted(r) == IF active = NoSession THEN sid[r] ELSE active
Adopt(r) ==
  /\ pc[r] = "adopting"
  /\ active = NoSession => holder = NoRequest
  /\ active' = Adopted(r)
  /\ Finish(r)
  /\ UNCHANGED <<made, live, root, unseen, ended>>

Begin(r) == Login(r) \/ Refresh(r) \/ Logout(r) \/ EndAll(r) \/ Validate(r)

Step(r) ==
  \/ ReadUser(r) \/ FindOthers(r) \/ DenyLogin(r) \/ AdmitLogin(r)
  \/ (\E s \in Sessions : RevokeOne(r, s)) \/ RevokedAll(r)
  \/ Claim(r) \/ LoseClaim(r) \/ PointUser(r) \/ ClearPointer(r) \/ Commit(r)
  \/ CheckSession(r) \/ Adopt(r)

Next == \E r \in Requests : Begin(r) \/ Step(r) \/ Rollback(r)

Spec == Init /\ [][Next]_vars

\* The process serves every request, the database hands a row to those waiting
\* for it in their order (so a request that finds it free again and again gets
\* it) and breaks every deadlock; no client is obliged to do anything.
Fairness ==
  \A r \in Requests : SF_vars(Step(r)) /\ WF_vars(BreakDeadlock(r))
FairSpec == Spec /\ Fairness

-----------------------------------------------------------------------------
(* Properties *)

\* Rows, locks and requests have the shape of the schema and of the code, and only
\* an open transaction holds a row.
TypeOK ==
  /\ live \subseteq made /\ made \subseteq Sessions
  /\ active \in made \cup {NoSession}
  /\ root \in [Sessions -> Sessions]
  /\ held \in [Requests -> SUBSET Sessions]
  /\ holder \in Requests \cup {NoRequest}
  /\ kind \in [Requests -> {"none", "login", "refresh", "logout", "endAll", "validate"}]
  /\ pc \in [Requests -> {"idle", "reading", "opening", "revoking", "claiming",
                          "pointing", "clearing", "committing", "checking", "adopting"}]
  /\ sid \in [Requests -> Sessions \cup {NoSession}]
  /\ fresh \in [Requests -> Sessions \cup {NoSession}]
  /\ seen \in [Requests -> SUBSET Sessions]
  /\ reach \in [Requests -> SUBSET Sessions]
  /\ ended \subseteq Sessions /\ unseen \subseteq live
  /\ \A r \in Requests : held[r] # {} \/ holder = r => InTransaction(r)

\* However many requests present the same refresh token at once, a login has at
\* most one session that can still be refreshed: rotation never forks it.
OneHeadPerLogin ==
  \A s, t \in live : root[s] = root[t] => s = t

\* Force logout, password reset and blocking reach every login that had a live
\* session when they began, a session being rotated at that moment included.
LoggedOutEverywhere == \A s \in live : root[s] \notin ended

\* A student has one device: of two sessions that can both be refreshed, one was opened
\* by a request that committed after another, opening a session too, had looked for the
\* sessions to revoke.
OneDevice ==
  Enforced => \A s, t \in live : s # t => s \in unseen \/ t \in unseen

\* While it is live, the active session gives way only to a login and to its own
\* rotation, never to another device's logout, adoption or refresh: a refresh that read
\* the user before a login made its session the active one finds its own revoked.  Only
\* where one of the two devices went unseen may the refresh of the other take over.
ActiveGivesWay ==
  [][active # NoSession /\ active' # active =>
       \/ active' = NoSession /\ active \notin live'
       \/ /\ active' \notin made \cup {NoSession}
          /\ \/ active \notin live
             \/ root'[active'] \in {active', root[active]}
             \/ active \in unseen
             \/ \E s \in unseen : root[s] = root'[active']]_vars

\* The account's rows are taken in different orders by different requests, yet no
\* request waits for ever.
EveryRequestEnds == \A r \in Requests : pc[r] # "idle" ~> pc[r] = "idle"

-----------------------------------------------------------------------------
(* What refresh tokens promise, and that the code keeps the promise. *)

Chains == INSTANCE LoginChains WITH
  issued <- made,
  heads  <- {<<root[s], s>> : s \in live}

\* A login's chain never forks and, once all its sessions are revoked, is never
\* taken up again, whatever requests overlap and whichever transactions fail.
KeepsChains == Chains!Spec
=============================================================================
