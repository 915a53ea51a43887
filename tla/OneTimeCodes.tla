---------------------------- MODULE OneTimeCodes ----------------------------
(***************************************************************************)
(* The codes sent to one address, and the tokens that reset its password:  *)
(* src/modules/auth/auth.service, requestOtp, verifyOtp, register,         *)
(* requestPasswordReset and resetPassword.                                 *)
(*                                                                         *)
(* Codes are numbered by when they were made.  A code ages: fresh for the  *)
(* sixty seconds of the cooldown, valid for ten minutes, expired but still *)
(* counted for five more, forgotten.  A wrong code only adds to attempts,  *)
(* which nothing reads, and is left out; what a reset does to sessions is  *)
(* part of AuthSessions.                                                   *)
(***************************************************************************)
EXTENDS Naturals, Sequences, FiniteSets

CONSTANTS
  Askers,     \* requests for a code at a time
  Spenders,   \* requests that spend a code or a token at a time
  Tokens,     \* reset tokens
  MaxRecent,  \* maxRequests of enforceOtpRateLimit
  MaxCodes    \* bound: codes made

ASSUME OneTimeCodesAssumption ==
  /\ IsFiniteSet(Askers) /\ Askers # {}
  /\ MaxRecent \in Nat \ {0} /\ MaxCodes \in Nat

VARIABLES
  purpose,   \* of the codes
  account,   \* a user has the address
  codes,     \* age of each code, and whether consumedAt is set
  token,     \* each token: none, live, used, or expired
  asker,     \* where each request for a code is
  spender,   \* where each spending request is, and with what
  yields,    \* history: what each code brought: verifications and accounts
  resets,    \* history: passwords set with each token
  crowded,   \* history: codes a verification held together with another request
  shared,    \* history: tokens two resets held together
  hurried    \* history: a request for a code passed the cooldown beside another

ovars == <<purpose, account, codes, token, asker, spender, yields, resets, crowded, shared, hurried>>

Ages == {"fresh", "valid", "expired", "forgotten"}
NotSpending == [pc |-> "away", item |-> 0]
CodeNumbers == 1 .. Len(codes)

OneTimeCodesInit ==
  /\ purpose \in {"LOGIN", "PASSWORD_RESET"}
  /\ account \in BOOLEAN
  /\ codes = <<>>
  /\ token = [t \in Tokens |-> "none"]
  /\ asker = [a \in Askers |-> "away"]
  /\ spender = [s \in Spenders |-> NotSpending]
  /\ yields = [i \in 1 .. MaxCodes |-> 0]
  /\ resets = [t \in Tokens |-> 0]
  /\ crowded = {} /\ shared = {} /\ hurried = FALSE

-----------------------------------------------------------------------------
(* requestOtp *)

Asking(a, step) == asker' = [asker EXCEPT ![a] = step]

\* Without an account, only an email address to be verified.
BeginAsk(a) ==
  /\ asker[a] = "away" /\ Len(codes) < MaxCodes
  /\ account \/ purpose = "LOGIN"
  /\ Asking(a, "cooling")
  /\ UNCHANGED <<purpose, account, codes, token, spender, yields, resets, crowded, shared, hurried>>

CheckCooldown(a) ==
  /\ asker[a] = "cooling"
  /\ IF Len(codes) > 0 /\ codes[Len(codes)].age = "fresh"
       THEN Asking(a, "away") /\ UNCHANGED hurried
       ELSE /\ Asking(a, "counting")
            /\ hurried' = (hurried \/ \E b \in Askers : asker[b] \in {"counting", "creating"})
  /\ UNCHANGED <<purpose, account, codes, token, spender, yields, resets, crowded, shared>>

Recent == {i \in CodeNumbers : codes[i].age # "forgotten"}
\* Faulty variant: one more than the limit.
RecentUpToLimit == Cardinality(Recent) <= MaxRecent
RecentWithinLimit == Cardinality(Recent) < MaxRecent
CountRecent(a) ==
  /\ asker[a] = "counting"
  /\ Asking(a, IF RecentWithinLimit THEN "creating" ELSE "away")
  /\ UNCHANGED <<purpose, account, codes, token, spender, yields, resets, crowded, shared, hurried>>

CreateCode(a) ==
  /\ asker[a] = "creating" /\ Len(codes) < MaxCodes
  /\ codes' = Append(codes, [age |-> "fresh", consumed |-> FALSE])
  /\ Asking(a, "away")
  /\ UNCHANGED <<purpose, account, token, spender, yields, resets, crowded, shared, hurried>>

-----------------------------------------------------------------------------
(* verifyOtp and register *)

Spending(s, step) == spender' = [spender EXCEPT ![s].pc = step]
StopSpending(s) == spender' = [spender EXCEPT ![s] = NotSpending]
Claiming(s) == spender[s].pc \in {"verifying", "claiming"}

\* The latest code that can be spent is the only one compared; when it is consumed,
\* an older one comes back.
Spendable == {i \in CodeNumbers : ~codes[i].consumed /\ codes[i].age \in {"fresh", "valid"}}
Latest(i) == i \in Spendable /\ \A j \in Spendable : j <= i

FindCode(s, i, step) ==
  /\ Latest(i)
  /\ spender' = [spender EXCEPT ![s] = [pc |-> step, item |-> i]]
  /\ crowded' =
       IF \E q \in Spenders \ {s} : /\ Claiming(q) /\ spender[q].item = i
                                    /\ "verifying" \in {step, spender[q].pc}
         THEN crowded \cup {i} ELSE crowded

BeginVerify(s, i) ==
  /\ spender[s] = NotSpending
  /\ FindCode(s, i, "verifying")
  /\ UNCHANGED <<purpose, account, codes, token, asker, yields, resets, shared, hurried>>

\* consumedAt is set whatever it was.
ConsumeVerified(s) ==
  LET i == spender[s].item IN
  /\ spender[s].pc = "verifying"
  /\ codes' = [codes EXCEPT ![i].consumed = TRUE]
  /\ yields' = [yields EXCEPT ![i] = @ + 1]
  /\ IF purpose = "PASSWORD_RESET" THEN Spending(s, "tokening") ELSE StopSpending(s)
  /\ UNCHANGED <<purpose, account, token, asker, resets, crowded, shared, hurried>>

BeginRegister(s) ==
  /\ spender[s] = NotSpending
  /\ ~account /\ purpose = "LOGIN"
  /\ spender' = [spender EXCEPT ![s] = [pc |-> "registering", item |-> 0]]
  /\ UNCHANGED <<purpose, account, codes, token, asker, yields, resets, crowded, shared, hurried>>

FindRegistrationCode(s, i) ==
  /\ spender[s].pc = "registering"
  /\ FindCode(s, i, "claiming")
  /\ UNCHANGED <<purpose, account, codes, token, asker, yields, resets, shared, hurried>>

\* consumeRegistrationOtp: where consumedAt is null.  Faulty variant: whatever it is.
ClaimAlways(i) == TRUE
Unclaimed(i) == ~codes[i].consumed
ConsumeRegistrationOtp(s) ==
  LET i == spender[s].item IN
  /\ spender[s].pc = "claiming"
  /\ codes' = [codes EXCEPT ![i].consumed = TRUE]
  /\ IF Unclaimed(i)
       THEN yields' = [yields EXCEPT ![i] = @ + 1] /\ Spending(s, "signing")
       ELSE UNCHANGED yields /\ StopSpending(s)
  /\ UNCHANGED <<purpose, account, token, asker, resets, crowded, shared, hurried>>

\* The address is unique; the code of a registration that fails here is spent.
CreateUser(s) ==
  /\ spender[s].pc = "signing"
  /\ account' = TRUE
  /\ StopSpending(s)
  /\ UNCHANGED <<purpose, codes, token, asker, yields, resets, crowded, shared, hurried>>

-----------------------------------------------------------------------------
(* Reset tokens *)

\* createPasswordResetToken, of a verified code.
CreateToken(s, t) ==
  /\ spender[s].pc = "tokening" /\ token[t] = "none"
  /\ token' = [token EXCEPT ![t] = "live"]
  /\ StopSpending(s)
  /\ UNCHANGED <<purpose, account, codes, asker, yields, resets, crowded, shared, hurried>>

\* requestPasswordReset.  Tokens and registrations have nothing in common, and are not
\* followed together.
RequestReset(t) ==
  /\ account /\ purpose = "PASSWORD_RESET" /\ token[t] = "none"
  /\ token' = [token EXCEPT ![t] = "live"]
  /\ UNCHANGED <<purpose, account, codes, asker, spender, yields, resets, crowded, shared, hurried>>

BeginReset(s, t) ==
  /\ spender[s] = NotSpending /\ token[t] = "live"
  /\ spender' = [spender EXCEPT ![s] = [pc |-> "resetting", item |-> t]]
  /\ shared' = IF \E q \in Spenders : spender[q].pc = "resetting" /\ spender[q].item = t
                 THEN shared \cup {t} ELSE shared
  /\ UNCHANGED <<purpose, account, codes, token, asker, yields, resets, crowded, hurried>>

\* The transaction marks the token used whatever it has become.  Faulty variant: the
\* token stays as it is.
TokenKept(t) == token
TokenUsed(t) == [token EXCEPT ![t] = "used"]
ResetPassword(s) ==
  LET t == spender[s].item IN
  /\ spender[s].pc = "resetting"
  /\ token' = TokenUsed(t)
  /\ resets' = [resets EXCEPT ![t] = @ + 1]
  /\ StopSpending(s)
  /\ UNCHANGED <<purpose, account, codes, asker, yields, crowded, shared, hurried>>

-----------------------------------------------------------------------------
(* Time and failures *)

Older(age) == CASE age = "fresh" -> "valid" [] age = "valid" -> "expired"
                [] OTHER -> "forgotten"
CodeAges(i) ==
  /\ codes[i].age # "forgotten"
  /\ i > 1 => codes[i].age # codes[i - 1].age
  /\ codes' = [codes EXCEPT ![i].age = Older(@)]
  /\ UNCHANGED <<purpose, account, token, asker, spender, yields, resets, crowded, shared, hurried>>

TokenExpires(t) ==
  /\ token[t] = "live" /\ token' = [token EXCEPT ![t] = "expired"]
  /\ UNCHANGED <<purpose, account, codes, asker, spender, yields, resets, crowded, shared, hurried>>

CodeRequestFails ==
  /\ \/ \E a \in Askers : asker[a] # "away" /\ Asking(a, "away") /\ UNCHANGED spender
     \/ \E s \in Spenders : spender[s] # NotSpending /\ StopSpending(s) /\ UNCHANGED asker
  /\ UNCHANGED <<purpose, account, codes, token, yields, resets, crowded, shared, hurried>>

OneTimeCodesNext ==
  \/ \E a \in Askers :
       BeginAsk(a) \/ CheckCooldown(a) \/ CountRecent(a) \/ CreateCode(a)
  \/ \E s \in Spenders :
       \/ \E i \in CodeNumbers : BeginVerify(s, i) \/ FindRegistrationCode(s, i)
       \/ ConsumeVerified(s) \/ BeginRegister(s) \/ ConsumeRegistrationOtp(s) \/ CreateUser(s)
       \/ \E t \in Tokens : CreateToken(s, t) \/ BeginReset(s, t)
       \/ ResetPassword(s)
  \/ (\E t \in Tokens : RequestReset(t) \/ TokenExpires(t))
  \/ (\E i \in CodeNumbers : CodeAges(i)) \/ CodeRequestFails

OneTimeCodesSpec == OneTimeCodesInit /\ [][OneTimeCodesNext]_ovars

-----------------------------------------------------------------------------
(* Properties *)

\* Rows and requests have the shape of the schema and the code.
OneTimeCodesTypeOK ==
  /\ purpose \in {"LOGIN", "PASSWORD_RESET"} /\ account \in BOOLEAN
  /\ codes \in Seq([age : Ages, consumed : BOOLEAN]) /\ Len(codes) <= MaxCodes
  /\ token \in [Tokens -> {"none", "live", "used", "expired"}]
  /\ asker \in [Askers -> {"away", "cooling", "counting", "creating"}]
  /\ \A s \in Spenders :
       \/ spender[s] = NotSpending
       \/ spender[s] = [pc |-> "registering", item |-> 0]
       \/ /\ spender[s].pc \in {"verifying", "claiming", "tokening", "signing"}
          /\ spender[s].item \in CodeNumbers
       \/ spender[s].pc = "resetting" /\ spender[s].item \in Tokens
  /\ yields \in [1 .. MaxCodes -> Nat] /\ resets \in [Tokens -> Nat]
  /\ crowded \subseteq CodeNumbers /\ shared \subseteq Tokens /\ hurried \in BOOLEAN

\* A code lets one request through, unless a verification held it together with another
\* request: two registrations never share one.  A reset token sets one password, unless
\* two resets held it at once.
SpentOnce ==
  /\ \A i \in CodeNumbers : yields[i] <= 1 \/ i \in crowded
  /\ \A t \in Tokens : resets[t] <= 1 \/ t \in shared

\* The cooldown and the limit are looked up before the code is written: each is kept
\* unless two requests got past the cooldown together, and is then exceeded by no more
\* than the other requests that can be under way.
CodesWithinLimit ==
  LET beside == IF hurried THEN Cardinality(Askers) - 1 ELSE 0 IN
  /\ Cardinality({i \in CodeNumbers : codes[i].age = "fresh"}) <= 1 + beside
  /\ Cardinality(Recent) <= MaxRecent + beside
=============================================================================
