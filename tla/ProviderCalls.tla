----------------------------- MODULE ProviderCalls -----------------------------
(***************************************************************************)
(* Calls of the provider's recurring payments and the token they share:    *)
(* requestRecurringApi and getOAuthAuthorizationHeader of                  *)
(* src/modules/payments/phonepe/phonepe.service.                           *)
(*                                                                         *)
(* Tokens are numbered as the provider issues them; which of them it still *)
(* accepts is its own affair, and the clock tells the program only when a  *)
(* token's announced time is nearly over.                                  *)
(***************************************************************************)
EXTENDS Naturals

CONSTANTS
  Calls,       \* calls of the provider
  MaxTokens    \* bound: tokens issued

ASSUME ProviderCallsAssumption == MaxTokens \in Nat

VARIABLES
  issued,     \* external: tokens issued
  accepted,   \* external: those the provider accepts
  elapsed,    \* tokens within thirty seconds of their announced end
  cached,     \* oAuthTokenCache, 0 for none
  calling,    \* where each call is: its token, and whether it was refused once
  performed,  \* external: how often the provider did what the call asks
  dropped     \* history: calls whose token was dropped since they asked for it

hvars == <<issued, accepted, elapsed, cached, calling, performed, dropped>>

ProviderCallsInit ==
  /\ issued = 0 /\ accepted = {} /\ elapsed = {} /\ cached = 0
  /\ calling = [c \in Calls |-> [pc |-> "new", token |-> 0, again |-> FALSE]]
  /\ performed = [c \in Calls |-> 0]
  /\ dropped = {}

\* A cached token that lasts is used, otherwise one is asked for.
BeginCall(c) ==
  /\ calling[c].pc = "new"
  /\ calling' = [calling EXCEPT ![c] =
       IF cached # 0 /\ cached \notin elapsed
         THEN [@ EXCEPT !.pc = "sending", !.token = cached] ELSE [@ EXCEPT !.pc = "asking"]]
  /\ UNCHANGED <<issued, accepted, elapsed, cached, performed, dropped>>

IssueToken(c) ==
  /\ calling[c].pc = "asking" /\ issued < MaxTokens
  /\ issued' = issued + 1 /\ accepted' = accepted \cup {issued'}
  /\ calling' = [calling EXCEPT ![c].pc = "storing", ![c].token = issued']
  /\ UNCHANGED <<elapsed, cached, performed, dropped>>

\* Whichever call stores last, also when another has got a later one.
StoreToken(c) ==
  /\ calling[c].pc = "storing"
  /\ cached' = calling[c].token
  /\ calling' = [calling EXCEPT ![c].pc = "sending"]
  /\ UNCHANGED <<issued, accepted, elapsed, performed, dropped>>

\* A token refused once is replaced by one asked for; a second refusal fails the call.
AfterRefusal(c) == IF calling[c].again THEN "refused" ELSE "asking"
Send(c) ==
  LET token == calling[c].token IN
  /\ calling[c].pc = "sending"
  /\ IF token \in accepted
       THEN /\ performed' = [performed EXCEPT ![c] = @ + 1]
            /\ \E answer \in {"done", "lost"} : calling' = [calling EXCEPT ![c].pc = answer]
       ELSE /\ calling' = [calling EXCEPT ![c].pc = AfterRefusal(c), ![c].again = TRUE]
            /\ UNCHANGED performed
  /\ UNCHANGED <<issued, accepted, elapsed, cached, dropped>>

\* No answer, from the provider or for the token.
LoseCall(c) ==
  /\ calling[c].pc \in {"asking", "sending"}
  /\ calling' = [calling EXCEPT ![c].pc = "lost"]
  /\ UNCHANGED <<issued, accepted, elapsed, cached, performed, dropped>>

Elapse(token) ==
  /\ token \in 1 .. issued \ elapsed /\ elapsed' = elapsed \cup {token}
  /\ UNCHANGED <<issued, accepted, cached, calling, performed, dropped>>

\* The provider drops a token, at its end or before.
DropToken(token) ==
  /\ token \in accepted /\ accepted' = accepted \ {token}
  /\ dropped' = dropped \cup
       {c \in Calls : calling[c].token = token /\ calling[c].again}
  /\ UNCHANGED <<issued, elapsed, cached, calling, performed>>

ProviderCallsNext ==
  \/ \E c \in Calls : BeginCall(c) \/ IssueToken(c) \/ StoreToken(c) \/ Send(c) \/ LoseCall(c)
  \/ \E token \in 1 .. MaxTokens : Elapse(token) \/ DropToken(token)

ProviderCallsSpec == ProviderCallsInit /\ [][ProviderCallsNext]_hvars

-----------------------------------------------------------------------------
(* Properties *)

\* Calls and tokens have the shape of the code.
ProviderCallsTypeOK ==
  /\ accepted \subseteq 1 .. issued /\ elapsed \subseteq 1 .. issued /\ cached \in 0 .. issued
  /\ \A c \in Calls :
       /\ calling[c].pc \in {"new", "asking", "storing", "sending", "done", "lost", "refused"}
       /\ calling[c].token \in 0 .. issued

\* What a call asks for is done at most once, though it is sent again after a refusal; a
\* call that is told so was done, and one that was refused was not.
PerformedOnce ==
  \A c \in Calls :
    /\ performed[c] <= 1
    /\ calling[c].pc = "done" => performed[c] = 1
    /\ calling[c].pc = "refused" => performed[c] = 0

\* Whatever token another call has left in the cache, a call fails for its token only if
\* the provider dropped the one it asked for itself.
RefusedOnlyWhenDropped == \A c \in Calls : calling[c].pc = "refused" => c \in dropped
=============================================================================
