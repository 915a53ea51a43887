--------------------------------- MODULE Terms ---------------------------------
(***************************************************************************)
(* The days of one student's subscriptions, src/modules/payments,          *)
(* subscriptions.service: activateSubscription, which starts a             *)
(* subscription where the latest one ends or replaces what is active, and  *)
(* the daily job that expires.                                             *)
(*                                                                         *)
(* An activation computes its days from the subscriptions it has read and  *)
(* writes four statements later, in no transaction.  It is run once for a  *)
(* purchase here, an order paid or a grant of an admin; two runs for one   *)
(* order are PaymentOrders' matter.  Time is counted in days, and a day    *)
(* may pass between any two steps.                                         *)
(***************************************************************************)
EXTENDS Naturals

CONSTANTS
  Purchases,   \* what subscriptions are activated for, one each
  Endless,     \* those of a plan for a lifetime
  Length,      \* durationDays of the other plans
  Never,       \* endsAt is null
  Stackings,   \* the values SUBSCRIPTION_STACKING takes over time
  Horizon,     \* bound: the last day
  MaxMishaps   \* bound: failed statements and process deaths

ASSUME TermsAssumption ==
  /\ Endless \subseteq Purchases
  /\ Length \in Nat /\ Horizon \in Nat /\ MaxMishaps \in Nat
  /\ Never \notin Nat /\ Stackings \subseteq BOOLEAN

VARIABLES
  clock,         \* today
  subscription,  \* status of the subscription of a purchase
  term,          \* its startsAt and endsAt
  rights,        \* startsAt and endsAt of its entitlements
  buying,        \* where the activation of a purchase is, with what it read
  expiry,        \* where the daily job is
  mishaps,       \* mishaps left
  span,          \* history: the days of a subscription that none has replaced
  blind,         \* history: purchases that computed their days before another was written
  halved         \* history: those an error, a death or a replacement left half done

tvars == <<clock, subscription, term, rights, buying, expiry, mishaps, span, blind, halved>>

NoDays == [from |-> 0, to |-> 0]
NotAsked == [pc |-> "idle", now |-> 0, from |-> 0, doomed |-> {}]
Asleep == [pc |-> "idle", now |-> 0, ids |-> {}]

\* An endsAt is null or after this day.
Beyond(end, day) == end = Never \/ end > day
\* What endsAt: now makes of these days if they end later.
Cut(days, day) == IF Beyond(days.to, day) THEN [days EXCEPT !.to = day] ELSE days

TermsInit ==
  /\ clock = 0
  /\ subscription = [p \in Purchases |-> "none"]
  /\ term = [p \in Purchases |-> NoDays]
  /\ rights = [p \in Purchases |-> NoDays]
  /\ buying = [p \in Purchases |-> NotAsked]
  /\ expiry = Asleep
  /\ mishaps = MaxMishaps
  /\ span = [p \in Purchases |-> NoDays]
  /\ blind = {} /\ halved = {}

Proceed(p, step) == buying' = [buying EXCEPT ![p].pc = step]
\* What it has read is of no more use.
Retire(p, step) == buying' = [buying EXCEPT ![p] = [NotAsked EXCEPT !.pc = step]]

NewDay ==
  /\ clock < Horizon /\ clock' = clock + 1
  /\ UNCHANGED <<subscription, term, rights, buying, expiry, mishaps, span, blind, halved>>

-----------------------------------------------------------------------------
(* activateSubscription *)

Running(day) == {q \in Purchases : subscription[q] = "ACTIVE" /\ Beyond(term[q].to, day)}
\* Nothing stacks on a subscription without an end.
CanStackOn(stacking, subs) == stacking /\ \A q \in subs : term[q].to # Never
\* The latest end of these subscriptions, if there are any.  Faulty variant: the first.
StartsAtFirst(subs, day, from) ==
  IF subs = {} THEN from = day
  ELSE from \in {term[q].to : q \in subs} /\ \A q \in subs : term[q].to >= from
StartsAt(subs, day, from) ==
  IF subs = {} THEN from = day
  ELSE from \in {term[q].to : q \in subs} /\ \A q \in subs : term[q].to <= from

\* Stack, with nothing doomed, or replace.
ReadRunning(p, stacking, from) ==
  LET subs == Running(clock)
      stacks == CanStackOn(stacking, subs)
      doomed == IF stacks THEN {} ELSE subs IN
  /\ buying[p].pc = "idle"
  /\ StartsAt(IF stacks THEN subs ELSE {}, clock, from)
  /\ buying' = [buying EXCEPT ![p] =
       [pc |-> IF doomed = {} THEN "creating" ELSE "replacing",
        now |-> clock, from |-> from, doomed |-> doomed]]
  /\ UNCHANGED <<clock, subscription, term, rights, expiry, mishaps, span, blind, halved>>

ReplaceRunning(p) ==
  /\ buying[p].pc = "replacing"
  /\ subscription' = [q \in Purchases |->
       IF q \in buying[p].doomed THEN "EXPIRED" ELSE subscription[q]]
  /\ span' = [q \in Purchases |->
       IF q \in buying[p].doomed THEN Cut(span[q], buying[p].now) ELSE span[q]]
  /\ Proceed(p, "closing")
  /\ UNCHANGED <<clock, term, rights, expiry, mishaps, blind, halved>>

\* A replaced one that has not created its entitlements yet opens them after this.
CloseReplacedRights(p) ==
  /\ buying[p].pc = "closing"
  /\ rights' = [q \in Purchases |->
       IF q \in buying[p].doomed THEN Cut(rights[q], buying[p].now) ELSE rights[q]]
  /\ halved' = halved \cup {q \in buying[p].doomed : buying[q].pc = "entitling"}
  /\ buying' = [buying EXCEPT ![p] = [@ EXCEPT !.pc = "creating", !.doomed = {}]]
  /\ UNCHANGED <<clock, subscription, term, expiry, mishaps, span, blind>>

Computed(p) == buying[p].pc \in {"replacing", "closing", "creating"}
DaysOf(p) ==
  [from |-> buying[p].from, to |-> IF p \in Endless THEN Never ELSE buying[p].from + Length]

CreateTerm(p) ==
  /\ buying[p].pc = "creating"
  /\ subscription' = [subscription EXCEPT ![p] = "ACTIVE"]
  /\ term' = [term EXCEPT ![p] = DaysOf(p)]
  /\ span' = [span EXCEPT ![p] = DaysOf(p)]
  /\ blind' = blind \cup {q \in Purchases \ {p} : Computed(q)}
  /\ Retire(p, "entitling")
  /\ UNCHANGED <<clock, rights, expiry, mishaps, halved>>

CreateRights(p) ==
  /\ buying[p].pc = "entitling"
  /\ rights' = [rights EXCEPT ![p] = term[p]]
  /\ Retire(p, "over")
  /\ UNCHANGED <<clock, subscription, term, expiry, mishaps, span, blind, halved>>

\* An error of the activation is swallowed, and a process that dies leaves what it wrote.
ActivationEnds(p) ==
  /\ Computed(p) \/ buying[p].pc = "entitling"
  /\ mishaps > 0 /\ mishaps' = mishaps - 1
  /\ halved' = halved \cup (IF buying[p].pc = "entitling" THEN {p} ELSE {})
                      \cup (IF buying[p].pc = "closing" THEN buying[p].doomed ELSE {})
  /\ Retire(p, "over")
  /\ UNCHANGED <<clock, subscription, term, rights, expiry, span, blind>>

-----------------------------------------------------------------------------
(* expireSubscriptions, daily *)

\* Faulty variant: whatever has begun.
HasBegun(day) == {q \in Purchases : subscription[q] = "ACTIVE" /\ term[q].from <= day}
HasEnded(day) == {q \in Purchases : subscription[q] = "ACTIVE" /\ ~Beyond(term[q].to, day)}
FindEnded ==
  /\ expiry.pc = "idle" /\ HasEnded(clock) # {}
  /\ expiry' = [pc |-> "marking", now |-> clock, ids |-> HasEnded(clock)]
  /\ UNCHANGED <<clock, subscription, term, rights, buying, mishaps, span, blind, halved>>

MarkEnded ==
  /\ expiry.pc = "marking"
  /\ subscription' = [q \in Purchases |->
       IF q \in expiry.ids THEN "EXPIRED" ELSE subscription[q]]
  /\ expiry' = [expiry EXCEPT !.pc = "closing"]
  /\ UNCHANGED <<clock, term, rights, buying, mishaps, span, blind, halved>>

CloseEnded ==
  /\ expiry.pc = "closing"
  /\ rights' = [q \in Purchases |->
       IF q \in expiry.ids THEN Cut(rights[q], expiry.now) ELSE rights[q]]
  /\ expiry' = Asleep
  /\ UNCHANGED <<clock, subscription, term, buying, mishaps, span, blind, halved>>

ExpiryDies ==
  /\ expiry.pc # "idle"
  /\ mishaps > 0 /\ mishaps' = mishaps - 1
  /\ expiry' = Asleep
  /\ UNCHANGED <<clock, subscription, term, rights, buying, span, blind, halved>>

-----------------------------------------------------------------------------

Ends == {clock} \cup {term[q].to : q \in Purchases}
TermsNext ==
  \/ NewDay \/ FindEnded \/ MarkEnded \/ CloseEnded \/ ExpiryDies
  \/ \E p \in Purchases :
       \/ ReplaceRunning(p) \/ CloseReplacedRights(p) \/ CreateTerm(p) \/ CreateRights(p)
       \/ ActivationEnds(p)
       \/ \E stacking \in Stackings, from \in Ends : ReadRunning(p, stacking, from)

TermsSpec == TermsInit /\ [][TermsNext]_tvars

-----------------------------------------------------------------------------
(* Properties *)

\* Rows and requests have the shape of the schema and the code.
Interval == [from : Nat, to : Nat \cup {Never}]
TermsTypeOK ==
  /\ clock \in 0 .. Horizon
  /\ subscription \in [Purchases -> {"none", "ACTIVE", "EXPIRED"}]
  /\ term \in [Purchases -> Interval] /\ rights \in [Purchases -> Interval]
  /\ span \in [Purchases -> Interval]
  /\ buying \in [Purchases ->
       [pc : {"idle", "replacing", "closing", "creating", "entitling", "over"},
        now : Nat, from : Nat, doomed : SUBSET Purchases]]
  /\ expiry \in [pc : {"idle", "marking", "closing"}, now : Nat, ids : SUBSET Purchases]
  /\ mishaps \in 0 .. MaxMishaps
  /\ blind \subseteq Purchases /\ halved \subseteq Purchases

\* One of these ends before the other starts.
Disjoint(d, e) ==
  \/ d.to # Never /\ d.to <= e.from
  \/ e.to # Never /\ e.to <= d.from

\* A purchase adds days to what the student has: no day is covered by two purchases, with
\* stacking or replacing and whatever overlaps with the daily job, unless one of the two
\* computed its days before the other was written.
DaysAddUp ==
  \A p, q \in Purchases \ blind : p # q => Disjoint(span[p], span[q])

\* Whose entitlements are neither to be created nor to be closed nor were left half done.
Settled(p) ==
  /\ buying[p].pc # "entitling" /\ p \notin halved
  /\ \A q \in Purchases : buying[q].pc = "closing" => p \notin buying[q].doomed

\* A student may use what he has: the entitlements of a subscription are for its days, and
\* end where it was replaced; the daily job takes none of them away, and an active
\* subscription has all its days.
RightsFollowTerms ==
  \A p \in Purchases : Settled(p) =>
    /\ rights[p] = span[p]
    /\ subscription[p] = "ACTIVE" => rights[p] = term[p]
=============================================================================
