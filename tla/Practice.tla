-------------------------------- MODULE Practice --------------------------------
(***************************************************************************)
(* A student's practice session, src/modules/practice: questions served    *)
(* and answers recorded, in events and in the counters of questions and    *)
(* topics; and an editor who moves questions to other topics and deletes   *)
(* them, src/modules/question-bank.                                        *)
(*                                                                         *)
(* A batch of answers reads its questions, and their topics, before its    *)
(* transaction.  That writes the events, which refer to the questions and  *)
(* keep them, and takes the rows it counts in one at a time in the order   *)
(* of the items; what it holds the next batch waits for.  The counters are *)
(* incremented by the database.  Times, payloads and the comparison of an  *)
(* answer are left out: an item carries its verdict, or none.  A topic     *)
(* with counters is not deleted.                                           *)
(***************************************************************************)
EXTENDS Integers, Sequences, FiniteSetsExt, Functions

CONSTANTS
  Drills,       \* questions
  Themes,       \* topics
  NoTheme,      \* a question need not have a topic
  NoDrill,      \* what a question deleted has instead
  Items,        \* what a batch may hold
  Requests,     \* requests at a time
  MaxItems,     \* bound: answers in a batch
  MaxRequested, \* bound: requests begun, and answers in one when so many are left
  MaxChanges    \* bound: questions moved or deleted

Verdict == {"right", "wrong", "none"}
Item == [question : Drills, type : {"ANSWERED", "SKIPPED"}, verdict : Verdict]

ASSUME PracticeAssumption ==
  /\ Items \subseteq Item
  /\ Drills \cap Themes = {} /\ NoTheme # NoDrill
  /\ {NoTheme, NoDrill} \cap (Drills \cup Themes) = {}
  /\ IsFiniteSet(Drills) /\ IsFiniteSet(Requests)
  /\ MaxItems \in Nat /\ MaxRequested \in Nat /\ MaxChanges \in Nat

VARIABLES
  session,     \* none, ACTIVE or ENDED
  served,      \* the questions served last
  themeOf,     \* the topic of each question
  seeded,      \* the questions whose first answer is the seed's, which counts nothing
  events,      \* answer events recorded, by question, type and verdict
  counts,      \* counters of questions and topics
  request,     \* where each request is
  requested,   \* requests left
  changes,     \* moves and deletions so far
  shuffled     \* history: the topics a question was moved to, moved out of or deleted in

pvars == <<session, served, themeOf, seeded, events, counts, request, requested, changes, shuffled>>
drillVars == <<themeOf, seeded, changes, shuffled>>

NoCall == [pc |-> "away"]
SeededAnswer(q) == [question |-> q, type |-> "ANSWERED", verdict |-> "right"]

\* A question has a topic or none; the seed may have recorded an answer.
PracticeInit ==
  /\ session = "none"
  /\ served = {}
  /\ themeOf \in [Drills -> Themes \cup {NoTheme}]
  /\ seeded \in {{}} \cup {{q} : q \in Drills}
  /\ events = [i \in Item |-> IF \E q \in seeded : i = SeededAnswer(q) THEN 1 ELSE 0]
  /\ changes = 0 /\ shuffled = {}
  /\ counts = [x \in Drills \cup Themes |-> [right |-> 0, wrong |-> 0]]
  /\ request = [r \in Requests |-> NoCall]
  /\ requested = MaxRequested

BeginRequest(r, call) ==
  /\ request[r] = NoCall
  /\ requested > 0 /\ requested' = requested - 1
  /\ request' = [request EXCEPT ![r] = call]
EndRequest(r) == request' = [request EXCEPT ![r] = NoCall]

-----------------------------------------------------------------------------
(* startPractice, endPractice, getNextQuestions *)

Start ==
  /\ session = "none" /\ session' = "ACTIVE"
  /\ UNCHANGED <<served, drillVars, events, counts, request, requested>>

End ==
  /\ session = "ACTIVE" /\ session' = "ENDED"
  /\ UNCHANGED <<served, drillVars, events, counts, request, requested>>

BeginServe(r) ==
  /\ session = "ACTIVE"
  /\ BeginRequest(r, [pc |-> "serving"])
  /\ UNCHANGED <<session, served, drillVars, events, counts>>

\* Questions never counted come first, then those answered wrong, then the others.
Score(q) == IF counts[q].wrong > 0 THEN 1 ELSE IF counts[q].right > 0 THEN 2 ELSE 0
Existing == {q \in Drills : themeOf[q] # NoDrill}
Chosen(S) ==
  /\ S # {} /\ S \subseteq Existing
  /\ \A q \in S, x \in Existing \ S : Score(q) <= Score(x)

\* The session is not looked at again.
Serve(r, S) ==
  /\ request[r].pc = "serving" /\ Chosen(S)
  /\ served' = S
  /\ EndRequest(r)
  /\ UNCHANGED <<session, drillVars, events, counts, requested>>

-----------------------------------------------------------------------------
(* recordAnswersBatch *)

\* A session that has ended takes answers too.  Items whose question is not found are
\* dropped, so that a batch with such items is the batch without them.
BeginAnswers(r, items) ==
  /\ session # "none" /\ Len(items) <= requested
  /\ \A n \in DOMAIN items : items[n].question \in Existing
  /\ BeginRequest(r, [pc |-> "reading", items |-> items, topics |-> themeOf, held |-> {}])
  /\ UNCHANGED <<session, served, drillVars, events, counts>>

\* Answers with a verdict count.  Faulty variant: whatever has a verdict.
HasVerdict(i) == i.verdict # "none"
Counts(i) == i.type = "ANSWERED" /\ i.verdict # "none"

\* The transaction begins with the events, which refer to their questions.
WriteEvents(r) ==
  /\ request[r].pc = "reading"
  /\ \A n \in DOMAIN request[r].items : request[r].items[n].question \in Existing
  /\ request' = [request EXCEPT ![r].pc = "taking"]
  /\ UNCHANGED <<session, served, drillVars, events, counts, requested>>

\* The rows a batch counts in: its questions, then the topics read with them, in the order
\* of the items.
CountedItems(items) == SelectSeq(items, Counts)
IsTheme(t) == t \in Themes
Rows(items, topics) ==
  LET c == CountedItems(items) IN
  [n \in 1 .. Len(c) |-> c[n].question]
    \o SelectSeq([n \in 1 .. Len(c) |-> topics[c[n].question]], IsTheme)
Held(r) == IF request[r].pc = "taking" THEN request[r].held ELSE {}
RowsOfBatch(r) == Rows(request[r].items, request[r].topics)
RowsLeft(r) == {n \in DOMAIN RowsOfBatch(r) : RowsOfBatch(r)[n] \notin request[r].held}

TakeRow(r) ==
  /\ request[r].pc = "taking" /\ RowsLeft(r) # {}
  /\ LET n == CHOOSE n \in RowsLeft(r) : \A k \in RowsLeft(r) : n <= k
         row == RowsOfBatch(r)[n] IN
     /\ \A o \in Requests \ {r} : row \notin Held(o)
     /\ request' = [request EXCEPT ![r].held = @ \cup {row}]
  /\ UNCHANGED <<session, served, drillVars, events, counts, requested>>

Copies(items, i) == Cardinality({n \in DOMAIN items : items[n] = i})
\* The items that count in a row, that of a question or of a topic, with this verdict.
CountedIn(items, topics, x, verdict) ==
  {n \in DOMAIN items : /\ Counts(items[n]) /\ items[n].verdict = verdict
                        /\ x \in {items[n].question, topics[items[n].question]}}
Increment(items, topics, x, verdict) == Cardinality(CountedIn(items, topics, x, verdict))

CommitAnswers(r) ==
  LET items == request[r].items
      topics == request[r].topics IN
  /\ request[r].pc = "taking" /\ RowsLeft(r) = {}
  /\ events' = [i \in Item |-> events[i] + Copies(items, i)]
  /\ counts' = [x \in DOMAIN counts |->
       [right |-> counts[x].right + Increment(items, topics, x, "right"),
        wrong |-> counts[x].wrong + Increment(items, topics, x, "wrong")]]
  /\ EndRequest(r)
  /\ UNCHANGED <<session, served, drillVars, requested>>

\* A request fails: one of two batches that wait for each other, one whose question has been
\* deleted since it was read, one that finds nothing to serve, as any other.
FailPractice(r) ==
  /\ request[r] # NoCall
  /\ EndRequest(r)
  /\ UNCHANGED <<session, served, drillVars, events, counts, requested>>

-----------------------------------------------------------------------------
(* updateQuestion and deleteQuestion, as far as practice is concerned *)

Change == changes < MaxChanges /\ changes' = changes + 1
\* What was counted in a topic stays there.
Shuffle(topics) == shuffled' = shuffled \cup (topics \cap Themes)

\* A question is given another topic, and never none.
MoveQuestion(q, t) ==
  /\ q \in Existing /\ t # themeOf[q] /\ Change
  /\ themeOf' = [themeOf EXCEPT ![q] = t]
  /\ Shuffle({themeOf[q], t})
  /\ UNCHANGED <<session, served, seeded, events, counts, request, requested>>

\* Its events and counters go with a question that no batch has referred to meanwhile.
DeleteQuestion(q) ==
  /\ q \in Existing /\ Change
  /\ \A r \in Requests : request[r].pc = "taking" =>
       \A n \in DOMAIN request[r].items : request[r].items[n].question # q
  /\ themeOf' = [themeOf EXCEPT ![q] = NoDrill]
  /\ Shuffle({themeOf[q]})
  /\ served' = served \ {q} /\ seeded' = seeded \ {q}
  /\ events' = [i \in Item |-> IF i.question = q THEN 0 ELSE events[i]]
  /\ counts' = [counts EXCEPT ![q] = [right |-> 0, wrong |-> 0]]
  /\ UNCHANGED <<session, request, requested>>

-----------------------------------------------------------------------------

Batches == UNION {[1 .. n -> Items] : n \in 1 .. MaxItems}
PracticeNext ==
  \/ Start \/ End
  \/ \E r \in Requests :
       \/ BeginServe(r) \/ WriteEvents(r) \/ TakeRow(r) \/ CommitAnswers(r) \/ FailPractice(r)
       \/ \E S \in SUBSET Drills : Serve(r, S)
       \/ \E items \in Batches : BeginAnswers(r, items)
  \/ \E q \in Drills : DeleteQuestion(q) \/ \E t \in Themes : MoveQuestion(q, t)

PracticeSpec == PracticeInit /\ [][PracticeNext]_pvars

-----------------------------------------------------------------------------
(* Properties *)

\* Sessions, questions, counters and requests have the shape of the schema and the code,
\* and no row is held by two batches.
PracticeTypeOK ==
  /\ session \in {"none", "ACTIVE", "ENDED"} /\ served \subseteq Existing
  /\ themeOf \in [Drills -> Themes \cup {NoTheme, NoDrill}] /\ seeded \subseteq Existing
  /\ events \in [Item -> 0 .. MaxRequested * MaxItems + 1]
  /\ counts \in [Drills \cup Themes -> [right : 0 .. MaxRequested * MaxItems,
                                        wrong : 0 .. MaxRequested * MaxItems]]
  /\ \A r \in Requests : request[r].pc \in {"away", "serving", "reading", "taking"}
  /\ \A r, o \in Requests : r # o => Held(r) \cap Held(o) = {}
  /\ requested \in 0 .. MaxRequested /\ changes \in 0 .. MaxChanges /\ shuffled \subseteq Themes

Recorded(q, verdict) == events[[question |-> q, type |-> "ANSWERED", verdict |-> verdict]]
\* The answers students gave.
Given(q, verdict) == Recorded(q, verdict) - IF verdict = "right" /\ q \in seeded THEN 1 ELSE 0

Together(S, verdict) == SumFunctionOnSet([q \in S |-> Given(q, verdict)], S)

\* The counters say what the events say, but for the seed's, whatever batches met, waited for
\* each other and were rolled back: a question's counters are the answers to it with a
\* verdict; a topic's are those of its questions together, unless a question was moved to it
\* or out of it or deleted in it, since what a topic has counted stays when a question goes
\* and does not come with it.
CountersTellAnswers ==
  /\ \A q \in Drills :
       counts[q] = [right |-> Given(q, "right"), wrong |-> Given(q, "wrong")]
  /\ \A t \in Themes \ shuffled :
       LET under == {q \in Drills : themeOf[q] = t} IN
       counts[t] = [right |-> Together(under, "right"), wrong |-> Together(under, "wrong")]
=============================================================================
