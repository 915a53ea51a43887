----------------------------- MODULE ContentTree -----------------------------
(***************************************************************************)
(* The topics of the subjects and the questions placed under them:         *)
(* src/modules/content, topics.service and subjects.service, and           *)
(* src/modules/question-bank, what createQuestion and updateQuestion do    *)
(* with a question's subject and topic.                                    *)
(*                                                                         *)
(* A request reads and then writes, one await at a time; deletions count   *)
(* in one transaction and delete in a statement of their own.  Names,      *)
(* order and content are left out.                                         *)
(***************************************************************************)
EXTENDS Naturals, FiniteSets

CONSTANTS
  Subjects,    \* subjects
  Topics,      \* topics
  Questions,   \* questions
  None,        \* no subject, topic or question
  Editors,     \* requests at a time
  MaxCalls     \* bound: requests begun

ASSUME ContentTreeAssumption ==
  /\ None \notin Subjects \cup Topics \cup Questions
  /\ IsFiniteSet(Topics) /\ MaxCalls \in Nat

VARIABLES
  subjects,   \* subjects there are
  topic,      \* each topic: whether it is there, its subject and its parent
  question,   \* each question likewise, with its topic
  editor,     \* where each request is
  calls,      \* calls left
  crossed,    \* history: topics given a parent while another was being given one
  unplaced,   \* history: questions placed by an update that does not compare
  late,       \* history: rows linked to a subject or topic after its deletion counted
  bereft      \* history: rows that lost their subject, parent or topic to a deletion

cvars == <<subjects, topic, question, editor, calls, crossed, unplaced, late, bereft>>

NoTopic == [there |-> "never", subject |-> None, parent |-> None]
NoQuestion == [there |-> "never", subject |-> None, topic |-> None]
GoneTopic == [NoTopic EXCEPT !.there = "gone"]
GoneQuestion == [NoQuestion EXCEPT !.there = "gone"]
NoEditor == [pc |-> "away", it |-> None, subject |-> None, topic |-> None, cursor |-> None,
             steps |-> 0, checked |-> TRUE]

LiveTopics == {t \in Topics : topic[t].there = "yes"}
LiveQuestions == {q \in Questions : question[q].there = "yes"}

\* A parent lies in the same subject.  Faulty variant: in any.
AnyParent(t, s) == t \in LiveTopics
IsParent(t, s) == t \in LiveTopics /\ topic[t].subject = s

\* Topics of one subject without a parent, at least one to be made, and no question.
ContentTreeInit ==
  /\ subjects = Subjects
  /\ \E s \in Subjects, made \in SUBSET Topics \ {Topics} :
       topic = [t \in Topics |->
                 IF t \in made THEN [there |-> "yes", subject |-> s, parent |-> None]
                 ELSE NoTopic]
  /\ question = [q \in Questions |-> NoQuestion]
  /\ editor = [e \in Editors |-> NoEditor]
  /\ calls = MaxCalls
  /\ crossed = {} /\ unplaced = {} /\ late = {} /\ bereft = {}

-----------------------------------------------------------------------------
(* The parts of a request *)

Call(e, request) ==
  /\ editor[e] = NoEditor
  /\ calls > 0 /\ calls' = calls - 1
  /\ editor' = [editor EXCEPT ![e] = request]
GoOnAs(e, request) == editor' = [editor EXCEPT ![e] = request]
EndCall(e) == GoOnAs(e, NoEditor)

\* The id a creation is to give.
BeingMade(x) == \E e \in Editors : editor[e].it = x

\* Deletions that have counted and not yet deleted what the row is linked to.
Deleting(x) == \E e \in Editors : editor[e].pc \in {"deletingTopic", "deletingSubject"}
                                  /\ editor[e].it = x /\ x # None
Doomed(x) == Deleting(x) \/ (x \in LiveTopics /\ Deleting(topic[x].subject))
LateIf(row, links) == late' = IF \E x \in links : Doomed(x) THEN late \cup {row} ELSE late

-----------------------------------------------------------------------------
(* createTopic and updateTopic *)

BeginCreateTopic(e, t, s, p) ==
  /\ topic[t] = NoTopic /\ ~BeingMade(t) /\ s \in subjects
  /\ p # None => IsParent(p, s)
  /\ Call(e, [NoEditor EXCEPT !.pc = "creatingTopic", !.it = t, !.subject = s, !.topic = p])
  /\ UNCHANGED <<subjects, topic, question, crossed, unplaced, late, bereft>>

\* A subject or parent deleted meanwhile fails the insert.
CreateTopic(e) ==
  LET c == editor[e] IN
  /\ c.pc = "creatingTopic"
  /\ IF c.subject \in subjects /\ c.topic \in LiveTopics \cup {None}
       THEN /\ topic' = [topic EXCEPT ![c.it] =
                 [there |-> "yes", subject |-> c.subject, parent |-> c.topic]]
            /\ LateIf(c.it, {c.subject, c.topic})
       ELSE UNCHANGED <<topic, late>>
  /\ EndCall(e)
  /\ UNCHANGED <<subjects, question, calls, crossed, unplaced, bereft>>

BeginMoveTopic(e, t, p) ==
  /\ t \in LiveTopics /\ p # t /\ IsParent(p, topic[t].subject)
  /\ Call(e, [NoEditor EXCEPT !.pc = "walking", !.it = t, !.topic = p, !.cursor = p])
  /\ UNCHANGED <<subjects, topic, question, crossed, unplaced, late, bereft>>

\* assertNoCycle, one read of a parent at a time, a thousand at most: as many as there
\* are topics here.  Faulty variant: the parent's own parent is not looked at.
ParentOf(t) == IF t \in LiveTopics THEN topic[t].parent ELSE None
NeverLooks(t) == None
ReadParent(t) == ParentOf(t)
WalkUp(e) ==
  LET c == editor[e]
      above == ReadParent(c.cursor) IN
  /\ c.pc = "walking"
  /\ IF above = c.it \/ c.steps > Cardinality(Topics)
       THEN EndCall(e)
       ELSE GoOnAs(e, [c EXCEPT !.pc = IF above = None THEN "moving" ELSE "walking",
                                !.cursor = above, !.steps = @ + 1])
  /\ UNCHANGED <<subjects, topic, question, calls, crossed, unplaced, late, bereft>>

Movers == {e \in Editors : editor[e].pc \in {"walking", "moving"}}
MoveTopic(e) ==
  LET c == editor[e]
      others == {editor[d].it : d \in Movers \ {e}} IN
  /\ c.pc = "moving"
  /\ IF {c.it, c.topic} \subseteq LiveTopics
       THEN /\ topic' = [topic EXCEPT ![c.it].parent = c.topic]
            /\ crossed' = IF others = {} THEN crossed ELSE crossed \cup others \cup {c.it}
            /\ LateIf(c.it, {c.topic})
       ELSE UNCHANGED <<topic, crossed, late>>
  /\ EndCall(e)
  /\ UNCHANGED <<subjects, question, calls, unplaced, bereft>>

-----------------------------------------------------------------------------
(* deleteTopic and deleteSubject *)

ChildrenOf(t) == {x \in LiveTopics : topic[x].parent = t}
QuestionsUnder(t) == {q \in LiveQuestions : question[q].topic = t}
TopicsOf(s) == {x \in LiveTopics : topic[x].subject = s}
QuestionsOf(s) == {q \in LiveQuestions : question[q].subject = s}

BeginDeleteTopic(e, t) ==
  /\ t \in LiveTopics
  /\ ChildrenOf(t) = {} /\ QuestionsUnder(t) = {}
  /\ Call(e, [NoEditor EXCEPT !.pc = "deletingTopic", !.it = t])
  /\ UNCHANGED <<subjects, topic, question, crossed, unplaced, late, bereft>>

\* What is linked by now loses its link.
DeleteTopic(e) ==
  LET t == editor[e].it IN
  /\ editor[e].pc = "deletingTopic"
  /\ IF t \in LiveTopics
       THEN /\ topic' = [x \in Topics |->
                 IF x = t THEN GoneTopic
                 ELSE IF x \in ChildrenOf(t) THEN [topic[x] EXCEPT !.parent = None] ELSE topic[x]]
            /\ question' = [q \in Questions |->
                 IF q \in QuestionsUnder(t) THEN [question[q] EXCEPT !.topic = None]
                 ELSE question[q]]
            /\ bereft' = bereft \cup ChildrenOf(t) \cup QuestionsUnder(t)
       ELSE UNCHANGED <<topic, question, bereft>>
  /\ EndCall(e)
  /\ UNCHANGED <<subjects, calls, crossed, unplaced, late>>

\* Faulty variant: the questions are not counted.
SubjectHasNoTopics(s) == TopicsOf(s) = {}
SubjectUnused(s) == TopicsOf(s) = {} /\ QuestionsOf(s) = {}
BeginDeleteSubject(e, s) ==
  /\ s \in subjects /\ SubjectUnused(s)
  /\ Call(e, [NoEditor EXCEPT !.pc = "deletingSubject", !.it = s])
  /\ UNCHANGED <<subjects, topic, question, crossed, unplaced, late, bereft>>

\* What is linked by now goes too.
DeleteSubject(e) ==
  LET s == editor[e].it IN
  /\ editor[e].pc = "deletingSubject"
  /\ subjects' = subjects \ {s}
  /\ topic' = [t \in Topics |-> IF t \in TopicsOf(s) THEN GoneTopic ELSE topic[t]]
  /\ question' = [q \in Questions |->
       IF q \in QuestionsOf(s) THEN GoneQuestion
       ELSE IF question[q].topic \in TopicsOf(s) THEN [question[q] EXCEPT !.topic = None]
       ELSE question[q]]
  /\ bereft' = bereft \cup TopicsOf(s) \cup QuestionsOf(s)
                 \cup UNION {QuestionsUnder(t) : t \in TopicsOf(s)}
  /\ EndCall(e)
  /\ UNCHANGED <<calls, crossed, unplaced, late>>

-----------------------------------------------------------------------------
(* createQuestion and updateQuestion *)

BeginCreateQuestion(e, q, s, t) ==
  /\ question[q] = NoQuestion /\ ~BeingMade(q) /\ s \in subjects
  /\ t # None => IsParent(t, s)
  /\ Call(e, [NoEditor EXCEPT !.pc = "creatingQuestion", !.it = q, !.subject = s, !.topic = t])
  /\ UNCHANGED <<subjects, topic, question, crossed, unplaced, late, bereft>>

CreateQuestion(e) ==
  LET c == editor[e] IN
  /\ c.pc = "creatingQuestion"
  /\ IF c.subject \in subjects /\ c.topic \in LiveTopics \cup {None}
       THEN /\ question' = [question EXCEPT ![c.it] =
                 [there |-> "yes", subject |-> c.subject, topic |-> c.topic]]
            /\ LateIf(c.it, {c.subject, c.topic})
       ELSE UNCHANGED <<question, late>>
  /\ EndCall(e)
  /\ UNCHANGED <<subjects, topic, calls, crossed, unplaced, bereft>>

\* None is what the update leaves out.  A topic is compared with the subject only when
\* no subject is given and the question has a topic already.  Faulty variant: never.
NeverCompares(q, s, t) == FALSE
Compares(q, s, t) == t # None /\ s = None /\ question[q].topic # None
BeginPlaceQuestion(e, q, s, t) ==
  /\ q \in LiveQuestions /\ {s, t} # {None}
  /\ s \in subjects \cup {None}
  /\ Compares(q, s, t) => IsParent(t, question[q].subject)
  /\ Call(e, [NoEditor EXCEPT !.pc = "placingQuestion", !.it = q, !.subject = s, !.topic = t,
                              !.checked = t # None /\ s = None /\ question[q].topic # None])
  /\ UNCHANGED <<subjects, topic, question, crossed, unplaced, late, bereft>>

Placers(q) == {e \in Editors : editor[e].pc = "placingQuestion" /\ editor[e].it = q}
PlaceQuestion(e) ==
  LET c == editor[e]
      q == c.it IN
  /\ c.pc = "placingQuestion"
  /\ IF /\ q \in LiveQuestions
        /\ c.subject \in subjects \cup {None} /\ c.topic \in LiveTopics \cup {None}
       THEN /\ question' = [question EXCEPT
                 ![q].subject = IF c.subject = None THEN @ ELSE c.subject,
                 ![q].topic = IF c.topic = None THEN @ ELSE c.topic]
            /\ unplaced' = IF c.checked /\ Placers(q) = {e} THEN unplaced ELSE unplaced \cup {q}
            /\ LateIf(q, {c.subject, c.topic})
       ELSE UNCHANGED <<question, unplaced, late>>
  /\ EndCall(e)
  /\ UNCHANGED <<subjects, topic, calls, crossed, bereft>>

-----------------------------------------------------------------------------

EditorStep(e) ==
  \/ CreateTopic(e) \/ WalkUp(e) \/ MoveTopic(e) \/ DeleteTopic(e) \/ DeleteSubject(e)
  \/ CreateQuestion(e) \/ PlaceQuestion(e)

ContentTreeNext ==
  \E e \in Editors :
    \/ EditorStep(e)
    \/ \E t \in Topics :
         \/ BeginDeleteTopic(e, t)
         \/ \E p \in Topics : BeginMoveTopic(e, t, p)
         \/ \E s \in Subjects, p \in Topics \cup {None} : BeginCreateTopic(e, t, s, p)
    \/ \E s \in Subjects : BeginDeleteSubject(e, s)
    \/ \E q \in Questions, t \in Topics \cup {None} :
         \/ \E s \in Subjects : BeginCreateQuestion(e, q, s, t)
         \/ \E s \in Subjects \cup {None} : BeginPlaceQuestion(e, q, s, t)

ContentTreeSpec == ContentTreeInit /\ [][ContentTreeNext]_cvars

-----------------------------------------------------------------------------
(* Properties *)

\* Rows and requests have the shape of the schema and the code; a row refers only to
\* rows that are there, and a topic to a parent of its own subject.
ContentTreeTypeOK ==
  /\ subjects \subseteq Subjects /\ calls \in 0 .. MaxCalls
  /\ \A t \in Topics :
       \/ topic[t] \in {NoTopic, GoneTopic}
       \/ /\ topic[t].there = "yes" /\ topic[t].subject \in subjects
          /\ topic[t].parent # None =>
               /\ topic[t].parent \in LiveTopics
               /\ topic[topic[t].parent].subject = topic[t].subject
  /\ \A q \in Questions :
       \/ question[q] \in {NoQuestion, GoneQuestion}
       \/ /\ question[q].there = "yes" /\ question[q].subject \in subjects
          /\ question[q].topic \in LiveTopics \cup {None}
  /\ \A e \in Editors :
       editor[e].pc \in {"away", "creatingTopic", "walking", "moving", "deletingTopic",
                         "deletingSubject", "creatingQuestion", "placingQuestion"}
  /\ crossed \subseteq Topics /\ unplaced \subseteq Questions
  /\ late \cup bereft \subseteq Topics \cup Questions

\* No topic is above itself, however many topics are moved, unless one of the cycle was
\* moved while another was being moved: each walk saw the tree before the other's write.
\* (Among the topics of any set, one has its parent outside it.)
TopicsAcyclic ==
  \A C \in SUBSET (Topics \ crossed) : C # {} => \E t \in C : ParentOf(t) \notin C

\* A question's topic belongs to its subject, unless an update placed it that the code
\* does not compare, or two updates of it overlapped.
QuestionTopicInSubject ==
  \A q \in LiveQuestions \ unplaced :
    question[q].topic # None => topic[question[q].topic].subject = question[q].subject

\* A deletion takes nothing away that was linked when it counted.
NothingUsedIsTaken == bereft \subseteq late
=============================================================================
