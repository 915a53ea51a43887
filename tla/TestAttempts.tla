---------------------------- MODULE TestAttempts ----------------------------
(***************************************************************************)
(* Attempts at one test: src/modules/test-engine/test-engine.service, from *)
(* the test's sections over the questions drawn for an attempt to its      *)
(* score, with an administrator who edits, unpublishes or deletes the test *)
(* meanwhile.                                                              *)
(*                                                                         *)
(* Marks are counted in quarters, the smallest penalty of the presets.     *)
(* Tests have sections; the mixer is a single section without ids.  A      *)
(* section's filter is the pool of published questions it matches, its     *)
(* mark and penalty are the ones in force (the section's, the test's or    *)
(* the preset's).  Attempts of blank requests (no answers sent, none       *)
(* stored) are left out: the database client refuses a null.               *)
(***************************************************************************)
EXTENDS Integers, Sequences, FiniteSets, Functions

CONSTANTS
  Attempts,    \* the student's attempts
  Requests,    \* concurrent requests of the student
  NoAttempt,   \* the attempt of an idle request
  Questions,   \* published questions
  Configs,     \* configurations the administrator may give the test
  Sheets,      \* answer sheets a student may send
  NoSheet,     \* a request without answers
  MaxEdits     \* bound: updates of the test

ASSUME AttemptsAssumption ==
  /\ NoAttempt \notin Attempts /\ NoSheet \notin Sheets
  /\ Sheets \subseteq [Questions -> {"right", "wrong", "blank"}]
  /\ IsFiniteSet(Questions)
  /\ MaxEdits \in Nat

\* The Int column of a score takes whole marks.
Quarters == 4
DefaultMark == Quarters
DefaultPenalty == 0

VARIABLES
  test,        \* "published", "unpublished" or "deleted"
  config,      \* test.configJson: the sections
  fixed,       \* testQuestion rows by orderIndex
  status,      \* attempt.status; "none" before, "gone" after the row exists
  paper,       \* attemptQuestion rows by orderIndex
  answers,     \* attempt.answersJson
  score,       \* attempt.scoreJson and totalScore
  job,         \* requests under way, with what they read
  deleting,    \* deleteTest has counted no attempt
  edits,       \* updates so far
  edited,      \* history: attempts whose test was updated after they began
  late,        \* history: attempts created while deleting
  refused      \* history: attempts whose submission the database refused

testRow == <<test, config, fixed, edits, edited>>
attemptRow == <<status, paper, answers, score>>
vars == <<testRow, attemptRow, job, deleting, late, refused>>

Open == {"STARTED", "IN_PROGRESS"}
Statuses == Open \cup {"none", "EVALUATED", "gone"}

-----------------------------------------------------------------------------
(* Sections, papers and scores *)

\* resolveFixedItems: the ids of all sections in order, with their marks.
FixedItems(c) ==
  LET items[i \in 0 .. Len(c)] ==
        IF i = 0 THEN <<>>
        ELSE items[i - 1] \o
               [j \in DOMAIN c[i].ids |-> [q |-> c[i].ids[j], mark |-> c[i].mark]]
  IN items[Len(c)]

\* syncTestQuestions accepts existing questions named once, and whole marks.
Acceptable(c) ==
  LET items == FixedItems(c) IN
  /\ IsInjective([i \in DOMAIN items |-> items[i].q])
  /\ \A i \in DOMAIN items : items[i].mark % Quarters = 0

\* Every sequence of distinct questions.
Papers ==
  UNION {{p \in [1 .. n -> Questions] : IsInjective(p)} :
         n \in 0 .. Cardinality(Questions)}

\* selectSectionQuestions: p is drawn section by section, skipping what an
\* earlier section took; taken[i] is how many questions the first i gave.
Drawn(c, p) ==
  LET before(n) == {p[j] : j \in (1 .. n) \cap DOMAIN p}
      new(i, n) == SelectSeq(c[i].ids, LAMBDA q : q \notin before(n))
      taken[i \in 0 .. Len(c)] ==
        IF i = 0 THEN 0
        ELSE LET n == taken[i - 1] IN
             n + IF c[i].ids # <<>> THEN Len(new(i, n)) ELSE c[i].count
  IN /\ Len(p) = taken[Len(c)]
     /\ \A i \in DOMAIN c :
          LET part == SubSeq(p, taken[i - 1] + 1, taken[i]) IN
          IF c[i].ids # <<>> THEN part = new(i, taken[i - 1])
          ELSE Range(part) \subseteq c[i].pool \ before(taken[i - 1])

\* selectQuestions: the fixed rows if there are any, else the sections.
Selection(rows, c, p) ==
  IF rows # <<>> THEN p = [i \in DOMAIN rows |-> rows[i].q] ELSE Drawn(c, p)

\* buildSectionRuleByOrder: the section that position k falls into, counting
\* from zero, or 0 for none.  Faulty variant: sections as long as their ids.
CursorByIds(c, i) == SumFunctionOnSet([j \in DOMAIN c |-> Len(c[j].ids)], 1 .. i)
Cursor(c, i) == SumFunctionOnSet([j \in DOMAIN c |-> c[j].count], 1 .. i)
RuleAt(c, k) ==
  LET here == {i \in DOMAIN c : Cursor(c, i - 1) <= k /\ k < Cursor(c, i)}
  IN IF here = {} THEN 0 ELSE CHOOSE i \in here : TRUE

\* scoreDelta of the k-th question of p: the row's mark before the section's.
Delta(c, rows, p, sheet, k) ==
  LET rule == RuleAt(c, k - 1)
      row  == {i \in DOMAIN rows : rows[i].q = p[k]}
      mark == IF row # {} THEN rows[CHOOSE i \in row : TRUE].mark
              ELSE IF rule # 0 THEN c[rule].mark ELSE DefaultMark
      penalty == IF rule # 0 THEN c[rule].penalty ELSE DefaultPenalty
  IN CASE sheet[p[k]] = "right" -> mark
       [] sheet[p[k]] = "wrong" -> 0 - penalty
       [] OTHER -> 0

Answered(p, sheet, how) == {q \in Range(p) : sheet[q] = how}

\* evaluateAttemptQuestions.
Evaluate(c, rows, p, sheet) ==
  [right |-> Answered(p, sheet, "right"),
   wrong |-> Answered(p, sheet, "wrong"),
   total |-> SumFunctionOnSet([k \in DOMAIN p |-> Delta(c, rows, p, sheet, k)],
                              DOMAIN p)]

NoScore == [right |-> {}, wrong |-> {}, total |-> 0]

-----------------------------------------------------------------------------
(* A request under way: what it read, and what it was sent. *)

Request(step, a, read, c, rows, p, sheet) ==
  [pc |-> step, attempt |-> a, read |-> read, config |-> c, fixed |-> rows,
   paper |-> p, sheet |-> sheet]
Idle == Request("idle", NoAttempt, "none", <<>>, <<>>, <<>>, NoSheet)
Steps == {"idle", "selecting", "creating", "saving", "marking", "submitting"}
RequestType ==
  [pc : Steps, attempt : Attempts \cup {NoAttempt}, read : Statuses,
   config : Configs \cup {<<>>},
   fixed : {FixedItems(c) : c \in Configs} \cup {<<>>},
   paper : Papers, sheet : Sheets \cup {NoSheet}]

Init ==
  /\ test = "published"
  /\ config \in {c \in Configs : Acceptable(c)}
  /\ fixed = FixedItems(config)
  /\ status = [a \in Attempts |-> "none"]
  /\ paper = [a \in Attempts |-> <<>>]
  /\ answers = [a \in Attempts |-> NoSheet]
  /\ score = [a \in Attempts |-> NoScore]
  /\ job = [r \in Requests |-> Idle]
  /\ deleting = FALSE
  /\ edits = 0 /\ edited = {} /\ late = {} /\ refused = {}

-----------------------------------------------------------------------------
(* The administrator *)

Begun(a) == status[a] # "none" \/ \E r \in Requests : job[r].attempt = a

\* The testQuestion rows an update leaves: syncTestQuestions replaces them all.
\* Faulty variant: rows of a test that has some stay.
RowsKept(c) == IF fixed = <<>> THEN FixedItems(c) ELSE fixed
Rows(c) == FixedItems(c)

UpdateTest(c) ==
  /\ test # "deleted" /\ edits < MaxEdits
  /\ Acceptable(c)
  /\ config' = c /\ fixed' = Rows(c)
  /\ edits' = edits + 1
  /\ edited' = {a \in Attempts : Begun(a)} \cup edited
  /\ UNCHANGED <<test, attemptRow, job, deleting, late, refused>>

\* publishTest and unpublishTest.
Publish ==
  /\ test # "deleted"
  /\ test' \in {"published", "unpublished"}
  /\ UNCHANGED <<config, fixed, edits, edited, attemptRow, job, deleting, late,
                 refused>>

\* deleteTest, up to its count of attempts.  Faulty variant: attempts under way
\* are not counted.
CountEvaluated == \A a \in Attempts : status[a] # "EVALUATED"
CountsNone == \A a \in Attempts : status[a] \in {"none", "gone"}
CountAttempts ==
  /\ test # "deleted" /\ ~deleting
  /\ CountsNone
  /\ deleting' = TRUE
  /\ UNCHANGED <<testRow, attemptRow, job, late, refused>>

\* The delete, which takes the attempts there are by now with it.
DeleteTest ==
  /\ deleting /\ test # "deleted"
  /\ test' = "deleted" /\ deleting' = FALSE
  /\ status' = [a \in Attempts |-> IF status[a] = "none" THEN "none" ELSE "gone"]
  /\ UNCHANGED <<config, fixed, edits, edited, paper, answers, score, job, late,
                 refused>>

-----------------------------------------------------------------------------
(* The student *)

Keep == UNCHANGED <<testRow, deleting>>

\* startAttempt: getTestPublic.
BeginStart(r, a) ==
  /\ job[r] = Idle /\ ~Begun(a)
  /\ test = "published"
  /\ job' = [job EXCEPT ![r] =
       Request("selecting", a, "none", config, <<>>, <<>>, NoSheet)]
  /\ UNCHANGED <<attemptRow, late, refused>> /\ Keep

\* Its look at the fixed rows, and the draw.
SelectQuestions(r, p) ==
  /\ job[r].pc = "selecting"
  /\ Selection(fixed, job[r].config, p)
  /\ job' = [job EXCEPT ![r].pc = "creating", ![r].paper = p]
  /\ UNCHANGED <<attemptRow, late, refused>> /\ Keep

\* Its transaction, which a deleted test makes fail.
CreateAttempt(r) ==
  LET a == job[r].attempt IN
  /\ job[r].pc = "creating"
  /\ job' = [job EXCEPT ![r] = Idle]
  /\ IF test = "deleted" THEN UNCHANGED <<attemptRow, late>>
     ELSE /\ status' = [status EXCEPT ![a] = "STARTED"]
          /\ paper' = [paper EXCEPT ![a] = job[r].paper]
          /\ late' = IF deleting THEN late \cup {a} ELSE late
          /\ UNCHANGED <<answers, score>>
  /\ UNCHANGED refused /\ Keep

\* The check save and submit begin with.  Faulty variant: any attempt there is.
AnyAttempt(a) == status[a] \in Open \cup {"EVALUATED"}
Unlocked(a) == status[a] \in Open

\* dto.answersJson ?? attempt.answersJson, as the request finds it.
Sent(a, s) == IF s # NoSheet THEN s ELSE answers[a]

BeginSave(r, a, s) ==
  /\ job[r] = Idle /\ Unlocked(a)
  /\ Sent(a, s) # NoSheet
  /\ job' = [job EXCEPT ![r] =
       Request("saving", a, status[a], <<>>, <<>>, <<>>, Sent(a, s))]
  /\ UNCHANGED <<attemptRow, late, refused>> /\ Keep

WriteSave(r) ==
  LET a == job[r].attempt IN
  /\ job[r].pc = "saving"
  /\ job' = [job EXCEPT ![r] = Idle]
  /\ IF status[a] = "gone" THEN UNCHANGED attemptRow
     ELSE /\ status' = [status EXCEPT ![a] = "IN_PROGRESS"]
          /\ answers' = [answers EXCEPT ![a] = job[r].sheet]
          /\ UNCHANGED <<paper, score>>
  /\ UNCHANGED <<late, refused>> /\ Keep

BeginSubmit(r, a, s) ==
  /\ job[r] = Idle /\ Unlocked(a)
  /\ Sent(a, s) # NoSheet
  /\ job' = [job EXCEPT ![r] =
       Request("marking", a, status[a], config, <<>>, paper[a], Sent(a, s))]
  /\ UNCHANGED <<attemptRow, late, refused>> /\ Keep

\* getMarksMap.
ReadMarks(r) ==
  /\ job[r].pc = "marking"
  /\ job' = [job EXCEPT ![r].pc = "submitting", ![r].fixed = fixed]
  /\ UNCHANGED <<attemptRow, late, refused>> /\ Keep

\* The answers stored with a score.  Faulty variant: what was saved wins.
StoredOnSave(r) ==
  IF answers[job[r].attempt] = NoSheet THEN job[r].sheet ELSE answers[job[r].attempt]
StoredWithScore(r) == job[r].sheet

WriteSubmit(r) ==
  LET a == job[r].attempt
      result == Evaluate(job[r].config, job[r].fixed, job[r].paper, job[r].sheet)
      fits == result.total % Quarters = 0
  IN
  /\ job[r].pc = "submitting"
  /\ job' = [job EXCEPT ![r] = Idle]
  /\ IF status[a] = "gone" \/ ~fits THEN UNCHANGED attemptRow
     ELSE /\ status' = [status EXCEPT ![a] = "EVALUATED"]
          /\ answers' = [answers EXCEPT ![a] = StoredWithScore(r)]
          /\ score' = [score EXCEPT ![a] = result]
          /\ UNCHANGED paper
  /\ refused' = IF fits THEN refused ELSE refused \cup {a}
  /\ UNCHANGED late /\ Keep

Student(r) ==
  \/ \E a \in Attempts :
       \/ BeginStart(r, a)
       \/ \E s \in Sheets \cup {NoSheet} : BeginSave(r, a, s) \/ BeginSubmit(r, a, s)
  \/ \E p \in Papers : SelectQuestions(r, p)
  \/ CreateAttempt(r) \/ WriteSave(r) \/ ReadMarks(r) \/ WriteSubmit(r)

Administrator ==
  (\E c \in Configs : UpdateTest(c)) \/ Publish \/ CountAttempts \/ DeleteTest

Next == Administrator \/ \E r \in Requests : Student(r)

Spec == Init /\ [][Next]_vars

-----------------------------------------------------------------------------
(* Properties *)

\* Rows and requests have the shape of the schema and of the code; papers never
\* repeat a question.
TypeOK ==
  /\ test \in {"published", "unpublished", "deleted"}
  /\ config \in Configs /\ fixed = FixedItems(config)
  /\ status \in [Attempts -> Statuses]
  /\ paper \in [Attempts -> Papers]
  /\ answers \in [Attempts -> Sheets \cup {NoSheet}]
  /\ score = [a \in Attempts |-> score[a]]
  /\ job \in [Requests -> RequestType]
  /\ edited \subseteq Attempts /\ late \subseteq Attempts
  /\ refused \subseteq Attempts

\* The questions a score counts as right and wrong are those of the answers
\* stored beside it, whatever saves and submissions of the attempt overlap.
ScoreOfStoredAnswers ==
  \A a \in Attempts : status[a] = "EVALUATED" =>
    /\ score[a].right = Answered(paper[a], answers[a], "right")
    /\ score[a].wrong = Answered(paper[a], answers[a], "wrong")

\* The questions section i of c gave to paper p, for sections that share none.
Given(c, p, i) ==
  Range(p) \cap (IF c[i].ids # <<>> THEN Range(c[i].ids) ELSE c[i].pool)

\* Tests whose sections can be told apart: each names its questions and counts
\* them, or each draws from questions that no other section draws from.
SectionType ==
  [ids : Seq(Questions), pool : SUBSET Questions, count : Nat, mark : Int,
   penalty : Int]
Fixes(c) ==
  \A i \in DOMAIN c : c[i].ids # <<>> /\ c[i].count = Len(c[i].ids)
Draws(c) ==
  \A i \in DOMAIN c :
    /\ c[i].ids = <<>>
    /\ \A j \in DOMAIN c : j # i => c[i].pool \cap c[j].pool = {}
ToldApart(c) == c \in Seq(SectionType) /\ (Fixes(c) \/ Draws(c))

\* While nobody edits the test, every question of an evaluated attempt counts
\* with the mark and the penalty of the section that gave it.
ScoredBySection ==
  \A a \in Attempts : status[a] = "EVALUATED" /\ a \notin edited =>
    score[a].total =
      SumFunctionOnSet(
        [i \in DOMAIN config |->
           config[i].mark * Cardinality(Given(config, paper[a], i) \cap score[a].right)
             - config[i].penalty
                 * Cardinality(Given(config, paper[a], i) \cap score[a].wrong)],
        DOMAIN config)

\* An evaluated attempt is locked: only a save or a submission that had found it
\* open before reopens or rescores it, or the deletion of its test removes it.
LockedUnlessOverlapped ==
  [][\A a \in Attempts :
       status[a] = "EVALUATED"
         /\ <<status'[a], answers'[a], score'[a]>> # <<status[a], answers[a], score[a]>>
       => \/ status'[a] = "gone"
          \/ \E r \in Requests :
               /\ job[r].attempt = a /\ job[r].read \in Open
               /\ job'[r] = Idle]_vars

\* A deleted test takes no attempt with it except one that was started between
\* its count of attempts and the delete.
DeletedOnlyIfLate ==
  \A a \in Attempts : status[a] = "gone" => a \in late

\* What a student submits is evaluated and its score stored.
EverySubmissionScored == refused = {}
=============================================================================
