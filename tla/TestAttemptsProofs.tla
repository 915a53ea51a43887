------------------------- MODULE TestAttemptsProofs -------------------------
(***************************************************************************)
(* Proofs about TestAttempts, for any number of attempts, overlapping      *)
(* requests, questions and updates.  A score is of the answers stored      *)
(* beside it because both are written by one statement, and because the    *)
(* paper a submission read is still the attempt's when it writes: only the *)
(* request that starts an attempt writes its paper, and nobody can submit  *)
(* before that.  Until the test is updated, the test a request read and    *)
(* the rows it read later are of one configuration, and a position counts  *)
(* by the section that put a question there.                               *)
(***************************************************************************)
EXTENDS TestAttempts, FiniteSetTheorems, SequenceTheorems,
        WellFoundedInduction, TLAPS

\* The request that starts attempt a.
Starting(r, a) == job[r].attempt = a /\ job[r].pc \in {"selecting", "creating"}

\* What a request under way may rely on.
Writing == {"saving", "marking", "submitting"}
Phase(r) ==
  /\ job[r].pc # "idle" => job[r].attempt \in Attempts
  /\ job[r].pc \in Writing =>
       /\ job[r].read \in Open /\ job[r].sheet \in Sheets
       /\ status[job[r].attempt] # "none"
  /\ job[r].pc \in {"marking", "submitting"} =>
       job[r].paper = paper[job[r].attempt]

\* One request starts an attempt, and only while there is no row.
OneStarter ==
  \A a \in Attempts, r \in Requests : Starting(r, a) =>
    /\ status[a] = "none"
    /\ \A q \in Requests : job[q].attempt = a => q = r

\* From the count of attempts on, attempts are late.
Deletion ==
  /\ \A a \in Attempts : status[a] = "gone" => test = "deleted"
  /\ deleting /\ test # "deleted" =>
       \A a \in Attempts : status[a] # "none" => a \in late

IInv ==
  /\ TypeOK
  /\ \A r \in Requests : Phase(r)
  /\ OneStarter
  /\ Deletion
  /\ ScoreOfStoredAnswers
  /\ DeletedOnlyIfLate

-----------------------------------------------------------------------------

\* The empty paper is a paper.
LEMMA EmptyPaper == <<>> \in Papers
<1>1. 0 \in 0 .. Cardinality(Questions)
  BY AttemptsAssumption, FS_CardinalityType
<1>2. <<>> \in [1 .. 0 -> Questions]
  OBVIOUS
<1>3. IsInjective(<<>>)
  BY DEF IsInjective
<1> QED
  BY <1>1, <1>2, <1>3 DEF Papers

LEMMA IdleType == Idle \in RequestType /\ Idle.pc = "idle" /\ Idle.attempt = NoAttempt
BY EmptyPaper DEF Idle, Request, RequestType, Steps, Statuses, Open

LEMMA InitIInv == Init => IInv
<1> SUFFICES ASSUME Init PROVE IInv
  OBVIOUS
<1>1. TypeOK
  BY EmptyPaper, IdleType DEF Init, TypeOK, Statuses
<1> QED
  BY <1>1, IdleType, AttemptsAssumption
  DEF Init, IInv, Phase, Writing, OneStarter, Starting, Deletion,
      ScoreOfStoredAnswers, DeletedOnlyIfLate

\* An administrator changes the test, or takes it and its attempts away.
LEMMA AdministratorStep ==
  ASSUME IInv, Administrator
  PROVE  IInv'
<1> USE DEF IInv
<1>1. ASSUME NEW c \in Configs, UpdateTest(c) PROVE IInv'
  BY <1>1
  DEF UpdateTest, Rows, TypeOK, Phase, OneStarter, Starting, Deletion,
      ScoreOfStoredAnswers, DeletedOnlyIfLate, attemptRow
<1>2. CASE Publish
  BY <1>2
  DEF Publish, TypeOK, Phase, OneStarter, Starting, Deletion,
      ScoreOfStoredAnswers, DeletedOnlyIfLate, attemptRow
<1>3. CASE CountAttempts
  <2>1. \A a \in Attempts : status'[a] = "none"
    BY <1>3 DEF CountAttempts, CountsNone, Deletion, attemptRow
  <2>2. Deletion' /\ ScoreOfStoredAnswers' /\ DeletedOnlyIfLate'
    BY <1>3, <2>1
    DEF CountAttempts, Deletion, ScoreOfStoredAnswers, DeletedOnlyIfLate
  <2>3. TypeOK' /\ OneStarter' /\ \A r \in Requests : Phase(r)'
    BY <1>3
    DEF CountAttempts, TypeOK, OneStarter, Starting, Phase, attemptRow, testRow
  <2> QED
    BY <2>2, <2>3
<1>4. CASE DeleteTest
  <2>1. TypeOK'
    BY <1>4 DEF DeleteTest, TypeOK, Statuses
  <2>2. \A r \in Requests : Phase(r)'
    BY <1>4 DEF DeleteTest, TypeOK, Phase, Writing
  <2>3. OneStarter'
    BY <1>4 DEF DeleteTest, TypeOK, OneStarter, Starting
  <2>4. Deletion' /\ DeletedOnlyIfLate'
    BY <1>4 DEF DeleteTest, TypeOK, Deletion, DeletedOnlyIfLate
  <2>5. ScoreOfStoredAnswers'
    BY <1>4 DEF DeleteTest, TypeOK, ScoreOfStoredAnswers
  <2> QED
    BY <2>1, <2>2, <2>3, <2>4, <2>5
<1> QED
  BY <1>1, <1>2, <1>3, <1>4 DEF Administrator

\* A request begins or goes on without touching a row.
LEMMA ReadingStep ==
  ASSUME IInv, NEW r \in Requests,
         UNCHANGED <<attemptRow, late, refused>>, Keep,
         NEW j \in RequestType, job' = [job EXCEPT ![r] = j],
         j.pc # "idle" => j.attempt \in Attempts,
         j.pc \in Writing =>
           /\ j.read \in Open /\ j.sheet \in Sheets
           /\ status[j.attempt] # "none",
         j.pc \in {"marking", "submitting"} => j.paper = paper[j.attempt],
         j.pc \in {"selecting", "creating"} =>
           /\ status[j.attempt] = "none"
           /\ \A q \in Requests : job[q].attempt = j.attempt => q = r,
         j.pc \in Writing \/ j.pc = "idle" \/ j.pc \in {"selecting", "creating"},
         j.pc = "idle" => j.attempt = NoAttempt
  PROVE  IInv'
<1> USE DEF IInv, attemptRow, Keep, testRow
<1>1. TypeOK'
  BY DEF TypeOK
<1>2. job'[r] = j /\ \A q \in Requests : q # r => job'[q] = job[q]
  BY DEF TypeOK
<1>3. \A q \in Requests : Phase(q)'
  BY <1>2 DEF Phase
<1>4. OneStarter'
  BY <1>2, AttemptsAssumption DEF OneStarter, Starting, Writing
<1>5. Deletion' /\ ScoreOfStoredAnswers' /\ DeletedOnlyIfLate'
  BY DEF Deletion, ScoreOfStoredAnswers, DeletedOnlyIfLate
<1> QED
  BY <1>1, <1>3, <1>4, <1>5

\* An attempt's row appears: its starter is the only request that knows it.
LEMMA CreateStep ==
  ASSUME IInv, NEW r \in Requests, CreateAttempt(r)
  PROVE  IInv'
<1> USE DEF IInv, Keep, testRow
<1> DEFINE a == job[r].attempt
<1>1. a \in Attempts /\ Starting(r, a) /\ job[r].paper \in Papers
  BY DEF CreateAttempt, Phase, Starting, TypeOK, RequestType
<1>2. job'[r] = Idle /\ \A q \in Requests \ {r} : job'[q] = job[q]
  BY DEF CreateAttempt, TypeOK
<1>3. \A q \in Requests \ {r} : job[q].attempt # a
  BY <1>1 DEF OneStarter
<1>4. CASE test = "deleted"
  <2>1. UNCHANGED <<attemptRow, late, refused, test>>
    BY <1>4 DEF CreateAttempt
  <2>2. TypeOK'
    BY <2>1, IdleType DEF CreateAttempt, TypeOK, attemptRow
  <2>3. \A q \in Requests : Phase(q)'
    BY <1>2, <2>1, IdleType DEF Phase, Writing, attemptRow
  <2>4. OneStarter'
    BY <1>2, <2>1, IdleType, AttemptsAssumption DEF OneStarter, Starting, attemptRow
  <2>5. Deletion' /\ ScoreOfStoredAnswers' /\ DeletedOnlyIfLate'
    BY <2>1
    DEF CreateAttempt, Deletion, ScoreOfStoredAnswers, DeletedOnlyIfLate, attemptRow
  <2> QED
    BY <2>2, <2>3, <2>4, <2>5
<1>5. CASE test # "deleted"
  <2>1. /\ status' = [status EXCEPT ![a] = "STARTED"]
        /\ paper' = [paper EXCEPT ![a] = job[r].paper]
        /\ late' = IF deleting THEN late \cup {a} ELSE late
        /\ UNCHANGED <<answers, score, refused, test, deleting>>
    BY <1>5 DEF CreateAttempt
  <2>2. TypeOK'
    BY <1>1, <2>1, IdleType DEF CreateAttempt, TypeOK, Statuses, Open
  <2>3. \A q \in Requests : Phase(q)'
    BY <1>1, <1>2, <1>3, <2>1, IdleType DEF Phase, Writing, TypeOK
  <2>4. OneStarter'
    BY <1>1, <1>2, <1>3, <2>1, IdleType, AttemptsAssumption
    DEF OneStarter, Starting, TypeOK
  <2>5. Deletion'
    BY <1>1, <1>5, <2>1 DEF Deletion, TypeOK
  <2>6. ScoreOfStoredAnswers' /\ DeletedOnlyIfLate'
    BY <1>1, <2>1 DEF ScoreOfStoredAnswers, DeletedOnlyIfLate, TypeOK
  <2> QED
    BY <2>2, <2>3, <2>4, <2>5, <2>6
<1> QED
  BY <1>4, <1>5

\* A save or a submission writes its attempt, if that is still there.
LEMMA WritingStep ==
  ASSUME IInv, NEW r \in Requests, WriteSave(r) \/ WriteSubmit(r)
  PROVE  IInv'
<1> USE DEF IInv, Keep, testRow
<1> DEFINE a == job[r].attempt
<1>1. /\ a \in Attempts /\ job[r].pc \in Writing /\ status[a] # "none"
      /\ job[r].sheet \in Sheets
  BY DEF WriteSave, WriteSubmit, Phase, Writing
<1>2. /\ job' = [job EXCEPT ![r] = Idle]
      /\ job'[r] = Idle /\ \A q \in Requests \ {r} : job'[q] = job[q]
  BY DEF WriteSave, WriteSubmit, TypeOK
<1>3. \E s \in {"IN_PROGRESS", "EVALUATED"} : \E n :
        \/ UNCHANGED attemptRow
        \/ /\ status[a] # "gone"
           /\ status' = [status EXCEPT ![a] = s]
           /\ answers' = [answers EXCEPT ![a] = job[r].sheet]
           /\ score' = [score EXCEPT ![a] = n]
           /\ paper' = paper
           /\ s = "EVALUATED" =>
                /\ n.right = Answered(paper[a], job[r].sheet, "right")
                /\ n.wrong = Answered(paper[a], job[r].sheet, "wrong")
  <2>1. CASE WriteSave(r)
    <3>1. score = [score EXCEPT ![a] = score[a]]
      BY <1>1 DEF TypeOK
    <3> QED
      BY <2>1, <3>1 DEF WriteSave, attemptRow
  <2>2. CASE WriteSubmit(r)
    <3> DEFINE n == Evaluate(job[r].config, job[r].fixed, job[r].paper, job[r].sheet)
    <3>1. job[r].paper = paper[a]
      BY <2>2 DEF WriteSubmit, Phase
    <3>2. /\ n.right = Answered(paper[a], job[r].sheet, "right")
          /\ n.wrong = Answered(paper[a], job[r].sheet, "wrong")
      BY <3>1 DEF Evaluate
    <3> HIDE DEF n
    <3>3. \/ UNCHANGED attemptRow
          \/ /\ status[a] # "gone"
             /\ status' = [status EXCEPT ![a] = "EVALUATED"]
             /\ answers' = [answers EXCEPT ![a] = job[r].sheet]
             /\ score' = [score EXCEPT ![a] = n]
             /\ paper' = paper
      BY <2>2 DEF WriteSubmit, StoredWithScore, n
    <3> QED
      BY <3>2, <3>3
  <2> QED
    BY <2>1, <2>2
<1>4. /\ late' = late /\ refused' \subseteq Attempts
      /\ UNCHANGED <<test, config, fixed, deleting, edited>>
  BY <1>1 DEF WriteSave, WriteSubmit, TypeOK
<1>5. TypeOK'
  BY <1>1, <1>2, <1>3, <1>4, IdleType DEF TypeOK, Statuses, Open, attemptRow
<1>6. \A q \in Requests : Phase(q)'
  BY <1>1, <1>2, <1>3, IdleType DEF Phase, Writing, TypeOK, attemptRow
<1>7. OneStarter'
  BY <1>1, <1>2, <1>3, IdleType, AttemptsAssumption
  DEF OneStarter, Starting, TypeOK, attemptRow
<1>8. Deletion' /\ DeletedOnlyIfLate'
  BY <1>1, <1>3, <1>4 DEF Deletion, DeletedOnlyIfLate, TypeOK, attemptRow
<1>9. ScoreOfStoredAnswers'
  BY <1>1, <1>3 DEF ScoreOfStoredAnswers, TypeOK, attemptRow
<1> QED
  BY <1>5, <1>6, <1>7, <1>8, <1>9

\* The steps that only read, one by one, as instances of ReadingStep.
LEMMA StudentStep ==
  ASSUME IInv, NEW r \in Requests, Student(r)
  PROVE  IInv'
<1> USE DEF IInv
<1>1. ASSUME NEW a \in Attempts, BeginStart(r, a) PROVE IInv'
  <2> DEFINE j == Request("selecting", a, "none", config, <<>>, <<>>, NoSheet)
  <2>1. j \in RequestType /\ j.attempt = a /\ j.pc = "selecting"
    BY EmptyPaper DEF TypeOK, Request, RequestType, Steps, Statuses
  <2>2. status[a] = "none" /\ \A q \in Requests : job[q].attempt # a
    BY <1>1 DEF BeginStart, Begun
  <2>3. /\ UNCHANGED <<attemptRow, late, refused>> /\ Keep
        /\ job' = [job EXCEPT ![r] = j]
    BY <1>1 DEF BeginStart
  <2> HIDE DEF j
  <2> QED
    BY <2>1, <2>2, <2>3, ReadingStep DEF Writing
<1>2. ASSUME NEW p \in Papers, SelectQuestions(r, p) PROVE IInv'
  <2> DEFINE j == [job[r] EXCEPT !.pc = "creating", !.paper = p]
  <2>1. j \in RequestType /\ j.attempt = job[r].attempt /\ j.pc = "creating"
    BY DEF TypeOK, RequestType, Steps
  <2>2. job[r].attempt \in Attempts /\ Starting(r, job[r].attempt)
    BY <1>2 DEF SelectQuestions, Starting, Phase
  <2>3. /\ UNCHANGED <<attemptRow, late, refused>> /\ Keep
        /\ job' = [job EXCEPT ![r] = j]
    BY <1>2 DEF SelectQuestions, TypeOK, RequestType
  <2> HIDE DEF j
  <2> QED
    BY <2>1, <2>2, <2>3, ReadingStep DEF Writing, OneStarter
<1>3. ASSUME NEW a \in Attempts, NEW s \in Sheets \cup {NoSheet},
             BeginSave(r, a, s) \/ BeginSubmit(r, a, s)
      PROVE  IInv'
  <2>1. Sent(a, s) \in Sheets /\ status[a] \in Open
    BY <1>3 DEF BeginSave, BeginSubmit, Sent, TypeOK, Unlocked
  <2>2. CASE BeginSave(r, a, s)
    <3> DEFINE j == Request("saving", a, status[a], <<>>, <<>>, <<>>, Sent(a, s))
    <3>1. /\ j \in RequestType /\ j.attempt = a /\ j.pc = "saving"
          /\ j.read \in Open /\ j.sheet \in Sheets
      BY <2>1, EmptyPaper DEF Request, RequestType, Steps, Statuses, TypeOK
    <3>2. /\ UNCHANGED <<attemptRow, late, refused>> /\ Keep
          /\ job' = [job EXCEPT ![r] = j]
      BY <2>2 DEF BeginSave
    <3> HIDE DEF j
    <3> QED
      BY <2>1, <3>1, <3>2, ReadingStep DEF Writing, Open
  <2>3. CASE BeginSubmit(r, a, s)
    <3> DEFINE j == Request("marking", a, status[a], config, <<>>, paper[a], Sent(a, s))
    <3>1. /\ j \in RequestType /\ j.attempt = a /\ j.pc = "marking"
          /\ j.read \in Open /\ j.sheet \in Sheets /\ j.paper = paper[a]
      BY <2>1 DEF Request, RequestType, Steps, Statuses, TypeOK
    <3>2. /\ UNCHANGED <<attemptRow, late, refused>> /\ Keep
          /\ job' = [job EXCEPT ![r] = j]
      BY <2>3 DEF BeginSubmit
    <3> HIDE DEF j
    <3> QED
      BY <2>1, <3>1, <3>2, ReadingStep DEF Writing, Open
  <2> QED
    BY <1>3, <2>2, <2>3
<1>4. CASE ReadMarks(r)
  <2> DEFINE j == [job[r] EXCEPT !.pc = "submitting", !.fixed = fixed]
  <2>1. /\ j \in RequestType /\ j.attempt = job[r].attempt /\ j.pc = "submitting"
        /\ j.read = job[r].read /\ j.sheet = job[r].sheet /\ j.paper = job[r].paper
    BY DEF TypeOK, RequestType, Steps
  <2>2. /\ job[r].attempt \in Attempts /\ job[r].paper = paper[job[r].attempt]
        /\ job[r].read \in Open /\ job[r].sheet \in Sheets
        /\ status[job[r].attempt] # "none"
    BY <1>4 DEF ReadMarks, Phase, Writing
  <2>3. /\ UNCHANGED <<attemptRow, late, refused>> /\ Keep
        /\ job' = [job EXCEPT ![r] = j]
    BY <1>4 DEF ReadMarks, TypeOK, RequestType
  <2> HIDE DEF j
  <2> QED
    BY <2>1, <2>2, <2>3, ReadingStep DEF Writing
<1> QED
  BY <1>1, <1>2, <1>3, <1>4, CreateStep, WritingStep DEF Student

THEOREM Induction == Spec => []IInv
<1>1. IInv /\ [Next]_vars => IInv'
  <2>1. ASSUME IInv, UNCHANGED vars PROVE IInv'
    BY <2>1
    DEF IInv, vars, testRow, attemptRow, TypeOK, Phase, OneStarter, Starting,
        Deletion, ScoreOfStoredAnswers, DeletedOnlyIfLate
  <2> QED
    BY <2>1, AdministratorStep, StudentStep DEF Next
<1> QED
  BY <1>1, InitIInv, PTL DEF Spec

-----------------------------------------------------------------------------

\* Rows and requests keep their shape, and no paper repeats a question.
THEOREM TypeInvariance == Spec => []TypeOK
<1>1. IInv => TypeOK
  BY DEF IInv
<1> QED
  BY <1>1, Induction, PTL

\* However many saves and submissions of an attempt overlap, its score is of the
\* answers stored beside it.
THEOREM ScoresMatchAnswers == Spec => []ScoreOfStoredAnswers
<1>1. IInv => ScoreOfStoredAnswers
  BY DEF IInv
<1> QED
  BY <1>1, Induction, PTL

\* Deleting a test takes no attempt away that its count could have seen.
THEOREM DeletionSparesAttempts == Spec => []DeletedOnlyIfLate
<1>1. IInv => DeletedOnlyIfLate
  BY DEF IInv
<1> QED
  BY <1>1, Induction, PTL

\* An evaluated attempt changes only by a request that had found it open.
THEOREM EvaluatedIsLocked == Spec => LockedUnlessOverlapped
<1> DEFINE Excused(a) ==
             \/ status'[a] = "gone"
             \/ \E r \in Requests :
                  /\ job[r].attempt = a /\ job[r].read \in Open
                  /\ job'[r] = Idle
<1>1. ASSUME IInv, [Next]_vars, NEW a \in Attempts, status[a] = "EVALUATED",
             <<status'[a], answers'[a], score'[a]>> # <<status[a], answers[a], score[a]>>
      PROVE  Excused(a)
  <2> USE DEF IInv
  <2>1. ASSUME NEW r \in Requests, WriteSave(r) \/ WriteSubmit(r) PROVE Excused(a)
    <3>1. job[r].read \in Open /\ job'[r] = Idle
      BY <1>1, <2>1 DEF WriteSave, WriteSubmit, Phase, Writing, TypeOK
    <3>2. job[r].attempt = a
      BY <1>1, <2>1 DEF WriteSave, WriteSubmit, TypeOK, attemptRow
    <3> QED
      BY <3>1, <3>2
  <2>2. ASSUME NEW r \in Requests, CreateAttempt(r) PROVE FALSE
    <3>1. job[r].attempt # a
      BY <1>1, <2>2 DEF CreateAttempt, OneStarter, Starting
    <3> QED
      BY <1>1, <2>2, <3>1 DEF CreateAttempt, TypeOK, attemptRow
  <2>3. CASE DeleteTest
    BY <1>1, <2>3 DEF DeleteTest, TypeOK
  <2>4. ASSUME UNCHANGED attemptRow PROVE FALSE
    BY <1>1, <2>4 DEF attemptRow
  <2> QED
    BY <1>1, <2>1, <2>2, <2>3, <2>4
    DEF Next, Student, Administrator, vars, UpdateTest, Publish, CountAttempts,
        BeginStart, SelectQuestions, BeginSave, BeginSubmit, ReadMarks
<1>2. IInv /\ [Next]_vars =>
        [\A a \in Attempts :
           status[a] = "EVALUATED"
             /\ <<status'[a], answers'[a], score'[a]>>
                  # <<status[a], answers[a], score[a]>>
           => \/ status'[a] = "gone"
              \/ \E r \in Requests :
                   /\ job[r].attempt = a /\ job[r].read \in Open
                   /\ job'[r] = Idle]_vars
  BY <1>1
<1> HIDE DEF Excused
<1> QED
  BY <1>2, Induction, PTL DEF Spec, LockedUnlessOverlapped

-----------------------------------------------------------------------------
(* Sums over finite sets.  A score is a sum over positions that takes each *)
(* mark from the section a position falls into; that it is a sum over      *)
(* sections follows from how sums behave and how papers are laid out.      *)

\* What holds of a subset of F once it holds of it without any one of its elements holds of
\* every subset of F; G is where it holds.
LEMMA SetInduction ==
  ASSUME NEW F, IsFiniteSet(F), NEW G,
         \A s \in SUBSET F : (\A x \in s : s \ {x} \in G) => s \in G
  PROVE  \A s \in SUBSET F : s \in G
<1> DEFINE T == (SUBSET F) \ G
           R == StrictSubsetOrdering(F)
<1>1. IsWellFoundedOn(R, FiniteSubsetsOf(F))
  BY FS_StrictSubsetOrderingWellFounded
<1>2. T \subseteq FiniteSubsetsOf(F)
  BY FS_Subset DEF FiniteSubsetsOf
<1>3. ASSUME T # {} PROVE FALSE
  <2>1. \E s \in T : \A q \in T : ~(<<q, s>> \in R)
    <3> HIDE DEF T, R
    <3> QED
      BY <1>1, <1>2, <1>3, WFMin
  <2>2. PICK s \in T : \A q \in T : ~(<<q, s>> \in R)
    BY <2>1
  <2>3. ASSUME NEW x \in s PROVE s \ {x} \in G
    <3>1. s \ {x} \in SUBSET F /\ s \in SUBSET F /\ s \ {x} # s
      OBVIOUS
    <3>2. <<s \ {x}, s>> \in R
      BY <3>1 DEF StrictSubsetOrdering
    <3> QED
      BY <2>2, <3>1, <3>2, Zenon
  <2> QED
    BY <2>2, <2>3
<1> QED
  BY <1>3

\* The element a fold takes first, and what a function that sums f over the subsets of S is.
Foremost(s) == CHOOSE x \in s : TRUE
Sums(f, S, it) ==
  it = [s \in SUBSET S |-> IF s = {} THEN 0
                           ELSE LET x == CHOOSE x \in s : TRUE IN f[x] + it[s \ {x}]]

LEMMA SumIsIter ==
  ASSUME NEW f, NEW S
  PROVE  SumFunctionOnSet(f, S) = (CHOOSE it : Sums(f, S, it))[S]
  BY DEF SumFunctionOnSet, FoldFunctionOnSet, MapThenFoldSet, Sums

LEMMA SumsEqual ==
  ASSUME NEW f, NEW S, NEW U, IsFiniteSet(S), NEW g, NEW h, Sums(f, S, g), Sums(f, U, h)
  PROVE  \A s \in SUBSET S : s \subseteq U => g[s] = h[s]
<1> DEFINE G == {s \in SUBSET S : s \subseteq U => g[s] = h[s]}
<1>1. ASSUME NEW s \in SUBSET S, \A x \in s : s \ {x} \in G PROVE s \in G
  <2>1. CASE s \subseteq U /\ s # {}
    <3>1. g[s] = f[Foremost(s)] + g[s \ {Foremost(s)}]
      BY <2>1 DEF Sums, Foremost
    <3>2. h[s] = f[Foremost(s)] + h[s \ {Foremost(s)}]
      BY <2>1 DEF Sums, Foremost
    <3>3. Foremost(s) \in s
      BY <2>1 DEF Foremost
    <3> QED
      BY <1>1, <2>1, <3>1, <3>2, <3>3
  <2>2. CASE s = {}
    BY <2>2 DEF Sums
  <2> QED
    BY <2>1, <2>2
<1> HIDE DEF G
<1>2. \A s \in SUBSET S : s \in G
  BY <1>1, SetInduction, Zenon
<1> QED
  BY <1>2 DEF G

EqualOn(a, b, g, h) == \A z \in SUBSET a : z \subseteq b => g[z] = h[z]

LEMMA SumsEqualOn ==
  \A f, a, b, g, h : IsFiniteSet(a) /\ Sums(f, a, g) /\ Sums(f, b, h) => EqualOn(a, b, g, h)
<1> SUFFICES ASSUME NEW f, NEW a, NEW b, NEW g, NEW h,
                    IsFiniteSet(a) /\ Sums(f, a, g) /\ Sums(f, b, h)
             PROVE  EqualOn(a, b, g, h)
  OBVIOUS
<1>1. \A z \in SUBSET a : z \subseteq b => g[z] = h[z]
  BY SumsEqual, SMT
<1> QED
  BY <1>1 DEF EqualOn

\* The sums over the subsets that lack one element each give the sums over all.
LEMMA SumsExist ==
  ASSUME NEW f, NEW S, IsFiniteSet(S)
  PROVE  \E it : Sums(f, S, it)
<1> DEFINE G == {s \in SUBSET S : \E it : Sums(f, s, it)}
<1>1. ASSUME NEW s \in SUBSET S, \A x \in s : s \ {x} \in G PROVE s \in G
  <2>0. IsFiniteSet(s)
    BY FS_Subset
  <2>1. CASE s = {}
    <3> DEFINE it == [q \in SUBSET s |-> 0]
    <3>1. Sums(f, s, it)
      BY <2>1 DEF Sums
    <3> QED
      BY <3>1
  <2>2. CASE s # {}
    <3> DEFINE of == [x \in s |-> CHOOSE it : Sums(f, s \ {x}, it)]
    <3>1. ASSUME NEW x \in s PROVE Sums(f, s \ {x}, of[x])
      BY <1>1, <3>1
    <3> HIDE DEF of
    <3>2. ASSUME NEW x \in s
          PROVE  /\ of[x][{}] = 0
                 /\ \A q \in SUBSET (s \ {x}) :
                      q # {} => of[x][q] = f[Foremost(q)] + of[x][q \ {Foremost(q)}]
      <4> PICK h : h = of[x]
        OBVIOUS
      <4>1. Sums(f, s \ {x}, h)
        BY <3>1
      <4>2. h[{}] = 0
        BY <4>1 DEF Sums
      <4>3. \A q \in SUBSET (s \ {x}) :
              q # {} => h[q] = f[Foremost(q)] + h[q \ {Foremost(q)}]
        BY <4>1 DEF Sums, Foremost
      <4> QED
        BY <4>2, <4>3
    <3>3. ASSUME NEW q \in SUBSET s, NEW x \in s, NEW y \in s,
                 q \subseteq s \ {x}, q \subseteq s \ {y}
          PROVE  of[y][q] = of[x][q]
      <4>1. IsFiniteSet(s \ {y})
        BY <2>0, FS_Subset
      <4>2. Sums(f, s \ {y}, of[y]) /\ Sums(f, s \ {x}, of[x])
        BY <3>1
      <4>3. EqualOn(s \ {y}, s \ {x}, of[y], of[x])
        BY <4>1, <4>2, SumsEqualOn
      <4> QED
        BY <3>3, <4>3 DEF EqualOn
    <3> DEFINE piece(q) == of[CHOOSE x \in s : q \subseteq s \ {x}][q]
               it == [q \in SUBSET s |->
                       IF q = {} THEN 0
                       ELSE IF q = s THEN f[Foremost(s)] + piece(s \ {Foremost(s)})
                       ELSE piece(q)]
    <3>4. ASSUME NEW q \in SUBSET s, NEW x \in s, q \subseteq s \ {x}
          PROVE  piece(q) = of[x][q]
      <4>1. PICK y \in s : q \subseteq s \ {y} /\ piece(q) = of[y][q]
        BY <3>4, Zenon
      <4> QED
        BY <3>3, <3>4, <4>1
    <3> HIDE DEF piece
    <3>5. ASSUME NEW q \in SUBSET s, q # {}
          PROVE  it[q] = f[Foremost(q)] + it[q \ {Foremost(q)}]
      <4>1. Foremost(q) \in q
        BY <3>5 DEF Foremost
      <4>2. CASE q = s
        <5>1. it[q \ {Foremost(q)}] = IF q \ {Foremost(q)} = {} THEN 0
                                      ELSE piece(s \ {Foremost(s)})
          BY <3>5, <4>1, <4>2
        <5>2. s \ {Foremost(s)} = {} => piece(s \ {Foremost(s)}) = 0
          BY <3>2, <3>4, <4>1, <4>2, Zenon
        <5> QED
          BY <3>5, <4>2, <5>1, <5>2
      <4>3. CASE q # s
        <5>1. PICK x \in s : q \subseteq s \ {x}
          BY <4>3
        <5>2. it[q] = of[x][q]
          BY <3>4, <3>5, <4>3, <5>1
        <5>3. of[x][q] = f[Foremost(q)] + of[x][q \ {Foremost(q)}]
          BY <3>2, <3>5, <5>1, Zenon
        <5>4. /\ q \ {Foremost(q)} # s /\ q \ {Foremost(q)} \in SUBSET s
              /\ q \ {Foremost(q)} \subseteq s \ {x}
          BY <4>1, <5>1
        <5>5. it[q \ {Foremost(q)}] = IF q \ {Foremost(q)} = {} THEN 0
                                      ELSE of[x][q \ {Foremost(q)}]
          BY <3>4, <5>1, <5>4
        <5>6. of[x][{}] = 0
          BY <3>2
        <5> QED
          BY <5>2, <5>3, <5>5, <5>6, Zenon
      <4> QED
        BY <4>2, <4>3
    <3>6. Sums(f, s, it)
      <4>1. it[{}] = 0
        OBVIOUS
      <4>2. it = [q \in SUBSET s |-> it[q]]
        OBVIOUS
      <4> HIDE DEF it
      <4> QED
        BY <3>5, <4>1, <4>2, Zenon DEF Sums, Foremost
    <3> QED
      BY <3>6
  <2> QED
    BY <2>1, <2>2
<1> HIDE DEF G
<1>2. \A s \in SUBSET S : s \in G
  BY <1>1, SetInduction, Zenon
<1> QED
  BY <1>2 DEF G

\* A sum is the foremost summand and the sum of the others.
LEMMA SumUnfolds ==
  ASSUME NEW f, NEW S, IsFiniteSet(S)
  PROVE  /\ SumFunctionOnSet(f, {}) = 0
         /\ S # {} => /\ Foremost(S) \in S
                      /\ SumFunctionOnSet(f, S) =
                           f[Foremost(S)] + SumFunctionOnSet(f, S \ {Foremost(S)})
<1>1. PICK it : Sums(f, S, it)
  BY SumsExist
<1>2. ASSUME NEW s \in SUBSET S PROVE SumFunctionOnSet(f, s) = it[s]
  <2> DEFINE g == CHOOSE g : Sums(f, s, g)
  <2>1. IsFiniteSet(s)
    BY FS_Subset
  <2>2. Sums(f, s, g)
    BY <2>1, SumsExist
  <2>3. SumFunctionOnSet(f, s) = g[s]
    BY SumIsIter
  <2> HIDE DEF g
  <2> QED
    BY <1>1, <2>1, <2>2, <2>3, SumsEqual
<1>3. it[{}] = 0 /\ (S # {} => it[S] = f[Foremost(S)] + it[S \ {Foremost(S)}])
  BY <1>1 DEF Sums, Foremost
<1>4. S # {} => Foremost(S) \in S
  BY DEF Foremost
<1> QED
  BY <1>2, <1>3, <1>4

LEMMA SumIsInt ==
  ASSUME NEW F, IsFiniteSet(F), NEW f \in [F -> Int]
  PROVE  \A s \in SUBSET F : SumFunctionOnSet(f, s) \in Int
<1> DEFINE G == {s \in SUBSET F : SumFunctionOnSet(f, s) \in Int}
<1>1. ASSUME NEW s \in SUBSET F, \A x \in s : s \ {x} \in G PROVE s \in G
  <2>1. IsFiniteSet(s)
    BY FS_Subset
  <2>2. /\ s = {} => SumFunctionOnSet(f, s) = 0
        /\ s # {} => /\ Foremost(s) \in s
                     /\ SumFunctionOnSet(f, s) =
                          f[Foremost(s)] + SumFunctionOnSet(f, s \ {Foremost(s)})
    BY <2>1, SumUnfolds, Zenon
  <2> QED
    BY <1>1, <2>2
<1> HIDE DEF G
<1>2. \A s \in SUBSET F : s \in G
  BY <1>1, SetInduction, Zenon
<1> QED
  BY <1>2 DEF G

\* Whichever summand is taken out, a sum is that and the sum of the others.
LEMMA SumTakes ==
  ASSUME NEW F, IsFiniteSet(F), NEW f \in [F -> Int]
  PROVE  \A s \in SUBSET F : \A x \in s :
           SumFunctionOnSet(f, s) = f[x] + SumFunctionOnSet(f, s \ {x})
<1> DEFINE G == {s \in SUBSET F : \A x \in s :
                   SumFunctionOnSet(f, s) = f[x] + SumFunctionOnSet(f, s \ {x})}
<1>1. ASSUME NEW s \in SUBSET F, \A x \in s : s \ {x} \in G PROVE s \in G
  <2>1. ASSUME NEW x \in s
        PROVE  SumFunctionOnSet(f, s) = f[x] + SumFunctionOnSet(f, s \ {x})
    <3> DEFINE y == Foremost(s)
    <3>1. IsFiniteSet(s)
      BY FS_Subset
    <3>2. y \in s /\ SumFunctionOnSet(f, s) = f[y] + SumFunctionOnSet(f, s \ {y})
      BY <3>1, SumUnfolds
    <3> HIDE DEF y
    <3>3. CASE x # y
      <4>1. SumFunctionOnSet(f, s \ {y}) = f[x] + SumFunctionOnSet(f, (s \ {y}) \ {x})
        BY <1>1, <3>2, <3>3
      <4>2. SumFunctionOnSet(f, s \ {x}) = f[y] + SumFunctionOnSet(f, (s \ {x}) \ {y})
        BY <1>1, <3>2, <3>3
      <4>3. (s \ {y}) \ {x} = (s \ {x}) \ {y} /\ (s \ {x}) \ {y} \in SUBSET F
        OBVIOUS
      <4>4. SumFunctionOnSet(f, (s \ {x}) \ {y}) \in Int
        BY <4>3, SumIsInt
      <4>5. f[x] \in Int /\ f[y] \in Int
        BY <3>2
      <4> DEFINE rest == SumFunctionOnSet(f, (s \ {x}) \ {y})
      <4>6. /\ SumFunctionOnSet(f, s) = f[y] + (f[x] + rest)
            /\ f[x] + SumFunctionOnSet(f, s \ {x}) = f[x] + (f[y] + rest)
        BY <3>2, <4>1, <4>2, <4>3, Zenon
      <4>7. f[y] + (f[x] + rest) = f[x] + (f[y] + rest)
        <5> HIDE DEF rest
        <5>1. rest \in Int
          BY <4>4 DEF rest
        <5> PICK u \in Int, v \in Int : u = f[x] /\ v = f[y]
          BY <4>5
        <5> QED
          BY <5>1, SMT
      <4> QED
        BY <4>6, <4>7
    <3> QED
      BY <3>2, <3>3
  <2> QED
    BY <2>1
<1> HIDE DEF G
<1>2. \A s \in SUBSET F : s \in G
  BY <1>1, SetInduction, Zenon
<1> QED
  BY <1>2, Zenon DEF G

\* The sum over a set and over one element more.
LEMMA SumAdds ==
  ASSUME NEW F, IsFiniteSet(F), NEW f \in [F -> Int], NEW s \in SUBSET F, NEW x \in F \ s
  PROVE  SumFunctionOnSet(f, s \cup {x}) = f[x] + SumFunctionOnSet(f, s)
<1>1. s \cup {x} \in SUBSET F /\ x \in s \cup {x} /\ (s \cup {x}) \ {x} = s
  OBVIOUS
<1> QED
  BY <1>1, SumTakes

\* Functions that agree on a set have the same sum over it.
LEMMA SameSum ==
  ASSUME NEW F, IsFiniteSet(F), NEW f \in [F -> Int], NEW g \in [F -> Int]
  PROVE  \A s \in SUBSET F : (\A x \in s : f[x] = g[x]) =>
           SumFunctionOnSet(f, s) = SumFunctionOnSet(g, s)
<1> DEFINE G == {s \in SUBSET F : (\A x \in s : f[x] = g[x]) =>
                   SumFunctionOnSet(f, s) = SumFunctionOnSet(g, s)}
<1>1. ASSUME NEW s \in SUBSET F, \A x \in s : s \ {x} \in G PROVE s \in G
  <2>1. IsFiniteSet(s)
    BY FS_Subset
  <2>2. SumFunctionOnSet(f, {}) = 0 /\ SumFunctionOnSet(g, {}) = 0
    BY <2>1, SumUnfolds, Zenon
  <2>3. s # {} =>
          /\ Foremost(s) \in s
          /\ SumFunctionOnSet(f, s) = f[Foremost(s)] + SumFunctionOnSet(f, s \ {Foremost(s)})
          /\ SumFunctionOnSet(g, s) = g[Foremost(s)] + SumFunctionOnSet(g, s \ {Foremost(s)})
    BY <2>1, SumUnfolds
  <2> QED
    BY <1>1, <2>2, <2>3, Zenon
<1> HIDE DEF G
<1>2. \A s \in SUBSET F : s \in G
  BY <1>1, SetInduction, Zenon
<1> QED
  BY <1>2 DEF G

\* What is zero everywhere sums up to zero.
LEMMA SumOfZeros ==
  ASSUME NEW F, IsFiniteSet(F), NEW f \in [F -> Int], \A x \in F : f[x] = 0
  PROVE  SumFunctionOnSet(f, F) = 0
<1> DEFINE G == {s \in SUBSET F : SumFunctionOnSet(f, s) = 0}
<1>1. ASSUME NEW s \in SUBSET F, \A x \in s : s \ {x} \in G PROVE s \in G
  <2>1. IsFiniteSet(s)
    BY FS_Subset
  <2>2. /\ s = {} => SumFunctionOnSet(f, s) = 0
        /\ s # {} => /\ Foremost(s) \in s
                     /\ SumFunctionOnSet(f, s) =
                          f[Foremost(s)] + SumFunctionOnSet(f, s \ {Foremost(s)})
    BY <2>1, SumUnfolds, Zenon
  <2> QED
    BY <1>1, <2>2
<1> HIDE DEF G
<1>2. \A s \in SUBSET F : s \in G
  BY <1>1, SetInduction, Zenon
<1> QED
  BY <1>2 DEF G

\* A sum of which one summand is d more is d more.
LEMMA OneMore ==
  ASSUME NEW F, IsFiniteSet(F), NEW f \in [F -> Int], NEW g \in [F -> Int], NEW x \in F,
         NEW d \in Int, f[x] = g[x] + d, \A y \in F \ {x} : f[y] = g[y]
  PROVE  SumFunctionOnSet(f, F) = SumFunctionOnSet(g, F) + d
<1>1. /\ SumFunctionOnSet(f, F) = f[x] + SumFunctionOnSet(f, F \ {x})
      /\ SumFunctionOnSet(g, F) = g[x] + SumFunctionOnSet(g, F \ {x})
  BY SumTakes
<1>2. F \ {x} \in SUBSET F
  OBVIOUS
<1>3. SumFunctionOnSet(f, F \ {x}) = SumFunctionOnSet(g, F \ {x})
  <2>1. \A s \in SUBSET F : (\A y \in s : f[y] = g[y]) =>
          SumFunctionOnSet(f, s) = SumFunctionOnSet(g, s)
    BY SameSum, Zenon
  <2> QED
    BY <1>2, <2>1, Zenon
<1>4. SumFunctionOnSet(g, F \ {x}) \in Int
  BY <1>2, SumIsInt
<1> PICK u \in Int, rest \in Int :
      u = g[x] /\ rest = SumFunctionOnSet(g, F \ {x})
  BY <1>4
<1>5. /\ SumFunctionOnSet(f, F) = (u + d) + rest
      /\ SumFunctionOnSet(g, F) = u + rest
  BY <1>1, <1>3
<1>6. (u + d) + rest = (u + rest) + d
  OBVIOUS
<1> QED
  BY <1>5, <1>6

\* Induction up to a number.
LEMMA UpTo ==
  ASSUME NEW n \in Nat, NEW G, 0 \in G, \A i \in 1 .. n : i - 1 \in G => i \in G
  PROVE  \A i \in 0 .. n : i \in G
<1> DEFINE T == (0 .. n) \ G
           R == OpToRel(<, Nat)
<1>1. T \subseteq Nat
  OBVIOUS
<1>2. ASSUME T # {} PROVE FALSE
  <2>1. \E m \in T : \A k \in T : ~(<<k, m>> \in R)
    <3> HIDE DEF T, R
    <3>1. IsWellFoundedOn(R, Nat)
      BY NatLessThanWellFounded DEF R
    <3> QED
      BY <1>1, <1>2, <3>1, WFMin
  <2>2. PICK m \in T : \A k \in T : ~(<<k, m>> \in R)
    BY <2>1
  <2>3. m \in 1 .. n
    OBVIOUS
  <2>4. <<m - 1, m>> \in R
    BY <2>3 DEF OpToRel
  <2>5. m - 1 \in 0 .. n
    BY <2>3
  <2> QED
    BY <2>2, <2>3, <2>4, <2>5
<1> QED
  BY <1>2

-----------------------------------------------------------------------------

\* A test is a finite sequence of sections.
LEMMA SectionsAre ==
  ASSUME NEW c, ToldApart(c)
  PROVE  /\ Len(c) \in Nat /\ DOMAIN c = 1 .. Len(c)
         /\ \A i \in 1 .. Len(c) :
              /\ c[i].ids \in Seq(Questions) /\ c[i].pool \subseteq Questions
              /\ c[i].count \in Nat /\ c[i].mark \in Int /\ c[i].penalty \in Int
<1>1. c \in Seq(SectionType)
  BY DEF ToldApart
<1>2. Len(c) \in Nat /\ DOMAIN c = 1 .. Len(c) /\ \A i \in 1 .. Len(c) : c[i] \in SectionType
  BY <1>1
<1> QED
  BY <1>2 DEF SectionType

\* A section ends as many positions after the one before it as it counts.
LEMMA CursorSteps ==
  ASSUME NEW c, ToldApart(c)
  PROVE  /\ Cursor(c, 0) = 0
         /\ \A i \in 1 .. Len(c) : Cursor(c, i) = Cursor(c, i - 1) + c[i].count
         /\ \A i \in 0 .. Len(c) : Cursor(c, i) \in Nat
<1> DEFINE f == [j \in DOMAIN c |-> c[j].count]
           F == 1 .. Len(c)
<1>1. Len(c) \in Nat /\ f \in [F -> Int] /\ \A i \in F : f[i] = c[i].count /\ f[i] \in Nat
  BY SectionsAre
<1>2. IsFiniteSet(F)
  BY <1>1, FS_Interval
<1>3. \A i : Cursor(c, i) = SumFunctionOnSet(f, 1 .. i)
  BY DEF Cursor
<1> HIDE DEF f
<1>4. Cursor(c, 0) = 0
  <2>1. 1 .. 0 = {}
    OBVIOUS
  <2> QED
    BY <1>2, <1>3, <2>1, SumUnfolds, Zenon
<1>5. ASSUME NEW i \in F PROVE Cursor(c, i) = Cursor(c, i - 1) + c[i].count
  <2>1. /\ 1 .. (i - 1) \in SUBSET F /\ i \in F \ (1 .. (i - 1))
        /\ (1 .. (i - 1)) \cup {i} = 1 .. i
    BY <1>1
  <2> HIDE DEF F
  <2>2. PICK s \in SUBSET F : s = 1 .. (i - 1)
    BY <2>1
  <2>3. i \in F \ s /\ s \cup {i} = 1 .. i
    BY <2>1, <2>2
  <2>4. f \in [F -> Int]
    BY <1>1
  <2>5. SumFunctionOnSet(f, s \cup {i}) = f[i] + SumFunctionOnSet(f, s)
    BY <1>2, <2>3, <2>4, SumAdds
  <2>6. SumFunctionOnSet(f, s) \in Int
    BY <1>2, <2>4, SumIsInt
  <2>7. /\ Cursor(c, i) = SumFunctionOnSet(f, s \cup {i})
        /\ Cursor(c, i - 1) = SumFunctionOnSet(f, s)
    BY <1>3, <2>2, <2>3
  <2>8. f[i] = c[i].count /\ f[i] \in Int
    BY <1>1
  <2> QED
    BY <2>5, <2>6, <2>7, <2>8
<1> DEFINE G == {i \in 0 .. Len(c) : Cursor(c, i) \in Nat}
<1>6. 0 \in G
  BY <1>1, <1>4
<1>7. \A i \in 1 .. Len(c) : i - 1 \in G => i \in G
  BY <1>1, <1>5
<1> HIDE DEF G
<1>8. \A i \in 0 .. Len(c) : i \in G
  BY <1>1, <1>6, <1>7, UpTo
<1> QED
  BY <1>4, <1>5, <1>8 DEF G

LEMMA CursorGrows ==
  ASSUME NEW c, ToldApart(c)
  PROVE  \A j \in 0 .. Len(c) : \A i \in 0 .. j : Cursor(c, i) <= Cursor(c, j)
<1> DEFINE G == {j \in 0 .. Len(c) : \A i \in 0 .. j : Cursor(c, i) <= Cursor(c, j)}
<1>0. Len(c) \in Nat
  BY SectionsAre
<1>1. 0 \in G
  BY <1>0, CursorSteps
<1>2. ASSUME NEW j \in 1 .. Len(c), j - 1 \in G PROVE j \in G
  <2>1. Cursor(c, j - 1) <= Cursor(c, j) /\ Cursor(c, j) \in Nat /\ Cursor(c, j - 1) \in Nat
    <3>1. c[j].count \in Nat
      BY SectionsAre
    <3>2. j - 1 \in 0 .. Len(c) /\ j \in 0 .. Len(c)
      BY <1>0
    <3> QED
      BY <3>1, <3>2, CursorSteps
  <2>2. ASSUME NEW i \in 0 .. j PROVE Cursor(c, i) <= Cursor(c, j)
    <3>1. CASE i = j
      BY <2>1, <3>1
    <3>2. CASE i # j
      <4>1. i \in 0 .. (j - 1) /\ i \in 0 .. Len(c)
        BY <1>0, <3>2
      <4>2. Cursor(c, i) <= Cursor(c, j - 1) /\ Cursor(c, i) \in Nat
        BY <1>2, <4>1, CursorSteps
      <4> QED
        BY <2>1, <4>2
    <3> QED
      BY <3>1, <3>2
  <2> QED
    BY <1>0, <2>2
<1> HIDE DEF G
<1>3. \A j \in 0 .. Len(c) : j \in G
  BY <1>0, <1>1, <1>2, UpTo
<1> QED
  BY <1>3 DEF G

\* The positions of section j.
Falls(c, k, j) == j \in 1 .. Len(c) /\ Cursor(c, j - 1) <= k /\ k < Cursor(c, j)

\* A position falls into one section, the one whose rule it gets.
LEMMA FallsIntoOne ==
  ASSUME NEW c, ToldApart(c), NEW k \in Nat, NEW j, Falls(c, k, j)
  PROVE  RuleAt(c, k) = j /\ \A i : Falls(c, k, i) => i = j
<1>1. ASSUME NEW i, Falls(c, k, i), NEW h, Falls(c, k, h), i < h PROVE FALSE
  <2>1. i \in 0 .. (h - 1) /\ h - 1 \in 0 .. Len(c) /\ i \in 0 .. Len(c)
    BY <1>1, SectionsAre DEF Falls
  <2>2. Cursor(c, i) <= Cursor(c, h - 1)
    BY <2>1, CursorGrows
  <2>3. Cursor(c, i) \in Nat /\ Cursor(c, h - 1) \in Nat
    BY <2>1, CursorSteps
  <2> QED
    BY <1>1, <2>2, <2>3 DEF Falls
<1>2. ASSUME NEW i, Falls(c, k, i) PROVE i = j
  <2>1. i \in Int /\ j \in Int
    BY <1>2, SectionsAre DEF Falls
  <2> QED
    BY <1>1, <1>2, <2>1
<1>3. {i \in DOMAIN c : Cursor(c, i - 1) <= k /\ k < Cursor(c, i)} = {j}
  BY <1>2, SectionsAre DEF Falls
<1>4. (CHOOSE i \in {j} : TRUE) = j
  OBVIOUS
<1> QED
  BY <1>2, <1>3, <1>4 DEF RuleAt

\* Every position before the end falls into a section.
LEMMA FallsSomewhere ==
  ASSUME NEW c, ToldApart(c), NEW k \in Nat, k < Cursor(c, Len(c))
  PROVE  \E j : Falls(c, k, j)
<1> DEFINE G == {i \in 0 .. Len(c) : k < Cursor(c, i) => \E j : Falls(c, k, j)}
<1>0. Len(c) \in Nat
  BY SectionsAre
<1>1. 0 \in G
  BY <1>0, CursorSteps
<1>2. ASSUME NEW i \in 1 .. Len(c), i - 1 \in G PROVE i \in G
  <2>1. Cursor(c, i - 1) \in Nat /\ Cursor(c, i) \in Nat
    BY <1>0, CursorSteps
  <2>2. k < Cursor(c, i) => k < Cursor(c, i - 1) \/ Falls(c, k, i)
    BY <2>1 DEF Falls
  <2> QED
    BY <1>0, <1>2, <2>2
<1> HIDE DEF G
<1>3. \A i \in 0 .. Len(c) : i \in G
  BY <1>0, <1>1, <1>2, UpTo
<1> QED
  BY <1>0, <1>3 DEF G
-----------------------------------------------------------------------------

\* The items of the first n sections, as FixedItems puts them together.
Joined(c, n, it) ==
  it = [i \in 0 .. n |->
          IF i = 0 THEN <<>>
          ELSE it[i - 1] \o
                 [j \in DOMAIN c[i].ids |-> [q |-> c[i].ids[j], mark |-> c[i].mark]]]

LEMMA FixedItemsJoins ==
  ASSUME NEW c, Len(c) \in Nat
  PROVE  \E it : Joined(c, Len(c), it) /\ FixedItems(c) = it[Len(c)]
<1> DEFINE part(i) == [j \in DOMAIN c[i].ids |-> [q |-> c[i].ids[j], mark |-> c[i].mark]]
           G == {n \in 0 .. Len(c) : \E it : Joined(c, n, it)}
<1>1. 0 \in G
  <2>1. Joined(c, 0, [i \in 0 .. 0 |-> <<>>])
    BY DEF Joined
  <2> QED
    BY <2>1
<1>2. ASSUME NEW n \in 1 .. Len(c), n - 1 \in G PROVE n \in G
  <2>1. PICK it : Joined(c, n - 1, it)
    BY <1>2
  <2> DEFINE more == [i \in 0 .. n |-> IF i = n THEN it[n - 1] \o part(n) ELSE it[i]]
  <2> HIDE DEF part
  <2>2. ASSUME NEW i \in 0 .. n
        PROVE  more[i] = IF i = 0 THEN <<>> ELSE more[i - 1] \o part(i)
    <3>1. CASE i = n
      <4>1. n # 0 /\ n - 1 \in 0 .. n /\ n - 1 # n
        OBVIOUS
      <4> QED
        BY <3>1, <4>1
    <3>2. CASE i # n
      <4>1. i \in 0 .. (n - 1) /\ (i # 0 => i - 1 \in 0 .. n /\ i - 1 # n)
        BY <3>2
      <4>2. it[i] = IF i = 0 THEN <<>> ELSE it[i - 1] \o part(i)
        BY <2>1, <4>1 DEF Joined, part
      <4> QED
        BY <3>2, <4>1, <4>2
    <3> QED
      BY <3>1, <3>2
  <2>3. more = [i \in 0 .. n |-> more[i]]
    OBVIOUS
  <2> HIDE DEF more
  <2>4. Joined(c, n, more)
    BY <2>2, <2>3, Zenon DEF Joined, part
  <2> QED
    BY <1>2, <2>4
<1> HIDE DEF G
<1>3. \A n \in 0 .. Len(c) : n \in G
  BY <1>1, <1>2, UpTo
<1>4. \E it : Joined(c, Len(c), it)
  BY <1>3 DEF G
<1>5. FixedItems(c) = (CHOOSE it : Joined(c, Len(c), it))[Len(c)]
  BY DEF FixedItems, Joined
<1> QED
  BY <1>4, <1>5

LEMMA JoinedSteps ==
  ASSUME NEW c, Len(c) \in Nat, NEW it, Joined(c, Len(c), it)
  PROVE  /\ it[0] = <<>>
         /\ \A i \in 1 .. Len(c) :
              it[i] = it[i - 1] \o
                        [j \in DOMAIN c[i].ids |-> [q |-> c[i].ids[j], mark |-> c[i].mark]]
<1>1. \A i \in 0 .. Len(c) :
        it[i] = IF i = 0 THEN <<>>
                ELSE it[i - 1] \o
                       [j \in DOMAIN c[i].ids |-> [q |-> c[i].ids[j], mark |-> c[i].mark]]
  BY Zenon DEF Joined
<1>2. 0 \in 0 .. Len(c) /\ \A i \in 1 .. Len(c) : i \in 0 .. Len(c) /\ i # 0
  OBVIOUS
<1> QED
  BY <1>1, <1>2, Zenon

\* A test of pools has no fixed items.
LEMMA PoolsHaveNoItems ==
  ASSUME NEW c, ToldApart(c), Draws(c)
  PROVE  FixedItems(c) = <<>>
<1>0. Len(c) \in Nat /\ DOMAIN c = 1 .. Len(c)
  BY SectionsAre
<1>1. PICK it : Joined(c, Len(c), it) /\ FixedItems(c) = it[Len(c)]
  BY <1>0, FixedItemsJoins
<1> DEFINE G == {i \in 0 .. Len(c) : it[i] = <<>>}
<1>2. 0 \in G
  BY <1>0, <1>1, JoinedSteps
<1>3. ASSUME NEW i \in 1 .. Len(c), i - 1 \in G PROVE i \in G
  <2>1. c[i].ids = <<>>
    BY <1>0 DEF Draws
  <2>2. [j \in DOMAIN c[i].ids |-> [q |-> c[i].ids[j], mark |-> c[i].mark]] = <<>>
    BY <2>1
  <2>3. it[i] = it[i - 1] \o [j \in DOMAIN c[i].ids |-> [q |-> c[i].ids[j], mark |-> c[i].mark]]
    BY <1>0, <1>1, JoinedSteps, Zenon
  <2>4. <<>> \o <<>> = <<>>
    OBVIOUS
  <2>5. it[i - 1] = <<>>
    BY <1>3
  <2>6. it[i] = <<>>
    BY <2>2, <2>3, <2>4, <2>5, Zenon
  <2> QED
    BY <1>0, <2>6
<1> HIDE DEF G
<1>4. \A i \in 0 .. Len(c) : i \in G
  BY <1>0, <1>2, <1>3, UpTo
<1> QED
  BY <1>0, <1>1, <1>4 DEF G

Items == [q : Questions, mark : Int]

\* What the k-th item of a test with ids is: a question of the section that position k - 1
\* falls into, with its mark.
ItemOf(c, j, k, x) ==
  /\ Falls(c, k - 1, j)
  /\ k - Cursor(c, j - 1) \in DOMAIN c[j].ids
  /\ x = [q |-> c[j].ids[k - Cursor(c, j - 1)], mark |-> c[j].mark]

\* The items of the first i sections: each is of the section its position falls into, and
\* every id of those sections is among them.
Itemised(c, i, x) ==
  /\ x \in Seq(Items) /\ Len(x) = Cursor(c, i)
  /\ \A k \in 1 .. Len(x) : \E j : ItemOf(c, j, k, x[k])
  /\ \A j \in 1 .. i : \A n \in DOMAIN c[j].ids :
       /\ Cursor(c, j - 1) + n \in 1 .. Len(x)
       /\ x[Cursor(c, j - 1) + n].q = c[j].ids[n]

LEMMA OneSectionMore ==
  ASSUME NEW c, ToldApart(c), Fixes(c), NEW i \in 1 .. Len(c), NEW s, Itemised(c, i - 1, s)
  PROVE  Itemised(c, i, s \o [j \in DOMAIN c[i].ids |->
                                [q |-> c[i].ids[j], mark |-> c[i].mark]])
<1> PICK ids \in Seq(Questions), m \in Int :
      ids = c[i].ids /\ m = c[i].mark /\ Len(ids) = c[i].count
  BY SectionsAre DEF Fixes
<1> DEFINE t == [j \in DOMAIN ids |-> [q |-> ids[j], mark |-> m]]
           n0 == Len(ids)
           l == Len(s)
           x == s \o t
<1>1. n0 \in Nat /\ DOMAIN ids = 1 .. n0 /\ Len(c) \in Nat
  BY SectionsAre
<1>2. /\ t \in Seq(Items) /\ Len(t) = n0
      /\ \A n \in 1 .. n0 : t[n] = [q |-> ids[n], mark |-> m]
  <2>1. t = [j \in 1 .. n0 |-> [q |-> ids[j], mark |-> m]]
    BY <1>1
  <2>2. \A j \in 1 .. n0 : [q |-> ids[j], mark |-> m] \in Items
    BY <1>1 DEF Items
  <2> HIDE DEF t, n0
  <2> QED
    BY <1>1, <2>1, <2>2
<1>3. /\ s \in Seq(Items) /\ l \in Nat /\ l = Cursor(c, i - 1)
  BY DEF Itemised
<1>4. Cursor(c, i) = l + n0
  BY <1>3, CursorSteps
<1> HIDE DEF t, n0
<1>5. x \in Seq(Items) /\ Len(x) = l + n0
      /\ \A k \in 1 .. (l + n0) : x[k] = IF k <= l THEN s[k] ELSE t[k - l]
  BY <1>2, <1>3, ConcatProperties, Zenon
<1> HIDE DEF x, l
<1>0. n0 \in Nat /\ l \in Nat
  BY <1>1, <1>3
<1>6. ASSUME NEW k \in 1 .. Len(x) PROVE \E j : ItemOf(c, j, k, x[k])
  <2>0. k \in 1 .. (l + n0)
    BY <1>5
  <2>1. CASE k <= l
    <3>1. k \in 1 .. l /\ x[k] = s[k]
      BY <1>1, <1>3, <1>5, <2>1
    <3> QED
      BY <3>1 DEF Itemised, l
  <2>2. CASE k > l
    <3>0. k - l \in 1 .. n0 /\ ~(k <= l) /\ l <= k - 1 /\ k - 1 < l + n0
      BY <1>0, <2>0, <2>2
    <3>1. k - l \in 1 .. n0 /\ x[k] = t[k - l]
      BY <1>5, <2>0, <3>0, Zenon
    <3>2. Falls(c, k - 1, i)
      BY <1>3, <1>4, <3>0 DEF Falls
    <3>3. x[k] = [q |-> ids[k - l], mark |-> m]
      BY <1>2, <3>1
    <3> QED
      BY <1>1, <1>3, <3>1, <3>2, <3>3 DEF ItemOf
  <2> QED
    BY <1>1, <1>3, <1>5, <2>1, <2>2
<1>7. ASSUME NEW j \in 1 .. i, NEW n \in DOMAIN c[j].ids
      PROVE  /\ Cursor(c, j - 1) + n \in 1 .. Len(x)
             /\ x[Cursor(c, j - 1) + n].q = c[j].ids[n]
  <2>1. CASE j = i
    <3>1. n \in 1 .. n0 /\ c[j].ids = ids
      BY <1>1, <2>1
    <3>2. l + n \in 1 .. (l + n0) /\ ~(l + n <= l) /\ (l + n) - l = n
      BY <1>0, <3>1
    <3>3. x[l + n] = t[n]
      BY <1>5, <3>2, Zenon
    <3>4. t[n].q = ids[n]
      BY <1>2, <3>1
    <3> QED
      BY <1>3, <1>5, <2>1, <3>1, <3>2, <3>3, <3>4
  <2>2. CASE j # i
    <3>1. j \in 1 .. (i - 1)
      BY <2>2
    <3>2. PICK o \in 1 .. l : o = Cursor(c, j - 1) + n /\ s[o].q = c[j].ids[n]
      BY <3>1 DEF Itemised, l
    <3>3. o \in 1 .. (l + n0) /\ o <= l
      BY <1>1, <1>3
    <3> QED
      BY <1>5, <3>2, <3>3
  <2> QED
    BY <2>1, <2>2
<1>8. Itemised(c, i, x)
  BY <1>4, <1>5, <1>6, <1>7 DEF Itemised
<1> QED
  BY <1>8 DEF x, t

LEMMA ItemsOfSections ==
  ASSUME NEW c, ToldApart(c), Fixes(c)
  PROVE  Itemised(c, Len(c), FixedItems(c))
<1>0. Len(c) \in Nat
  BY SectionsAre
<1>1. PICK it : Joined(c, Len(c), it) /\ FixedItems(c) = it[Len(c)]
  BY <1>0, FixedItemsJoins
<1> DEFINE G == {i \in 0 .. Len(c) : Itemised(c, i, it[i])}
<1>2. 0 \in G
  <2>1. it[0] = <<>>
    BY <1>0, <1>1, JoinedSteps
  <2>2. Itemised(c, 0, <<>>)
    BY <1>0, CursorSteps DEF Itemised
  <2> QED
    BY <1>0, <2>1, <2>2
<1>3. ASSUME NEW i \in 1 .. Len(c), i - 1 \in G PROVE i \in G
  <2>1. it[i] = it[i - 1] \o [j \in DOMAIN c[i].ids |-> [q |-> c[i].ids[j], mark |-> c[i].mark]]
    BY <1>0, <1>1, JoinedSteps, Zenon
  <2>2. Itemised(c, i - 1, it[i - 1])
    BY <1>3
  <2>3. Itemised(c, i, it[i])
    BY <2>1, <2>2, OneSectionMore, Zenon
  <2> QED
    BY <1>0, <2>3
<1> HIDE DEF G
<1>4. \A i \in 0 .. Len(c) : i \in G
  BY <1>0, <1>2, <1>3, UpTo
<1> QED
  BY <1>0, <1>1, <1>4 DEF G
\* Every paper is a sequence of distinct questions.
LEMMA PapersAre ==
  ASSUME NEW p \in Papers
  PROVE  /\ p \in Seq(Questions) /\ Len(p) \in Nat /\ DOMAIN p = 1 .. Len(p)
         /\ IsInjective(p)
<1>1. PICK n \in 0 .. Cardinality(Questions) : p \in [1 .. n -> Questions] /\ IsInjective(p)
  BY DEF Papers
<1>2. n \in Nat
  BY AttemptsAssumption, FS_CardinalityType
<1> QED
  BY <1>1, <1>2

\* How many questions the first sections of a test of pools draw.
LEMMA PoolsDrawTheirCounts ==
  ASSUME NEW c, ToldApart(c), Draws(c), NEW p \in Papers, Drawn(c, p)
  PROVE  /\ Len(p) = Cursor(c, Len(c))
         /\ \A i \in 1 .. Len(c) :
              Range(SubSeq(p, Cursor(c, i - 1) + 1, Cursor(c, i))) \subseteq c[i].pool
<1>0. Len(c) \in Nat /\ DOMAIN c = 1 .. Len(c) /\ \A i \in 1 .. Len(c) : c[i].ids = <<>>
  BY SectionsAre DEF Draws
<1> DEFINE before(n) == {p[j] : j \in (1 .. n) \cap DOMAIN p}
           new(i, n) == SelectSeq(c[i].ids, LAMBDA q : q \notin before(n))
           More(i, n) == n + IF c[i].ids # <<>> THEN Len(new(i, n)) ELSE c[i].count
           Takes(it) == it = [i \in 0 .. Len(c) |->
                                IF i = 0 THEN 0
                                ELSE LET n == it[i - 1] IN
                                     n + IF c[i].ids # <<>> THEN Len(new(i, n))
                                         ELSE c[i].count]
           taken == CHOOSE it : Takes(it)
           ends == [i \in 0 .. Len(c) |-> Cursor(c, i)]
<1>1. /\ Len(p) = taken[Len(c)]
      /\ \A i \in DOMAIN c :
           LET part == SubSeq(p, taken[i - 1] + 1, taken[i]) IN
           IF c[i].ids # <<>> THEN part = new(i, taken[i - 1])
           ELSE Range(part) \subseteq c[i].pool \ before(taken[i - 1])
  BY DEF Drawn
<1> HIDE DEF before, new
<1>2. Takes(ends)
  <2>1. ASSUME NEW i \in 0 .. Len(c)
        PROVE  ends[i] = IF i = 0 THEN 0
                         ELSE LET n == ends[i - 1] IN
                              n + IF c[i].ids # <<>> THEN Len(new(i, n)) ELSE c[i].count
    <3>1. CASE i = 0
      BY <3>1, CursorSteps
    <3>2. CASE i # 0
      <4>1. i \in 1 .. Len(c) /\ i - 1 \in 0 .. Len(c)
        BY <1>0, <3>2
      <4>2. ends[i] = ends[i - 1] + c[i].count
        BY <4>1, CursorSteps
      <4> HIDE DEF ends
      <4> QED
        BY <1>0, <3>2, <4>1, <4>2
    <3> QED
      BY <3>1, <3>2
  <2>2. ends = [i \in 0 .. Len(c) |-> ends[i]]
    OBVIOUS
  <2> HIDE DEF ends
  <2> QED
    BY <2>1, <2>2, Zenon
<1>3. Takes(taken)
  <2> HIDE DEF ends, Takes
  <2> QED
    BY <1>2
<1> DEFINE G == {i \in 0 .. Len(c) : taken[i] = Cursor(c, i)}
<1>4. 0 \in G /\ \A i \in 1 .. Len(c) : i - 1 \in G => i \in G
  <2> HIDE DEF taken
  <2>1. \A i \in 0 .. Len(c) :
          taken[i] = IF i = 0 THEN 0
                     ELSE LET n == taken[i - 1] IN
                          n + IF c[i].ids # <<>> THEN Len(new(i, n)) ELSE c[i].count
    BY <1>3, Zenon
  <2>2. taken[0] = 0 /\ 0 \in 0 .. Len(c)
    BY <1>0, <2>1
  <2>3. ASSUME NEW i \in 1 .. Len(c), i - 1 \in G PROVE i \in G
    <3>1. i \in 0 .. Len(c) /\ i # 0
      BY <1>0
    <3>2. taken[i] = taken[i - 1] + c[i].count
      BY <1>0, <2>1, <3>1
    <3> QED
      BY <2>3, <3>1, <3>2, CursorSteps
  <2> QED
    BY <2>2, <2>3, CursorSteps
<1> HIDE DEF G, taken
<1>5. \A i \in 0 .. Len(c) : i \in G
  BY <1>0, <1>4, UpTo
<1>6. \A i \in 0 .. Len(c) : taken[i] = Cursor(c, i)
  BY <1>5 DEF G
<1>7. ASSUME NEW i \in 1 .. Len(c)
      PROVE  Range(SubSeq(p, Cursor(c, i - 1) + 1, Cursor(c, i))) \subseteq c[i].pool
  <2>1. i \in 0 .. Len(c) /\ i - 1 \in 0 .. Len(c)
    BY <1>0
  <2>2. taken[i] = Cursor(c, i) /\ taken[i - 1] = Cursor(c, i - 1)
    BY <1>6, <2>1
  <2>3. Range(SubSeq(p, taken[i - 1] + 1, taken[i])) \subseteq c[i].pool
    BY <1>0, <1>1
  <2> QED
    BY <2>2, <2>3
<1> QED
  BY <1>0, <1>1, <1>6, <1>7

\* Where position k of a paper comes from: one section gave its question, its rule is the one
\* that the position gets, and a fixed row has its mark.
Placed(c, p, k, j) ==
  /\ j \in DOMAIN c /\ RuleAt(c, k - 1) = j
  /\ \A i \in DOMAIN c : p[k] \in Given(c, p, i) <=> i = j
  /\ LET row == {i \in DOMAIN FixedItems(c) : FixedItems(c)[i].q = p[k]} IN
     row # {} => FixedItems(c)[CHOOSE i \in row : TRUE].mark = c[j].mark

LEMMA DrawnArePlaced ==
  ASSUME NEW c, ToldApart(c), Draws(c), NEW p \in Papers, Selection(FixedItems(c), c, p),
         NEW k \in DOMAIN p
  PROVE  \E j : Placed(c, p, k, j)
<1>0. /\ Len(c) \in Nat /\ DOMAIN c = 1 .. Len(c)
      /\ p \in Seq(Questions) /\ Len(p) \in Nat /\ DOMAIN p = 1 .. Len(p)
  BY SectionsAre, PapersAre
<1>1. FixedItems(c) = <<>>
  BY PoolsHaveNoItems
<1>2. Drawn(c, p)
  BY <1>1 DEF Selection
<1>3. /\ Len(p) = Cursor(c, Len(c))
      /\ \A i \in 1 .. Len(c) :
           Range(SubSeq(p, Cursor(c, i - 1) + 1, Cursor(c, i))) \subseteq c[i].pool
  BY <1>2, PoolsDrawTheirCounts
<1>4. k - 1 \in Nat /\ k - 1 < Cursor(c, Len(c))
  BY <1>0, <1>3
<1>5. PICK j : Falls(c, k - 1, j)
  BY <1>4, FallsSomewhere
<1>6. RuleAt(c, k - 1) = j /\ j \in 1 .. Len(c)
  BY <1>4, <1>5, FallsIntoOne DEF Falls
<1>7. p[k] \in c[j].pool
  <2> PICK l \in Nat, u \in Nat : l = Cursor(c, j - 1) /\ u = Cursor(c, j)
    BY <1>0, <1>6, CursorSteps
  <2>0. k \in Int
    BY <1>0
  <2>1. l <= k - 1 /\ k - 1 < u /\ u <= Len(p)
    BY <1>0, <1>3, <1>5, <1>6, CursorGrows DEF Falls
  <2>2. /\ \A i \in (l + 1) .. u : p[i] \in Questions
        /\ l + 1 \in Int /\ u \in Int /\ k - l \in 1 .. (u - (l + 1) + 1)
        /\ (l + 1) + (k - l) - 1 = k /\ l + 1 <= u
    <3>2. \A i \in (l + 1) .. u : i \in 1 .. Len(p)
      BY <1>0, <2>1
    <3>3. \A i \in 1 .. Len(p) : p[i] \in Questions
      BY <1>0
    <3>4. /\ l + 1 \in Int /\ u \in Int /\ k - l \in 1 .. (u - (l + 1) + 1)
          /\ (l + 1) + (k - l) - 1 = k /\ l + 1 <= u
      <4>1. l <= k - 1 /\ k - 1 < u
        BY <2>1
      <4> QED
        BY <2>0, <4>1
    <3> QED
      BY <3>2, <3>3, <3>4, Zenon
  <2>3. /\ SubSeq(p, l + 1, u) \in Seq(Questions)
        /\ Len(SubSeq(p, l + 1, u)) = u - (l + 1) + 1
        /\ SubSeq(p, l + 1, u)[k - l] = p[k]
    BY <2>2, SubSeqProperties
  <2>4. k - l \in DOMAIN SubSeq(p, l + 1, u)
    BY <2>2, <2>3
  <2>5. p[k] \in Range(SubSeq(p, l + 1, u))
    BY <2>3, <2>4 DEF Range
  <2> QED
    BY <1>3, <1>6, <2>5
<1>8. p[k] \in Range(p)
  BY DEF Range
<1>9. \A i \in DOMAIN c : p[k] \in Given(c, p, i) <=> i = j
  BY <1>0, <1>6, <1>7, <1>8 DEF Given, Draws
<1> QED
  BY <1>0, <1>1, <1>6, <1>9 DEF Placed

LEMMA FixedArePlaced ==
  ASSUME NEW c, ToldApart(c), Fixes(c), Acceptable(c),
         NEW p \in Papers, Selection(FixedItems(c), c, p), NEW k \in DOMAIN p
  PROVE  \E j : Placed(c, p, k, j)
<1> DEFINE rows == FixedItems(c)
<1>0. /\ Len(c) \in Nat /\ DOMAIN c = 1 .. Len(c)
      /\ \A i \in DOMAIN c : c[i].ids # <<>> /\ c[i].ids \in Seq(Questions)
      /\ Len(p) \in Nat /\ DOMAIN p = 1 .. Len(p)
  BY SectionsAre, PapersAre DEF Fixes
<1>1. Itemised(c, Len(c), rows)
  BY ItemsOfSections
<1>2. IsInjective([i \in DOMAIN rows |-> rows[i].q])
  BY DEF Acceptable
<1> HIDE DEF rows
<1>3. DOMAIN rows = 1 .. Len(rows) /\ Len(rows) \in Nat
  BY <1>1 DEF Itemised
<1>4. \A i, h \in DOMAIN rows : rows[i].q = rows[h].q => i = h
  BY <1>2 DEF IsInjective
<1>5. p = [i \in DOMAIN rows |-> rows[i].q]
  <2>1. CASE rows # <<>>
    BY <2>1 DEF Selection, rows
  <2>2. CASE rows = <<>>
    <3>1. Cursor(c, Len(c)) = 0
      BY <1>1, <2>2 DEF Itemised
    <3>2. ASSUME NEW i \in DOMAIN c PROVE FALSE
      <4>1. 1 \in DOMAIN c[i].ids
        BY <1>0
      <4>2. \A j \in 1 .. Len(c) : \A n \in DOMAIN c[j].ids :
              Cursor(c, j - 1) + n \in 1 .. Len(rows)
        BY <1>1 DEF Itemised
      <4>3. Cursor(c, i - 1) + 1 \in 1 .. 0
        BY <1>0, <2>2, <4>1, <4>2
      <4> QED
        BY <4>3
    <3>3. Len(c) = 0 /\ Draws(c)
      BY <1>0, <3>2 DEF Draws
    <3>4. Drawn(c, p)
      BY <2>2 DEF Selection, rows
    <3>5. Len(p) = 0
      BY <3>1, <3>3, <3>4, PoolsDrawTheirCounts
    <3> QED
      BY <1>0, <3>5
  <2> QED
    BY <2>1, <2>2
<1>6. k \in 1 .. Len(rows) /\ p[k] = rows[k].q
  BY <1>3, <1>5
<1>7. PICK j : ItemOf(c, j, k, rows[k])
  BY <1>1, <1>6 DEF Itemised
<1>8. /\ j \in DOMAIN c /\ p[k] \in Range(c[j].ids) /\ rows[k].mark = c[j].mark
      /\ Falls(c, k - 1, j)
  BY <1>0, <1>6, <1>7 DEF ItemOf, Falls, Range
<1>9. k - 1 \in Nat
  BY <1>0
<1>10. RuleAt(c, k - 1) = j /\ \A i : Falls(c, k - 1, i) => i = j
  BY <1>8, <1>9, FallsIntoOne
<1>11. ASSUME NEW i \in DOMAIN c, p[k] \in Range(c[i].ids) PROVE i = j
  <2>1. PICK n \in DOMAIN c[i].ids : c[i].ids[n] = p[k]
    BY <1>11 DEF Range
  <2>2. /\ Cursor(c, i - 1) + n \in 1 .. Len(rows)
        /\ rows[Cursor(c, i - 1) + n].q = c[i].ids[n]
    BY <1>0, <1>1 DEF Itemised
  <2>3. Cursor(c, i - 1) + n = k
    BY <1>3, <1>4, <1>6, <2>1, <2>2
  <2>4. /\ Cursor(c, i - 1) \in Nat /\ Cursor(c, i) = Cursor(c, i - 1) + Len(c[i].ids)
        /\ n \in 1 .. Len(c[i].ids) /\ Len(c[i].ids) \in Nat
    <3>1. i \in 1 .. Len(c) /\ i - 1 \in 0 .. Len(c) /\ c[i].count = Len(c[i].ids)
      BY <1>0 DEF Fixes
    <3>2. Cursor(c, i - 1) \in Nat /\ Cursor(c, i) = Cursor(c, i - 1) + c[i].count
      BY <3>1, CursorSteps
    <3>3. n \in 1 .. Len(c[i].ids) /\ Len(c[i].ids) \in Nat
      BY <1>0
    <3> QED
      BY <3>1, <3>2, <3>3
  <2>5. Falls(c, k - 1, i)
    BY <1>0, <2>3, <2>4 DEF Falls
  <2> QED
    BY <1>10, <2>5
<1>12. p[k] \in Range(p)
  BY DEF Range
<1>13. \A i \in DOMAIN c : p[k] \in Given(c, p, i) <=> i = j
  BY <1>0, <1>8, <1>11, <1>12 DEF Given
<1>14. {i \in DOMAIN rows : rows[i].q = p[k]} = {k}
  BY <1>3, <1>4, <1>6
<1>15. (CHOOSE i \in {k} : TRUE) = k
  OBVIOUS
<1>16. LET row == {i \in DOMAIN rows : rows[i].q = p[k]} IN
       row # {} => rows[CHOOSE i \in row : TRUE].mark = c[j].mark
  BY <1>8, <1>14, <1>15
<1> QED
  BY <1>8, <1>10, <1>13, <1>16 DEF Placed, rows
LEMMA ProductSteps ==
  \A m, n \in Int : m * n \in Int /\ m * (n + 1) = m * n + m
OBVIOUS

\* The score of a paper is the sum, over the sections of the test, of what the questions each
\* of them gave bring.
LEMMA TotalBySection ==
  ASSUME NEW c, ToldApart(c), Acceptable(c), NEW p \in Papers,
         Selection(FixedItems(c), c, p), NEW sheet \in [Questions -> {"right", "wrong", "blank"}]
  PROVE  Evaluate(c, FixedItems(c), p, sheet).total =
           SumFunctionOnSet(
             [i \in DOMAIN c |->
                c[i].mark * Cardinality(Given(c, p, i) \cap Answered(p, sheet, "right"))
                  - c[i].penalty
                      * Cardinality(Given(c, p, i) \cap Answered(p, sheet, "wrong"))],
             DOMAIN c)
<1> DEFINE D == DOMAIN p
           S == DOMAIN c
           delta == [k \in D |-> Delta(c, FixedItems(c), p, sheet, k)]
           Of(T, i, how) == {q \in Given(c, p, i) : \E k \in T : q = p[k] /\ sheet[q] = how}
           Count(T, i, how) == Cardinality(Of(T, i, how))
           brings(T) == [i \in S |-> c[i].mark * Count(T, i, "right")
                                       - c[i].penalty * Count(T, i, "wrong")]
<1>0. /\ Len(c) \in Nat /\ S = 1 .. Len(c) /\ IsFiniteSet(S)
      /\ \A i \in S : c[i].mark \in Int /\ c[i].penalty \in Int
  <2>1. /\ Len(c) \in Nat /\ S = 1 .. Len(c)
        /\ \A i \in S : c[i].mark \in Int /\ c[i].penalty \in Int
    BY SectionsAre
  <2>2. IsFiniteSet(1 .. Len(c))
    BY <2>1, FS_Interval
  <2> QED
    BY <2>1, <2>2
<1>1. /\ Len(p) \in Nat /\ D = 1 .. Len(p) /\ IsFiniteSet(D) /\ IsInjective(p)
      /\ \A k \in D : p[k] \in Questions
  BY PapersAre, FS_Interval
<1>2. \A k \in D : \E j : Placed(c, p, k, j)
  BY DrawnArePlaced, FixedArePlaced DEF ToldApart
<1>3. ASSUME NEW k \in D, NEW j, Placed(c, p, k, j)
      PROVE  /\ delta[k] = CASE sheet[p[k]] = "right" -> c[j].mark
                             [] sheet[p[k]] = "wrong" -> 0 - c[j].penalty
                             [] OTHER -> 0
             /\ delta[k] \in Int
  <2>1. j \in S /\ j # 0 /\ RuleAt(c, k - 1) = j
    BY <1>0, <1>3 DEF Placed
  <2>2. LET row == {i \in DOMAIN FixedItems(c) : FixedItems(c)[i].q = p[k]} IN
        row # {} => FixedItems(c)[CHOOSE i \in row : TRUE].mark = c[j].mark
    BY <1>3 DEF Placed
  <2>3. delta[k] = CASE sheet[p[k]] = "right" -> c[j].mark
                     [] sheet[p[k]] = "wrong" -> 0 - c[j].penalty
                     [] OTHER -> 0
    BY <2>1, <2>2 DEF Delta
  <2> HIDE DEF delta
  <2> QED
    BY <1>0, <2>1, <2>3
<1>4. delta \in [D -> Int]
  BY <1>2, <1>3
<1> HIDE DEF delta
<1>5. ASSUME NEW T \in SUBSET D, NEW i \in S, NEW how
      PROVE  IsFiniteSet(Of(T, i, how)) /\ Count(T, i, how) \in Nat
  <2>1. Of(T, i, how) \subseteq Questions
    BY <1>1
  <2>2. IsFiniteSet(Of(T, i, how))
    BY <2>1, AttemptsAssumption, FS_Subset
  <2> QED
    BY <2>2, FS_CardinalityType
<1>6. ASSUME NEW T \in SUBSET D PROVE brings(T) \in [S -> Int]
  <2>1. ASSUME NEW i \in S
        PROVE  c[i].mark * Count(T, i, "right") - c[i].penalty * Count(T, i, "wrong") \in Int
    <3>0. /\ c[i].mark \in Int /\ c[i].penalty \in Int
          /\ Count(T, i, "right") \in Nat /\ Count(T, i, "wrong") \in Nat
      <4>1. c[i].mark \in Int /\ c[i].penalty \in Int
        BY <1>0
      <4> HIDE DEF Count
      <4>2. Count(T, i, "right") \in Nat /\ Count(T, i, "wrong") \in Nat
        BY <1>5
      <4> QED
        BY <4>1, <4>2
    <3> HIDE DEF Count
    <3> PICK m \in Int, e \in Int, r \in Nat, w \in Nat :
          /\ m = c[i].mark /\ e = c[i].penalty
          /\ r = Count(T, i, "right") /\ w = Count(T, i, "wrong")
      BY <3>0
    <3>1. m * r - e * w \in Int
      OBVIOUS
    <3> QED
      BY <3>1
  <2> QED
    BY <2>1
<1>7. ASSUME NEW T \in SUBSET D, NEW k \in T, NEW j, Placed(c, p, k, j)
      PROVE  /\ j \in S
             /\ brings(T)[j] = brings(T \ {k})[j] + delta[k]
             /\ \A i \in S \ {j} : brings(T)[i] = brings(T \ {k})[i]
  <2>1. j \in S /\ p[k] \in Given(c, p, j) /\ \A i \in S : p[k] \in Given(c, p, i) => i = j
    BY <1>7 DEF Placed
  <2>2. \A k2 \in T \ {k} : p[k2] # p[k]
    BY <1>1 DEF IsInjective
  <2>3. ASSUME NEW how, sheet[p[k]] = how
        PROVE  Count(T, j, how) = Count(T \ {k}, j, how) + 1
    <3>1. Of(T, j, how) = Of(T \ {k}, j, how) \cup {p[k]} /\ p[k] \notin Of(T \ {k}, j, how)
      BY <2>1, <2>2, <2>3
    <3>2. IsFiniteSet(Of(T \ {k}, j, how))
      <4>1. T \ {k} \in SUBSET D
        OBVIOUS
      <4> HIDE DEF Of
      <4> QED
        BY <1>5, <2>1, <4>1
    <3> QED
      BY <3>1, <3>2, FS_AddElement
  <2>4. ASSUME NEW i \in S, NEW how, i # j \/ sheet[p[k]] # how
        PROVE  Count(T, i, how) = Count(T \ {k}, i, how)
    <3>1. Of(T, i, how) = Of(T \ {k}, i, how)
      BY <2>1, <2>4
    <3> QED
      BY <3>1
  <2>5. /\ Count(T \ {k}, j, "right") \in Nat /\ Count(T \ {k}, j, "wrong") \in Nat
        /\ sheet[p[k]] \in {"right", "wrong", "blank"}
    <3>1. T \ {k} \in SUBSET D /\ sheet[p[k]] \in {"right", "wrong", "blank"}
      BY <1>1
    <3> HIDE DEF Count
    <3> QED
      BY <1>5, <2>1, <3>1
  <2>6. brings(T)[j] = brings(T \ {k})[j] + delta[k]
    <3> HIDE DEF Count
    <3> PICK m \in Int, e \in Int, r \in Nat, w \in Nat :
          /\ m = c[j].mark /\ e = c[j].penalty
          /\ r = Count(T \ {k}, j, "right") /\ w = Count(T \ {k}, j, "wrong")
      BY <1>0, <2>1, <2>5
    <3>1. /\ brings(T \ {k})[j] = m * r - e * w
          /\ brings(T)[j] = m * Count(T, j, "right") - e * Count(T, j, "wrong")
      BY <2>1
    <3>2. /\ m * (r + 1) - e * w = (m * r - e * w) + m
          /\ m * r - e * (w + 1) = (m * r - e * w) + (0 - e)
          /\ (m * r - e * w) + 0 = m * r - e * w
      <4>1. /\ m * (r + 1) = m * r + m /\ e * (w + 1) = e * w + e
            /\ m * r \in Int /\ e * w \in Int
        BY ProductSteps
      <4> PICK u \in Int, v \in Int : u = m * r /\ v = e * w
        BY <4>1
      <4>2. (u + m) - v = (u - v) + m /\ u - (v + e) = (u - v) + (0 - e) /\ (u - v) + 0 = u - v
        OBVIOUS
      <4> QED
        BY <4>1, <4>2, Zenon
    <3> HIDE DEF brings
    <3>3. CASE sheet[p[k]] = "right"
      <4>1. Count(T, j, "right") = r + 1 /\ Count(T, j, "wrong") = w /\ delta[k] = m
        BY <1>3, <1>7, <2>1, <2>3, <2>4, <3>3
      <4> QED
        BY <3>1, <3>2, <4>1, Zenon
    <3>4. CASE sheet[p[k]] = "wrong"
      <4>1. Count(T, j, "right") = r /\ Count(T, j, "wrong") = w + 1 /\ delta[k] = 0 - e
        BY <1>3, <1>7, <2>1, <2>3, <2>4, <3>4
      <4> QED
        BY <3>1, <3>2, <4>1, Zenon
    <3>5. CASE sheet[p[k]] = "blank"
      <4>1. Count(T, j, "right") = r /\ Count(T, j, "wrong") = w /\ delta[k] = 0
        BY <1>3, <1>7, <2>1, <2>4, <3>5
      <4> QED
        BY <3>1, <3>2, <4>1, Zenon
    <3> QED
      BY <2>5, <3>3, <3>4, <3>5
  <2>7. \A i \in S \ {j} : brings(T)[i] = brings(T \ {k})[i]
    <3> HIDE DEF Count
    <3> QED
      BY <2>4
  <2> QED
    BY <2>1, <2>6, <2>7
<1> DEFINE G == {T \in SUBSET D : SumFunctionOnSet(delta, T) = SumFunctionOnSet(brings(T), S)}
<1>8. ASSUME NEW T \in SUBSET D, \A k \in T : T \ {k} \in G PROVE T \in G
  <2>1. CASE T = {}
    <3>1. \A i \in S : brings(T)[i] = 0
      <4>1. ASSUME NEW i \in S, NEW how PROVE Count(T, i, how) = 0
        <5>1. Of(T, i, how) = {}
          BY <2>1
        <5> QED
          BY <5>1, FS_EmptySet
      <4> HIDE DEF Count
      <4>2. ASSUME NEW i \in S PROVE brings(T)[i] = 0
        <5> PICK m \in Int, e \in Int : m = c[i].mark /\ e = c[i].penalty
          BY <1>0
        <5>1. brings(T)[i] = m * 0 - e * 0
          BY <4>1
        <5> QED
          BY <5>1
      <4> QED
        BY <4>2
    <3>2. brings(T) \in [S -> Int]
      BY <1>6
    <3> HIDE DEF brings, S
    <3>3. SumFunctionOnSet(brings(T), S) = 0
      BY <1>0, <3>1, <3>2, SumOfZeros, Zenon
    <3>4. SumFunctionOnSet(delta, {}) = 0
      BY <1>1, SumUnfolds, Zenon
    <3> QED
      BY <2>1, <3>3, <3>4
  <2>2. ASSUME NEW k \in T PROVE T \in G
    <3>1. PICK j : Placed(c, p, k, j)
      BY <1>2
    <3>2. /\ j \in S /\ brings(T)[j] = brings(T \ {k})[j] + delta[k]
          /\ \A i \in S \ {j} : brings(T)[i] = brings(T \ {k})[i]
      <4> HIDE DEF brings
      <4> QED
        BY <1>7, <3>1, ZenonT(60)
    <3>3. brings(T) \in [S -> Int] /\ brings(T \ {k}) \in [S -> Int] /\ delta[k] \in Int
      <4>1. T \ {k} \in SUBSET D
        OBVIOUS
      <4> HIDE DEF brings
      <4> QED
        BY <1>4, <1>6, <4>1
    <3>4. SumFunctionOnSet(delta, T) = delta[k] + SumFunctionOnSet(delta, T \ {k})
      BY <1>1, <1>4, SumTakes
    <3>5. SumFunctionOnSet(delta, T \ {k}) = SumFunctionOnSet(brings(T \ {k}), S)
      BY <2>2, <1>8
    <3> HIDE DEF brings, S
    <3> PICK f \in [S -> Int], g \in [S -> Int], d \in Int :
          f = brings(T) /\ g = brings(T \ {k}) /\ d = delta[k]
      BY <3>3
    <3>6. f[j] = g[j] + d /\ \A i \in S \ {j} : f[i] = g[i]
      BY <3>2
    <3>7. SumFunctionOnSet(f, S) = SumFunctionOnSet(g, S) + d
      <4>1. IsFiniteSet(S)
        BY <1>0
      <4>2. j \in S
        BY <3>2
      <4>3. f[j] = g[j] + d
        BY <3>6
      <4>4. \A y \in S \ {j} : f[y] = g[y]
        BY <3>6
      <4> QED
        BY <4>1, <4>2, <4>3, <4>4, OneMore, Zenon
    <3>8. SumFunctionOnSet(g, S) \in Int
      BY <1>0, SumIsInt
    <3>9. SumFunctionOnSet(delta, T) = SumFunctionOnSet(brings(T), S)
      BY <3>4, <3>5, <3>7, <3>8
    <3> QED
      BY <3>9
  <2> QED
    BY <2>1, <2>2
<1>9. SumFunctionOnSet(delta, D) = SumFunctionOnSet(brings(D), S)
  <2> HIDE DEF G, D
  <2>1. \A T \in SUBSET D : T \in G
    BY <1>1, <1>8, SetInduction
  <2> QED
    BY <2>1 DEF G
<1>10. ASSUME NEW i \in S, NEW how PROVE Of(D, i, how) = Given(c, p, i) \cap Answered(p, sheet, how)
  BY DEF Answered, Given, Range
<1>11. brings(D) =
         [i \in DOMAIN c |->
            c[i].mark * Cardinality(Given(c, p, i) \cap Answered(p, sheet, "right"))
              - c[i].penalty
                  * Cardinality(Given(c, p, i) \cap Answered(p, sheet, "wrong"))]
  BY <1>10, Zenon
<1>12. Evaluate(c, FixedItems(c), p, sheet).total = SumFunctionOnSet(delta, D)
  BY DEF Evaluate, delta
<1> HIDE DEF brings
<1> QED
  BY <1>9, <1>11, <1>12
-----------------------------------------------------------------------------
(* Attempts that no update has overtaken *)

\* The test an attempt began with is the one there is: its paper is one of this test, a request
\* under way works with this test, and a score is what this test makes of the answers.
AsBegun(a) ==
  /\ status[a] # "none" => Selection(fixed, config, paper[a])
  /\ status[a] = "EVALUATED" =>
       /\ answers[a] \in Sheets
       /\ score[a] = Evaluate(config, fixed, paper[a], answers[a])
  /\ \A r \in Requests : job[r].attempt = a =>
       /\ job[r].pc \in {"selecting", "creating", "marking", "submitting"} =>
            job[r].config = config
       /\ job[r].pc = "creating" => Selection(fixed, config, job[r].paper)
       /\ job[r].pc = "submitting" => job[r].fixed = fixed

Unovertaken ==
  /\ Acceptable(config)
  /\ \A a \in Attempts \ edited : AsBegun(a)

\* An administrator's update overtakes whatever has begun, and nothing else changes a test.
LEMMA UpdateOvertakes ==
  ASSUME IInv, Unovertaken, Administrator
  PROVE  Unovertaken'
<1>1. ASSUME NEW c \in Configs, UpdateTest(c) PROVE Unovertaken'
  <2>1. Acceptable(config)'
    BY <1>1 DEF UpdateTest, Acceptable
  <2>2. ASSUME NEW a \in Attempts, a \notin edited' PROVE AsBegun(a)'
    <3>1. status[a] = "none" /\ \A r \in Requests : job[r].attempt # a
      BY <1>1, <2>2 DEF UpdateTest, Begun
    <3>2. status'[a] = "none" /\ \A r \in Requests : job'[r].attempt # a
      BY <1>1, <3>1 DEF UpdateTest, attemptRow
    <3> QED
      BY <3>2 DEF AsBegun
  <2> QED
    BY <2>1, <2>2 DEF Unovertaken
<1>2. CASE Publish \/ CountAttempts
  <2>1. UNCHANGED <<config, fixed, edited, attemptRow, job>>
    BY <1>2 DEF Publish, CountAttempts, testRow
  <2> QED
    BY <2>1 DEF Unovertaken, AsBegun, attemptRow
<1>3. CASE DeleteTest
  <2>1. UNCHANGED <<config, fixed, edited, paper, answers, score, job>>
    BY <1>3 DEF DeleteTest
  <2>2. \A a \in Attempts : /\ status'[a] # "EVALUATED"
                            /\ status'[a] # "none" => status[a] # "none"
    BY <1>3 DEF DeleteTest
  <2>3. ASSUME NEW a \in Attempts \ edited PROVE AsBegun(a)'
    <3>1. AsBegun(a)
      BY DEF Unovertaken
    <3> QED
      BY <2>1, <2>2, <3>1 DEF AsBegun
  <2> QED
    BY <2>1, <2>3 DEF Unovertaken
<1> QED
  BY <1>1, <1>2, <1>3 DEF Administrator

\* A request begins or goes on without touching a row.
LEMMA ReadingKeepsTest ==
  ASSUME IInv, Unovertaken, NEW r \in Requests, UNCHANGED attemptRow, Keep,
         NEW j, job' = [job EXCEPT ![r] = j],
         j.attempt \in Attempts \ edited =>
           /\ j.pc \in {"selecting", "creating", "marking", "submitting"} =>
                j.config = config
           /\ j.pc = "creating" => Selection(fixed, config, j.paper)
           /\ j.pc = "submitting" => j.fixed = fixed
  PROVE  Unovertaken'
<1>1. UNCHANGED <<config, fixed, edited, status, paper, answers, score>>
  BY DEF Keep, testRow, attemptRow
<1>2. job'[r] = j /\ \A q \in Requests \ {r} : job'[q] = job[q]
  BY DEF IInv, TypeOK
<1>3. ASSUME NEW a \in Attempts \ edited PROVE AsBegun(a)'
  <2>1. AsBegun(a)
    BY DEF Unovertaken
  <2> QED
    BY <1>1, <1>2, <2>1 DEF AsBegun
<1> QED
  BY <1>1, <1>3 DEF Unovertaken

\* A request writes its attempt and ends.
LEMMA WritingKeepsTest ==
  ASSUME IInv, Unovertaken, NEW r \in Requests,
         CreateAttempt(r) \/ WriteSave(r) \/ WriteSubmit(r)
  PROVE  Unovertaken'
<1> DEFINE a == job[r].attempt
<1>1. UNCHANGED <<config, fixed, edited>>
  BY DEF CreateAttempt, WriteSave, WriteSubmit, Keep, testRow
<1>2. /\ job'[r] = Idle /\ \A q \in Requests \ {r} : job'[q] = job[q]
      /\ a \in Attempts
  BY DEF IInv, TypeOK, Phase, CreateAttempt, WriteSave, WriteSubmit
<1>3. \A b \in Attempts \ {a} : /\ status'[b] = status[b] /\ paper'[b] = paper[b]
                                /\ answers'[b] = answers[b] /\ score'[b] = score[b]
  BY DEF IInv, TypeOK, CreateAttempt, WriteSave, WriteSubmit, attemptRow
<1>4. ASSUME NEW b \in Attempts \ edited PROVE AsBegun(b)'
  <2>1. AsBegun(b)
    BY DEF Unovertaken
  <2>2. \A q \in Requests : job'[q].attempt = b =>
          /\ job'[q].pc \in {"selecting", "creating", "marking", "submitting"} =>
               job'[q].config = config
          /\ job'[q].pc = "creating" => Selection(fixed, config, job'[q].paper)
          /\ job'[q].pc = "submitting" => job'[q].fixed = fixed
    BY <1>2, <2>1, IdleType DEF AsBegun
  <2>3. /\ status'[b] # "none" => Selection(fixed, config, paper'[b])
        /\ status'[b] = "EVALUATED" =>
             /\ answers'[b] \in Sheets
             /\ score'[b] = Evaluate(config, fixed, paper'[b], answers'[b])
    <3>1. CASE b # a
      BY <1>3, <2>1, <3>1 DEF AsBegun
    <3>2. CASE b = a /\ CreateAttempt(r)
      <4>1. Selection(fixed, config, job[r].paper)
        BY <2>1, <3>2 DEF AsBegun, CreateAttempt
      <4>2. \/ UNCHANGED attemptRow
            \/ status'[b] = "STARTED" /\ paper'[b] = job[r].paper
        BY <1>2, <3>2 DEF CreateAttempt, IInv, TypeOK, attemptRow
      <4> QED
        BY <2>1, <4>1, <4>2 DEF AsBegun, attemptRow
    <3>3. CASE b = a /\ WriteSave(r)
      <4>1. \/ UNCHANGED attemptRow
            \/ status'[b] = "IN_PROGRESS" /\ paper' = paper
        BY <1>2, <3>3 DEF WriteSave, IInv, TypeOK, attemptRow
      <4>2. status[b] # "none"
        BY <1>2, <3>3 DEF WriteSave, IInv, Phase, Writing
      <4> QED
        BY <2>1, <4>1, <4>2 DEF AsBegun, attemptRow
    <3>4. CASE b = a /\ WriteSubmit(r)
      <4>1. /\ job[r].config = config /\ job[r].fixed = fixed /\ job[r].paper = paper[b]
            /\ status[b] # "none" /\ job[r].sheet \in Sheets
        BY <1>2, <2>1, <3>4 DEF WriteSubmit, IInv, Phase, Writing, AsBegun
      <4>2. \/ UNCHANGED attemptRow
            \/ /\ status'[b] = "EVALUATED" /\ paper' = paper
               /\ answers'[b] = job[r].sheet
               /\ score'[b] = Evaluate(job[r].config, job[r].fixed, job[r].paper, job[r].sheet)
        BY <1>2, <3>4 DEF WriteSubmit, StoredWithScore, IInv, TypeOK, attemptRow
      <4> QED
        BY <2>1, <4>1, <4>2 DEF AsBegun, attemptRow
    <3> QED
      BY <3>1, <3>2, <3>3, <3>4
  <2> QED
    BY <1>1, <2>2, <2>3 DEF AsBegun
<1> QED
  BY <1>1, <1>4 DEF Unovertaken

LEMMA StudentKeepsTest ==
  ASSUME IInv, Unovertaken, NEW r \in Requests, Student(r)
  PROVE  Unovertaken'
<1>1. ASSUME NEW a \in Attempts, BeginStart(r, a) PROVE Unovertaken'
  <2> DEFINE j == Request("selecting", a, "none", config, <<>>, <<>>, NoSheet)
  <2>1. j.pc = "selecting" /\ j.config = config
    BY DEF Request
  <2>2. UNCHANGED attemptRow /\ Keep /\ job' = [job EXCEPT ![r] = j]
    BY <1>1 DEF BeginStart
  <2> HIDE DEF j
  <2> QED
    BY <2>1, <2>2, ReadingKeepsTest
<1>2. ASSUME NEW p \in Papers, SelectQuestions(r, p) PROVE Unovertaken'
  <2> DEFINE j == [job[r] EXCEPT !.pc = "creating", !.paper = p]
  <2>1. /\ j.pc = "creating" /\ j.config = job[r].config /\ j.paper = p
        /\ j.attempt = job[r].attempt
    BY DEF IInv, TypeOK, RequestType
  <2>2. job[r].attempt \in Attempts \ edited => job[r].config = config
    BY <1>2 DEF SelectQuestions, Unovertaken, AsBegun
  <2>3. Selection(fixed, job[r].config, p)
    BY <1>2 DEF SelectQuestions
  <2>4. UNCHANGED attemptRow /\ Keep /\ job' = [job EXCEPT ![r] = j]
    BY <1>2 DEF SelectQuestions, IInv, TypeOK, RequestType
  <2> HIDE DEF j
  <2> QED
    BY <2>1, <2>2, <2>3, <2>4, ReadingKeepsTest
<1>3. ASSUME NEW a \in Attempts, NEW s \in Sheets \cup {NoSheet},
             BeginSave(r, a, s) \/ BeginSubmit(r, a, s)
      PROVE  Unovertaken'
  <2>1. PICK j : /\ job' = [job EXCEPT ![r] = j]
                 /\ \/ j.pc = "saving"
                    \/ j.pc = "marking" /\ j.config = config
    <3>1. CASE BeginSave(r, a, s)
      <4> DEFINE j == Request("saving", a, status[a], <<>>, <<>>, <<>>, Sent(a, s))
      <4>1. j.pc = "saving"
        BY DEF Request
      <4>2. job' = [job EXCEPT ![r] = j]
        BY <3>1 DEF BeginSave
      <4> HIDE DEF j
      <4> QED
        BY <4>1, <4>2
    <3>2. CASE BeginSubmit(r, a, s)
      <4> DEFINE j == Request("marking", a, status[a], config, <<>>, paper[a], Sent(a, s))
      <4>1. j.pc = "marking" /\ j.config = config
        BY DEF Request
      <4>2. job' = [job EXCEPT ![r] = j]
        BY <3>2 DEF BeginSubmit
      <4> HIDE DEF j
      <4> QED
        BY <4>1, <4>2
    <3> QED
      BY <1>3, <3>1, <3>2
  <2>2. UNCHANGED attemptRow /\ Keep
    BY <1>3 DEF BeginSave, BeginSubmit
  <2> QED
    BY <2>1, <2>2, ReadingKeepsTest
<1>4. CASE ReadMarks(r)
  <2> DEFINE j == [job[r] EXCEPT !.pc = "submitting", !.fixed = fixed]
  <2>1. /\ j.pc = "submitting" /\ j.config = job[r].config /\ j.fixed = fixed
        /\ j.attempt = job[r].attempt
    BY DEF IInv, TypeOK, RequestType
  <2>2. job[r].attempt \in Attempts \ edited => job[r].config = config
    BY <1>4 DEF ReadMarks, Unovertaken, AsBegun
  <2>3. UNCHANGED attemptRow /\ Keep /\ job' = [job EXCEPT ![r] = j]
    BY <1>4 DEF ReadMarks, IInv, TypeOK, RequestType
  <2> HIDE DEF j
  <2> QED
    BY <2>1, <2>2, <2>3, ReadingKeepsTest
<1> QED
  BY <1>1, <1>2, <1>3, <1>4, WritingKeepsTest DEF Student

THEOREM NobodyOvertakesUnseen == Spec => []Unovertaken
<1>1. Init => Unovertaken
  <2> SUFFICES ASSUME Init PROVE Unovertaken
    OBVIOUS
  <2>1. Acceptable(config)
    BY DEF Init
  <2>2. ASSUME NEW a \in Attempts PROVE AsBegun(a)
    BY IdleType, AttemptsAssumption DEF Init, AsBegun
  <2> QED
    BY <2>1, <2>2 DEF Unovertaken
<1>2. IInv /\ Unovertaken /\ [Next]_vars => Unovertaken'
  <2>1. ASSUME Unovertaken, UNCHANGED vars PROVE Unovertaken'
    BY <2>1 DEF Unovertaken, AsBegun, vars, testRow, attemptRow
  <2> QED
    BY <2>1, UpdateOvertakes, StudentKeepsTest DEF Next
<1> QED
  BY <1>1, <1>2, Induction, PTL DEF Spec

\* Where the sections of every test can be told apart, an evaluated attempt whose test nobody
\* edited counts each question with the mark and the penalty of the section that gave it.
THEOREM SectionsScoreTheirOwn ==
  ASSUME \A c \in Configs : ToldApart(c)
  PROVE  Spec => []ScoredBySection
<1>1. IInv /\ Unovertaken => ScoredBySection
  <2> SUFFICES ASSUME IInv, Unovertaken, NEW a \in Attempts,
                      status[a] = "EVALUATED" /\ a \notin edited
               PROVE  score[a].total =
                        SumFunctionOnSet(
                          [i \in DOMAIN config |->
                             config[i].mark
                               * Cardinality(Given(config, paper[a], i) \cap score[a].right)
                             - config[i].penalty
                               * Cardinality(Given(config, paper[a], i) \cap score[a].wrong)],
                          DOMAIN config)
    BY Zenon DEF ScoredBySection
  <2>1. /\ config \in Configs /\ ToldApart(config) /\ fixed = FixedItems(config)
        /\ paper[a] \in Papers /\ Acceptable(config)
    BY DEF IInv, TypeOK, Unovertaken
  <2>2. /\ Selection(FixedItems(config), config, paper[a])
        /\ score[a] = Evaluate(config, FixedItems(config), paper[a], answers[a])
    BY <2>1 DEF Unovertaken, AsBegun
  <2>3. answers[a] \in [Questions -> {"right", "wrong", "blank"}]
    BY AttemptsAssumption DEF Unovertaken, AsBegun
  <2>4. /\ score[a].right = Answered(paper[a], answers[a], "right")
        /\ score[a].wrong = Answered(paper[a], answers[a], "wrong")
    BY DEF IInv, ScoreOfStoredAnswers
  <2>5. score[a].total =
          SumFunctionOnSet(
            [i \in DOMAIN config |->
               config[i].mark * Cardinality(Given(config, paper[a], i)
                                            \cap Answered(paper[a], answers[a], "right"))
               - config[i].penalty * Cardinality(Given(config, paper[a], i)
                                                 \cap Answered(paper[a], answers[a], "wrong"))],
            DOMAIN config)
    <3>1. ToldApart(config) /\ Acceptable(config) /\ paper[a] \in Papers
      BY <2>1
    <3>2. Selection(FixedItems(config), config, paper[a])
      BY <2>2
    <3>3. Evaluate(config, FixedItems(config), paper[a], answers[a]).total = score[a].total
      BY <2>2
    <3> QED
      BY <2>3, <3>1, <3>2, <3>3, TotalBySection, Zenon
  <2> QED
    BY <2>4, <2>5
<1> QED
  BY <1>1, Induction, NobodyOvertakesUnseen, PTL
=============================================================================
