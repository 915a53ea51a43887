--------------------------- MODULE TestAttemptsMC ---------------------------
(***************************************************************************)
(* Small instances of TestAttempts for TLC.                                *)
(***************************************************************************)
EXTENDS TestAttempts, TLC

CONSTANTS q1, q2, q3, a1, r1, r2

Section(ids, pool, count, mark, penalty) ==
  [ids |-> ids, pool |-> pool, count |-> count, mark |-> mark, penalty |-> penalty]

\* Two fixed sections with different marks, and two drawn from pools; the first
\* section of the second test has a choice.
FixedTest ==
  <<Section(<<q1>>, {}, 1, 8, 4), Section(<<q3, q2>>, {}, 2, 4, 0)>>
DrawnTest ==
  <<Section(<<>>, {q1, q2}, 1, 4, 0), Section(<<>>, {q3}, 1, 8, 4)>>

\* The preset with a quarter off for a wrong answer.
PresetTest == <<Section(<<>>, {q1, q2}, 1, 4, 1)>>
AllTests == {FixedTest, DrawnTest, PresetTest}
OnlyPreset == {PresetTest}

\* The tests are such that ScoredBySection can be asked of them.
ASSUME SectionsToldApart == \A c \in Configs : ToldApart(c)

Sheet(x, y, z) == [q \in Questions |-> IF q = q1 THEN x ELSE IF q = q2 THEN y ELSE z]
SomeSheets ==
  {Sheet("right", "wrong", "blank"), Sheet("wrong", "right", "right"),
   Sheet("blank", "blank", "wrong")}
=============================================================================
