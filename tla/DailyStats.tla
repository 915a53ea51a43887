------------------------------ MODULE DailyStats ------------------------------
(***************************************************************************)
(* The daily statistics: src/modules/analytics/analytics.rollup.service.   *)
(*                                                                         *)
(* At three every morning each process counts what happened yesterday, one *)
(* statement per metric and in no order, and then writes every metric.     *)
(* Three metrics stand for the eight: a count of orders, a sum over the    *)
(* same orders, and a count of users by the last time they read a note.    *)
(***************************************************************************)
EXTENDS Naturals, FiniteSets

CONSTANTS
  Processes,    \* processes that run the schedule
  Sales,        \* orders, each of the price one
  Readers,      \* students
  MaxDay        \* bound: days

ASSUME DailyStatsAssumption ==
  IsFiniteSet(Sales) /\ IsFiniteSet(Readers) /\ MaxDay \in Nat \ {0}

Metrics == {"orders", "revenue", "active"}
Dates == 0 .. MaxDay

VARIABLES
  today,     \* the day, and whether it is past three
  sale,      \* each order: its status and the day of completedAt
  readOn,    \* the day of noteProgress.updatedAt, 0 for none
  stats,     \* the value written for a day, at least 0, or none
  rollup,    \* where each process is
  ran,       \* the last day each process began a rollup
  readers,   \* history: who read on which day
  refunded,  \* history: days with an order refunded after a rollup of them began
  early      \* history: who read again before three, and so left yesterday

dvars == <<today, sale, readOn, stats, rollup, ran, readers, refunded, early>>

Missing == Cardinality(Sales) + Cardinality(Readers) + 1
AtRest ==
  [pc |-> "rest", day |-> 0, unread |-> {}, got |-> [m \in Metrics |-> 0], unwritten |-> {}]

DailyStatsInit ==
  /\ today = [day |-> 1, three |-> TRUE]
  /\ sale = [o \in Sales |-> [status |-> "PENDING", day |-> 0]]
  /\ readOn = [u \in Readers |-> 0]
  /\ stats = [d \in Dates |-> [m \in Metrics |-> Missing]]
  /\ rollup = [p \in Processes |-> AtRest]
  /\ ran = [p \in Processes |-> 1]
  /\ readers = [d \in Dates |-> {}] /\ refunded = {} /\ early = [d \in Dates |-> {}]

-----------------------------------------------------------------------------
(* What is counted *)

Pay(o) ==
  /\ sale[o].status = "PENDING"
  /\ sale' = [sale EXCEPT ![o] = [status |-> "SUCCESS", day |-> today.day]]
  /\ UNCHANGED <<today, readOn, stats, rollup, ran, readers, refunded, early>>

\* A refund takes the order from the day it was paid, whose rollup may have begun.
Refund(o) ==
  /\ sale[o].status = "SUCCESS"
  /\ sale' = [sale EXCEPT ![o].status = "REFUNDED"]
  /\ refunded' = IF \E p \in Processes : ran[p] > sale[o].day
                   THEN refunded \cup {sale[o].day} ELSE refunded
  /\ UNCHANGED <<today, readOn, stats, rollup, ran, readers, early>>

\* The row keeps the last time only.
ReadNote(u) ==
  /\ readOn[u] # today.day
  /\ readOn' = [readOn EXCEPT ![u] = today.day]
  /\ readers' = [readers EXCEPT ![today.day] = @ \cup {u}]
  /\ early' = IF readOn[u] # 0 THEN [early EXCEPT ![readOn[u]] = @ \cup {u}] ELSE early
  /\ UNCHANGED <<today, sale, stats, rollup, ran, refunded>>

\* A rollup takes less than the hours until midnight.
PassTime ==
  /\ \A p \in Processes : rollup[p].pc = "rest"
  /\ IF today.three
       THEN today.day < MaxDay /\ today' = [day |-> today.day + 1, three |-> FALSE]
       ELSE today' = [today EXCEPT !.three = TRUE]
  /\ UNCHANGED <<sale, readOn, stats, rollup, ran, readers, refunded, early>>

-----------------------------------------------------------------------------
(* recomputeYesterday *)

\* Once a day; a process that is down at three does not catch up.
BeginRollup(p) ==
  /\ rollup[p] = AtRest /\ today.three /\ ran[p] < today.day
  /\ ran' = [ran EXCEPT ![p] = today.day]
  /\ rollup' = [rollup EXCEPT ![p] =
       [AtRest EXCEPT !.pc = "reading", !.day = today.day - 1, !.unread = Metrics]]
  /\ UNCHANGED <<today, sale, readOn, stats, readers, refunded, early>>

PaidOn(d) == {o \in Sales : sale[o] = [status |-> "SUCCESS", day |-> d]}
CountOf(d, m) ==
  IF m = "active" THEN Cardinality({u \in Readers : readOn[u] = d}) ELSE Cardinality(PaidOn(d))

ReadMetric(p, m) ==
  /\ m \in rollup[p].unread
  /\ rollup' = [rollup EXCEPT ![p].unread = @ \ {m}, ![p].got[m] = CountOf(rollup[p].day, m)]
  /\ UNCHANGED <<today, sale, readOn, stats, ran, readers, refunded, early>>

BeginWrites(p) ==
  /\ rollup[p].pc = "reading" /\ rollup[p].unread = {}
  /\ rollup' = [rollup EXCEPT ![p].pc = "writing", ![p].unwritten = Metrics]
  /\ UNCHANGED <<today, sale, readOn, stats, ran, readers, refunded, early>>

WriteMetric(p, m) ==
  /\ m \in rollup[p].unwritten
  /\ stats' = [stats EXCEPT ![rollup[p].day][m] = rollup[p].got[m]]
  /\ rollup' = IF rollup[p].unwritten = {m} THEN [rollup EXCEPT ![p] = AtRest]
               ELSE [rollup EXCEPT ![p].unwritten = @ \ {m}]
  /\ UNCHANGED <<today, sale, readOn, ran, readers, refunded, early>>

\* A statement fails or the process stops; what is written stays.
LoseRollup(p) ==
  /\ rollup[p].pc # "rest" /\ rollup' = [rollup EXCEPT ![p] = AtRest]
  /\ UNCHANGED <<today, sale, readOn, stats, ran, readers, refunded, early>>

DailyStatsNext ==
  \/ \E o \in Sales : Pay(o) \/ Refund(o)
  \/ \E u \in Readers : ReadNote(u)
  \/ PassTime
  \/ \E p \in Processes :
       \/ BeginRollup(p) \/ BeginWrites(p) \/ LoseRollup(p)
       \/ \E m \in Metrics : ReadMetric(p, m) \/ WriteMetric(p, m)

DailyStatsSpec == DailyStatsInit /\ [][DailyStatsNext]_dvars

-----------------------------------------------------------------------------
(* Properties *)

\* Values, rollups and days have the shape of the schema and the code.
DailyStatsTypeOK ==
  /\ stats \in [Dates -> [Metrics -> 0 .. Missing]]
  /\ \A p \in Processes :
       rollup[p].pc \in {"rest", "reading", "writing"} /\ rollup[p].day < today.day
  /\ \A o \in Sales : sale[o].day <= today.day
  /\ \A u \in Readers : readOn[u] <= today.day

Known(d, m) == stats[d][m] # Missing

\* The orders and the revenue written for a day are those of the day's orders that are
\* paid, unless one was refunded after the counting began.
RevenueOfOrders ==
  \A d \in Dates \ refunded : \A m \in {"orders", "revenue"} :
    Known(d, m) =>
      stats[d][m] = Cardinality({o \in Sales : sale[o].day = d /\ sale[o].status = "SUCCESS"})

\* Who read on a day is counted, but for those who read again before it was counted.
ReadersCounted ==
  \A d \in Dates : Known(d, "active") =>
    /\ stats[d]["active"] >= Cardinality(readers[d] \ early[d])
    /\ stats[d]["active"] <= Cardinality(readers[d])
=============================================================================
