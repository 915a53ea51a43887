# Verification of the Dhurandhar backend

TLA+ models of the NestJS backend under `src/`, the TLC configurations that
check them on small instances, and proofs that hold for instances of any size.

The program is a set of NestJS services over one Postgres database (through
Prisma), a Redis/BullMQ queue pair, an object store and a payment provider
(PhonePe). Services keep almost nothing in memory: their state is in rows, and a
handler is a sequence of awaited statements, most of them outside transactions.
Several processes may run the same code. So the question the whole program
raises is the same everywhere: what may happen between two awaits. Every model
takes one statement as one step and lets any other handler run in between.

## 1. Inventory

| Part | State | Operations | What is hard | What makes it correct |
|---|---|---|---|---|
| Payment orders (`payments.service`, `payments.reconcile.service`) | `paymentOrder`, `paymentTransaction`, `paymentEvent` rows; the provider's order | `checkout`, status poll, webhook, `adminFinalize`, reconcile tick, `expireStaleOrders`, refunds | unconditional writes of values read before a provider call; webhook, poll and sweep on one order; deaths between status and activation; refunds summed from events | only paid orders grant; every order closes; a paid order is granted or accounted for; no more is paid back than was paid |
| Provider (`phonepe.service`) | a token in memory | calls, status, refunds | a token shared by all calls, refused and fetched again | a call repeated after a refusal acts once |
| Subscriptions and entitlements (`subscriptions.service`, `entitlement.service`) | `subscription`, `entitlement` | `activateSubscription`, `expireSubscriptionsByIds`, entitlement grants, AutoPay extension | stack or replace decided, and days computed, on rows read earlier; unique `paymentOrderId` hit after the replacement | the days of one purchase and those of another do not overlap; entitlements are for the days of their subscription; one grant per order |
| Plans and coupons (`plans.service`, `coupons.service`) | `plan`, `coupon`, `couponRedemption` | edit, switch off, delete, resolve, redeem | a length kept twice; counts before deletions | the two lengths agree; an order keeps its plan |
| AutoPay (`payments.autopay.service`, `payments.service`) | `paymentMandate`, charge orders | setup, charge tick, notify, execute, reminders | overlapping ticks; a charge expired by the sweep while in execution; a provider that retries | one debit per period, a period for each debit; a due mandate is charged |
| Sessions (`auth.service`, `auth-session.service`, `auth-token.service`) | `refreshSession`, `user.activeStudentSessionId` | register, login, refresh, logout, validation, password reset | rows locked in opposite orders; snapshots of `updateMany`; adoption on an old read | one refreshable session per login; logged out means out; one device, and the active one gives way to a login or to its own rotation |
| One-time codes (`auth.service`) | `otpCode`, `passwordResetToken` | request, verify, registration, reset | checks outside the consuming write | a code is spent once; limits on requests |
| Users and audit (`users.service`, `audit.service`) | `user`, roles, `auditLog` | block, force logout, edits of type and roles, manual activation, revocation | compensation after a late error; a role written on an old reading | an order tells what was granted; a super administrator remains |
| Site settings (`site-settings.service`) | a snapshot of the configuration in memory | read, refresh | thirty-second staleness, a load shared by its callers | a copy never goes back |
| Test engine (`test-engine.service`) | `test`, `attempt`, event log | start, save, submit, read, publish, delete | save against submit | a submitted attempt stays submitted; its score is of its answers |
| Print engine (`print-engine.service`, `print-jobs.consumer`) | `printJob`, queue entries, assets; the promise of an installation | create, process, cancel, retry, delete, boot requeue, render | cancel against the worker's final write; death of a worker; renderings that share an installation | a cancelled job stays cancelled; every job ends; one installation at a time |
| Notifications (`notifications.service`, `.consumer`) | `broadcast`, `notificationMessage`, queue | create, schedule, cancel, tick, dispatch, send, retry | overlapping dispatches; a cursor on rows that change; a mail that leaves before it is noted | each reader of the audience gets one message, each message is one mail |
| Notes (`note-access.service`, `notes.service`) | `noteViewSession`, access log | open a view, page reads, revoke, ban | count, then create | number of open views; nothing read after the end |
| CMS (`cms.service`) | configuration versions, pages, banners | draft, publish, roll back | archive and publish under read committed | one version live |
| Taxonomy, question bank, files | `subject`, `topic`, `question`, `fileAsset`, `assetReference` | create, move, edit, delete, open | a walk over rows that move; references rewritten from an old reading | topics form a tree; references are those of the content |
| Practice (`practice.service`, `question-bank.service`) | `practiceSession`, events, counters | start, serve, answer, end; move and delete a question | batches that lock rows in opposite orders; topics read before the transaction | counters tell the answers |
| Access control, policies | roles, policies | evaluate, edit, delete | role counted, then deleted | administrators hold roles |
| Analytics rollup | daily rows | count, write | counts taken while the day's rows still change | figures of a day agree |
| Seed (`seed.service`) | the rows every start needs | a list of chores at each start | starts at once, deaths between two chores, an administrator's publication in between | what a process has passed is there |
| Search, admin operations, health, `analytics.service` | none | queries | - | - |

Interactions: controllers call services; guards call `auth-session.service`
before each request; `payments.service` calls `subscriptions.service`,
`phonepe.service`, and notifications; `users.service` writes session rows of
`auth.service` directly; the reconcile, AutoPay and broadcast ticks run in every
process; queues deliver to the consumers at least once.

## 2. Modules

| Module | Models |
|---|---|
| `PaidAccess` | what a purchase promises (abstract) |
| `PaymentOrders`, `PaymentOrdersMC`, `PaymentOrdersProofs` | one student's one-time purchases, implementing `PaidAccess` |
| `LoginChains` | what refresh tokens promise (abstract) |
| `AuthSessions`, `AuthSessionsMC`, `AuthSessionsProofs` | one account's refresh sessions, implementing `LoginChains` |
| `TestAttempts`, `TestAttemptsMC`, `TestAttemptsProofs` | one test, its attempts, the student and the administrator |
| `PrintJobs`, `PrintJobsMC`, `PrintJobsProofs` | print jobs over rows, queue and worker |
| `Broadcasts`, `Deliveries`, `MailoutsMC`, `MailoutsProofs` | a broadcast from the desk to a message for each reader; a message from its row to its mail |
| `AutoPay`, `AutoPayMC`, `AutoPayProofs` | a mandate, its setup and its charges |
| `Refunds` | the refunds of one order |
| `ManualGrants` | access an administrator gives and takes |
| `NoteViews` | view sessions of a note |
| `OneTimeCodes` | codes sent to an address, tokens that reset a password |
| `AdminRoles` | types, roles and the deletion of a role |
| `ContentTree` | subjects, topics, questions |
| `AssetUse` | files and what refers to them |
| `PlanCatalog` | plans, coupons and orders linked to them |
| `Settings` | versions of the configuration and the copies of it |
| `Practice` | a practice session and its counters |
| `Seeding` | the chores of a start |
| `DailyStats` | the nightly rollup |
| `ProviderCalls` | calls of the provider and the token they share |
| `Rendering` | printings in one process and the browser they share |
| `Terms` | the days of one student's subscriptions and of their entitlements |
| `OfficeMC`, `ContentProofs`, `OfficeProofs` | the last fifteen, one at a time |

The `...MC` modules give the constants of a run their values; `MailoutsMC` and
`OfficeMC` also put components side by side (section 2.7). The `...Proofs` modules hold the theorems. In every module a definition
that is called a *faulty variant* in its comment (`UnknownIsPaid`, `NeverStale`,
...) is not used by the model: it is a plausible bug of the definition that
follows it, substituted for it to see the property it belongs to fail.

### 2.1 `PaymentOrders`

One student, a set of checkout requests (`Orders`, one order row each) and a set
of concurrent calls of `refreshOrderStatus` (`Jobs`). The status poll, the
webhook, the administrator's finalize and the reconcile tick run the same code
after their own lookup, so a call is a job whoever made it.

- *Rows*: `status`, `lapsed` (`expiresAt` is past), `book` (the rows by
  `createdAt`), `sub` and `access` (the subscription of an order and its
  entitlements), `redemptions`, `onSale`.
- *Provider* (external, from how `phonepe.service` reads it): `attempt`, the
  latest attempt. It may be paid, fail, be retried, expire; the program sees it
  only when a call asks.
- *Program counters*: `checkout[o]` (lookup, create, initiate, attach), `job[p]`
  with the values the call has read. Each await of the code ends a step:
  `BeginRefresh` reads the order, `AskProvider` the provider, `WriteStatus`
  writes what follows from the two reads, and then come the steps of
  `activateSubscription` (`FindPlan`, `LookUpSubscriptions`,
  `ReplaceSubscriptions`, `RevokeEntitlements`, `CreateSubscription`,
  `GrantEntitlements`) and of the redemption.
- *Failures*: `JobDies`, `CheckoutDies` and `ActivationFails` spend one of
  `MaxFaults`; `RefuseActivation` (the plan is off sale) and
  `DuplicateSubscription` (the unique index) are errors the code raises itself
  and swallows.
- *History*: `dropped`, the orders whose activation was given up.

`PaidAccess` says what matters to the student: money first, then one grant, then
perhaps a withdrawal, nothing undone. `KeepsPromise` maps `paid` to the orders
whose attempt was ever paid, `granted` to those with a subscription row, and
`withdrawn` to those whose subscription is EXPIRED.

### 2.2 `AuthSessions`

One account, session ids, and a set of concurrent requests: login or register,
refresh, logout, request validation with its adoption of a session, and the
three operations that end every session (password reset, block, force logout;
one action `EndAll` with its steps, since they run the same statements).

- *Rows*: `made` and `live` (`revokedAt` null), `active`
  (`activeStudentSessionId`).
- *Transactions*: an open transaction has revoked the rows in `held[r]` and may
  have updated the user row (`holder`); nothing of it shows before it commits.
  `seen[r]` is what an `updateMany` still has to revoke: the rows that matched
  when it started, each looked at again after waiting for its holder.
- *Deadlock*: login, refresh and logout take a session row and then the user
  row, `EndAll` the user row and then the sessions. `BreakDeadlock` rolls one of
  a circle back, as the database does (external).
- *Settings*: `Enforced` is a constant of the run (account type and setting);
  the strategy may be another one for each login (`Strategies`).

- *History*: `ended`, the logins a committed `EndAll` ended; `unseen`, the live
  sessions whose request committed after another one that opens a session too had
  looked for those to revoke, and so did not find it.

`LoginChains` is the promise of rotation: a login starts a chain with at most
one refreshable session, refreshing replaces it, an ended chain stays ended.

### 2.3 `TestAttempts`

A test with its configuration, attempts, and the requests of the student that
are under way. `start`, `save` and `submit` read, compute and then write in one
transaction; the read and the write are two steps, and a submission reads the
marks of the questions in a step of its own. Administrators publish, unpublish,
edit (`MaxEdits`) and delete the test by a count and a delete.

Data: marks are in quarters (the shipped presets use 0.25 and 0.5), an answer is
right, wrong or blank, and a sheet of answers is one of `Sheets`.
`Selection`, `RuleAt` and `Cursor` translate how the paper is put together and
which section a position is scored by; `Evaluate` scores a sheet.

### 2.4 `PrintJobs`

A job is a row (`status`, `output`) and perhaps an entry of the queue with the
same id (`entry`, external: absent, waiting, active, over). `thread[t]` is a
request, a boot or a processing, at one of its awaits; a request that processes
its job inline goes on as that processing. `Modes` are the values
`PRINT_FORCE_INLINE_PROCESSING` takes; it is read when the job is created and
again when it is enqueued, and may have changed.

- *Processing*: `ReadJob` (skips CANCELLED and DONE), `StartJob`, `Render`,
  `StorePdf`, `FinishJob` or `FailJob`, and for the worker `Return`, after which
  the queue counts the entry as over. Writes find the row by its id alone.
- *Queue*: adding an id the queue holds adds nothing (`AddEntry`), so the code
  looks at the entry it got back and replaces one that is over (`CheckEntry`);
  `removeExistingQueueJob` leaves an active entry alone.
- *Failures*: `StatementFails`, `QueueFails` and `Die` spend one of `MaxFaults`.
  `Stalled` and `Evict` are the queue's own.
- *History*: `orphaned`, the jobs given up: a job enters it only by one of the
  ways named in section 4.

### 2.5 `Broadcasts` and `Deliveries`

`Broadcasts` follows announcements, their template, and two kinds of threads:
requests of the desk, which read and then write by id alone, and ticks, which
fire every minute whether the last has ended or not. A tick lists what is due
(`StartTick`), reads each broadcast again and dispatches it page by page behind
a cursor (`bstatus`, `made`, `tick`), then writes SENT. Readers join or leave
the audience and switch the channel meanwhile; a cursor whose row has left the
audience makes the page after it skip a reader, as `skip: 1` does. Histories:
`excused` (dispatched again for a reason), `moved` (readers not in the audience
throughout), `jumped` (lost the cursor), `silenced` (cancelled in nobody's hand).

`Deliveries` follows each message through `enqueueMessage`, the queue
(external: an id it holds is not added again, a job without a worker is offered
again once) and `processMessage`: `MarkAttempt`, `SendMail`, `NoteSent` or
`CatchError`, `ReportToQueue`. `risked` are the messages whose mail may have
left without a trace, `lost` those whose last carrier gave up without one.

### 2.6 `AutoPay`

One mandate, its setup order and a set of charges. A worker is a tick, a status
check or a webhook: `Scan`, `LookForPending`, `CreateCharge`,
`PostponeMandate`, `NotifyProvider`, `ExecuteCharge`, then `AskStatus`,
`WriteStatus` and what follows a success (`EnableMandate`, `MoveMandateOn`,
`ActivatePeriod`) or a failure (`RetryMandate`). `SweepBills` is the sweep that
expires lapsed orders, `Debit`, `DebitFails`, `ProviderRetries` and
`ProviderGivesUp` are the provider's. `next` is told apart as due, soon (the
retry interval away) or later (a period after the last payment). `allowed` is the
history of why a debit may come: a period passed, or one of the mishaps the
property names happened since.

### 2.7 The components of `OfficeMC`

The other components share no row in what is modelled, and each is small. They
are modules of their own, with variables of their own, and are checked in one
run: `part` names the component a behaviour follows, the variables of the others
have the value `Off` throughout, and the run's properties are conjunctions of
what the modules state, each conjunct under its `part`. `MailoutsMC` does the
same for its two modules.

- `Refunds`: clerks call `refundOrder` (`FindRefund`, `SumRefunds`,
  `CallProvider`, `RecordRefund`) and `getRefundStatus` (`AskRefund`,
  `NoteStatus`, `ApplyRefunds`, `MarkRefunded`); what was refunded is the sum of
  the latest SUCCESS events.
- `ManualGrants`: `activateSubscriptionByAdmin` statement by statement and
  `revokeEntitlement`; its order is born expired, so the sweep may pass.
- `NoteViews`: `createViewSession` (ban, entitlement, count, create) and
  `streamContent` (ban, session, rate, log) against revocation, ban, publication.
- `OneTimeCodes`: requests with their cooldown and the limit of recent codes,
  verification, registration (which marks its code conditionally) and reset.
- `AdminRoles`: `createUser`, `updateUser` (target read, permission checked, row
  written) and `deleteRole`.
- `ContentTree`: moves of topics with the walk of `assertNoCycle` one parent at
  a time, deletions by counts, questions placed and moved.
- `AssetUse`: uploads, edits of pieces and of notes with their references, their
  deletion, and a student's request for a file. A deletion is two statements: it
  finds the references (`BeginDelete`, `found`) and then comes to the row
  (`Delete`). What an update commits in between is not among the references
  found, and the deletion knows nothing of it (`stale`). An update has its row
  from its first statement on, so its transaction is one step.
- `PlanCatalog`: edits of a plan's length in either of its two forms, orders,
  deletions by counts. A validity is computed as the code does, with a lifetime's
  days from the setting.
- `Settings`: versions made and published in a transaction of two statements
  under read committed (rows locked, looked at again); two caches with shared
  loads, one of which keeps its value when a load fails and one of which falls to
  the defaults.
- `Practice`: a batch of answers reads its questions and their topics (`themeOf`)
  before its transaction, which writes the events, takes counter rows one at a
  time and increments them at commit; two batches may wait for each other. A
  question may have no topic; an editor moves questions to other topics and deletes
  them (`MoveQuestion`, `DeleteQuestion`, which takes the events and the question's
  counters along and leaves the topic's), and the seed's one answer counts nowhere
  (`seeded`). An item may have no verdict, or be skipped with one. A topic with
  counters cannot be deleted, so its deletion is left out.
- `Seeding`: `boot` is where each process is among the chores, in the order of
  `onModuleInit`; every look and every write is a step. An administrator
  publishes, rolls back, deletes and edits meanwhile (`Act`). The completion of the
  settings (`FindOthers`, `TakeOthers`, `CompleteSettings`) and a publication
  (`BeginPublication`, `ArchivePublished`, `PublishSettings`) are transactions of
  two statements each: the first sees what is committed when it starts, waits for
  the rows another one has (`FreeRows`) and archives what is still published of
  what it saw; the second adds or publishes a version. Publications that overlap
  each other are `Settings`'.
- `DailyStats`: counts by separate statements, then one write per metric.
- `ProviderCalls`: a call takes a token, is refused or not, fetches another and
  is sent once more; answers may be lost.
- `Rendering`: three ways of printing in turn, one recovery by installation in
  each; the installation is one promise for the whole process.
- `Terms`: `activateSubscription` seen from the days it computes. `ReadRunning`
  decides to stack or to replace and computes `startsAt` from the latest end it has
  read; the two statements of a replacement, the subscription and its entitlements
  follow one await at a time, while other purchases of the student do the same, the
  daily `expireSubscriptions` runs, days pass and processes die. `span` is the
  history of the days a purchase gave, cut where another one replaced it.

## 3. Plan

Written first: `PaidAccess` and `PaymentOrders`, `LoginChains` and
`AuthSessions`, `TestAttempts`, `PrintJobs`, with their proofs. Then what they
left out, by what can go wrong: money (`AutoPay`, `Refunds`, `ManualGrants`,
`PlanCatalog`, `ProviderCalls`, `Terms`), messages (`Broadcasts`, `Deliveries`), and the
components that look and then write (the rest of `OfficeMC`).

Then the proofs about money and messages (`AutoPayProofs`, `MailoutsProofs`), and
last those that sum or follow a chain: the components of `OfficeMC`
(`ContentProofs`, `OfficeProofs`) and the scores by section
(`TestAttemptsProofs`). Every invariant a run checks is now a theorem; section 8
says what is left to the runs.

Order of work for a module: actions from the code, TLC on two of everything,
properties at the hazards, the strengthened invariant as an invariant of a run,
the proofs.

## 4. What the runs check

All runs finish with the bounds given; the numbers are distinct states.

| Run | Instance | States | Shows |
|---|---|---|---|
| `orders` | 2 orders of a plan without end, 2 calls, coupon for 1, retry, 1 fault | 1,014,348 | `TypeOK`, `GrantOnlyPaid`, `SuccessAccountedFor`, `FailedIsUnpaid`, `TerminalLeftByStaleWriteOnly`, `KeepsPromise` |
| `orders_live` | 1 order of a plan with an end and that may go off sale, 2 calls, 2 faults, fairness | 15,668 | `EveryOrderCloses`, `PaidIsSettled` |
| `orders_replaced` | 1 order, 2 calls, no fault | violation | an activation is replaced by a second one of the same order |
| `orders_granted` | 1 order, 2 calls, no fault, fairness | violation | a paid order is never granted |
| `auth` | 4 sessions, 2 requests, single session enforced, both strategies, fairness | 427,535 | `TypeOK`, `OneHeadPerLogin`, `LoggedOutEverywhere`, `OneDevice`, `ActiveGivesWay`, `EveryRequestEnds`, `KeepsChains` |
| `auth_admin` | 3 sessions, 2 requests, not enforced | violation | force logout misses a session that is being refreshed |
| `attempts` | 1 attempt, 2 requests, 3 questions, 3 tests, 3 sheets, 1 edit | 609,447 | `TypeOK`, `ScoreOfStoredAnswers`, `ScoredBySection`, `DeletedOnlyIfLate`, `LockedUnlessOverlapped` |
| `attempts_quarter` | 1 attempt, the quarter-mark preset | violation | a submission that cannot be scored |
| `print` | 1 job, 3 threads, both modes, 4 requests, 1 fault, fairness | 442,940 | `TypeOK`, `UnfinishedIsInHand`, `OutputMatchesStatus`, `CancelledUnlessOverlapped`, `EveryJobEnds` |
| `mailouts` | 1 broadcast, 2 readers on pages of one, 2 ticks, 2 desks, 3 errands, 1 mishap; 2 messages of 2 attempts, 2 carriers, 2 troubles; fairness | 139,709 | `MailoutsTypeOK`, `OneMessageEach`, `AudienceReached`, `MailedOnce`, `QuietAfterCancel`, `EveryMailoutEnds` |
| `autopay` | a setup and 2 charges, 2 workers, 2 status checks, 1 slip, fairness | 755,017 | `AutoPayTypeOK`, `EveryDebitCounts`, `ChargedOncePerPeriod`, `DueMandateIsCharged` |
| `office` | the fifteen components of section 2.7, two of what races in each | 1,614,354 | `OfficeTypeOK`, `BooksAgree`, `LimitsHold`, `ContentHoldsTogether`, `AdminsRemain` |

### 4.1 Properties that hold

*Payments.* A subscription exists only for an order the provider took the money
for, whatever the polls, webhooks and sweeps wrote over one another
(`GrantOnlyPaid`). A SUCCESS order has its subscription, or a call on its way to
it, or was dropped in one of the ways the code swallows (`SuccessAccountedFor`).
No money was or will be taken for a FAILED order whose page does not offer a
second attempt (`FailedIsUnpaid`); one that does can be paid after it failed. A settled status is
only left by a call or a checkout that had read the order open before
(`TerminalLeftByStaleWriteOnly`): the code has no guard on its updates, so this
is the most it keeps. With ticks, every order closes (`EveryOrderCloses`) and
a paid one is granted, closed as EXPIRED or FAILED, or dropped
(`PaidIsSettled`).

*Sessions.* A login has at most one session that can be refreshed, however many
requests present the same token (`OneHeadPerLogin`, `KeepsChains`). With single
session enforcement a block, a reset and a force logout reach every login that
had a live session when they began, one being rotated at that moment included
(`LoggedOutEverywhere`). Of two live sessions one went unseen: another request
that was opening a session had already looked for those to revoke when it
committed (`OneDevice`). While it is live, the active session gives way only to a
login and to its own rotation; the refresh of another device takes over only where
one of the two went unseen (`ActiveGivesWay`), as when a rotation commits behind
the back of a login. Every request ends although the lock orders are opposite.

*Tests.* The score in a row is the score of the answers in the same row
(`ScoreOfStoredAnswers`), and counts each question by the section it belongs to
in the test as the submission read it (`ScoredBySection`). An evaluated attempt
is changed only by a request that had read it open, or with its test
(`LockedUnlessOverlapped`). Deleting a test takes along only attempts started
after the count (`DeletedOnlyIfLate`).

*Printing.* A QUEUED or RUNNING job is in the hand of the queue, a processing or
a request, or it was given up (`UnfinishedIsInHand`), in one of these ways only:
a process died or a statement failed where nothing else picks the job up; a
retry found the queue's entry active although its processing had already
written its last status; a cancellation, late with its removal, took away the
entry a later retry had added; the queue gave a stalled entry up. A DONE job has
its paper and a QUEUED job shows none of an earlier printing
(`OutputMatchesStatus`). A cancelled job comes back only by a retry or by a
processing that had looked at the row before the cancellation
(`CancelledUnlessOverlapped`). Every other job ends (`EveryJobEnds`).

*Messages.* A reader gets one message of a broadcast, unless dispatches
overlapped, one was cut short and repeated, or a late schedule request brought
it back (`OneMessageEach`). A SENT broadcast reached whoever was in its audience
throughout, unless a page ended with a reader who then left the audience
(`AudienceReached`). What was cancelled in nobody's hand stays quiet
(`QuietAfterCancel`). A message is one mail, unless the mail may have left
without a trace (`MailedOnce`), and both end (`EveryMailoutEnds`), a message but
for the few ways of losing its last carrier.

*AutoPay.* Between two debits a period passes, but for overlapping ticks, an
order the sweep expired while its debit was under way, a death before the next
date was written, a retry's date that a late failure writes over the next date
(`PutRetryBack`), and a provider that goes on with an order the code has FAILED
(`ChargedOncePerPeriod`). A debit the code knows of brings its period, is being
handled, or was given up (`EveryDebitCounts`). Nothing left behind blocks a due
mandate for good (`DueMandateIsCharged`).

*What is written twice* (`BooksAgree`). No more is refunded than was paid, unless
a refund was asked for while another was out of the events' sight, and a
REFUNDED order was paid back in full (`RefundsAddUp`). A manual order is SUCCESS
exactly if its access was given, unless an error, a death or another grant cut
across (`ManualOrderTells`). A plan's two lengths agree unless a metadata edit
wrote an old one back (`ValidityAgrees`); an order loses its plan or coupon only
if it was made after the count (`OrdersKeepTheirPlan`). A question's
counters are the answers given to it, and a topic's are those of its questions
together unless one was moved to it, moved out of it or deleted in it; the seed's
answer counts nowhere (`CountersTellAnswers`). A batch that read a topic before the
question was moved counts in the old one, which is a case of this. Orders and revenue of
a day agree unless one was refunded meanwhile (`RevenueOfOrders`), and its
readers are counted but for those who read again before three
(`ReadersCounted`). No day is covered by two purchases, whether they stack or
replace, unless one of them computed its days before the other was written
(`DaysAddUp`, `blind`); and the entitlements of a subscription are for its days,
cut where it was replaced and never by the daily job, unless an error, a death or a
replacement left them half done (`RightsFollowTerms`, `halved`).

*Limits* (`LimitsHold`). Open views and outstanding codes exceed their limit only
by requests that raced, and by no more than these (`ViewsWithinLimit`,
`CodesWithinLimit`); a ban or a revocation lets through only reads under way
(`NothingReadTooLate`). A code lets one request through, two registrations never
(`SpentOnce`). A provider call sent again after a refusal acts once and tells
what happened (`PerformedOnce`), and fails for its token only if the provider
dropped it (`RefusedOnlyWhenDropped`). One installation runs at most, with
somebody waiting (`OneInstallation`), and a paper loses its images or fails for
cause (`GivesUpForCause`).

*Content* (`ContentHoldsTogether`). Topics are acyclic unless two moves
overlapped (`TopicsAcyclic`), a question's topic is of its subject unless an
update placed it that does not compare (`QuestionTopicInSubject`), and a deletion
takes only what was linked after its count (`NothingUsedIsTaken`). References
are those of the content unless edits overtook one another, and a deleted piece
has none unless an update came between the two statements of its deletion
(`AssetsReferenced`),
and files open only through what showed them (`OpenedThroughUse`). One version
of the settings is live unless publications overlapped, and one always
(`OneVersionLive`); no copy goes back (`SettingsMoveForward`). What a starting
process has passed is there whatever other processes do (`BootLeavesAll`), the
samples are there once unless two went in or one stopped in them
(`SamplesWhole`), and what is served derives from what was published last unless
a start added its version while the publication was under way, or had looked
before it (`CompletedFromMine`).

*Administrators* (`AdminsRemain`). Two super administrators cannot take the role
from everybody as long as they keep it themselves; only somebody who was none
can remove the last (`SuperAdminRemains`). An administrator has a role, unless
made one without naming any, or the role was deleted behind its count
(`AdminsHaveRoles`).

### 4.2 Where code and documents disagree

- `orders_replaced`: two overlapping activations of one order; the second
  expires the subscription the first has just created, then fails on the unique
  index, and the error is swallowed. The student has paid and has nothing.
- `orders_granted`: the sweep expires a lapsed order without asking the
  provider. A payment made shortly before is never looked at again.
- `auth_admin`: without single-session enforcement nothing orders a refresh
  against force logout; the session the refresh inserts was in no
  snapshot of the `updateMany`.
- `attempts_quarter`: the presets' penalties of a quarter and a half mark do not
  fit the integer column; such a submission is refused.

Each run finds its counterexample without any process dying.

### 4.3 Observations without a run

- *Subscriptions.* `references/chat.md` (3580-3582) has a purchase extend an active
  subscription by the days of its plan. Two purchases of one student that are
  activated at the same time both read the same latest end and start there: he
  pays twice for the same days. `DaysAddUp` names these purchases (`blind`).
- A test that mixes sections with question ids and sections drawn from a pool
  gets a paper of the fixed questions only, and the section rules are then
  applied by position to the wrong questions. Neither documents nor tests say
  what such a test should do; `ScoredBySection` is stated for tests that do not
  mix the two. A section that names its questions and states another count than
  theirs shifts the rules in the same way, and so may two pools that share a
  question; the theorem excludes both (`ToldApart`).
- An edit of a published test changes how attempts already started are scored,
  since the configuration is read at submission.
- A job retried between its processing's FAILED and the worker's return stays
  QUEUED until the next boot requeues it (`orphaned` in `PrintJobs`); a job that
  was RUNNING inline when its process died stays RUNNING until it is cancelled.
- *AutoPay.* A plan taken off sale goes on being charged, and its charges activate
  nothing. No code pauses or revokes a mandate. A PENDING written late can reopen
  a SUCCESS. `setMonth` moves the 31st of a month into the month after next.
- *Refunds and grants.* A SUCCESS refresh that comes late overwrites REFUNDED for
  good. A refund does not end the subscription. `revokeEntitlement` also ends the
  entitlement of a paid lifetime subscription.
- *Messages.* A broadcast with an empty list of users goes to everybody. Every
  caller of `sendTemplateToUser` switches preferences off, so that its check is
  never reached.
- *Codes and notes.* After the latest code is used an older one counts again;
  the attempts of a code are counted and never read. A read of a note does not
  look at its publication or the reader's entitlement again.
- *Administrators.* An administrator may set his own status to BLOCKED although
  `blockUser` refuses it.
- *Content.* A topic cannot be moved back to the root. `updateQuestion` compares
  topic and subject only if no subject is given and the question has a topic.
- *Settings and starts.* Two live versions can make later publications wait for
  each other. After a start that completed the settings two versions stay live.
  A draft under the next number makes every start fail until it is published. Of
  two starts at once that create the same row one fails and starts again. The
  sample content of a start that died in it is never finished.
- *Practice.* Answers count after the session's end and for questions never
  served. What a topic has counted stays when a question leaves it, and does not
  come along with the question. Two batches that name their questions in opposite orders can deadlock,
  and one is lost as a whole.
- *Statistics.* A night without a process at three is never made up for. Whoever
  reads again after midnight leaves the figures of the day before.
- *Plans.* `listPlansForUser` shows a dated subscription before a lifetime one.

## 5. Bounds, and why they are enough

- Every `Max...` constant, `CouponLimit`, `RateLimit`, `PageSize`, `TickTake` and
  `Paid` is a bound of a counter; each appears in a guard or in the shape of the
  data, and in the assumption of its module. `MaxErrands`, `MaxPolls`,
  `MaxRequested`, `MaxCalls`, `MaxWrites`, `MaxEditions` and `MaxEdits` limit how
  much is asked for (`MaxChanges` and `MaxActs` what an editor changes),
  `MaxMishaps`, `MaxTroubles`, `MaxSlips`, `MaxMisses` and `MaxFaults` how much goes
  wrong. `MaxTroubles` is a constant of `Deliveries`
  and of `Rendering`, `MaxMishaps` of `Broadcasts` and of `Terms`, which are never in
  one run. `Horizon` is the last day of `Terms`.
- *Two calls or requests at a time.* The hazards are between a read and a write
  that depends on it; two actors show every order of the two. Printing needs
  three threads: a processing, a cancellation and a retry of one job.
- *One or two orders, one attempt, one job.* Rows of different jobs or attempts
  do not interact in the code. Two orders of one student do (stacking,
  replacement, coupon), so `orders` has two.
- *Four sessions* are two logins, a rotation that went behind the back of one of
  them, and what that session is rotated to. `AuthSessionsMC` numbers them: a
  request takes the first that is unused, which loses nothing, since an unused
  one occurs in no row; and the fourth is issued only to rotate an unseen one
  (`Issues`), without which its run would not end in time. Neither touches what
  fairness is about, since nobody has to begin a request.
- *A plan with an end* in `orders_live` and *one without* in `orders` are the
  two sides of the test for stacking.
- *Pages of one reader* make two pages of two readers: the cursor moves, the
  reader it stands on can leave, and one is behind it.
- *Two charges* are a period's and the next one's, or two of one period. *Two
  status checks* and the tick are enough for a late answer to meet a new one. What
  two charges do not show is a third debit: that a retry's date written over the
  next date lets one through was met in the proof, which has no such bound, and
  seen with three charges.
- *`office`*: two requests of each kind, one or two of each row, three where a
  third tells more (topics: a circle of three moves in two; grants: one that
  replaces two; purchases: two that meet over a third, one of them for a lifetime,
  with days of two and the clock going as far). Two versions of the configuration,
  and up to four in `Seeding`, where two starts and an administrator add to those
  there were. `MaxRequested` of `Practice` bounds the answers of a batch too: the
  second batch has one, enough to wait for a first of two. The members of many of
  these sets are the same model values (`First`, `Second`, `Third`): the sets are
  of different components, of which a behaviour has one, so the values never meet,
  and the permutations of each are symmetries of every component
  (`OfficeSymmetry`; its run has no
  liveness).
- *One fault* where statement-level deaths multiply the interleavings; two in
  the smaller `orders_live`, where a second death can hit the recovery.
- `CHECK_DEADLOCK FALSE` everywhere: every model may come to rest, with all
  orders closed, all session ids used, the test deleted or the requests spent.
  Deadlocks of the database are states of the models, left by a rollback.
- The proofs have none of these bounds: they hold for any sets and counters.

## 6. Fairness

- `PaymentOrders`: the clock (`Lapse`), the interval of
  `payments.reconcile.service`, which first expires lapsed orders
  (`ExpireStaleOrders`) and then refreshes the open ones, so that only an order
  that has not lapsed can count on a refresh (`BeginRefresh`), and a call in
  flight, whose awaits return or throw. The student, the provider and
  administrators owe nothing.
- `AuthSessions`: `SF(Step(r))` for each request, because a row lock is granted
  in turn and a waiting statement is not overtaken forever, and
  `WF(BreakDeadlock(r))`, the database's deadlock detection.
- `TestAttempts`: none; its properties are about safety.
- `PrintJobs`: threads go on, a worker with a free slot takes a waiting entry,
  the queue's stalled check runs. Nobody is obliged to ask, to retry or to boot,
  so the liveness does not lean on the boot's requeue.
- `MailoutsMC`: the timer fires, ticks and carriers go on, a worker takes a
  waiting job, the queue looks for stalled ones. The desk owes nothing.
- `AutoPay`: the AutoPay tick and the reconcile tick fire every interval, workers
  go on, orders lapse, and the provider gives an order up at the `expireAt` it
  was sent. The student, the bank and status checks owe nothing.
- `OfficeMC`: none; its properties are about safety.

## 7. What is proved

The theorems hold for every value of the constants that satisfies the module's
assumption (`OrdersAssumption`, `AuthAssumption`, `PrintAssumption`, ...). These type
the constants and set the "no ..." values apart from the rest. Where a property
counts or sums, what it counts is finite (requests, questions, sales, readers,
drills, refunds, topics, publishers, processes). Some bounds are at least one: the
readers of a page; attempts, views and codes allowed; the days of the rollup; the
fields of an asset; the processes that start; the settings known are two. No set
is bounded by the size it has in a run.

| Module | Theorem | States |
|---|---|---|
| `PaymentOrdersProofs` | `TypeInvariance` | `TypeOK` |
| | `GrantsArePaid` | `GrantOnlyPaid` |
| | `FailuresAreUnpaid` | `FailedIsUnpaid` |
| | `GrantsAreAccountedFor` | `SuccessAccountedFor` |
| | `TerminalIsStable` | `TerminalLeftByStaleWriteOnly` |
| | `PromiseIsKept` | `Spec` implements `PaidAccess!Spec` |
| `AuthSessionsProofs` | `TypeInvariance` | `TypeOK` |
| | `RotationNeverForks` | `OneHeadPerLogin` |
| | `LogoutReachesEverySession` | `LoggedOutEverywhere`, if `Enforced` |
| | `SessionsAreAlone` | `OneDevice`, which has effect if `Enforced` |
| | `ActiveIsDisplacedByNewer` | `ActiveGivesWay`, if `Enforced` |
| | `ChainsAreKept` | `Spec` implements `LoginChains!Spec` |
| `TestAttemptsProofs` | `TypeInvariance` | `TypeOK` |
| | `ScoresMatchAnswers` | `ScoreOfStoredAnswers` |
| | `DeletionSparesAttempts` | `DeletedOnlyIfLate` |
| | `EvaluatedIsLocked` | `LockedUnlessOverlapped` |
| | `SectionsScoreTheirOwn` | `ScoredBySection`, if every test is `ToldApart` |
| `PrintJobsProofs` | `TypeInvariance` | `TypeOK` |
| | `NoJobIsStranded` | `UnfinishedIsInHand` |
| | `OutputIsCurrent` | `OutputMatchesStatus` |
| | `CancellationHolds` | `CancelledUnlessOverlapped` |
| `AutoPayProofs` | `TypeInvariance` | `AutoPayTypeOK` |
| | `DebitsCount` | `EveryDebitCounts` |
| | `ChargedOnce` | `ChargedOncePerPeriod` |
| `MailoutsProofs` | `TypeInvariance` | `MailoutsTypeOK` |
| | `OneMessage` | `OneMessageEach` |
| | `Reached` | `AudienceReached` |
| | `MailedAtMostOnce` | `MailedOnce` |
| | `Quiet` | `QuietAfterCancel` |
| `ContentProofs` | `ContentHolds` | `ContentHoldsTogether` |
| `OfficeProofs` | `LimitsKept` | `LimitsHold` |
| | `SomebodyAdministers` | `AdminsRemain` |
| | `BooksBalance` | `BooksAgree` |
| | `OfficeShapes` | `OfficeTypeOK` |

`ToldApart` says of a test's sections that either all name their questions and
count them right, or all draw from pools that share none: the tests of which the
code can tell afterwards which section gave a question. `TestAttemptsMC` assumes
it of its tests, so the run checks that they meet it.

Each module has one inductive invariant, and its properties follow from it:

- *PaymentOrders*: `TypeOK`; the subscriptions a call has seen or means to
  replace exist (`KnownSubscriptions`); `Evidence`, that a call about to write
  SUCCESS, to activate or to redeem has a paid attempt behind it, one about to
  write FAILED a failed one, and that no call or attempt precedes its order; and
  `SuccessAccountedFor`. The evidence is
  what a stale write carries along: the values in a call's locals were true once
  and payment is never undone, which is why unguarded writes do not grant what
  was not paid.
- *AuthSessions*: the rows are well formed (`Base`, `Known`), each step of a
  transaction is taken by the requests that have it (`Phase`), a transaction
  holds unrevoked rows nobody else holds and among them the session it rotates
  (`Locks`), and `OneHeadPerLogin`: two rotations of one session would both hold
  it. With enforcement, two more parts: whoever is about to commit a new session,
  and whoever ends all sessions, holds the user row (`UserRow`), so that the
  latter sees and holds every live session (`Sweep`); and whoever opens
  a session and has looked for the others has in hand, or is still to revoke, every
  live session that did not go unseen but the one it rotates (`Apart`). Without
  enforcement `Sweep` is false, as `auth_admin` shows.
- *TestAttempts*: what each request under way may rely on (`Phase`): it found
  the attempt open, and a submission scores the paper the attempt still has;
  one request starts an attempt (`OneStarter`); every attempt there is after the
  count of a deletion came later (`Deletion`). For the scores by section, one part
  more (`Unovertaken`): as long as nobody has updated the test under an attempt,
  what a request has read of it is what it still says, the paper is one of this
  test, and the score is the evaluation of the row's answers by it. The rest is
  about papers (`TotalBySection`): the evaluation gives a position the rules of
  the section its cursor is in, and the paper lists the sections' questions, named
  or drawn, one section after the other; so the sum over the positions, taken
  section by section, is the sum over the questions each section gave.
- *PrintJobs*: a request about to check its entry finds one, unless someone
  else works on the job or it was given up (`EntryIsThere`, without which a late
  removal between add and check would strand the job); nobody goes on with a job
  it found cancelled (`NoneFoundCancelled`); a job has no output before it exists
  (`OutputLater`).
- *AutoPay*: what each worker may rely on (`Grounds`: whoever is about to write
  SUCCESS has a paid debit behind it), `Origin` (the provider knows of no order
  that was not made), `EveryDebitCounts`. As long as no mishap happened, one charge
  at most can still be debited, and a tick that looks for a pending charge finds it
  (`OneAlive`). After a debit no charge can be debited, and every tick is kept from
  making one: by the charge that is still pending, by a worker about to move the
  mandate on, or by the mandate's next date (`NoneLeft`).
- *Deliveries*: a message that is at no risk has one carrier, and its entry in the
  queue tells which (`OneCarrier`); its mail left once and is noted or about to be
  (`Noted`). The rest says what a thread at rest and an unborn message have
  (`Idle`, `Unborn`, `Adding`).
- *Broadcasts*: a broadcast that is not excused is dispatched by one tick, which
  has written to nobody beyond its cursor and to nobody left on its page
  (`OneDispatch`), and, unless the cursor was lost, to everybody up to it who
  stayed (`OnItsWay`); nobody has a silenced broadcast in hand (`Silent`). Both
  rest on what a page is: the first rows after the cursor, without a gap, and
  empty only if there are none. The code's page is an `ORDER BY` with a limit; the
  lemma about it (`PageFacts`) goes by the least and the last reader of a set.
- *OfficeMC*: a behaviour follows one component, so the invariant is one for each,
  eleven in `RecordsInv` and the four of content in `ContentInv`. All say what a
  request has learnt and what of it is still true when it writes.
  - *Limits* (`AdminRoles`, `NoteViews`, `OneTimeCodes`, `ProviderCalls`,
    `Rendering`): a limit is kept by counting, besides what exists, the requests
    that have passed the check and have yet to write (`ViewsAhead`, `ReadsAhead`,
    `CodesAhead`); without these the properties are not inductive, since the check
    and the insert are two steps. Codes also grow old in the order they were made
    (`AgesInOrder`), which is why looking at the latest one is enough for the
    cooldown; a request alone with its code or token is the first to spend it
    (`HeldAlone`, `ResetAlone`). A provider call goes on after its refusal with a
    token of its own (`OwnToken`), a rendering counts its failures and has met the
    troubles its step takes (`TroublesSeen`), the promise of an installation is
    there while somebody waits for it (`OnePromise`). A request to change an
    administrator still satisfies what was checked when it began (`EditSound`).
  - `ManualGrants`: how far a grant has come tells what it has written
    (`Granting`), and a replaced grant that is not closed is in the hand of the
    one that replaces it (`Closing`).
  - `PlanCatalog`: a plan's validity has the length of the plan unless an update
    was overtaken (`PlanSound`), an update that only rewrites the validity still
    holds that length (`RequestSound`), an order refers to what is there
    (`OrderSound`), and orders a deletion did not count are named in `slipped`.
  - `DailyStats`: a number that was read or written tells of its day
    (`RollupSound`, `StatsSound`), because a rollup works on yesterday only; a
    reader whose latest reading fell on a day is counted for it (`LastReadKept`).
  - `Refunds`: while nothing is unsure, one clerk calls the provider (`OneCalls`)
    and what he asks for still fits what is left (`RefundFits`).
  - `Practice`: no two batches hold a counter row (`Queueing`); a batch read its
    topics from the questions, and a topic that no question has entered or left has
    the questions it had then (`ReadAbreast`). What its answers add up to,
    topic by topic, is then what its commit adds; answers and counters are bounded
    by the requests that are over (`Fitting`).
  - `Terms`: whoever has computed his days with everything in view starts after all
    he will not replace (`BuyingOK`, `Ahead`), which is why the subscription he
    creates is apart from the others; the days of a subscription are the history's,
    cut if it was replaced (`SpansOK`); the daily job has found what is over
    (`ExpiryOK`); entitlements are those days, or whoever is to create or close them
    is on his way (`RightsOK`, `Pending`).
  - `Settings`: versions are numbered without a gap (`Numbered`), a publication
    has found or holds all the others unless one came late (`Publication`), and one
    load of a cache is under way, of nothing older than the cache has seen
    (`OneReading`).
  - `ContentTree`: a question about to be placed goes where its subject has the
    topic (`Sound`). A change of parent walks up from the new parent, and whatever
    set of topics holds that parent and the parents of its members holds the
    walk's cursor (`WalkSound`). Acyclicity is stated without recursion: every
    nonempty set of topics no overlap has crossed has a member whose parent lies
    outside it.
  - `AssetUse`: a piece refers to what its content names, or to nothing while its
    creation is still to refer (`UseSound`); what a deletion has found is all there
    is unless an update came after it; a request nobody has overtaken names
    what the content will be (`WriterSound`); what a student may still look at
    named the file when he asked (`StudentSound`).
  - `Seeding`: what a process has passed is there (`PassInv`); the samples come
    after their marker and are those of one process unless two went into them
    (`SampleInv`); no more processes create them than there are (`CountInv`); what
    is served derives from what an administrator published (`AncestryInv`). A
    publication has found all there is to archive unless a version was added since,
    and so has a completion while the version it read is the one served (`LooksInv`).

Sums over a set are proved by induction on its subsets (`SetInduction`, `UpTo`).
The library's induction theorems take an operator; here strict inclusion is well
founded on the subsets of a finite set, and a nonempty set of counterexamples, which
is a set and not an operator, would have a least element.

The proofs have one step per action and, under it, one per part of the invariant
the action can disturb.

## 8. What is only model-checked

- Liveness: `EveryOrderCloses`, `PaidIsSettled`, `EveryRequestEnds`,
  `EveryJobEnds`, `EveryMailoutEnds` and `DueMandateIsCharged`. The prover has no
  support for reasoning about fairness and ENABLED.

The invariants and the properties of steps of the passing runs are proved.
`LoggedOutEverywhere`, `OneDevice`, `ActiveGivesWay` and `ScoredBySection` are proved under the
condition section 7 gives; the first fails without it (`auth_admin`).

## 9. What is not modelled

- Components without state of their own: search, `analytics.service`,
  administration dashboards, exports, health.
- Layout, fonts, HTML, file transfer, watermarks; validation and normalisation
  of input, bulk import of questions; templates' variables; logging, the audit
  log (append only) and push delivery.
- Operations that write a single row nobody else depends on: profiles,
  preferences, pages, banners and announcements apart from their assets, reading
  progress, titles and positions of topics, fields of roles, AutoPay reminders.
- Policy evaluation reads its input only. Amounts, discounts and the monthly cap
  are arithmetic on one request's values.
- The webhook's table of events and its signature: an event only decides whether
  a refresh is made, and `PaymentOrders` lets any number of refreshes be made.
- The presets' storage and the list endpoints of tests; the limit on jobs
  requeued at boot.
- Postgres, BullMQ, PhonePe, the mail server and the browser are modelled from
  how the code uses them: row locks under read committed, unique indexes, an
  entry per id with a stalled check, an order whose latest attempt decides.
