# Campusgrid Engine in TLA+

Campusgrid Engine is the back end of a school management product: a NestJS
service over PostgreSQL (Prisma), Redis (refresh tokens and BullMQ queues), S3
and Socket.io.  These modules model its logic, TLC checks them on small
instances, and TLAPS proves 36 of the 40 properties those runs check for every
instance: all but the four that say something happens in the end.

Paths below are relative to `src/src/modules/` unless they say otherwise.

## 1. How the code runs, and how that is modelled

* **A request is a process.**  A handler awaits one database call after the
  other, and other requests run in between.  Almost every handler has the same
  form: read a row, check it, write later *without testing again*.  So a
  request is modelled with a program counter: a `Check...` action reads and
  checks, a later `Write...`/`Commit...` action writes.  What the handler
  remembers from its read is stored in the request.
* **A transaction is one step.**  `$transaction([...])` and the interactive
  form commit all or nothing.  PostgreSQL runs them at READ COMMITTED: a
  transaction does not repeat the check made before it, which is exactly why
  the check is a separate step.  `increment`/`decrement` are relative and never
  lost.
* **Everything may die.**  Between two awaits the process may stop or the next
  call may be refused.  That is an `Abandon...`, `...Dies` or `Rollback...`
  action; what only lived in memory is gone.
* **History variables.**  The unguarded writes mean that two overlapping calls
  on one row break several promises of the code (section 6).  The properties
  state what the code does guarantee: the check is enough as long as calls on
  the same row do not overlap, whatever happens on all other rows and wherever
  calls die.  `raced`, `contended`, `disturbed`, `stale`, `dirty`, `loose`, `overlapped`,
  `cut` and `mixed` are the sets of what was overlapped or left half done;
  they record and never restrict behaviour, and the comment of each property
  says what it excludes.  Most of them hold just those overlaps.  Three are
  coarser, because one row leads to the next: `contended` gives up a book for
  good once two calls on it overlapped, `raced` of `Messaging` two users whose
  calls both went on to create, and `mixed` a student, even if the overlap itself
  did no harm.

## 2. Inventory

| Component | State it keeps | Operations | What is hard | What makes it correct |
|---|---|---|---|---|
| Onboarding batches `onboarding/` | `StagedOnboardingBatch`, `ApprovalTask` | `createStagedBatch` | one transaction for both rows | a batch has exactly one task |
| Approval tasks `approvals/approvals.service.ts:200` | the same, users, students, `NotificationDispatchLog` | `handleApprovalTask` | overlapping decisions, rollback of a whole batch, death between commit and enqueue | decided once; provisioned whole or not at all; accounts only for approved batches |
| SMS delivery `communications/onboarding.processor.ts` | dispatch log, BullMQ job | `process`, retried and recovered by BullMQ | worker death, stalled jobs, failing log writes | bounded attempts, SENT means sent, every job ends |
| Library `library/` | `Book`, `LibraryTransaction` | `createBook`, `checkoutBook`, `returnBook` | count checked on an old read, double returns | shelf + loans = stock, never negative |
| Leaves `academics/leaves.service.ts` | `leaveRequest`, `attendance` | `create`, `updateStatus`, `escalate`, midnight cron | no transaction at all, per-day loop, cron working off a stale list | attendance follows the last decision; escalated requests are the principal's; expired ones get closed |
| Profiles and change requests `approvals/`, `users/` | `ProfileChangeRequest`, `users`, `teachers`, photos in the bucket | `updateProfile` (two), `updateProfilePhoto`, `approveRequest`, `rejectRequest` | a first number is written at once, its request stays open; the rejection's transaction reads before it wipes; the old photo goes before the new one comes | a rejected number is not in use; filled fields change by approval; the photo shown exists |
| Users, teachers, principals `users/` | `User` and role profiles | `create`, `createProfile`, `assignSubjectAndSection`, `resetPassword` | several writes per call | one profile per user; only roles one may create |
| Enrolment `users/students.service.ts` | `Student` | `createProfile` with transfer, `updateProfile`, `updateBulkSection` | transfer is separate writes | at most one ACTIVE enrolment |
| Attendance `attendance/` | `attendance`, `schoolEvent` (read) | `markAttendance`, the pupil's list and statistics, the class list | three readers with their own rules for Sundays, holidays and leaves | the statistics count what the list shows; the class list and the calendar name the same students, as far as the list can know |
| Assignments and grading `academics/assignments.service.ts` | `Assignment`, `Submission` | `create`, `submit`, `grade`, lists | duplicate check without constraint, uploads in between | one submission per student; the lists and the rating agree |
| Exams `academics/exams.service.ts` | `Exam`, `ExamResult` | `scheduleExam`, `submitResults`, report | one transaction per sheet | the last sheet stands whole |
| Ratings `analytics/analytics.service.ts` | `User.rating`, ranks | `recalculateGlobalRating`, `updateGlobalRanks` | ranks written one by one from a sorted read | the rating spans all profiles and stays within rounding of what the lists show; ranks are a permutation that follows the ratings |
| Timetable `academics/timetable.service.ts` | `timetable`, 60 s cache | `createBulk`, `fetchForSection`, `updateStudioAssignment` | READ COMMITTED conflict check, cache cleared before the write | nobody in two lessons at once; the cached week is the saved one |
| Studios `studios/` | `Studio` rooms, requests | `create`, `respond`, `distributeStudioRooms` | swap from a stale read; greedy distribution | a room is in one place at a time |
| Substitutions `academics/substitutions.service.ts` | `substitution` | `findAvailableTeachers`, `assignReplacement` | unique (date, slot) raced for | who stands in has no lesson then |
| Sections and grades `academics/` | `Section`, `Grade` | create, delete, `assignIncharge` | uniqueness checked in code | one section of a name per class, one class per incharge |
| Subscriptions, fees, payroll `finance/` | bills with a status | generate, `markAsPaid`, `update`, monthly cron | re-generation over paid bills, double payment, cron against manual | a paid bill keeps its amount; one bill per month |
| Messaging `communications/` | conversations, messages, socket map | `sendMessage`, `process`, gateway | stored then queued; one socket per user, late disconnect | a stored message reaches an online member |
| Sessions `src/src/auth/auth.service.ts` | refresh tokens in Redis | `login`, `refreshTokens`, `logout`, `changePassword` | rotation raced by refresh and logout | a logged-out token stays dead |
| Bug reports `bug-reports/` | `BugReport`, screenshot | `updateStatus`, `reopenReport`, `closeReport`, cron | cron closes from a stale read | a reopened report is not closed by an older read |
| Bus routes `route/` | route request | `parentSubmit`, `driverAssign` | resubmission after the lock | locked stays locked |
| Schools `schools/` | `School`, its principal | `create`, `createWithPrincipal`, `assignPrincipal`, rates | profile found or created in one transaction | one profile per principal |
| Calendar, subjects, terms, support, broadcasts, notifications, audit | single rows | create/update | nothing after the write | (not modelled, see 7) |
| Storage, PDF, system status, guards, database clients | none of their own | I/O | | (not modelled) |

How they interact: onboarding creates users, students and logs and feeds the
SMS queue; leaves write the attendance table that teachers also write; the
timetable decides whose substitutions are needed; grading feeds ratings; the
billing cron writes an audit row.  The calls are in-process; the shared state is
the database; the only asynchronous hand-overs are the two BullMQ queues, the
cron jobs and the socket.

Every hazard found in the code is listed, at its line, under `hazards` in
`PROJECT.json`, with the properties that would catch it or the reason there is
none.

## 3. The modules

| Module | Models |
|---|---|
| `Onboarding` | from the clerk's batch to the welcome SMS: approval, transaction, enqueue loop, processor, BullMQ |
| `MakerChecker` | abstract: a batch is submitted, decided once, and has its accounts exactly if approved |
| `BoundedDelivery` | abstract: a log is committed, queued, sent at most so often, and ends once |
| `OnboardingProofs` | theorems about `Onboarding`, with their proofs |
| `Library` | checkout and return against stock |
| `Leaves` | leave requests, the attendance they write, the expiry cron, the attendance lists |
| `Profiles` | profile and photo updates, change requests and their review |
| `Billing` | school subscriptions, student fees and staff pay: runs, payments, patches |
| `Coursework` | assignments, submissions, grades, ratings and ranks, exam sheets |
| `Timetable` | lessons, the week cache, studio rooms and their swaps, substitutes |
| `Messaging` | conversations, messages, the delivery queue, the socket gateway, the archiving cron |
| `Sessions` | login, token rotation with its grace period, logout, passwords |
| `Enrolment` | schools, users, classes, sections, profiles, enrolments and transfers |
| `LeavesProofs`, `ProfilesProofs`, `BillingProofs`, `TimetableProofs`, `EnrolmentProofs` | an inductive invariant of the module each is named after, and the theorems that follow (section 5) |
| `CourseworkProofs` | the same of `Coursework`, with the theory of sums it needs, and of `Library` |
| `MessagingProofs` | the same of `Messaging`, and of `Sessions` |
| `MC<module>` | for TLC: symmetry sets, rows that exist at the start |

Each module is checked by itself.  They meet in tables only one of them writes
within its properties (`users`, `students`, `section`), and the approval of a
batch is the one place where a step of one component starts the work of
another: `Onboarding` covers both sides of it.

### Onboarding

State: `task`, `batch`, `students` and `log` are database rows; `job` is the
BullMQ job of a log; `request` and `toQueue` are the memory of a decision call
(`jobsToQueue` is the array the handler fills inside its transaction);
`worker` is a running `process()`.  `sms` counts messages handed to the gateway
and `raced` is the history variable of section 1.  A log is named by the request
that committed it and its record, so provisioning a batch twice gives two logs
per record, as in the database.

| Action | Code |
|---|---|
| `CreateStagedBatch` | `createStagedBatch`: batch and task in one transaction |
| `CheckTask` | `handleApprovalTask` up to and including its guards |
| `RejectTask` | the REJECTED branch (one unconditional update) |
| `ApproveTask` / `RollbackApproval` | the approval transaction, committed or rolled back (no section, duplicate e-mail, time-out) |
| `EnqueueJob` | one turn of the loop after the commit |
| `AbandonRequest` | death or a refused call in between |
| `TakeJob`, `Retry`, `BackoffElapsed`, `Complete`, `RecoverStalled` | BullMQ with `attempts`, back-off and stalled check (external) |
| `CountAttempt`, `SendSms`, `MarkSent`, `RecordFailure` | `process()`, each write failing or not |
| `WorkerDies` | death of the process running a worker |

### Library

`book` and `loan` are rows, `checkout` and `return` calls.  `CheckCheckout` and
`CheckReturn` are everything before the transaction, `Commit...` the
transaction, `Abandon...` a failure before it.  Between the two, other calls on
the same book run, which is where the stock goes wrong.

### Leaves

`leave` and `attendance` are rows; `call` a decision or escalation; `cron` the
midnight job with the list it has read; `marker` remembers who wrote a day.  A
day is an instant `2*d`, and `2*d + 1` a later time of that day: approved dates
are compared as instants but stored as days, and the loop compares midnights,
so an approval given "from noon" marks its first day ABSENT (`Allowed` admits
that).  The loop does not look at the calendar: Sundays and holidays in
the range are marked like other days.

`Shown` and `Stats` are the student's attendance list and its figures: a marked
day shows its mark, an unmarked Sunday or holiday (`Holiday`) HOLIDAY, and any
other day UNMARKED; the percentage counts PRESENT and ABSENT.  `CalendarAgrees`
ties these two to the decision: over a whole approved leave the student is at 100
percent, over a refused one at 0 and without holidays, Sundays included.

`OnLeave` is the class list's view, which asks the requests and not the
attendance: is there any approved request whose *requested* dates include the
day?  `ClassListAgrees` compares it with the calendar on every day whose requests
are all settled.  Who is on leave on his calendar is on the class list.  Who is on
the class list is on leave on his calendar except in two cases, both reached in
`LeavesExpiry` (`Overstated`): an approval was partial, so that the day may be
marked ABSENT, or another request over the same day was refused, which marks the
day ABSENT and leaves the approved request on the list.  The server is taken to
run in UTC, so days of dates and of instants coincide.

### Profiles

`row` joins the profile fields of `users` and `teachers`; `change` holds the
request rows, each named by the call that created it; `photo` and `stored` are
`photoUrl` and the bucket.  `call` is an update under way with what it read
(`seen`, `old`), `review` an approval or rejection.  `Direct`, `Asked` and
`Asks` say, as the branches of the two `updateProfile` do, which fields are
written at once, which are put up for approval and whether a request is opened
(one may ask for nothing).  `ReadNumber` and `RejectRequest` are the two halves
of the rejection's transaction, `Unlocked` the row lock it holds in between.

The code compares numbers, not requests: a number entered first, replaced, and
approved again by a third request is wiped when the first request, still
pending, is rejected.  No text of the repository promises otherwise, so the
properties allow it.  They also name the overlaps the code does not guard
against: a direct write by a call that read the field as empty, and a wipe by a
rejection that read the row before it changed.  A request of a member who is
neither student nor teacher (a clerk's first number) can never be decided.

### Billing

One month.  `bill` is the row of each payer (school, student or member of
staff), `active` and `rate` what a generation run reads, `invoice` the PDF
stored under an invoice number, which is made of the month and the last four
characters of the school's id (`number`), so two schools may share one.

| Action | Code |
|---|---|
| `GenerateMonthlyBills`, `GenerateMonthlyPayroll`, `GenerateBills` + `ReadFeeStructures` | the reads of the three generation handlers; `Cron` is the scheduled run |
| `UpsertSubscription`, `UpsertFeeBill`, `UpsertPayroll` | one upsert of the loop: the update branch writes the amount due only |
| `LogRun`, `AbandonRun` | the audit row (which has no user SYSTEM to refer to), a failed write |
| `CheckPayment`, `UploadInvoice`, `WritePayment` | `markAsPaid` of a subscription: check, upload, write |
| `MarkFeePaid`, `MarkPayrollPaid` | one unconditional update |
| `UpdateSubscription` | `PATCH`: any field, to any of the four statuses |
| `SetActive`, `SetFeeStructure`, `SetSalaryStructure`, `SetSubscriptionRate` | what changes who is billed and at what tariff |

`fresh` holds the runs nothing of their kind has overtaken: only of those can it
be said that they bill today's tariff.  Regenerating over a paid bill changes
what is due and leaves it PAID; `PaymentStands` says precisely that.  The
overview and the projections only read; their totals run over the bills of all
months and are left out.

### Coursework

A row is named by the call that created it, so two submissions of one student
are two rows, as in the table.  `CheckSubmit` is everything before the upload and
`CreateSubmission` the create after it.  A grading is five kinds of step: the
submission is read, marks written, marks read for the average, rating written,
and then all ranks one by one from a sorted read (`WriteMarks` ... `WriteRank`).
`SetToSeqs` with `Sorted` leaves the order of equal ratings open, as the query
does.

A user who changed school has several profiles (`Students`, `UserOf`), and his
rating spans them all.  A percentage is a number of parts of `Scale`, a common
multiple of the maxima, and a rating a fraction `[num, den]`, so that nothing is
rounded where the code computes with doubles; the error of the doubles themselves
is not modelled.  The lists show `Rounded` percentages.  `RatingIsAverage` says
how far the two may part, for maxima that divide no hundred, are unset or below
zero: half a point.  It compares the rating with the teachers' lists; the pupil's
own list computes the same percentages, for the assignments of his current
section only.  Profiles are constant here, as `Enrolment` models how they come
about.

### Timetable

A lesson is an element of `Lessons` with its teacher, section, day and lecture:
the row an assignment would get at a slot.  `BeginBulk` clears the cache before
the transaction; `InsertLesson` is one turn of its loop, which sees committed
rows and its own; `CommitBulk` makes them visible.  A fetch reads in
`FetchForSection` and fills the cache in `FillCache`.  A distribution clears all
rooms (`BeginDistribution`), reads section after section (`DealSection`; the
greedy choice is left open within `Dealt`) and writes in one transaction.  A
swap reads both rooms and writes both later.  A substitute is picked from a list
(`FindAvailableTeachers`) and assigned later.  Lessons are not deleted, as there
is no operation in the code that deletes one.

### Messaging

`conversation`, `message` are rows, `queue`, `job` and `stalls` BullMQ's side of
message delivery (external), `remembered` is `connectedUsers` and `socket` the
life of each socket: `Break` is a connection that is lost before the server
notices.  A message is verified, saved and queued in three steps; the worker
takes the participants one by one.  `Crash` takes everything in memory with it:
sockets, map, calls, the cron's list; jobs stay, and the one at work is found
stalled.  A message saved and not queued is never delivered: `Reached` speaks
about finished jobs only.

### Sessions

One user's keys in Redis.  A token is named by the call that issued it; its key
holds `"1"` while it is alive and then, for the grace period, the token that
replaced it.  A refresh is `FindKey`, `ReadValue`, `ReadUser`, `IssueSuccessor`
and `StartGracePeriod`, one per round trip.  `parent` is the token each came
from, `overlapped` the tokens whose key changed under a refresh or whose refresh
died between its two writes.  A change of the password ends no session, as in
the code.

### Enrolment

Rows are named by the call that creates them.  `Check...` is everything before the
first write (`Creating` for calls that look for a row by a key, `Changing` for
those that change one) and the second action is the write, with the constraints
the database has: unique e-mail, unique class incharge, foreign keys.  Handlers
that need one write, or one transaction that reads what it locks, are one action.
A transfer is `MarkTransferred` and then `CreateStudent`.  Deletions of sections
and classes unassign the students in the same transaction.  `mixed` holds the
students written with a school other than the one the section was checked
against, which the handlers allow in several ways named in the comments.

## 4. Runs

| Run | Bounds | Shows |
|---|---|---|
| `OnboardingApproval` | 2 batches of ≤ 2 records, 3 decision calls, no worker | a batch is provisioned whole or not at all, no job without its account, one decision per batch not raced for, `MakerChecker` implemented |
| `OnboardingDelivery` | 2 records, 1 call, 1 worker, 2 attempts, 1 stall | log, queue and messages agree; `BoundedDelivery` implemented; queued jobs end; committed logs are queued unless their request dies |
| `LibraryLedger` | 2 books, 3 checkouts, 3 returns, 2 schools, ≤ 2 copies | the count is the ledger; stock adds up where not raced for |
| `LeavesRace` | 1 request of ≤ 2 days, 2 calls, hand marks, a Sunday, a school holiday, cron | no made-up leave, attendance follows the decision, no stale write where not raced for; calendar and statistics show the decision |
| `LeavesExpiry` | 2 requests of ≤ 2 days, 1 call, cron may die once | expired requests are closed and marked; class list and calendar agree on settled days, but where the list overstates |
| `ProfilesReview` | 2 updates, 2 reviews, 3 users (teacher; member with a filled row and a photo, no student or teacher row, also the principal; user without a school), 2 values | numbers shown were put up for approval and not all rejected, filled fields change by approval, decisions stand, photos exist |
| `BillingMonth` | 2 schools, 1 student, 1 member of staff, 2 runs (one scheduled), 2 payments, amounts ≤ 2, 4 calls in all | a run nothing overtook bills the tariff; payments stand; the invoice says what was paid |
| `CourseworkGrades` | 2 users, 3 profiles, 1 assignment of maximum 8 and 1 of none, 4 calls, 2 sheets, marks 1 and 2 | one submission each, the rating is the average of the lists within half a point, ranks follow ratings |
| `TimetableWeek` | 4 lessons of 2 teachers in 2 sections, 2 rooms, 1 swap, 3 calls | no clash, no room twice, the cached week is the saved one, a substitute is free |
| `MessagingDelivery` | 2 users (one with 2 sockets and a telephone), 2 conversations asked for, 1 group, 1 message, 1 stall, 1 crash | one direct conversation of two users; a finished message was shown or pushed |
| `SessionsRotation` | 5 calls, 2 passwords | one successor per token; a logged-out token stays dead |
| `EnrolmentRegistry` | 2 schools with a class and a section each, a third that may come, 1 student, 1 teacher, 1 new address, 3 calls | one row of each kind; nobody is lost between schools; sections are of the student's school |

Why these bounds are enough to meet the interesting cases: every race in this
code is between two calls on one row; the third call or second row is there to
show that bystanders do not matter.  Two records and one worker give partial
progress in the enqueue loop and a job waiting behind another.  Two attempts
and one stall reach retry-then-success, retry-then-fail and both failure limits;
the proofs cover all other limits.  Three tabs and a logout (five calls with the
login) reach a refresh inside the grace period of another and a logout between
two of its steps.  Four course calls are two submissions, a grading and one more
that races any of them.  In the timetable, one lesson clashes with two others (by
teacher and by section), and the fourth is at the same lecture number of another
day, which is what a swap may cross.  Three calls about schools and people are
enough because the starting rows save the calls that would create them.  One
loan more than the copies reaches the
last copy and beyond.  Two days give a partial range and a half-marked one; two
requests over them share one day, both or none.  An eighth is half a percent off,
so lists round where the rating does not.  `BeforeDue` bounds `CourseworkGrades`:
a due date that has passed only stops further submissions, and nothing behind one
is explored.  Maxima below zero, and sets of more profiles, are left to the
proofs.

Deadlock is checked in the onboarding and leaves runs, which never stop because
`ConfigureSections` or the cron goes on.  In the other runs calls are one-shot
and may all be over, so a state without successors is no error there.

Fairness: `Onboarding!Fairness` asks weak fairness of what Node and BullMQ run
by themselves: pending continuations of a request, steps of a worker, taking a
waiting job, elapsed delays, and the stalled check.  `Leaves!FairSpec` asks it of
the nightly cron, its steps and of pending calls.  No caller is asked to call and
no failure is asked to happen; failures that could repeat for ever are bounded
in the code (`attempts`, `maxStalledCount`) or by a named constant
(`MaxDeaths`).

Each property of a passing run has a mutant: a definition `X_...` before `X`
that carries a plausible bug; with it in place of `X` the run fails on that
property.  Nothing else uses them.

## 5. Proofs

A theorem holds for all values of the constants that satisfy the module's
assumption, and for behaviours of any length.  The assumptions say that `None`
and the few literal values are not names of rows or calls, that starting rows
refer to each other, that kinds of rows are disjoint, and that bounds are
numbers.  They ask for finite sets only where the model counts: the calls of
`Library` and `Enrolment`, the lessons of `Timetable`, the users and calls of
`Coursework`.  `Messaging` names a conversation by the call that creates it, and
assumes that group calls and direct calls are different ones.

`CourseworkProofs` and `MessagingProofs` each extend two components, which have
no name in common: that is why `Library` and `Sessions` write `LibrarySpec`,
`SessionsSpec`, `Nothing` and the like where the others have `Spec` and `None`.

All proofs have one form.  The properties say "unless two calls overlapped on
this row", which is far from inductive: what makes them true is what a call has
*read* and whether it still holds.  So the invariant `IInv` of each module has,
besides typing,

* a part that ties the memory of each call to rows that exist (`Checked`,
  `Linked`, `Refers`, ...);
* a part that says a row outside the history set (`raced`, `disturbed`,
  `overlapped`, ...) is in the hands of one call at most (`Alone`, `Sole`,
  `OnePayment`);
* and a part that says what that one call has read is still so (`Seen`,
  `Current`, `Compared`, ...).

`IInvInit` shows it of the initial states.  For the step there is one lemma
`<Action>Keeps` per action; actions that touch the same few variables share a
lemma on what such a step leaves as it was.  Each part of every `IInv` was
checked with TLC on the run of its module before it was proved.

| Theorem | Property | What the invariant needs beyond the property |
|---|---|---|
| `Onboarding`: `TypeCorrect` | `TypeOK` | a busy worker has a job, a request past its check a batch |
| `DeliveryCorrect`, `SentIsSent`, `JobsFollowCommit` | `AttemptsCoverSms`, `SentMeansDelivered`, `JobsAreCommitted` | `Counted`: each counted attempt is paid for by a retry, a stall or the run in progress, which bounds attempts by `Attempts + MaxStalls`; `Committed`, `Owned`, `Fresh`, `InProcess` |
| `DecisionsSound` | `DecidedOnceUnlessRaced` | `Decisive`: a batch outside `raced` has one request in flight, which sees the task PENDING |
| `BatchIsWhole` | `WholeBatch` | students and logs come from the same commit |
| `ApprovalKeepsPromise`, `PipelineDelivers` | `ImplementsMakerChecker`, `ImplementsBoundedDelivery` | each step is an abstract step or a stutter |
| `Library`: `CountIsTheLedger`, `ShelfIsStocked`, `TypeCorrect` | `CountIsLedger`, `Stocked` | the one call on a book finds a copy left, or its loan not returned; cardinalities of the ledger |
| `Sessions`: `RotationIsUnique`, `LogoutIsFinal` | `OneSuccessor`, `LoggedOutForGood` | a token no one has issued is known to no one (`Fresh`); a live key was replaced only by a refresh about to rewrite it (`Replaced`); nobody refreshes a token logged out (`Over`) |
| `Coursework`: `SubmissionIsOne`, `RatingIsTheAverage`, `RanksAreOrdered` | `OneSubmission`, `RatingIsAverage`, `RanksFollowRatings` | `Single`: outside a race one call has, or is about to create, the submission; `Averaged`: the rating is the average, or one call is under way that will write it and has read what it still is; `Ranking`: the ranks of the list read are written up to where its call is |
| `Messaging`: `DirectIsOne`, `DeliveredIsReached` | `OneDirect`, `Reached` | `Searched`: a call about to create a conversation has found none and nobody else creates one for the same two, but for the cases `OneDirect` names; `Lined`: the gateway remembers the last of a user's sockets that did not close; `Worked`: whoever the job at work has been through is served |
| `Timetable`: `NobodyTwice`, `WeekIsCurrent`, `StandInIsFree`, `RoomsAreApart` | `NoClash`, `SavedIsShown`, `SubstituteIsFree`, `NoRoomTwice` | two saves with lessons inserted have both raced; while a save is open no clean week is cached or on its way; a plan gives no room twice and nothing has a room until it is written |
| `Leaves`: `LeaveIsGranted`, `AttendanceFollows`, `WritesAreFresh`, `CalendarIsOne`, `ClassListIsCalendar` | `LeaveDaysWereGranted`, `AttendanceFollowsDecision`, `NoStaleWrite`, `CalendarAgrees`, `ClassListAgrees` | `Marked`: the days *behind* the hand that marks a request read as decided; the statistics of a range are then computed from its marks; `OwnDays`: a request writes no day but its own, so the last writer of a day is one of the requests the class list looks at |
| `Profiles`: `NumbersAreReviewed`, `PhotoIsThere`, `DecisionIsKept`, `ChangesGoThroughApproval` | `NumbersReviewed`, `PhotoThere`, `DecisionStands`, `ChangesAreApproved` | `Backs`: a number is carried by a call that owes a request, or by a request that no review about to reject read with another number; a photo has one owner |
| `Billing`: `InvoiceIsPayment`, `PaidIsPaid`, `TariffIsBilled` | `InvoiceTellsPayment`, `PaymentStands`, `BilledAtTariff` | an uploaded invoice is still the one on file; a run in `fresh` has read today's rates and dealt with all but `todo` |
| `Enrolment`: `OneRowOfEach`, `TransferIsWhole`, `SectionIsOfTheSchool` | `OneOfEach`, `NotBetweenSchools`, `SchoolAgrees` | `Sole`: under one key there is one row, or one call that is to create it; the one exception is the enrolment a transfer is about to mark.  `Between`: who is marked has a call that has marked him, not one that has yet to |

Some of these were not obvious.  In `Leaves`, `Profiles` and `Billing` the
action properties follow from the state invariant by going through the few
actions that write the variable (`OnlyTheseWrite`, `OnlyTheseBill`).
`RatingIsAverage` compares two sums over the same submissions, one of exact and
one of rounded percentages.  The induction theorems of the library cannot be used
here, since they take an operator as a parameter.  `CourseworkProofs` argues by
the smallest counterexample instead: of the subsets of a finite set on which a
claim fails one contains no other (`SmallestSet`, from the well-foundedness of
strict inclusion), and with one element less the claim is true.  In this way it
is shown that the function which the fold of the community modules chooses exists
(`AddsExists`) and is the only one (`AddsAlike`), that a sum can be taken in any
order (`SumAny`), and that two sums whose summands are close are close
(`SumsAreClose`).  `RoundingIsClose` says how close one rounded percentage is,
for any marks and any positive maximum.  `RanksFollowRatings` needs that a list
of all users without repetition has every one of them, which is a fact about
injections between finite sets of one size.  `Reached` needs the whole order of a user's
connections and not only his last one, because a socket that closes makes the
gateway forget him only if it is the one remembered.  `SchoolAgrees`
needs that a section's school never changes while the section exists, which
holds because a row's name is a call and a call creates once (`Born`,
`Unborn`).

Left to TLC:

* `JobsSettle`, `QueuedUnlessLost`, `ExpiredAreClosed`, `ExpiredAreMarked`: they
  hold under fairness, and liveness and ENABLED are out of the prover's reach.

No module uses a RECURSIVE operator.  `TypeOK` is checked by TLC for
`Onboarding`; in the other modules typing is part of what is proved, and the runs
are spent on the properties that can go wrong.

## 6. Where the code and its text part

Each of these was met while modelling and is what a history variable excludes.
All but the second and the last two are one kind of thing, a check that the
write does not repeat, with one remedy: put the expected status or count in the
`where` of the update.

* Two decisions of one approval task both pass the PENDING test
  (`approvals/approvals.service.ts:213`): it is decided, and its batch
  provisioned, twice (`DecidedOnceUnlessRaced`).
* Credential jobs are enqueued after the commit
  (`approvals/approvals.service.ts:351`): a process that dies there leaves logs
  QUEUED that nothing picks up (`QueuedUnlessLost`).
* Two checkouts of the last copy both see it
  (`library/transactions.service.ts:37`): `availableCopies` becomes -1 (`Stocked`).
* A class incharge who read a leave before it was escalated decides it
  afterwards, though "Class Incharge authorized ONLY IF leave is not escalated"
  (`academics/leaves.service.ts:65`) (`NoStaleWrite`).
* Two submissions of one assignment, two payments of one bill, two
  bulk saves, two starts of one conversation, two creations of one profile pass
  their checks together (`OneSubmission`, `PaymentStands`, `NoClash`,
  `OneDirect`, `OneOfEach`).
* A refresh that overlaps a logout stores the old key and a new token again
  (`LoggedOutForGood`).
* The gateway remembers a user's latest socket; when that one closes the user is
  offline although an older tab is open, and gets a push message instead
  (`Reached`).
* The scheduled billing run writes its audit row as user SYSTEM, which does not
  exist: its bills stand, the run is reported failed (`LogRun`).

## 7. Not modelled

Guards and role checks appear only as the sets of callers they let through.
Bug reports, bus routes, support, broadcasts, notifications, terms, subjects and
the audit log are single writes with nothing after them (the first two have a
life cycle worth a module of their own, see the plan).  Storage, PDF, system
status and database clients are I/O.  Also left out: lists and dashboards of other
roles beyond those named above, drafts (`submit` does not tell a draft from a
published assignment), the score by which substitutes are ordered, the list of
absent teachers, and validation of inputs.  Formatting, names, passwords and message texts
are abstracted away.  School tenancy is modelled where a handler compares
schools (returns, enrolment, classes) and not where it does not (checkouts).

## 8. Plan

1. *(done)* `Onboarding` with its abstract specifications and proofs; `Library`;
   `Leaves`; `Profiles`.
2. *(done)* `Billing`; `Coursework`; `Timetable`; `Messaging`; `Sessions`;
   `Enrolment`; the attendance calendar in `Leaves`.
3. *(done)* Proofs: every invariant and action property of the runs, and both
   refinements.
4. A `BugReports` module: the closing cron works off a list it read before a
   report was reopened.  Bus routes: locking and resubmission.
