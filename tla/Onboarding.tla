------------------------------ MODULE Onboarding ------------------------------
(***************************************************************************)
(* Student onboarding, from the clerk's staged batch to the welcome SMS:    *)
(*                                                                         *)
(*   clerk  --createStagedBatch-->  batch + ApprovalTask (one transaction)  *)
(*   principal  --handleApprovalTask-->  check, then reject, or provision   *)
(*       the whole batch in one transaction and queue one job per student   *)
(*   OnboardingProcessor  --process-->  count the attempt, send, record     *)
(*                                                                         *)
(* An HTTP request is a one-shot process.  It reads the task and checks it  *)
(* (CheckTask); the write comes in a later step, so other requests run in   *)
(* between.  The approval transaction updates the task row first, so the    *)
(* row lock serialises competing transactions and each is one step here.    *)
(* raced remembers the batches that two requests had passed the check of    *)
(* when neither had finished.                                               *)
(***************************************************************************)
EXTENDS Naturals, FiniteSets

CONSTANTS
  Batches,     \* staged batches; batch b and its approval task share the name
  Records,     \* the student records a batch may hold
  Requests,    \* POST /approvals/profile/tasks/:id calls, one shot each
  Users,       \* callers of the API
  Clerks,      \* callers of the school that have a clerk profile
  Principals,  \* callers of the task's school that have a principal profile
  Workers,     \* server processes, each running one OnboardingProcessor
  Attempts,    \* BullMQ attempts of a job
  MaxStalls,   \* BullMQ maxStalledCount
  None

ASSUME OnboardingAssumption ==
  /\ Attempts \in Nat \ {0}
  /\ MaxStalls \in Nat
  /\ Clerks \subseteq Users /\ Principals \subseteq Users
  /\ None \notin Batches /\ None \notin Requests \X Records

\* A log row and its job are named by the request that committed them and by
\* the record they are for: no request provisions a record twice.
Logs == Requests \X Records

Decisions == {"APPROVED", "REJECTED"}

VARIABLES
  task,       \* ApprovalTask.status
  batch,      \* StagedOnboardingBatch: status and records
  hasSection, \* does the school have a section to put students in?
  request,    \* a decision request: where it stands, what it is about
  toQueue,    \* jobsToQueue of a request: records whose job is not yet added
  students,   \* users and students rows created, by log name
  log,        \* NotificationDispatchLog: status and attempts
  job,        \* the BullMQ job of a log
  worker,     \* what a worker is doing
  sms,        \* messages handed to the gateway, counted per log (history)
  raced       \* batches two decision requests handled at once (history)

vars == <<task, batch, hasSection, request, toQueue, students, log, job,
          worker, sms, raced>>

intake == <<task, batch, hasSection, request, toQueue, students, raced>>
delivery == <<log, job, worker, sms>>

-----------------------------------------------------------------------------
Init ==
  /\ task = [b \in Batches |-> "absent"]
  /\ batch = [b \in Batches |-> [status |-> "absent", records |-> {}]]
  /\ hasSection \in BOOLEAN
  /\ request = [r \in Requests |->
                  [pc |-> "new", batch |-> None, decision |-> "APPROVED"]]
  /\ toQueue = [r \in Requests |-> {}]
  /\ students = {}
  /\ log = [l \in Logs |-> [status |-> "absent", attempts |-> 0]]
  /\ job = [l \in Logs |-> [state |-> "absent", made |-> 0, stalls |-> 0]]
  /\ worker = [w \in Workers |-> [pc |-> "idle", job |-> None]]
  /\ sms = [l \in Logs |-> 0]
  /\ raced = {}

-----------------------------------------------------------------------------
(* The clerk and the school's setup                                        *)

\* Defect: the batch is left without its default status.
CreateStagedBatch_NoDefault(u, b, recs) ==
  /\ u \in Clerks
  /\ task[b] = "absent"
  /\ task' = [task EXCEPT ![b] = "PENDING"]
  /\ batch' = [batch EXCEPT ![b] = [status |-> None, records |-> recs]]
  /\ UNCHANGED <<hasSection, request, toQueue, students, delivery, raced>>

CreateStagedBatch(u, b, recs) ==
  /\ u \in Clerks
  /\ task[b] = "absent"
  /\ task' = [task EXCEPT ![b] = "PENDING"]
  /\ batch' = [batch EXCEPT ![b] = [status |-> "PENDING", records |-> recs]]
  /\ UNCHANGED <<hasSection, request, toQueue, students, delivery, raced>>

\* The first section of the school is created, or its last one deleted.
ConfigureSections ==
  /\ hasSection' = ~hasSection
  /\ UNCHANGED <<task, batch, request, toQueue, students, delivery, raced>>

-----------------------------------------------------------------------------
(* handleApprovalTask                                                      *)

InFlight(r) == request[r].pc \in {"checked", "enqueue"}

\* Defect: the status check is dropped.
MayDecide_AnyStatus(u, b) == task[b] # "absent" /\ u \in Principals

MayDecide(u, b) == task[b] = "PENDING" /\ u \in Principals

\* The task is read and every guard of the handler evaluated on what was read.
CheckTask(r, u, b, d) ==
  /\ request[r].pc = "new"
  /\ \/ /\ MayDecide(u, b)
        /\ request' = [request EXCEPT ![r] =
                         [pc |-> "checked", batch |-> b, decision |-> d]]
        /\ raced' = IF \E q \in Requests : InFlight(q) /\ request[q].batch = b
                    THEN raced \cup {b} ELSE raced
     \/ /\ ~MayDecide(u, b)
        /\ request' = [request EXCEPT ![r].pc = "denied"]
        /\ UNCHANGED raced
  /\ UNCHANGED <<task, batch, hasSection, toQueue, students, delivery>>

RejectTask(r) ==
  /\ request[r].pc = "checked"
  /\ request[r].decision = "REJECTED"
  /\ task' = [task EXCEPT ![request[r].batch] = "REJECTED"]
  /\ request' = [request EXCEPT ![r].pc = "ok"]
  /\ UNCHANGED <<batch, hasSection, toQueue, students, delivery, raced>>

\* The logs an approval by r writes.
LogsOf(r) == {r} \X batch[request[r].batch].records

\* Defect: the rows are written outside the transaction, and the first failure
\* ends the request.
ApproveTask_RowByRow(r) ==
  LET b == request[r].batch IN
  /\ request[r].pc = "checked"
  /\ request[r].decision = "APPROVED"
  /\ task' = [task EXCEPT ![b] = "APPROVED"]
  /\ \E rec \in batch[b].records : students' = students \cup {<<r, rec>>}
  /\ request' = [request EXCEPT ![r].pc = "failed"]
  /\ UNCHANGED <<batch, hasSection, toQueue, delivery, raced>>

\* A record without a section, and without a fallback one, aborts the whole
\* transaction.
ApproveTask(r) ==
  LET b == request[r].batch IN
  /\ request[r].pc = "checked"
  /\ request[r].decision = "APPROVED"
  /\ batch[b].records = {} \/ hasSection
  /\ task' = [task EXCEPT ![b] = "APPROVED"]
  /\ students' = students \cup LogsOf(r)
  /\ log' = [l \in Logs |-> IF l \in LogsOf(r)
                            THEN [status |-> "QUEUED", attempts |-> 0]
                            ELSE log[l]]
  /\ batch' = [batch EXCEPT ![b].status = "APPROVED"]
  /\ toQueue' = [toQueue EXCEPT ![r] = batch[b].records]
  /\ request' = [request EXCEPT ![r].pc =
                   IF batch[b].records = {} THEN "ok" ELSE "enqueue"]
  /\ UNCHANGED <<hasSection, job, worker, sms, raced>>

\* Defect: the jobs are added inside the transaction that is rolled back.
RollbackApproval_JobsQueued(r) ==
  /\ request[r].pc = "checked"
  /\ request[r].decision = "APPROVED"
  /\ request' = [request EXCEPT ![r].pc = "failed"]
  /\ job' = [l \in Logs |-> IF l \in LogsOf(r)
                            THEN [job[l] EXCEPT !.state = "waiting"]
                            ELSE job[l]]
  /\ UNCHANGED <<task, batch, hasSection, toQueue, students, log, worker, sms,
                 raced>>

\* Defect: the task's own update is not part of the transaction.
RollbackApproval_TaskStays(r) ==
  /\ request[r].pc = "checked"
  /\ request[r].decision = "APPROVED"
  /\ task' = [task EXCEPT ![request[r].batch] = "APPROVED"]
  /\ request' = [request EXCEPT ![r].pc = "failed"]
  /\ UNCHANGED <<batch, hasSection, toQueue, students, delivery, raced>>

\* No section, a generated e-mail address already taken, the transaction's
\* five seconds over: nothing is written and the caller gets an error.
RollbackApproval(r) ==
  /\ request[r].pc = "checked"
  /\ request[r].decision = "APPROVED"
  /\ request' = [request EXCEPT ![r].pc = "failed"]
  /\ UNCHANGED <<task, batch, hasSection, toQueue, students, delivery, raced>>

\* Defect: the loop ends after its first job.
EnqueueJob_First(r, rec) ==
  /\ request[r].pc = "enqueue"
  /\ rec \in toQueue[r]
  /\ job' = [job EXCEPT ![<<r, rec>>].state = "waiting"]
  /\ toQueue' = [toQueue EXCEPT ![r] = @ \ {rec}]
  /\ request' = [request EXCEPT ![r].pc = "ok"]
  /\ UNCHANGED <<task, batch, hasSection, students, log, worker, sms, raced>>

\* One turn of the loop over jobsToQueue, after the commit.
EnqueueJob(r, rec) ==
  /\ request[r].pc = "enqueue"
  /\ rec \in toQueue[r]
  /\ job' = [job EXCEPT ![<<r, rec>>].state = "waiting"]
  /\ toQueue' = [toQueue EXCEPT ![r] = @ \ {rec}]
  /\ request' = [request EXCEPT ![r].pc =
                   IF toQueue[r] = {rec} THEN "ok" ELSE "enqueue"]
  /\ UNCHANGED <<task, batch, hasSection, students, log, worker, sms, raced>>

\* The process dies, or the database or Redis refuses the next call.  What is
\* in jobsToQueue exists in memory only.
AbandonRequest(r) ==
  /\ InFlight(r)
  /\ request' = [request EXCEPT ![r].pc = "lost"]
  /\ toQueue' = [toQueue EXCEPT ![r] = {}]
  /\ UNCHANGED <<task, batch, hasSection, students, delivery, raced>>

-----------------------------------------------------------------------------
(* OnboardingProcessor.process, and the queue that drives it               *)

\* A worker moves to pc having done nothing else but what its action adds.
Goto(w, pc) == worker' = [worker EXCEPT ![w].pc = pc]

Release(w) == worker' = [worker EXCEPT ![w] = [pc |-> "idle", job |-> None]]

TakeJob(w, l) ==
  /\ worker[w].pc = "idle"
  /\ job[l].state = "waiting"
  /\ job' = [job EXCEPT ![l].state = "active"]
  /\ worker' = [worker EXCEPT ![w] = [pc |-> "count", job |-> l]]
  /\ UNCHANGED <<intake, log, sms>>

\* Defect: a failed increment is ignored.
CountAttempt_Ignored(w) ==
  /\ worker[w].pc = "count"
  /\ \/ log' = [log EXCEPT ![worker[w].job].attempts = @ + 1]
     \/ UNCHANGED log
  /\ Goto(w, "send")
  /\ UNCHANGED <<intake, job, sms>>

\* The increment stands before the try: if it fails the job fails unrecorded.
CountAttempt(w) ==
  /\ worker[w].pc = "count"
  /\ \/ /\ log' = [log EXCEPT ![worker[w].job].attempts = @ + 1]
        /\ Goto(w, "send")
     \/ /\ Goto(w, "throw")
        /\ UNCHANGED log
  /\ UNCHANGED <<intake, job, sms>>

\* Defect: the gateway's error is swallowed.
SendSms_Swallowed(w) ==
  /\ worker[w].pc = "send"
  /\ \/ sms' = [sms EXCEPT ![worker[w].job] = @ + 1]
     \/ UNCHANGED sms
  /\ Goto(w, "mark")
  /\ UNCHANGED <<intake, log, job>>

\* School lookup and gateway call; either the message goes out or it throws.
SendSms(w) ==
  /\ worker[w].pc = "send"
  /\ \/ /\ sms' = [sms EXCEPT ![worker[w].job] = @ + 1]
        /\ Goto(w, "mark")
     \/ /\ Goto(w, "catch")
        /\ UNCHANGED sms
  /\ UNCHANGED <<intake, log, job>>

\* Defect: the promise of a failed update is never settled.
MarkSent_NeverSettled(w) ==
  /\ worker[w].pc = "mark"
  /\ \/ /\ log' = [log EXCEPT ![worker[w].job].status = "SENT"]
        /\ Goto(w, "return")
     \/ /\ Goto(w, "waits")
        /\ UNCHANGED log
  /\ UNCHANGED <<intake, job, sms>>

MarkSent(w) ==
  /\ worker[w].pc = "mark"
  /\ \/ /\ log' = [log EXCEPT ![worker[w].job].status = "SENT"]
        /\ Goto(w, "return")
     \/ /\ Goto(w, "catch")
        /\ UNCHANGED log
  /\ UNCHANGED <<intake, job, sms>>

RecordFailure(w) ==
  /\ worker[w].pc = "catch"
  /\ \/ log' = [log EXCEPT ![worker[w].job].status = "FAILED"]
     \/ UNCHANGED log
  /\ Goto(w, "throw")
  /\ UNCHANGED <<intake, job, sms>>

\* process() returned: BullMQ moves the job to completed.
Complete(w) ==
  /\ worker[w].pc = "return"
  /\ job' = [job EXCEPT ![worker[w].job].state = "completed"]
  /\ Release(w)
  /\ UNCHANGED <<intake, log, sms>>

\* Defect: one attempt too many.
Retry_OneMore(w) ==
  LET l == worker[w].job IN
  /\ worker[w].pc = "throw"
  /\ job' = [job EXCEPT ![l] =
               [state |-> IF @.made < Attempts THEN "delayed" ELSE "failed",
                made |-> @.made + 1, stalls |-> @.stalls]]
  /\ Release(w)
  /\ UNCHANGED <<intake, log, sms>>

\* process() threw: BullMQ delays the job for another attempt, or fails it.
Retry(w) ==
  LET l == worker[w].job IN
  /\ worker[w].pc = "throw"
  /\ job' = [job EXCEPT ![l] =
               [state |-> IF @.made + 1 < Attempts THEN "delayed" ELSE "failed",
                made |-> @.made + 1, stalls |-> @.stalls]]
  /\ Release(w)
  /\ UNCHANGED <<intake, log, sms>>

BackoffElapsed(l) ==
  /\ job[l].state = "delayed"
  /\ job' = [job EXCEPT ![l].state = "waiting"]
  /\ UNCHANGED <<intake, log, worker, sms>>

\* The process running worker w dies; its job stays active and unowned.
WorkerDies(w) ==
  /\ worker[w].pc # "idle"
  /\ Release(w)
  /\ UNCHANGED <<intake, log, job, sms>>

Requeued(j) == [state |-> "waiting", made |-> j.made, stalls |-> j.stalls + 1]

\* BullMQ's stalled check: an active job whose lock expired runs again, up to
\* MaxStalls times, and then fails for good.
RecoverStalled(l) ==
  /\ job[l].state = "active"
  /\ \A w \in Workers : worker[w].job # l
  /\ job' = IF job[l].stalls < MaxStalls
            THEN [job EXCEPT ![l] = Requeued(@)]
            ELSE [job EXCEPT ![l].state = "failed"]
  /\ UNCHANGED <<intake, log, worker, sms>>

-----------------------------------------------------------------------------
Process(w) ==
  \/ CountAttempt(w) \/ SendSms(w) \/ MarkSent(w) \/ RecordFailure(w)
  \/ Complete(w) \/ Retry(w)

Handle(r) ==
  \/ RejectTask(r) \/ ApproveTask(r) \/ RollbackApproval(r)
  \/ \E rec \in Records : EnqueueJob(r, rec)

Next ==
  \/ \E u \in Users, b \in Batches, recs \in SUBSET Records :
       CreateStagedBatch(u, b, recs)
  \/ ConfigureSections
  \/ \E r \in Requests, u \in Users, b \in Batches, d \in Decisions :
       CheckTask(r, u, b, d)
  \/ \E r \in Requests : Handle(r) \/ AbandonRequest(r)
  \/ \E w \in Workers : Process(w) \/ WorkerDies(w)
  \/ \E w \in Workers, l \in Logs : TakeJob(w, l)
  \/ \E l \in Logs : BackoffElapsed(l) \/ RecoverStalled(l)

Spec == Init /\ [][Next]_vars

\* Node runs every pending continuation, BullMQ hands every waiting job to an
\* idle worker, fires every delay and checks for stalled jobs.  Nobody has to
\* send a request, and no failure has to happen.
Fairness ==
  /\ \A r \in Requests : WF_vars(Handle(r))
  /\ \A w \in Workers : WF_vars(Process(w))
  /\ \A w \in Workers, l \in Logs : WF_vars(TakeJob(w, l))
  /\ \A l \in Logs : WF_vars(BackoffElapsed(l)) /\ WF_vars(RecoverStalled(l))

FairSpec == Spec /\ Fairness

-----------------------------------------------------------------------------
(* What holds of the pipeline                                              *)

\* The rows and process states the variables hold.
RequestState ==
  [pc : {"new", "checked", "enqueue", "ok", "denied", "failed", "lost"},
   batch : Batches \cup {None},
   decision : Decisions]

LogRow ==
  [status : {"absent", "QUEUED", "SENT", "FAILED"}, attempts : Nat]

JobState ==
  [state : {"absent", "waiting", "active", "delayed", "completed", "failed"},
   made : Nat,
   stalls : Nat]

WorkerState ==
  [pc : {"idle", "count", "send", "mark", "return", "catch", "throw"},
   job : Logs \cup {None}]

BatchRow ==
  [status : {"absent", "PENDING", "APPROVED"}, records : SUBSET Records]

\* Every variable holds what the code's enums and columns allow.
TypeOK ==
  /\ task \in [Batches -> {"absent", "PENDING"} \cup Decisions]
  /\ batch \in [Batches -> BatchRow]
  /\ hasSection \in BOOLEAN
  /\ request \in [Requests -> RequestState]
  /\ toQueue \in [Requests -> SUBSET Records]
  /\ students \in SUBSET Logs
  /\ log \in [Logs -> LogRow]
  /\ job \in [Logs -> JobState]
  /\ worker \in [Workers -> WorkerState]
  /\ sms \in [Logs -> Nat]
  /\ raced \in SUBSET Batches

\* A batch is provisioned whole or not at all: whatever request approves it,
\* and wherever that request dies, each of its records has its student and its
\* dispatch log or none has, and then the batch is APPROVED.
WholeBatch ==
  \A r \in Requests :
    LET made == {rec \in Records : <<r, rec>> \in students} IN
    /\ made = {rec \in Records : log[<<r, rec>>].status # "absent"}
    /\ made # {} => /\ made = batch[request[r].batch].records
                    /\ batch[request[r].batch].status = "APPROVED"

\* Jobs are added "after successful SQL transaction commit"
\* (approvals.service.ts:350): a job, and so a message with a user name and a
\* password in it, exists only for an account that does.
JobsAreCommitted ==
  \A l \in Logs :
    job[l].state # "absent" \/ sms[l] > 0 => l \in students

\* The attempt counter the principal reads never understates what parents
\* received, and retries and restarts together are bounded.
AttemptsCoverSms ==
  \A l \in Logs :
    sms[l] <= log[l].attempts /\ log[l].attempts <= Attempts + MaxStalls

\* A log says SENT only if a message went out, and a job that BullMQ takes off
\* the queue as completed left its log SENT, over any retries and restarts.
SentMeansDelivered ==
  \A l \in Logs :
    /\ log[l].status = "SENT" => sms[l] > 0
    /\ job[l].state = "completed" => log[l].status = "SENT"

Provisioned(r, b) ==
  request[r].batch = b /\ \E rec \in Records : <<r, rec>> \in students

\* A batch is provisioned by at most one request, and not at all if its task
\* ends up REJECTED.
OneDecision(b) ==
  /\ \A r, q \in Requests : Provisioned(r, b) /\ Provisioned(q, b) => r = q
  /\ task[b] = "REJECTED" => \A r \in Requests : ~Provisioned(r, b)

\* The status check is enough whenever no two requests handle the same task at
\* once, whatever else runs, rolls back or dies.
DecidedOnceUnlessRaced == \A b \in Batches \ raced : OneDecision(b)

\* Every job that is queued ends, completed or failed: retries, worker deaths
\* and stalled checks cannot keep it going for ever, nor can other jobs keep
\* it from a worker.
JobsSettle ==
  \A l \in Logs :
    job[l].state # "absent" ~> job[l].state \in {"completed", "failed"}

\* Every log that is committed gets its job, unless the request that committed
\* it dies on the way.
QueuedUnlessLost ==
  \A l \in Logs :
    l \in students ~> job[l].state # "absent" \/ request[l[1]].pc = "lost"

-----------------------------------------------------------------------------
(* The abstract specifications                                             *)

Accounts(b) ==
  [rec \in Records |->
     Cardinality({r \in Requests : request[r].batch = b
                                    /\ <<r, rec>> \in students})]

Promise == INSTANCE MakerChecker WITH
  state <- [b \in Batches |-> IF b \in raced THEN "disowned" ELSE task[b]],
  records <- [b \in Batches |-> IF b \in raced THEN {} ELSE batch[b].records],
  accounts <- [b \in Batches |-> IF b \in raced
                                 THEN [rec \in Records |-> 0]
                                 ELSE Accounts(b)]

\* A batch is submitted, decided once, and has its accounts exactly when it was
\* approved: the pipeline implements MakerChecker, which disowns a batch as soon
\* as two requests handle it at once.
ImplementsMakerChecker == Promise!Spec

Phase(l) ==
  CASE job[l].state = "completed" -> "delivered"
    [] job[l].state = "failed" -> "exhausted"
    [] job[l].state \in {"waiting", "active", "delayed"} -> "queued"
    [] l \in students /\ job[l].state = "absent" -> "committed"
    [] OTHER -> "absent"

Delivery == INSTANCE BoundedDelivery WITH
  MaxDeliveries <- Attempts + MaxStalls,
  phase <- [l \in Logs |-> Phase(l)],
  deliveries <- sms

\* Crashes, retries and overlapping decisions included, each log is committed
\* before it is queued, queued before it is sent, sent a bounded number of
\* times, and ends once.
ImplementsBoundedDelivery == Delivery!Spec
=============================================================================
