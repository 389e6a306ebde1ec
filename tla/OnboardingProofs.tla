--------------------------- MODULE OnboardingProofs ---------------------------
(***************************************************************************)
(* Proofs about Onboarding, for any batches, records, requests and workers  *)
(* and any retry limits.                                                   *)
(***************************************************************************)
EXTENDS Onboarding, FiniteSetTheorems, TLAPS

-----------------------------------------------------------------------------
(* What the updates of one row do to it                                    *)

\* A request that moves to another place keeps what it is about.
LEMMA RequestMoves ==
  ASSUME NEW r \in Requests, request \in [Requests -> RequestState],
         NEW pc \in {"new", "checked", "enqueue", "ok", "denied", "failed",
                     "lost"}
  PROVE  LET s == [request[r] EXCEPT !.pc = pc] IN
         s \in RequestState /\ s.pc = pc /\ s.batch = request[r].batch
  BY DEF RequestState

\* A new row state leaves the attempt counter alone.
LEMMA LogMoves ==
  ASSUME NEW l \in Logs, log \in [Logs -> LogRow],
         NEW status \in {"absent", "QUEUED", "SENT", "FAILED"}
  PROVE  LET s == [log[l] EXCEPT !.status = status] IN
         /\ s \in LogRow
         /\ s.status = status
         /\ s.attempts = log[l].attempts
  BY DEF LogRow

\* Counting an attempt leaves the row state alone.
LEMMA LogCounts ==
  ASSUME NEW l \in Logs, log \in [Logs -> LogRow]
  PROVE  LET s == [log[l] EXCEPT !.attempts = @ + 1] IN
         /\ s \in LogRow
         /\ s.status = log[l].status
         /\ s.attempts = log[l].attempts + 1
  BY DEF LogRow

\* A job that changes state keeps its counters.
LEMMA JobMoves ==
  ASSUME NEW l \in Logs, job \in [Logs -> JobState],
         NEW state \in {"absent", "waiting", "active", "delayed", "completed",
                        "failed"}
  PROVE  LET s == [job[l] EXCEPT !.state = state] IN
         /\ s \in JobState
         /\ s.state = state
         /\ s.made = job[l].made
         /\ s.stalls = job[l].stalls
  BY DEF JobState

\* A worker that moves on keeps its job.
LEMMA WorkerMoves ==
  ASSUME NEW w \in Workers, worker \in [Workers -> WorkerState],
         NEW pc \in {"idle", "count", "send", "mark", "return", "catch",
                     "throw"}
  PROVE  LET s == [worker[w] EXCEPT !.pc = pc] IN
         s \in WorkerState /\ s.pc = pc /\ s.job = worker[w].job
  BY DEF WorkerState

\* An approved batch keeps its records.
LEMMA BatchMoves ==
  ASSUME NEW b \in Batches, batch \in [Batches -> BatchRow]
  PROVE  LET s == [batch[b] EXCEPT !.status = "APPROVED"] IN
         s \in BatchRow /\ s.records = batch[b].records
  BY DEF BatchRow

-----------------------------------------------------------------------------
(* Typing                                                                  *)

\* A worker that is not idle holds a job, and an idle one none.
Holding ==
  \A w \in Workers : worker[w].pc = "idle" <=> worker[w].job = None

\* A request past its check is about a batch.
About ==
  \A r \in Requests :
    request[r].pc \notin {"new", "denied"} => request[r].batch \in Batches

Typed == TypeOK /\ Holding /\ About

LEMMA TypedInit == Init => Typed
<1> SUFFICES ASSUME Init PROVE Typed
  OBVIOUS
<1>1. TypeOK
  BY OnboardingAssumption
  DEF Init, TypeOK, RequestState, LogRow, JobState, WorkerState, BatchRow,
      Decisions
<1>2. Holding /\ About
  BY DEF Init, Holding, About
<1>3. QED
  BY <1>1, <1>2 DEF Typed

LEMMA TypedNext == Typed /\ [Next]_vars => Typed'
<1> SUFFICES ASSUME Typed, [Next]_vars PROVE Typed'
  OBVIOUS
<1> USE DEF Typed, TypeOK, Holding, About
<1> None \notin Logs
  BY OnboardingAssumption DEF Logs
<1>1. ASSUME NEW u \in Users, NEW b \in Batches, NEW recs \in SUBSET Records,
             CreateStagedBatch(u, b, recs)
      PROVE  Typed'
  BY <1>1 DEF CreateStagedBatch, delivery, BatchRow
<1>2. CASE ConfigureSections
  BY <1>2 DEF ConfigureSections, delivery
<1>3. ASSUME NEW r \in Requests, NEW u \in Users, NEW b \in Batches,
             NEW d \in Decisions, CheckTask(r, u, b, d)
      PROVE  Typed'
  <2>1. [pc |-> "checked", batch |-> b, decision |-> d] \in RequestState
    BY DEF RequestState
  <2>2. request' \in [Requests -> RequestState] /\ raced' \in SUBSET Batches
    BY <1>3, <2>1, RequestMoves DEF CheckTask
  <2>3. About'
    <3>1. \A q \in Requests : q # r => request'[q] = request[q]
      BY <1>3 DEF CheckTask
    <3>2. \/ request'[r] = [pc |-> "checked", batch |-> b, decision |-> d]
          \/ request'[r].pc = "denied"
      BY ZenonT(30), <1>3, RequestMoves DEF CheckTask
    <3>3. QED
      BY <3>1, <3>2
  <2>4. QED
    BY <1>3, <2>2, <2>3 DEF CheckTask, delivery
<1>4. ASSUME NEW r \in Requests, Handle(r) \/ AbandonRequest(r)
      PROVE  Typed'
  <2>1. CASE RejectTask(r)
    BY <2>1, RequestMoves DEF RejectTask, delivery, Decisions
  <2>2. CASE ApproveTask(r)
    <3>1. request[r].batch \in Batches
      BY <2>2 DEF ApproveTask
    <3>2. batch[request[r].batch].records \in SUBSET Records
      BY <3>1 DEF BatchRow
    <3>3. LogsOf(r) \in SUBSET Logs
      BY <3>2 DEF LogsOf, Logs
    <3>4. log' \in [Logs -> LogRow]
      <4>1. [status |-> "QUEUED", attempts |-> 0] \in LogRow
        BY DEF LogRow
      <4>2. QED
        BY <2>2, <4>1 DEF ApproveTask
    <3>5. /\ request' \in [Requests -> RequestState]
          /\ batch' \in [Batches -> BatchRow]
      BY <2>2, <3>1, RequestMoves, BatchMoves DEF ApproveTask
    <3>6. About'
      <4>1. request'[r].batch \in Batches
        BY <2>2, <3>1, RequestMoves DEF ApproveTask
      <4>2. \A q \in Requests : q # r => request'[q] = request[q]
        BY <2>2 DEF ApproveTask
      <4>3. QED
        BY <4>1, <4>2
    <3>7. QED
      BY <2>2, <3>2, <3>3, <3>4, <3>5, <3>6 DEF ApproveTask, Decisions
  <2>3. CASE RollbackApproval(r)
    BY <2>3, RequestMoves DEF RollbackApproval, delivery
  <2>4. ASSUME NEW rec \in Records, EnqueueJob(r, rec)
        PROVE  Typed'
    <3>1. /\ request' \in [Requests -> RequestState]
          /\ request'[r].batch = request[r].batch
          /\ \A q \in Requests : q # r => request'[q] = request[q]
      BY ZenonT(30), <2>4, RequestMoves DEF EnqueueJob
    <3>a. About'
      BY <2>4, <3>1 DEF EnqueueJob
    <3>2. job' \in [Logs -> JobState]
      BY <2>4, JobMoves DEF EnqueueJob, Logs
    <3>3. QED
      BY <2>4, <3>1, <3>a, <3>2 DEF EnqueueJob
  <2>5. CASE AbandonRequest(r)
    BY <2>5, RequestMoves DEF AbandonRequest, InFlight, delivery
  <2>6. QED
    BY <1>4, <2>1, <2>2, <2>3, <2>4, <2>5 DEF Handle
<1>5. ASSUME NEW w \in Workers, Process(w) \/ WorkerDies(w)
      PROVE  Typed'
  <2> USE DEF intake, Goto, Release
  <2>a. [pc |-> "idle", job |-> None] \in WorkerState
    BY DEF WorkerState
  <2>b. worker[w].pc # "idle" => worker[w].job \in Logs
    BY DEF WorkerState
  <2>c. \A pc \in {"send", "mark", "return", "catch", "throw"} :
          worker[w].pc # "idle" /\ Goto(w, pc)
            => worker' \in [Workers -> WorkerState] /\ Holding'
    <3> SUFFICES ASSUME NEW pc \in {"send", "mark", "return", "catch", "throw"},
                        worker[w].pc # "idle", Goto(w, pc)
                 PROVE  worker' \in [Workers -> WorkerState] /\ Holding'
      OBVIOUS
    <3>1. worker' \in [Workers -> WorkerState]
      BY WorkerMoves
    <3>2. worker'[w].pc = pc /\ worker'[w].job = worker[w].job
      BY WorkerMoves
    <3>3. \A v \in Workers : v # w => worker'[v] = worker[v]
      OBVIOUS
    <3>4. QED
      BY <3>1, <3>2, <3>3
  <2>1. CASE CountAttempt(w)
    <3>1. worker' \in [Workers -> WorkerState] /\ Holding'
      BY <2>1, <2>c DEF CountAttempt
    <3>2. log' \in [Logs -> LogRow] /\ sms' \in [Logs -> Nat]
      BY <2>1, <2>b, LogCounts DEF CountAttempt
    <3>3. QED
      BY <2>1, <3>1, <3>2 DEF CountAttempt
  <2>2. CASE SendSms(w)
    <3>1. worker' \in [Workers -> WorkerState] /\ Holding'
      BY <2>2, <2>c DEF SendSms
    <3>2. log' \in [Logs -> LogRow] /\ sms' \in [Logs -> Nat]
      BY <2>2, <2>b DEF SendSms
    <3>3. QED
      BY <2>2, <3>1, <3>2 DEF SendSms
  <2>3. CASE MarkSent(w)
    <3>1. worker' \in [Workers -> WorkerState] /\ Holding'
      BY <2>3, <2>c DEF MarkSent
    <3>2. log' \in [Logs -> LogRow] /\ sms' \in [Logs -> Nat]
      BY <2>3, <2>b, LogMoves DEF MarkSent
    <3>3. QED
      BY <2>3, <3>1, <3>2 DEF MarkSent
  <2>4. CASE RecordFailure(w)
    <3>1. worker' \in [Workers -> WorkerState] /\ Holding'
      BY <2>4, <2>c DEF RecordFailure
    <3>2. log' \in [Logs -> LogRow] /\ sms' \in [Logs -> Nat]
      BY <2>4, <2>b, LogMoves DEF RecordFailure
    <3>3. QED
      BY <2>4, <3>1, <3>2 DEF RecordFailure
  <2>5. CASE Complete(w)
    BY <2>5, <2>a, <2>b, JobMoves DEF Complete
  <2>6. CASE Retry(w)
    BY <2>6, <2>a, <2>b DEF Retry, JobState
  <2>7. CASE WorkerDies(w)
    BY <2>7, <2>a DEF WorkerDies
  <2>8. QED
    BY <1>5, <2>1, <2>2, <2>3, <2>4, <2>5, <2>6, <2>7 DEF Process
<1>6. ASSUME NEW w \in Workers, NEW l \in Logs, TakeJob(w, l)
      PROVE  Typed'
  <2>1. [pc |-> "count", job |-> l] \in WorkerState
    BY DEF WorkerState
  <2>2. QED
    BY <1>6, <2>1, JobMoves DEF TakeJob, intake
<1>7. ASSUME NEW l \in Logs, BackoffElapsed(l) \/ RecoverStalled(l)
      PROVE  Typed'
  <2>1. Requeued(job[l]) \in JobState
    BY DEF Requeued, JobState
  <2>2. job' \in [Logs -> JobState]
    BY <1>7, <2>1, JobMoves DEF BackoffElapsed, RecoverStalled
  <2>3. QED
    BY <1>7, <2>2 DEF BackoffElapsed, RecoverStalled, intake
<1>8. CASE UNCHANGED vars
  BY <1>8 DEF vars
<1>9. QED
  BY <1>1, <1>2, <1>3, <1>4, <1>5, <1>6, <1>7, <1>8 DEF Next

\* Every variable stays in its type, whatever the constants are.
THEOREM TypeCorrect == Spec => []TypeOK
<1>1. Typed => TypeOK
  BY DEF Typed
<1>2. QED
  BY TypedInit, TypedNext, <1>1, PTL DEF Spec

-----------------------------------------------------------------------------
(* The inductive invariant of commit, queue and delivery                   *)

\* A request that has provisioned is past its check, and what it still has to
\* queue is provisioned and not queued yet.
Committed ==
  /\ \A l \in Logs : job[l].state # "absent" => l \in students
  /\ \A l \in students : request[l[1]].pc \notin {"new", "checked"}
  /\ \A r \in Requests : \A rec \in toQueue[r] :
       /\ request[r].pc = "enqueue"
       /\ <<r, rec>> \in students
       /\ job[<<r, rec>>].state = "absent"

\* A job in process is active and in process on one worker only.
Owned ==
  \A w \in Workers : worker[w].pc # "idle" =>
    /\ job[worker[w].job].state = "active"
    /\ \A v \in Workers : worker[v].job = worker[w].job => v = w

\* Nothing has been done about a log whose job is not queued.
Fresh ==
  \A l \in Logs : job[l].state = "absent" =>
    /\ sms[l] = 0
    /\ log[l].attempts = 0 /\ log[l].status # "SENT"
    /\ job[l].made = 0 /\ job[l].stalls = 0

\* Each counted attempt was paid for: by an attempt BullMQ counted, by a stall,
\* or by the one that is running.
Counted ==
  \A l \in Logs :
    /\ sms[l] <= log[l].attempts
    /\ log[l].attempts <= Attempts + MaxStalls
    /\ job[l].stalls <= MaxStalls
    /\ job[l].state \in {"waiting", "delayed", "active"} =>
         job[l].made < Attempts
    /\ job[l].state \in {"waiting", "delayed"} =>
         log[l].attempts <= job[l].made + job[l].stalls
    /\ job[l].state = "active" =>
         log[l].attempts <= job[l].made + job[l].stalls + 1

\* What a worker has achieved when it gets to a place.
InProcess ==
  \A w \in Workers :
    LET l == worker[w].job IN
    /\ worker[w].pc = "count" =>
         log[l].attempts <= job[l].made + job[l].stalls
    /\ worker[w].pc = "send" => sms[l] < log[l].attempts
    /\ worker[w].pc = "mark" => sms[l] > 0
    /\ worker[w].pc = "return" => log[l].status = "SENT"

IInv ==
  /\ Typed
  /\ Committed /\ Owned /\ Fresh /\ Counted /\ InProcess /\ SentMeansDelivered

LEMMA IInvInit == Init => IInv
<1> SUFFICES ASSUME Init PROVE IInv
  OBVIOUS
<1>1. Typed
  BY TypedInit
<1>2. Committed /\ Owned /\ Fresh /\ SentMeansDelivered
  BY DEF Init, Committed, Owned, Fresh, SentMeansDelivered
<1>3. Counted /\ InProcess
  BY OnboardingAssumption DEF Init, Counted, InProcess
<1>4. QED
  BY <1>1, <1>2, <1>3 DEF IInv

\* A step that touches no log, job, worker or message disturbs only what ties
\* them to the requests.
LEMMA DeliveryStutters ==
  ASSUME IInv, UNCHANGED delivery
  PROVE  Owned' /\ Fresh' /\ Counted' /\ InProcess' /\ SentMeansDelivered'
  BY DEF IInv, delivery, Owned, Fresh, Counted, InProcess, SentMeansDelivered

\* A step that touches no request and no student, and queues no job that was
\* not queued, leaves commitment alone.
LEMMA IntakeStutters ==
  ASSUME IInv, UNCHANGED intake,
         \A l \in Logs : job'[l].state = "absent" <=> job[l].state = "absent"
  PROVE  Committed'
<1>1. \A r \in Requests : \A rec \in toQueue[r] : <<r, rec>> \in Logs
  BY DEF IInv, Typed, TypeOK, Logs
<1>2. QED
  BY <1>1 DEF IInv, Typed, TypeOK, Committed, intake

\* The transaction writes only logs about which nothing has happened.
LEMMA ApproveTaskKeeps ==
  ASSUME IInv, NEW r \in Requests, ApproveTask(r)
  PROVE  /\ Committed' /\ Owned' /\ Fresh' /\ Counted' /\ InProcess'
         /\ SentMeansDelivered'
<1> USE DEF IInv, Typed, TypeOK
<1> DEFINE b == request[r].batch
<1>1. b \in Batches /\ batch[b].records \in SUBSET Records
  BY DEF ApproveTask, About, BatchRow
<1>2. LogsOf(r) \in SUBSET Logs /\ \A l \in LogsOf(r) : l[1] = r
  BY <1>1 DEF LogsOf, Logs
<1>3. \A l \in LogsOf(r) : l \notin students /\ job[l].state = "absent"
  BY <1>2 DEF ApproveTask, Committed
<1>4. \A l \in Logs :
        /\ log'[l].attempts = log[l].attempts
        /\ log'[l].status = "SENT" <=> log[l].status = "SENT"
  BY <1>2, <1>3 DEF ApproveTask, Fresh
<1>5. UNCHANGED <<job, worker, sms>>
  BY DEF ApproveTask
<1>6. Owned'
  BY <1>5 DEF Owned
<1>7. Fresh' /\ SentMeansDelivered' /\ Counted'
  <2>1. Fresh'
    BY <1>4, <1>5 DEF Fresh
  <2>2. SentMeansDelivered'
    BY <1>4, <1>5 DEF SentMeansDelivered
  <2>3. Counted'
    BY <1>4, <1>5 DEF Counted
  <2>4. QED
    BY <2>1, <2>2, <2>3
<1>8. InProcess'
  <2>1. \A w \in Workers : worker[w].pc # "idle" => worker[w].job \in Logs
    BY DEF Holding, WorkerState
  <2>2. SUFFICES ASSUME NEW w \in Workers, worker[w].pc # "idle"
                 PROVE  InProcess!(w)'
    BY <1>5 DEF InProcess
  <2>3. QED
    BY <1>4, <1>5, <2>1 DEF InProcess
<1>9. Committed'
  <2>1. /\ \A q \in Requests : q # r => request'[q] = request[q]
        /\ request'[r].pc \in {"ok", "enqueue"}
        /\ batch[b].records # {} => request'[r].pc = "enqueue"
    BY <1>1, RequestMoves DEF ApproveTask
  <2>2. \A l \in students' : request'[l[1]].pc \notin {"new", "checked"}
    <3>1. \A l \in students : l[1] \in Requests /\ l[1] # r
      BY DEF ApproveTask, Committed, Logs
    <3>2. QED
      BY <1>2, <2>1, <3>1 DEF ApproveTask, Committed
  <2>3. ASSUME NEW q \in Requests, NEW rec \in toQueue'[q]
        PROVE  /\ request'[q].pc = "enqueue"
               /\ <<q, rec>> \in students'
               /\ job'[<<q, rec>>].state = "absent"
    <3>1. CASE q = r
      <4>1. rec \in batch[b].records
        BY <2>3, <3>1 DEF ApproveTask
      <4>2. <<q, rec>> \in LogsOf(r)
        BY <3>1, <4>1 DEF LogsOf
      <4>3. QED
        BY <1>3, <1>5, <2>1, <3>1, <4>1, <4>2 DEF ApproveTask
    <3>2. CASE q # r
      BY <1>5, <2>1, <2>3, <3>2 DEF ApproveTask, Committed
    <3>3. QED
      BY <3>1, <3>2
  <2>4. \A l \in Logs : job'[l].state # "absent" => l \in students'
    BY <1>5 DEF ApproveTask, Committed
  <2>5. QED
    BY <2>2, <2>3, <2>4 DEF Committed
<1>10. QED
  BY <1>6, <1>7, <1>8, <1>9

\* A request that only moves on, or gives up, keeps what is committed.
LEMMA RequestsKeep ==
  ASSUME IInv, UNCHANGED <<students, delivery>>,
         NEW r \in Requests, InFlight(r) \/ request[r].pc = "new",
         \A q \in Requests : q # r => /\ request'[q] = request[q]
                                     /\ toQueue'[q] = toQueue[q],
         request[r].pc = "enqueue" => request'[r].pc \notin {"new", "checked"},
         toQueue'[r] = {}
  PROVE  Committed'
<1> USE DEF IInv, Typed, TypeOK, delivery, Committed
<1>1. ASSUME NEW l \in students'
      PROVE  request'[l[1]].pc \notin {"new", "checked"}
  <2>1. l[1] \in Requests
    BY <1>1 DEF Logs
  <2>2. QED
    BY <1>1, <2>1 DEF InFlight
<1>2. QED
  BY <1>1

\* The new job starts its life with nothing done about its log.
LEMMA EnqueueJobKeeps ==
  ASSUME IInv, NEW r \in Requests, NEW rec \in Records, EnqueueJob(r, rec)
  PROVE  /\ Committed' /\ Owned' /\ Fresh' /\ Counted' /\ InProcess'
         /\ SentMeansDelivered'
<1> USE DEF IInv, Typed, TypeOK
<1> DEFINE new == <<r, rec>>
<1>1. new \in Logs /\ new \in students /\ job[new].state = "absent"
  BY DEF EnqueueJob, Committed, Logs
<1>2. /\ job'[new].state = "waiting"
      /\ job'[new].made = job[new].made /\ job'[new].stalls = job[new].stalls
      /\ \A l \in Logs : l # new => job'[l] = job[l]
  BY <1>1, JobMoves DEF EnqueueJob
<1>3. UNCHANGED <<students, log, worker, sms>>
  BY DEF EnqueueJob
<1>4. \A w \in Workers :
        worker[w].pc # "idle" => worker[w].job \in Logs /\ worker[w].job # new
  BY <1>1 DEF Owned, Holding, WorkerState
<1>5. Owned'
  BY <1>2, <1>3, <1>4 DEF Owned
<1>6. Fresh' /\ SentMeansDelivered'
  BY <1>2, <1>3 DEF Fresh, SentMeansDelivered
<1>7. Counted'
  BY <1>1, <1>2, <1>3, OnboardingAssumption DEF Counted, Fresh
<1>8. InProcess'
  BY <1>2, <1>3, <1>4 DEF InProcess
<1>9. Committed'
  <2>1. /\ \A q \in Requests : q # r => request'[q] = request[q]
        /\ request'[r].pc \in {"ok", "enqueue"}
        /\ toQueue[r] # {rec} => request'[r].pc = "enqueue"
    BY RequestMoves DEF EnqueueJob
  <2>2. \A l \in students' : request'[l[1]].pc \notin {"new", "checked"}
    <3>1. \A l \in students : l[1] \in Requests
      BY DEF Logs
    <3>2. QED
      BY <1>3, <2>1, <3>1 DEF Committed
  <2>3. ASSUME NEW q \in Requests, NEW rc \in toQueue'[q]
        PROVE  /\ request'[q].pc = "enqueue"
               /\ <<q, rc>> \in students'
               /\ job'[<<q, rc>>].state = "absent"
    <3>1. rc \in toQueue[q] /\ <<q, rc>> \in Logs
      BY <2>3 DEF EnqueueJob, Logs
    <3>2. <<q, rc>> # new
      BY <2>3 DEF EnqueueJob
    <3>3. q = r => toQueue[r] # {rec}
      BY <2>3 DEF EnqueueJob
    <3>4. QED
      BY <1>2, <1>3, <2>1, <3>1, <3>2, <3>3 DEF Committed, EnqueueJob
  <2>4. \A l \in Logs : job'[l].state # "absent" => l \in students'
    BY <1>1, <1>2, <1>3 DEF Committed
  <2>5. QED
    BY <2>2, <2>3, <2>4 DEF Committed
<1>10. QED
  BY <1>5, <1>6, <1>7, <1>8, <1>9

\* A worker holds a queued job, which no other worker has.
LEMMA WorkerHolds ==
  ASSUME IInv, NEW w \in Workers, worker[w].pc # "idle"
  PROVE  /\ worker[w].job \in Logs
         /\ job[worker[w].job].state = "active"
         /\ \A v \in Workers : v # w => worker[v].job # worker[w].job
  BY DEF IInv, Typed, TypeOK, Holding, WorkerState, Owned

\* The steps of process() up to its return or throw: only the log and the
\* messages of the worker's own job change.
LEMMA ProcessKeeps ==
  ASSUME IInv, NEW w \in Workers,
         CountAttempt(w) \/ SendSms(w) \/ MarkSent(w) \/ RecordFailure(w)
  PROVE  /\ Committed' /\ Owned' /\ Fresh' /\ Counted' /\ InProcess'
         /\ SentMeansDelivered'
<1> USE DEF IInv, Typed, TypeOK
<1> DEFINE l == worker[w].job
<1>1. worker[w].pc # "idle"
  BY DEF CountAttempt, SendSms, MarkSent, RecordFailure
<1>2. /\ l \in Logs /\ job[l].state = "active"
      /\ \A v \in Workers : v # w => worker[v].job # l
  BY <1>1, WorkerHolds
<1>3. /\ log[l].attempts \in Nat /\ job[l].made \in Nat /\ job[l].stalls \in Nat
      /\ sms[l] \in Nat
  BY <1>2 DEF LogRow, JobState
<1>4. UNCHANGED intake /\ UNCHANGED job
  BY DEF CountAttempt, SendSms, MarkSent, RecordFailure
<1>5. Committed'
  BY <1>4, IntakeStutters
<1> HIDE DEF IInv
<1>6. ASSUME NEW pc \in {"send", "mark", "return", "catch", "throw"}, Goto(w, pc)
      PROVE  /\ worker'[w].pc = pc /\ worker'[w].job = l
             /\ \A v \in Workers : v # w => worker'[v] = worker[v]
  <2> USE DEF IInv
  <2>1. worker'[w].pc = pc /\ worker'[w].job = l
    BY <1>6, WorkerMoves DEF Goto
  <2>2. QED
    BY <1>6, <2>1 DEF Goto
<1>7. ASSUME NEW pc \in {"send", "mark", "return", "catch", "throw"}, Goto(w, pc)
      PROVE  Owned'
  BY <1>1, <1>2, <1>4, <1>6, <1>7 DEF Owned, IInv
<1>8. \A v \in Workers : v # w /\ worker[v].pc # "idle" => worker[v].job \in Logs
  BY DEF IInv, Holding, WorkerState
\* What the step did: only row l of log and sms may differ, and those in ways
\* that suit the place the worker went to.
<1>9. ASSUME NEW pc \in {"send", "mark", "return", "catch", "throw"}, Goto(w, pc),
             \A k \in Logs : k # l => log'[k] = log[k] /\ sms'[k] = sms[k],
             log'[l].attempts <= job[l].made + job[l].stalls + 1,
             sms'[l] <= log'[l].attempts,
             log'[l].status = "SENT" => sms'[l] > 0,
             pc = "send" => sms'[l] < log'[l].attempts,
             pc = "mark" => sms'[l] > 0,
             pc = "return" => log'[l].status = "SENT",
             log'[l].attempts \in Nat, sms'[l] \in Nat
      PROVE  Fresh' /\ Counted' /\ InProcess' /\ SentMeansDelivered'
  <2>1. Fresh'
    BY <1>2, <1>4, <1>9 DEF IInv, Fresh
  <2>2. SentMeansDelivered'
    BY <1>2, <1>4, <1>9 DEF IInv, SentMeansDelivered
  <2>3. Counted'
    <3>1. job[l].made < Attempts /\ job[l].stalls <= MaxStalls
      BY <1>2 DEF IInv, Counted
    <3>2. log'[l].attempts <= Attempts + MaxStalls
      BY <1>3, <1>9, <3>1, OnboardingAssumption
    <3>3. QED
      BY <1>2, <1>4, <1>9, <3>1, <3>2 DEF IInv, Counted
  <2>4. InProcess'
    BY <1>2, <1>4, <1>6, <1>8, <1>9 DEF IInv, InProcess
  <2>5. QED
    BY <2>1, <2>2, <2>3, <2>4
<1>10. /\ sms[l] <= log[l].attempts
       /\ log[l].attempts <= job[l].made + job[l].stalls + 1
       /\ log[l].status = "SENT" => sms[l] > 0
  BY <1>2 DEF IInv, Counted, SentMeansDelivered
<1>11. CASE CountAttempt(w)
  <2>1. CASE Goto(w, "throw") /\ UNCHANGED log
    BY <1>3, <1>5, <1>7, <1>9, <1>10, <1>11, <2>1 DEF CountAttempt
  <2>2. CASE log' = [log EXCEPT ![l].attempts = @ + 1] /\ Goto(w, "send")
    <3>1. /\ log'[l].attempts = log[l].attempts + 1
          /\ log'[l].status = log[l].status
          /\ \A k \in Logs : k # l => log'[k] = log[k]
          /\ UNCHANGED sms
      BY <1>2, <1>11, <2>2, LogCounts DEF CountAttempt, IInv
    <3>2. log[l].attempts <= job[l].made + job[l].stalls
      BY <1>11 DEF CountAttempt, IInv, InProcess
    <3>3. QED
      BY <1>3, <1>5, <1>7, <1>9, <1>10, <2>2, <3>1, <3>2
  <2>3. QED
    BY <1>11, <2>1, <2>2 DEF CountAttempt
<1>12. CASE SendSms(w)
  <2>1. sms[l] < log[l].attempts
    BY <1>12 DEF SendSms, IInv, InProcess
  <2>2. CASE sms' = [sms EXCEPT ![l] = @ + 1] /\ Goto(w, "mark")
    <3>1. /\ sms'[l] = sms[l] + 1
          /\ \A k \in Logs : k # l => sms'[k] = sms[k]
          /\ UNCHANGED log
      BY <1>2, <1>12, <2>2 DEF SendSms, IInv
    <3>2. QED
      BY <1>3, <1>5, <1>7, <1>9, <1>10, <2>1, <2>2, <3>1
  <2>3. CASE Goto(w, "catch") /\ UNCHANGED sms
    BY <1>3, <1>5, <1>7, <1>9, <1>10, <1>12, <2>3 DEF SendSms
  <2>4. QED
    BY <1>12, <2>2, <2>3 DEF SendSms
<1>13. ASSUME NEW st \in {"SENT", "FAILED"},
              NEW pc \in {"return", "throw"}, Goto(w, pc),
              log' = [log EXCEPT ![l].status = st], UNCHANGED sms,
              st = "SENT" => sms[l] > 0, pc = "return" => st = "SENT"
       PROVE  Fresh' /\ Counted' /\ InProcess' /\ SentMeansDelivered'
  <2>1. /\ log'[l].attempts = log[l].attempts
        /\ log'[l].status = st
        /\ \A k \in Logs : k # l => log'[k] = log[k]
    BY <1>2, <1>13, LogMoves DEF IInv
  <2>2. QED
    BY <1>3, <1>9, <1>10, <1>13, <2>1
<1>14. CASE MarkSent(w)
  <2>1. sms[l] > 0
    BY <1>14 DEF MarkSent, IInv, InProcess
  <2>2. CASE log' = [log EXCEPT ![l].status = "SENT"] /\ Goto(w, "return")
    BY <1>5, <1>7, <1>13, <1>14, <2>1, <2>2 DEF MarkSent
  <2>3. CASE Goto(w, "catch") /\ UNCHANGED log
    BY <1>3, <1>5, <1>7, <1>9, <1>10, <1>14, <2>3 DEF MarkSent
  <2>4. QED
    BY <1>14, <2>2, <2>3 DEF MarkSent
<1>15. CASE RecordFailure(w)
  <2>1. CASE log' = [log EXCEPT ![l].status = "FAILED"]
    BY <1>5, <1>7, <1>13, <1>15, <2>1 DEF RecordFailure
  <2>2. CASE UNCHANGED log
    BY <1>3, <1>5, <1>7, <1>9, <1>10, <1>15, <2>2 DEF RecordFailure
  <2>3. QED
    BY <1>15, <2>1, <2>2 DEF RecordFailure
<1>16. QED
  BY <1>11, <1>12, <1>14, <1>15

\* A job that leaves its worker, or the queue, takes its counters along.
LEMMA JobKeeps ==
  ASSUME IInv, NEW l \in Logs, UNCHANGED <<intake, log, sms>>,
         job[l].state # "absent", job'[l].state # "absent",
         \A k \in Logs : k # l => job'[k] = job[k],
         \A w \in Workers :
           \/ worker'[w] = worker[w] /\ worker[w].job # l
           \/ worker'[w].pc = "idle" /\ worker'[w].job = None
           \/ /\ worker'[w].pc = "count" /\ worker'[w].job = l
              /\ job'[l].state = "active"
              /\ log[l].attempts <= job'[l].made + job'[l].stalls
              /\ \A v \in Workers : worker[v].job # l
              /\ \A v \in Workers : v # w => worker'[v] = worker[v],
         job'[l].state = "completed" => log[l].status = "SENT",
         job'[l].stalls <= MaxStalls,
         job'[l].state \in {"waiting", "delayed", "active"} =>
           job'[l].made < Attempts,
         job'[l].state \in {"waiting", "delayed"} =>
           log[l].attempts <= job'[l].made + job'[l].stalls,
         job'[l].state = "active" =>
           log[l].attempts <= job'[l].made + job'[l].stalls + 1
  PROVE  /\ Committed' /\ Owned' /\ Fresh' /\ Counted' /\ InProcess'
         /\ SentMeansDelivered'
<1>1. Committed'
  BY IntakeStutters
<1>2. Fresh' /\ SentMeansDelivered'
  BY DEF IInv, Fresh, SentMeansDelivered
<1>3. Counted'
  BY DEF IInv, Counted
<1>4. \A w \in Workers : worker[w].pc # "idle" => worker[w].job \in Logs
  BY DEF IInv, Typed, TypeOK, Holding, WorkerState
<1>5. None \notin Logs
  BY OnboardingAssumption DEF Logs
<1>6. Owned'
  <2> SUFFICES ASSUME NEW w \in Workers, worker'[w].pc # "idle"
               PROVE  /\ job'[worker'[w].job].state = "active"
                      /\ \A v \in Workers : worker'[v].job = worker'[w].job => v = w
    BY DEF Owned
  <2>1. CASE worker'[w] = worker[w] /\ worker[w].job # l
    <3>1. /\ job[worker[w].job].state = "active"
          /\ \A v \in Workers : worker[v].job = worker[w].job => v = w
      BY <2>1 DEF IInv, Owned
    <3>2. QED
      BY <1>4, <1>5, <2>1, <3>1
  <2>2. CASE worker'[w].pc = "count"
    BY <1>5, <2>1, <2>2
  <2>3. QED
    BY <2>1, <2>2
<1>7. InProcess'
  BY <1>4, <1>5 DEF IInv, InProcess
<1>8. QED
  BY <1>1, <1>2, <1>3, <1>6, <1>7

LEMMA IInvNext == IInv /\ [Next]_vars => IInv'
<1> SUFFICES ASSUME IInv, [Next]_vars PROVE IInv'
  OBVIOUS
<1>t. Typed'
  BY TypedNext DEF IInv
<1> DEFINE Rest == /\ Committed' /\ Owned' /\ Fresh' /\ Counted' /\ InProcess'
                   /\ SentMeansDelivered'
<1>a. UNCHANGED delivery /\ Committed' => Rest
  BY DeliveryStutters
<1> SUFFICES Rest
  BY <1>t DEF IInv
<1> HIDE DEF Rest
<1>1. ASSUME NEW u \in Users, NEW b \in Batches, NEW recs \in SUBSET Records,
             CreateStagedBatch(u, b, recs)
      PROVE  Rest
  <2>1. Committed'
    BY <1>1 DEF CreateStagedBatch, delivery, IInv, Committed
  <2>2. QED
    BY <1>1, <1>a, <2>1 DEF CreateStagedBatch
<1>2. CASE ConfigureSections
  <2>1. Committed'
    BY <1>2 DEF ConfigureSections, delivery, IInv, Committed
  <2>2. QED
    <3>1. UNCHANGED delivery
      BY <1>2, Zenon DEF ConfigureSections
    <3>2. QED
      BY <1>a, <2>1, <3>1
<1>b. ASSUME NEW r \in Requests, NEW pc \in {"checked", "denied", "ok", "failed", "lost"},
             UNCHANGED <<students, delivery>>,
             \/ request[r].pc = "new"
             \/ InFlight(r) /\ pc \in {"ok", "failed", "lost"},
             request'[r].pc = pc,
             \A q \in Requests : q # r => request'[q] = request[q],
             \A q \in Requests : q # r => toQueue'[q] = toQueue[q],
             (toQueue' = toQueue /\ request[r].pc # "enqueue") \/ toQueue'[r] = {}
      PROVE  Rest
  <2>1. toQueue'[r] = {}
    BY <1>b DEF IInv, Committed, Typed, TypeOK
  <2>2. Committed'
    BY <1>b, <2>1, RequestsKeep
  <2>3. QED
    BY <1>a, <1>b, <2>2
<1>3. ASSUME NEW r \in Requests, NEW u \in Users, NEW b \in Batches,
             NEW d \in Decisions, CheckTask(r, u, b, d)
      PROVE  Rest
  <2>1. request'[r].pc \in {"checked", "denied"}
    <3>1. CASE MayDecide(u, b)
      BY <1>3, <3>1 DEF CheckTask, IInv, Typed, TypeOK
    <3>2. CASE ~MayDecide(u, b)
      BY <1>3, <3>2, RequestMoves DEF CheckTask, IInv, Typed, TypeOK
    <3>3. QED
      BY <3>1, <3>2
  <2>2. \A q \in Requests : q # r => request'[q] = request[q]
    BY <1>3 DEF CheckTask, IInv, Typed, TypeOK
  <2>3. QED
    BY <1>3, <1>b, <2>1, <2>2 DEF CheckTask
<1>4. ASSUME NEW r \in Requests,
             RejectTask(r) \/ RollbackApproval(r) \/ AbandonRequest(r)
      PROVE  Rest
  <2>1. request'[r].pc \in {"ok", "failed", "lost"}
    BY ZenonT(30), <1>4, RequestMoves
    DEF RejectTask, RollbackApproval, AbandonRequest, IInv, Typed, TypeOK
  <2>2. \A q \in Requests : q # r => request'[q] = request[q]
    BY <1>4
    DEF RejectTask, RollbackApproval, AbandonRequest, IInv, Typed, TypeOK
  <2>3. /\ \A q \in Requests : q # r => toQueue'[q] = toQueue[q]
        /\ (toQueue' = toQueue /\ request[r].pc # "enqueue") \/ toQueue'[r] = {}
    BY <1>4
    DEF RejectTask, RollbackApproval, AbandonRequest, IInv, Typed, TypeOK
  <2>4. UNCHANGED <<students, delivery>> /\ InFlight(r)
    BY <1>4 DEF RejectTask, RollbackApproval, AbandonRequest, InFlight
  <2>5. QED
    BY <1>b, <2>1, <2>2, <2>3, <2>4
<1>5. ASSUME NEW r \in Requests, ApproveTask(r)
      PROVE  Rest
  BY <1>5, ApproveTaskKeeps DEF Rest
<1>6. ASSUME NEW r \in Requests, NEW rec \in Records, EnqueueJob(r, rec)
      PROVE  Rest
  BY <1>6, EnqueueJobKeeps DEF Rest
<1>7. ASSUME NEW w \in Workers, Process(w)
      PROVE  Rest
  <2>1. CASE CountAttempt(w) \/ SendSms(w) \/ MarkSent(w) \/ RecordFailure(w)
    BY <2>1, ProcessKeeps DEF Rest
  <2>2. CASE Complete(w) \/ Retry(w)
    <3> DEFINE l == worker[w].job
    <3>1. /\ l \in Logs /\ job[l].state = "active"
          /\ \A v \in Workers : v # w => worker[v].job # l
      BY <2>2, WorkerHolds DEF Complete, Retry
    <3>2. /\ \A v \in Workers : v # w => worker'[v] = worker[v]
          /\ worker'[w].pc = "idle" /\ worker'[w].job = None
      BY <2>2 DEF Complete, Retry, Release, IInv, Typed, TypeOK
    <3>3. /\ \A k \in Logs : k # l => job'[k] = job[k]
          /\ UNCHANGED <<intake, log, sms>>
      BY <2>2 DEF Complete, Retry, IInv, Typed, TypeOK
    <3>4. /\ job[l].made < Attempts /\ job[l].stalls <= MaxStalls
          /\ log[l].attempts <= job[l].made + job[l].stalls + 1
          /\ log[l].attempts \in Nat
          /\ job[l].made \in Nat /\ job[l].stalls \in Nat
      BY <3>1 DEF IInv, Counted, Typed, TypeOK, JobState, LogRow
    <3>5. CASE Complete(w)
      <4>1. job'[l].state = "completed" /\ job'[l].stalls = job[l].stalls
        BY <3>1, <3>5, JobMoves DEF Complete, IInv, Typed, TypeOK
      <4>2. log[l].status = "SENT"
        BY <3>5 DEF Complete, IInv, InProcess
      <4>3. QED
        BY <3>1, <3>2, <3>3, <3>4, <4>1, <4>2, JobKeeps DEF Rest
    <3>6. CASE Retry(w)
      <4>1. /\ job'[l].state \in {"delayed", "failed"}
            /\ job'[l].state = "delayed" => job[l].made + 1 < Attempts
            /\ job'[l].made = job[l].made + 1 /\ job'[l].stalls = job[l].stalls
        BY <3>1, <3>6 DEF Retry, IInv, Typed, TypeOK
      <4>2. QED
        BY <3>1, <3>2, <3>3, <3>4, <4>1, JobKeeps DEF Rest
    <3>7. QED
      BY <2>2, <3>5, <3>6
  <2>3. QED
    BY <1>7, <2>1, <2>2 DEF Process
<1>8. ASSUME NEW w \in Workers, WorkerDies(w)
      PROVE  Rest
  <2>1. /\ \A v \in Workers : v # w => worker'[v] = worker[v]
        /\ worker'[w].pc = "idle" /\ worker'[w].job = None
        /\ UNCHANGED <<intake, log, job, sms>>
    BY <1>8 DEF WorkerDies, Release, IInv, Typed, TypeOK
  <2>2. Committed'
    BY <2>1, IntakeStutters
  <2>3. Fresh' /\ Counted' /\ SentMeansDelivered'
    BY <2>1 DEF IInv, Fresh, Counted, SentMeansDelivered
  <2>4. Owned'
    <3>1. None \notin Logs
      BY OnboardingAssumption DEF Logs
    <3>2. \A v \in Workers : worker[v].pc # "idle" => worker[v].job \in Logs
      BY DEF IInv, Typed, TypeOK, Holding, WorkerState
    <3>3. QED
      BY <2>1, <3>1, <3>2 DEF IInv, Owned
  <2>5. InProcess'
    BY <2>1 DEF IInv, InProcess
  <2>6. QED
    BY <2>2, <2>3, <2>4, <2>5 DEF Rest
<1>9. ASSUME NEW w \in Workers, NEW l \in Logs, TakeJob(w, l)
      PROVE  Rest
  <2>1. \A v \in Workers : worker[v].job # l
    BY <1>9, OnboardingAssumption
    DEF TakeJob, IInv, Typed, Holding, Owned, Logs
  <2>2. /\ \A v \in Workers : v # w => worker'[v] = worker[v]
        /\ worker'[w].pc = "count" /\ worker'[w].job = l
        /\ \A k \in Logs : k # l => job'[k] = job[k]
        /\ UNCHANGED <<intake, log, sms>>
    BY <1>9 DEF TakeJob, IInv, Typed, TypeOK
  <2>3. /\ job'[l].state = "active" /\ job'[l].made = job[l].made
        /\ job'[l].stalls = job[l].stalls
    BY <1>9, JobMoves DEF TakeJob, IInv, Typed, TypeOK
  <2>4. /\ job[l].made < Attempts /\ job[l].stalls <= MaxStalls
        /\ log[l].attempts <= job[l].made + job[l].stalls
        /\ log[l].attempts \in Nat
        /\ job[l].made \in Nat /\ job[l].stalls \in Nat
    BY <1>9 DEF TakeJob, IInv, Counted, Typed, TypeOK, JobState, LogRow
  <2>5. QED
    BY <1>9, <2>1, <2>2, <2>3, <2>4, JobKeeps DEF TakeJob, Rest
<1>10. ASSUME NEW l \in Logs, BackoffElapsed(l) \/ RecoverStalled(l)
       PROVE  Rest
  <2>1. \A v \in Workers : worker[v].job # l
    BY <1>10, OnboardingAssumption
    DEF BackoffElapsed, RecoverStalled, IInv, Typed, Holding, Owned, Logs
  <2>2. /\ \A k \in Logs : k # l => job'[k] = job[k]
        /\ UNCHANGED <<intake, log, worker, sms>>
    BY <1>10 DEF BackoffElapsed, RecoverStalled, IInv, Typed, TypeOK
  <2>3. /\ job[l].made < Attempts /\ job[l].stalls <= MaxStalls
        /\ log[l].attempts \in Nat
        /\ job[l].made \in Nat /\ job[l].stalls \in Nat
    BY <1>10
    DEF BackoffElapsed, RecoverStalled, IInv, Counted, Typed, TypeOK, JobState,
        LogRow
  <2>4. CASE BackoffElapsed(l)
    <3>1. /\ job'[l].state = "waiting" /\ job'[l].made = job[l].made
          /\ job'[l].stalls = job[l].stalls
      BY <2>4, JobMoves DEF BackoffElapsed, IInv, Typed, TypeOK
    <3>2. log[l].attempts <= job[l].made + job[l].stalls
      BY <2>4 DEF BackoffElapsed, IInv, Counted
    <3>3. QED
      BY <2>1, <2>2, <2>3, <2>4, <3>1, <3>2, JobKeeps DEF BackoffElapsed, Rest
  <2>5. CASE RecoverStalled(l)
    <3>1. log[l].attempts <= job[l].made + job[l].stalls + 1
      BY <2>5 DEF RecoverStalled, IInv, Counted
    <3>2. CASE job[l].stalls < MaxStalls
      <4>1. /\ job'[l].state = "waiting" /\ job'[l].made = job[l].made
            /\ job'[l].stalls = job[l].stalls + 1
        BY <2>5, <3>2 DEF RecoverStalled, Requeued, IInv, Typed, TypeOK
      <4>2. job'[l].stalls <= MaxStalls
        BY <2>3, <3>2, <4>1, OnboardingAssumption
      <4>3. QED
        BY <2>1, <2>2, <2>3, <2>5, <3>1, <4>1, <4>2, JobKeeps
        DEF RecoverStalled, Rest
    <3>3. CASE ~(job[l].stalls < MaxStalls)
      <4>1. job'[l].state = "failed" /\ job'[l].stalls = job[l].stalls
        BY <2>5, <3>3, JobMoves DEF RecoverStalled, IInv, Typed, TypeOK
      <4>2. QED
        BY <2>1, <2>2, <2>3, <2>5, <4>1, JobKeeps DEF RecoverStalled, Rest
    <3>4. QED
      BY <3>2, <3>3
  <2>6. QED
    BY <1>10, <2>4, <2>5
<1>11. CASE UNCHANGED vars
  <2>1. UNCHANGED delivery
    BY <1>11 DEF vars, delivery
  <2>2. Committed'
    BY <1>11 DEF vars, IInv, Committed
  <2>3. QED
    BY <1>a, <2>1, <2>2
<1>12. QED
  BY <1>1, <1>2, <1>3, <1>4, <1>5, <1>6, <1>7, <1>8, <1>9, <1>10, <1>11
  DEF Next, Handle

-----------------------------------------------------------------------------
(* What the inductive invariant gives                                      *)

\* Retries, worker deaths and recovered stalls included, the attempt counter
\* covers every message and stays within Attempts + MaxStalls; SENT means a
\* message went out; and no job or message precedes its account's commit.
THEOREM DeliveryCorrect ==
  Spec => [](AttemptsCoverSms /\ SentMeansDelivered /\ JobsAreCommitted)
<1>1. IInv => AttemptsCoverSms /\ SentMeansDelivered /\ JobsAreCommitted
  BY DEF IInv, Counted, Committed, Fresh, AttemptsCoverSms, JobsAreCommitted
<1>2. QED
  BY IInvInit, IInvNext, <1>1, PTL DEF Spec

\* A log that says SENT had its message handed to the gateway, and a job that
\* completed left its log SENT.
THEOREM SentIsSent == Spec => []SentMeansDelivered
  BY DeliveryCorrect, PTL

\* Nothing is queued or sent about an account that was not committed.
THEOREM JobsFollowCommit == Spec => []JobsAreCommitted
  BY DeliveryCorrect, PTL

-----------------------------------------------------------------------------
(* A batch is provisioned whole                                            *)

\* A log row exists for each student and for no one else; a request that
\* passed its check is about a batch that was submitted; and what a request
\* provisioned is all of its batch.
Provisioning ==
  /\ \A l \in Logs : log[l].status # "absent" <=> l \in students
  /\ \A r \in Requests :
       request[r].pc \notin {"new", "denied"} => task[request[r].batch] # "absent"
  /\ \A l \in students :
       /\ request[l[1]].pc \notin {"new", "checked", "denied"}
       /\ batch[request[l[1]].batch].status = "APPROVED"
       /\ \A rec \in Records :
            <<l[1], rec>> \in students <=> rec \in batch[request[l[1]].batch].records

\* A step that changes no account, no row status and no batch's records, and
\* sends no provisioned request back, keeps what is provisioned whole.
LEMMA ProvisioningKept ==
  ASSUME Typed, Provisioning, UNCHANGED students,
         \A l \in Logs : log'[l].status = "absent" <=> log[l].status = "absent",
         \A b \in Batches : task[b] # "absent" =>
           task'[b] # "absent" /\ batch'[b] = batch[b],
         \A r \in Requests :
           \/ request'[r].pc \notin {"new", "checked", "denied"}
                /\ request[r].pc \notin {"new", "denied"}
                /\ request'[r].batch = request[r].batch
           \/ request'[r] = request[r]
           \/ request[r].pc = "new" /\ request'[r].pc = "denied"
           \/ request[r].pc = "new" /\ task'[request'[r].batch] # "absent"
  PROVE  Provisioning'
<1>1. \A l \in students : l[1] \in Requests
  BY DEF Typed, TypeOK, Logs
<1>2. \A r \in Requests :
        request'[r].pc \notin {"new", "denied"} => task'[request'[r].batch] # "absent"
  BY DEF Provisioning, Typed, About
<1>3. ASSUME NEW l \in students
      PROVE  /\ request'[l[1]].pc \notin {"new", "checked", "denied"}
             /\ request'[l[1]].batch = request[l[1]].batch
             /\ request[l[1]].batch \in Batches
             /\ batch'[request[l[1]].batch] = batch[request[l[1]].batch]
  <2>1. request[l[1]].pc \notin {"new", "checked", "denied"}
    BY DEF Provisioning
  <2>2. request[l[1]].batch \in Batches /\ task[request[l[1]].batch] # "absent"
    BY <1>1, <2>1 DEF Typed, About, Provisioning
  <2>3. QED
    BY <1>1, <2>1, <2>2
<1>4. QED
  BY <1>2, <1>3 DEF Provisioning

\* The transaction writes a student and a log row for each record of the batch,
\* and no request that provisioned before loses or gains any.
LEMMA ApproveTaskProvisions ==
  ASSUME IInv, Provisioning, NEW r \in Requests, ApproveTask(r)
  PROVE  Provisioning'
<1> USE DEF IInv, Typed, TypeOK
<1> DEFINE b == request[r].batch
<1>1. b \in Batches /\ batch[b].records \in SUBSET Records
  BY DEF ApproveTask, About, BatchRow
<1>2. /\ batch'[b].status = "APPROVED" /\ batch'[b].records = batch[b].records
      /\ \A c \in Batches : c # b => batch'[c] = batch[c]
  BY <1>1 DEF ApproveTask, BatchRow
<1>3. /\ request'[r].batch = b
      /\ request'[r].pc \in {"ok", "enqueue"}
      /\ \A q \in Requests : q # r => request'[q] = request[q]
  BY <1>1, RequestMoves DEF ApproveTask
<1>4. \A rec \in Records : <<r, rec>> \notin students
  BY DEF ApproveTask, Committed
<1>5. \A q \in Requests, rec \in Records :
        <<q, rec>> \in students' <=>
          \/ <<q, rec>> \in students
          \/ q = r /\ rec \in batch[b].records
  BY <1>1 DEF ApproveTask, LogsOf
<1>6. \A l \in students' : \E q \in Requests, rec \in Records : l = <<q, rec>>
  BY <1>1 DEF ApproveTask, LogsOf, Logs
<1>7. \A l \in Logs : log'[l].status # "absent" <=> l \in students'
  <2>1. LogsOf(r) \subseteq Logs
    BY <1>1 DEF LogsOf, Logs
  <2>2. QED
    BY <2>1 DEF ApproveTask, Provisioning
<1>8. \A q \in Requests :
        request'[q].pc \notin {"new", "denied"} => task'[request'[q].batch] # "absent"
  <2>1. task' = [task EXCEPT ![b] = "APPROVED"] /\ request[r].pc = "checked"
    BY DEF ApproveTask
  <2>2. QED
    BY <1>1, <1>3, <2>1 DEF Provisioning, About
<1>9. ASSUME NEW q \in Requests, NEW rec \in Records, <<q, rec>> \in students'
      PROVE  /\ request'[q].pc \notin {"new", "checked", "denied"}
             /\ batch'[request'[q].batch].status = "APPROVED"
             /\ \A k \in Records :
                  <<q, k>> \in students' <=> k \in batch'[request'[q].batch].records
  <2>1. CASE q = r
    BY <1>2, <1>3, <1>4, <1>5, <2>1
  <2>2. CASE q # r
    <3>1. <<q, rec>> \in students /\ request'[q] = request[q]
      BY <1>3, <1>5, <1>9, <2>2
    <3>2. /\ request[q].pc \notin {"new", "checked", "denied"}
          /\ batch[request[q].batch].status = "APPROVED"
          /\ \A k \in Records :
               <<q, k>> \in students <=> k \in batch[request[q].batch].records
      BY <3>1 DEF Provisioning
    <3>3. request[q].batch \in Batches
      BY <3>2 DEF About
    <3>4. /\ batch'[request[q].batch].status = "APPROVED"
          /\ batch'[request[q].batch].records = batch[request[q].batch].records
      BY <1>2, <3>2, <3>3
    <3>5. QED
      BY <1>5, <2>2, <3>1, <3>2, <3>4
  <2>3. QED
    BY <2>1, <2>2
<1>10. QED
  <2>1. \A l \in students' :
          /\ request'[l[1]].pc \notin {"new", "checked", "denied"}
          /\ batch'[request'[l[1]].batch].status = "APPROVED"
          /\ \A rec \in Records :
               <<l[1], rec>> \in students' <=> rec \in batch'[request'[l[1]].batch].records
    BY <1>6, <1>9
  <2>2. QED
    BY <1>7, <1>8, <2>1 DEF Provisioning

LEMMA ProvisioningNext ==
  IInv /\ Provisioning /\ [Next]_vars => Provisioning'
<1> SUFFICES ASSUME IInv, Provisioning, [Next]_vars PROVE Provisioning'
  OBVIOUS
<1>t. Typed /\ TypeOK
  BY DEF IInv, Typed
<1>1. ASSUME UNCHANGED intake,
             \A l \in Logs : log'[l].status = "absent" <=> log[l].status = "absent"
      PROVE  Provisioning'
  BY <1>1, <1>t, ProvisioningKept DEF intake
<1>2. ASSUME NEW u \in Users, NEW b \in Batches, NEW recs \in SUBSET Records,
             CreateStagedBatch(u, b, recs)
      PROVE  Provisioning'
  BY <1>2, <1>t, ProvisioningKept DEF CreateStagedBatch, delivery, TypeOK
<1>3. ASSUME NEW r \in Requests, NEW u \in Users, NEW b \in Batches,
             NEW d \in Decisions, CheckTask(r, u, b, d)
      PROVE  Provisioning'
  <2>1. /\ UNCHANGED <<students, log, task, batch>>
        /\ \A q \in Requests : q # r => request'[q] = request[q]
        /\ request[r].pc = "new"
    BY <1>3, <1>t DEF CheckTask, delivery, TypeOK
  <2>2. \/ request'[r].pc = "denied"
        \/ task'[request'[r].batch] # "absent"
    <3>1. CASE MayDecide(u, b)
      BY <1>3, <1>t, <3>1 DEF CheckTask, MayDecide, TypeOK
    <3>2. CASE ~MayDecide(u, b)
      BY ZenonT(30), <1>3, <1>t, <3>2, RequestMoves DEF CheckTask, TypeOK
    <3>3. QED
      BY <3>1, <3>2
  <2>3. QED
    BY <1>t, <2>1, <2>2, ProvisioningKept
<1>4. ASSUME NEW r \in Requests,
             \/ RejectTask(r) \/ RollbackApproval(r) \/ AbandonRequest(r)
             \/ \E rec \in Records : EnqueueJob(r, rec)
      PROVE  Provisioning'
  <2>1. /\ request[r].pc \in {"checked", "enqueue"}
        /\ request'[r].pc \in {"ok", "failed", "lost", "enqueue"}
        /\ request'[r].batch = request[r].batch
        /\ \A q \in Requests : q # r => request'[q] = request[q]
    <3>1. CASE \E rec \in Records : EnqueueJob(r, rec)
      BY <1>t, <3>1, RequestMoves DEF EnqueueJob, TypeOK
    <3>2. CASE RejectTask(r)
      BY <1>t, <3>2, RequestMoves DEF RejectTask, TypeOK
    <3>3. CASE RollbackApproval(r)
      BY <1>t, <3>3, RequestMoves DEF RollbackApproval, TypeOK
    <3>4. CASE AbandonRequest(r)
      BY <1>t, <3>4, RequestMoves DEF AbandonRequest, InFlight, TypeOK
    <3>5. QED
      BY <1>4, <3>1, <3>2, <3>3, <3>4
  <2>2. /\ UNCHANGED <<students, log, batch>>
        /\ \A b \in Batches : task[b] # "absent" => task'[b] # "absent"
    BY <1>4, <1>t
    DEF RejectTask, RollbackApproval, AbandonRequest, EnqueueJob, delivery, TypeOK
  <2>3. QED
    BY <1>t, <2>1, <2>2, ProvisioningKept
<1>5. ASSUME NEW r \in Requests, ApproveTask(r)
      PROVE  Provisioning'
  BY <1>5, ApproveTaskProvisions
<1>6. ASSUME NEW w \in Workers, Process(w) \/ WorkerDies(w)
      PROVE  Provisioning'
  <2>1. UNCHANGED intake
    BY <1>6
    DEF Process, CountAttempt, SendSms, MarkSent, RecordFailure, Complete, Retry,
        WorkerDies
  <2>2. CASE UNCHANGED log
    BY <1>1, <2>1, <2>2
  <2>3. ASSUME worker[w].pc # "idle",
               \/ log' = [log EXCEPT ![worker[w].job].attempts = @ + 1]
               \/ log' = [log EXCEPT ![worker[w].job].status = "SENT"]
               \/ log' = [log EXCEPT ![worker[w].job].status = "FAILED"]
        PROVE  Provisioning'
    <3> DEFINE l == worker[w].job
    <3>1. l \in Logs /\ job[l].state = "active"
      BY <2>3, WorkerHolds
    <3>2. l \in students
      BY <3>1 DEF IInv, Committed
    <3>3. log[l].status # "absent"
      BY <3>1, <3>2 DEF Provisioning
    <3>4. \/ log'[l].status = log[l].status
          \/ log'[l].status \in {"SENT", "FAILED"}
      BY <1>t, <2>3, <3>1, LogMoves, LogCounts DEF TypeOK
    <3>5. \A k \in Logs : k # l => log'[k] = log[k]
      BY <1>t, <2>3, <3>1 DEF TypeOK
    <3>6. QED
      BY <1>1, <2>1, <3>3, <3>4, <3>5
  <2>4. QED
    BY <1>6, <2>2, <2>3
    DEF Process, CountAttempt, SendSms, MarkSent, RecordFailure, Complete, Retry,
        WorkerDies
<1>7. ASSUME NEW w \in Workers, NEW l \in Logs, TakeJob(w, l)
      PROVE  Provisioning'
  BY <1>1, <1>7 DEF TakeJob
<1>8. ASSUME NEW l \in Logs, BackoffElapsed(l) \/ RecoverStalled(l)
      PROVE  Provisioning'
  BY <1>1, <1>8 DEF BackoffElapsed, RecoverStalled
<1>9. CASE ConfigureSections
  <2>1. UNCHANGED <<task, batch, request, students, log>>
    BY <1>9, Zenon DEF ConfigureSections, delivery
  <2>2. QED
    BY <1>t, <2>1, ProvisioningKept
<1>10. CASE UNCHANGED vars
  BY <1>1, <1>10 DEF vars, intake
<1>11. QED
  BY <1>2, <1>3, <1>4, <1>5, <1>6, <1>7, <1>8, <1>9, <1>10 DEF Next, Handle

\* Whatever request approves a batch, and wherever it dies: every record of the
\* batch has its student and its log row, or none has.
THEOREM BatchIsWhole == Spec => []WholeBatch
<1>1. Init => Provisioning
  BY DEF Init, Provisioning
<1>2. IInv /\ Provisioning => WholeBatch
  <2> SUFFICES ASSUME IInv, Provisioning, NEW r \in Requests
               PROVE  WholeBatch!(r)
    BY DEF WholeBatch
  <2> DEFINE made == {rec \in Records : <<r, rec>> \in students}
  <2>1. \A rec \in Records : <<r, rec>> \in Logs
    BY DEF Logs
  <2>2. made = {rec \in Records : log[<<r, rec>>].status # "absent"}
    BY <2>1 DEF Provisioning
  <2>3. ASSUME made # {}
        PROVE  /\ made = batch[request[r].batch].records
               /\ batch[request[r].batch].status = "APPROVED"
    <3>1. PICK rec \in Records : <<r, rec>> \in students
      BY <2>3
    <3>2. /\ request[r].pc \notin {"new", "checked", "denied"}
          /\ batch[request[r].batch].status = "APPROVED"
          /\ \A k \in Records :
               <<r, k>> \in students <=> k \in batch[request[r].batch].records
      BY <3>1 DEF Provisioning
    <3>3. batch[request[r].batch].records \subseteq Records
      BY <3>2 DEF IInv, Typed, TypeOK, About, BatchRow
    <3>4. QED
      BY <3>2, <3>3
  <2>4. QED
    BY <2>2, <2>3
<1>3. QED
  BY IInvInit, IInvNext, ProvisioningNext, <1>1, <1>2, PTL DEF Spec

-----------------------------------------------------------------------------
(* The decision on a task                                                  *)

Handles(r, b) == InFlight(r) /\ request[r].batch = b

\* A batch that was never raced has one request at most in flight, which sees
\* the task as it is, and has its accounts only after the approval.
Decisive ==
  /\ \A l \in students : request[l[1]].pc \notin {"new", "checked"}
  /\ \A b \in Batches \ raced :
       /\ \A r, q \in Requests : Handles(r, b) /\ Handles(q, b) => r = q
       /\ \A r \in Requests :
            request[r].pc = "checked" /\ request[r].batch = b => task[b] = "PENDING"
       /\ \A r \in Requests : Provisioned(r, b) => task[b] = "APPROVED"
       /\ OneDecision(b)

\* A request that steps back, or goes on queuing, decides nothing.
LEMMA StepBackKeeps ==
  ASSUME Decisive, Typed, NEW r \in Requests, InFlight(r),
         UNCHANGED <<task, students, raced>>,
         \A q \in Requests : q # r => request'[q] = request[q],
         request'[r].batch = request[r].batch,
         request'[r].pc \notin {"new", "checked"},
         request'[r].pc = "enqueue" => request[r].pc = "enqueue"
  PROVE  Decisive'
<1>1. \A q \in Requests : request'[q].batch = request[q].batch
  OBVIOUS
<1>2. \A q \in Requests, b \in Batches : Provisioned(q, b)' <=> Provisioned(q, b)
  BY <1>1 DEF Provisioned
<1>3. \A q \in Requests, b \in Batches : Handles(q, b)' => Handles(q, b)
  BY <1>1 DEF Handles, InFlight
<1>4. \A q \in Requests : request'[q].pc = "checked" => request[q].pc = "checked"
  OBVIOUS
<1>5. ASSUME NEW l \in students'
      PROVE  request'[l[1]].pc \notin {"new", "checked"}
  <2>1. l \in students /\ l[1] \in Requests
    BY <1>5 DEF Typed, TypeOK, Logs
  <2>2. QED
    BY <2>1 DEF Decisive
<1>6. ASSUME NEW b \in Batches \ raced'
      PROVE  /\ \A p, q \in Requests : Handles(p, b)' /\ Handles(q, b)' => p = q
             /\ \A q \in Requests :
                  request'[q].pc = "checked" /\ request'[q].batch = b
                    => task'[b] = "PENDING"
             /\ \A q \in Requests : Provisioned(q, b)' => task'[b] = "APPROVED"
             /\ OneDecision(b)'
  BY <1>1, <1>2, <1>3, <1>4 DEF Decisive, OneDecision
<1>7. QED
  BY <1>5, <1>6 DEF Decisive

\* The decision itself: no other request can have checked the same task.
LEMMA DecideKeeps ==
  ASSUME Decisive, Typed, NEW r \in Requests, request[r].pc = "checked",
         NEW d \in Decisions, NEW S \in SUBSET ({r} \X Records),
         d = "REJECTED" => S = {},
         task' = [task EXCEPT ![request[r].batch] = d],
         students' = students \cup S,
         UNCHANGED raced,
         \A q \in Requests : q # r => request'[q] = request[q],
         request'[r].batch = request[r].batch,
         request'[r].pc \in {"ok", "enqueue"}
  PROVE  Decisive'
<1> DEFINE c == request[r].batch
<1>1. c \in Batches /\ task'[c] = d /\ \A b \in Batches : b # c => task'[b] = task[b]
  BY DEF Typed, TypeOK, About
<1>2. \A q \in Requests : request'[q].batch = request[q].batch
  OBVIOUS
<1>3. \A q \in Requests : request'[q].pc = "checked" => q # r
  OBVIOUS
<1>4. \A q \in Requests, rec \in Records :
        q # r => (<<q, rec>> \in students' <=> <<q, rec>> \in students)
  OBVIOUS
<1>5. \A q \in Requests, b \in Batches :
        q # r \/ b # c \/ S = {} => (Provisioned(q, b)' <=> Provisioned(q, b))
  BY <1>2, <1>4 DEF Provisioned
<1>6. \A q \in Requests, b \in Batches : Handles(q, b)' => Handles(q, b)
  BY <1>2 DEF Handles, InFlight
<1>7. ASSUME NEW l \in students'
      PROVE  request'[l[1]].pc \notin {"new", "checked"}
  <2>1. CASE l \in students
    <3>1. l[1] \in Requests
      BY <2>1 DEF Typed, TypeOK, Logs
    <3>2. QED
      BY <2>1, <3>1 DEF Decisive
  <2>2. CASE l \in S
    BY <2>2
  <2>3. QED
    BY <1>7, <2>1, <2>2
<1>8. ASSUME NEW b \in Batches \ raced'
      PROVE  /\ \A p, q \in Requests : Handles(p, b)' /\ Handles(q, b)' => p = q
             /\ \A q \in Requests :
                  request'[q].pc = "checked" /\ request'[q].batch = b
                    => task'[b] = "PENDING"
             /\ \A q \in Requests : Provisioned(q, b)' => task'[b] = "APPROVED"
             /\ OneDecision(b)'
  <2>1. CASE b # c
    <3>1. \A q \in Requests : Provisioned(q, b)' <=> Provisioned(q, b)
      BY <1>5, <2>1
    <3>2. QED
      BY <1>1, <1>2, <1>3, <1>6, <2>1, <3>1 DEF Decisive, OneDecision
  <2>2. CASE b = c
    <3>1. task[c] = "PENDING" /\ Handles(r, c)
      BY <1>8, <2>2 DEF Decisive, Handles, InFlight
    <3>2. \A q \in Requests : ~Provisioned(q, c)
      BY <1>8, <2>2, <3>1 DEF Decisive
    <3>3. \A q \in Requests : Provisioned(q, c)' => q = r /\ d = "APPROVED"
      BY <1>1, <1>5, <3>2 DEF Decisions
    <3>4. \A q \in Requests :
            ~(request'[q].pc = "checked" /\ request'[q].batch = c)
      BY <1>2, <1>3, <1>8, <2>2, <3>1 DEF Decisive, Handles, InFlight
    <3>5. OneDecision(c)'
      BY <1>1, <3>3 DEF OneDecision
    <3>6. QED
      BY <1>1, <1>6, <1>8, <2>2, <3>3, <3>4, <3>5 DEF Decisive
  <2>3. QED
    BY <2>1, <2>2
<1>9. QED
  BY <1>7, <1>8 DEF Decisive

LEMMA CheckTaskKeeps ==
  ASSUME Decisive, Typed, NEW r \in Requests, NEW u \in Users, NEW c \in Batches,
         NEW d \in Decisions, CheckTask(r, u, c, d)
  PROVE  Decisive'
<1>1. /\ \A q \in Requests : q # r => request'[q] = request[q]
      /\ request[r].pc = "new"
      /\ UNCHANGED <<task, students>>
  BY DEF CheckTask, Typed, TypeOK
<1>2. \A l \in students : l[1] \in Requests /\ l[1] # r
  BY <1>1 DEF Decisive, Typed, TypeOK, Logs
<1>3. \A b \in Batches : ~Provisioned(r, b)' /\ ~Provisioned(r, b)
  BY <1>1, <1>2 DEF Provisioned
<1>4. \A q \in Requests, b \in Batches :
        q # r => /\ Provisioned(q, b)' <=> Provisioned(q, b)
                 /\ Handles(q, b)' <=> Handles(q, b)
  BY <1>1 DEF Provisioned, Handles, InFlight
<1>5. \A l \in students' : request'[l[1]].pc \notin {"new", "checked"}
  BY <1>1, <1>2 DEF Decisive
<1>6. \/ /\ task[c] = "PENDING"
         /\ request'[r] = [pc |-> "checked", batch |-> c, decision |-> d]
         /\ raced \subseteq raced'
         /\ c \notin raced' => \A q \in Requests : ~Handles(q, c)
      \/ request'[r].pc = "denied" /\ UNCHANGED raced
  <2>1. CASE MayDecide(u, c)
    <3>1. request'[r] = [pc |-> "checked", batch |-> c, decision |-> d]
      BY <2>1 DEF CheckTask, Typed, TypeOK
    <3>2. raced' = IF \E q \in Requests : Handles(q, c)
                   THEN raced \cup {c} ELSE raced
      BY <2>1 DEF CheckTask, Handles
    <3>3. QED
      BY <2>1, <3>1, <3>2 DEF MayDecide
  <2>2. CASE ~MayDecide(u, c)
    BY <2>2, RequestMoves DEF CheckTask, Typed, TypeOK
  <2>3. QED
    BY <2>1, <2>2
<1>7. ASSUME NEW b \in Batches \ raced'
      PROVE  /\ \A p, q \in Requests : Handles(p, b)' /\ Handles(q, b)' => p = q
             /\ \A q \in Requests :
                  request'[q].pc = "checked" /\ request'[q].batch = b
                    => task'[b] = "PENDING"
             /\ \A q \in Requests : Provisioned(q, b)' => task'[b] = "APPROVED"
             /\ OneDecision(b)'
  <2>1. b \in Batches \ raced
    BY <1>6, <1>7
  <2>2. \A q \in Requests : Provisioned(q, b)' <=> Provisioned(q, b)
    BY <1>3, <1>4
  <2>3. Handles(r, b)' => b = c /\ task[c] = "PENDING"
                            /\ \A q \in Requests : ~Handles(q, c)
    BY <1>6, <1>7 DEF Handles, InFlight
  <2>4. \A p, q \in Requests : Handles(p, b)' /\ Handles(q, b)' => p = q
    BY <1>4, <2>1, <2>3 DEF Decisive
  <2>5. request'[r].pc = "checked" /\ request'[r].batch = b => task[b] = "PENDING"
    BY <1>6
  <2>6. QED
    BY <1>1, <2>1, <2>2, <2>4, <2>5 DEF Decisive, OneDecision
<1>8. QED
  BY <1>5, <1>7 DEF Decisive

LEMMA DecisiveInit == Init => Decisive
  BY DEF Init, Decisive, Handles, InFlight, Provisioned, OneDecision

LEMMA DecisiveNext == Typed /\ Decisive /\ [Next]_vars => Decisive'
<1> SUFFICES ASSUME Typed, Decisive, [Next]_vars PROVE Decisive'
  OBVIOUS
<1>1. ASSUME UNCHANGED <<task, request, students, raced>>
      PROVE  Decisive'
  BY ZenonT(30), <1>1 DEF Decisive, Handles, InFlight, Provisioned, OneDecision
<1>2. ASSUME NEW u \in Users, NEW b \in Batches, NEW recs \in SUBSET Records,
             CreateStagedBatch(u, b, recs)
      PROVE  Decisive'
  <2>1. /\ task[b] = "absent" /\ task'[b] = "PENDING"
        /\ \A c \in Batches : c # b => task'[c] = task[c]
        /\ UNCHANGED <<request, students, raced>>
    BY <1>2 DEF CreateStagedBatch, Typed, TypeOK
  <2>2. b \notin raced => \A r \in Requests : ~Provisioned(r, b)
    BY <2>1 DEF Decisive
  <2>3. \A r \in Requests, c \in Batches :
          /\ Provisioned(r, c)' <=> Provisioned(r, c)
          /\ Handles(r, c)' <=> Handles(r, c)
    BY <2>1 DEF Provisioned, Handles, InFlight
  <2>4. QED
    BY <2>1, <2>2, <2>3 DEF Decisive, OneDecision
<1>3. ASSUME NEW r \in Requests, NEW u \in Users, NEW b \in Batches,
             NEW d \in Decisions, CheckTask(r, u, b, d)
      PROVE  Decisive'
  BY <1>3, CheckTaskKeeps
<1>4. ASSUME NEW r \in Requests, Handle(r) \/ AbandonRequest(r)
      PROVE  Decisive'
  <2> USE DEF Typed, TypeOK
  <2>1. CASE RejectTask(r)
    <3>1. /\ request'[r].batch = request[r].batch
          /\ request'[r].pc = "ok"
          /\ \A q \in Requests : q # r => request'[q] = request[q]
      BY <2>1, RequestMoves DEF RejectTask
    <3>2. /\ request[r].pc = "checked"
          /\ task' = [task EXCEPT ![request[r].batch] = "REJECTED"]
          /\ students' = students \cup {} /\ UNCHANGED raced
      BY <2>1 DEF RejectTask
    <3> HIDE DEF Typed
    <3>3. QED
      BY <3>1, <3>2, DecideKeeps DEF Decisions
  <2>2. CASE ApproveTask(r)
    <3>1. request[r].batch \in Batches
      BY <2>2 DEF ApproveTask, About
    <3>2. LogsOf(r) \in SUBSET ({r} \X Records)
      BY <3>1 DEF LogsOf, BatchRow
    <3>3. /\ request'[r].batch = request[r].batch
          /\ request'[r].pc \in {"ok", "enqueue"}
          /\ \A q \in Requests : q # r => request'[q] = request[q]
      BY <2>2, <3>1, RequestMoves DEF ApproveTask
    <3>4. QED
      BY <2>2, <3>2, <3>3, DecideKeeps DEF ApproveTask, Decisions
  <2>3. CASE RollbackApproval(r) \/ AbandonRequest(r)
    <3>1. /\ request'[r].batch = request[r].batch
          /\ request'[r].pc \in {"failed", "lost"}
          /\ \A q \in Requests : q # r => request'[q] = request[q]
      BY ZenonT(30), <2>3, RequestMoves DEF RollbackApproval, AbandonRequest
    <3>2. InFlight(r) /\ UNCHANGED <<task, students, raced>>
      BY <2>3 DEF RollbackApproval, AbandonRequest, InFlight
    <3> HIDE DEF Typed
    <3>3. QED
      BY <3>1, <3>2, StepBackKeeps
  <2>4. ASSUME NEW rec \in Records, EnqueueJob(r, rec)
        PROVE  Decisive'
    <3>1. /\ request'[r].batch = request[r].batch
          /\ request'[r].pc \in {"ok", "enqueue"}
          /\ \A q \in Requests : q # r => request'[q] = request[q]
      BY <2>4, RequestMoves DEF EnqueueJob
    <3>2. /\ request[r].pc = "enqueue" /\ InFlight(r)
          /\ UNCHANGED <<task, students, raced>>
      BY <2>4 DEF EnqueueJob, InFlight
    <3> HIDE DEF Typed
    <3>3. QED
      BY <3>1, <3>2, StepBackKeeps
  <2>5. QED
    BY <1>4, <2>1, <2>2, <2>3, <2>4 DEF Handle
<1>5. ASSUME NEW w \in Workers, Process(w) \/ WorkerDies(w)
      PROVE  Decisive'
  <2>1. UNCHANGED intake
    BY <1>5
    DEF Process, CountAttempt, SendSms, MarkSent, RecordFailure, Complete, Retry,
        WorkerDies
  <2>2. QED
    BY <1>1, <2>1 DEF intake
<1>6. ASSUME NEW w \in Workers, NEW l \in Logs, TakeJob(w, l)
      PROVE  Decisive'
  BY <1>1, <1>6 DEF TakeJob, intake
<1>7. ASSUME NEW l \in Logs, BackoffElapsed(l) \/ RecoverStalled(l)
      PROVE  Decisive'
  BY <1>1, <1>7 DEF BackoffElapsed, RecoverStalled, intake
<1>8. CASE ConfigureSections
  <2>1. UNCHANGED <<task, request, students, raced>>
    BY <1>8, Zenon DEF ConfigureSections
  <2>2. QED
    BY <1>1, <2>1
<1>9. CASE UNCHANGED vars
  BY <1>1, <1>9 DEF vars
<1>10. QED
  BY <1>2, <1>3, <1>4, <1>5, <1>6, <1>7, <1>8, <1>9 DEF Next

\* The handler's unguarded check decides a task once whenever no two requests
\* handle that task at the same time.
THEOREM DecisionsSound == Spec => []DecidedOnceUnlessRaced
<1>1. Decisive => DecidedOnceUnlessRaced
  BY DEF Decisive, DecidedOnceUnlessRaced
<1>2. Init => Typed /\ Decisive
  BY TypedInit, DecisiveInit
<1>3. (Typed /\ Decisive) /\ [Next]_vars => (Typed /\ Decisive)'
  BY TypedNext, DecisiveNext
<1>4. QED
  BY <1>1, <1>2, <1>3, PTL DEF Spec

-----------------------------------------------------------------------------
(* The approval implements MakerChecker                                    *)

\* The abstract state of the batches, as the refinement mapping gives it.
states == [b \in Batches |-> IF b \in raced THEN "disowned" ELSE task[b]]
submitted == [b \in Batches |-> IF b \in raced THEN {} ELSE batch[b].records]
owners == [b \in Batches |-> IF b \in raced THEN [rec \in Records |-> 0]
                             ELSE Accounts(b)]

PromiseStep == [Promise!Next]_(Promise!vars)

Owns(r, b, rec) == request[r].batch = b /\ <<r, rec>> \in students

\* A batch that no request provisioned has no account.
LEMMA NoOwner ==
  ASSUME NEW b \in Batches, \A r \in Requests : ~Provisioned(r, b)
  PROVE  Accounts(b) = [rec \in Records |-> 0]
<1>1. ASSUME NEW rec \in Records
      PROVE  Cardinality({r \in Requests : request[r].batch = b
                                             /\ <<r, rec>> \in students}) = 0
  <2>1. {r \in Requests : request[r].batch = b /\ <<r, rec>> \in students} = {}
    BY DEF Provisioned
  <2>2. QED
    BY <2>1, FS_EmptySet
<1>2. QED
  BY <1>1 DEF Accounts

\* What nobody's ownership changes leaves every account as it was.
LEMMA SameOwners ==
  ASSUME \A r \in Requests, b \in Batches, rec \in Records :
           Owns(r, b, rec)' <=> Owns(r, b, rec)
  PROVE  \A b \in Batches : Accounts(b)' = Accounts(b)
<1> SUFFICES ASSUME NEW b \in Batches PROVE Accounts(b)' = Accounts(b)
  OBVIOUS
<1>1. ASSUME NEW rec \in Records
      PROVE  {r \in Requests : request[r].batch = b /\ <<r, rec>> \in students}'
               = {r \in Requests : request[r].batch = b /\ <<r, rec>> \in students}
  BY DEF Owns
<1>2. QED
  BY <1>1 DEF Accounts

\* Nothing that MakerChecker speaks of moves.
LEMMA PromiseStutters ==
  ASSUME UNCHANGED raced,
         \A b \in Batches : b \notin raced =>
           task'[b] = task[b] /\ batch'[b].records = batch[b].records,
         \A b \in Batches : b \notin raced => Accounts(b)' = Accounts(b)
  PROVE  UNCHANGED Promise!vars
<1>1. states' = states /\ submitted' = submitted
  BY DEF states, submitted
<1>2. owners' = owners
  BY DEF owners
<1>3. QED
  BY <1>1, <1>2 DEF Promise!vars, states, submitted, owners

\* A clerk's batch is submitted, with no account yet.
LEMMA SubmitSteps ==
  ASSUME Typed, Decisive, NEW u \in Users, NEW b \in Batches,
         NEW recs \in SUBSET Records, CreateStagedBatch(u, b, recs)
  PROVE  PromiseStep
<1> USE DEF Typed, TypeOK
<1>1. \A c \in Batches : Accounts(c)' = Accounts(c)
  BY SameOwners DEF CreateStagedBatch, Owns
<1>2. /\ task[b] = "absent" /\ task'[b] = "PENDING"
      /\ batch'[b].records = recs
      /\ \A c \in Batches : c # b => task'[c] = task[c] /\ batch'[c] = batch[c]
      /\ UNCHANGED raced
  BY DEF CreateStagedBatch
<1> HIDE DEF Typed, TypeOK
<1>3. CASE b \in raced
  <2>1. UNCHANGED Promise!vars
    BY <1>1, <1>2, <1>3, PromiseStutters
  <2>2. QED
    BY <2>1 DEF PromiseStep
<1>4. CASE b \notin raced
  <2>1. states[b] = "absent" /\ states' = [states EXCEPT ![b] = "PENDING"]
    BY <1>2, <1>4 DEF states
  <2>2. submitted' = [submitted EXCEPT ![b] = recs]
    BY <1>2, <1>4 DEF submitted
  <2>3. owners' = owners
    BY <1>1, <1>2 DEF owners
  <2>4. Promise!Submit(b, recs)
    BY <2>1, <2>2, <2>3 DEF Promise!Submit, states, submitted, owners
  <2>5. QED
    BY <2>4 DEF PromiseStep, Promise!Next
<1>5. QED
  BY <1>3, <1>4

\* The second request to pass the check of a task makes MakerChecker disown the
\* batch, which has no account then.
LEMMA CheckSteps ==
  ASSUME Typed, Decisive, NEW r \in Requests, NEW u \in Users,
         NEW b \in Batches, NEW d \in Decisions, CheckTask(r, u, b, d)
  PROVE  PromiseStep
<1> USE DEF Typed, TypeOK
<1>1. /\ UNCHANGED <<task, batch, students>>
      /\ \A q \in Requests : q # r => request'[q] = request[q]
      /\ request[r].pc = "new"
  BY DEF CheckTask
<1>2. \A rec \in Records : <<r, rec>> \notin students
  BY <1>1 DEF Decisive
<1>3. \A c \in Batches : Accounts(c)' = Accounts(c)
  <2>1. \A q \in Requests, c \in Batches, rec \in Records :
          Owns(q, c, rec)' <=> Owns(q, c, rec)
    BY <1>1, <1>2 DEF Owns
  <2>2. QED
    BY <2>1, SameOwners
<1> HIDE DEF Typed, TypeOK
<1>4. CASE raced' = raced
  <2>1. UNCHANGED Promise!vars
    BY <1>1, <1>3, <1>4, PromiseStutters
  <2>2. QED
    BY <2>1 DEF PromiseStep
<1>5. CASE raced' = raced \cup {b} /\ b \notin raced /\ task[b] = "PENDING"
  <2>1. owners[b] = [rec \in Records |-> 0]
    <3>1. \A q \in Requests : ~Provisioned(q, b)
      BY <1>5 DEF Decisive
    <3>2. QED
      BY <1>5, <3>1, NoOwner DEF owners
  <2>2. states[b] = "PENDING" /\ states' = [states EXCEPT ![b] = "disowned"]
    BY <1>1, <1>5 DEF states
  <2>3. submitted' = [submitted EXCEPT ![b] = {}]
    BY <1>1, <1>5 DEF submitted
  <2>4. owners' = owners
    <3>1. ASSUME NEW c \in Batches
          PROVE  owners'[c] = owners[c]
      <4>1. CASE c = b
        <5>1. owners'[b] = [rec \in Records |-> 0]
          BY <1>5 DEF owners
        <5>2. QED
          BY <2>1, <4>1, <5>1
      <4>2. CASE c # b
        BY <1>3, <1>5, <4>2 DEF owners
      <4>3. QED
        BY <4>1, <4>2
    <3>2. QED
      BY <3>1 DEF owners
  <2>5. Promise!Disown(b)
    BY <2>2, <2>3, <2>4 DEF Promise!Disown, states, submitted, owners
  <2>6. QED
    BY <2>5 DEF PromiseStep, Promise!Next
<1>6. QED
  <2>1. \/ raced' = raced
        \/ raced' = raced \cup {b} /\ task[b] = "PENDING"
    BY DEF CheckTask, MayDecide
  <2>2. QED
    BY <1>4, <1>5, <2>1

\* A request that rejects, and one that approves, does so to a pending batch
\* unless the batch is disowned; approving gives each record one account.
LEMMA DecideSteps ==
  ASSUME Typed, Decisive, NEW r \in Requests, RejectTask(r) \/ ApproveTask(r),
         NEW b \in Batches, request[r].batch = b
  PROVE  PromiseStep
<1> USE DEF Typed, TypeOK
<1>1. b \in Batches /\ request[r].pc = "checked" /\ UNCHANGED raced
  BY DEF About, RejectTask, ApproveTask
<1>2. /\ batch'[b].records = batch[b].records
      /\ \A c \in Batches : c # b => task'[c] = task[c] /\ batch'[c] = batch[c]
  BY <1>1, BatchMoves DEF RejectTask, ApproveTask
<1>3. \A q \in Requests : request'[q].batch = request[q].batch
  <2>1. CASE RejectTask(r)
    BY ZenonT(30), <2>1, RequestMoves DEF RejectTask
  <2>2. CASE ApproveTask(r)
    <3>1. request'[r].batch = b /\ \A q \in Requests : q # r => request'[q] = request[q]
      BY <1>1, <2>2, RequestMoves DEF ApproveTask
    <3>2. QED
      BY <3>1
  <2>3. QED
    BY <2>1, <2>2
<1>4. \A q \in Requests, rec \in Records :
        <<q, rec>> \in students' <=>
          \/ <<q, rec>> \in students
          \/ ApproveTask(r) /\ q = r /\ rec \in batch[b].records
  <2>1. batch[b].records \subseteq Records
    BY <1>1 DEF BatchRow
  <2>2. CASE RejectTask(r)
    BY <2>2 DEF RejectTask, ApproveTask
  <2>3. CASE ApproveTask(r)
    BY <2>1, <2>3 DEF ApproveTask, LogsOf
  <2>4. QED
    BY <2>2, <2>3
<1>5. \A c \in Batches : c # b => Accounts(c)' = Accounts(c)
  <2> SUFFICES ASSUME NEW c \in Batches, c # b PROVE Accounts(c)' = Accounts(c)
    OBVIOUS
  <2>1. ASSUME NEW rec \in Records
        PROVE  {q \in Requests : request[q].batch = c /\ <<q, rec>> \in students}'
                 = {q \in Requests : request[q].batch = c /\ <<q, rec>> \in students}
    BY <1>3, <1>4
  <2>2. QED
    BY <2>1 DEF Accounts
<1>6. \A c \in Batches : c # b =>
        states'[c] = states[c] /\ submitted'[c] = submitted[c] /\ owners'[c] = owners[c]
  BY <1>1, <1>2, <1>5 DEF states, submitted, owners
<1>7. CASE b \in raced
  <2>1. UNCHANGED Promise!vars
    BY <1>1, <1>2, <1>5, <1>7, PromiseStutters
  <2>2. QED
    BY <2>1 DEF PromiseStep
<1>8. CASE b \notin raced
  <2>1. task[b] = "PENDING" /\ \A q \in Requests : ~Provisioned(q, b)
    BY <1>1, <1>8 DEF Decisive
  <2>2. states[b] = "PENDING" /\ states'[b] = task'[b]
    BY <1>1, <1>8, <2>1 DEF states
  <2>3. submitted' = submitted /\ submitted[b] = batch[b].records
    BY <1>1, <1>2, <1>6, <1>8 DEF submitted
  <2>4. CASE RejectTask(r)
    <3>1. task'[b] = "REJECTED"
      BY <1>1, <2>4 DEF RejectTask
    <3>2. states' = [states EXCEPT ![b] = "REJECTED"]
      BY <1>6, <2>2, <3>1 DEF states
    <3>3. owners' = owners
      <4>1. \A q \in Requests, c \in Batches, rec \in Records :
              Owns(q, c, rec)' <=> Owns(q, c, rec)
        BY <1>3, <2>4 DEF RejectTask, Owns
      <4>2. QED
        BY <1>1, <4>1, SameOwners DEF owners
    <3>4. Promise!Reject(b)
      BY <2>2, <2>3, <3>2, <3>3 DEF Promise!Reject, states, submitted, owners
    <3>5. Promise!Next
      BY <1>1, <3>4 DEF Promise!Next
    <3>6. QED
      BY <3>5 DEF PromiseStep
  <2>5. CASE ApproveTask(r)
    <3>1. task'[b] = "APPROVED"
      BY <1>1, <2>5 DEF ApproveTask
    <3>2. states' = [states EXCEPT ![b] = "APPROVED"]
      BY <1>6, <2>2, <3>1 DEF states
    <3>3. ASSUME NEW rec \in Records
          PROVE  Cardinality({q \in Requests : request'[q].batch = b
                                                 /\ <<q, rec>> \in students'})
                   = IF rec \in batch[b].records THEN 1 ELSE 0
      <4> DEFINE after == {q \in Requests : request'[q].batch = b
                                              /\ <<q, rec>> \in students'}
      <4>1. after = IF rec \in batch[b].records THEN {r} ELSE {}
        BY <1>3, <1>4, <2>1, <2>5 DEF Provisioned
      <4>2. QED
        BY <4>1, FS_Singleton, FS_EmptySet
    <3>4. owners' = [owners EXCEPT ![b] =
                       [rec \in Records |-> IF rec \in submitted[b] THEN 1 ELSE 0]]
      <4>1. ASSUME NEW c \in Batches, c = b
            PROVE  Accounts(c)' = [rec \in Records |->
                                     IF rec \in submitted[b] THEN 1 ELSE 0]
        BY <2>3, <3>3, <4>1 DEF Accounts
      <4>2. ASSUME NEW c \in Batches
            PROVE  owners'[c] = IF c = b THEN [rec \in Records |->
                                                 IF rec \in submitted[b] THEN 1 ELSE 0]
                                         ELSE owners[c]
        BY <1>1, <1>6, <1>8, <4>1 DEF owners
      <4>3. QED
        BY <4>2 DEF owners
    <3>5. Promise!Approve(b)
      BY <2>2, <2>3, <3>2, <3>4 DEF Promise!Approve, states, submitted, owners
    <3>6. Promise!Next
      BY <1>1, <3>5 DEF Promise!Next
    <3>7. QED
      BY <3>6 DEF PromiseStep
  <2>6. QED
    BY <2>4, <2>5
<1>9. QED
  BY <1>7, <1>8

LEMMA PromiseSteps == Typed /\ Decisive /\ [Next]_vars => PromiseStep
<1> SUFFICES ASSUME Typed, Decisive, [Next]_vars PROVE PromiseStep
  OBVIOUS
<1>1. ASSUME UNCHANGED <<task, batch, students, raced>>,
             \A r \in Requests : request'[r].batch = request[r].batch
      PROVE  PromiseStep
  <2>1. \A b \in Batches : Accounts(b)' = Accounts(b)
    BY <1>1, SameOwners DEF Owns
  <2>2. UNCHANGED Promise!vars
    BY <1>1, <2>1, PromiseStutters
  <2>3. QED
    BY <2>2 DEF PromiseStep
<1>2. ASSUME UNCHANGED intake
      PROVE  PromiseStep
  BY <1>1, <1>2 DEF intake
<1>3. ASSUME NEW u \in Users, NEW b \in Batches, NEW recs \in SUBSET Records,
             CreateStagedBatch(u, b, recs)
      PROVE  PromiseStep
  BY <1>3, SubmitSteps
<1>4. ASSUME NEW r \in Requests, NEW u \in Users, NEW b \in Batches,
             NEW d \in Decisions, CheckTask(r, u, b, d)
      PROVE  PromiseStep
  BY <1>4, CheckSteps
<1>5. ASSUME NEW r \in Requests, RejectTask(r) \/ ApproveTask(r)
      PROVE  PromiseStep
  <2>1. PICK b \in Batches : request[r].batch = b
    BY <1>5 DEF RejectTask, ApproveTask, Typed, About
  <2>2. QED
    BY <1>5, <2>1, DecideSteps
<1>6. ASSUME NEW r \in Requests,
             \/ RollbackApproval(r) \/ AbandonRequest(r)
             \/ \E rec \in Records : EnqueueJob(r, rec)
      PROVE  PromiseStep
  <2> USE <1>1 DEF Typed, TypeOK
  <2>1. CASE RollbackApproval(r)
    BY <2>1, RequestMoves DEF RollbackApproval
  <2>2. CASE AbandonRequest(r)
    BY <2>2, RequestMoves DEF AbandonRequest
  <2>3. CASE \E rec \in Records : EnqueueJob(r, rec)
    <3>1. /\ request'[r].batch = request[r].batch
          /\ \A q \in Requests : q # r => request'[q] = request[q]
      BY <2>3, RequestMoves DEF EnqueueJob
    <3>2. UNCHANGED <<task, batch, students, raced>>
      BY <2>3 DEF EnqueueJob
    <3>3. QED
      BY <3>1, <3>2
  <2>4. QED
    BY <1>6, <2>1, <2>2, <2>3
<1>7. ASSUME NEW w \in Workers, Process(w) \/ WorkerDies(w)
      PROVE  PromiseStep
  <2>1. UNCHANGED intake
    BY <1>7
    DEF Process, CountAttempt, SendSms, MarkSent, RecordFailure, Complete, Retry,
        WorkerDies
  <2>2. QED
    BY <1>2, <2>1
<1>8. ASSUME NEW w \in Workers, NEW l \in Logs, TakeJob(w, l)
      PROVE  PromiseStep
  BY <1>2, <1>8 DEF TakeJob
<1>9. ASSUME NEW l \in Logs, BackoffElapsed(l) \/ RecoverStalled(l)
      PROVE  PromiseStep
  BY <1>2, <1>9 DEF BackoffElapsed, RecoverStalled
<1>10. CASE ConfigureSections
  <2>1. UNCHANGED <<task, batch, request, students, raced>>
    BY <1>10, Zenon DEF ConfigureSections
  <2>2. QED
    BY <1>1, <2>1
<1>11. CASE UNCHANGED vars
  BY <1>2, <1>11 DEF vars, intake
<1>12. QED
  BY <1>3, <1>4, <1>5, <1>6, <1>7, <1>8, <1>9, <1>10, <1>11 DEF Next, Handle

\* Every run of the pipeline is a run of MakerChecker: a batch is submitted,
\* decided once, and has one account per record exactly when it was approved,
\* unless two requests handled it at once.
THEOREM ApprovalKeepsPromise == Spec => ImplementsMakerChecker
<1>1. Init => Promise!Init
  <2> SUFFICES ASSUME Init PROVE Promise!Init
    OBVIOUS
  <2>1. raced = {} /\ students = {}
    BY DEF Init
  <2>2. \A b \in Batches : Accounts(b) = [rec \in Records |-> 0]
    BY <2>1, NoOwner DEF Provisioned
  <2>3. QED
    BY <2>1, <2>2 DEF Init, Promise!Init, Promise!NoAccounts
<1>2. Init => Typed /\ Decisive
  BY TypedInit, DecisiveInit
<1>3. (Typed /\ Decisive) /\ [Next]_vars => (Typed /\ Decisive)'
  BY TypedNext, DecisiveNext
<1>4. (Typed /\ Decisive) /\ [Next]_vars => [Promise!Next]_(Promise!vars)
  BY PromiseSteps DEF PromiseStep
<1>5. QED
  BY <1>1, <1>2, <1>3, <1>4, PTL DEF Spec, ImplementsMakerChecker, Promise!Spec

-----------------------------------------------------------------------------
(* The pipeline implements BoundedDelivery                                 *)

phases == [l \in Logs |-> Phase(l)]

AbstractStep == [Delivery!Next]_(Delivery!vars)

\* A step that moves no log to another phase, and sends nothing, is a stutter.
LEMMA SamePhase ==
  ASSUME \A l \in Logs : Phase(l)' = Phase(l), UNCHANGED sms
  PROVE  UNCHANGED Delivery!vars
  BY DEF Delivery!vars

\* The phase of a log whose job is queued stands still while the job waits,
\* runs or is delayed.
LEMMA SameQueue ==
  ASSUME UNCHANGED <<students, sms>>,
         \A l \in Logs : \/ job'[l].state = job[l].state
                         \/ /\ job[l].state \in {"waiting", "active", "delayed"}
                            /\ job'[l].state \in {"waiting", "active", "delayed"}
  PROVE  AbstractStep
<1>1. \A l \in Logs : Phase(l)' = Phase(l)
  BY DEF Phase
<1>2. QED
  BY <1>1, SamePhase DEF AbstractStep

\* A job that ends settles its log.
LEMMA JobEnds ==
  ASSUME NEW l \in Logs, job[l].state = "active", UNCHANGED <<students, sms>>,
         \A k \in Logs : k # l => job'[k] = job[k],
         \/ job'[l].state = "failed"
         \/ job'[l].state = "completed" /\ sms[l] > 0
  PROVE  AbstractStep
<1>1. \A k \in Logs : k # l => Phase(k)' = Phase(k)
  BY DEF Phase
<1>2. Phase(l) = "queued"
  BY DEF Phase
<1>3. \/ Phase(l)' = "exhausted"
      \/ Phase(l)' = "delivered" /\ sms[l] > 0
  BY DEF Phase
<1>4. phases' = [phases EXCEPT ![l] = Phase(l)']
  BY <1>1 DEF phases
<1>5. Delivery!Settle(l)
  BY <1>2, <1>3, <1>4 DEF Delivery!Settle, phases
<1>6. QED
  BY <1>5 DEF AbstractStep, Delivery!Next

LEMMA DeliverySteps == IInv /\ [Next]_vars => AbstractStep
<1> SUFFICES ASSUME IInv, [Next]_vars PROVE AbstractStep
  OBVIOUS
<1>1. ASSUME UNCHANGED <<students, job, sms>>
      PROVE  AbstractStep
  BY <1>1, SameQueue
<1> USE DEF IInv, Typed, TypeOK
<1>2. CASE ConfigureSections
  <2>1. UNCHANGED <<students, delivery>>
    BY <1>2, Zenon DEF ConfigureSections
  <2>2. QED
    BY <1>1, <2>1 DEF delivery
<1>3. ASSUME NEW u \in Users, NEW b \in Batches, NEW recs \in SUBSET Records,
             CreateStagedBatch(u, b, recs)
      PROVE  AbstractStep
  BY <1>1, <1>3 DEF CreateStagedBatch, delivery
<1>4. ASSUME NEW r \in Requests, NEW u \in Users, NEW b \in Batches,
             NEW d \in Decisions, CheckTask(r, u, b, d)
      PROVE  AbstractStep
  BY <1>1, <1>4 DEF CheckTask, delivery
<1>5. ASSUME NEW r \in Requests,
             RejectTask(r) \/ RollbackApproval(r) \/ AbandonRequest(r)
      PROVE  AbstractStep
  BY <1>1, <1>5 DEF RejectTask, RollbackApproval, AbandonRequest, delivery
<1>6. ASSUME NEW r \in Requests, ApproveTask(r)
      PROVE  AbstractStep
  <2> DEFINE S == LogsOf(r)
  <2>1. S \in SUBSET Logs /\ \A l \in S : l[1] = r
    <3>1. batch[request[r].batch].records \in SUBSET Records
      BY <1>6 DEF ApproveTask, About, BatchRow
    <3>2. QED
      BY <3>1 DEF LogsOf, Logs
  <2>2. \A l \in S : l \notin students /\ job[l].state = "absent"
    BY <1>6, <2>1 DEF ApproveTask, Committed
  <2>3. students' = students \cup S /\ UNCHANGED <<job, sms>>
    BY <1>6 DEF ApproveTask
  <2>4. CASE S = {}
    BY <1>1, <2>3, <2>4
  <2>5. CASE S # {}
    <3>1. \A l \in S : Phase(l) = "absent" /\ Phase(l)' = "committed"
      BY <2>1, <2>2, <2>3 DEF Phase
    <3>2. \A l \in Logs \ S : Phase(l)' = Phase(l)
      BY <2>3 DEF Phase
    <3>3. phases' = [l \in Logs |-> IF l \in S THEN "committed" ELSE phases[l]]
      BY <3>1, <3>2 DEF phases
    <3>4. Delivery!Commit(S)
      BY <2>1, <2>3, <2>5, <3>1, <3>3 DEF Delivery!Commit, phases
    <3>5. QED
      BY <2>1, <3>4 DEF AbstractStep, Delivery!Next
  <2>6. QED
    BY <2>4, <2>5
<1>7. ASSUME NEW r \in Requests, NEW rec \in Records, EnqueueJob(r, rec)
      PROVE  AbstractStep
  <2> DEFINE l == <<r, rec>>
  <2>1. l \in Logs /\ l \in students /\ job[l].state = "absent"
    BY <1>7 DEF EnqueueJob, Committed, Logs
  <2>2. /\ job'[l].state = "waiting"
        /\ \A k \in Logs : k # l => job'[k] = job[k]
        /\ UNCHANGED <<students, sms>>
    BY <1>7, <2>1, JobMoves DEF EnqueueJob
  <2>3. Phase(l) = "committed" /\ Phase(l)' = "queued"
    BY <2>1, <2>2 DEF Phase
  <2>4. \A k \in Logs : k # l => Phase(k)' = Phase(k)
    BY <2>2 DEF Phase
  <2>5. phases' = [phases EXCEPT ![l] = "queued"]
    BY <2>3, <2>4 DEF phases
  <2>6. Delivery!Queue(l)
    BY <2>1, <2>2, <2>3, <2>5 DEF Delivery!Queue, phases
  <2>7. QED
    BY <2>1, <2>6 DEF AbstractStep, Delivery!Next
<1>8. ASSUME NEW w \in Workers,
             \/ CountAttempt(w) \/ MarkSent(w) \/ RecordFailure(w)
             \/ WorkerDies(w)
      PROVE  AbstractStep
  BY <1>1, <1>8 DEF CountAttempt, MarkSent, RecordFailure, WorkerDies, intake
<1>9. ASSUME NEW w \in Workers, SendSms(w)
      PROVE  AbstractStep
  <2> DEFINE l == worker[w].job
  <2>1. l \in Logs /\ job[l].state = "active"
    BY <1>9, WorkerHolds DEF SendSms
  <2>2. CASE UNCHANGED sms
    BY <1>1, <1>9, <2>2 DEF SendSms, intake
  <2>3. CASE sms' = [sms EXCEPT ![l] = @ + 1]
    <3>1. \A k \in Logs : Phase(k)' = Phase(k)
      BY <1>9 DEF SendSms, intake, Phase
    <3>2. UNCHANGED phases
      BY <3>1 DEF phases
    <3>3. Phase(l) = "queued"
      BY <2>1 DEF Phase
    <3>4. sms[l] < Attempts + MaxStalls
      <4>1. sms[l] < log[l].attempts /\ log[l].attempts <= Attempts + MaxStalls
        BY <1>9, <2>1 DEF SendSms, InProcess, Counted
      <4>2. sms[l] \in Nat /\ log[l].attempts \in Nat
        BY <2>1 DEF LogRow
      <4>3. QED
        BY <4>1, <4>2, OnboardingAssumption
    <3>5. Delivery!Deliver(l)
      BY <2>1, <2>3, <3>2, <3>3, <3>4 DEF Delivery!Deliver, phases
    <3>6. QED
      BY <2>1, <3>5 DEF AbstractStep, Delivery!Next
  <2>4. QED
    BY <1>9, <2>2, <2>3 DEF SendSms
<1>10. ASSUME NEW w \in Workers, Complete(w) \/ Retry(w)
       PROVE  AbstractStep
  <2> DEFINE l == worker[w].job
  <2>1. l \in Logs /\ job[l].state = "active"
    BY <1>10, WorkerHolds DEF Complete, Retry
  <2>2. /\ \A k \in Logs : k # l => job'[k] = job[k]
        /\ UNCHANGED <<students, sms>>
    BY <1>10 DEF Complete, Retry, intake
  <2>3. CASE Complete(w)
    <3>1. job'[l].state = "completed"
      BY <2>1, <2>3, JobMoves DEF Complete
    <3>2. sms[l] > 0
      BY <2>1, <2>3 DEF Complete, InProcess, SentMeansDelivered
    <3>3. QED
      BY <2>1, <2>2, <3>1, <3>2, JobEnds
  <2>4. CASE Retry(w)
    <3>1. job'[l].state \in {"delayed", "failed"}
      BY <2>1, <2>4 DEF Retry
    <3>2. QED
      BY <2>1, <2>2, <3>1, JobEnds, SameQueue
  <2>5. QED
    BY <1>10, <2>3, <2>4
<1>11. ASSUME NEW w \in Workers, NEW l \in Logs, TakeJob(w, l)
       PROVE  AbstractStep
  BY <1>11, JobMoves, SameQueue DEF TakeJob, intake
<1>12. ASSUME NEW l \in Logs, BackoffElapsed(l) \/ RecoverStalled(l)
       PROVE  AbstractStep
  <2>1. /\ \A k \in Logs : k # l => job'[k] = job[k]
        /\ UNCHANGED <<students, sms>>
    BY <1>12 DEF BackoffElapsed, RecoverStalled, intake
  <2>2. job[l].state \in {"delayed", "active"}
    BY <1>12 DEF BackoffElapsed, RecoverStalled
  <2>3. \/ job'[l].state = "waiting"
        \/ job[l].state = "active" /\ job'[l].state = "failed"
    <3>1. CASE BackoffElapsed(l)
      BY <3>1, JobMoves DEF BackoffElapsed
    <3>2. CASE RecoverStalled(l)
      BY <3>2, JobMoves DEF RecoverStalled, Requeued
    <3>3. QED
      BY <1>12, <3>1, <3>2
  <2>4. QED
    BY <2>1, <2>2, <2>3, JobEnds, SameQueue
<1>13. CASE UNCHANGED vars
  BY <1>1, <1>13 DEF vars
<1>14. QED
  BY <1>2, <1>3, <1>4, <1>5, <1>6, <1>7, <1>8, <1>9, <1>10, <1>11, <1>12, <1>13
  DEF Next, Handle, Process

\* Every run of the pipeline, with its crashes, retries and races, is a run of
\* BoundedDelivery: committed, queued, at most Attempts + MaxStalls messages,
\* ended once.
THEOREM PipelineDelivers == Spec => ImplementsBoundedDelivery
<1>1. Init => Delivery!Init
  BY DEF Init, Delivery!Init, Phase
<1>2. IInv /\ [Next]_vars => [Delivery!Next]_(Delivery!vars)
  BY DeliverySteps DEF AbstractStep
<1>3. QED
  BY IInvInit, IInvNext, <1>1, <1>2, PTL
  DEF Spec, ImplementsBoundedDelivery, Delivery!Spec
=============================================================================
