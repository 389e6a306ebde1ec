---------------------------- MODULE LeavesProofs ----------------------------
(***************************************************************************)
(* Proofs about Leaves, for any requests, calls, days, holidays and events,  *)
(* and any number of deaths of the process during the cron.                 *)
(***************************************************************************)
EXTENDS Leaves, FiniteSetTheorems, TLAPS

Handles(c, l) ==
  call[c].req = l /\ call[c].pc \in {"decide", "escalate", "mark"}

-----------------------------------------------------------------------------
(* The inductive invariant                                                 *)

\* A call that goes on has checked its request, which then exists, and marks
\* days of its range.
Checked ==
  \A c \in Calls :
    /\ call[c].pc \in {"decide", "escalate", "mark"} =>
         call[c].req \in Requests /\ leave[call[c].req].status # "absent"
    /\ call[c].pc \in {"decide", "mark"} => call[c].role # "other"
    /\ call[c].pc = "decide" => call[c].day = leave[call[c].req].start
    /\ call[c].pc = "mark" =>
         /\ call[c].status \notin Open
         /\ leave[call[c].req].start <= call[c].day
         /\ call[c].day <= leave[call[c].req].end

\* The cron has requests before it only after its scan, and one in hand only
\* while it marks that one's days.
Scanned ==
  /\ cron.pc \in {"idle", "scan"} => cron.todo = {}
  /\ cron.pc # "mark" => cron.req = None
  /\ cron.pc = "mark" =>
       /\ cron.req \in Requests /\ cron.req \notin cron.todo
       /\ leave[cron.req].status # "absent"
       /\ leave[cron.req].start <= cron.day /\ cron.day <= leave[cron.req].end
  /\ \A l \in cron.todo : leave[l].status # "absent"

Ranges == \A l \in Requests : leave[l].start <= leave[l].end

Typed == TypeOK /\ Ranges /\ Checked /\ Scanned

\* A request that was never handled by two at once is in one hand at most.
Alone ==
  \A l \in Requests \ raced :
    /\ \A c, d \in Calls : Handles(c, l) /\ Handles(d, l) => c = d
    /\ \A c \in Calls : Handles(c, l) => cron.req # l /\ l \notin cron.todo

\* And what that hand read is still so.
Seen ==
  \A l \in Requests \ raced :
    /\ \A c \in Calls : call[c].req = l =>
         /\ call[c].pc = "escalate" => leave[l].status = "REJECTED"
         /\ call[c].pc = "decide" /\ call[c].role = "incharge" =>
              leave[l].status # "ESCALATED"
    /\ l \in cron.todo => leave[l].status \in Open

\* What a decision makes of day d.
Verdict(status, from, to, d) ==
  IF status = "APPROVED" /\ Granted(from, to, d) THEN "LEAVE" ELSE "ABSENT"

\* The days of l up to d are written, and those that are still l's as decided.
Written(l, status, from, to, d) ==
  \A e \in leave[l].start .. d :
    /\ marker[e] # None
    /\ marker[e] = l => attendance[e] = Verdict(status, from, to, e)

\* Call c gave the request the approved dates it has.
GaveDates(c, l) ==
  leave[l].appStart = DayOf(call[c].from) /\ leave[l].appEnd = DayOf(call[c].to)

Complete(l) ==
  /\ leave[l].status = "APPROVED" =>
       \E c \in Calls :
         /\ Decided(c, l) /\ call[c].status = "APPROVED" /\ GaveDates(c, l)
         /\ Written(l, "APPROVED", call[c].from, call[c].to, leave[l].end)
  /\ leave[l].status = "REJECTED" => Written(l, "REJECTED", 0, 0, leave[l].end)

\* Of a request that was handled by one at a time and to the end: the days
\* behind the hand that marks them read as it decided, and all of them once it
\* is done.
Marked(l) ==
  ~Interrupted(l) =>
    /\ \A c \in Calls : call[c].req = l /\ call[c].pc = "mark" =>
         /\ leave[l].status = call[c].status
         /\ call[c].status = "APPROVED" => GaveDates(c, l)
         /\ Written(l, call[c].status, call[c].from, call[c].to, call[c].day - 1)
    /\ cron.req = l =>
         leave[l].status = "REJECTED" /\ Written(l, "REJECTED", 0, 0, cron.day - 1)
    /\ ~Handling(l) => Complete(l)

Marking == \A l \in Requests \ raced : Marked(l)

IInv == Typed /\ Alone /\ Seen /\ LeaveDaysWereGranted /\ Marking

LEMMA IInvInit == Init => IInv
<1> SUFFICES ASSUME Init PROVE IInv
  OBVIOUS
<1> USE LeavesAssumption
<1>1. TypeOK
  BY DEF Init, TypeOK, Days, Instants, NewCall, IdleCron, Roles, Statuses, NoDay
<1>2. Ranges /\ Checked /\ Scanned
  BY DEF Init, Ranges, Checked, Scanned, NewCall, IdleCron
<1>3. Alone /\ Seen
  BY DEF Init, Alone, Seen, Handles, NewCall, IdleCron
<1>4. LeaveDaysWereGranted
  BY DEF Init, LeaveDaysWereGranted
<1>5. Marking
  BY DEF Init, Marking, Marked, Complete, NewCall, IdleCron
<1>6. QED
  BY <1>1, <1>2, <1>3, <1>4, <1>5 DEF IInv, Typed

-----------------------------------------------------------------------------
(* What leaves the parts of the invariant alone                            *)

\* A request falls into no more hands than it was in.
LEMMA AloneKept ==
  ASSUME Alone, raced \subseteq raced',
         \A c \in Calls, l \in Requests : Handles(c, l)' => Handles(c, l),
         \A l \in Requests : cron'.req = l \/ l \in cron'.todo =>
                               cron.req = l \/ l \in cron.todo
  PROVE  Alone'
  BY DEF Alone

\* No call goes back on its decision, and a day that comes to read LEAVE was
\* marked by hand or by a call that grants it.
LEMMA GrantedKept ==
  ASSUME LeaveDaysWereGranted,
         \A c \in Calls : call[c].pc \in {"mark", "done", "lost"} =>
           /\ call'[c].pc \in {"mark", "done", "lost"}
           /\ call'[c].req = call[c].req /\ call'[c].status = call[c].status
           /\ call'[c].role = call[c].role
           /\ call'[c].from = call[c].from /\ call'[c].to = call[c].to,
         \A d \in Days :
           \/ attendance'[d] = attendance[d] /\ marker'[d] = marker[d]
           \/ attendance'[d] # "LEAVE"
           \/ marker'[d] = "manual"
           \/ \E c \in Calls :
                /\ call'[c].req = marker'[d] /\ call'[c].status = "APPROVED"
                /\ call'[c].pc \in {"mark", "done", "lost"}
                /\ call'[c].role # "other"
                /\ call'[c].from <= 2 * d /\ 2 * d <= call'[c].to
  PROVE  LeaveDaysWereGranted'
  BY DEF LeaveDaysWereGranted, Decided

\* Days written for a request stay so unless it writes them again.
LEMMA WrittenKept ==
  ASSUME NEW l \in Requests, NEW status, NEW from, NEW to, NEW d,
         Written(l, status, from, to, d),
         leave'[l].start = leave[l].start,
         \A e \in leave[l].start .. d :
           \/ marker'[e] = marker[e] /\ attendance'[e] = attendance[e]
           \/ marker'[e] \notin {l, None}
  PROVE  \A e \in leave'[l].start .. d :
           /\ marker'[e] # None
           /\ marker'[e] = l => attendance'[e] = Verdict(status, from, to, e)
  BY DEF Written

\* The next day is written as decided.
LEMMA WrittenMore ==
  ASSUME NEW l \in Requests, NEW status, NEW from, NEW to, NEW d \in Days,
         leave[l].start \in Int, leave[l].start <= d,
         Written(l, status, from, to, d - 1),
         leave'[l].start = leave[l].start,
         marker \in [Days -> Requests \cup {"manual", None}],
         attendance \in [Days -> {"none", "PRESENT", "ABSENT", "LEAVE"}],
         Upsert(d, Verdict(status, from, to, d), l)
  PROVE  \A e \in leave'[l].start .. d :
           /\ marker'[e] # None
           /\ marker'[e] = l => attendance'[e] = Verdict(status, from, to, e)
<1>0. d \in Int
  BY LeavesAssumption DEF Days
<1>1. \A e \in leave[l].start .. d : e = d \/ e \in leave[l].start .. (d - 1)
  BY <1>0
<1>2. marker'[d] = l /\ attendance'[d] = Verdict(status, from, to, d)
  BY DEF Upsert
<1>3. \A e : e # d => marker'[e] = marker[e] /\ attendance'[e] = attendance[e]
  BY DEF Upsert
<1>4. l # None
  BY LeavesAssumption
<1>5. QED
  BY <1>1, <1>2, <1>3, <1>4 DEF Written

\* What a step does to a request that it is not about.
Elsewhere(l) ==
  /\ leave'[l] = leave[l]
  /\ \A c \in Calls : call[c].req = l \/ call'[c].req = l => call'[c] = call[c]
  /\ cron'.req = l <=> cron.req = l
  /\ cron.req = l => cron'.day = cron.day
  /\ l \in cron'.todo <=> l \in cron.todo
  /\ \A d \in Days :
       \/ marker'[d] = marker[d] /\ attendance'[d] = attendance[d]
       \/ marker'[d] \notin {l, None}

LEMMA ElsewhereMarked ==
  ASSUME Typed, NEW l \in Requests, Marked(l), deaths' = deaths, Elsewhere(l)
  PROVE  Marked(l)'
<1>0. \A d \in leave[l].start .. leave[l].end : d \in Days
  BY LeavesAssumption DEF Typed, TypeOK, Days
<1>1. SUFFICES ASSUME ~Interrupted(l)' PROVE Marked(l)'
  BY DEF Marked
<1>2. ~Interrupted(l)
  BY <1>1 DEF Interrupted, Elsewhere
<1>3. ASSUME NEW status, NEW from, NEW to, NEW d, d <= leave[l].end, d \in Int,
             Written(l, status, from, to, d)
      PROVE  \A e \in leave'[l].start .. d :
               /\ marker'[e] # None
               /\ marker'[e] = l => attendance'[e] = Verdict(status, from, to, e)
  <2>1. \A e \in leave[l].start .. d : e \in Days
    BY <1>0, <1>3, LeavesAssumption DEF Typed, TypeOK, Days
  <2>2. QED
    BY <1>3, <2>1, WrittenKept DEF Elsewhere
<1>4. ASSUME NEW c \in Calls, call'[c].req = l, call'[c].pc = "mark"
      PROVE  /\ leave'[l].status = call'[c].status
             /\ call'[c].status = "APPROVED" => GaveDates(c, l)'
             /\ Written(l, call[c].status, call[c].from, call[c].to, call[c].day - 1)'
  <2>1. call'[c] = call[c] /\ leave'[l] = leave[l]
    BY <1>4 DEF Elsewhere
  <2>2. /\ leave[l].status = call[c].status
        /\ call[c].status = "APPROVED" => GaveDates(c, l)
        /\ Written(l, call[c].status, call[c].from, call[c].to, call[c].day - 1)
    BY <1>2, <1>4, <2>1 DEF Marked
  <2>3. call[c].day - 1 \in Int /\ call[c].day - 1 <= leave[l].end
    BY <1>4, <2>1, LeavesAssumption DEF Typed, TypeOK, Checked, Days
  <2>4. QED
    BY <1>3, <2>1, <2>2, <2>3 DEF GaveDates, Written
<1>5. ASSUME cron'.req = l
      PROVE  /\ leave'[l].status = "REJECTED"
             /\ Written(l, "REJECTED", 0, 0, cron.day - 1)'
  <2>1. cron.req = l /\ cron'.day = cron.day /\ leave'[l] = leave[l]
    BY <1>5 DEF Elsewhere
  <2>2. leave[l].status = "REJECTED" /\ Written(l, "REJECTED", 0, 0, cron.day - 1)
    BY <1>2, <2>1 DEF Marked
  <2>3. cron.day - 1 \in Int /\ cron.day - 1 <= leave[l].end
    BY <2>1, LeavesAssumption DEF Typed, TypeOK, Scanned, Days
  <2>4. QED
    BY <1>3, <2>1, <2>2, <2>3 DEF Written
<1>6. ASSUME ~Handling(l)'
      PROVE  Complete(l)'
  <2>1. ~Handling(l)
    BY <1>6 DEF Handling, Elsewhere
  <2>2. Complete(l) /\ leave'[l] = leave[l] /\ leave[l].end \in Int
    BY <1>2, <2>1, LeavesAssumption DEF Marked, Elsewhere, Typed, TypeOK, Days
  <2>3. ASSUME leave[l].status = "APPROVED"
        PROVE  \E c \in Calls :
                 /\ Decided(c, l)' /\ call'[c].status = "APPROVED" /\ GaveDates(c, l)'
                 /\ Written(l, "APPROVED", call[c].from, call[c].to, leave[l].end)'
    <3>1. PICK c \in Calls :
            /\ Decided(c, l) /\ call[c].status = "APPROVED" /\ GaveDates(c, l)
            /\ Written(l, "APPROVED", call[c].from, call[c].to, leave[l].end)
      BY <2>2, <2>3 DEF Complete
    <3>2. call'[c] = call[c]
      BY <3>1 DEF Elsewhere, Decided
    <3>3. Written(l, "APPROVED", call[c].from, call[c].to, leave[l].end)'
      BY <1>3, <2>2, <3>1, <3>2 DEF Written
    <3>4. QED
      BY <2>2, <3>1, <3>2, <3>3 DEF Decided, GaveDates
  <2>4. ASSUME leave[l].status = "REJECTED"
        PROVE  Written(l, "REJECTED", 0, 0, leave[l].end)'
    BY <1>3, <2>2, <2>4 DEF Complete, Written
  <2>5. QED
    BY <2>2, <2>3, <2>4 DEF Complete
<1>7. QED
  BY <1>4, <1>5, <1>6 DEF Marked

-----------------------------------------------------------------------------
(* The rows that the actions write                                         *)

LeaveRow ==
  [status : Statuses \cup {"absent"}, start : Days, end : Days,
   appStart : Days \cup {NoDay}, appEnd : Days \cup {NoDay}]

CallRow ==
  [pc : {"new", "denied", "decide", "escalate", "mark", "done", "lost"},
   req : Requests \cup {None}, role : Roles, status : Statuses,
   from : Instants, to : Instants, day : Days]

CronRow ==
  [pc : {"idle", "scan", "next", "mark"}, todo : SUBSET Requests,
   req : Requests \cup {None}, day : Days]

RowTypes ==
  /\ leave \in [Requests -> LeaveRow] /\ call \in [Calls -> CallRow]
  /\ cron \in CronRow
  /\ attendance \in [Days -> {"none", "PRESENT", "ABSENT", "LEAVE"}]
  /\ marker \in [Days -> Requests \cup {"manual", None}]
  /\ today \in 0..(Horizon + 1)
  /\ deaths \in 0..MaxDeaths
  /\ raced \in SUBSET Requests

LEMMA RowsTyped == (TypeOK <=> RowTypes) /\ (TypeOK' <=> RowTypes')
  BY DEF TypeOK, RowTypes, LeaveRow, CallRow, CronRow

\* A call that goes to another place keeps what it is about.
LEMMA CallMoves ==
  ASSUME NEW v \in CallRow,
         NEW pc \in {"new", "denied", "decide", "escalate", "mark", "done", "lost"}
  PROVE  LET s == [v EXCEPT !.pc = pc] IN
         /\ s \in CallRow /\ s.pc = pc
         /\ s.req = v.req /\ s.role = v.role /\ s.status = v.status
         /\ s.from = v.from /\ s.to = v.to /\ s.day = v.day
  BY DEF CallRow

\* A new status keeps the dates.
LEMMA StatusMoves ==
  ASSUME NEW v \in LeaveRow, NEW status \in Statuses
  PROVE  LET s == [v EXCEPT !.status = status] IN
         /\ s \in LeaveRow /\ s.status = status
         /\ s.start = v.start /\ s.end = v.end
         /\ s.appStart = v.appStart /\ s.appEnd = v.appEnd
  BY DEF LeaveRow, Statuses

LEMMA HalfADay == \A i \in Instants : DayOf(i) \in Days
  BY LeavesAssumption DEF Instants, Days, DayOf

-----------------------------------------------------------------------------
(* Requests that are created, and days marked by hand                      *)

LEMMA CreateLeaveKeeps ==
  ASSUME IInv, NEW l \in Requests, NEW start \in Days, NEW end \in Days,
         CreateLeave(l, start, end)
  PROVE  IInv'
<1> DEFINE v == [status |-> "PENDING", start |-> start, end |-> end,
                 appStart |-> NoDay, appEnd |-> NoDay]
<1>0. v \in LeaveRow /\ v.status = "PENDING" /\ v.start = start /\ v.end = end
  BY DEF LeaveRow, Statuses
<1>1. /\ leave' = [leave EXCEPT ![l] = v] /\ start <= end
      /\ leave[l].status = "absent"
      /\ UNCHANGED <<attendance, marker, call, cron, today, deaths, raced>>
  BY DEF CreateLeave, clock
<1> HIDE DEF v
<1> USE DEF IInv, Typed
<1>2. leave'[l] = v /\ \A x \in Requests : x # l => leave'[x] = leave[x]
  BY <1>1 DEF TypeOK
<1>3. /\ \A c \in Calls : call[c].pc \in {"decide", "escalate", "mark"} => call[c].req # l
      /\ cron.req # l /\ l \notin cron.todo
  BY <1>1, LeavesAssumption DEF Checked, Scanned
<1>4. TypeOK'
  BY <1>0, <1>1, RowsTyped DEF RowTypes
<1>5. Ranges' /\ Checked' /\ Scanned'
  <2>1. Ranges'
    BY <1>0, <1>1, <1>2 DEF Ranges
  <2>2. Checked'
    BY <1>1, <1>2, <1>3 DEF Checked
  <2>3. Scanned'
    BY <1>1, <1>2, <1>3, RowsTyped DEF Scanned, CronRow, RowTypes
  <2>4. QED
    BY <2>1, <2>2, <2>3
<1>6. Alone'
  BY <1>1, AloneKept DEF Handles
<1>7. Seen'
  BY <1>1, <1>2, <1>3 DEF Seen
<1>8. LeaveDaysWereGranted'
  BY <1>1, GrantedKept
<1>9. ASSUME NEW x \in Requests \ raced'
      PROVE  Marked(x)'
  <2>1. CASE x # l
    BY <1>1, <1>2, <2>1, ElsewhereMarked DEF Elsewhere, Marking
  <2>2. CASE x = l
    BY <1>0, <1>1, <1>2, <1>3, <2>2 DEF Marked, Complete
  <2>3. QED
    BY <2>1, <2>2
<1>10. QED
  BY <1>4, <1>5, <1>6, <1>7, <1>8, <1>9 DEF Marking

LEMMA MarkAttendanceKeeps ==
  ASSUME IInv, NEW d \in Days, NEW status \in Marks, MarkAttendance(d, status)
  PROVE  IInv'
<1> USE DEF IInv, Typed
<1>1. /\ attendance' = [attendance EXCEPT ![d] = status]
      /\ marker' = [marker EXCEPT ![d] = "manual"]
      /\ UNCHANGED <<leave, call, cron, today, deaths, raced>>
  BY DEF MarkAttendance, Upsert, clock
<1>2. \A e \in Days : \/ attendance'[e] = attendance[e] /\ marker'[e] = marker[e]
                      \/ marker'[e] = "manual"
  BY <1>1 DEF TypeOK
<1>3. TypeOK'
  BY <1>1, LeavesAssumption DEF TypeOK
<1>4. Ranges' /\ Checked' /\ Scanned'
  BY <1>1 DEF Ranges, Checked, Scanned
<1>5. Alone' /\ Seen'
  BY <1>1 DEF Alone, Seen, Handles
<1>6. LeaveDaysWereGranted'
  BY <1>1, <1>2, GrantedKept
<1>7. ASSUME NEW x \in Requests \ raced'
      PROVE  Marked(x)'
  BY <1>1, <1>2, ElsewhereMarked, LeavesAssumption DEF Elsewhere, Marking
<1>8. QED
  BY <1>3, <1>4, <1>5, <1>6, <1>7 DEF Marking

-----------------------------------------------------------------------------
(* Calls that take a request up, or do not                                 *)

\* A call that was refused handles nothing.
LEMMA RefusalKeeps ==
  ASSUME IInv, NEW c \in Calls, call[c].pc = "new",
         call' = [call EXCEPT ![c].pc = "denied"],
         UNCHANGED <<leave, attendance, marker, cron, today, deaths, raced>>
  PROVE  IInv'
<1> DEFINE v == [call[c] EXCEPT !.pc = "denied"]
<1> USE DEF IInv, Typed
<1>1. call' = [call EXCEPT ![c] = v]
  OBVIOUS
<1>2. v \in CallRow /\ v.pc = "denied" /\ v.req = call[c].req
  BY ZenonT(30), RowsTyped, CallMoves DEF RowTypes
<1> HIDE DEF v
<1>3. call'[c] = v /\ \A d \in Calls : d # c => call'[d] = call[d]
  BY <1>1 DEF TypeOK
<1>4. TypeOK'
  BY <1>1, <1>2, RowsTyped DEF RowTypes
<1>5. Ranges' /\ Checked' /\ Scanned'
  BY <1>2, <1>3 DEF Ranges, Checked, Scanned
<1>6. Alone'
  BY <1>2, <1>3, AloneKept DEF Handles
<1>7. Seen'
  BY <1>2, <1>3 DEF Seen
<1>8. LeaveDaysWereGranted'
  BY <1>2, <1>3, GrantedKept
<1>9. ASSUME NEW x \in Requests \ raced'
      PROVE  Marked(x)'
  <2>1. \A d \in Calls : Decided(d, x)' <=> Decided(d, x)
    BY <1>2, <1>3 DEF Decided
  <2>2. Handling(x)' <=> Handling(x)
    BY <1>2, <1>3 DEF Handling
  <2>3. Interrupted(x)' <=> Interrupted(x)
    BY <1>2, <1>3 DEF Interrupted
  <2>4. \A d \in Calls : call'[d].pc = "mark" => d # c
    BY <1>2, <1>3
  <2>5. Complete(x)' <=> Complete(x)
    <3>1. \A d \in Calls : Decided(d, x) => call'[d] = call[d]
      BY <1>3 DEF Decided
    <3>2. QED
      BY <2>1, <3>1 DEF Complete, GaveDates, Written
  <2>6. QED
    BY <1>3, <2>2, <2>3, <2>4, <2>5 DEF Marking, Marked, GaveDates, Written
<1>10. QED
  BY <1>4, <1>5, <1>6, <1>7, <1>8, <1>9 DEF Marking

\* A request is taken up by one call: if it was in other hands it is raced.
LEMMA TakeUpKeeps ==
  ASSUME IInv, NEW c \in Calls, NEW l \in Requests, NEW v \in CallRow,
         call[c].pc = "new", call' = [call EXCEPT ![c] = v],
         v.req = l, v.pc \in {"decide", "escalate"}, leave[l].status # "absent",
         v.pc = "decide" => /\ v.role # "other" /\ v.day = leave[l].start
                            /\ v.role = "incharge" => leave[l].status # "ESCALATED",
         v.pc = "escalate" => leave[l].status = "REJECTED",
         Enter({l}), UNCHANGED <<leave, attendance, marker, cron, today, deaths>>
  PROVE  IInv'
<1> USE DEF IInv, Typed
<1>1. call'[c] = v /\ \A d \in Calls : d # c => call'[d] = call[d]
  BY DEF TypeOK
<1>2. raced \subseteq raced' /\ raced' \subseteq Requests
  BY DEF Enter, TypeOK
<1>3. l \notin raced' => ~Handling(l)
  BY DEF Enter
<1>4. TypeOK'
  BY <1>2, RowsTyped DEF RowTypes
<1>5. Ranges' /\ Checked' /\ Scanned'
  BY <1>1 DEF Ranges, Checked, Scanned
<1>6. Alone'
  <2> SUFFICES ASSUME NEW x \in Requests \ raced'
               PROVE  /\ \A a, d \in Calls : Handles(a, x)' /\ Handles(d, x)' => a = d
                      /\ \A a \in Calls : Handles(a, x)' => cron.req # x /\ x \notin cron.todo
    BY DEF Alone
  <2>1. CASE x # l
    <3>1. \A d \in Calls : Handles(d, x)' => Handles(d, x)
      BY <1>1, <2>1 DEF Handles
    <3>2. QED
      BY <1>2, <3>1 DEF Alone
  <2>2. CASE x = l
    <3>1. \A d \in Calls : Handles(d, x)' => d = c
      BY <1>1, <1>3, <2>2 DEF Handling, Handles
    <3>2. QED
      BY <1>3, <2>2, <3>1 DEF Handling
  <2>3. QED
    BY <2>1, <2>2
<1>7. Seen'
  BY <1>1, <1>2 DEF Seen
<1>8. LeaveDaysWereGranted'
  BY <1>1, GrantedKept
<1>9. ASSUME NEW x \in Requests \ raced'
      PROVE  Marked(x)'
  <2>1. CASE x # l
    <3>1. \A d \in Calls : Decided(d, x)' <=> Decided(d, x)
      BY <1>1, <2>1 DEF Decided
    <3>2. Handling(x)' <=> Handling(x)
      BY <1>1, <2>1 DEF Handling
    <3>3. Interrupted(x)' <=> Interrupted(x)
      BY <1>1, <2>1 DEF Interrupted
    <3>4. \A d \in Calls : call'[d].pc = "mark" => d # c
      BY <1>1
    <3>5. Complete(x)' <=> Complete(x)
      <4>1. \A d \in Calls : Decided(d, x) => call'[d] = call[d]
        BY <1>1 DEF Decided
      <4>2. QED
        BY <3>1, <4>1 DEF Complete, GaveDates, Written
    <3>6. QED
      BY <1>1, <1>2, <3>2, <3>3, <3>4, <3>5 DEF Marking, Marked, GaveDates, Written
  <2>2. CASE x = l
    BY <1>1, <1>3, <2>2 DEF Marked, Handling
  <2>3. QED
    BY <2>1, <2>2
<1>10. QED
  BY <1>4, <1>5, <1>6, <1>7, <1>8, <1>9 DEF Marking

LEMMA CheckKeeps ==
  ASSUME IInv, NEW c \in Calls, NEW l \in Requests,
         \/ \E role \in Roles, status \in Statuses, from, to \in Instants :
              CheckDecision(c, l, role, status, from, to)
         \/ CheckEscalation(c, l)
  PROVE  IInv'
<1> USE DEF clock
<1>1. CASE call' = [call EXCEPT ![c].pc = "denied"] /\ UNCHANGED raced
  BY <1>1, RefusalKeeps DEF CheckDecision, CheckEscalation
<1>2. ASSUME NEW role \in Roles, NEW status \in Statuses, NEW from \in Instants,
             NEW to \in Instants, CheckDecision(c, l, role, status, from, to),
             ~(call' = [call EXCEPT ![c].pc = "denied"] /\ UNCHANGED raced)
      PROVE  IInv'
  <2> DEFINE v == [pc |-> "decide", req |-> l, role |-> role, status |-> status,
                   from |-> IF status = "APPROVED" THEN from ELSE 0,
                   to |-> IF status = "APPROVED" THEN to ELSE 0,
                   day |-> leave[l].start]
  <2>1. leave[l].start \in Days /\ 0 \in Instants
    BY LeavesAssumption DEF IInv, Typed, TypeOK, Instants
  <2>2. /\ v \in CallRow /\ v.pc = "decide" /\ v.req = l /\ v.role = role
        /\ v.day = leave[l].start
    BY <2>1 DEF CallRow
  <2>3. /\ call[c].pc = "new" /\ call' = [call EXCEPT ![c] = v] /\ Enter({l})
        /\ UNCHANGED <<leave, attendance, marker, cron, today, deaths>>
    BY <1>2 DEF CheckDecision
  <2>4. /\ leave[l].status # "absent" /\ role # "other"
        /\ role = "incharge" => leave[l].status # "ESCALATED"
    BY <1>2 DEF CheckDecision, Authorized
  <2> HIDE DEF v
  <2>5. QED
    BY <2>2, <2>3, <2>4, TakeUpKeeps
<1>3. ASSUME CheckEscalation(c, l),
             ~(call' = [call EXCEPT ![c].pc = "denied"] /\ UNCHANGED raced)
      PROVE  IInv'
  <2> DEFINE v == [NewCall EXCEPT !.pc = "escalate", !.req = l]
  <2>1. v \in CallRow /\ v.pc = "escalate" /\ v.req = l
    <3>1. NewCall \in CallRow
      BY LeavesAssumption DEF CallRow, NewCall, Roles, Statuses, Instants, Days
    <3>2. QED
      BY <3>1 DEF CallRow
  <2>2. /\ call[c].pc = "new" /\ call' = [call EXCEPT ![c] = v] /\ Enter({l})
        /\ leave[l].status = "REJECTED"
        /\ UNCHANGED <<leave, attendance, marker, cron, today, deaths>>
    BY <1>3 DEF CheckEscalation
  <2> HIDE DEF v
  <2>3. QED
    BY <2>1, <2>2, TakeUpKeeps
<1>4. QED
  BY <1>1, <1>2, <1>3

-----------------------------------------------------------------------------
(* Calls that write                                                        *)

\* A write of request l that keeps its dates disturbs what is known of l only.
LEMMA RowTyped ==
  ASSUME Typed, NEW l \in Requests, NEW w \in LeaveRow,
         leave' = [leave EXCEPT ![l] = w],
         w.start = leave[l].start, w.end = leave[l].end, w.status # "absent"
  PROVE  /\ leave' \in [Requests -> LeaveRow]
         /\ Ranges'
         /\ \A x \in Requests :
              /\ leave'[x].start = leave[x].start /\ leave'[x].end = leave[x].end
              /\ leave[x].status # "absent" => leave'[x].status # "absent"
              /\ x # l => leave'[x] = leave[x]
  BY RowsTyped DEF Typed, RowTypes, Ranges

LEMMA WriteDecisionKeeps ==
  ASSUME IInv, NEW c \in Calls, NEW l \in Requests, call[c].req = l,
         WriteDecision(c)
  PROVE  IInv'
<1> USE DEF IInv, Typed
<1> DEFINE approved == call[c].status = "APPROVED"
           w == [leave[l] EXCEPT
                   !.status = call[c].status,
                   !.appStart = IF approved THEN DayOf(call[c].from) ELSE NoDay,
                   !.appEnd = IF approved THEN DayOf(call[c].to) ELSE NoDay]
           place == IF call[c].status \in Open THEN "done" ELSE "mark"
           v == [call[c] EXCEPT !.pc = place]
<1>1. /\ call[c].pc = "decide" /\ leave[l].status # "absent"
      /\ call[c].role # "other" /\ call[c].day = leave[l].start
      /\ call[c].status \in Statuses /\ leave[l].start <= leave[l].end
      /\ call[c] \in CallRow /\ leave[l] \in LeaveRow
      /\ DayOf(call[c].from) \in Days /\ DayOf(call[c].to) \in Days
  BY HalfADay, RowsTyped DEF WriteDecision, Checked, Ranges, TypeOK, RowTypes
<1>2. /\ call' = [call EXCEPT ![c] = v]
      /\ UNCHANGED <<attendance, marker, cron, today, deaths, raced>>
  BY DEF WriteDecision, clock
<1>3. leave' = [leave EXCEPT ![l] = w]
  BY DEF WriteDecision, TypeOK
<1>4. /\ w \in LeaveRow /\ w.status = call[c].status
      /\ w.start = leave[l].start /\ w.end = leave[l].end
      /\ approved => /\ w.appStart = DayOf(call[c].from)
                     /\ w.appEnd = DayOf(call[c].to)
  BY <1>1 DEF LeaveRow
<1>5. /\ v \in CallRow /\ v.pc = place /\ v.req = l
      /\ v.role = call[c].role /\ v.status = call[c].status
      /\ v.from = call[c].from /\ v.to = call[c].to /\ v.day = call[c].day
  <2>1. place \in {"done", "mark"}
    OBVIOUS
  <2>2. call[c] \in CallRow /\ call[c].req = l
    BY <1>1
  <2>3. CASE place = "done"
    <3>1. v = [call[c] EXCEPT !.pc = "done"]
      BY <2>3
    <3> HIDE DEF v, place
    <3>2. QED
      BY <2>2, <2>3, <3>1, CallMoves
  <2>4. CASE place = "mark"
    <3>1. v = [call[c] EXCEPT !.pc = "mark"]
      BY <2>4
    <3> HIDE DEF v, place
    <3>2. QED
      BY <2>2, <2>4, <3>1, CallMoves
  <2>5. QED
    BY <2>1, <2>3, <2>4
<1> HIDE DEF w, v
<1>6. /\ call'[c] = v /\ \A d \in Calls : d # c => call'[d] = call[d]
      /\ leave'[l] = w
  BY <1>2, <1>3 DEF TypeOK
<1>7. w.status # "absent"
  BY <1>1, <1>4 DEF Statuses
<1>8. /\ leave' \in [Requests -> LeaveRow] /\ Ranges'
      /\ \A x \in Requests :
           /\ leave'[x].start = leave[x].start /\ leave'[x].end = leave[x].end
           /\ leave[x].status # "absent" => leave'[x].status # "absent"
           /\ x # l => leave'[x] = leave[x]
  BY <1>3, <1>4, <1>7, RowTyped
<1>9. TypeOK'
  BY <1>2, <1>5, <1>8, RowsTyped DEF RowTypes
<1>10. Checked'
  <2>1. ASSUME NEW d \in Calls, d # c
        PROVE  Checked!(d)'
    <3>1. call'[d] = call[d]
      BY <1>6, <2>1
    <3>2. QED
      BY <1>8, <3>1 DEF Checked
  <2>2. Checked!(c)'
    <3>1. v.pc = "mark" => call[c].status \notin Open
      BY <1>5
    <3>2. v.pc \in {"done", "mark"}
      BY <1>5
    <3>3. /\ call'[c].pc = v.pc /\ call'[c].req = l
          /\ call'[c].role # "other" /\ call'[c].status = call[c].status
          /\ call'[c].day = leave[l].start
      BY <1>1, <1>5, <1>6
    <3>4. /\ leave'[l].status # "absent" /\ leave'[l].start = leave[l].start
          /\ leave'[l].start <= leave'[l].end /\ leave[l].start <= leave[l].start
      BY <1>1, <1>8, LeavesAssumption DEF LeaveRow, Days
    <3> HIDE DEF place
    <3>5. QED
      BY <3>1, <3>2, <3>3, <3>4
  <2>3. QED
    BY <2>1, <2>2 DEF Checked
<1>11. Scanned'
  BY <1>2, <1>8 DEF Scanned, TypeOK
<1>12. Alone'
  BY <1>1, <1>2, <1>5, <1>6, AloneKept DEF Handles
<1>13. Seen'
  BY <1>1, <1>2, <1>5, <1>6, <1>8 DEF Seen, Alone, Handles
<1>14. LeaveDaysWereGranted'
  BY <1>1, <1>2, <1>6, GrantedKept
<1>15. ASSUME NEW x \in Requests \ raced'
       PROVE  Marked(x)'
  <2>1. CASE x # l
    BY <1>2, <1>5, <1>6, <1>8, <2>1, ElsewhereMarked DEF Elsewhere, Marking
  <2>2. CASE x = l
    <3>1. /\ \A d \in Calls : call'[d].req = l /\ call'[d].pc = "mark" => d = c
          /\ cron.req # l /\ l \notin cron.todo
      BY <1>1, <1>2, <1>6, <2>2 DEF Alone, Handles
    <3>2. ASSUME place = "mark"
          PROVE  /\ leave'[l].status = call'[c].status
                 /\ call'[c].status = "APPROVED" => GaveDates(c, l)'
                 /\ Written(l, call[c].status, call[c].from, call[c].to, call[c].day - 1)'
      <4>1. leave[l].start .. (leave[l].start - 1) = {}
        BY <1>1, LeavesAssumption DEF LeaveRow, Days
      <4>2. QED
        BY <1>1, <1>4, <1>5, <1>6, <1>8, <4>1 DEF GaveDates, Written
    <3>3. place = "mark" => Handling(l)'
      BY <1>5, <1>6 DEF Handling
    <3>4. place # "mark" => Complete(l)'
      BY <1>4, <1>6 DEF Complete, Open
    <3>5. QED
      BY <1>2, <1>5, <1>6, <2>2, <3>1, <3>2, <3>3, <3>4 DEF Marked
  <2>3. QED
    BY <2>1, <2>2
<1>16. QED
  BY <1>8, <1>9, <1>10, <1>11, <1>12, <1>13, <1>14, <1>15 DEF Marking

LEMMA WriteEscalationKeeps ==
  ASSUME IInv, NEW c \in Calls, NEW l \in Requests, call[c].req = l,
         WriteEscalation(c)
  PROVE  IInv'
<1> USE DEF IInv, Typed
<1> DEFINE w == [leave[l] EXCEPT !.status = "ESCALATED"]
           v == [call[c] EXCEPT !.pc = "done"]
<1>1. /\ call[c].pc = "escalate" /\ leave[l].status # "absent"
      /\ call[c] \in CallRow /\ leave[l] \in LeaveRow
  BY RowsTyped DEF WriteEscalation, Checked, RowTypes
<1>2. /\ call' = [call EXCEPT ![c] = v] /\ leave' = [leave EXCEPT ![l] = w]
      /\ UNCHANGED <<attendance, marker, cron, today, deaths, raced>>
  BY DEF WriteEscalation, clock
<1>3. /\ w \in LeaveRow /\ w.status = "ESCALATED"
      /\ w.start = leave[l].start /\ w.end = leave[l].end
  BY <1>1, StatusMoves DEF Statuses
<1>4. v \in CallRow /\ v.pc = "done" /\ v.req = l
  BY <1>1, CallMoves
<1> HIDE DEF w, v
<1>5. /\ call'[c] = v /\ \A d \in Calls : d # c => call'[d] = call[d]
      /\ leave'[l] = w
  BY <1>2 DEF TypeOK
<1>6. /\ leave' \in [Requests -> LeaveRow] /\ Ranges'
      /\ \A x \in Requests :
           /\ leave'[x].start = leave[x].start /\ leave'[x].end = leave[x].end
           /\ leave[x].status # "absent" => leave'[x].status # "absent"
           /\ x # l => leave'[x] = leave[x]
  BY <1>2, <1>3, RowTyped
<1>7. TypeOK'
  BY <1>2, <1>4, <1>6, RowsTyped DEF RowTypes
<1>8. Checked'
  BY <1>4, <1>5, <1>6 DEF Checked
<1>9. Scanned'
  BY <1>2, <1>6 DEF Scanned, TypeOK
<1>10. Alone'
  BY <1>2, <1>4, <1>5, AloneKept DEF Handles
<1>11. Seen'
  BY <1>1, <1>2, <1>4, <1>5, <1>6 DEF Seen, Alone, Handles
<1>12. LeaveDaysWereGranted'
  BY <1>1, <1>2, <1>5, GrantedKept
<1>13. ASSUME NEW x \in Requests \ raced'
       PROVE  Marked(x)'
  <2>1. CASE x # l
    BY <1>2, <1>4, <1>5, <1>6, <2>1, ElsewhereMarked DEF Elsewhere, Marking
  <2>2. CASE x = l
    <3>1. /\ \A d \in Calls : ~(call'[d].req = l /\ call'[d].pc = "mark")
          /\ cron.req # l
      BY <1>1, <1>2, <1>4, <1>5, <2>2 DEF Alone, Handles
    <3>2. QED
      BY <1>2, <1>3, <1>5, <2>2, <3>1 DEF Marked, Complete
  <2>3. QED
    BY <2>1, <2>2
<1>14. QED
  BY <1>6, <1>7, <1>8, <1>9, <1>10, <1>11, <1>12, <1>13 DEF Marking

LEMMA AbandonCallKeeps ==
  ASSUME IInv, NEW c \in Calls, AbandonCall(c)
  PROVE  IInv'
<1> USE DEF IInv, Typed
<1> DEFINE v == [call[c] EXCEPT !.pc = "lost"]
<1>1. /\ call[c].pc \in {"decide", "escalate", "mark"} /\ call[c] \in CallRow
      /\ call' = [call EXCEPT ![c] = v]
      /\ UNCHANGED <<leave, attendance, marker, cron, today, deaths, raced>>
  BY RowsTyped DEF AbandonCall, clock, RowTypes
<1>2. /\ v \in CallRow /\ v.pc = "lost" /\ v.req = call[c].req
      /\ v.role = call[c].role /\ v.status = call[c].status
      /\ v.from = call[c].from /\ v.to = call[c].to
  BY <1>1, CallMoves
<1> HIDE DEF v
<1>3. call'[c] = v /\ \A d \in Calls : d # c => call'[d] = call[d]
  BY <1>1 DEF TypeOK
<1>4. TypeOK'
  BY <1>1, <1>2, RowsTyped DEF RowTypes
<1>5. Ranges' /\ Checked' /\ Scanned'
  BY <1>1, <1>2, <1>3 DEF Ranges, Checked, Scanned
<1>6. Alone'
  BY <1>1, <1>2, <1>3, AloneKept DEF Handles
<1>7. Seen'
  BY <1>1, <1>2, <1>3 DEF Seen
<1>8. LeaveDaysWereGranted'
  BY <1>1, <1>2, <1>3, GrantedKept
<1>9. ASSUME NEW x \in Requests \ raced'
      PROVE  Marked(x)'
  <2>1. CASE call[c].req # x
    BY <1>1, <1>2, <1>3, <2>1, ElsewhereMarked DEF Elsewhere, Marking
  <2>2. CASE call[c].req = x
    BY <1>2, <1>3, <2>2 DEF Marked, Interrupted
  <2>3. QED
    BY <2>1, <2>2
<1>10. QED
  BY <1>4, <1>5, <1>6, <1>7, <1>8, <1>9 DEF Marking

\* A day that is marked is the next one of a request that is gone through.
LEMMA MarkDayKeeps ==
  ASSUME IInv, NEW c \in Calls, NEW l \in Requests, call[c].req = l, MarkDay(c)
  PROVE  IInv'
<1> USE DEF IInv, Typed
<1> DEFINE d == call[c].day
           v == IF d < leave[l].end THEN [call[c] EXCEPT !.day = @ + 1]
                                    ELSE [call[c] EXCEPT !.pc = "done"]
           status == Verdict(call[c].status, call[c].from, call[c].to, d)
<1>1. /\ call[c].pc = "mark" /\ leave[l].status # "absent"
      /\ call[c].role # "other" /\ call[c].status \notin Open
      /\ leave[l].start <= d /\ d <= leave[l].end
      /\ call[c] \in CallRow /\ leave[l] \in LeaveRow /\ d \in Days
      /\ d \in Int /\ leave[l].start \in Int /\ leave[l].end \in Int
  BY SMTT(30), RowsTyped, LeavesAssumption DEF MarkDay, Checked, RowTypes, TypeOK, Days
<1>2. /\ call' = [call EXCEPT ![c] = v]
      /\ UNCHANGED <<leave, cron, today, deaths, raced>>
  BY DEF MarkDay, clock
<1>3. Upsert(d, status, l)
  BY DEF MarkDay, Verdict
<1>4. /\ v \in CallRow /\ v.req = l /\ v.role = call[c].role
      /\ v.status = call[c].status /\ v.from = call[c].from /\ v.to = call[c].to
      /\ \/ v.pc = "mark" /\ v.day = d + 1 /\ d + 1 <= leave[l].end
         \/ v.pc = "done" /\ d = leave[l].end
  <2>1. CASE d < leave[l].end
    <3>1. d + 1 \in Days /\ d + 1 <= leave[l].end
      BY <1>1, <2>1, LeavesAssumption DEF LeaveRow, Days
    <3>2. QED
      BY <1>1, <2>1, <3>1 DEF CallRow
  <2>2. CASE ~(d < leave[l].end)
    <3>1. v = [call[c] EXCEPT !.pc = "done"]
      BY <2>2
    <3> HIDE DEF v
    <3>2. d = leave[l].end
      BY <1>1, <2>2
    <3>3. QED
      BY <1>1, <3>1, <3>2, CallMoves
  <2>3. QED
    BY <2>1, <2>2
<1> HIDE DEF v
<1>5. call'[c] = v /\ \A b \in Calls : b # c => call'[b] = call[b]
  BY <1>2 DEF TypeOK
<1>6. /\ attendance'[d] = status /\ marker'[d] = l
      /\ \A e \in Days : e # d =>
           attendance'[e] = attendance[e] /\ marker'[e] = marker[e]
  BY <1>1, <1>3 DEF Upsert, TypeOK
<1>7. TypeOK'
  <2>1. status \in {"none", "PRESENT", "ABSENT", "LEAVE"}
    BY DEF Verdict
  <2> HIDE DEF status
  <2>2. QED
    BY <1>1, <1>2, <1>3, <1>4, <2>1, RowsTyped DEF RowTypes, Upsert
<1>8. Ranges' /\ Scanned'
  BY <1>2 DEF Ranges, Scanned
<1>9. Checked'
  BY <1>1, <1>2, <1>4, <1>5 DEF Checked
<1>10. Alone'
  BY <1>1, <1>2, <1>4, <1>5, AloneKept DEF Handles
<1>11. Seen'
  BY <1>1, <1>2, <1>4, <1>5 DEF Seen
<1>12. LeaveDaysWereGranted'
  <2>1. ASSUME attendance'[d] = "LEAVE"
        PROVE  /\ call'[c].req = marker'[d] /\ call'[c].status = "APPROVED"
               /\ call'[c].pc \in {"mark", "done", "lost"}
               /\ call'[c].role # "other"
               /\ call'[c].from <= 2 * d /\ 2 * d <= call'[c].to
    BY <1>1, <1>4, <1>5, <1>6, <2>1 DEF Verdict, Granted
  <2> HIDE DEF d
  <2>2. \A e \in Days :
          \/ attendance'[e] = attendance[e] /\ marker'[e] = marker[e]
          \/ attendance'[e] # "LEAVE"
          \/ \E b \in Calls :
               /\ call'[b].req = marker'[e] /\ call'[b].status = "APPROVED"
               /\ call'[b].pc \in {"mark", "done", "lost"}
               /\ call'[b].role # "other"
               /\ call'[b].from <= 2 * e /\ 2 * e <= call'[b].to
    BY <1>6, <2>1
  <2>3. \A b \in Calls : call[b].pc \in {"mark", "done", "lost"} =>
           /\ call'[b].pc \in {"mark", "done", "lost"}
           /\ call'[b].req = call[b].req /\ call'[b].status = call[b].status
           /\ call'[b].role = call[b].role
           /\ call'[b].from = call[b].from /\ call'[b].to = call[b].to
    BY <1>4, <1>5
  <2>4. QED
    BY <2>2, <2>3, GrantedKept
<1>13. ASSUME NEW x \in Requests \ raced'
       PROVE  Marked(x)'
  <2>1. CASE x # l
    <3>1. \A e \in Days : \/ marker'[e] = marker[e] /\ attendance'[e] = attendance[e]
                          \/ marker'[e] \notin {x, None}
      BY <1>6, <2>1, LeavesAssumption
    <3>2. QED
      BY <1>2, <1>4, <1>5, <2>1, <3>1, ElsewhereMarked DEF Elsewhere, Marking
  <2>2. CASE x = l
    <3> SUFFICES ASSUME ~Interrupted(l)' PROVE Marked(l)'
      BY <2>2 DEF Marked
    <3>1. /\ \A b \in Calls : call'[b].req = l /\ call'[b].pc = "mark" => b = c
          /\ cron.req # l /\ l \notin cron.todo
      BY <1>1, <1>2, <1>5, <2>2 DEF Alone, Handles
    <3>2. ~Interrupted(l)
      BY <1>1, <1>2, <1>5 DEF Interrupted
    <3>3. /\ leave[l].status = call[c].status
          /\ call[c].status = "APPROVED" => GaveDates(c, l)
          /\ Written(l, call[c].status, call[c].from, call[c].to, d - 1)
      BY <1>1, <1>2, <2>2, <3>2 DEF Marking, Marked
    <3>4. \A e \in leave'[l].start .. d :
            /\ marker'[e] # None
            /\ marker'[e] = l =>
                 attendance'[e] = Verdict(call[c].status, call[c].from, call[c].to, e)
      BY <1>1, <1>2, <1>3, <3>3, WrittenMore DEF TypeOK
    <3>5. CASE v.pc = "mark" /\ v.day = d + 1
      <4>1. v.day - 1 = d
        BY <1>1, <3>5
      <4>2. Written(l, call[c].status, call[c].from, call[c].to, call[c].day - 1)'
        BY <1>4, <1>5, <3>4, <4>1 DEF Written
      <4>3. Handling(l)'
        BY <1>4, <1>5, <3>5 DEF Handling
      <4>4. QED
        BY <1>2, <1>4, <1>5, <3>1, <3>3, <4>2, <4>3 DEF Marked, GaveDates
    <3>6. CASE v.pc = "done" /\ d = leave[l].end
      <4>1. Written(l, call[c].status, call[c].from, call[c].to, leave[l].end)'
        BY <1>2, <1>4, <1>5, <3>4, <3>6 DEF Written
      <4>2. call[c].status = "APPROVED" =>
              /\ Decided(c, l)' /\ call'[c].status = "APPROVED" /\ GaveDates(c, l)'
              /\ Written(l, "APPROVED", call[c].from, call[c].to, leave[l].end)'
        BY <1>2, <1>4, <1>5, <3>3, <3>6, <4>1 DEF Decided, GaveDates, Written
      <4>3. call[c].status = "REJECTED" => Written(l, "REJECTED", 0, 0, leave[l].end)'
        BY <1>4, <1>5, <4>1 DEF Written, Verdict
      <4>4. Complete(l)'
        BY <1>2, <3>3, <4>2, <4>3 DEF Complete
      <4>5. QED
        BY <1>2, <1>5, <3>1, <3>6, <4>4 DEF Marked
    <3>7. QED
      BY <1>4, <3>5, <3>6
  <2>3. QED
    BY <2>1, <2>2
<1>14. QED
  BY <1>7, <1>8, <1>9, <1>10, <1>11, <1>12, <1>13 DEF Marking

-----------------------------------------------------------------------------
(* The cron                                                                *)

LEMMA MidnightKeeps ==
  ASSUME IInv, Midnight
  PROVE  IInv'
<1> USE DEF IInv, Typed
<1> DEFINE v == [cron EXCEPT !.pc = "scan"]
<1>1. /\ cron.pc = "idle" /\ cron \in CronRow /\ cron' = v
      /\ today' \in 0..(Horizon + 1)
      /\ UNCHANGED <<leave, attendance, marker, call, deaths, raced>>
  BY RowsTyped, LeavesAssumption DEF Midnight, RowTypes
<1>2. /\ v \in CronRow /\ v.pc = "scan" /\ v.todo = cron.todo
      /\ v.req = cron.req /\ v.day = cron.day
  BY <1>1 DEF CronRow
<1> HIDE DEF v
<1>3. TypeOK'
  BY <1>1, <1>2, RowsTyped DEF RowTypes
<1>4. Ranges' /\ Checked' /\ Scanned'
  BY <1>1, <1>2 DEF Ranges, Checked, Scanned
<1>5. Alone' /\ Seen'
  BY <1>1, <1>2 DEF Alone, Seen, Handles
<1>6. LeaveDaysWereGranted'
  BY <1>1, GrantedKept
<1>7. ASSUME NEW x \in Requests \ raced'
      PROVE  Marked(x)'
  BY <1>1, <1>2, ElsewhereMarked DEF Elsewhere, Marking
<1>8. QED
  BY <1>3, <1>4, <1>5, <1>6, <1>7 DEF Marking

LEMMA CronScanKeeps ==
  ASSUME IInv, CronScan
  PROVE  IInv'
<1> USE DEF IInv, Typed
<1> DEFINE found == {l \in Requests : Expired(l)}
<1>1. /\ cron.pc = "scan" /\ cron.todo = {} /\ cron.req = None
      /\ Enter(found)
      /\ UNCHANGED <<leave, attendance, marker, call, today, deaths>>
  BY DEF CronScan, Scanned, clock
<1>2. /\ cron' \in CronRow /\ cron'.todo = found /\ cron'.req = None
      /\ cron'.pc \in {"idle", "next"}
      /\ cron'.pc = "idle" => found = {}
  <2>1. IdleCron \in CronRow
    BY LeavesAssumption DEF IdleCron, CronRow, Days
  <2>2. QED
    BY <2>1 DEF CronScan, IdleCron, CronRow
<1>3. raced' = raced \cup {l \in found : Handling(l)}
  BY <1>1 DEF Enter
<1>4. \A l \in found : l \in Requests /\ leave[l].status \in Open
  BY DEF Expired
<1> HIDE DEF found
<1>5. TypeOK'
  BY <1>1, <1>2, <1>3, <1>4, RowsTyped DEF RowTypes
<1>6. Ranges' /\ Checked' /\ Scanned'
  BY <1>1, <1>2, <1>4 DEF Ranges, Checked, Scanned, Open
<1>7. Alone'
  <2> SUFFICES ASSUME NEW x \in Requests \ raced'
               PROVE  /\ \A c, d \in Calls : Handles(c, x)' /\ Handles(d, x)' => c = d
                      /\ \A c \in Calls : Handles(c, x)' =>
                           cron'.req # x /\ x \notin cron'.todo
    BY DEF Alone
  <2>1. \A c \in Calls : Handles(c, x)' => Handles(c, x)
    BY <1>1 DEF Handles
  <2>2. \A c \in Calls : Handles(c, x) => x \notin found
    BY <1>3 DEF Handling, Handles
  <2>3. QED
    BY <1>2, <1>3, <2>1, <2>2, LeavesAssumption DEF Alone
<1>8. Seen'
  BY <1>1, <1>2, <1>3, <1>4 DEF Seen
<1>9. LeaveDaysWereGranted'
  BY <1>1, GrantedKept
<1>10. ASSUME NEW x \in Requests \ raced'
       PROVE  Marked(x)'
  <2>1. CASE x \in found
    <3>1. \A c \in Calls : ~(call[c].req = x /\ call[c].pc = "mark")
      BY <1>3, <2>1 DEF Handling
    <3>2. cron'.req # x /\ Handling(x)'
      BY <1>2, <2>1, LeavesAssumption DEF Handling
    <3>3. QED
      BY <1>1, <3>1, <3>2 DEF Marked
  <2>2. CASE x \notin found
    BY <1>1, <1>2, <1>3, <2>2, ElsewhereMarked, LeavesAssumption
    DEF Elsewhere, Marking
  <2>3. QED
    BY <2>1, <2>2
<1>11. QED
  BY <1>5, <1>6, <1>7, <1>8, <1>9, <1>10 DEF Marking

LEMMA CronRejectKeeps ==
  ASSUME IInv, NEW l \in Requests, CronReject(l)
  PROVE  IInv'
<1> USE DEF IInv, Typed
<1> DEFINE w == [leave[l] EXCEPT !.status = "REJECTED"]
           v == [pc |-> "mark", todo |-> cron.todo \ {l}, req |-> l,
                 day |-> leave[l].start]
<1>1. /\ cron.pc = "next" /\ l \in cron.todo /\ cron.req = None
      /\ cron' = v /\ leave' = [leave EXCEPT ![l] = w]
      /\ UNCHANGED <<attendance, marker, call, today, deaths, raced>>
      /\ leave[l] \in LeaveRow /\ cron.todo \subseteq Requests
  BY RowsTyped DEF CronReject, Scanned, RowTypes, CronRow, clock
<1>2. /\ w \in LeaveRow /\ w.status = "REJECTED"
      /\ w.start = leave[l].start /\ w.end = leave[l].end
  BY <1>1, StatusMoves DEF Statuses
<1>3. /\ v \in CronRow /\ v.pc = "mark" /\ v.todo = cron.todo \ {l}
      /\ v.req = l /\ v.day = leave[l].start
  BY <1>1 DEF CronRow, LeaveRow
<1> HIDE DEF w, v
<1>4. leave'[l] = w
  BY <1>1 DEF TypeOK
<1>5. /\ leave' \in [Requests -> LeaveRow] /\ Ranges'
      /\ \A x \in Requests :
           /\ leave'[x].start = leave[x].start /\ leave'[x].end = leave[x].end
           /\ leave[x].status # "absent" => leave'[x].status # "absent"
           /\ x # l => leave'[x] = leave[x]
  BY <1>1, <1>2, RowTyped
<1>6. TypeOK'
  BY <1>1, <1>3, <1>5, RowsTyped DEF RowTypes
<1>7. Checked'
  BY <1>1, <1>5 DEF Checked
<1>8. Scanned'
  <2>1. leave[l].start <= leave[l].start /\ leave[l].start <= leave[l].end
    BY <1>1, LeavesAssumption DEF Ranges, LeaveRow, Days
  <2>2. QED
    BY <1>1, <1>2, <1>3, <1>4, <1>5, <2>1 DEF Scanned
<1>9. Alone'
  BY <1>1, <1>3, AloneKept DEF Handles
<1>10. Seen'
  BY <1>1, <1>3, <1>5 DEF Seen, Alone, Handles
<1>11. LeaveDaysWereGranted'
  BY <1>1, GrantedKept
<1>12. ASSUME NEW x \in Requests \ raced'
       PROVE  Marked(x)'
  <2>1. CASE x # l
    BY <1>1, <1>3, <1>5, <2>1, ElsewhereMarked, LeavesAssumption
    DEF Elsewhere, Marking
  <2>2. CASE x = l
    <3>1. \A c \in Calls : ~(call[c].req = l /\ call[c].pc = "mark")
      BY <1>1, <2>2 DEF Alone, Handles
    <3>2. Written(l, "REJECTED", 0, 0, cron.day - 1)'
      <4>1. leave[l].start .. (leave[l].start - 1) = {}
        BY <1>1, LeavesAssumption DEF LeaveRow, Days
      <4>2. QED
        BY <1>1, <1>3, <1>5, <4>1 DEF Written
    <3>3. Handling(l)'
      BY <1>1, <1>3 DEF Handling
    <3>4. QED
      BY <1>1, <1>2, <1>4, <2>2, <3>1, <3>2, <3>3 DEF Marked
  <2>3. QED
    BY <2>1, <2>2
<1>13. QED
  BY <1>5, <1>6, <1>7, <1>8, <1>9, <1>10, <1>11, <1>12 DEF Marking

LEMMA CronMarkKeeps ==
  ASSUME IInv, NEW l \in Requests, cron.req = l, CronMark
  PROVE  IInv'
<1> USE DEF IInv, Typed
<1> DEFINE d == cron.day
<1>1. /\ cron.pc = "mark" /\ l \notin cron.todo /\ leave[l].status # "absent"
      /\ leave[l].start <= d /\ d <= leave[l].end
      /\ cron \in CronRow /\ leave[l] \in LeaveRow /\ d \in Days
      /\ d \in Int /\ leave[l].start \in Int /\ leave[l].end \in Int
  <2>1. cron \in CronRow /\ leave[l] \in LeaveRow
    BY RowsTyped DEF RowTypes
  <2>2. d \in Days /\ leave[l].start \in Days /\ leave[l].end \in Days
    BY <2>1 DEF CronRow, LeaveRow
  <2>3. cron.pc = "mark"
    BY DEF CronMark
  <2>4. QED
    BY <2>1, <2>2, <2>3, LeavesAssumption DEF Scanned, Days
<1>2. UNCHANGED <<leave, call, today, deaths, raced>> /\ Upsert(d, "ABSENT", l)
  BY DEF CronMark, clock
<1>3. /\ cron' \in CronRow /\ cron'.todo = cron.todo
      /\ \/ /\ cron'.pc = "mark" /\ cron'.req = l /\ cron'.day = d + 1
            /\ d + 1 <= leave[l].end
         \/ /\ cron'.pc \in {"idle", "next"} /\ cron'.req = None
            /\ cron'.pc = "idle" => cron.todo = {}
            /\ d = leave[l].end
  <2>1. CASE d < leave[l].end
    <3>1. d + 1 \in Days /\ d + 1 <= leave[l].end
      BY <1>1, <2>1, LeavesAssumption DEF LeaveRow, Days
    <3>2. cron' = [cron EXCEPT !.day = @ + 1]
      BY <2>1 DEF CronMark
    <3>3. QED
      BY <1>1, <3>1, <3>2 DEF CronRow
  <2>2. CASE ~(d < leave[l].end)
    <3>1. d = leave[l].end
      BY <1>1, <2>2
    <3>2. cron' = [cron EXCEPT !.pc = IF cron.todo = {} THEN "idle" ELSE "next",
                               !.req = None]
      BY <2>2 DEF CronMark
    <3>3. QED
      BY <1>1, <3>1, <3>2 DEF CronRow
  <2>3. QED
    BY <2>1, <2>2
<1>4. /\ attendance'[d] = "ABSENT" /\ marker'[d] = l
      /\ \A e \in Days : e # d =>
           attendance'[e] = attendance[e] /\ marker'[e] = marker[e]
  BY <1>1, <1>2 DEF Upsert, TypeOK
<1>5. TypeOK'
  BY <1>1, <1>2, <1>3, RowsTyped DEF RowTypes, Upsert
<1>6. Ranges' /\ Checked'
  BY <1>2 DEF Ranges, Checked
<1>7. Scanned'
  BY <1>1, <1>2, <1>3 DEF Scanned
<1>8. Alone' /\ Seen'
  <2>1. \A x \in Requests : cron'.req = x => cron.req = x
    BY <1>3, LeavesAssumption
  <2>2. Alone'
    BY <1>2, <1>3, <2>1, AloneKept DEF Handles
  <2>3. QED
    BY <1>2, <1>3, <2>2 DEF Seen
<1>9. LeaveDaysWereGranted'
  <2>1. \A e \in Days : \/ attendance'[e] = attendance[e] /\ marker'[e] = marker[e]
                        \/ attendance'[e] # "LEAVE"
    BY <1>4
  <2>2. QED
    BY <1>2, <2>1, GrantedKept
<1>10. ASSUME NEW x \in Requests \ raced'
       PROVE  Marked(x)'
  <2>1. CASE x # l
    <3>1. \A e \in Days : \/ marker'[e] = marker[e] /\ attendance'[e] = attendance[e]
                          \/ marker'[e] \notin {x, None}
      BY <1>4, <2>1, LeavesAssumption
    <3>2. cron'.req # x /\ cron.req # x
      BY <1>3, <2>1, LeavesAssumption
    <3>3. QED
      BY <1>2, <1>3, <2>1, <3>1, <3>2, ElsewhereMarked DEF Elsewhere, Marking
  <2>2. CASE x = l
    <3> SUFFICES ASSUME ~Interrupted(l)' PROVE Marked(l)'
      BY <2>2 DEF Marked
    <3>1. \A b \in Calls : ~(call[b].req = l /\ call[b].pc = "mark")
      BY <1>1, <1>2, <2>2 DEF Alone, Handles
    <3>2. ~Interrupted(l)
      BY <1>2 DEF Interrupted
    <3>3. leave[l].status = "REJECTED" /\ Written(l, "REJECTED", 0, 0, d - 1)
      BY <1>2, <2>2, <3>2 DEF Marking, Marked
    <3>4. \A e \in leave'[l].start .. d :
            /\ marker'[e] # None
            /\ marker'[e] = l => attendance'[e] = Verdict("REJECTED", 0, 0, e)
      <4>1. Upsert(d, Verdict("REJECTED", 0, 0, d), l)
        BY <1>2 DEF Verdict
      <4>2. /\ Written(l, "REJECTED", 0, 0, d - 1) /\ d \in Days
            /\ leave[l].start \in Int /\ leave[l].start <= d
            /\ leave'[l].start = leave[l].start
            /\ marker \in [Days -> Requests \cup {"manual", None}]
            /\ attendance \in [Days -> {"none", "PRESENT", "ABSENT", "LEAVE"}]
        BY <1>1, <1>2, <3>3 DEF TypeOK
      <4> HIDE DEF d
      <4>3. QED
        BY <4>1, <4>2, WrittenMore
    <3>5. CASE cron'.req = l /\ cron'.day = d + 1
      <4>1. cron'.day - 1 = d
        BY <1>1, <3>5
      <4>2. Written(l, "REJECTED", 0, 0, cron.day - 1)'
        BY <3>4, <4>1 DEF Written
      <4>3. Handling(l)'
        BY <3>5 DEF Handling
      <4>4. QED
        BY <1>2, <3>1, <3>3, <4>2, <4>3 DEF Marked
    <3>6. CASE cron'.req = None /\ d = leave[l].end
      <4>1. Written(l, "REJECTED", 0, 0, leave[l].end)'
        BY <1>2, <3>4, <3>6 DEF Written
      <4>2. Complete(l)'
        BY <1>2, <3>3, <4>1 DEF Complete
      <4>3. QED
        BY <1>2, <3>1, <3>6, <4>2, LeavesAssumption DEF Marked
    <3>7. QED
      BY <1>3, <3>5, <3>6
  <2>3. QED
    BY <2>1, <2>2
<1>11. QED
  BY <1>5, <1>6, <1>7, <1>8, <1>9, <1>10 DEF Marking

LEMMA CronDiesKeeps ==
  ASSUME IInv, CronDies
  PROVE  IInv'
<1> USE DEF IInv, Typed
<1>1. /\ deaths' = deaths + 1 /\ deaths \in Nat /\ deaths' \in 0..MaxDeaths
      /\ cron' = IdleCron
      /\ UNCHANGED <<leave, attendance, marker, call, today, raced>>
  BY LeavesAssumption DEF CronDies, TypeOK
<1>2. /\ IdleCron \in CronRow /\ cron'.pc = "idle" /\ cron'.todo = {}
      /\ cron'.req = None
  BY <1>1, LeavesAssumption DEF IdleCron, CronRow, Days
<1>3. TypeOK'
  BY <1>1, <1>2, RowsTyped DEF RowTypes
<1>4. Ranges' /\ Checked' /\ Scanned'
  BY <1>1, <1>2 DEF Ranges, Checked, Scanned
<1>5. Alone' /\ Seen'
  <2>1. Alone'
    BY <1>1, <1>2, AloneKept, LeavesAssumption DEF Handles
  <2>2. QED
    BY <1>1, <1>2, <2>1 DEF Seen
<1>6. LeaveDaysWereGranted'
  BY <1>1, GrantedKept
<1>7. ASSUME NEW x \in Requests \ raced'
      PROVE  Marked(x)'
  BY <1>1 DEF Marked, Interrupted
<1>8. QED
  BY <1>3, <1>4, <1>5, <1>6, <1>7 DEF Marking

-----------------------------------------------------------------------------
(* What the invariant gives                                                *)

LEMMA IInvNext == IInv /\ [Next]_vars => IInv'
<1> SUFFICES ASSUME IInv, [Next]_vars PROVE IInv'
  OBVIOUS
<1>1. ASSUME NEW c \in Calls, Continue(c)
      PROVE  IInv'
  <2>1. PICK l \in Requests : call[c].req = l
    BY <1>1
    DEF Continue, WriteDecision, MarkDay, WriteEscalation, IInv, Typed, Checked
  <2>2. QED
    BY <1>1, <2>1, WriteDecisionKeeps, MarkDayKeeps, WriteEscalationKeeps
    DEF Continue
<1>2. CASE CronMark
  <2>1. PICK l \in Requests : cron.req = l
    BY <1>2 DEF CronMark, IInv, Typed, Scanned
  <2>2. QED
    BY <1>2, <2>1, CronMarkKeeps
<1>3. CASE UNCHANGED vars
  <2> USE <1>3 DEF vars, IInv, Typed
  <2>1. Typed'
    BY DEF TypeOK, Ranges, Checked, Scanned
  <2>2. Alone' /\ Seen' /\ LeaveDaysWereGranted'
    BY DEF Alone, Seen, LeaveDaysWereGranted, Handles, Decided
  <2>3. \A x \in Requests \ raced : Marked(x)'
    BY ElsewhereMarked DEF Elsewhere, Marking
  <2>4. QED
    BY <2>1, <2>2, <2>3 DEF Marking
<1>4. QED
  BY <1>1, <1>2, <1>3, CreateLeaveKeeps, MarkAttendanceKeeps, CheckKeeps,
     AbandonCallKeeps, MidnightKeeps, CronScanKeeps, CronRejectKeeps,
     CronDiesKeeps
  DEF Next, CronStep

\* Decisions, escalations and the cron, overlapping and dying anywhere, keep
\* the invariant.
THEOREM LeavesInvariant == Spec => []IInv
  BY IInvInit, IInvNext, PTL DEF Spec

\* A day reads LEAVE only by hand or by an approval that covers it, whatever
\* interleaves and wherever the process dies (updateStatus,
\* markAttendanceForApprovedLeave).
THEOREM LeaveIsGranted == Spec => []LeaveDaysWereGranted
<1>1. IInv => LeaveDaysWereGranted
  BY DEF IInv
<1>2. QED
  BY <1>1, LeavesInvariant, PTL

\* The approved dates, stored as days, tell what the instants grant.
LEMMA GrantedDays ==
  ASSUME NEW from \in Instants, NEW to \in Instants, NEW d \in Days
  PROVE  /\ DayOf(from) < d /\ d <= DayOf(to) => Granted(from, to, d)
         /\ Granted(from, to, d) => DayOf(from) <= d /\ d <= DayOf(to)
         /\ from = 2 * d => DayOf(from) = d
  BY LeavesAssumption DEF Instants, Days, DayOf, Granted

\* What the handling of a request leaves behind when it is over.
LEMMA HandledIsComplete ==
  ASSUME IInv, NEW l \in Requests \ raced, ~Handling(l), ~Interrupted(l)
  PROVE  Complete(l)
  BY DEF IInv, Marking, Marked

LEMMA FollowsDecision == IInv => AttendanceFollowsDecision
<1> SUFFICES ASSUME IInv, NEW l \in Requests \ raced,
                    leave[l].status \in {"APPROVED", "REJECTED"},
                    ~Handling(l), ~Interrupted(l),
                    NEW d \in leave[l].start .. leave[l].end
             PROVE  /\ marker[d] # None
                    /\ marker[d] = l => attendance[d] \in Allowed(l, d)
  BY DEF AttendanceFollowsDecision
<1>1. Complete(l)
  BY HandledIsComplete
<1>2. leave[l] \in LeaveRow /\ call \in [Calls -> CallRow]
  BY RowsTyped DEF IInv, Typed, RowTypes
<1>3. d \in Days
  BY <1>2, LeavesAssumption DEF LeaveRow, Days
<1>4. CASE leave[l].status = "REJECTED"
  BY <1>1, <1>4 DEF Complete, Written, Verdict, Allowed
<1>5. CASE leave[l].status = "APPROVED"
  <2>1. PICK c \in Calls :
          /\ GaveDates(c, l)
          /\ Written(l, "APPROVED", call[c].from, call[c].to, leave[l].end)
    BY <1>1, <1>5 DEF Complete
  <2>2. call[c].from \in Instants /\ call[c].to \in Instants
    BY <1>2 DEF CallRow
  <2>3. /\ leave[l].appStart = DayOf(call[c].from)
        /\ leave[l].appEnd = DayOf(call[c].to)
    BY <2>1 DEF GaveDates
  <2>4. /\ marker[d] # None
        /\ marker[d] = l =>
             attendance[d] = IF Granted(call[c].from, call[c].to, d)
                             THEN "LEAVE" ELSE "ABSENT"
    BY <2>1 DEF Written, Verdict
  <2>5. CASE Granted(call[c].from, call[c].to, d)
    <3>1. leave[l].appStart <= d /\ d <= leave[l].appEnd
      BY <1>3, <2>2, <2>3, <2>5, GrantedDays
    <3>2. leave[l].appStart = d \/ leave[l].appStart < d
      BY <3>1, <1>2, <1>3, LeavesAssumption DEF LeaveRow, Days, NoDay
    <3>3. QED
      BY <1>5, <2>4, <2>5, <3>1, <3>2 DEF Allowed
  <2>6. CASE ~Granted(call[c].from, call[c].to, d)
    <3>1. ~(leave[l].appStart < d /\ d <= leave[l].appEnd)
      BY <1>3, <2>2, <2>3, <2>6, GrantedDays
    <3>2. QED
      BY <1>5, <2>4, <2>6, <3>1 DEF Allowed
  <2>7. QED
    BY <2>5, <2>6
<1>6. QED
  BY <1>4, <1>5

\* Once a decided request is handled, its days that are still its own read as
\* the decision says (updateStatus, handleExpiredLeaves).
THEOREM AttendanceFollows == Spec => []AttendanceFollowsDecision
  BY FollowsDecision, LeavesInvariant, PTL

-----------------------------------------------------------------------------
(* No write on a stale reading                                             *)

\* A call that writes a row is where its check left it, and so is the row.
LEMMA CallWritesFresh ==
  ASSUME IInv, [Next]_vars, NEW c \in Calls, Writes(c), call[c].req \notin raced
  PROVE  LET status == leave[call[c].req].status IN
         IF call[c].pc = "escalate" THEN status = "REJECTED"
         ELSE call[c].role = "incharge" => status # "ESCALATED"
<1>1. call[c].pc \in {"decide", "escalate"} /\ call[c].req \in Requests \ raced
  BY DEF Writes, IInv, Typed, Checked
<1>2. QED
  BY <1>1 DEF IInv, Seen

\* So is a request that the cron rejects.
LEMMA CronWritesFresh ==
  ASSUME IInv, [Next]_vars, cron.pc = "next", cron'.pc = "mark",
         cron'.req \notin raced
  PROVE  leave[cron'.req].status \in Open
<1>1. cron \in CronRow
  BY RowsTyped DEF IInv, Typed, RowTypes
<1>2. PICK l \in Requests : CronReject(l)
  <2>1. ASSUME CronScan \/ CronMark \/ CronDies \/ Midnight
        PROVE  FALSE
    BY <2>1 DEF CronScan, CronMark, CronDies, Midnight, IdleCron
  <2>2. ASSUME cron' = cron
        PROVE  FALSE
    BY <2>2
  <2>3. ASSUME NEW c \in Calls, NEW l \in Requests,
               \/ \E role \in Roles, status \in Statuses, from, to \in Instants :
                    CheckDecision(c, l, role, status, from, to)
               \/ CheckEscalation(c, l)
        PROVE  cron' = cron
    BY <2>3 DEF CheckDecision, CheckEscalation
  <2>4. ASSUME NEW c \in Calls, Continue(c) \/ AbandonCall(c)
        PROVE  cron' = cron
    BY <2>4 DEF Continue, WriteDecision, MarkDay, WriteEscalation, AbandonCall
  <2>5. ASSUME NEW l \in Requests, NEW start \in Days, NEW end \in Days,
               CreateLeave(l, start, end)
        PROVE  cron' = cron
    BY <2>5 DEF CreateLeave
  <2>6. ASSUME NEW d \in Days, NEW status \in Marks, MarkAttendance(d, status)
        PROVE  cron' = cron
    BY <2>6 DEF MarkAttendance
  <2>7. UNCHANGED vars => cron' = cron
    BY DEF vars
  <2>8. QED
    BY <2>1, <2>2, <2>3, <2>4, <2>5, <2>6, <2>7 DEF Next, CronStep
<1>3. cron'.req = l /\ l \in cron.todo
  BY <1>2 DEF CronReject
<1>4. QED
  BY <1>2, <1>3 DEF IInv, Seen

\* Every write acts on the status its check allowed, unless two handled the
\* request at once (updateStatus, escalate, handleExpiredLeaves).
THEOREM WritesAreFresh == Spec => NoStaleWrite
<1> DEFINE Fresh ==
      /\ \A c \in Calls :
           Writes(c) /\ call[c].req \notin raced =>
             LET status == leave[call[c].req].status IN
             IF call[c].pc = "escalate" THEN status = "REJECTED"
             ELSE call[c].role = "incharge" => status # "ESCALATED"
      /\ cron.pc = "next" /\ cron'.pc = "mark" /\ cron'.req \notin raced
           => leave[cron'.req].status \in Open
<1>1. IInv /\ [Next]_vars => [Fresh]_vars
  BY CallWritesFresh, CronWritesFresh
<1>2. QED
  BY <1>1, LeavesInvariant, PTL DEF Spec, NoStaleWrite

-----------------------------------------------------------------------------
(* The views of a leave                                                    *)

\* The counts of a calendar on which every day reads the same.
LEMMA SameEveryDay ==
  ASSUME NEW S, NEW days, DOMAIN days = S, NEW mark, \A d \in S : days[d] = mark,
         NEW status
  PROVE  Cardinality({d \in DOMAIN days : days[d] = status})
           = IF status = mark THEN Cardinality(S) ELSE 0
<1>1. CASE status = mark
  <2>1. {d \in DOMAIN days : days[d] = status} = S
    BY <1>1
  <2>2. QED
    BY <1>1, <2>1
<1>2. CASE status # mark
  <2>1. {d \in DOMAIN days : days[d] = status} = {}
    BY <1>2
  <2>2. QED
    BY <1>2, <2>1, FS_EmptySet
<1>3. QED
  BY <1>1, <1>2

\* A calendar of leave alone is at 100 percent, one of absence alone at 0.
LEMMA StatsOfOneMark ==
  ASSUME NEW S, NEW days, DOMAIN days = S, Cardinality(S) \in Nat,
         Cardinality(S) >= 1,
         NEW mark \in {"LEAVE", "ABSENT"}, \A d \in S : days[d] = mark
  PROVE  /\ mark = "LEAVE" => /\ Stats(days).percentage = 100
                              /\ Stats(days).leave = Cardinality(S)
         /\ mark = "ABSENT" => /\ Stats(days).percentage = 0
                               /\ Stats(days).holiday = 0
<1> DEFINE n == Cardinality(S)
           count(status) ==
             Cardinality({d \in DOMAIN days : days[d] = status})
           working == count("PRESENT") + count("ABSENT")
<1>1. \A status : count(status) = IF status = mark THEN n ELSE 0
  BY SameEveryDay
<1>2. /\ Stats(days).percentage =
           IF working = 0 THEN 100
           ELSE (200 * count("PRESENT") + working) \div (2 * working)
      /\ Stats(days).leave = count("LEAVE")
      /\ Stats(days).holiday = count("HOLIDAY")
  BY DEF Stats
<1>3. count("PRESENT") = 0 /\ count("HOLIDAY") = 0
  BY <1>1
<1>4. ASSUME mark = "LEAVE"
      PROVE  count("ABSENT") = 0 /\ count("LEAVE") = n
  BY <1>1, <1>4
<1>5. ASSUME mark = "ABSENT"
      PROVE  count("ABSENT") = n
  BY <1>1, <1>5
<1>6. n \in Nat /\ n >= 1
  OBVIOUS
<1> HIDE DEF n, count
<1>7. (200 * 0 + n) \div (2 * n) = 0
  BY <1>6
<1>8. ASSUME mark = "LEAVE"
      PROVE  Stats(days).percentage = 100 /\ Stats(days).leave = n
  BY <1>2, <1>3, <1>4, <1>8
<1>9. ASSUME mark = "ABSENT"
      PROVE  Stats(days).percentage = 0 /\ Stats(days).holiday = 0
  <2>1. working = n /\ working # 0
    BY <1>3, <1>5, <1>6, <1>9
  <2>2. QED
    BY <1>2, <1>3, <1>6, <1>7, <2>1
<1>10. QED
  BY <1>8, <1>9 DEF n

\* The days of a request, and how many they are.
LEMMA RangeOfLeave ==
  ASSUME Typed, NEW l \in Requests
  PROVE  LET range == DatesInRange(leave[l].start, leave[l].end) IN
         /\ range = leave[l].start .. leave[l].end /\ range \subseteq Days
         /\ Cardinality(range) \in Nat /\ Cardinality(range) >= 1
         /\ DOMAIN MyAttendance(leave[l].start, leave[l].end) = range
         /\ \A d \in range :
              MyAttendance(leave[l].start, leave[l].end)[d] = Shown(d)
<1>1. leave[l].start \in Days /\ leave[l].end \in Days
  BY DEF Typed, TypeOK
<1>2. leave[l].start <= leave[l].end
  BY DEF Typed, Ranges
<1>3. leave[l].start \in Int /\ leave[l].end \in Int
  BY <1>1, LeavesAssumption DEF Days
<1>4. Cardinality(leave[l].start .. leave[l].end)
        = leave[l].end - leave[l].start + 1
  BY <1>2, <1>3, FS_Interval
<1>5. leave[l].start .. leave[l].end \subseteq Days
  BY <1>1, LeavesAssumption DEF Days
<1>6. QED
  BY <1>2, <1>3, <1>4, <1>5 DEF DatesInRange, MyAttendance

\* The days of a settled request that are still its own read as it was decided.
LEMMA WholeIsLeave ==
  ASSUME IInv, NEW l \in Requests, Settled(l), Whole(l),
         NEW d \in leave[l].start .. leave[l].end, marker[d] = l
  PROVE  attendance[d] = "LEAVE"
<1>1. Complete(l)
  BY HandledIsComplete DEF Settled
<1>2. leave[l] \in LeaveRow /\ call \in [Calls -> CallRow]
  BY RowsTyped DEF IInv, Typed, RowTypes
<1>3. PICK c \in Calls :
        /\ Decided(c, l) /\ call[c].status = "APPROVED"
        /\ Written(l, "APPROVED", call[c].from, call[c].to, leave[l].end)
  BY <1>1 DEF Complete, Whole
<1>4. call[c].from = 2 * leave[l].start /\ DayOf(call[c].to) = leave[l].end
  BY <1>3 DEF Whole
<1>5. call[c].to \in Int /\ leave[l].start \in Int /\ leave[l].end \in Int
  BY <1>2, LeavesAssumption DEF CallRow, LeaveRow, Instants, Days
<1>6. Granted(call[c].from, call[c].to, d)
  BY <1>4, <1>5 DEF Granted, DayOf
<1>7. QED
  BY <1>3, <1>6 DEF Written, Verdict

LEMMA RefusedIsAbsent ==
  ASSUME IInv, NEW l \in Requests, Settled(l), leave[l].status = "REJECTED",
         NEW d \in leave[l].start .. leave[l].end, marker[d] = l
  PROVE  attendance[d] = "ABSENT"
<1>1. Complete(l)
  BY HandledIsComplete DEF Settled
<1>2. QED
  BY <1>1 DEF Complete, Written, Verdict

LEMMA ViewsAgree == IInv => CalendarAgrees
<1> SUFFICES ASSUME IInv, NEW l \in Requests, Settled(l),
                    \A d \in DatesInRange(leave[l].start, leave[l].end) :
                      marker[d] = l
             PROVE  LET range == DatesInRange(leave[l].start, leave[l].end)
                        stats == Stats(MyAttendance(leave[l].start, leave[l].end))
                    IN  /\ Whole(l) =>
                             /\ stats.percentage = 100
                             /\ stats.leave = Cardinality(range)
                        /\ leave[l].status = "REJECTED" =>
                             stats.percentage = 0 /\ stats.holiday = 0
  BY DEF CalendarAgrees
<1> DEFINE range == DatesInRange(leave[l].start, leave[l].end)
           days == MyAttendance(leave[l].start, leave[l].end)
<1>1. /\ range = leave[l].start .. leave[l].end /\ range \subseteq Days
      /\ Cardinality(range) \in Nat /\ Cardinality(range) >= 1
      /\ DOMAIN days = range /\ \A d \in range : days[d] = Shown(d)
  BY RangeOfLeave DEF IInv
<1>2. \A d \in range : marker[d] = l
  OBVIOUS
<1> HIDE DEF range, days
<1>3. ASSUME Whole(l)
      PROVE  \A d \in range : days[d] = "LEAVE"
  <2>1. \A d \in range : attendance[d] = "LEAVE"
    BY <1>1, <1>2, <1>3, WholeIsLeave
  <2>2. QED
    BY <1>1, <2>1 DEF Shown
<1>4. ASSUME leave[l].status = "REJECTED"
      PROVE  \A d \in range : days[d] = "ABSENT"
  <2>1. \A d \in range : attendance[d] = "ABSENT"
    BY <1>1, <1>2, <1>4, RefusedIsAbsent
  <2>2. QED
    BY <1>1, <2>1 DEF Shown
<1>5. ASSUME Whole(l)
      PROVE  Stats(days).percentage = 100 /\ Stats(days).leave = Cardinality(range)
  BY <1>1, <1>3, <1>5, StatsOfOneMark
<1>6. ASSUME leave[l].status = "REJECTED"
      PROVE  Stats(days).percentage = 0 /\ Stats(days).holiday = 0
  <2>1. /\ DOMAIN days = range
        /\ Cardinality(range) \in Nat /\ Cardinality(range) >= 1
        /\ \A d \in range : days[d] = "ABSENT"
    BY <1>1, <1>4, <1>6
  <2>2. "ABSENT" \in {"LEAVE", "ABSENT"}
    OBVIOUS
  <2>3. QED
    BY SMTT(30), <2>1, <2>2, StatsOfOneMark
<1>7. QED
  BY <1>5, <1>6 DEF range, days

\* The student's statistics and his calendar agree with the decision on a
\* request that was approved whole or refused (fetchMyAttendance).
THEOREM CalendarIsOne == Spec => []CalendarAgrees
  BY ViewsAgree, LeavesInvariant, PTL

\* A request writes no day but its own.
OwnDays == \A d \in Days : marker[d] \in Requests => marker[d] \in Over(d)

LEMMA OwnDaysInit == Init => OwnDays
  BY LeavesAssumption DEF Init, OwnDays

\* No step moves the dates of a request that exists or makes it absent.
LEMMA DatesStay ==
  ASSUME IInv, [Next]_vars, NEW l \in Requests, leave[l].status # "absent"
  PROVE  /\ leave'[l].status # "absent"
         /\ leave'[l].start = leave[l].start /\ leave'[l].end = leave[l].end
<1> USE DEF IInv, Typed
<1>1. leave \in [Requests -> LeaveRow] /\ call \in [Calls -> CallRow]
  BY RowsTyped DEF RowTypes
<1>2. ASSUME NEW x \in Requests, NEW start, NEW end, CreateLeave(x, start, end)
      PROVE  leave'[l] = leave[l]
  BY <1>1, <1>2 DEF CreateLeave, LeaveRow
<1>3. ASSUME NEW c \in Calls, WriteDecision(c)
      PROVE  /\ leave'[l].status \in {leave[l].status, call[c].status}
             /\ leave'[l].start = leave[l].start /\ leave'[l].end = leave[l].end
  BY <1>1, <1>3 DEF WriteDecision, LeaveRow
<1>4. ASSUME NEW c \in Calls, WriteEscalation(c)
      PROVE  /\ leave'[l].status \in {leave[l].status, "ESCALATED"}
             /\ leave'[l].start = leave[l].start /\ leave'[l].end = leave[l].end
  BY <1>1, <1>4 DEF WriteEscalation, LeaveRow
<1>5. ASSUME NEW x \in Requests, CronReject(x)
      PROVE  /\ leave'[l].status \in {leave[l].status, "REJECTED"}
             /\ leave'[l].start = leave[l].start /\ leave'[l].end = leave[l].end
  BY <1>1, <1>5 DEF CronReject, LeaveRow
<1>6. \A c \in Calls : call[c].status # "absent"
  BY <1>1 DEF CallRow, Statuses
<1>7. ASSUME NEW c \in Calls, NEW x, NEW role, NEW status, NEW from, NEW to,
             CheckDecision(c, x, role, status, from, to) \/ CheckEscalation(c, x)
      PROVE  leave' = leave
  BY <1>7 DEF CheckDecision, CheckEscalation
<1>8. ASSUME NEW c \in Calls, MarkDay(c) \/ AbandonCall(c)
      PROVE  leave' = leave
  BY <1>8 DEF MarkDay, AbandonCall
<1>9. ASSUME NEW d, NEW status, MarkAttendance(d, status)
      PROVE  leave' = leave
  BY <1>9 DEF MarkAttendance
<1>10. ASSUME Midnight \/ CronScan \/ CronMark \/ CronDies \/ UNCHANGED vars
       PROVE  leave' = leave
  BY <1>10 DEF Midnight, CronScan, CronMark, CronDies, vars
<1>11. QED
  BY <1>2, <1>3, <1>4, <1>5, <1>6, <1>7, <1>8, <1>9, <1>10
  DEF Next, Continue, CronStep

LEMMA OwnDaysNext == IInv /\ OwnDays /\ [Next]_vars => OwnDays'
<1> SUFFICES ASSUME IInv, OwnDays, [Next]_vars, NEW d \in Days,
                    marker'[d] \in Requests
             PROVE  marker'[d] \in Over(d)'
  BY DEF OwnDays
<1> USE DEF IInv, Typed
<1>1. marker \in [Days -> Requests \cup {"manual", None}]
  BY DEF TypeOK
<1>2. \/ marker'[d] = marker[d]
      \/ \E c \in Calls : /\ call[c].pc = "mark" /\ call[c].day = d
                          /\ marker'[d] = call[c].req
      \/ cron.pc = "mark" /\ cron.day = d /\ marker'[d] = cron.req
  <2>1. ASSUME NEW e \in Days, NEW status, MarkAttendance(e, status)
        PROVE  marker'[d] = marker[d]
    BY <1>1, <2>1, LeavesAssumption DEF MarkAttendance, Upsert
  <2>2. ASSUME NEW c \in Calls, MarkDay(c)
        PROVE  \/ marker'[d] = marker[d]
               \/ /\ call[c].pc = "mark" /\ call[c].day = d
                  /\ marker'[d] = call[c].req
    BY <1>1, <2>2 DEF MarkDay, Upsert
  <2>3. ASSUME CronMark
        PROVE  \/ marker'[d] = marker[d]
               \/ cron.pc = "mark" /\ cron.day = d /\ marker'[d] = cron.req
    BY <1>1, <2>3 DEF CronMark, Upsert
  <2>4. ASSUME NEW c \in Calls, NEW x, NEW role, NEW status, NEW from, NEW to,
               CheckDecision(c, x, role, status, from, to) \/ CheckEscalation(c, x)
        PROVE  marker' = marker
    BY <2>4 DEF CheckDecision, CheckEscalation
  <2>5. ASSUME NEW c \in Calls,
               WriteDecision(c) \/ WriteEscalation(c) \/ AbandonCall(c)
        PROVE  marker' = marker
    BY <2>5 DEF WriteDecision, WriteEscalation, AbandonCall
  <2>6. ASSUME NEW x, NEW start, NEW end,
               CreateLeave(x, start, end) \/ CronReject(x)
        PROVE  marker' = marker
    BY <2>6 DEF CreateLeave, CronReject
  <2>7. ASSUME Midnight \/ CronScan \/ CronDies \/ UNCHANGED vars
        PROVE  marker' = marker
    BY <2>7 DEF Midnight, CronScan, CronDies, vars
  <2>8. QED
    BY <2>1, <2>2, <2>3, <2>4, <2>5, <2>6, <2>7 DEF Next, Continue, CronStep
<1>3. marker'[d] \in Over(d)
  BY <1>2 DEF OwnDays, Over, Checked, Scanned
<1>4. QED
  BY <1>3, DatesStay DEF Over

LEMMA ListAgrees == IInv /\ OwnDays => ClassListAgrees
<1> SUFFICES ASSUME IInv, OwnDays, NEW d \in Days, Over(d) # {},
                    \A l \in Over(d) : Settled(l), marker[d] # "manual"
             PROVE  /\ Shown(d) = "LEAVE" => OnLeave(d)
                    /\ OnLeave(d) => Shown(d) = "LEAVE" \/ Overstated(d)
  BY DEF ClassListAgrees
<1>1. \A l \in Over(d) : /\ l \in Requests /\ d \in leave[l].start .. leave[l].end
                         /\ leave[l].status \in {"APPROVED", "REJECTED"}
  <2>1. ASSUME NEW l \in Over(d)
        PROVE  leave[l].start \in Int /\ leave[l].end \in Int /\ d \in Int
    BY RowsTyped, LeavesAssumption
    DEF IInv, Typed, RowTypes, LeaveRow, Days, Over
  <2>2. QED
    BY <2>1 DEF Over, Settled
<1>2. marker[d] # None
  <2>1. PICK l \in Over(d) : TRUE
    OBVIOUS
  <2>2. QED
    BY <1>1, <2>1, FollowsDecision DEF AttendanceFollowsDecision, Settled
<1>3. PICK m \in Over(d) : marker[d] = m
  BY <1>2 DEF OwnDays, IInv, Typed, TypeOK
<1>4. ASSUME Shown(d) = "LEAVE"
      PROVE  OnLeave(d)
  <2>1. attendance[d] = "LEAVE"
    BY <1>4 DEF Shown
  <2>2. leave[m].status = "APPROVED"
    BY <1>1, <1>3, <2>1, RefusedIsAbsent
  <2>3. QED
    BY <1>1, <2>2 DEF OnLeave, Over
<1>5. ASSUME OnLeave(d), ~Overstated(d)
      PROVE  Shown(d) = "LEAVE"
  <2>1. PICK l \in Over(d) : leave[l].status = "APPROVED"
    BY <1>5 DEF OnLeave, Over
  <2>2. leave[m].status = "APPROVED" /\ Whole(m)
    BY <1>1, <1>5, <2>1 DEF Overstated
  <2>3. attendance[d] = "LEAVE"
    BY <1>1, <1>3, <2>2, WholeIsLeave
  <2>4. QED
    BY <2>3 DEF Shown
<1>6. QED
  BY <1>4, <1>5

\* On a day whose requests are all settled the class list has the student away
\* when his calendar does, and otherwise only if an approval was partial or
\* another request over the day was refused (findMyClassStudents, fetchAttendance).
THEOREM ClassListIsCalendar == Spec => []ClassListAgrees
<1>1. Spec => []OwnDays
  BY OwnDaysInit, OwnDaysNext, LeavesInvariant, PTL DEF Spec
<1>2. QED
  BY <1>1, ListAgrees, LeavesInvariant, PTL
=============================================================================
