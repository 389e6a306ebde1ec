-------------------------------- MODULE Leaves --------------------------------
(***************************************************************************)
(* Leave requests of one student and the attendance rows they write.        *)
(*                                                                         *)
(* updateStatus and escalate read the request, check it, and later write    *)
(* its status; a decision then upserts the attendance of the whole range,   *)
(* one day per await.  Nothing is in a transaction.  The midnight cron      *)
(* (handleExpiredLeaves) reads the expired requests once and then rejects   *)
(* them one after the other in the same way.                                *)
(*                                                                         *)
(* A day d of the calendar is midnight, instant 2*d; 2*d + 1 is later that  *)
(* day.  Requested dates are stored as days.  The dates of a partial        *)
(* approval are compared as instants and then stored as days.               *)
(*                                                                         *)
(* raced remembers the requests that two calls, or a call and the cron,     *)
(* handled at the same time.                                                *)
(***************************************************************************)
EXTENDS Integers, FiniteSets

CONSTANTS
  Requests,   \* leaveRequest rows of the student
  Calls,      \* PATCH leaves/:id/status and POST leaves/:id/escalate calls
  Horizon,    \* bound: days 0..Horizon, and today stops at Horizon + 1
  MaxDeaths,  \* bound: how often the process dies during the cron
  Marks,      \* bound: what attendance is marked by hand
  Sundays,
  Events,     \* schoolEvent rows of type HOLIDAY: from, to (or NoDay), section
  OwnSection, \* the student's section
  None

ASSUME LeavesAssumption ==
  /\ Horizon \in Nat /\ MaxDeaths \in Nat
  /\ None \notin Requests \cup {"manual"} /\ "manual" \notin Requests
  /\ Marks \subseteq {"PRESENT", "ABSENT", "LEAVE"}
  /\ \A e \in Events : e.from \in Int /\ e.to \in Int

Days == 0..Horizon
Instants == 0..(2 * Horizon + 1)
DayOf(i) == i \div 2

Statuses == {"PENDING", "ESCALATED", "APPROVED", "REJECTED"}
Open == {"PENDING", "ESCALATED"}

\* Who calls updateStatus: a principal or super admin, the teacher in charge of
\* the student's class, or another teacher or admin.
Roles == {"principal", "incharge", "other"}

NoDay == -1

VARIABLES
  leave,       \* leaveRequest: dates, status and approved dates
  attendance,  \* the student's attendance on each day
  marker,      \* who wrote a day last: a request, or "manual" (history)
  call,        \* a decision or escalation call
  cron,        \* the midnight job
  today,
  deaths,      \* how often the process died during the cron
  raced        \* requests handled by two at once (history)

vars == <<leave, attendance, marker, call, cron, today, deaths, raced>>
clock == <<today, deaths>>

NewCall == [pc |-> "new", req |-> None, role |-> "other",
            status |-> "PENDING", from |-> 0, to |-> 0, day |-> 0]

IdleCron == [pc |-> "idle", todo |-> {}, req |-> None, day |-> 0]

Init ==
  /\ leave = [l \in Requests |->
                [status |-> "absent", start |-> 0, end |-> 0,
                 appStart |-> NoDay, appEnd |-> NoDay]]
  /\ attendance = [d \in Days |-> "none"]
  /\ marker = [d \in Days |-> None]
  /\ call = [c \in Calls |-> NewCall]
  /\ cron = IdleCron
  /\ today = 0
  /\ deaths = 0
  /\ raced = {}

-----------------------------------------------------------------------------
(* create, and marking attendance by hand                                  *)

CreateLeave(l, start, end) ==
  /\ leave[l].status = "absent"
  /\ start <= end
  /\ leave' = [leave EXCEPT ![l] = [status |-> "PENDING",
                                    start |-> start, end |-> end,
                                    appStart |-> NoDay, appEnd |-> NoDay]]
  /\ UNCHANGED <<attendance, marker, call, cron, clock, raced>>

Upsert(d, status, who) ==
  /\ attendance' = [attendance EXCEPT ![d] = status]
  /\ marker' = [marker EXCEPT ![d] = who]

MarkAttendance(d, status) ==
  /\ Upsert(d, status, "manual")
  /\ UNCHANGED <<leave, call, cron, clock, raced>>

-----------------------------------------------------------------------------
(* updateStatus                                                            *)

Handling(l) ==
  \/ \E c \in Calls : call[c].req = l
                      /\ call[c].pc \in {"decide", "escalate", "mark"}
  \/ cron.req = l \/ l \in cron.todo

\* The requests in S are taken up for handling.
Enter(S) == raced' = raced \cup {l \in S : Handling(l)}

\* Defect: the class incharge is let through whatever the status.
Authorized_Escalated(l, role) ==
  leave[l].status # "absent" /\ role \in {"principal", "incharge"}

\* "Class Incharge authorized ONLY IF leave is not escalated."
Authorized(l, role) ==
  \/ role = "principal"
  \/ role = "incharge" /\ leave[l].status # "ESCALATED"

MayBePartial(role, partial) == role = "principal" \/ ~partial

\* The approved instants lie within the requested days.
Within(l, from, to) ==
  2 * leave[l].start <= from /\ to <= 2 * leave[l].end /\ from <= to

\* The caller may leave either approved date out, and then gets the requested
\* one; from and to are the instants in force after that.
CheckDecision(c, l, role, status, from, to) ==
  LET partial == from # 2 * leave[l].start \/ to # 2 * leave[l].end
      granted == /\ leave[l].status # "absent"
                 /\ Authorized(l, role)
                 /\ MayBePartial(role, partial)
                 /\ status = "APPROVED" => Within(l, from, to)
  IN
  /\ call[c].pc = "new"
  /\ \/ /\ granted
        /\ call' = [call EXCEPT ![c] =
                      [pc |-> "decide", req |-> l, role |-> role,
                       status |-> status,
                       from |-> IF status = "APPROVED" THEN from ELSE 0,
                       to |-> IF status = "APPROVED" THEN to ELSE 0,
                       day |-> leave[l].start]]
        /\ Enter({l})
     \/ /\ ~granted
        /\ call' = [call EXCEPT ![c].pc = "denied"]
        /\ UNCHANGED raced
  /\ UNCHANGED <<leave, attendance, marker, cron, clock>>

\* The row is written whatever its status is by now; only a decision goes on to
\* the attendance.
WriteDecision(c) ==
  LET a == call[c] IN
  /\ a.pc = "decide"
  /\ leave' = [leave EXCEPT
       ![a.req].status = a.status,
       ![a.req].appStart = IF a.status = "APPROVED" THEN DayOf(a.from) ELSE NoDay,
       ![a.req].appEnd = IF a.status = "APPROVED" THEN DayOf(a.to) ELSE NoDay]
  /\ call' = [call EXCEPT ![c].pc = IF a.status \in Open THEN "done" ELSE "mark"]
  /\ UNCHANGED <<attendance, marker, cron, clock, raced>>

\* Defect: the start of a partial approval is ignored.
Granted_AnyStart(from, to, d) == 2 * d <= to

Granted(from, to, d) == from <= 2 * d /\ 2 * d <= to

\* Defect: the loop stops one day early.
MarkDay_OneShort(c) ==
  LET a == call[c] IN
  /\ a.pc = "mark"
  /\ IF a.day < leave[a.req].end
     THEN /\ Upsert(a.day, IF a.status = "APPROVED" /\ Granted(a.from, a.to, a.day)
                           THEN "LEAVE" ELSE "ABSENT", a.req)
          /\ call' = [call EXCEPT ![c].day = @ + 1]
     ELSE /\ call' = [call EXCEPT ![c].pc = "done"]
          /\ UNCHANGED <<attendance, marker>>
  /\ UNCHANGED <<leave, cron, clock, raced>>

\* One turn of markAttendanceForApprovedLeave or ...ForRejectedLeave.
MarkDay(c) ==
  LET a == call[c] IN
  /\ a.pc = "mark"
  /\ Upsert(a.day, IF a.status = "APPROVED" /\ Granted(a.from, a.to, a.day)
                   THEN "LEAVE" ELSE "ABSENT", a.req)
  /\ call' = [call EXCEPT ![c] =
                IF a.day < leave[a.req].end
                THEN [a EXCEPT !.day = @ + 1]
                ELSE [a EXCEPT !.pc = "done"]]
  /\ UNCHANGED <<leave, cron, clock, raced>>

-----------------------------------------------------------------------------
(* escalate, called by the student who owns the request                    *)

CheckEscalation(c, l) ==
  /\ call[c].pc = "new"
  /\ \/ /\ leave[l].status = "REJECTED"
        /\ call' = [call EXCEPT ![c] =
                      [NewCall EXCEPT !.pc = "escalate", !.req = l]]
        /\ Enter({l})
     \/ /\ leave[l].status # "REJECTED"
        /\ call' = [call EXCEPT ![c].pc = "denied"]
        /\ UNCHANGED raced
  /\ UNCHANGED <<leave, attendance, marker, cron, clock>>

WriteEscalation(c) ==
  /\ call[c].pc = "escalate"
  /\ leave' = [leave EXCEPT ![call[c].req].status = "ESCALATED"]
  /\ call' = [call EXCEPT ![c].pc = "done"]
  /\ UNCHANGED <<attendance, marker, cron, clock, raced>>

\* The process dies, or the database refuses the next write.
AbandonCall(c) ==
  /\ call[c].pc \in {"decide", "escalate", "mark"}
  /\ call' = [call EXCEPT ![c].pc = "lost"]
  /\ UNCHANGED <<leave, attendance, marker, cron, clock, raced>>

-----------------------------------------------------------------------------
(* handleExpiredLeaves                                                     *)

\* Midnight.  A run of the cron is over before the next one starts, and the
\* last day of the bound is followed by more nights.
Midnight ==
  /\ cron.pc = "idle"
  /\ today' = IF today <= Horizon THEN today + 1 ELSE today
  /\ cron' = [cron EXCEPT !.pc = "scan"]
  /\ UNCHANGED <<leave, attendance, marker, call, deaths, raced>>

Expired(l) == leave[l].status \in Open /\ leave[l].end < today

\* Defect: only what nobody has escalated is taken up.
CronScan_PendingOnly ==
  LET found == {l \in Requests : Expired(l) /\ leave[l].status = "PENDING"} IN
  /\ cron.pc = "scan"
  /\ Enter(found)
  /\ cron' = IF found = {} THEN IdleCron
             ELSE [IdleCron EXCEPT !.pc = "next", !.todo = found]
  /\ UNCHANGED <<leave, attendance, marker, call, clock>>

CronScan ==
  LET found == {l \in Requests : Expired(l)} IN
  /\ cron.pc = "scan"
  /\ Enter(found)
  /\ cron' = IF found = {} THEN IdleCron
             ELSE [IdleCron EXCEPT !.pc = "next", !.todo = found]
  /\ UNCHANGED <<leave, attendance, marker, call, clock>>

\* Defect: the attendance is left to somebody else.
CronReject_Unmarked(l) ==
  /\ cron.pc = "next"
  /\ l \in cron.todo
  /\ leave' = [leave EXCEPT ![l].status = "REJECTED"]
  /\ cron' = IF cron.todo = {l} THEN IdleCron
             ELSE [cron EXCEPT !.todo = @ \ {l}]
  /\ UNCHANGED <<attendance, marker, call, clock, raced>>

\* The rejection keeps whatever approved dates the row has.
CronReject(l) ==
  /\ cron.pc = "next"
  /\ l \in cron.todo
  /\ leave' = [leave EXCEPT ![l].status = "REJECTED"]
  /\ cron' = [pc |-> "mark", todo |-> cron.todo \ {l}, req |-> l,
              day |-> leave[l].start]
  /\ UNCHANGED <<attendance, marker, call, clock, raced>>

CronMark ==
  /\ cron.pc = "mark"
  /\ Upsert(cron.day, "ABSENT", cron.req)
  /\ cron' = IF cron.day < leave[cron.req].end
             THEN [cron EXCEPT !.day = @ + 1]
             ELSE [cron EXCEPT !.pc = IF cron.todo = {} THEN "idle" ELSE "next",
                               !.req = None]
  /\ UNCHANGED <<leave, call, clock, raced>>

CronDies ==
  /\ cron.pc # "idle"
  /\ deaths < MaxDeaths
  /\ deaths' = deaths + 1
  /\ cron' = IdleCron
  /\ UNCHANGED <<leave, attendance, marker, call, today, raced>>

-----------------------------------------------------------------------------
(* What is shown: fetchAttendance, fetchMyAttendance, findMyClassStudents.   *)
(* The server's time zone is UTC, so that a day is the same in every format. *)

Holiday(d) ==
  \/ d \in Sundays
  \/ \E e \in Events :
       /\ e.section \in {None, OwnSection}
       /\ e.from <= d /\ d <= IF e.to = NoDay THEN e.from ELSE e.to

\* Defect: a holiday is shown as such whatever was marked.
Shown_HolidayFirst(d) ==
  IF Holiday(d) THEN "HOLIDAY"
  ELSE IF attendance[d] = "none" THEN "UNMARKED" ELSE attendance[d]

\* A marked day shows its mark, be it a holiday or not.
Shown(d) ==
  IF attendance[d] # "none" THEN attendance[d]
  ELSE IF Holiday(d) THEN "HOLIDAY" ELSE "UNMARKED"

\* Leave, holidays and unmarked days do not count; the percentage is rounded.
Stats(days) ==
  LET count(status) ==
        Cardinality({d \in DOMAIN days : days[d] = status})
      working == count("PRESENT") + count("ABSENT")
  IN  [present |-> count("PRESENT"), absent |-> count("ABSENT"),
       leave |-> count("LEAVE"), holiday |-> count("HOLIDAY"),
       unmarked |-> count("UNMARKED"),
       percentage |-> IF working = 0 THEN 100
                      ELSE (200 * count("PRESENT") + working) \div (2 * working)]

DatesInRange(from, to) == from .. to

MyAttendance(from, to) == [d \in DatesInRange(from, to) |-> Shown(d)]

\* Defect: a request puts the student on the class list whatever its status.
OnLeave_AnyStatus(d) ==
  \E l \in Requests : leave[l].status # "absent"
                      /\ leave[l].start <= d /\ d <= leave[l].end

\* The class list goes by the requested dates, not by the approved ones, and by
\* any approved request.
OnLeave(d) ==
  \E l \in Requests : leave[l].status = "APPROVED"
                      /\ leave[l].start <= d /\ d <= leave[l].end

-----------------------------------------------------------------------------
Continue(c) == WriteDecision(c) \/ MarkDay(c) \/ WriteEscalation(c)

CronStep == CronScan \/ CronMark \/ \E l \in Requests : CronReject(l)

Next ==
  \/ \E l \in Requests, start, end \in Days : CreateLeave(l, start, end)
  \/ \E d \in Days, status \in Marks : MarkAttendance(d, status)
  \/ \E c \in Calls, l \in Requests :
       \/ \E role \in Roles, status \in Statuses, from, to \in Instants :
            CheckDecision(c, l, role, status, from, to)
       \/ CheckEscalation(c, l)
  \/ \E c \in Calls : Continue(c) \/ AbandonCall(c)
  \/ Midnight \/ CronStep \/ CronDies

Spec == Init /\ [][Next]_vars

\* Midnight comes every day, and Node runs every continuation.  Nobody has to
\* call anything.
FairSpec ==
  Spec /\ WF_vars(Midnight) /\ WF_vars(CronStep)
       /\ \A c \in Calls : WF_vars(Continue(c))

-----------------------------------------------------------------------------
(* What holds of leaves                                                    *)

\* Every variable holds what the code's columns and enums allow.
TypeOK ==
  /\ leave \in [Requests -> [status : Statuses \cup {"absent"},
                             start : Days, end : Days,
                             appStart : Days \cup {NoDay},
                             appEnd : Days \cup {NoDay}]]
  /\ attendance \in [Days -> {"none", "PRESENT", "ABSENT", "LEAVE"}]
  /\ marker \in [Days -> Requests \cup {"manual", None}]
  /\ call \in [Calls ->
                 [pc : {"new", "denied", "decide", "escalate", "mark", "done",
                        "lost"},
                  req : Requests \cup {None}, role : Roles, status : Statuses,
                  from : Instants, to : Instants, day : Days]]
  /\ cron \in [pc : {"idle", "scan", "next", "mark"}, todo : SUBSET Requests,
               req : Requests \cup {None}, day : Days]
  /\ today \in 0..(Horizon + 1)
  /\ deaths \in 0..MaxDeaths
  /\ raced \in SUBSET Requests

\* Where a decision call about l stands once it has written the row.
Decided(c, l) == call[c].req = l /\ call[c].pc \in {"mark", "done", "lost"}

\* A day reads LEAVE only if a teacher marked it so by hand or a principal or
\* class incharge approved a range the day is in: no interleaving of decisions,
\* escalations and the cron, dying anywhere, makes up a day of leave.
LeaveDaysWereGranted ==
  \A d \in Days :
    attendance[d] = "LEAVE" =>
      \/ marker[d] = "manual"
      \/ \E c \in Calls : /\ Decided(c, marker[d])
                          /\ call[c].status = "APPROVED"
                          /\ call[c].role # "other"
                          /\ call[c].from <= 2 * d /\ 2 * d <= call[c].to

\* What day d of request l may read, the day being l's to write.  On the first
\* approved day that depends on the time of day the approval was given from.
Allowed(l, d) ==
  LET v == leave[l] IN
  CASE v.status = "APPROVED" /\ v.appStart = d -> {"LEAVE", "ABSENT"}
    [] v.status = "APPROVED" /\ v.appStart < d /\ d <= v.appEnd -> {"LEAVE"}
    [] OTHER -> {"ABSENT"}

Interrupted(l) ==
  deaths > 0 \/ \E c \in Calls : call[c].req = l /\ call[c].pc = "lost"

\* Once the handling of a decided request is over, each of its days has been
\* written, and a day nobody wrote since reads as the decision says: over any
\* sequence of decisions, escalations and nights of which no two handled the
\* request at once and none was cut short.
AttendanceFollowsDecision ==
  \A l \in Requests \ raced :
    leave[l].status \in {"APPROVED", "REJECTED"}
      /\ ~Handling(l) /\ ~Interrupted(l) =>
        \A d \in leave[l].start .. leave[l].end :
          /\ marker[d] # None
          /\ marker[d] = l => attendance[d] \in Allowed(l, d)

\* Every approval of l so far was of the whole range, from its first midnight.
Whole(l) ==
  /\ leave[l].status = "APPROVED"
  /\ \A c \in Calls : Decided(c, l) /\ call[c].status = "APPROVED" =>
       call[c].from = 2 * leave[l].start /\ DayOf(call[c].to) = leave[l].end

\* Nobody is to write for l any more: it is decided, no two handled it at once
\* and no handling was cut short.
Settled(l) ==
  /\ leave[l].status \in {"APPROVED", "REJECTED"}
  /\ l \notin raced /\ ~Handling(l) /\ ~Interrupted(l)

(* The calendar and its statistics (attendance.service.ts:132, :330) agree   *)
(* with the decision: over the days of a settled request that nobody wrote   *)
(* since, a student whose whole leave was approved is at 100 percent, and    *)
(* one whose leave was refused at 0, with no day shown as a holiday.         *)
CalendarAgrees ==
  \A l \in Requests :
    LET range == DatesInRange(leave[l].start, leave[l].end)
        stats == Stats(MyAttendance(leave[l].start, leave[l].end))
    IN  Settled(l) /\ (\A d \in range : marker[d] = l) =>
        /\ Whole(l) => /\ stats.percentage = 100
                       /\ stats.leave = Cardinality(range)
        /\ leave[l].status = "REJECTED" => /\ stats.percentage = 0
                                           /\ stats.holiday = 0

\* The requests a day is in.
Over(d) ==
  {l \in Requests : /\ leave[l].status # "absent"
                    /\ leave[l].start <= d /\ d <= leave[l].end}

\* The class list ignores that an approval was partial, and that the refusal of
\* another request over the day may have marked it.
Overstated(d) ==
  \E l \in Over(d) :
    /\ leave[l].status = "APPROVED"
    /\ ~Whole(l) \/ \E k \in Over(d) : leave[k].status = "REJECTED"

(* The class list (sections.service.ts:146), which asks the requests, and    *)
(* the calendar, which asks the attendance, agree on a day whose requests    *)
(* are all settled and that nobody marked by hand: who is away on his        *)
(* calendar is away on the list, and the other way round unless the list     *)
(* overstates.  In particular a refused request puts nobody on the list.     *)
ClassListAgrees ==
  \A d \in Days :
    Over(d) # {} /\ (\A l \in Over(d) : Settled(l)) /\ marker[d] # "manual" =>
      /\ Shown(d) = "LEAVE" => OnLeave(d)
      /\ OnLeave(d) => Shown(d) = "LEAVE" \/ Overstated(d)

\* The step in which call c writes what its check allowed.
Writes(c) ==
  call[c].pc \in {"decide", "escalate"} /\ call'[c].pc \in {"mark", "done"}

\* A write acts on the status its check allowed, on every request that was not
\* handled by two at once: a class incharge's decision finds the request not
\* escalated, an escalation finds it REJECTED, the cron finds it still open.
NoStaleWrite ==
  [][/\ \A c \in Calls :
          Writes(c) /\ call[c].req \notin raced =>
            LET status == leave[call[c].req].status IN
            IF call[c].pc = "escalate" THEN status = "REJECTED"
            ELSE call[c].role = "incharge" => status # "ESCALATED"
     /\ cron.pc = "next" /\ cron'.pc = "mark" /\ cron'.req \notin raced
          => leave[cron'.req].status \in Open]_vars

\* A request that expires open is closed, however often the cron dies (a bounded
\* number of times) and whatever is called meanwhile.
ExpiredAreClosed == \A l \in Requests : Expired(l) ~> leave[l].status \notin Open

\* And the days of an expired request are all marked in the end, unless the
\* process died while handling it.
ExpiredAreMarked ==
  \A l \in Requests :
    Expired(l) ~> \/ Interrupted(l)
                  \/ \A d \in leave[l].start .. leave[l].end : marker[d] # None
=============================================================================
