----------------------------- MODULE Coursework -----------------------------
(***************************************************************************)
(* Assignments, submissions, grades, ratings and ranks, and exam sheets.    *)
(*                                                                         *)
(* A submission is checked, uploaded and created in separate steps, and no  *)
(* constraint keeps a second one out.  A grade is written first; the rating *)
(* is recalculated from a read of all marks, and the ranks of every student *)
(* are then rewritten one by one from a sorted read.  A user may have       *)
(* several student profiles (a transfer adds one), and his rating spans     *)
(* them all.  Percentages and ratings are fractions, as exact as a division *)
(* gets, and only what the lists show is rounded.  raced, stale and ranker  *)
(* are history: what two calls handled at once, whose rating may be behind, *)
(* and the one rank update nothing has overtaken since its read.            *)
(***************************************************************************)
EXTENDS Integers, FiniteSets, FiniteSetsExt, Sequences, SequencesExt

CONSTANTS
  Users,       \* users of role STUDENT
  Students,    \* their profiles
  UserOf,      \* students.users_id
  Assignments,
  MaxMarks,    \* Assignment.maxMarks; 0 where it is not set
  Scale,       \* a common multiple of the maxima: the unit of percentages
  Marks,       \* bound: marks a teacher gives
  Calls,       \* requests: submit, grade, submitResults
  Sheets,      \* bound: which students an exam sheet lists
  Stranger,    \* a student id that does not exist
  None

ASSUME CourseworkAssumption ==
  /\ UserOf \in [Students -> Users]
  /\ MaxMarks \in [Assignments -> Int] /\ Marks \subseteq Int
  /\ Scale \in Nat \ {0}
  /\ \A a \in Assignments : MaxMarks[a] > 0 => Scale % MaxMarks[a] = 0
  /\ IsFiniteSet(Users) /\ IsFiniteSet(Calls)
  /\ Stranger \notin Students
  /\ Sheets \subseteq SUBSET (Students \cup {Stranger})
  /\ None \notin Students \cup Assignments \cup Calls \cup Int

VARIABLES
  assignment, \* Assignment: whether it exists, has its group chat, is overdue
  row,        \* submission: the one each call created, its marks once graded
  rating,     \* users.globalRating
  rank,       \* users.globalRank; 0 where it was never written
  scheduled,  \* is the exam scheduled?
  result,     \* ExamResult: the sheet each student's row was last written by
  call,       \* a request: where it stands and what it has read
  raced,      \* <<student, assignment>>: two submissions at once (history)
  stale,      \* users whose gradings overlapped or died half way (history)
  ranker      \* the last rank update, unless overtaken (history)

vars == <<assignment, row, rating, rank, scheduled, result, call,
          raced, stale, ranker>>
coursework == <<assignment, row, raced>>
ratings == <<rating, rank, stale, ranker>>
exams == <<scheduled, result>>

Zero == [num |-> 0, den |-> 1]
Idle(pc) == [pc |-> pc, student |-> None, of |-> None, marks |-> 0,
             average |-> Zero, list |-> <<>>, ranked |-> 0, sheet |-> {}]
Absent == [student |-> None, of |-> None, marks |-> None]

Init ==
  /\ assignment = [a \in Assignments |-> "none"]
  /\ row = [c \in Calls |-> Absent]
  /\ rating = [u \in Users |-> Zero] /\ rank = [u \in Users |-> 0]
  /\ scheduled = FALSE /\ result = [s \in Students |-> None]
  /\ call = [c \in Calls |-> Idle("new")]
  /\ raced = {} /\ stale = {} /\ ranker = None

Step(c, pc) == call' = [call EXCEPT ![c].pc = pc]
Finish(c, pc) == call' = [call EXCEPT ![c] = Idle(pc)]

-----------------------------------------------------------------------------
(* Assignments and submissions                                             *)

\* A teacher of the section and subject posts it: the row first, the group
\* chat of the section in a second write that a failure leaves out.
CreateAssignment(a) ==
  /\ assignment[a] = "none"
  /\ assignment' = [assignment EXCEPT ![a] = "posted"]
  /\ UNCHANGED <<row, raced, ratings, exams, call>>

CreateAssignmentGroup(a) ==
  /\ assignment[a] = "posted"
  /\ assignment' = [assignment EXCEPT ![a] = "discussed"]
  /\ UNCHANGED <<row, raced, ratings, exams, call>>

PassDueDate(a) ==
  /\ assignment[a] \in {"posted", "discussed"}
  /\ assignment' = [assignment EXCEPT ![a] = "overdue"]
  /\ UNCHANGED <<row, raced, ratings, exams, call>>

Submissions(s, a) == {c \in Calls : row[c].student = s /\ row[c].of = a}

\* Defect: the search for an earlier submission looks at graded ones only.
Submittable_Ungraded(s, a) ==
  /\ assignment[a] \in {"posted", "discussed"}
  /\ \A c \in Submissions(s, a) : row[c].marks = None

\* A draft is not told apart from a published assignment here.
Submittable(s, a) ==
  /\ assignment[a] \in {"posted", "discussed"}
  /\ Submissions(s, a) = {}

CheckSubmit(c, s, a) ==
  /\ call[c].pc = "new" /\ Submittable(s, a)
  /\ call' = [call EXCEPT ![c].pc = "submitting", ![c].student = s, ![c].of = a]
  /\ raced' = raced \cup
       {<<s, a>> : d \in {d \in Calls : call[d].pc = "submitting"
                                        /\ call[d].student = s /\ call[d].of = a}}
  /\ UNCHANGED <<assignment, row, ratings, exams>>

\* After compiling and uploading the files, whatever happened meanwhile.
CreateSubmission(c) ==
  /\ call[c].pc = "submitting"
  /\ row' = [row EXCEPT ![c] = [student |-> call[c].student, of |-> call[c].of,
                                marks |-> None]]
  /\ Finish(c, "done")
  /\ UNCHANGED <<assignment, raced, ratings, exams>>

-----------------------------------------------------------------------------
(* Grades, ratings and ranks                                               *)

\* The submissions of a user, under any of his profiles.
Owned(u) == {c \in Calls : row[c] # Absent /\ UserOf[row[c].student] = u}

\* Those that count, what each counts for in parts of Scale, and the mean.
Counted(u) ==
  {c \in Owned(u) : row[c].marks # None /\ MaxMarks[row[c].of] > 0}
Percentage(c) == 100 * row[c].marks * (Scale \div MaxMarks[row[c].of])
MeanOf(some) ==
  IF some = {} THEN Zero
  ELSE [num |-> SumFunction([c \in some |-> Percentage(c)]),
        den |-> Cardinality(some) * Scale]

\* Defect: the sum is divided by the number of all marked submissions.
Average_OverAll(u) ==
  [num |-> MeanOf(Counted(u)).num,
   den |-> Cardinality({c \in Owned(u) : row[c].marks # None}) * Scale]

Average(u) == MeanOf(Counted(u))

\* Calls that have written a mark of u and not yet the rating.
Rating(u) == {c \in Calls : /\ call[c].pc \in {"marked", "averaged"}
                            /\ UserOf[call[c].student] = u}

\* The submission is found and of the grader's school.
CheckGrade(c, r, m) ==
  /\ call[c].pc = "new" /\ row[r] # Absent
  /\ call' = [call EXCEPT ![c].pc = "grading", ![c].student = row[r].student,
                          ![c].of = r, ![c].marks = m]
  /\ UNCHANGED <<coursework, ratings, exams>>

\* Marks are not compared with maxMarks, and a graded row is graded again.
WriteMarks(c) ==
  LET u == UserOf[call[c].student] IN
  /\ call[c].pc = "grading"
  /\ row' = [row EXCEPT ![call[c].of].marks = call[c].marks]
  /\ stale' = IF Rating(u) = {} THEN stale ELSE stale \cup {u}
  /\ Step(c, "marked")
  /\ UNCHANGED <<assignment, raced, rating, rank, ranker, exams>>

\* Defect: the row being graded is read from before its update.
ReadMarks_TooEarly(c) ==
  LET others == Counted(UserOf[call[c].student]) \ {call[c].of} IN
  /\ call[c].pc = "marked"
  /\ call' = [call EXCEPT ![c].pc = "averaged", ![c].of = None,
                          ![c].average = MeanOf(others)]
  /\ UNCHANGED <<coursework, ratings, exams>>

ReadMarks(c) ==
  /\ call[c].pc = "marked"
  /\ call' = [call EXCEPT ![c].pc = "averaged", ![c].of = None,
                          ![c].average = Average(UserOf[call[c].student])]
  /\ UNCHANGED <<coursework, ratings, exams>>

WriteRating(c) ==
  /\ call[c].pc = "averaged"
  /\ rating' = [rating EXCEPT ![UserOf[call[c].student]] = call[c].average]
  /\ ranker' = None
  /\ call' = [call EXCEPT ![c] = Idle("rated")]
  /\ UNCHANGED <<coursework, rank, stale, exams>>

AtLeast(p, q) == p.num * q.den >= q.num * p.den

\* Defect: equal ratings aside, the list comes in ascending order.
Sorted_Ascending(list) ==
  \A i, j \in 1..Len(list) : i < j => AtLeast(rating[list[j]], rating[list[i]])

\* Users of equal rating come in any order.
Sorted(list) ==
  \A i, j \in 1..Len(list) : i < j => AtLeast(rating[list[i]], rating[list[j]])

ReadRanking(c) ==
  /\ call[c].pc = "rated"
  /\ \E list \in SetToSeqs(Users) :
       Sorted(list) /\ call' = [call EXCEPT ![c].pc = "ranking", ![c].list = list]
  /\ ranker' = c
  /\ UNCHANGED <<coursework, rating, rank, stale, exams>>

WriteRank(c) ==
  LET i == call[c].ranked + 1 IN
  /\ call[c].pc = "ranking" /\ i =< Len(call[c].list)
  /\ rank' = [rank EXCEPT ![call[c].list[i]] = i]
  /\ call' = [call EXCEPT ![c] = IF i = Len(@.list) THEN Idle("done")
                                 ELSE [@ EXCEPT !.ranked = i]]
  /\ ranker' = IF ranker = c THEN c ELSE None
  /\ UNCHANGED <<coursework, rating, stale, exams>>

-----------------------------------------------------------------------------
(* Exams                                                                   *)

\* A second schedule of one subject, exam and section is refused, by the check
\* or by the unique constraint.
ScheduleExam ==
  /\ ~scheduled /\ scheduled' = TRUE
  /\ UNCHANGED <<coursework, ratings, result, call>>

CheckSheet(c, who) ==
  /\ call[c].pc = "new" /\ scheduled
  /\ call' = [call EXCEPT ![c].pc = "sheet", ![c].sheet = who]
  /\ UNCHANGED <<coursework, ratings, exams>>

\* All rows are upserted in one transaction: one unknown student undoes them.
CommitSheet(c) ==
  /\ call[c].pc = "sheet"
  /\ IF Stranger \in call[c].sheet
     THEN Finish(c, "dead") /\ UNCHANGED result
     ELSE /\ result' = [s \in Students |->
                          IF s \in call[c].sheet THEN c ELSE result[s]]
          /\ Finish(c, "done")
  /\ UNCHANGED <<coursework, ratings, scheduled>>

\* A write fails or the process dies between two steps of a call.
Abandon(c) ==
  /\ call[c].pc \notin {"new", "done", "dead"}
  /\ stale' = stale \cup {u \in Users : c \in Rating(u)}
  /\ Finish(c, "dead")
  /\ UNCHANGED <<coursework, rating, rank, ranker, exams>>

Next ==
  \/ \E a \in Assignments :
       CreateAssignment(a) \/ CreateAssignmentGroup(a) \/ PassDueDate(a)
  \/ ScheduleExam
  \/ \E c \in Calls :
       \/ \E s \in Students, a \in Assignments : CheckSubmit(c, s, a)
       \/ CreateSubmission(c)
       \/ \E r \in Calls, m \in Marks : CheckGrade(c, r, m)
       \/ WriteMarks(c)
       \/ ReadMarks(c)
       \/ WriteRating(c)
       \/ ReadRanking(c)
       \/ WriteRank(c)
       \/ \E who \in Sheets : CheckSheet(c, who)
       \/ CommitSheet(c)
       \/ Abandon(c)

Spec == Init /\ [][Next]_vars

-----------------------------------------------------------------------------
(* The lists of students and teachers                                      *)

LetterGrade(percentage) ==
  CASE percentage >= 95 -> "A++" [] percentage \in 90..94 -> "A+"
    [] percentage \in 80..89 -> "A" [] percentage \in 70..79 -> "B"
    [] percentage \in 60..69 -> "C" [] percentage \in 50..59 -> "D"
    [] percentage \in 33..49 -> "E" [] OTHER -> "F"

\* Math.round(n / d): a half goes up, whatever the signs.
Rounded(n, d) ==
  LET sign == IF d > 0 THEN 1 ELSE -1 IN
  (2 * sign * n + sign * d) \div (2 * sign * d)

\* A marked submission is shown with its rounded percentage and letter.
Graded(c) ==
  LET max == MaxMarks[row[c].of]
      percentage == Rounded(100 * row[c].marks, max)
  IN  IF row[c].marks = None \/ max = 0
      THEN [percentage |-> None, letterGrade |-> None]
      ELSE [percentage |-> percentage, letterGrade |-> LetterGrade(percentage)]

\* The teacher's list has every submission of the assignment.
FetchSubmissions(a) == [c \in {c \in Calls : row[c].of = a} |-> Graded(c)]

-----------------------------------------------------------------------------
(* What teachers and students may rely on                                  *)

\* "You have already submitted this assignment." (assignments.service.ts:314):
\* a student has one submission of an assignment, unless two of his calls were
\* between the check and the create at once.
OneSubmission ==
  \A s \in Students, a \in Assignments :
    <<s, a>> \notin raced => Cardinality(Submissions(s, a)) =< 1

Abs(n) == IF n < 0 THEN -n ELSE n

(* Whenever no grading of a user is under way, his rating is within half a   *)
(* point of the average of the percentages that the teachers' lists show     *)
(* for his submissions, under all his profiles and duplicates included: the  *)
(* lists round each percentage (assignments.service.ts:496), the rating      *)
(* rounds nothing (analytics.service.ts:36).  Not if two of his gradings     *)
(* overlapped or one died half way.  What was posted with a maximum below    *)
(* zero is shown, but not rated.                                             *)
RatingIsAverage ==
  \A u \in Users \ stale : Rating(u) = {} =>
    LET seen(c) == FetchSubmissions(row[c].of)[c].percentage
        shown == {c \in Owned(u) : seen(c) # None /\ MaxMarks[row[c].of] > 0}
        total == SumFunction([c \in shown |-> seen(c)])
        n == Cardinality(shown)
    IN  IF shown = {} THEN rating[u].num = 0
        ELSE 2 * Abs(total * rating[u].den - n * rating[u].num) =< n * rating[u].den

\* After a rank update that nothing overtook, the ranks are 1, 2, ... without
\* gap or repetition, and a better rank never has a lower rating.
RanksFollowRatings ==
  ranker # None /\ call[ranker].pc = "done" =>
    /\ {rank[u] : u \in Users} = 1..Cardinality(Users)
    /\ \A u, v \in Users : rank[u] < rank[v] => AtLeast(rating[u], rating[v])
=============================================================================
