----------------------------- MODULE Enrolment -----------------------------
(***************************************************************************)
(* Schools, classes, sections, users and their profiles.                    *)
(*                                                                         *)
(* Every operation that creates a row first looks whether one is there, and *)
(* creates it in a later step; only email addresses and the class incharge  *)
(* are unique for the database.  A student who moves to another school is   *)
(* marked TRANSFERRED in one write and enrolled in the next.  raced, cut    *)
(* and mixed are history: what two calls were creating at once, who lost    *)
(* his place half way through a transfer, and the students written with a   *)
(* school that is not the one their section was checked against.            *)
(***************************************************************************)
EXTENDS Integers, FiniteSets

CONSTANTS
  Schools,
  Users,              \* email addresses
  Calls,              \* requests; each names the row it creates
  StartUsers, StartGrades, StartSections,  \* there from the start: users with
                      \* role and school, classes by school, sections by class,
  FirstStudent, FirstTeacher,              \* and the profile of one of each
  Super, None

Grades == Calls \cup DOMAIN StartGrades
Sections == Calls \cup DOMAIN StartSections
Students == Calls \cup {FirstStudent}
Teachers == Calls \cup {FirstTeacher}

ASSUME EnrolmentAssumption ==
  /\ Super \notin Schools /\ IsFiniteSet(Calls) /\ DOMAIN StartUsers \subseteq Users
  /\ \A g \in DOMAIN StartGrades : g \notin Calls /\ StartGrades[g] \in Schools
  /\ \A s \in DOMAIN StartSections :
       s \notin Calls /\ StartSections[s] \in DOMAIN StartGrades
  /\ \A g, h \in DOMAIN StartGrades : StartGrades[g] = StartGrades[h] => g = h
  /\ \A s, z \in DOMAIN StartSections : StartSections[s] = StartSections[z] => s = z
  /\ FirstStudent \notin Calls \cup {None} /\ FirstTeacher \notin Calls \cup {None}
  /\ None \notin Schools \cup Users \cup Grades \cup Sections \cup {Super}
  /\ None \notin {"PRINCIPAL", "TEACHER", "STUDENT", "ACTIVE", "TRANSFERRED"}

VARIABLES
  school,    \* the schools that exist
  user,      \* users: role and school; role None where there is no such user
  grade,     \* grade: the school of each that exists, or None
  section,   \* section: its grade (or None) and its class incharge
  student,   \* students: user, school, section, status; user None: no row
  teacher,   \* teachers: the user and school of each profile, or None
  principal, \* principal: the user and school of each profile, or None
  teaching,  \* teachersubjectsection: teacher and section; teacher None: no row
  chat,      \* assignments that have their subject group chat
  call,      \* a request: where it stands and what it has read
  raced, cut, mixed

vars == <<school, user, grade, section, student, teacher, principal,
          teaching, chat, call, raced, cut, mixed>>
classes == <<school, grade, section, chat, teaching>>
people == <<user, student, teacher, principal, cut, mixed>>

Nobody == [user |-> None, school |-> None]
NoStudent == [user |-> None, school |-> None, section |-> None, status |-> None]
Idle(pc) == [pc |-> pc, key |-> <<>>, school |-> None, section |-> None, row |-> None]

Init ==
  /\ school = {StartGrades[g] : g \in DOMAIN StartGrades}
  /\ user = [u \in Users |-> IF u \in DOMAIN StartUsers THEN StartUsers[u]
                             ELSE [role |-> None, school |-> None]]
  /\ grade = [g \in Grades |-> IF g \in Calls THEN None ELSE StartGrades[g]]
  /\ section = [s \in Sections |->
       [grade |-> IF s \in Calls THEN None ELSE StartSections[s], incharge |-> None]]
  /\ \E u, t \in DOMAIN StartUsers, s \in DOMAIN StartSections :
       /\ StartUsers[u].role = "STUDENT" /\ StartUsers[t].role = "TEACHER"
       /\ StartGrades[StartSections[s]] = StartUsers[u].school
       /\ student = [r \in Students |-> IF r \in Calls THEN NoStudent
                       ELSE [user |-> u, school |-> StartUsers[u].school,
                             section |-> s, status |-> "ACTIVE"]]
       /\ teacher = [x \in Teachers |-> IF x \in Calls THEN Nobody
                       ELSE [user |-> t, school |-> StartUsers[t].school]]
  /\ principal = [c \in Calls |-> Nobody]
  /\ teaching = [c \in Calls |-> [teacher |-> None, section |-> None]]
  /\ chat = {} /\ call = [c \in Calls |-> Idle("new")]
  /\ raced = {} /\ cut = {} /\ mixed = {}

-----------------------------------------------------------------------------
(* What the calls share                                                    *)

\* A caller is the super administrator or acts for his own school.
Callers == {Super} \cup school
ExistingSections == {s \in Sections : section[s].grade # None}
SchoolOf(s) == IF s \in ExistingSections THEN grade[section[s].grade] ELSE None
Rows(u) == {r \in Students : student[r].user = u /\ student[r].status = "ACTIVE"}

\* A call that found nothing under its key goes on to create it.
Creating(c, key, where, sec, row) ==
  /\ call[c].pc = "new"
  /\ call' = [call EXCEPT ![c] = [pc |-> "creating", key |-> key,
                                  school |-> where, section |-> sec, row |-> row]]
  /\ raced' = raced \cup {key : d \in {d \in Calls : call[d].key = key}}

\* A call that changes one row goes on to write it.
Changing(c, pc, where, sec, row) ==
  /\ call[c].pc = "new"
  /\ call' = [call EXCEPT ![c] = [pc |-> pc, key |-> <<>>,
                                  school |-> where, section |-> sec, row |-> row]]
  /\ UNCHANGED raced

At(c, kind) == call[c].pc = "creating" /\ call[c].key[1] = kind
Finish(c) == call' = [call EXCEPT ![c] = Idle("done")] /\ UNCHANGED raced
AtOnce(c) == call[c].pc = "new" /\ Finish(c)

-----------------------------------------------------------------------------
(* Schools and users                                                       *)

CreateSchool(c, x) ==
  /\ AtOnce(c) /\ x \notin school
  /\ school' = school \cup {x}
  /\ UNCHANGED <<grade, section, chat, teaching, people>>

MayCreate == [SUPER_ADMIN |-> {"PRINCIPAL", "TEACHER", "STUDENT"},
              PRINCIPAL |-> {"TEACHER", "STUDENT"},
              TEACHER |-> {"STUDENT"}, STUDENT |-> {}]

\* Someone with a role may create users below it: in his own school, or, the
\* super administrator, in the school he names.
CheckUser(c, u, role, maker, by) ==
  /\ role \in MayCreate[maker] /\ (by = Super) = (maker = "SUPER_ADMIN")
  /\ user[u].role = None
  /\ \E x \in IF by = Super THEN school \cup {None} ELSE {by} :
       Creating(c, <<"user", u, role>>, x, None, None)
  /\ UNCHANGED <<classes, people>>

\* The address is unique for the database: a second one is refused.
CreateUser(c) ==
  /\ At(c, "user") /\ Finish(c)
  /\ LET u == call[c].key[2]
     IN  user' = IF user[u].role # None THEN user
                 ELSE [user EXCEPT ![u] = [role |-> call[c].key[3],
                                           school |-> call[c].school]]
  /\ UNCHANGED <<classes, student, teacher, principal, cut, mixed>>

CheckSchoolWithPrincipal(c, u, x) ==
  /\ user[u].role = None /\ x \notin school
  /\ Creating(c, <<"school", u, x>>, x, None, None)
  /\ UNCHANGED <<classes, people>>

\* School, user and profile in one transaction, undone if the address is taken.
CommitSchoolWithPrincipal(c) ==
  /\ At(c, "school") /\ Finish(c)
  /\ LET u == call[c].key[2]  x == call[c].school
     IN  IF user[u].role # None THEN UNCHANGED <<school, user, principal>>
         ELSE /\ school' = school \cup {x}
              /\ user' = [user EXCEPT ![u] = [role |-> "PRINCIPAL", school |-> x]]
              /\ principal' = [principal EXCEPT ![c] = [user |-> u, school |-> x]]
  /\ UNCHANGED <<grade, section, chat, teaching, student, teacher, cut, mixed>>

\* One transaction, which the write of the user's row makes wait for another.
AssignPrincipal(c, u, x) ==
  /\ call[c].pc = "new" /\ user[u].role # None /\ x \in school
  /\ call' = [call EXCEPT ![c] = Idle("done")]
  /\ user' = [user EXCEPT ![u] = [role |-> "PRINCIPAL", school |-> x]]
  /\ LET mine == {p \in Calls : principal[p].user = u}
     IN  \/ /\ mine = {}
            /\ principal' = [principal EXCEPT ![c] = [user |-> u, school |-> x]]
         \/ \E p \in mine :
              principal' = [principal EXCEPT ![p].school = x]
  /\ raced' = raced \cup {<<"principal", u>> : d \in
                {d \in Calls : call[d].key = <<"principal", u>>}}
  /\ UNCHANGED <<classes, student, teacher, cut, mixed>>

-----------------------------------------------------------------------------
(* Profiles of principals and teachers                                     *)

CheckPrincipal(c, u, x) ==
  /\ user[u].role = "PRINCIPAL" /\ \A p \in Calls : principal[p].user # u
  /\ Creating(c, <<"principal", u>>, x, None, None)
  /\ UNCHANGED <<classes, people>>

CreatePrincipal(c) ==
  /\ At(c, "principal") /\ Finish(c)
  /\ principal' = [principal EXCEPT ![c] =
       [user |-> call[c].key[2], school |-> call[c].school]]
  /\ UNCHANGED <<classes, user, student, teacher, cut, mixed>>

\* Defect: the search for a profile is confined to the school named.
CheckTeacher_PerSchool(c, u, x) ==
  /\ user[u].role = "TEACHER"
  /\ \A t \in Teachers : teacher[t] # [user |-> u, school |-> x]
  /\ Creating(c, <<"teacher", u>>, x, None, None)
  /\ UNCHANGED <<classes, people>>

CheckTeacher(c, u, x) ==
  /\ user[u].role = "TEACHER" /\ \A t \in Teachers : teacher[t].user # u
  /\ Creating(c, <<"teacher", u>>, x, None, None)
  /\ UNCHANGED <<classes, people>>

CreateTeacher(c) ==
  /\ At(c, "teacher") /\ Finish(c)
  /\ teacher' = [teacher EXCEPT ![c] =
       [user |-> call[c].key[2], school |-> call[c].school]]
  /\ UNCHANGED <<classes, user, student, principal, cut, mixed>>

CheckTeaching(c, t, s, by) ==
  /\ teacher[t].user # None /\ s \in ExistingSections
  /\ by # Super => teacher[t].school = by /\ SchoolOf(s) = by
  /\ \A a \in Calls : teaching[a] # [teacher |-> t, section |-> s]
  /\ Creating(c, <<"teaching", t, s>>, None, s, t)
  /\ UNCHANGED <<classes, people>>

\* Refused if the section is gone; the subject's group chat comes after it.
CreateTeaching(c) ==
  /\ At(c, "teaching") /\ UNCHANGED raced
  /\ LET s == call[c].section
     IN  IF s \notin ExistingSections
         THEN /\ call' = [call EXCEPT ![c] = Idle("done")] /\ UNCHANGED teaching
         ELSE /\ call' = [call EXCEPT ![c] = [Idle("chatting") EXCEPT !.section = s]]
              /\ teaching' = [teaching EXCEPT ![c] =
                                [teacher |-> call[c].row, section |-> s]]
  /\ UNCHANGED <<school, grade, section, chat, people>>

CreateSubjectGroup(c) ==
  /\ call[c].pc = "chatting" /\ Finish(c)
  /\ chat' = chat \cup {c}
  /\ UNCHANGED <<school, grade, section, teaching, people>>

-----------------------------------------------------------------------------
(* Classes and sections.  All the names of one kind are taken to be equal: *)
(* a class is identified by its school, a section by its class.            *)

CheckGrade(c, x, by) ==
  /\ by \in {Super, x} /\ x \in school
  /\ \A g \in Grades : grade[g] # x
  /\ Creating(c, <<"grade", x>>, x, None, None)
  /\ UNCHANGED <<classes, people>>

\* With it, its sections, if any were asked for: one transaction.
CommitGrade(c) ==
  /\ At(c, "grade") /\ Finish(c)
  /\ grade' = [grade EXCEPT ![c] = call[c].school]
  /\ section' \in {section, [section EXCEPT ![c].grade = c]}
  /\ UNCHANGED <<school, chat, teaching, people>>

CheckSection(c, g, by) ==
  /\ grade[g] # None /\ by \in {Super, grade[g]}
  /\ \A s \in Sections : section[s].grade # g
  /\ Creating(c, <<"section", g>>, None, None, g)
  /\ UNCHANGED <<classes, people>>

CreateSection(c) ==
  /\ At(c, "section") /\ Finish(c)
  /\ section' = IF grade[call[c].row] = None THEN section
                ELSE [section EXCEPT ![c].grade = call[c].row]
  /\ UNCHANGED <<school, grade, chat, teaching, people>>

CheckIncharge(c, s, t, by) ==
  /\ s \in ExistingSections /\ teacher[t].user # None
  /\ by # Super => SchoolOf(s) = by /\ teacher[t].school = by
  /\ \A z \in Sections : section[z].incharge # t
  /\ Changing(c, "incharge", None, s, t)
  /\ UNCHANGED <<classes, people>>

\* The incharge is unique for the database.
WriteIncharge(c) ==
  /\ call[c].pc = "incharge" /\ Finish(c)
  /\ section' = IF \/ call[c].section \notin ExistingSections
                   \/ \E z \in Sections : section[z].incharge = call[c].row
                THEN section
                ELSE [section EXCEPT ![call[c].section].incharge = call[c].row]
  /\ UNCHANGED <<school, grade, chat, teaching, people>>

Taught(gone) == \E a \in Calls : teaching[a].section \in gone
Unassign(gone) ==
  [r \in Students |-> IF student[r].section \in gone
                      THEN [student[r] EXCEPT !.section = None] ELSE student[r]]
Without(gone) ==
  [s \in Sections |-> IF s \in gone THEN [grade |-> None, incharge |-> None]
                      ELSE section[s]]

\* Students are unassigned and the section deleted in one transaction: the
\* database refuses it, and undoes both, while an assignment refers to it.
DeleteSection(c, s, by) ==
  /\ AtOnce(c) /\ s \in ExistingSections /\ by \in {Super, SchoolOf(s)}
  /\ IF Taught({s}) THEN UNCHANGED <<student, section>>
     ELSE student' = Unassign({s}) /\ section' = Without({s})
  /\ UNCHANGED <<school, grade, chat, teaching, user, teacher, principal, cut, mixed>>

DeleteGrade(c, g, by) ==
  /\ AtOnce(c) /\ grade[g] # None /\ by \in {Super, grade[g]}
  /\ LET gone == {s \in Sections : section[s].grade = g}
     IN  IF Taught(gone) THEN UNCHANGED <<student, section, grade>>
         ELSE /\ student' = Unassign(gone) /\ section' = Without(gone)
              /\ grade' = [grade EXCEPT ![g] = None]
  /\ UNCHANGED <<school, chat, teaching, user, teacher, principal, cut, mixed>>

-----------------------------------------------------------------------------
(* Students                                                                *)

\* The section must be of the caller's school, or the one the super
\* administrator names; the row takes the school named in any case.
Target(by, named) == IF by = Super THEN named ELSE by
Written(by, named) == IF named = None THEN Target(by, named) ELSE named

CheckEnrol(c, u, s, by, named) ==
  /\ user[u].role = "STUDENT" /\ s \in ExistingSections
  /\ Target(by, named) # None /\ SchoolOf(s) = Target(by, named)
  /\ \/ /\ Rows(u) = {}
        /\ Creating(c, <<"student", u>>, Written(by, named), s, None)
     \/ \E r \in Rows(u) :
          IF student[r].school = Target(by, named)
          THEN Changing(c, "updating", named, s, r)
          ELSE Creating(c, <<"student", u>>, Written(by, named), s, r)
  /\ mixed' = IF Written(by, named) = Target(by, named) THEN mixed ELSE mixed \cup {c}
  /\ UNCHANGED <<classes, user, student, teacher, principal, cut>>

MarkTransferred(c) ==
  /\ At(c, "student") /\ call[c].row # None
  /\ student' = [student EXCEPT ![call[c].row].status = "TRANSFERRED"]
  /\ call' = [call EXCEPT ![c].row = None]
  /\ UNCHANGED <<classes, user, teacher, principal, raced, cut, mixed>>

\* Defect: the new row waits for its school to accept it.
CreateStudent_Pending(c) ==
  /\ At(c, "student") /\ call[c].row = None /\ Finish(c)
  /\ LET u == call[c].key[2]  s == call[c].section
     IN  /\ student' = IF s \notin ExistingSections THEN student
               ELSE [student EXCEPT ![c] = [user |-> u, school |-> call[c].school,
                       section |-> s, status |-> "WITHDRAWN"]]
         /\ cut' = IF s \in ExistingSections THEN cut ELSE cut \cup {u}
  /\ UNCHANGED <<classes, user, teacher, principal, mixed>>

\* Refused if the section is gone, whatever was written before.
CreateStudent(c) ==
  /\ At(c, "student") /\ call[c].row = None /\ Finish(c)
  /\ LET u == call[c].key[2]  s == call[c].section
     IN  /\ student' = IF s \notin ExistingSections THEN student
               ELSE [student EXCEPT ![c] = [user |-> u, school |-> call[c].school,
                       section |-> s, status |-> "ACTIVE"]]
         /\ cut' = IF s \in ExistingSections THEN cut ELSE cut \cup {u}
  /\ UNCHANGED <<classes, user, teacher, principal, mixed>>

\* Defect: the caller's school is not compared with the section's.
CheckUpdate_AnySection(c, r, s, by, named) ==
  /\ student[r].user # None /\ by \in {Super, student[r].school}
  /\ s # None => s \in ExistingSections
  /\ Changing(c, "updating", named, s, r)
  /\ UNCHANGED <<classes, people>>

\* By any member of the school: a section, a school, or both.
CheckUpdate(c, r, s, by, named) ==
  /\ student[r].user # None /\ by \in {Super, student[r].school}
  /\ s # None => /\ s \in ExistingSections
                 /\ SchoolOf(s) = IF by # Super THEN by
                                  ELSE IF named # None THEN named
                                  ELSE student[r].school
  /\ Changing(c, "updating", named, s, r)
  /\ UNCHANGED <<classes, people>>

\* Another call has compared the school of this row and will write its section.
Awaited(c, r) ==
  \E d \in Calls \ {c} :
    \/ call[d].pc = "updating" /\ call[d].row = r
    \/ call[d].pc = "moving" /\ r \in call[d].row

\* What the call does not name stays; a section that is gone is refused.
WriteUpdate(c) ==
  /\ call[c].pc = "updating" /\ Finish(c)
  /\ LET r == call[c].row  s == call[c].section
         to == [student[r] EXCEPT
                  !.section = IF s = None THEN @ ELSE s,
                  !.school = IF call[c].school = None THEN @ ELSE call[c].school]
     IN  IF s \notin ExistingSections \cup {None} THEN UNCHANGED <<student, mixed>>
         ELSE /\ student' = [student EXCEPT ![r] = to]
              /\ mixed' = IF \/ call[c].school = None
                              \/ (SchoolOf(s) = call[c].school /\ ~Awaited(c, r))
                           THEN mixed ELSE mixed \cup {r}
  /\ UNCHANGED <<classes, user, teacher, principal, cut>>

\* A whole list to one section; the super administrator may move anyone.
CheckBulk(c, list, s, by) ==
  /\ s \in ExistingSections /\ by \in {Super, SchoolOf(s)}
  /\ by # Super => \A r \in list : student[r].school = by
  /\ Changing(c, IF by = Super THEN "moving any" ELSE "moving", None, s, list)
  /\ UNCHANGED <<classes, people>>

UpdateBulkSection(c) ==
  /\ call[c].pc \in {"moving", "moving any"} /\ Finish(c)
  /\ LET s == call[c].section
     IN  IF s \notin ExistingSections THEN UNCHANGED <<student, mixed>>
         ELSE /\ student' = [r \in Students |->
                   IF r \in call[c].row THEN [student[r] EXCEPT !.section = s]
                   ELSE student[r]]
              /\ mixed' = IF call[c].pc = "moving" THEN mixed ELSE mixed \cup call[c].row
  /\ UNCHANGED <<classes, user, teacher, principal, cut>>

-----------------------------------------------------------------------------
\* The process dies between two writes of a call.
Abandon(c) ==
  /\ call[c].pc \notin {"new", "done"} /\ Finish(c)
  /\ cut' = IF At(c, "student") /\ call[c].row = None
            THEN cut \cup {call[c].key[2]} ELSE cut
  /\ UNCHANGED <<classes, user, student, teacher, principal, mixed>>

Office(c) ==
  \/ \E x \in Schools, u \in Users :
       CreateSchool(c, x) \/ CheckSchoolWithPrincipal(c, u, x)
  \/ \E u \in Users, role \in {"PRINCIPAL", "TEACHER", "STUDENT"},
        maker \in DOMAIN MayCreate, by \in Callers : CheckUser(c, u, role, maker, by)
  \/ \E u \in Users, x \in school :
       AssignPrincipal(c, u, x) \/ CheckPrincipal(c, u, x) \/ CheckTeacher(c, u, x)
  \/ CreateUser(c) \/ CommitSchoolWithPrincipal(c) \/ CreatePrincipal(c)
  \/ CreateTeacher(c) \/ CreateTeaching(c) \/ CreateSubjectGroup(c)

Timetabling(c) ==
  \/ \E t \in Teachers, s \in Sections, by \in Callers :
       CheckTeaching(c, t, s, by) \/ CheckIncharge(c, s, t, by)
  \/ \E x \in Schools, by \in Callers : CheckGrade(c, x, by)
  \/ \E g \in Grades, by \in Callers : CheckSection(c, g, by) \/ DeleteGrade(c, g, by)
  \/ \E s \in Sections, by \in Callers : DeleteSection(c, s, by)
  \/ CommitGrade(c) \/ CreateSection(c) \/ WriteIncharge(c)

Registry(c) ==
  \/ \E u \in Users, s \in Sections, by \in Callers, named \in school \cup {None} :
       CheckEnrol(c, u, s, by, named)
  \/ \E r \in Students, s \in Sections \cup {None}, by \in Callers,
        named \in school \cup {None} : CheckUpdate(c, r, s, by, named)
  \/ \E list \in SUBSET {r \in Students : student[r].user # None} \ {{}},
        s \in Sections, by \in Callers : CheckBulk(c, list, s, by)
  \/ MarkTransferred(c) \/ CreateStudent(c) \/ WriteUpdate(c) \/ UpdateBulkSection(c)

Next == \E c \in Calls : Office(c) \/ Timetabling(c) \/ Registry(c) \/ Abandon(c)

Spec == Init /\ [][Next]_vars

-----------------------------------------------------------------------------
Two(S, P(_)) == \E x, y \in S : x # y /\ P(x) /\ P(y)

(* There is one class of a name in a school, one section of a name in a     *)
(* class, one profile of a teacher or principal, one assignment of a        *)
(* teacher to a section, and one ACTIVE enrolment of a student, though only *)
(* the code looks (sections.service.ts:26, grades.service.ts:48,            *)
(* teachers.service.ts:33, students.service.ts:43): unless two calls were   *)
(* creating it at once.                                                     *)
OneOfEach ==
  /\ \A x \in Schools :
       Two(Grades, LAMBDA g : grade[g] = x) => <<"grade", x>> \in raced
  /\ \A g \in Grades :
       Two(Sections, LAMBDA s : section[s].grade = g) => <<"section", g>> \in raced
  /\ \A u \in Users :
       /\ Two(Teachers, LAMBDA t : teacher[t].user = u) => <<"teacher", u>> \in raced
       /\ Two(Calls, LAMBDA p : principal[p].user = u) => <<"principal", u>> \in raced
       /\ Cardinality(Rows(u)) > 1 => <<"student", u>> \in raced
  /\ \A t \in Teachers, s \in Sections :
       Two(Calls, LAMBDA a : teaching[a] = [teacher |-> t, section |-> s])
         => <<"teaching", t, s>> \in raced

(* A student who left one school is enrolled in another, or a call is about *)
(* to do it (students.service.ts:51): unless the process died between the   *)
(* two writes, or the section went and the second write was refused.        *)
NotBetweenSchools ==
  \A r \in Students : student[r].status = "TRANSFERRED" =>
    LET u == student[r].user
    IN  \/ Rows(u) # {} \/ u \in cut
        \/ \E c \in Calls : At(c, "student") /\ call[c].key[2] = u

(* An enrolled student's section is one of his school (students.service.ts: *)
(* 39, :138, :171), unless his row was written with a school other than the *)
(* one the section was checked against, his school changed between another  *)
(* call's check and its write, or a list of the super administrator's moved *)
(* him, which is not checked.                                               *)
SchoolAgrees ==
  \A r \in Students :
    student[r].section # None /\ r \notin mixed =>
      SchoolOf(student[r].section) = student[r].school
=============================================================================
