--------------------------- MODULE EnrolmentProofs ---------------------------
(***************************************************************************)
(* Proofs about Enrolment, for any schools, users and calls, and any classes *)
(* and sections that are there from the start.                              *)
(***************************************************************************)
EXTENDS Enrolment, FiniteSetTheorems, TLAPS

-----------------------------------------------------------------------------
(* What the variables hold                                                 *)

SchoolRoles == {"PRINCIPAL", "TEACHER", "STUDENT"}

Keys ==
  {<<"user", u, role>> : u \in Users, role \in SchoolRoles}
    \cup {<<"school", u, x>> : u \in Users, x \in Schools}
    \cup {<<kind, u>> : kind \in {"principal", "teacher", "student"}, u \in Users}
    \cup {<<"teaching", t, s>> : t \in Teachers, s \in Sections}
    \cup {<<"grade", x>> : x \in Schools}
    \cup {<<"section", g>> : g \in Grades}

Names == Grades \cup Sections \cup Students \cup Teachers

StudentRow ==
  [user : Users \cup {None}, school : Schools \cup {None},
   section : Sections \cup {None}, status : {"ACTIVE", "TRANSFERRED", None}]

SectionRow == [grade : Grades \cup {None}, incharge : Teachers \cup {None}]

\* What a call is about: a row, or the students of a list.
Subjects == Names \cup SUBSET Students

CallRow ==
  [pc : {"new", "creating", "chatting", "incharge", "updating", "moving",
         "moving any", "done"},
   key : Keys \cup {<<>>}, school : Schools \cup {None},
   section : Sections \cup {None},
   row : Subjects \cup {None}]

Types ==
  /\ school \subseteq Schools
  /\ grade \in [Grades -> Schools \cup {None}]
  /\ section \in [Sections -> SectionRow]
  /\ student \in [Students -> StudentRow]
  /\ call \in [Calls -> CallRow]
  /\ DOMAIN user = Users /\ DOMAIN teacher = Teachers
  /\ DOMAIN principal = Calls /\ DOMAIN teaching = Calls

-----------------------------------------------------------------------------
(* The inductive invariant                                                 *)

\* x is not the name of a row that a call is still to create.
Born(x) == x \in Calls => call[x].pc = "done"

\* What a call under way refers to is there, or was and will not be created
\* again under the same name.
RefersTo(c) ==
  /\ call[c].pc = "creating" <=> call[c].key # <<>>
  /\ call[c].section # None => Born(call[c].section)
  /\ At(c, "principal") => user[call[c].key[2]].role # None
  /\ At(c, "section") => call[c].row = call[c].key[2] /\ Born(call[c].row)
  /\ At(c, "teaching") =>
       call[c].row = call[c].key[2] /\ call[c].section = call[c].key[3]
  /\ At(c, "school") => call[c].school = call[c].key[3]
  /\ At(c, "grade") => call[c].school = call[c].key[2]
  /\ call[c].pc = "incharge" => call[c].row \in Teachers
  /\ At(c, "student") /\ call[c].row # None =>
       /\ call[c].row \in Students /\ Born(call[c].row)
       /\ student[call[c].row].user = call[c].key[2]
  /\ call[c].pc = "updating" => call[c].row \in Students /\ Born(call[c].row)
  /\ call[c].pc \in {"moving", "moving any"} =>
       call[c].row \subseteq Students /\ \A r \in call[c].row : Born(r)

Refers == \A c \in Calls : RefersTo(c)

\* A call that is not over has created no class, section or student; sections
\* are of classes that exist, students in sections that do, and a principal's
\* profile is of a user who does.
Unborn ==
  \A c \in Calls : call[c].pc # "done" =>
    /\ grade[c] = None /\ section[c].grade = None
    /\ student[c].user = None /\ student[c].status = None

Whole ==
  /\ \A s \in ExistingSections : grade[section[s].grade] # None
  /\ \A r \in Students :
       student[r].section # None => student[r].section \in ExistingSections
  /\ \A p \in Calls, u \in Users : principal[p].user = u => user[u].role # None

Typed == Types /\ Refers /\ Unborn /\ Whole

\* What the calls under way have compared is still so, while the section they
\* name is there: a student's school changes under a call that has compared it
\* only if the student counts as mixed from then on.
ComparedBy(c) ==
  call[c].section \in ExistingSections =>
    /\ At(c, "student") /\ c \notin mixed => SchoolOf(call[c].section) = call[c].school
    /\ call[c].pc = "updating" /\ call[c].school = None /\ call[c].row \notin mixed =>
         SchoolOf(call[c].section) = student[call[c].row].school
    /\ call[c].pc = "moving" =>
         \A r \in call[c].row \ mixed : SchoolOf(call[c].section) = student[r].school

Compared == \A c \in Calls : ComparedBy(c)

\* A student who left one school has another, or is cut, or the call that moves
\* him has marked him already and is to enrol him.  A call that has yet to mark
\* him would not do: it may die without a trace.
Enrols(c, u) == At(c, "student") /\ call[c].key[2] = u /\ call[c].row = None
Placed(u) == Rows(u) # {} \/ u \in cut \/ \E c \in Calls : Enrols(c, u)
Between ==
  \A r \in Students : student[r].status = "TRANSFERRED" => Placed(student[r].user)

\* x is a row that stands under the key.
Under(x, key) ==
  \/ key[1] = "grade" /\ x \in Grades /\ grade[x] = key[2]
  \/ key[1] = "section" /\ x \in Sections /\ section[x].grade = key[2]
  \/ key[1] = "teacher" /\ x \in Teachers /\ teacher[x].user = key[2]
  \/ key[1] = "principal" /\ x \in Calls /\ principal[x].user = key[2]
  \/ key[1] = "student" /\ x \in Students /\ student[x].user = key[2]
       /\ student[x].status = "ACTIVE"
  \/ key[1] = "teaching" /\ x \in Calls
       /\ teaching[x] = [teacher |-> key[2], section |-> key[3]]

\* The row that may be there when a call goes to create one: only the
\* enrolment that the call is about to mark as transferred.
Spared(c, x) == call[c].key[1] = "student" /\ x = call[c].row

\* Unless two calls were after the same key at once, there is one row under it
\* at most, one call after it, and none of them if the other.
SoleUnder(key) ==
  key \notin raced =>
    /\ \A x, y \in Names : Under(x, key) /\ Under(y, key) => x = y
    /\ \A c, d \in Calls : call[c].key = key /\ call[d].key = key => c = d
    /\ \A c \in Calls, x \in Names : call[c].key = key /\ Under(x, key) => Spared(c, x)

Sole == \A key \in Keys : SoleUnder(key)

IInv == Typed /\ SchoolAgrees /\ Compared /\ Between /\ Sole

-----------------------------------------------------------------------------
(* The initial states                                                      *)

LEMMA KeyIsNotEmpty == <<>> \notin Keys
  BY DEF Keys

LEMMA KeyShape ==
  ASSUME NEW key \in Keys
  PROVE  /\ key[1] = "grade" => key[2] \in Schools /\ key = <<"grade", key[2]>>
         /\ key[1] = "section" => key[2] \in Grades /\ key = <<"section", key[2]>>
         /\ key[1] \in {"teacher", "principal", "student"} =>
              key[2] \in Users /\ key = <<key[1], key[2]>>
         /\ key[1] = "teaching" =>
              /\ key[2] \in Teachers /\ key[3] \in Sections
              /\ key = <<"teaching", key[2], key[3]>>
         /\ key[1] = "user" =>
              /\ key[2] \in Users /\ key[3] \in SchoolRoles
              /\ key = <<"user", key[2], key[3]>>
         /\ key[1] = "school" =>
              /\ key[2] \in Users /\ key[3] \in Schools
              /\ key = <<"school", key[2], key[3]>>
<1>1. CASE \E u \in Users, role \in SchoolRoles : key = <<"user", u, role>>
  BY <1>1
<1>2. CASE \E u \in Users, x \in Schools : key = <<"school", u, x>>
  BY <1>2
<1>3. CASE \E kind \in {"principal", "teacher", "student"}, u \in Users :
             key = <<kind, u>>
  BY <1>3
<1>4. CASE \E t \in Teachers, s \in Sections : key = <<"teaching", t, s>>
  BY <1>4
<1>5. CASE \E x \in Schools : key = <<"grade", x>>
  BY <1>5
<1>6. CASE \E g \in Grades : key = <<"section", g>>
  BY <1>6
<1> QED BY <1>1, <1>2, <1>3, <1>4, <1>5, <1>6 DEF Keys

LEMMA IdleTypes == Idle("new") \in CallRow /\ Idle("done") \in CallRow
<1>1. ASSUME NEW pc \in {"new", "done"} PROVE Idle(pc) \in CallRow
  <2>1. <<>> \in Keys \cup {<<>>}
    OBVIOUS
  <2>2. None \in Subjects \cup {None}
    OBVIOUS
  <2> QED BY <2>1, <2>2 DEF Idle, CallRow
<1> QED BY <1>1

LEMMA IInvInit == Init => IInv
<1> SUFFICES ASSUME Init PROVE IInv
  OBVIOUS
<1> USE EnrolmentAssumption
<1>1. PICK u \in DOMAIN StartUsers, t \in DOMAIN StartUsers,
           s \in DOMAIN StartSections :
        /\ StartGrades[StartSections[s]] = StartUsers[u].school
        /\ student = [r \in Students |-> IF r \in Calls THEN NoStudent
                        ELSE [user |-> u, school |-> StartUsers[u].school,
                              section |-> s, status |-> "ACTIVE"]]
        /\ teacher = [x \in Teachers |-> IF x \in Calls THEN Nobody
                        ELSE [user |-> t, school |-> StartUsers[t].school]]
  BY DEF Init
<1>c. \A c \in Calls : call[c] = Idle("new")
  BY DEF Init
<1>i. Idle("new") \in CallRow
  BY IdleTypes
<1>s. \A x \in Sections :
        section[x].grade = IF x \in Calls THEN None ELSE StartSections[x]
  BY DEF Init
<1>e. ExistingSections = DOMAIN StartSections
  <2>1. ASSUME NEW x \in Sections PROVE section[x].grade # None <=> x \in DOMAIN StartSections
    <3>1. CASE x \in Calls
      BY <1>s, <3>1
    <3>2. CASE x \notin Calls
      <4>1. x \in DOMAIN StartSections /\ section[x].grade = StartSections[x]
        BY <1>s, <3>2 DEF Sections
      <4> QED BY <4>1 DEF Grades
    <3> QED BY <3>1, <3>2
  <2> QED BY <2>1 DEF ExistingSections, Sections
<1>g. \A x \in DOMAIN StartSections :
        SchoolOf(x) = StartGrades[StartSections[x]] /\ section[x].grade = StartSections[x]
          /\ grade[section[x].grade] = StartGrades[StartSections[x]]
  <2>1. \A x \in DOMAIN StartSections : x \in Sections /\ x \notin Calls
                                  /\ StartSections[x] \in Grades /\ StartSections[x] \notin Calls
    BY DEF Sections, Grades
  <2>2. \A x \in Grades \ Calls : grade[x] = StartGrades[x]
    BY DEF Init
  <2> SUFFICES ASSUME NEW x \in DOMAIN StartSections
               PROVE  /\ SchoolOf(x) = StartGrades[StartSections[x]]
                      /\ section[x].grade = StartSections[x]
                      /\ grade[section[x].grade] = StartGrades[StartSections[x]]
    OBVIOUS
  <2>3. section[x].grade = StartSections[x]
    BY <1>s, <2>1
  <2> QED BY <1>e, <2>1, <2>2, <2>3 DEF SchoolOf
<1>2. Types
  <2>1. school \subseteq Schools
    BY DEF Init
  <2>2. grade \in [Grades -> Schools \cup {None}]
    BY DEF Init, Grades
  <2>3. section \in [Sections -> SectionRow]
    BY DEF Init, Sections, SectionRow, Grades
  <2>4. student \in [Students -> StudentRow]
    <3>1. NoStudent \in StudentRow
      BY DEF NoStudent, StudentRow
    <3>2. u \in Users /\ StartUsers[u].school \in Schools /\ s \in Sections
      BY <1>1 DEF Sections
    <3>3. [user |-> u, school |-> StartUsers[u].school,
           section |-> s, status |-> "ACTIVE"] \in StudentRow
      BY <3>2 DEF StudentRow
    <3> QED BY <1>1, <3>1, <3>3
  <2>5. call \in [Calls -> CallRow]
    BY <1>i DEF Init
  <2>6. DOMAIN user = Users /\ DOMAIN principal = Calls /\ DOMAIN teaching = Calls
    BY DEF Init
  <2>7. DOMAIN teacher = Teachers
    BY <1>1
  <2> QED BY <2>1, <2>2, <2>3, <2>4, <2>5, <2>6, <2>7 DEF Types
<1>3. Refers
  <2> SUFFICES ASSUME NEW c \in Calls PROVE RefersTo(c)
    BY DEF Refers
  <2>1. call[c].pc = "new" /\ call[c].key = <<>> /\ call[c].section = None
    BY <1>c DEF Idle
  <2> QED BY <2>1 DEF RefersTo, At
<1>4. Unborn
  <2>1. \A c \in Calls : grade[c] = None
    BY DEF Init, Grades
  <2>2. \A c \in Calls : section[c].grade = None
    <3> SUFFICES ASSUME NEW c \in Calls PROVE section[c].grade = None
      OBVIOUS
    <3>1. c \in Sections
      BY DEF Sections
    <3> QED BY <1>s, <3>1
  <2>3. \A c \in Calls : student[c].user = None /\ student[c].status = None
    BY <1>1 DEF Students, NoStudent
  <2> QED BY <2>1, <2>2, <2>3 DEF Unborn
<1>r. \A r \in Students : student[r].section # None =>
        student[r].section = s /\ student[r].school = StartUsers[u].school
  BY <1>1 DEF NoStudent
<1>5. Whole
  <2>1. \A p \in Calls : principal[p].user = None
    BY DEF Init, Nobody
  <2>2. \A x \in ExistingSections : grade[section[x].grade] # None
    BY <1>e, <1>g
  <2> QED BY <1>e, <1>r, <2>1, <2>2 DEF Whole
<1>6. SchoolAgrees
  BY <1>e, <1>r, <1>g, <1>1 DEF SchoolAgrees
<1>7. Compared
  BY <1>c DEF Compared, ComparedBy, Idle, At
<1>8. Between
  <2>1. \A r \in Students : student[r].status # "TRANSFERRED"
    BY <1>1 DEF NoStudent
  <2> QED BY <2>1 DEF Between
<1>9. Sole
  <2> SUFFICES ASSUME NEW key \in Keys PROVE SoleUnder(key)
    BY DEF Sole
  <2>1. \A c \in Calls : call[c].key # key
    BY <1>c, KeyIsNotEmpty DEF Idle
  <2>2. ASSUME NEW x \in Names, NEW y \in Names, Under(x, key), Under(y, key)
        PROVE  x = y
    <3>1. CASE key[1] = "grade"
      <4>1. \A z \in Grades : grade[z] = IF z \in Calls THEN None ELSE StartGrades[z]
        BY DEF Init
      <4>2. \A z \in Grades : grade[z] # None =>
              z \in DOMAIN StartGrades /\ grade[z] = StartGrades[z]
        BY <4>1 DEF Grades
      <4>3. key[2] \in Schools
        BY <3>1, KeyShape
      <4> QED BY <2>2, <3>1, <4>2, <4>3 DEF Under
    <3>2. CASE key[1] = "section"
      <4>1. \A z \in Sections : section[z].grade # None =>
              z \in DOMAIN StartSections /\ section[z].grade = StartSections[z]
        BY <1>e, <1>g DEF ExistingSections
      <4>2. key[2] \in Grades
        BY <3>2, KeyShape
      <4> QED BY <2>2, <3>2, <4>1, <4>2 DEF Under
    <3>3. CASE key[1] = "teacher"
      <4>1. \A z \in Teachers : teacher[z].user # None => z = FirstTeacher
        BY <1>1 DEF Teachers, Nobody
      <4>2. key[2] \in Users
        BY <3>3, KeyShape
      <4> QED BY <2>2, <3>3, <4>1, <4>2 DEF Under
    <3>4. CASE key[1] = "principal"
      <4>1. \A z \in Calls : principal[z].user = None
        BY DEF Init, Nobody
      <4>2. key[2] \in Users
        BY <3>4, KeyShape
      <4> QED BY <2>2, <3>4, <4>1, <4>2 DEF Under
    <3>5. CASE key[1] = "student"
      <4>1. \A z \in Students : student[z].user # None => z = FirstStudent
        BY <1>1 DEF Students, NoStudent
      <4>2. key[2] \in Users
        BY <3>5, KeyShape
      <4> QED BY <2>2, <3>5, <4>1, <4>2 DEF Under
    <3>6. CASE key[1] = "teaching"
      <4>1. \A z \in Calls : teaching[z].section = None
        BY DEF Init
      <4>2. key[3] \in Sections
        BY <3>6, KeyShape
      <4> QED BY <2>2, <3>6, <4>1, <4>2 DEF Under
    <3> QED BY <2>2, <3>1, <3>2, <3>3, <3>4, <3>5, <3>6 DEF Under
  <2> QED BY <2>1, <2>2 DEF SoleUnder
<1> QED BY <1>2, <1>3, <1>4, <1>5, <1>6, <1>7, <1>8, <1>9 DEF IInv, Typed

-----------------------------------------------------------------------------
(* What a step of one call leaves as it was                                *)

\* A step of call c moves that call alone, and it was not over.
Moves(c) ==
  /\ call[c].pc # "done"
  /\ call' \in [Calls -> CallRow]
  /\ \A d \in Calls \ {c} : call'[d] = call[d]

LEMMA BornStays ==
  ASSUME NEW c \in Calls, Moves(c)
  PROVE  \A x : Born(x) => Born(x)'
BY DEF Born, Moves

\* Whatever is there was created by a call that is over.
LEMMA RowsAreBorn ==
  ASSUME IInv
  PROVE  /\ \A s \in ExistingSections : s \in Sections /\ s # None /\ Born(s)
         /\ \A g \in Grades : grade[g] # None => Born(g)
         /\ \A r \in Students : student[r].user # None => Born(r)
BY EnrolmentAssumption DEF IInv, Typed, Unborn, ExistingSections, Born

\* The school of a section that exists is a school.
LEMMA SchoolOfExisting ==
  ASSUME IInv, NEW s \in ExistingSections
  PROVE  /\ s \in Sections /\ section[s].grade \in Grades
         /\ SchoolOf(s) = grade[section[s].grade] /\ SchoolOf(s) \in Schools
<1>1. s \in Sections /\ section[s].grade \in Grades
  BY DEF ExistingSections, IInv, Typed, Types, SectionRow
<1>2. grade[section[s].grade] \in Schools
  BY <1>1 DEF IInv, Typed, Types, Whole
<1> QED BY <1>1, <1>2 DEF SchoolOf

\* What a call refers to is kept while users and students are.
LEMMA RefersKept ==
  ASSUME IInv, NEW c \in Calls, Moves(c),
         \A u \in Users : user[u].role # None => user'[u].role # None,
         \A r \in Students : Born(r) => student'[r].user = student[r].user,
         RefersTo(c)'
  PROVE  Refers'
<1> SUFFICES ASSUME NEW d \in Calls, d # c PROVE RefersTo(d)'
  BY DEF Refers
<1>1. call'[d] = call[d] /\ RefersTo(d)
  BY DEF Moves, IInv, Typed, Refers
<1>2. \A x : Born(x) => Born(x)'
  BY BornStays
<1>3. At(d, "principal") => call[d].key[2] \in Users
  <2>1. call[d].key \in Keys \cup {<<>>}
    BY DEF IInv, Typed, Types, CallRow
  <2>2. At(d, "principal") => call[d].key # <<>>
    BY <1>1 DEF RefersTo, At
  <2> QED BY <2>1, <2>2, KeyShape DEF At
<1> QED BY <1>1, <1>2, <1>3 DEF RefersTo, At

\* A step that creates at most classes and sections, and takes at most their
\* sections from the students, keeps all that relates students to sections.
LEMMA StepKeeps ==
  ASSUME IInv, NEW c \in Calls, Moves(c), mixed \subseteq mixed', cut \subseteq cut',
         RefersTo(c)', ComparedBy(c)',
         \A u : Enrols(c, u) => u \in cut',
         \A u \in Users : user[u].role # None => user'[u].role # None,
         \A p \in Calls, u \in Users : principal'[p].user = u => user'[u].role # None,
         \A d \in Calls : call'[d].pc # "done" =>
           grade'[d] = grade[d] /\ section'[d].grade = section[d].grade,
         \A s \in ExistingSections' : Born(s) =>
           s \in ExistingSections /\ SchoolOf(s)' = SchoolOf(s),
         \A s \in ExistingSections' : grade'[section'[s].grade] # None,
         \A r \in Students :
           /\ student'[r].user = student[r].user
           /\ student'[r].school = student[r].school
           /\ student'[r].status = student[r].status
           /\ student'[r].section # None =>
                student'[r].section = student[r].section
                  /\ student'[r].section \in ExistingSections'
  PROVE  Refers' /\ Unborn' /\ Whole' /\ SchoolAgrees' /\ Compared' /\ Between'
<1>1. Refers'
  BY RefersKept
<1>2. Unborn'
  <2> SUFFICES ASSUME NEW d \in Calls, call'[d].pc # "done"
               PROVE  /\ grade'[d] = None /\ section'[d].grade = None
                      /\ student'[d].user = None /\ student'[d].status = None
    BY DEF Unborn
  <2>1. call[d].pc # "done"
    BY DEF Moves
  <2> QED BY <2>1 DEF IInv, Typed, Unborn, Students
<1>3. Whole'
  BY DEF Whole
<1>4. SchoolAgrees'
  <2> SUFFICES ASSUME NEW r \in Students, student'[r].section # None, r \notin mixed'
               PROVE  SchoolOf(student[r].section)' = student'[r].school
    BY DEF SchoolAgrees
  <2>1. student'[r].section = student[r].section /\ student[r].section \in ExistingSections'
    OBVIOUS
  <2>2. student[r].section \in ExistingSections
    BY <2>1 DEF IInv, Typed, Whole
  <2>3. Born(student[r].section)
    BY <2>2, RowsAreBorn
  <2>4. SchoolOf(student[r].section) = student[r].school
    BY <2>1, r \notin mixed DEF IInv, SchoolAgrees
  <2> QED BY <2>1, <2>3, <2>4 DEF SchoolOf
<1>5. Compared'
  <2> SUFFICES ASSUME NEW d \in Calls, d # c PROVE ComparedBy(d)'
    BY DEF Compared
  <2>1. call'[d] = call[d] /\ ComparedBy(d) /\ RefersTo(d)
    BY DEF Moves, IInv, Typed, Refers, Compared
  <2> SUFFICES ASSUME call[d].section \in ExistingSections' PROVE ComparedBy(d)'
    BY <2>1 DEF ComparedBy
  <2>2. Born(call[d].section)
    <3>1. call[d].section # None
      BY EnrolmentAssumption DEF ExistingSections
    <3> QED BY <2>1, <3>1 DEF RefersTo
  <2>3. PICK s : s = call[d].section
    OBVIOUS
  <2>4. s \in ExistingSections /\ SchoolOf(s)' = SchoolOf(s)
    BY <2>2, <2>3
  <2>5. At(d, "student") /\ d \notin mixed' => SchoolOf(s)' = call[d].school
    BY <2>1, <2>3, <2>4 DEF ComparedBy
  <2>6. call[d].pc = "updating" /\ call[d].school = None /\ call[d].row \notin mixed' =>
          SchoolOf(s)' = student'[call[d].row].school
    BY <2>1, <2>3, <2>4 DEF ComparedBy, RefersTo
  <2>7. call[d].pc = "moving" =>
          \A r \in call[d].row \ mixed' : SchoolOf(s)' = student'[r].school
    <3> SUFFICES ASSUME call[d].pc = "moving", NEW r \in call[d].row, r \notin mixed'
                 PROVE  SchoolOf(s)' = student'[r].school
      OBVIOUS
    <3>1. r \in Students
      BY <2>1 DEF RefersTo
    <3>2. SchoolOf(s) = student[r].school
      BY <2>1, <2>3, <2>4 DEF ComparedBy
    <3> QED BY <2>4, <3>1, <3>2
  <2> HIDE DEF SchoolOf
  <2>8. SchoolOf(call[d].section)' = SchoolOf(s)'
    BY <2>1, <2>3 DEF SchoolOf
  <2> QED BY <2>1, <2>5, <2>6, <2>7, <2>8 DEF ComparedBy, At
<1>6. Between'
  <2> SUFFICES ASSUME NEW r \in Students, student[r].status = "TRANSFERRED"
               PROVE  Placed(student[r].user)'
    BY DEF Between
  <2>1. PICK u : u = student[r].user
    OBVIOUS
  <2>2. Placed(u)
    BY <2>1 DEF IInv, Between
  <2>3. Rows(u) # {} => Rows(u)' # {}
    BY DEF Rows
  <2>4. ASSUME NEW d \in Calls, Enrols(d, u) PROVE u \in cut' \/ Enrols(d, u)'
    BY <2>4 DEF Moves, Enrols, At
  <2>5. Placed(u)'
    BY <2>2, <2>3, <2>4 DEF Placed
  <2> QED BY <2>1, <2>5
<1> QED BY <1>1, <1>2, <1>3, <1>4, <1>5, <1>6

-----------------------------------------------------------------------------
(* One row under a key, whoever creates it                                 *)

LEMMA UnderIsNamed ==
  ASSUME NEW x, NEW key, Under(x, key)
  PROVE  x \in Names
BY DEF Under, Names, Grades, Sections, Students, Teachers

\* No row stands under the key and no call is after it.
Free(key) ==
  (\A x \in Names : ~Under(x, key)) /\ \A d \in Calls : call[d].key # key

\* The call of a step has no key after it: no row is added, or the one it was
\* to create, with the enrolment before it marked, or one under a free key.
LEMMA SoleAfter ==
  ASSUME IInv, NEW c \in Calls, Moves(c), raced \subseteq raced',
         call'[c].key = <<>>,
         \A key \in Keys, x \in Names : Under(x, key)' =>
           \/ Under(x, key)
           \/ x = c /\ key = call[c].key /\ (At(c, "student") => call[c].row = None)
           \/ x = c /\ (key \in raced' \/ Free(key))
  PROVE  Sole'
<1> SUFFICES ASSUME NEW key \in Keys, key \notin raced' PROVE SoleUnder(key)'
  BY DEF Sole, SoleUnder
<1>1. SoleUnder(key) /\ key \notin raced /\ key # <<>>
  BY KeyIsNotEmpty DEF IInv, Sole
<1>2. \A d \in Calls : call'[d].key = key => call[d].key = key /\ call'[d] = call[d]
  BY <1>1 DEF Moves
<1>3. ASSUME call[c].key = key, At(c, "student") => call[c].row = None
      PROVE  \A x \in Names : ~Under(x, key)
  <2> SUFFICES ASSUME NEW x \in Names, Under(x, key) PROVE FALSE
    OBVIOUS
  <2>1. Spared(c, x)
    BY <1>1, <1>3 DEF SoleUnder
  <2>2. At(c, "student")
    BY <2>1, <1>1, <1>3 DEF Spared, At, IInv, Typed, Refers, RefersTo
  <2>3. x = None /\ x \in Students
    BY <2>1, <2>2, <1>3 DEF Spared, At, Under
  <2> QED BY <2>3, EnrolmentAssumption DEF Students, Grades
<1>4. CASE Free(key)
  BY <1>2, <1>4 DEF SoleUnder, Free
<1>5. CASE ~Free(key)
  <2>1. \A x, y \in Names : Under(x, key)' /\ Under(y, key)' => x = y
    BY <1>1, <1>3, <1>5 DEF SoleUnder
  <2>2. \A d, e \in Calls : call'[d].key = key /\ call'[e].key = key => d = e
    BY <1>1, <1>2 DEF SoleUnder
  <2>3. ASSUME NEW d \in Calls, NEW x \in Names, call'[d].key = key, Under(x, key)'
        PROVE  Spared(d, x)'
    <3>1. call[d].key = key /\ call'[d] = call[d] /\ d # c
      BY <1>2, <2>3, <1>1
    <3>2. call[c].key # key
      BY <3>1, <1>1 DEF SoleUnder
    <3>3. Spared(d, x)
      BY <3>1, <3>2, <2>3, <1>1, <1>5 DEF SoleUnder
    <3> QED BY <3>1, <3>3 DEF Spared
  <2> QED BY <2>1, <2>2, <2>3 DEF SoleUnder
<1> QED BY <1>4, <1>5

\* The call of a step goes to create a row under a key, having found none there
\* but one that it is to mark; any other call under the key has been noted.
LEMMA SoleAsked ==
  ASSUME IInv, NEW c \in Calls, Moves(c), NEW key \in Keys,
         call[c].key = <<>>, call'[c].key = key,
         raced' = raced \cup {key : d \in {d \in Calls : call[d].key = key}},
         \A k \in Keys, x \in Names : Under(x, k)' => Under(x, k),
         key \notin raced => \A x \in Names : Under(x, key) => Spared(c, x)'
  PROVE  Sole'
<1> SUFFICES ASSUME NEW k \in Keys, k \notin raced' PROVE SoleUnder(k)'
  BY DEF Sole, SoleUnder
<1>1. SoleUnder(k) /\ k \notin raced /\ k # <<>>
  BY KeyIsNotEmpty DEF IInv, Sole
<1>2. \A x, y \in Names : Under(x, k)' /\ Under(y, k)' => x = y
  BY <1>1 DEF SoleUnder
<1>3. k = key => \A d \in Calls : call[d].key # key
  OBVIOUS
<1>4. \A d, e \in Calls : call'[d].key = k /\ call'[e].key = k => d = e
  BY <1>1, <1>3 DEF SoleUnder, Moves
<1>5. ASSUME NEW d \in Calls, NEW x \in Names, call'[d].key = k, Under(x, k)'
      PROVE  Spared(d, x)'
  <2>1. CASE d = c
    BY <2>1, <1>5, <1>1
  <2>2. CASE d # c
    <3>1. call'[d] = call[d]
      BY <2>2 DEF Moves
    <3>2. Spared(d, x)
      BY <3>1, <1>5, <1>1 DEF SoleUnder
    <3> QED BY <3>1, <3>2 DEF Spared
  <2> QED BY <2>1, <2>2
<1> QED BY <1>2, <1>4, <1>5 DEF SoleUnder

-----------------------------------------------------------------------------
(* Steps that read, and then go on to write                                *)

\* The step of a call that has only looked: it knows what it is to write.
LEMMA LookingKeeps ==
  ASSUME IInv, NEW c \in Calls, Moves(c), UNCHANGED <<classes, user, student,
           teacher, principal, cut>>, mixed \subseteq mixed',
         RefersTo(c)', ComparedBy(c)', call[c].pc = "new", Sole'
  PROVE  IInv'
<1> USE DEF classes
<1>1. Types'
  BY DEF IInv, Typed, Types, Moves
<1>2. \A u : ~Enrols(c, u)
  BY DEF Enrols, At
<1>3. \A s \in ExistingSections' : s \in ExistingSections /\ SchoolOf(s)' = SchoolOf(s)
  BY DEF ExistingSections, SchoolOf
<1>4. \A s \in ExistingSections' : grade'[section'[s].grade] # None
  BY <1>3 DEF IInv, Typed, Whole
<1>5. \A r \in Students : student'[r].section # None =>
        student'[r].section = student[r].section
          /\ student'[r].section \in ExistingSections'
  BY DEF IInv, Typed, Whole, ExistingSections
<1>6. \A p \in Calls, u \in Users : principal'[p].user = u => user'[u].role # None
  BY DEF IInv, Typed, Whole
<1>7. Refers' /\ Unborn' /\ Whole' /\ SchoolAgrees' /\ Compared' /\ Between'
  BY <1>2, <1>3, <1>4, <1>5, <1>6, StepKeeps
<1> QED BY <1>1, <1>7 DEF IInv, Typed

LEMMA AskingKeeps ==
  ASSUME IInv, NEW c \in Calls, NEW key \in Keys, NEW where \in Schools \cup {None},
         NEW sec \in Sections \cup {None}, NEW row \in Subjects \cup {None},
         Creating(c, key, where, sec, row),
         UNCHANGED <<classes, user, student, teacher, principal, cut>>,
         mixed \subseteq mixed',
         sec # None => sec \in ExistingSections,
         key[1] = "principal" => user[key[2]].role # None,
         key[1] = "section" => row = key[2] /\ grade[row] # None,
         key[1] = "teaching" => row = key[2] /\ sec = key[3],
         key[1] = "school" => where = key[3],
         key[1] = "grade" => where = key[2],
         key[1] = "student" /\ row # None => row \in Rows(key[2]),
         key[1] = "student" /\ c \notin mixed' => SchoolOf(sec) = where,
         key \notin raced => \A x \in Names : Under(x, key) => key[1] = "student" /\ x = row
  PROVE  IInv'
<1> DEFINE v == [pc |-> "creating", key |-> key, school |-> where,
                 section |-> sec, row |-> row]
<1>1. v \in CallRow
  BY DEF CallRow
<1>2. call[c].pc = "new" /\ call' = [call EXCEPT ![c] = v]
  BY DEF Creating
<1>3. /\ v.pc = "creating" /\ v.key = key /\ v.school = where
      /\ v.section = sec /\ v.row = row
  OBVIOUS
<1> HIDE DEF v
<1>4. call'[c] = v /\ Moves(c)
  BY <1>1, <1>2 DEF Moves, IInv, Typed, Types
<1>5. call[c].key = <<>> /\ key # <<>>
  BY <1>2, KeyIsNotEmpty DEF IInv, Typed, Refers, RefersTo
<1>6. \A x : Born(x) => Born(x)'
  BY <1>4, BornStays
<1>7. RefersTo(c)'
  <2>1. sec # None => Born(sec)'
    BY <1>6, RowsAreBorn
  <2>2. key[1] = "section" => Born(row)'
    BY <1>6, RowsAreBorn, KeyShape
  <2>3. key[1] = "student" /\ row # None =>
          row \in Students /\ Born(row)' /\ student'[row].user = key[2]
    <3> SUFFICES ASSUME key[1] = "student", row # None
                 PROVE  row \in Students /\ Born(row)' /\ student'[row].user = key[2]
      OBVIOUS
    <3>1. row \in Students /\ student[row].user = key[2] /\ key[2] \in Users
      BY KeyShape DEF Rows
    <3> QED BY <3>1, <1>6, RowsAreBorn, EnrolmentAssumption
  <2>4. user' = user
    OBVIOUS
  <2>5. Born(call'[c].section) <=> Born(sec)
    BY <1>3, <1>4
  <2> QED BY <1>3, <1>4, <1>5, <2>1, <2>2, <2>3, <2>4 DEF RefersTo, At
<1>8. ComparedBy(c)'
  BY <1>3, <1>4 DEF ComparedBy, At, SchoolOf, ExistingSections, classes
<1>9. Sole'
  <2>1. raced' = raced \cup {key : d \in {d \in Calls : call[d].key = key}}
    BY DEF Creating
  <2>2. \A k \in Keys, x \in Names : Under(x, k)' => Under(x, k)
    BY DEF Under, classes
  <2>3. key \notin raced => \A x \in Names : Under(x, key) => Spared(c, x)'
    BY <1>3, <1>4 DEF Spared
  <2> QED BY <1>3, <1>4, <1>5, <2>1, <2>2, <2>3, SoleAsked
<1> QED BY <1>2, <1>4, <1>7, <1>8, <1>9, LookingKeeps

LEMMA ChangingKeeps ==
  ASSUME IInv, NEW c \in Calls, NEW pc \in {"incharge", "updating", "moving", "moving any"},
         NEW where \in Schools \cup {None},
         NEW sec \in Sections \cup {None}, NEW row \in Subjects,
         Changing(c, pc, where, sec, row), UNCHANGED <<classes, user, student,
           teacher, principal, cut>>, mixed \subseteq mixed',
         sec # None => sec \in ExistingSections,
         pc = "incharge" => row \in Teachers,
         pc = "updating" =>
           /\ row \in Students /\ student[row].user # None
           /\ where = None /\ sec # None => SchoolOf(sec) = student[row].school,
         pc \in {"moving", "moving any"} =>
           row \subseteq {r \in Students : student[r].user # None},
         pc = "moving" => \A r \in row : student[r].school = SchoolOf(sec)
  PROVE  IInv'
<1> DEFINE v == [pc |-> pc, key |-> <<>>, school |-> where,
                 section |-> sec, row |-> row]
<1>1. v \in CallRow
  BY DEF CallRow
<1>2. call[c].pc = "new" /\ call' = [call EXCEPT ![c] = v]
  BY DEF Changing
<1>3. /\ v.pc = pc /\ v.key = <<>> /\ v.school = where
      /\ v.section = sec /\ v.row = row
  OBVIOUS
<1> HIDE DEF v
<1>4. call'[c] = v /\ Moves(c)
  BY <1>1, <1>2 DEF Moves, IInv, Typed, Types
<1>6. \A x : Born(x) => Born(x)'
  BY <1>4, BornStays
<1>7. RefersTo(c)'
  <2>1. sec # None => Born(sec)'
    BY <1>6, RowsAreBorn
  <2>2. pc = "updating" => Born(row)'
    BY <1>6, RowsAreBorn
  <2>3. pc \in {"moving", "moving any"} => \A r \in row : Born(r)'
    BY <1>6, RowsAreBorn
  <2> QED BY <1>3, <1>4, <2>1, <2>2, <2>3 DEF RefersTo, At
<1>8. ComparedBy(c)'
  <2>1. SchoolOf(sec)' = SchoolOf(sec) /\ ExistingSections' = ExistingSections
    BY DEF SchoolOf, ExistingSections, classes
  <2>2. sec \in ExistingSections => sec # None
    BY RowsAreBorn
  <2> QED BY <1>3, <1>4, <2>1, <2>2 DEF ComparedBy, At, SchoolOf, classes
<1>9. Sole'
  <2>1. \A k \in Keys, x \in Names : Under(x, k)' => Under(x, k)
    BY DEF Under, classes
  <2>2. raced' = raced /\ ~At(c, "student")
    BY <1>2 DEF Changing, At
  <2> QED BY <1>3, <1>4, <2>1, <2>2, SoleAfter
<1> QED BY <1>2, <1>4, <1>7, <1>8, <1>9, LookingKeeps

LEMMA CheckUserKeeps ==
  ASSUME IInv, NEW c \in Calls, NEW u \in Users, NEW role \in SchoolRoles,
         NEW maker, NEW by \in Callers, CheckUser(c, u, role, maker, by)
  PROVE  IInv'
<1>1. PICK x \in Schools \cup {None} :
        Creating(c, <<"user", u, role>>, x, None, None)
  BY DEF CheckUser, Callers, IInv, Typed, Types
<1>2. <<"user", u, role>> \in Keys
  BY DEF Keys
<1>3. \A y \in Names : ~Under(y, <<"user", u, role>>)
  BY DEF Under
<1> QED BY <1>1, <1>2, <1>3, AskingKeeps DEF CheckUser, people

LEMMA CheckSchoolWithPrincipalKeeps ==
  ASSUME IInv, NEW c \in Calls, NEW u \in Users, NEW x \in Schools,
         CheckSchoolWithPrincipal(c, u, x)
  PROVE  IInv'
<1>1. <<"school", u, x>> \in Keys
  BY DEF Keys
<1>2. \A y \in Names : ~Under(y, <<"school", u, x>>)
  BY DEF Under
<1> QED BY <1>1, <1>2, AskingKeeps DEF CheckSchoolWithPrincipal, people

LEMMA CheckPrincipalKeeps ==
  ASSUME IInv, NEW c \in Calls, NEW u \in Users, NEW x \in school,
         CheckPrincipal(c, u, x)
  PROVE  IInv'
<1>1. <<"principal", u>> \in Keys /\ x \in Schools
  BY DEF Keys, IInv, Typed, Types
<1>2. \A y \in Names : ~Under(y, <<"principal", u>>)
  BY DEF Under, CheckPrincipal
<1>3. user[u].role # None
  BY EnrolmentAssumption DEF CheckPrincipal
<1> QED BY <1>1, <1>2, <1>3, AskingKeeps DEF CheckPrincipal, people

LEMMA CheckTeacherKeeps ==
  ASSUME IInv, NEW c \in Calls, NEW u \in Users, NEW x \in school,
         CheckTeacher(c, u, x)
  PROVE  IInv'
<1>1. <<"teacher", u>> \in Keys /\ x \in Schools
  BY DEF Keys, IInv, Typed, Types
<1>2. \A y \in Names : ~Under(y, <<"teacher", u>>)
  BY DEF Under, CheckTeacher
<1> QED BY <1>1, <1>2, AskingKeeps DEF CheckTeacher, people

LEMMA CheckTeachingKeeps ==
  ASSUME IInv, NEW c \in Calls, NEW t \in Teachers, NEW s \in Sections,
         NEW by \in Callers, CheckTeaching(c, t, s, by)
  PROVE  IInv'
<1>1. <<"teaching", t, s>> \in Keys /\ t \in Subjects
  BY DEF Keys, Subjects, Names
<1>2. \A y \in Names : ~Under(y, <<"teaching", t, s>>)
  BY DEF Under, CheckTeaching
<1> QED BY <1>1, <1>2, AskingKeeps DEF CheckTeaching, people

LEMMA CheckGradeKeeps ==
  ASSUME IInv, NEW c \in Calls, NEW x \in Schools, NEW by \in Callers,
         CheckGrade(c, x, by)
  PROVE  IInv'
<1>1. <<"grade", x>> \in Keys
  BY DEF Keys
<1>2. \A y \in Names : ~Under(y, <<"grade", x>>)
  BY DEF Under, CheckGrade
<1> QED BY <1>1, <1>2, AskingKeeps DEF CheckGrade, people

LEMMA CheckSectionKeeps ==
  ASSUME IInv, NEW c \in Calls, NEW g \in Grades, NEW by \in Callers,
         CheckSection(c, g, by)
  PROVE  IInv'
<1>1. <<"section", g>> \in Keys /\ g \in Subjects
  BY DEF Keys, Subjects, Names
<1>2. \A y \in Names : ~Under(y, <<"section", g>>)
  BY DEF Under, CheckSection
<1> QED BY <1>1, <1>2, AskingKeeps DEF CheckSection, people

LEMMA CheckInchargeKeeps ==
  ASSUME IInv, NEW c \in Calls, NEW s \in Sections, NEW t \in Teachers,
         NEW by \in Callers, CheckIncharge(c, s, t, by)
  PROVE  IInv'
<1>1. t \in Subjects
  BY DEF Subjects, Names
<1> QED BY <1>1, ChangingKeeps DEF CheckIncharge, people

LEMMA CheckUpdateKeeps ==
  ASSUME IInv, NEW c \in Calls, NEW r \in Students, NEW s \in Sections \cup {None},
         NEW by \in Callers, NEW named \in school \cup {None},
         CheckUpdate(c, r, s, by, named)
  PROVE  IInv'
<1>1. r \in Subjects /\ named \in Schools \cup {None}
  BY DEF Subjects, Names, IInv, Typed, Types
<1>2. named = None /\ s # None => SchoolOf(s) = student[r].school
  BY DEF CheckUpdate
<1> QED BY <1>1, <1>2, ChangingKeeps DEF CheckUpdate, people

LEMMA CheckBulkKeeps ==
  ASSUME IInv, NEW c \in Calls,
         NEW list \in SUBSET {r \in Students : student[r].user # None},
         NEW s \in Sections, NEW by \in Callers, CheckBulk(c, list, s, by)
  PROVE  IInv'
<1>1. list \in Subjects
  BY DEF Subjects
<1>2. by # Super => \A r \in list : student[r].school = SchoolOf(s)
  BY DEF CheckBulk
<1>3. CASE by = Super
  BY <1>1, <1>3, ChangingKeeps DEF CheckBulk, people
<1>4. CASE by # Super
  BY <1>1, <1>2, <1>4, ChangingKeeps DEF CheckBulk, people
<1> QED BY <1>3, <1>4

LEMMA CheckEnrolKeeps ==
  ASSUME IInv, NEW c \in Calls, NEW u \in Users, NEW s \in Sections,
         NEW by \in Callers, NEW named \in school \cup {None},
         CheckEnrol(c, u, s, by, named)
  PROVE  IInv'
<1>1. named \in Schools \cup {None} /\ Written(by, named) \in Schools \cup {None}
  BY DEF Written, Target, Callers, CheckEnrol, IInv, Typed, Types
<1>2. s \in ExistingSections /\ SchoolOf(s) = Target(by, named)
  BY DEF CheckEnrol
<1>3. /\ UNCHANGED <<classes, user, student, teacher, principal, cut>>
      /\ mixed \subseteq mixed'
      /\ c \notin mixed' => Written(by, named) = Target(by, named)
  BY DEF CheckEnrol
<1>4. <<"student", u>> \in Keys
  BY DEF Keys
<1>5. \A r \in Rows(u) : r \in Students /\ r \in Subjects /\ r \in Names
        /\ student[r].user = u /\ u # None /\ Under(r, <<"student", u>>)
  BY EnrolmentAssumption DEF Rows, Subjects, Names, Under
<1>6. \A x \in Names : Under(x, <<"student", u>>) => x \in Rows(u)
  BY DEF Under, Rows
<1>7. CASE /\ Rows(u) = {}
           /\ Creating(c, <<"student", u>>, Written(by, named), s, None)
  BY <1>1, <1>2, <1>3, <1>4, <1>6, <1>7, AskingKeeps
<1>8. CASE \E r \in Rows(u) :
             student[r].school = Target(by, named) /\ Changing(c, "updating", named, s, r)
  <2>1. PICK r \in Rows(u) :
          student[r].school = Target(by, named) /\ Changing(c, "updating", named, s, r)
    BY <1>8
  <2> QED BY <1>1, <1>2, <1>3, <1>5, <2>1, ChangingKeeps
<1>9. CASE \E r \in Rows(u) :
             Creating(c, <<"student", u>>, Written(by, named), s, r)
  <2>1. PICK r \in Rows(u) : Creating(c, <<"student", u>>, Written(by, named), s, r)
    BY <1>9
  <2>2. <<"student", u>> \notin raced =>
          \A x \in Names : Under(x, <<"student", u>>) => x = r
    BY <1>4, <1>5 DEF IInv, Sole, SoleUnder
  <2> QED BY <1>1, <1>2, <1>3, <1>4, <1>5, <2>1, <2>2, AskingKeeps
<1> QED BY <1>7, <1>8, <1>9 DEF CheckEnrol

-----------------------------------------------------------------------------
(* Steps that write users, profiles and assignments of teachers            *)

LEMMA FinishFacts ==
  ASSUME IInv, NEW c \in Calls, call[c].pc # "done",
         call' = [call EXCEPT ![c] = Idle("done")]
  PROVE  /\ Moves(c) /\ RefersTo(c)' /\ ComparedBy(c)'
         /\ call'[c].pc = "done" /\ call'[c].key = <<>>
<1>1. call'[c] = Idle("done") /\ Moves(c)
  BY IdleTypes DEF Moves, IInv, Typed, Types
<1>2. call'[c].pc = "done" /\ call'[c].key = <<>> /\ call'[c].section = None
  BY <1>1 DEF Idle
<1> QED BY <1>1, <1>2 DEF RefersTo, ComparedBy, At

\* Neither classes nor students are written.
LEMMA QuietKeeps ==
  ASSUME IInv, NEW c \in Calls, Moves(c), RefersTo(c)', ComparedBy(c)',
         UNCHANGED <<grade, section, student, mixed>>, cut \subseteq cut',
         school' \subseteq Schools,
         DOMAIN user' = Users, DOMAIN teacher' = Teachers,
         DOMAIN principal' = Calls, DOMAIN teaching' = Calls,
         \A u : Enrols(c, u) => u \in cut',
         \A u \in Users : user[u].role # None => user'[u].role # None,
         \A p \in Calls, u \in Users : principal'[p].user = u => user'[u].role # None,
         Sole'
  PROVE  IInv'
<1>1. Types'
  BY DEF IInv, Typed, Types, Moves
<1>3. \A s \in ExistingSections' : s \in ExistingSections /\ SchoolOf(s)' = SchoolOf(s)
  BY DEF ExistingSections, SchoolOf
<1>4. \A s \in ExistingSections' : grade'[section'[s].grade] # None
  BY <1>3 DEF IInv, Typed, Whole
<1>5. \A r \in Students : student'[r].section # None =>
        student'[r].section = student[r].section
          /\ student'[r].section \in ExistingSections'
  BY DEF IInv, Typed, Whole, ExistingSections
<1>7. Refers' /\ Unborn' /\ Whole' /\ SchoolAgrees' /\ Compared' /\ Between'
  BY <1>3, <1>4, <1>5, StepKeeps
<1> QED BY <1>1, <1>7 DEF IInv, Typed

\* The key of a call that is to create a row of a kind.
LEMMA KeyOfCall ==
  ASSUME IInv, NEW c \in Calls, call[c].pc = "creating"
  PROVE  call[c].key \in Keys
BY DEF IInv, Typed, Types, Refers, RefersTo, CallRow

LEMMA PrincipalsAreUsers ==
  ASSUME IInv
  PROVE  /\ \A p \in Calls, u \in Users : principal[p].user = u => user[u].role # None
         /\ DOMAIN user = Users /\ DOMAIN teacher = Teachers /\ school \subseteq Schools
         /\ DOMAIN principal = Calls /\ DOMAIN teaching = Calls
BY DEF IInv, Typed, Whole, Types

LEMMA CreateSchoolKeeps ==
  ASSUME IInv, NEW c \in Calls, NEW x \in Schools, CreateSchool(c, x)
  PROVE  IInv'
<1>1. /\ call[c].pc = "new" /\ call' = [call EXCEPT ![c] = Idle("done")]
      /\ school' = school \cup {x} /\ raced' = raced
      /\ UNCHANGED <<grade, section, chat, teaching, user, student, teacher,
                     principal, cut, mixed>>
  BY DEF CreateSchool, AtOnce, Finish, people
<1>2. ~At(c, "student") /\ \A u : ~Enrols(c, u)
  BY <1>1 DEF Enrols, At
<1>3. \A k \in Keys, y \in Names : Under(y, k)' => Under(y, k)
  BY <1>1 DEF Under
<1>4. Sole'
  BY <1>1, <1>2, <1>3, FinishFacts, SoleAfter
<1> QED BY <1>1, <1>2, <1>4, FinishFacts, QuietKeeps, PrincipalsAreUsers

LEMMA CreateUserKeeps ==
  ASSUME IInv, NEW c \in Calls, CreateUser(c)
  PROVE  IInv'
<1>1. /\ call[c].pc = "creating" /\ call[c].key[1] = "user"
      /\ call' = [call EXCEPT ![c] = Idle("done")] /\ raced' = raced
      /\ UNCHANGED <<school, grade, section, chat, teaching, student, teacher,
                     principal, cut, mixed>>
  BY DEF CreateUser, At, Finish, classes
<1>2. ~At(c, "student") /\ \A u : ~Enrols(c, u)
  BY <1>1 DEF Enrols, At
<1>3. \A k \in Keys, y \in Names : Under(y, k)' => Under(y, k)
  BY <1>1 DEF Under
<1>4. Sole'
  BY <1>1, <1>2, <1>3, FinishFacts, SoleAfter
<1>5. call[c].key[2] \in Users /\ call[c].key[3] \in SchoolRoles
  BY <1>1, KeyOfCall, KeyShape
<1>6. DOMAIN user' = Users
        /\ \A u \in Users : user[u].role # None => user'[u].role # None
  <2>1. CASE user[call[c].key[2]].role # None
    BY <2>1, PrincipalsAreUsers DEF CreateUser
  <2>2. CASE user[call[c].key[2]].role = None
    <3>1. user' = [user EXCEPT ![call[c].key[2]] =
                     [role |-> call[c].key[3], school |-> call[c].school]]
      BY <2>2 DEF CreateUser
    <3> QED BY <2>2, <3>1, PrincipalsAreUsers
  <2> QED BY <2>1, <2>2
<1> QED BY <1>1, <1>2, <1>4, <1>6, FinishFacts, QuietKeeps, PrincipalsAreUsers

LEMMA CreatePrincipalKeeps ==
  ASSUME IInv, NEW c \in Calls, CreatePrincipal(c)
  PROVE  IInv'
<1>1. /\ call[c].pc = "creating" /\ call[c].key[1] = "principal"
      /\ call' = [call EXCEPT ![c] = Idle("done")] /\ raced' = raced
      /\ principal' = [principal EXCEPT ![c] =
           [user |-> call[c].key[2], school |-> call[c].school]]
      /\ UNCHANGED <<school, grade, section, chat, teaching, user, student,
                     teacher, cut, mixed>>
  BY DEF CreatePrincipal, At, Finish, classes
<1>2. ~At(c, "student") /\ \A u : ~Enrols(c, u)
  BY <1>1 DEF Enrols, At
<1>3. principal'[c].user = call[c].key[2] /\ DOMAIN principal' = Calls
        /\ \A p \in Calls \ {c} : principal'[p] = principal[p]
  BY <1>1, PrincipalsAreUsers
<1>4. \A k \in Keys, y \in Names :
        Under(y, k)' => Under(y, k) \/ (y = c /\ k = call[c].key)
  <2> SUFFICES ASSUME NEW k \in Keys, NEW y \in Names, Under(y, k)', ~Under(y, k)
               PROVE  y = c /\ k = call[c].key
    OBVIOUS
  <2>1. k[1] = "principal" /\ y = c /\ k[2] = call[c].key[2]
    BY <1>1, <1>3 DEF Under
  <2> QED BY <1>1, <2>1, KeyOfCall, KeyShape
<1>5. Sole'
  BY <1>1, <1>2, <1>4, FinishFacts, SoleAfter
<1>6. user[call[c].key[2]].role # None
  BY <1>1 DEF IInv, Typed, Refers, RefersTo, At
<1>7. \A p \in Calls, u \in Users : principal'[p].user = u => user'[u].role # None
  BY <1>1, <1>3, <1>6, PrincipalsAreUsers
<1> QED BY <1>1, <1>2, <1>3, <1>5, <1>7, FinishFacts, QuietKeeps, PrincipalsAreUsers

LEMMA CreateTeacherKeeps ==
  ASSUME IInv, NEW c \in Calls, CreateTeacher(c)
  PROVE  IInv'
<1>1. /\ call[c].pc = "creating" /\ call[c].key[1] = "teacher"
      /\ call' = [call EXCEPT ![c] = Idle("done")] /\ raced' = raced
      /\ teacher' = [teacher EXCEPT ![c] =
           [user |-> call[c].key[2], school |-> call[c].school]]
      /\ UNCHANGED <<school, grade, section, chat, teaching, user, student,
                     principal, cut, mixed>>
  BY DEF CreateTeacher, At, Finish, classes
<1>2. ~At(c, "student") /\ \A u : ~Enrols(c, u)
  BY <1>1 DEF Enrols, At
<1>3. teacher'[c].user = call[c].key[2] /\ DOMAIN teacher' = Teachers
        /\ \A t \in Teachers \ {c} : teacher'[t] = teacher[t]
  BY <1>1, PrincipalsAreUsers DEF Teachers
<1>4. \A k \in Keys, y \in Names :
        Under(y, k)' => Under(y, k) \/ (y = c /\ k = call[c].key)
  <2> SUFFICES ASSUME NEW k \in Keys, NEW y \in Names, Under(y, k)', ~Under(y, k)
               PROVE  y = c /\ k = call[c].key
    OBVIOUS
  <2>1. k[1] = "teacher" /\ y = c /\ k[2] = call[c].key[2]
    BY <1>1, <1>3 DEF Under
  <2> QED BY <1>1, <2>1, KeyOfCall, KeyShape
<1>5. Sole'
  BY <1>1, <1>2, <1>4, FinishFacts, SoleAfter
<1> QED BY ZenonT(30), <1>1, <1>2, <1>3, <1>5, FinishFacts, QuietKeeps, PrincipalsAreUsers

LEMMA CommitSchoolWithPrincipalKeeps ==
  ASSUME IInv, NEW c \in Calls, CommitSchoolWithPrincipal(c)
  PROVE  IInv'
<1>1. /\ call[c].pc = "creating" /\ call[c].key[1] = "school"
      /\ call' = [call EXCEPT ![c] = Idle("done")] /\ raced' = raced
      /\ UNCHANGED <<grade, section, chat, teaching, student, teacher, cut, mixed>>
  BY DEF CommitSchoolWithPrincipal, At, Finish
<1>2. ~At(c, "student") /\ \A u : ~Enrols(c, u)
  BY <1>1 DEF Enrols, At
<1>3. PICK u \in Users, x \in Schools : u = call[c].key[2] /\ x = call[c].school
  <2>1. call[c].school = call[c].key[3]
    BY <1>1 DEF IInv, Typed, Refers, RefersTo, At
  <2> QED BY <1>1, <2>1, KeyOfCall, KeyShape
<1>4. CASE user[u].role # None
  <2>1. UNCHANGED <<school, user, principal>>
    BY <1>3, <1>4 DEF CommitSchoolWithPrincipal
  <2>2. \A k \in Keys, y \in Names : Under(y, k)' => Under(y, k)
    BY <1>1, <2>1 DEF Under
  <2>3. Sole'
    BY <1>1, <1>2, <2>2, FinishFacts, SoleAfter
  <2> QED BY <1>1, <1>2, <2>1, <2>3, FinishFacts, QuietKeeps, PrincipalsAreUsers
<1>5. CASE user[u].role = None
  <2>1. /\ school' = school \cup {x}
        /\ user' = [user EXCEPT ![u] = [role |-> "PRINCIPAL", school |-> x]]
        /\ principal' = [principal EXCEPT ![c] = [user |-> u, school |-> x]]
    BY <1>3, <1>5 DEF CommitSchoolWithPrincipal
  <2>2. principal'[c].user = u /\ DOMAIN principal' = Calls
          /\ \A p \in Calls \ {c} : principal'[p] = principal[p]
    BY <2>1, PrincipalsAreUsers
  <2>3. /\ DOMAIN user' = Users /\ user'[u].role # None
        /\ \A z \in Users : user[z].role # None => user'[z].role # None
    BY <2>1, PrincipalsAreUsers, EnrolmentAssumption
  <2>4. <<"principal", u>> \in Keys
    BY DEF Keys
  <2>5. \A k \in Keys, y \in Names :
          Under(y, k)' => Under(y, k) \/ (y = c /\ k = <<"principal", u>>)
    <3> SUFFICES ASSUME NEW k \in Keys, NEW y \in Names, Under(y, k)', ~Under(y, k)
                 PROVE  y = c /\ k = <<"principal", u>>
      OBVIOUS
    <3>1. k[1] = "principal" /\ y = c /\ k[2] = u
      BY <1>1, <2>2 DEF Under
    <3> QED BY <3>1, KeyShape
  <2>6. \A y \in Names : ~Under(y, <<"principal", u>>)
    BY <1>5, PrincipalsAreUsers DEF Under
  <2>7. \A d \in Calls : call[d].key # <<"principal", u>>
    <3> SUFFICES ASSUME NEW d \in Calls, call[d].key = <<"principal", u>> PROVE FALSE
      OBVIOUS
    <3>1. RefersTo(d) /\ call[d].key # <<>>
      BY <2>4, KeyIsNotEmpty DEF IInv, Typed, Refers
    <3>2. call[d].pc = "creating"
      BY <3>1 DEF RefersTo
    <3>3. At(d, "principal") /\ call[d].key[2] = u
      BY <3>2 DEF At
    <3> QED BY <1>5, <3>1, <3>3 DEF RefersTo
  <2>8. Sole'
    <3>1. Free(<<"principal", u>>)
      BY <2>6, <2>7 DEF Free
    <3>2. \A k \in Keys, y \in Names : Under(y, k)' =>
            Under(y, k) \/ (y = c /\ (k \in raced' \/ Free(k)))
      BY <2>5, <3>1
    <3> QED BY <1>1, <3>2, FinishFacts, SoleAfter
  <2>9. \A p \in Calls, z \in Users : principal'[p].user = z => user'[z].role # None
    BY <2>2, <2>3, PrincipalsAreUsers
  <2>10. school' \subseteq Schools
    BY <2>1, PrincipalsAreUsers
  <2> QED BY <1>1, <1>2, <2>2, <2>3, <2>8, <2>9, <2>10, FinishFacts, QuietKeeps,
             PrincipalsAreUsers
<1> QED BY <1>4, <1>5

LEMMA AssignPrincipalKeeps ==
  ASSUME IInv, NEW c \in Calls, NEW u \in Users, NEW x \in school,
         AssignPrincipal(c, u, x)
  PROVE  IInv'
<1>1. /\ call[c].pc = "new" /\ call' = [call EXCEPT ![c] = Idle("done")]
      /\ user' = [user EXCEPT ![u] = [role |-> "PRINCIPAL", school |-> x]]
      /\ raced' = raced \cup {<<"principal", u>> : d \in
                                {d \in Calls : call[d].key = <<"principal", u>>}}
      /\ UNCHANGED <<school, grade, section, chat, teaching, student, teacher, cut, mixed>>
  BY DEF AssignPrincipal, classes
<1>2. ~At(c, "student") /\ \A z : ~Enrols(c, z)
  BY <1>1 DEF Enrols, At
<1>3. /\ DOMAIN user' = Users /\ user'[u].role # None
      /\ \A z \in Users : user[z].role # None => user'[z].role # None
  BY <1>1, PrincipalsAreUsers, EnrolmentAssumption
<1>4. <<"principal", u>> \in Keys /\ raced \subseteq raced'
  BY <1>1 DEF Keys
<1>5. CASE /\ \A p \in Calls : principal[p].user # u
           /\ principal' = [principal EXCEPT ![c] = [user |-> u, school |-> x]]
  <2>1. principal'[c].user = u /\ DOMAIN principal' = Calls
          /\ \A p \in Calls \ {c} : principal'[p] = principal[p]
    BY <1>5, PrincipalsAreUsers
  <2>2. \A k \in Keys, y \in Names :
          Under(y, k)' => Under(y, k) \/ (y = c /\ k = <<"principal", u>>)
    <3> SUFFICES ASSUME NEW k \in Keys, NEW y \in Names, Under(y, k)', ~Under(y, k)
                 PROVE  y = c /\ k = <<"principal", u>>
      OBVIOUS
    <3>1. k[1] = "principal" /\ y = c /\ k[2] = u
      BY <1>1, <2>1 DEF Under
    <3> QED BY <3>1, KeyShape
  <2>3. \A y \in Names : ~Under(y, <<"principal", u>>)
    BY <1>5 DEF Under
  <2>4. <<"principal", u>> \notin raced' =>
          \A d \in Calls : call[d].key # <<"principal", u>>
    BY <1>1
  <2>5. Sole'
    <3>1. <<"principal", u>> \in raced' \/ Free(<<"principal", u>>)
      BY <2>3, <2>4 DEF Free
    <3>2. \A k \in Keys, y \in Names : Under(y, k)' =>
            Under(y, k) \/ (y = c /\ (k \in raced' \/ Free(k)))
      BY <2>2, <3>1
    <3> QED BY <1>1, <1>4, <3>2, FinishFacts, SoleAfter
  <2>6. \A p \in Calls, z \in Users : principal'[p].user = z => user'[z].role # None
    BY <1>3, <2>1, PrincipalsAreUsers
  <2> QED BY <1>1, <1>2, <1>3, <2>1, <2>5, <2>6, FinishFacts, QuietKeeps,
             PrincipalsAreUsers
<1>6. CASE \E p \in Calls :
             principal[p].user = u /\ principal' = [principal EXCEPT ![p].school = x]
  <2>1. DOMAIN principal' = Calls
          /\ \A p \in Calls : principal'[p].user = principal[p].user
    BY <1>6, PrincipalsAreUsers
  <2>2. \A k \in Keys, y \in Names : Under(y, k)' => Under(y, k)
    BY <1>1, <2>1 DEF Under
  <2>3. Sole'
    BY <1>1, <1>2, <1>4, <2>2, FinishFacts, SoleAfter
  <2>4. \A p \in Calls, z \in Users : principal'[p].user = z => user'[z].role # None
    BY <1>3, <2>1, PrincipalsAreUsers
  <2> QED BY <1>1, <1>2, <1>3, <2>1, <2>3, <2>4, FinishFacts, QuietKeeps,
             PrincipalsAreUsers
<1> QED BY <1>5, <1>6 DEF AssignPrincipal

LEMMA CreateTeachingKeeps ==
  ASSUME IInv, NEW c \in Calls, CreateTeaching(c)
  PROVE  IInv'
<1>1. /\ call[c].pc = "creating" /\ call[c].key[1] = "teaching" /\ raced' = raced
      /\ UNCHANGED <<school, grade, section, chat, user, student, teacher,
                     principal, cut, mixed>>
  BY DEF CreateTeaching, At, people
<1>2. ~At(c, "student") /\ \A u : ~Enrols(c, u)
  BY <1>1 DEF Enrols, At
<1>3. PICK t \in Teachers, s \in Sections :
        t = call[c].row /\ s = call[c].section /\ call[c].key = <<"teaching", t, s>>
  <2>1. call[c].row = call[c].key[2] /\ call[c].section = call[c].key[3]
    BY <1>1 DEF IInv, Typed, Refers, RefersTo, At
  <2> QED BY <1>1, <2>1, KeyOfCall, KeyShape
<1>4. CASE s \notin ExistingSections
  <2>1. call' = [call EXCEPT ![c] = Idle("done")] /\ UNCHANGED teaching
    BY <1>3, <1>4 DEF CreateTeaching
  <2>2. \A k \in Keys, y \in Names : Under(y, k)' => Under(y, k)
    BY <1>1, <2>1 DEF Under
  <2>3. Sole'
    BY <1>1, <1>2, <2>1, <2>2, FinishFacts, SoleAfter
  <2> QED BY <1>1, <1>2, <2>1, <2>3, FinishFacts, QuietKeeps, PrincipalsAreUsers
<1>5. CASE s \in ExistingSections
  <2> DEFINE v == [Idle("chatting") EXCEPT !.section = s]
  <2>1. call' = [call EXCEPT ![c] = v]
          /\ teaching' = [teaching EXCEPT ![c] = [teacher |-> t, section |-> s]]
    BY <1>3, <1>5 DEF CreateTeaching
  <2>2. v = [pc |-> "chatting", key |-> <<>>, school |-> None, section |-> s,
             row |-> None]
    BY DEF Idle
  <2>3. v \in CallRow /\ v.pc = "chatting" /\ v.key = <<>> /\ v.section = s
    <3>1. None \in Subjects \cup {None}
      OBVIOUS
    <3> QED BY <2>2, <3>1 DEF CallRow
  <2> HIDE DEF v
  <2>4. Moves(c) /\ call'[c] = v
    BY <1>1, <2>1, <2>3 DEF Moves, IInv, Typed, Types
  <2>5. RefersTo(c)'
    <3>1. Born(s)'
      BY <1>5, <2>4, RowsAreBorn, BornStays
    <3> QED BY <2>3, <2>4, <3>1 DEF RefersTo, At
  <2>6. ComparedBy(c)'
    BY <2>3, <2>4 DEF ComparedBy, At
  <2>7. teaching'[c] = [teacher |-> t, section |-> s] /\ DOMAIN teaching' = Calls
          /\ \A a \in Calls \ {c} : teaching'[a] = teaching[a]
    BY <2>1, PrincipalsAreUsers
  <2>8. \A k \in Keys, y \in Names :
          Under(y, k)' => Under(y, k) \/ (y = c /\ k = call[c].key)
    <3> SUFFICES ASSUME NEW k \in Keys, NEW y \in Names, Under(y, k)', ~Under(y, k)
                 PROVE  y = c /\ k = call[c].key
      OBVIOUS
    <3>1. k[1] = "teaching" /\ y = c /\ teaching'[y] = [teacher |-> k[2], section |-> k[3]]
      BY <1>1, <2>7 DEF Under
    <3>2. k[2] = t /\ k[3] = s
      BY <2>7, <3>1
    <3> QED BY <1>3, <3>1, <3>2, KeyShape
  <2>9. Sole'
    BY <1>1, <1>2, <2>3, <2>4, <2>8, SoleAfter
  <2> QED BY <1>1, <1>2, <2>4, <2>5, <2>6, <2>7, <2>9, QuietKeeps, PrincipalsAreUsers
<1> QED BY <1>4, <1>5

LEMMA CreateSubjectGroupKeeps ==
  ASSUME IInv, NEW c \in Calls, CreateSubjectGroup(c)
  PROVE  IInv'
<1>1. /\ call[c].pc = "chatting" /\ call' = [call EXCEPT ![c] = Idle("done")]
      /\ raced' = raced
      /\ UNCHANGED <<school, grade, section, teaching, user, student, teacher,
                     principal, cut, mixed>>
  BY DEF CreateSubjectGroup, Finish, people
<1>2. ~At(c, "student") /\ \A u : ~Enrols(c, u)
  BY <1>1 DEF Enrols, At
<1>3. \A k \in Keys, y \in Names : Under(y, k)' => Under(y, k)
  BY <1>1 DEF Under
<1>4. Sole'
  BY <1>1, <1>2, <1>3, FinishFacts, SoleAfter
<1> QED BY <1>1, <1>2, <1>4, FinishFacts, QuietKeeps, PrincipalsAreUsers

LEMMA AbandonKeeps ==
  ASSUME IInv, NEW c \in Calls, Abandon(c)
  PROVE  IInv'
<1>1. /\ call[c].pc # "done" /\ call' = [call EXCEPT ![c] = Idle("done")]
      /\ raced' = raced
      /\ UNCHANGED <<school, grade, section, chat, teaching, user, student, teacher,
                     principal, mixed>>
  BY DEF Abandon, Finish, classes
<1>2. cut \subseteq cut' /\ \A u : Enrols(c, u) => u \in cut'
  BY DEF Abandon, Enrols
<1>3. \A k \in Keys, y \in Names : Under(y, k)' => Under(y, k)
  BY <1>1 DEF Under
<1>4. Sole'
  BY <1>1, <1>3, FinishFacts, SoleAfter
<1> QED BY <1>1, <1>2, <1>4, FinishFacts, QuietKeeps, PrincipalsAreUsers

-----------------------------------------------------------------------------
(* Steps that write classes and sections                                   *)

\* Users and profiles are left alone, and students but for the sections they
\* lose; the sections that were there and remain are of the school they were.
LEMMA ClassesKeep ==
  ASSUME IInv, NEW c \in Calls, call[c].pc # "done", ~At(c, "student"), Finish(c),
         UNCHANGED <<school, chat, teaching, user, teacher, principal, cut, mixed>>,
         grade' \in [Grades -> Schools \cup {None}],
         section' \in [Sections -> SectionRow],
         student' \in [Students -> StudentRow],
         \A d \in Calls \ {c} : call[d].pc # "done" =>
           grade'[d] = grade[d] /\ section'[d].grade = section[d].grade,
         \A s \in ExistingSections' : Born(s) =>
           s \in ExistingSections /\ SchoolOf(s)' = SchoolOf(s),
         \A s \in ExistingSections' : grade'[section'[s].grade] # None,
         \A r \in Students :
           /\ student'[r].user = student[r].user
           /\ student'[r].school = student[r].school
           /\ student'[r].status = student[r].status
           /\ student'[r].section # None =>
                student'[r].section = student[r].section
                  /\ student'[r].section \in ExistingSections',
         \A k \in Keys, x \in Names :
           Under(x, k)' => Under(x, k) \/ (x = c /\ (k = call[c].key \/ Free(k)))
  PROVE  IInv'
<1>1. call' = [call EXCEPT ![c] = Idle("done")] /\ raced' = raced
  BY DEF Finish
<1>2. Moves(c) /\ RefersTo(c)' /\ ComparedBy(c)' /\ call'[c].pc = "done"
        /\ call'[c].key = <<>>
  BY <1>1, FinishFacts
<1>3. Types'
  BY <1>2 DEF IInv, Typed, Types, Moves
<1>4. \A u : ~Enrols(c, u)
  BY DEF Enrols
<1>5. \A d \in Calls : call'[d].pc # "done" =>
        grade'[d] = grade[d] /\ section'[d].grade = section[d].grade
  BY <1>2 DEF Moves
<1>6. Refers' /\ Unborn' /\ Whole' /\ SchoolAgrees' /\ Compared' /\ Between'
  BY <1>2, <1>4, <1>5, PrincipalsAreUsers, StepKeeps
<1>7. Sole'
  BY <1>1, <1>2, SoleAfter
<1> QED BY <1>3, <1>6, <1>7 DEF IInv, Typed

LEMMA SectionTypes ==
  ASSUME IInv
  PROVE  /\ section \in [Sections -> SectionRow]
         /\ student \in [Students -> StudentRow]
         /\ grade \in [Grades -> Schools \cup {None}]
         /\ \A r \in Students :
              student[r].section # None => student[r].section \in ExistingSections
BY DEF IInv, Typed, Types, Whole

\* A class is created where there was none, with a section of its own or not.
LEMMA CommitGradeKeeps ==
  ASSUME IInv, NEW c \in Calls, CommitGrade(c)
  PROVE  IInv'
<1>1. /\ call[c].pc = "creating" /\ call[c].key[1] = "grade" /\ Finish(c)
      /\ UNCHANGED <<school, chat, teaching, user, student, teacher, principal, cut, mixed>>
      /\ grade' = [grade EXCEPT ![c] = call[c].school]
      /\ section' \in {section, [section EXCEPT ![c].grade = c]}
  BY DEF CommitGrade, At, people
<1>2. PICK x \in Schools : x = call[c].school /\ call[c].key = <<"grade", x>>
  <2>1. call[c].school = call[c].key[2]
    BY <1>1 DEF IInv, Typed, Refers, RefersTo, At
  <2> QED BY <1>1, <2>1, KeyOfCall, KeyShape
<1>3. /\ c \in Grades /\ c \in Sections /\ c # None /\ ~Born(c)
      /\ grade[c] = None /\ section[c].grade = None
  BY <1>1, EnrolmentAssumption DEF Grades, Sections, Born, IInv, Typed, Unborn
<1>4. /\ grade'[c] = x /\ \A g \in Grades \ {c} : grade'[g] = grade[g]
      /\ grade' \in [Grades -> Schools \cup {None}]
  BY <1>1, <1>2, <1>3, SectionTypes
<1>5. /\ section'[c].grade \in {None, c}
      /\ \A s \in Sections \ {c} : section'[s] = section[s]
      /\ section' \in [Sections -> SectionRow]
  <2>1. CASE section' = section
    BY <2>1, <1>3, SectionTypes
  <2>2. CASE section' = [section EXCEPT ![c].grade = c]
    <3>1. section[c] \in SectionRow /\ section' = [section EXCEPT ![c] = [section[c] EXCEPT !.grade = c]]
      BY <2>2, <1>3, SectionTypes
    <3>2. [section[c] EXCEPT !.grade = c] \in SectionRow
            /\ [section[c] EXCEPT !.grade = c].grade = c
      BY <3>1, <1>3 DEF SectionRow
    <3> QED BY <3>1, <3>2, <1>3, SectionTypes
  <2> QED BY <1>1, <2>1, <2>2
<1>6. ASSUME NEW s \in ExistingSections', s # c
      PROVE  /\ s \in ExistingSections /\ section'[s] = section[s]
             /\ section[s].grade \in Grades \ {c} /\ SchoolOf(s)' = SchoolOf(s)
             /\ grade'[section'[s].grade] # None
  <2>1. s \in ExistingSections /\ section'[s] = section[s]
    BY <1>5, <1>6 DEF ExistingSections
  <2>2. section[s].grade \in Grades \ {c} /\ grade[section[s].grade] # None
    BY <2>1, <1>3, SchoolOfExisting, EnrolmentAssumption
  <2> QED BY <1>4, <1>6, <2>1, <2>2 DEF SchoolOf
<1>7. c \in ExistingSections' => grade'[section'[c].grade] # None
  BY <1>2, <1>4, <1>5, EnrolmentAssumption DEF ExistingSections
<1>8. \A s \in ExistingSections' : Born(s) =>
        s \in ExistingSections /\ SchoolOf(s)' = SchoolOf(s)
  BY <1>3, <1>6
<1>9. \A s \in ExistingSections' : grade'[section'[s].grade] # None
  BY <1>6, <1>7
<1>10. \A s \in ExistingSections : s \in ExistingSections'
  BY <1>3, <1>5 DEF ExistingSections
<1>11. \A k \in Keys, y \in Names :
         Under(y, k)' => Under(y, k) \/ (y = c /\ (k = call[c].key \/ Free(k)))
  <2> SUFFICES ASSUME NEW k \in Keys, NEW y \in Names, Under(y, k)', ~Under(y, k)
               PROVE  y = c /\ (k = call[c].key \/ Free(k))
    OBVIOUS
  <2>1. CASE k[1] = "grade"
    <3>1. y \in Grades /\ grade'[y] = k[2] /\ grade[y] # k[2]
      BY <2>1 DEF Under
    <3> QED BY <1>2, <1>4, <2>1, <3>1, KeyShape
  <2>2. CASE k[1] = "section"
    <3>1. y \in Sections /\ section'[y].grade = k[2] /\ section[y].grade # k[2]
      BY <2>2 DEF Under
    <3>2. y = c /\ k[2] = c /\ k = <<"section", c>>
      BY <1>5, <2>2, <3>1, KeyShape, EnrolmentAssumption
    <3>3. \A s \in Sections : section[s].grade # c
      BY <1>3 DEF IInv, Typed, Whole, ExistingSections
    <3>4. ASSUME NEW d \in Calls, call[d].key = <<"section", c>> PROVE FALSE
      <4>1. RefersTo(d)
        BY DEF IInv, Typed, Refers
      <4>2. call[d].pc = "creating"
        BY <3>2, <3>4, <4>1, KeyIsNotEmpty DEF RefersTo
      <4>3. At(d, "section") /\ call[d].key[2] = c
        BY <3>4, <4>2 DEF At
      <4> QED BY <1>3, <4>1, <4>3 DEF RefersTo
    <3>5. Free(<<"section", c>>)
      BY <3>3, <3>4 DEF Free, Under
    <3> QED BY <3>2, <3>5
  <2> QED BY <1>1, <2>1, <2>2 DEF Under
<1>12. \A d \in Calls \ {c} : grade'[d] = grade[d] /\ section'[d].grade = section[d].grade
  BY <1>4, <1>5 DEF Grades, Sections
<1> QED BY <1>1, <1>4, <1>5, <1>8, <1>9, <1>10, <1>11, <1>12, SectionTypes,
           ClassesKeep DEF At

LEMMA CreateSectionKeeps ==
  ASSUME IInv, NEW c \in Calls, CreateSection(c)
  PROVE  IInv'
<1>1. /\ call[c].pc = "creating" /\ call[c].key[1] = "section" /\ Finish(c)
      /\ UNCHANGED <<school, grade, chat, teaching, user, student, teacher,
                     principal, cut, mixed>>
      /\ section' = IF grade[call[c].row] = None THEN section
                    ELSE [section EXCEPT ![c].grade = call[c].row]
  BY DEF CreateSection, At, people
<1>2. PICK g \in Grades : g = call[c].row /\ call[c].key = <<"section", g>>
  <2>1. call[c].row = call[c].key[2]
    BY <1>1 DEF IInv, Typed, Refers, RefersTo, At
  <2> QED BY <1>1, <2>1, KeyOfCall, KeyShape
<1>3. c \in Sections /\ ~Born(c) /\ section[c].grade = None /\ g # None
  BY <1>1, EnrolmentAssumption DEF Sections, Born, IInv, Typed, Unborn
<1>4. /\ section'[c].grade \in {None, g}
      /\ section'[c].grade = g => grade[g] # None
      /\ \A s \in Sections \ {c} : section'[s] = section[s]
      /\ section' \in [Sections -> SectionRow]
  <2>1. CASE grade[g] = None
    BY <2>1, <1>1, <1>2, <1>3, SectionTypes
  <2>2. CASE grade[g] # None
    <3>1. section[c] \in SectionRow /\ section' = [section EXCEPT ![c] = [section[c] EXCEPT !.grade = g]]
      BY <2>2, <1>1, <1>2, <1>3, SectionTypes
    <3>2. [section[c] EXCEPT !.grade = g] \in SectionRow
            /\ [section[c] EXCEPT !.grade = g].grade = g
      BY <3>1 DEF SectionRow
    <3> QED BY <2>2, <3>1, <3>2, <1>3, SectionTypes
  <2> QED BY <2>1, <2>2
<1>5. ASSUME NEW s \in ExistingSections', s # c
      PROVE  /\ s \in ExistingSections /\ section'[s] = section[s]
             /\ SchoolOf(s)' = SchoolOf(s) /\ grade'[section'[s].grade] # None
  <2>1. s \in ExistingSections /\ section'[s] = section[s]
    BY <1>4, <1>5 DEF ExistingSections
  <2>2. grade[section[s].grade] # None
    BY <2>1 DEF IInv, Typed, Whole
  <2> QED BY <1>1, <1>5, <2>1, <2>2 DEF SchoolOf
<1>6. c \in ExistingSections' => grade'[section'[c].grade] # None
  BY <1>1, <1>4 DEF ExistingSections
<1>7. \A s \in ExistingSections' : Born(s) =>
        s \in ExistingSections /\ SchoolOf(s)' = SchoolOf(s)
  BY <1>3, <1>5
<1>8. \A s \in ExistingSections' : grade'[section'[s].grade] # None
  BY <1>5, <1>6
<1>9. \A s \in ExistingSections : s \in ExistingSections'
  BY <1>3, <1>4 DEF ExistingSections
<1>10. \A k \in Keys, y \in Names :
         Under(y, k)' => Under(y, k) \/ (y = c /\ (k = call[c].key \/ Free(k)))
  <2> SUFFICES ASSUME NEW k \in Keys, NEW y \in Names, Under(y, k)', ~Under(y, k)
               PROVE  y = c /\ k = call[c].key
    OBVIOUS
  <2>1. k[1] = "section" /\ y \in Sections /\ section'[y].grade = k[2]
          /\ section[y].grade # k[2]
    BY <1>1 DEF Under
  <2> QED BY <1>2, <1>4, <2>1, KeyShape, EnrolmentAssumption
<1>11. \A d \in Calls \ {c} : grade'[d] = grade[d] /\ section'[d].grade = section[d].grade
  BY <1>1, <1>4 DEF Sections
<1> QED BY <1>1, <1>4, <1>7, <1>8, <1>9, <1>10, <1>11, SectionTypes, ClassesKeep DEF At

LEMMA WriteInchargeKeeps ==
  ASSUME IInv, NEW c \in Calls, WriteIncharge(c)
  PROVE  IInv'
<1>1. /\ call[c].pc = "incharge" /\ Finish(c)
      /\ UNCHANGED <<school, grade, chat, teaching, user, student, teacher,
                     principal, cut, mixed>>
      /\ section' = section \/ /\ call[c].section \in ExistingSections
                               /\ section' = [section EXCEPT
                                    ![call[c].section].incharge = call[c].row]
  BY DEF WriteIncharge, people
<1>2. /\ \A s \in Sections : section'[s].grade = section[s].grade
      /\ section' \in [Sections -> SectionRow]
  <2>1. CASE section' = section
    BY <2>1, SectionTypes
  <2>2. CASE section' # section
    <3>1. PICK s \in Sections, t \in Teachers :
            /\ s = call[c].section /\ t = call[c].row
            /\ section' = [section EXCEPT ![s].incharge = t]
      BY <1>1, <2>2 DEF IInv, Typed, Refers, RefersTo, ExistingSections
    <3>2. section[s] \in SectionRow /\ section' = [section EXCEPT ![s] = [section[s] EXCEPT !.incharge = t]]
      BY <3>1, SectionTypes
    <3>3. [section[s] EXCEPT !.incharge = t] \in SectionRow
            /\ [section[s] EXCEPT !.incharge = t].grade = section[s].grade
      BY <3>2 DEF SectionRow
    <3> QED BY <3>2, <3>3, SectionTypes
  <2> QED BY <2>1, <2>2
<1>3. ExistingSections' = ExistingSections
  BY <1>2 DEF ExistingSections
<1>4. \A s \in ExistingSections' : s \in ExistingSections /\ SchoolOf(s)' = SchoolOf(s)
        /\ grade'[section'[s].grade] # None
  BY <1>1, <1>2, <1>3 DEF SchoolOf, IInv, Typed, Whole, ExistingSections
<1>5. \A k \in Keys, y \in Names : Under(y, k)' => Under(y, k)
  BY <1>1, <1>2 DEF Under
<1>6. \A d \in Calls \ {c} : grade'[d] = grade[d] /\ section'[d].grade = section[d].grade
  BY <1>1, <1>2 DEF Sections
<1> QED BY <1>1, <1>2, <1>3, <1>4, <1>5, <1>6, SectionTypes, ClassesKeep DEF At

\* Sections go, and students lose them; those that stay are of the same school.
LEMMA SectionsGo ==
  ASSUME IInv, NEW gone \in SUBSET Sections,
         student' = Unassign(gone), section' = Without(gone),
         grade' \in [Grades -> Schools \cup {None}],
         \A s \in ExistingSections \ gone :
           grade'[section[s].grade] = grade[section[s].grade]
  PROVE  /\ section' \in [Sections -> SectionRow]
         /\ student' \in [Students -> StudentRow]
         /\ \A d \in Calls : call[d].pc # "done" => section'[d].grade = section[d].grade
         /\ \A s \in ExistingSections' :
              s \in ExistingSections /\ SchoolOf(s)' = SchoolOf(s)
         /\ \A s \in ExistingSections' : grade'[section'[s].grade] # None
         /\ \A r \in Students :
              /\ student'[r].user = student[r].user
              /\ student'[r].school = student[r].school
              /\ student'[r].status = student[r].status
              /\ student'[r].section # None =>
                   student'[r].section = student[r].section
                     /\ student'[r].section \in ExistingSections'
         /\ \A s \in Sections : section'[s].grade \in {section[s].grade, None}
<1>1. \A s \in Sections : section'[s] = IF s \in gone THEN [grade |-> None, incharge |-> None]
                                        ELSE section[s]
  BY DEF Without
<1>2. \A r \in Students :
        student'[r] = IF student[r].section \in gone
                      THEN [student[r] EXCEPT !.section = None] ELSE student[r]
  BY DEF Unassign
<1>3. section' \in [Sections -> SectionRow]
  <2>1. [grade |-> None, incharge |-> None] \in SectionRow
    BY DEF SectionRow
  <2> QED BY <2>1, SectionTypes DEF Without
<1>4. ASSUME NEW r \in Students
      PROVE  /\ student'[r] \in StudentRow
             /\ student'[r].user = student[r].user
             /\ student'[r].school = student[r].school
             /\ student'[r].status = student[r].status
             /\ student'[r].section = IF student[r].section \in gone THEN None
                                      ELSE student[r].section
  <2>1. student[r] \in StudentRow
    BY SectionTypes
  <2> QED BY <1>2, <2>1 DEF StudentRow
<1>5. student' \in [Students -> StudentRow]
  BY <1>4 DEF Unassign
<1>6. ExistingSections' = ExistingSections \ gone
  BY <1>1 DEF ExistingSections
<1>7. ASSUME NEW s \in ExistingSections'
      PROVE  /\ s \in ExistingSections /\ SchoolOf(s)' = SchoolOf(s)
             /\ grade'[section'[s].grade] # None
  <2>1. s \in ExistingSections \ gone /\ section'[s] = section[s] /\ s \in Sections
    BY <1>1, <1>6 DEF ExistingSections
  <2>2. grade[section[s].grade] # None
    BY <2>1 DEF IInv, Typed, Whole
  <2> QED BY <1>7, <2>1, <2>2 DEF SchoolOf
<1>8. \A s \in Sections : section'[s].grade \in {section[s].grade, None}
  BY <1>1
<1>9. \A d \in Calls : call[d].pc # "done" => section'[d].grade = section[d].grade
  BY <1>8 DEF IInv, Typed, Unborn, Sections
<1>10. \A r \in Students : student'[r].section # None =>
         student'[r].section = student[r].section
           /\ student'[r].section \in ExistingSections'
  BY <1>4, <1>6, SectionTypes
<1> QED BY <1>3, <1>4, <1>5, <1>7, <1>8, <1>9, <1>10

LEMMA DeleteSectionKeeps ==
  ASSUME IInv, NEW c \in Calls, NEW s \in Sections, NEW by, DeleteSection(c, s, by)
  PROVE  IInv'
<1>1. /\ call[c].pc = "new" /\ Finish(c) /\ ~At(c, "student")
      /\ UNCHANGED <<school, grade, chat, teaching, user, teacher, principal, cut, mixed>>
  BY DEF DeleteSection, AtOnce, At
<1>2. CASE UNCHANGED <<student, section>>
  <2>1. ExistingSections' = ExistingSections
    BY <1>2 DEF ExistingSections
  <2>2. \A z \in ExistingSections' : z \in ExistingSections /\ SchoolOf(z)' = SchoolOf(z)
          /\ grade'[section'[z].grade] # None
    BY <1>1, <1>2, <2>1 DEF SchoolOf, IInv, Typed, Whole
  <2>3. \A k \in Keys, y \in Names : Under(y, k)' => Under(y, k)
    BY <1>1, <1>2 DEF Under
  <2> QED BY <1>1, <1>2, <2>1, <2>2, <2>3, SectionTypes, ClassesKeep
<1>3. CASE student' = Unassign({s}) /\ section' = Without({s})
  <2>1. {s} \in SUBSET Sections
    OBVIOUS
  <2>2. \A z \in ExistingSections \ {s} :
          grade'[section[z].grade] = grade[section[z].grade]
    BY <1>1
  <2>3. /\ \A z \in Sections : section'[z].grade \in {section[z].grade, None}
        /\ \A r \in Students : student'[r].user = student[r].user
                               /\ student'[r].status = student[r].status
    BY <1>1, <1>3, <2>1, <2>2, SectionTypes, SectionsGo
  <2>4. \A k \in Keys, y \in Names : Under(y, k)' => Under(y, k)
    <3> SUFFICES ASSUME NEW k \in Keys, NEW y \in Names, Under(y, k)'
                 PROVE  Under(y, k)
      OBVIOUS
    <3> QED BY <1>1, <2>3, KeyShape, EnrolmentAssumption DEF Under
  <2> QED BY <1>1, <1>3, <2>1, <2>2, <2>4, SectionTypes, SectionsGo, ClassesKeep
<1> QED BY <1>2, <1>3 DEF DeleteSection

LEMMA DeleteGradeKeeps ==
  ASSUME IInv, NEW c \in Calls, NEW g \in Grades, NEW by, DeleteGrade(c, g, by)
  PROVE  IInv'
<1>1. /\ call[c].pc = "new" /\ Finish(c) /\ ~At(c, "student")
      /\ UNCHANGED <<school, chat, teaching, user, teacher, principal, cut, mixed>>
  BY DEF DeleteGrade, AtOnce, At
<1> DEFINE gone == {s \in Sections : section[s].grade = g}
<1>2. CASE UNCHANGED <<student, section, grade>>
  <2>1. ExistingSections' = ExistingSections
    BY <1>2 DEF ExistingSections
  <2>2. \A z \in ExistingSections' : z \in ExistingSections /\ SchoolOf(z)' = SchoolOf(z)
          /\ grade'[section'[z].grade] # None
    BY <1>1, <1>2, <2>1 DEF SchoolOf, IInv, Typed, Whole
  <2>3. \A k \in Keys, y \in Names : Under(y, k)' => Under(y, k)
    BY <1>1, <1>2 DEF Under
  <2> QED BY <1>1, <1>2, <2>1, <2>2, <2>3, SectionTypes, ClassesKeep
<1>3. CASE /\ student' = Unassign(gone) /\ section' = Without(gone)
           /\ grade' = [grade EXCEPT ![g] = None]
  <2>1. PICK out \in SUBSET Sections :
          out = gone /\ student' = Unassign(out) /\ section' = Without(out)
    BY <1>3
  <2>2. \A z \in ExistingSections \ out :
          grade'[section[z].grade] = grade[section[z].grade]
    <3> SUFFICES ASSUME NEW z \in ExistingSections, z \notin out
                 PROVE  grade'[section[z].grade] = grade[section[z].grade]
      OBVIOUS
    <3>1. section[z].grade # g /\ section[z].grade \in Grades
      BY <2>1, SchoolOfExisting
    <3> QED BY <1>3, <3>1, SectionTypes
  <2>3. grade' \in [Grades -> Schools \cup {None}]
          /\ \A h \in Grades : grade'[h] \in {grade[h], None}
    BY <1>3, SectionTypes
  <2>4. /\ \A z \in Sections : section'[z].grade \in {section[z].grade, None}
        /\ \A r \in Students : student'[r].user = student[r].user
                               /\ student'[r].status = student[r].status
    BY <2>1, <2>2, <2>3, SectionsGo
  <2>5. \A k \in Keys, y \in Names : Under(y, k)' => Under(y, k)
    <3> SUFFICES ASSUME NEW k \in Keys, NEW y \in Names, Under(y, k)'
                 PROVE  Under(y, k)
      OBVIOUS
    <3> QED BY <1>1, <2>3, <2>4, KeyShape, EnrolmentAssumption DEF Under
  <2>6. \A d \in Calls : call[d].pc # "done" => grade'[d] = grade[d]
    BY <2>3 DEF IInv, Typed, Unborn, Grades
  <2> HIDE DEF gone
  <2> QED BY <1>1, <2>1, <2>2, <2>3, <2>5, <2>6, SectionsGo, ClassesKeep
<1> QED BY <1>2, <1>3 DEF DeleteGrade

-----------------------------------------------------------------------------
(* Steps that write students                                               *)

\* Classes, sections, users and profiles are left alone, and the school of a
\* student whom another call has compared, unless he is mixed from then on.
StudentsOnly(c) ==
  /\ Moves(c) /\ UNCHANGED <<classes, user, teacher, principal>>
  /\ mixed \subseteq mixed' /\ cut \subseteq cut'
  /\ student' \in [Students -> StudentRow]

LEMMA StudentsKeep ==
  ASSUME IInv, NEW c \in Calls, StudentsOnly(c), RefersTo(c)', ComparedBy(c)',
         \A r \in Students : Born(r) => student'[r].user = student[r].user,
         \A d \in Calls : call'[d].pc # "done" =>
           student'[d].user = student[d].user /\ student'[d].status = student[d].status,
         \A r \in Students :
           student'[r].section # None => student'[r].section \in ExistingSections,
         \A r \in Students : r \notin mixed' /\ student'[r].section # None =>
           SchoolOf(student'[r].section) = student'[r].school,
         \A r \in Students : student'[r].school = student[r].school
                               \/ r \in mixed' \/ ~Awaited(c, r),
         Between', Sole'
  PROVE  IInv'
<1> USE DEF StudentsOnly, classes
<1>1. Types'
  BY DEF IInv, Typed, Types, Moves
<1>2. Refers'
  BY RefersKept
<1>3. Unborn'
  <2> SUFFICES ASSUME NEW d \in Calls, call'[d].pc # "done"
               PROVE  /\ grade'[d] = None /\ section'[d].grade = None
                      /\ student'[d].user = None /\ student'[d].status = None
    BY DEF Unborn
  <2>1. call[d].pc # "done"
    BY DEF Moves
  <2> QED BY <2>1 DEF IInv, Typed, Unborn
<1>4. ExistingSections' = ExistingSections
  BY DEF ExistingSections
<1>5. \A s : SchoolOf(s)' = SchoolOf(s)
  BY DEF SchoolOf, ExistingSections
<1>6. Whole'
  BY <1>4 DEF Whole, IInv, Typed
<1>7. SchoolAgrees'
  <2> SUFFICES ASSUME NEW r \in Students, student'[r].section # None, r \notin mixed'
               PROVE  SchoolOf(student[r].section)' = student'[r].school
    BY DEF SchoolAgrees
  <2>1. PICK s : s = student'[r].section
    OBVIOUS
  <2>2. SchoolOf(s)' = student'[r].school
    BY <1>5, <2>1
  <2> QED BY <2>1, <2>2 DEF SchoolOf
<1>8. Compared'
  <2> SUFFICES ASSUME NEW d \in Calls, d # c PROVE ComparedBy(d)'
    BY DEF Compared
  <2>1. call'[d] = call[d] /\ ComparedBy(d) /\ RefersTo(d)
    BY DEF Moves, IInv, Typed, Refers, Compared
  <2> SUFFICES ASSUME call[d].section \in ExistingSections PROVE ComparedBy(d)'
    BY <2>1, <1>4 DEF ComparedBy
  <2>2. PICK s : s = call[d].section
    OBVIOUS
  <2>3. SchoolOf(s)' = SchoolOf(s)
    BY <1>5
  <2>4. At(d, "student") /\ d \notin mixed' => SchoolOf(s)' = call[d].school
    BY <2>1, <2>2, <2>3 DEF ComparedBy
  <2>5. call[d].pc = "updating" /\ call[d].school = None /\ call[d].row \notin mixed' =>
          SchoolOf(s)' = student'[call[d].row].school
    <3> SUFFICES ASSUME call[d].pc = "updating", call[d].school = None,
                        call[d].row \notin mixed'
                 PROVE  SchoolOf(s)' = student'[call[d].row].school
      OBVIOUS
    <3>1. call[d].row \in Students /\ Awaited(c, call[d].row)
      BY <2>1 DEF RefersTo, Awaited
    <3>2. SchoolOf(s) = student[call[d].row].school
      BY <2>1, <2>2 DEF ComparedBy
    <3> QED BY <2>3, <3>1, <3>2
  <2>6. call[d].pc = "moving" =>
          \A r \in call[d].row \ mixed' : SchoolOf(s)' = student'[r].school
    <3> SUFFICES ASSUME call[d].pc = "moving", NEW r \in call[d].row, r \notin mixed'
                 PROVE  SchoolOf(s)' = student'[r].school
      OBVIOUS
    <3>1. r \in Students /\ Awaited(c, r)
      BY <2>1 DEF RefersTo, Awaited
    <3>2. SchoolOf(s) = student[r].school
      BY <2>1, <2>2 DEF ComparedBy
    <3> QED BY <2>3, <3>1, <3>2
  <2>7. SchoolOf(call[d].section)' = SchoolOf(s)'
    BY <2>1, <2>2 DEF SchoolOf
  <2> HIDE DEF SchoolOf
  <2> QED BY <2>1, <2>4, <2>5, <2>6, <2>7 DEF ComparedBy, At
<1> QED BY <1>1, <1>2, <1>3, <1>6, <1>7, <1>8 DEF IInv, Typed

\* Users and standings of the students stay, so what is between schools does.
LEMMA BetweenKept ==
  ASSUME IInv, NEW c \in Calls, Moves(c), cut \subseteq cut', ~At(c, "student"),
         \A r \in Students : student'[r].user = student[r].user
                               /\ student'[r].status = student[r].status
  PROVE  Between'
<1> SUFFICES ASSUME NEW r \in Students, student[r].status = "TRANSFERRED"
             PROVE  Placed(student[r].user)'
  BY DEF Between
<1>1. PICK u : u = student[r].user
  OBVIOUS
<1>2. Placed(u)
  BY <1>1 DEF IInv, Between
<1>3. Rows(u) # {} => Rows(u)' # {}
  BY DEF Rows
<1>4. ASSUME NEW d \in Calls, Enrols(d, u) PROVE Enrols(d, u)'
  BY <1>4 DEF Moves, Enrols, At
<1>5. Placed(u)'
  BY <1>2, <1>3, <1>4 DEF Placed
<1> QED BY <1>1, <1>5

LEMMA UpdateBulkSectionKeeps ==
  ASSUME IInv, NEW c \in Calls, UpdateBulkSection(c)
  PROVE  IInv'
<1>1. /\ call[c].pc \in {"moving", "moving any"} /\ ~At(c, "student")
      /\ call' = [call EXCEPT ![c] = Idle("done")] /\ raced' = raced
      /\ UNCHANGED <<classes, user, teacher, principal, cut>>
  BY DEF UpdateBulkSection, Finish, At
<1>2. Moves(c) /\ RefersTo(c)' /\ ComparedBy(c)' /\ call'[c].key = <<>>
        /\ call'[c].pc = "done"
  BY <1>1, FinishFacts
<1>3. PICK s, list : s = call[c].section /\ list = call[c].row
  OBVIOUS
<1>4. list \subseteq Students
  BY <1>1, <1>3 DEF IInv, Typed, Refers, RefersTo
<1>5. ASSUME NEW r \in Students
      PROVE  /\ student'[r] \in StudentRow
             /\ student'[r].user = student[r].user
             /\ student'[r].status = student[r].status
             /\ student'[r].school = student[r].school
             /\ \/ student'[r].section = student[r].section
                \/ student'[r].section = s /\ r \in list /\ s \in ExistingSections
  <2>1. student[r] \in StudentRow
    BY SectionTypes
  <2>2. CASE student' = student
    BY <2>1, <2>2
  <2>3. CASE student' # student
    <3>1. s \in ExistingSections
            /\ student' = [z \in Students |-> IF z \in list
                             THEN [student[z] EXCEPT !.section = s] ELSE student[z]]
      BY <1>3, <2>3 DEF UpdateBulkSection
    <3>2. s \in Sections
      BY <3>1 DEF ExistingSections
    <3> QED BY <2>1, <3>1, <3>2 DEF StudentRow
  <2> QED BY <2>2, <2>3
<1>6. student' \in [Students -> StudentRow]
  <2>1. student' = [z \in Students |-> student'[z]]
    <3>1. CASE student' = student
      BY <3>1, SectionTypes
    <3>2. CASE student' # student
      BY <3>2 DEF UpdateBulkSection
    <3> QED BY <3>1, <3>2
  <2> QED BY <1>5, <2>1
<1>7. mixed \subseteq mixed'
  BY DEF UpdateBulkSection
<1>8. \A r \in Students :
        student'[r].section # None => student'[r].section \in ExistingSections
  BY <1>5, SectionTypes
<1>9. ASSUME NEW r \in Students, r \notin mixed', student'[r].section # None
      PROVE  SchoolOf(student'[r].section) = student'[r].school
  <2>1. CASE student'[r] = student[r]
    BY <1>7, <1>9, <2>1 DEF IInv, SchoolAgrees
  <2>2. CASE student'[r] # student[r]
    <3>1. s \in ExistingSections /\ r \in list /\ student'[r].section = s
      <4>1. student' # student
        BY <2>2
      <4>2. s \in ExistingSections
              /\ student' = [z \in Students |-> IF z \in list
                               THEN [student[z] EXCEPT !.section = s] ELSE student[z]]
        BY <1>3, <4>1 DEF UpdateBulkSection
      <4>3. r \in list /\ student'[r] = [student[r] EXCEPT !.section = s]
        BY <2>2, <4>2
      <4>4. student[r] \in StudentRow
        BY SectionTypes
      <4> QED BY <4>2, <4>3, <4>4 DEF StudentRow
    <3>2. call[c].pc = "moving"
      BY <1>1, <1>3, <1>9, <3>1 DEF UpdateBulkSection
    <3>3. SchoolOf(s) = student[r].school
      BY <1>3, <1>7, <1>9, <3>1, <3>2 DEF IInv, Compared, ComparedBy
    <3> QED BY <1>5, <3>1, <3>3
  <2> QED BY <2>1, <2>2
<1>10. Between'
  BY <1>1, <1>2, <1>5, BetweenKept
<1>11. Sole'
  <2>1. \A k \in Keys, y \in Names : Under(y, k)' => Under(y, k)
    BY <1>1, <1>5 DEF Under, classes
  <2> QED BY <1>1, <1>2, <2>1, SoleAfter
<1>12. \A d \in Calls : call'[d].pc # "done" =>
           student'[d].user = student[d].user /\ student'[d].status = student[d].status
  BY <1>5 DEF Students
<1>13. StudentsOnly(c)
  BY <1>1, <1>2, <1>6, <1>7 DEF StudentsOnly
<1> QED BY <1>2, <1>5, <1>8, <1>9, <1>10, <1>11, <1>12, <1>13, StudentsKeep

LEMMA WriteUpdateKeeps ==
  ASSUME IInv, NEW c \in Calls, WriteUpdate(c)
  PROVE  IInv'
<1>1. /\ call[c].pc = "updating" /\ ~At(c, "student")
      /\ call' = [call EXCEPT ![c] = Idle("done")] /\ raced' = raced
      /\ UNCHANGED <<classes, user, teacher, principal, cut>>
  BY DEF WriteUpdate, Finish, At
<1>2. Moves(c) /\ RefersTo(c)' /\ ComparedBy(c)' /\ call'[c].key = <<>>
        /\ call'[c].pc = "done"
  BY <1>1, FinishFacts
<1>3. PICK r \in Students, s \in Sections \cup {None}, x \in Schools \cup {None} :
        r = call[c].row /\ s = call[c].section /\ x = call[c].school
  BY <1>1 DEF IInv, Typed, Types, Refers, RefersTo, CallRow
<1>4. CASE UNCHANGED <<student, mixed>>
  <2>1. Between'
    BY <1>1, <1>2, <1>4, BetweenKept
  <2>2. Sole'
    <3>1. \A k \in Keys, y \in Names : Under(y, k)' => Under(y, k)
      BY <1>1, <1>4 DEF Under, classes
    <3> QED BY <1>1, <1>2, <3>1, SoleAfter
  <2>3. StudentsOnly(c)
    BY <1>1, <1>2, <1>4, SectionTypes DEF StudentsOnly
  <2>4. \A z \in Students : z \notin mixed' /\ student'[z].section # None =>
          SchoolOf(student'[z].section) = student'[z].school
    BY <1>4 DEF IInv, SchoolAgrees
  <2> QED BY <1>2, <1>4, <2>1, <2>2, <2>3, <2>4, SectionTypes, StudentsKeep
<1>5. CASE ~UNCHANGED <<student, mixed>>
  <2> DEFINE to == [student[r] EXCEPT
                      !.section = IF s = None THEN @ ELSE s,
                      !.school = IF x = None THEN @ ELSE x]
  <2>1. /\ s \in ExistingSections \cup {None}
        /\ student' = [student EXCEPT ![r] = to]
        /\ mixed' = IF x = None \/ (SchoolOf(s) = x /\ ~Awaited(c, r))
                    THEN mixed ELSE mixed \cup {r}
    BY <1>3, <1>5 DEF WriteUpdate
  <2>2. /\ to \in StudentRow /\ to.user = student[r].user
        /\ to.status = student[r].status
        /\ to.section = IF s = None THEN student[r].section ELSE s
        /\ to.school = IF x = None THEN student[r].school ELSE x
    <3>1. student[r] \in StudentRow
      BY SectionTypes
    <3> QED BY <3>1 DEF StudentRow
  <2> HIDE DEF to
  <2>3. /\ student' \in [Students -> StudentRow] /\ student'[r] = to
        /\ \A z \in Students \ {r} : student'[z] = student[z]
    BY <2>1, <2>2, SectionTypes
  <2>4. \A z \in Students : student'[z].user = student[z].user
                              /\ student'[z].status = student[z].status
    BY <2>2, <2>3
  <2>5. mixed \subseteq mixed'
    BY <2>1
  <2>6. \A z \in Students :
          student'[z].section # None => student'[z].section \in ExistingSections
    BY <2>1, <2>2, <2>3, SectionTypes
  <2>7. SchoolOf(None) = None
    BY RowsAreBorn DEF SchoolOf
  <2>8. ASSUME NEW z \in Students, z \notin mixed', student'[z].section # None
        PROVE  SchoolOf(student'[z].section) = student'[z].school
    <3>1. CASE z # r
      BY <2>3, <2>5, <2>8, <3>1 DEF IInv, SchoolAgrees
    <3>2. CASE z = r /\ x # None
      <4>1. SchoolOf(s) = x
        BY <2>1, <2>8, <3>2
      <4>2. s # None
        BY <2>7, <3>2, <4>1
      <4> QED BY <2>2, <2>3, <3>2, <4>1, <4>2
    <3>3. CASE z = r /\ x = None /\ s = None
      BY <2>2, <2>3, <2>5, <2>8, <3>3 DEF IInv, SchoolAgrees
    <3>4. CASE z = r /\ x = None /\ s # None
      <4>1. SchoolOf(s) = student[r].school
        BY <1>1, <1>3, <2>1, <2>5, <2>8, <3>4 DEF IInv, Compared, ComparedBy
      <4> QED BY <2>2, <2>3, <3>4, <4>1
    <3> QED BY <3>1, <3>2, <3>3, <3>4
  <2>9. \A z \in Students : student'[z].school = student[z].school
                              \/ z \in mixed' \/ ~Awaited(c, z)
    BY <2>1, <2>2, <2>3
  <2>10. Between'
    BY <1>1, <1>2, <2>4, BetweenKept
  <2>11. Sole'
    <3>1. \A k \in Keys, y \in Names : Under(y, k)' => Under(y, k)
      BY <1>1, <2>4 DEF Under, classes
    <3> QED BY <1>1, <1>2, <3>1, SoleAfter
  <2>12. \A d \in Calls : call'[d].pc # "done" =>
           student'[d].user = student[d].user /\ student'[d].status = student[d].status
    BY <2>4 DEF Students
  <2>13. StudentsOnly(c)
    BY <1>1, <1>2, <2>3, <2>5 DEF StudentsOnly
  <2> QED BY <1>2, <2>4, <2>6, <2>8, <2>9, <2>10, <2>11, <2>12, <2>13, StudentsKeep
<1> QED BY <1>4, <1>5

LEMMA MarkTransferredKeeps ==
  ASSUME IInv, NEW c \in Calls, MarkTransferred(c)
  PROVE  IInv'
<1>1. /\ call[c].pc = "creating" /\ call[c].key[1] = "student" /\ call[c].row # None
      /\ student' = [student EXCEPT ![call[c].row].status = "TRANSFERRED"]
      /\ call' = [call EXCEPT ![c].row = None]
      /\ UNCHANGED <<classes, user, teacher, principal, raced, cut, mixed>>
  BY DEF MarkTransferred, At
<1>2. PICK u \in Users, r \in Students :
        /\ call[c].key = <<"student", u>> /\ r = call[c].row
        /\ Born(r) /\ student[r].user = u
  <2>1. call[c].row \in Students /\ Born(call[c].row)
          /\ student[call[c].row].user = call[c].key[2]
    BY <1>1 DEF IInv, Typed, Refers, RefersTo, At
  <2> QED BY <1>1, <2>1, KeyOfCall, KeyShape
<1> DEFINE v == [call[c] EXCEPT !.row = None]
<1>3. /\ v \in CallRow /\ v.pc = "creating" /\ v.key = <<"student", u>>
      /\ v.school = call[c].school /\ v.section = call[c].section /\ v.row = None
  <2>1. call[c] \in CallRow
    BY DEF IInv, Typed, Types
  <2>2. None \in Subjects \cup {None}
    OBVIOUS
  <2> QED BY <1>1, <1>2, <2>1, <2>2 DEF CallRow
<1>4. call' = [call EXCEPT ![c] = v]
  BY <1>1 DEF IInv, Typed, Types
<1> HIDE DEF v
<1>5. Moves(c) /\ call'[c] = v
  BY <1>1, <1>3, <1>4 DEF Moves, IInv, Typed, Types
<1>6. /\ student' \in [Students -> StudentRow]
      /\ student'[r].status = "TRANSFERRED"
      /\ \A z \in Students \ {r} : student'[z] = student[z]
      /\ \A z \in Students : /\ student'[z].user = student[z].user
                             /\ student'[z].school = student[z].school
                             /\ student'[z].section = student[z].section
  <2> DEFINE to == [student[r] EXCEPT !.status = "TRANSFERRED"]
  <2>1. student' = [student EXCEPT ![r] = to]
    BY <1>1, <1>2, SectionTypes
  <2>2. /\ to \in StudentRow /\ to.user = student[r].user /\ to.status = "TRANSFERRED"
        /\ to.school = student[r].school /\ to.section = student[r].section
    <3>1. student[r] \in StudentRow
      BY SectionTypes
    <3> QED BY <3>1 DEF StudentRow
  <2> HIDE DEF to
  <2> QED BY <2>1, <2>2, SectionTypes
<1>7. RefersTo(c)'
  <2>1. RefersTo(c)
    BY DEF IInv, Typed, Refers
  <2>2. call[c].section # None => Born(call[c].section)'
    <3>1. PICK s : s = call[c].section
      OBVIOUS
    <3>2. s # None => Born(s)'
      BY <1>5, <2>1, <3>1, BornStays DEF RefersTo
    <3> QED BY <1>3, <1>5, <3>1, <3>2 DEF Born
  <2>3. call'[c].pc = "creating" /\ call'[c].key[1] = "student"
          /\ call'[c].key # <<>> /\ call'[c].row = None
    BY <1>1, <1>2, <1>3, <1>5, KeyOfCall, KeyIsNotEmpty
  <2>4. ~At(c, "principal")' /\ ~At(c, "section")' /\ ~At(c, "teaching")'
          /\ ~At(c, "school")' /\ ~At(c, "grade")'
    BY <2>3 DEF At
  <2>5. call'[c].section # None => Born(call[c].section)'
    BY <1>3, <1>5, <2>2
  <2> QED BY <2>3, <2>4, <2>5 DEF RefersTo
<1>8. ExistingSections' = ExistingSections /\ \A s : SchoolOf(s)' = SchoolOf(s)
  BY <1>1 DEF ExistingSections, SchoolOf, classes
<1>9. ComparedBy(c)'
  <2>1. PICK s : s = call[c].section
    OBVIOUS
  <2>2. s \in ExistingSections /\ c \notin mixed => SchoolOf(s) = call[c].school
    BY <1>1, <2>1 DEF IInv, Compared, ComparedBy, At
  <2>3. SchoolOf(call[c].section)' = SchoolOf(s)'
    BY <1>3, <1>5, <2>1 DEF SchoolOf
  <2>4. SchoolOf(s)' = SchoolOf(s)
    BY <1>8
  <2> HIDE DEF SchoolOf
  <2>5. call'[c].section = s /\ call'[c].pc = "creating" /\ call'[c].school = call[c].school
    BY <1>3, <1>5, <2>1
  <2>6. s \in ExistingSections /\ c \notin mixed' => SchoolOf(s)' = call'[c].school
    BY <1>1, <2>2, <2>4, <2>5
  <2> QED BY <1>8, <2>5, <2>6 DEF ComparedBy, SchoolOf
<1>10. Between'
  <2> SUFFICES ASSUME NEW z \in Students, student'[z].status = "TRANSFERRED"
               PROVE  Placed(student[z].user)'
    BY <1>6 DEF Between, Placed
  <2>1. PICK w : w = student[z].user
    OBVIOUS
  <2>2. CASE w = u
    <3>1. Enrols(c, w)'
      BY <1>3, <1>5, <2>2 DEF Enrols, At
    <3>2. Placed(w)'
      BY <3>1 DEF Placed
    <3> QED BY <1>6, <2>1, <3>2
  <2>3. CASE w # u
    <3>1. student[z].status = "TRANSFERRED"
      BY <1>2, <1>6, <2>1, <2>3
    <3>2. Placed(w)
      BY <2>1, <3>1 DEF IInv, Between
    <3>3. Rows(w) # {} => Rows(w)' # {}
      <4> SUFFICES ASSUME NEW y \in Students, student[y].user = w,
                          student[y].status = "ACTIVE"
                   PROVE  y \in Rows(w)'
        BY DEF Rows
      <4>1. y # r
        BY <1>2, <2>3
      <4> QED BY <1>6, <4>1 DEF Rows
    <3>4. ASSUME NEW d \in Calls, Enrols(d, w) PROVE Enrols(d, w)'
      <4>1. d # c
        BY <1>1, <3>4 DEF Enrols
      <4> QED BY <1>5, <3>4, <4>1 DEF Moves, Enrols, At
    <3>5. Placed(w)'
      BY <1>1, <3>2, <3>3, <3>4 DEF Placed
    <3> QED BY <1>6, <2>1, <3>5
  <2> QED BY <2>2, <2>3
<1>11. Sole'
  <2> SUFFICES ASSUME NEW k \in Keys, k \notin raced PROVE SoleUnder(k)'
    BY <1>1 DEF Sole, SoleUnder
  <2>1. SoleUnder(k)
    BY DEF IInv, Sole
  <2>2. \A d \in Calls : call'[d].key = call[d].key
    BY <1>2, <1>3, <1>5 DEF Moves
  <2>3. \A x \in Names : Under(x, k)' => Under(x, k) /\ (k[1] = "student" => x # r)
    BY <1>1, <1>6 DEF Under, classes
  <2>4. \A x, y \in Names : Under(x, k)' /\ Under(y, k)' => x = y
    BY <2>1, <2>3 DEF SoleUnder
  <2>5. \A d, e \in Calls : call'[d].key = k /\ call'[e].key = k => d = e
    BY <2>1, <2>2 DEF SoleUnder
  <2>6. ASSUME NEW d \in Calls, NEW x \in Names, call'[d].key = k, Under(x, k)'
        PROVE  Spared(d, x)'
    <3>1. call[d].key = k /\ Spared(d, x)
      BY <2>1, <2>2, <2>3, <2>6 DEF SoleUnder
    <3>2. d # c
      BY <1>2, <2>3, <2>6, <3>1 DEF Spared
    <3> QED BY <1>5, <3>1, <3>2 DEF Spared, Moves
  <2> QED BY <1>1, <2>4, <2>5, <2>6 DEF SoleUnder
<1>12. \A d \in Calls : call'[d].pc # "done" =>
           student'[d].user = student[d].user /\ student'[d].status = student[d].status
  BY <1>1, <1>2, <1>5, <1>6 DEF Students, Born, Moves
<1>13. StudentsOnly(c)
  BY <1>1, <1>5, <1>6 DEF StudentsOnly
<1>14. \A z \in Students : z \notin mixed' /\ student'[z].section # None =>
         SchoolOf(student'[z].section) = student'[z].school
  BY <1>1, <1>6 DEF IInv, SchoolAgrees
<1> QED BY <1>6, <1>7, <1>9, <1>10, <1>11, <1>12, <1>13, <1>14, SectionTypes, StudentsKeep

LEMMA CreateStudentKeeps ==
  ASSUME IInv, NEW c \in Calls, CreateStudent(c)
  PROVE  IInv'
<1>1. /\ call[c].pc = "creating" /\ call[c].key[1] = "student" /\ call[c].row = None
      /\ call' = [call EXCEPT ![c] = Idle("done")] /\ raced' = raced
      /\ UNCHANGED <<classes, user, teacher, principal, mixed>>
  BY DEF CreateStudent, Finish, At
<1>2. Moves(c) /\ RefersTo(c)' /\ ComparedBy(c)' /\ call'[c].key = <<>>
        /\ call'[c].pc = "done"
  BY <1>1, FinishFacts
<1>3. PICK u \in Users, s \in Sections \cup {None}, x \in Schools \cup {None} :
        call[c].key = <<"student", u>> /\ s = call[c].section /\ x = call[c].school
  <2>1. call[c] \in CallRow
    BY DEF IInv, Typed, Types
  <2> QED BY <1>1, <2>1, KeyOfCall, KeyShape DEF CallRow
<1>4. c \in Students /\ ~Born(c) /\ student[c].user = None /\ student[c].status = None
  BY <1>1 DEF Students, Born, IInv, Typed, Unborn
<1>5. /\ student' = IF s \notin ExistingSections THEN student
                    ELSE [student EXCEPT ![c] = [user |-> u, school |-> x,
                            section |-> s, status |-> "ACTIVE"]]
      /\ cut' = IF s \in ExistingSections THEN cut ELSE cut \cup {u}
  BY <1>3 DEF CreateStudent
<1> DEFINE new == [user |-> u, school |-> x, section |-> s, status |-> "ACTIVE"]
<1>6. /\ student' \in [Students -> StudentRow]
      /\ \A z \in Students \ {c} : student'[z] = student[z]
      /\ \/ student'[c] = student[c] /\ u \in cut'
         \/ student'[c] = new /\ s \in ExistingSections
  <2>1. s \in ExistingSections => new \in StudentRow
    BY DEF StudentRow
  <2> HIDE DEF new
  <2> QED BY <1>4, <1>5, <2>1, SectionTypes DEF new
<1>7. \A z \in Students :
        student'[z].section # None => student'[z].section \in ExistingSections
  BY <1>6, SectionTypes
<1>8. ASSUME NEW z \in Students, z \notin mixed', student'[z].section # None
      PROVE  SchoolOf(student'[z].section) = student'[z].school
  <2>1. CASE student'[z] = student[z]
    BY <1>1, <1>8, <2>1 DEF IInv, SchoolAgrees
  <2>2. CASE z = c /\ student'[c] = new /\ s \in ExistingSections
    <3>1. SchoolOf(s) = x
      BY <1>1, <1>3, <1>8, <2>2 DEF IInv, Compared, ComparedBy, At
    <3> QED BY <2>2, <3>1
  <2> QED BY <1>6, <2>1, <2>2
<1>9. \A z \in Students : student'[z].school = student[z].school
                            \/ z \in mixed' \/ ~Awaited(c, z)
  <2>1. ~Awaited(c, c)
    <3> SUFFICES ASSUME NEW d \in Calls \ {c},
                        \/ call[d].pc = "updating" /\ call[d].row = c
                        \/ call[d].pc = "moving" /\ c \in call[d].row
                 PROVE  FALSE
      BY DEF Awaited
    <3>1. RefersTo(d)
      BY DEF IInv, Typed, Refers
    <3> QED BY <1>4, <3>1 DEF RefersTo
  <2> QED BY <1>6, <2>1
<1>10. Between'
  <2> SUFFICES ASSUME NEW z \in Students, student'[z].status = "TRANSFERRED"
               PROVE  \E w : w = student'[z].user /\ Placed(w)'
    BY DEF Between, Placed, Rows
  <2>1. student'[z] = student[z]
    BY <1>6
  <2>2. PICK w : w = student[z].user
    OBVIOUS
  <2>3. Placed(w)
    BY <2>1, <2>2 DEF IInv, Between
  <2>4. CASE w = u
    <3>1. u \in cut' \/ c \in Rows(u)'
      BY <1>4, <1>6 DEF Rows
    <3>2. Placed(u)'
      BY <3>1 DEF Placed
    <3> QED BY <2>1, <2>2, <2>4, <3>2
  <2>5. CASE w # u
    <3>1. Rows(w) # {} => Rows(w)' # {}
      <4> SUFFICES ASSUME NEW y \in Rows(w) PROVE y \in Rows(w)'
        OBVIOUS
      <4>1. y \in Students /\ (y # c => student'[y] = student[y])
        BY <1>6 DEF Rows
      <4>2. y # c
        BY <1>4, EnrolmentAssumption DEF Rows
      <4> QED BY <4>1, <4>2 DEF Rows
    <3>2. ASSUME NEW d \in Calls, Enrols(d, w) PROVE Enrols(d, w)'
      <4>1. d # c
        BY <1>3, <2>5, <3>2 DEF Enrols
      <4> QED BY <1>2, <3>2, <4>1 DEF Moves, Enrols, At
    <3>3. cut \subseteq cut'
      BY <1>5
    <3>4. Placed(w)'
      BY <2>3, <3>1, <3>2, <3>3 DEF Placed
    <3> QED BY <2>1, <2>2, <3>4
  <2> QED BY <2>4, <2>5
<1>11. Sole'
  <2>1. \A k \in Keys, y \in Names :
          Under(y, k)' => Under(y, k) \/ (y = c /\ k = call[c].key)
    <3> SUFFICES ASSUME NEW k \in Keys, NEW y \in Names, Under(y, k)', ~Under(y, k)
                 PROVE  y = c /\ k = call[c].key
      OBVIOUS
    <3>1. k[1] = "student" /\ y \in Students /\ student'[y] # student[y]
            /\ student'[y].user = k[2]
      BY <1>1 DEF Under, classes
    <3>2. y = c /\ k[2] = u
      BY <1>6, <3>1
    <3> QED BY <1>3, <3>1, <3>2, KeyShape
  <2> QED BY <1>1, <1>2, <2>1, SoleAfter
<1>12. \A d \in Calls : call'[d].pc # "done" =>
           student'[d].user = student[d].user /\ student'[d].status = student[d].status
  BY <1>2, <1>6 DEF Students
<1>13. StudentsOnly(c)
  BY <1>1, <1>2, <1>5, <1>6 DEF StudentsOnly
<1>14. \A z \in Students : Born(z) => student'[z].user = student[z].user
  BY <1>4, <1>6
<1> QED BY <1>2, <1>7, <1>8, <1>9, <1>10, <1>11, <1>12, <1>13, <1>14, StudentsKeep

-----------------------------------------------------------------------------
(* The theorems                                                            *)

LEMMA IInvNext == IInv /\ [Next]_vars => IInv'
<1> SUFFICES ASSUME IInv, [Next]_vars PROVE IInv'
  OBVIOUS
<1>1. CASE UNCHANGED vars
  <2> USE <1>1 DEF vars
  <2>1. Types' /\ Unborn' /\ Whole'
    BY DEF IInv, Typed, Types, Unborn, Whole, ExistingSections
  <2>5. Refers'
    BY ZenonT(60) DEF IInv, Typed, Refers, RefersTo, Born, At
  <2>2. SchoolAgrees' /\ Compared'
    BY DEF IInv, SchoolAgrees, Compared, ComparedBy, SchoolOf, ExistingSections, At
  <2>3. Between'
    BY DEF IInv, Between, Placed, Enrols, At, Rows
  <2>4. Sole'
    BY DEF IInv, Sole, SoleUnder, Under, Spared
  <2> QED BY <2>1, <2>2, <2>3, <2>4, <2>5 DEF IInv, Typed
<1>2. CASE \E c \in Calls : Office(c)
  <2>1. PICK c \in Calls : Office(c)
    BY <1>2
  <2>2. ASSUME NEW x \in Schools, NEW u \in Users,
               CreateSchool(c, x) \/ CheckSchoolWithPrincipal(c, u, x)
        PROVE  IInv'
    BY <2>2, CreateSchoolKeeps, CheckSchoolWithPrincipalKeeps
  <2>3. ASSUME NEW u \in Users, NEW role \in SchoolRoles,
               NEW maker \in DOMAIN MayCreate, NEW by \in Callers,
               CheckUser(c, u, role, maker, by)
        PROVE  IInv'
    BY <2>3, CheckUserKeeps
  <2>4. ASSUME NEW u \in Users, NEW x \in school,
               AssignPrincipal(c, u, x) \/ CheckPrincipal(c, u, x) \/ CheckTeacher(c, u, x)
        PROVE  IInv'
    BY <2>4, AssignPrincipalKeeps, CheckPrincipalKeeps, CheckTeacherKeeps
  <2>5. ASSUME CreateUser(c) \/ CommitSchoolWithPrincipal(c) \/ CreatePrincipal(c)
                 \/ CreateTeacher(c) \/ CreateTeaching(c) \/ CreateSubjectGroup(c)
        PROVE  IInv'
    BY <2>5, CreateUserKeeps, CommitSchoolWithPrincipalKeeps, CreatePrincipalKeeps,
       CreateTeacherKeeps, CreateTeachingKeeps, CreateSubjectGroupKeeps
  <2> QED BY <2>1, <2>2, <2>3, <2>4, <2>5 DEF Office, SchoolRoles
<1>3. CASE \E c \in Calls : Timetabling(c)
  <2>1. PICK c \in Calls : Timetabling(c)
    BY <1>3
  <2>2. ASSUME NEW t \in Teachers, NEW s \in Sections, NEW by \in Callers,
               CheckTeaching(c, t, s, by) \/ CheckIncharge(c, s, t, by)
        PROVE  IInv'
    BY <2>2, CheckTeachingKeeps, CheckInchargeKeeps
  <2>3. ASSUME NEW x \in Schools, NEW by \in Callers, CheckGrade(c, x, by)
        PROVE  IInv'
    BY <2>3, CheckGradeKeeps
  <2>4. ASSUME NEW g \in Grades, NEW by \in Callers,
               CheckSection(c, g, by) \/ DeleteGrade(c, g, by)
        PROVE  IInv'
    BY <2>4, CheckSectionKeeps, DeleteGradeKeeps
  <2>5. ASSUME NEW s \in Sections, NEW by \in Callers, DeleteSection(c, s, by)
        PROVE  IInv'
    BY <2>5, DeleteSectionKeeps
  <2>6. ASSUME CommitGrade(c) \/ CreateSection(c) \/ WriteIncharge(c)
        PROVE  IInv'
    BY <2>6, CommitGradeKeeps, CreateSectionKeeps, WriteInchargeKeeps
  <2> QED BY <2>1, <2>2, <2>3, <2>4, <2>5, <2>6 DEF Timetabling
<1>4. CASE \E c \in Calls : Registry(c)
  <2>1. PICK c \in Calls : Registry(c)
    BY <1>4
  <2>2. ASSUME NEW u \in Users, NEW s \in Sections, NEW by \in Callers,
               NEW named \in school \cup {None}, CheckEnrol(c, u, s, by, named)
        PROVE  IInv'
    BY <2>2, CheckEnrolKeeps
  <2>3. ASSUME NEW r \in Students, NEW s \in Sections \cup {None}, NEW by \in Callers,
               NEW named \in school \cup {None}, CheckUpdate(c, r, s, by, named)
        PROVE  IInv'
    BY <2>3, CheckUpdateKeeps
  <2>4. ASSUME NEW list \in SUBSET {r \in Students : student[r].user # None},
               NEW s \in Sections, NEW by \in Callers, CheckBulk(c, list, s, by)
        PROVE  IInv'
    BY <2>4, CheckBulkKeeps
  <2>5. ASSUME MarkTransferred(c) \/ CreateStudent(c) \/ WriteUpdate(c)
                 \/ UpdateBulkSection(c)
        PROVE  IInv'
    BY <2>5, MarkTransferredKeeps, CreateStudentKeeps, WriteUpdateKeeps,
       UpdateBulkSectionKeeps
  <2> QED BY <2>1, <2>2, <2>3, <2>4, <2>5 DEF Registry
<1>5. CASE \E c \in Calls : Abandon(c)
  BY <1>5, AbandonKeeps
<1> QED BY <1>1, <1>2, <1>3, <1>4, <1>5 DEF Next

(* Whatever the calls on a registry do at once: they name rows that are     *)
(* there or were, what they compared holds until they write or is noted,    *)
(* and under one key there is one row or one call that is to create it.     *)
THEOREM EnrolmentInvariant == Spec => []IInv
<1>1. Init => IInv
  BY IInvInit
<1>2. IInv /\ [Next]_vars => IInv'
  BY IInvNext
<1> QED BY <1>1, <1>2, PTL DEF Spec

(* A student's section is one of his school, for as long as none of the     *)
(* writes that mix the two has touched him.                                 *)
THEOREM SectionIsOfTheSchool == Spec => []SchoolAgrees
<1>1. IInv => SchoolAgrees
  BY DEF IInv
<1> QED BY <1>1, EnrolmentInvariant, PTL

(* A student who left a school is enrolled in another, or a call is about   *)
(* to enrol him, unless the process died or the section went in between.    *)
THEOREM TransferIsWhole == Spec => []NotBetweenSchools
<1>1. IInv => NotBetweenSchools
  BY DEF IInv, Between, Placed, Enrols, NotBetweenSchools
<1> QED BY <1>1, EnrolmentInvariant, PTL

LEMMA TwoRows ==
  ASSUME IInv, NEW key \in Keys, key \notin raced
  PROVE  \A x, y : Under(x, key) /\ Under(y, key) => x = y
BY UnderIsNamed DEF IInv, Sole, SoleUnder

LEMMA OneActiveRow ==
  ASSUME IInv, NEW u \in Users, Cardinality(Rows(u)) > 1
  PROVE  <<"student", u>> \in raced
<1> SUFFICES ASSUME <<"student", u>> \notin raced PROVE FALSE
  OBVIOUS
<1>1. <<"student", u>> \in Keys
  BY DEF Keys
<1>2. \A x \in Rows(u) : Under(x, <<"student", u>>)
  BY DEF Rows, Under
<1>3. \A x, y \in Rows(u) : x = y
  BY <1>1, <1>2, TwoRows
<1>4. CASE Rows(u) = {}
  <2>1. Cardinality(Rows(u)) = 0
    BY <1>4, FS_EmptySet
  <2> QED BY <2>1
<1>5. CASE Rows(u) # {}
  <2>1. PICK x : Rows(u) = {x}
    BY <1>3, <1>5
  <2>2. Cardinality(Rows(u)) = 1
    BY <2>1, FS_Singleton
  <2> QED BY <2>2
<1> QED BY <1>4, <1>5

(* One class of a name in a school, one section of a name in a class, one   *)
(* profile, one assignment and one active enrolment of each person, unless  *)
(* two calls were creating it at once.                                      *)
THEOREM OneRowOfEach == Spec => []OneOfEach
<1>1. ASSUME IInv PROVE OneOfEach
  <2>1. ASSUME NEW x \in Schools, Two(Grades, LAMBDA g : grade[g] = x)
        PROVE  <<"grade", x>> \in raced
    <3>1. <<"grade", x>> \in Keys
      BY DEF Keys
    <3>2. \A g \in Grades : grade[g] = x => Under(g, <<"grade", x>>)
      BY DEF Under
    <3> QED BY <2>1, <3>1, <3>2, TwoRows, <1>1 DEF Two
  <2>2. ASSUME NEW g \in Grades, Two(Sections, LAMBDA s : section[s].grade = g)
        PROVE  <<"section", g>> \in raced
    <3>1. <<"section", g>> \in Keys
      BY DEF Keys
    <3>2. \A s \in Sections : section[s].grade = g => Under(s, <<"section", g>>)
      BY DEF Under
    <3> QED BY <2>2, <3>1, <3>2, TwoRows, <1>1 DEF Two
  <2>3. ASSUME NEW u \in Users, Two(Teachers, LAMBDA t : teacher[t].user = u)
        PROVE  <<"teacher", u>> \in raced
    <3>1. <<"teacher", u>> \in Keys
      BY DEF Keys
    <3>2. \A t \in Teachers : teacher[t].user = u => Under(t, <<"teacher", u>>)
      BY DEF Under
    <3> QED BY <2>3, <3>1, <3>2, TwoRows, <1>1 DEF Two
  <2>4. ASSUME NEW u \in Users, Two(Calls, LAMBDA p : principal[p].user = u)
        PROVE  <<"principal", u>> \in raced
    <3>1. <<"principal", u>> \in Keys
      BY DEF Keys
    <3>2. \A p \in Calls : principal[p].user = u => Under(p, <<"principal", u>>)
      BY DEF Under
    <3> QED BY <2>4, <3>1, <3>2, TwoRows, <1>1 DEF Two
  <2>5. ASSUME NEW t \in Teachers, NEW s \in Sections,
               Two(Calls, LAMBDA a : teaching[a] = [teacher |-> t, section |-> s])
        PROVE  <<"teaching", t, s>> \in raced
    <3>1. <<"teaching", t, s>> \in Keys
      BY DEF Keys
    <3>2. \A a \in Calls : teaching[a] = [teacher |-> t, section |-> s] =>
            Under(a, <<"teaching", t, s>>)
      BY DEF Under
    <3> QED BY <2>5, <3>1, <3>2, TwoRows, <1>1 DEF Two
  <2> QED BY <2>1, <2>2, <2>3, <2>4, <2>5, OneActiveRow, <1>1 DEF OneOfEach
<1> QED BY <1>1, EnrolmentInvariant, PTL
=============================================================================
