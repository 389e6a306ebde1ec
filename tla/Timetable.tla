------------------------------ MODULE Timetable ------------------------------
(***************************************************************************)
(* The week of a school: lessons, their studio rooms and substitutes.       *)
(*                                                                         *)
(* A bulk save checks and inserts its lessons in one READ COMMITTED         *)
(* transaction, which sees nothing of a save beside it, and clears the week *)
(* cache before it.  Rooms are dealt out to all lessons by a distribution,  *)
(* set by hand, or swapped by a call that read both rooms earlier.          *)
(* dirty, raced, loose and listed are history: what another call overtook,  *)
(* lessons of saves that overlapped, rooms nothing is promised of, and the  *)
(* substitutes no save has overtaken.                                       *)
(***************************************************************************)
EXTENDS Integers, FiniteSets

CONSTANTS
  Lessons,   \* rows the timetable may get: an assignment at a day and lecture
  Teacher, Section, Day, Lecture, \* functions of Lessons
  Rooms,
  PerWeek,   \* studio lessons a section gets per week
  Swaps,     \* swap requests
  MaxBulk,   \* bound: lessons of one save
  Calls,     \* requests that run beside each other
  None

ASSUME TimetableAssumption ==
  /\ IsFiniteSet(Lessons) /\ PerWeek \in Nat /\ MaxBulk \in Nat
  /\ None \notin Lessons \cup Rooms \cup Calls
  /\ \A l \in Lessons : Teacher[l] # None

VARIABLES
  timetable, \* the lessons that are committed
  room,      \* timetable.studioRoomId
  rooms,     \* studio rooms not deleted
  sub,       \* substitution of a lesson on the day: the teacher standing in
  cache,     \* timetableCache: per section the lessons shown, None if absent
  swap,      \* StudioRoomSwapRequest: status and the two lessons
  call,      \* a request: where it stands (pc) and what it has read
  raced,     \* lessons inserted while another save was open (history)
  loose,     \* rooms given by hand, across times or on a stale read (history)
  listed     \* lessons whose substitute's list is still current (history)

lessons == <<timetable, raced>>
studios == <<room, rooms, swap, loose>>
standins == <<sub, listed>>
vars == <<lessons, studios, standins, cache, call>>

Time(l) == <<Day[l], Lecture[l]>>
Clash(l, m) == /\ l # m /\ Time(l) = Time(m)
               /\ Teacher[l] = Teacher[m] \/ Section[l] = Section[m]
Week(s) == {l \in timetable : Section[l] = s}
Sections == {Section[l] : l \in Lessons}
Teachers == {Teacher[l] : l \in Lessons}

Done == [pc |-> "done"]
NoEntry == [week |-> {None}, dirty |-> FALSE]

Init ==
  /\ timetable \in {T \in SUBSET Lessons : \A l, m \in T : ~Clash(l, m)}
  /\ room = [l \in Lessons |-> None] /\ rooms = Rooms
  /\ sub = [l \in Lessons |-> None]
  /\ cache = [s \in Sections |-> NoEntry]
  /\ swap = [w \in Swaps |-> [status |-> "none", from |-> None, to |-> None]]
  /\ call = [c \in Calls |-> [pc |-> "new"]]
  /\ raced = {} /\ loose = {} /\ listed = {}

\* Calls that are at pc are overtaken by what call c does.
Overtake(c, pc, step) ==
  [d \in Calls |-> IF d = c THEN step
                   ELSE IF call[d].pc \in pc THEN [call[d] EXCEPT !.dirty = TRUE]
                   ELSE call[d]]

Saving == {c \in Calls : call[c].pc = "saving"}

-----------------------------------------------------------------------------
(* Saving lessons and showing the week                                     *)

\* Defect: the cache is not cleared.
ClearCache_Kept == UNCHANGED cache

ClearCache == cache' = [s \in Sections |-> NoEntry]

\* The whole cache is cleared, then the transaction begins.
BeginBulk(c, asked) ==
  /\ call[c].pc = "new" /\ Cardinality(asked) \in 1..MaxBulk
  /\ ClearCache
  /\ call' = Overtake(c, {"shown"},
                      [pc |-> "saving", asked |-> asked, inserted |-> {}])
  /\ UNCHANGED <<lessons, studios, standins>>

\* Defect: only the teacher is checked.
Free_TeacherOnly(l, seen) ==
  \A m \in seen : Time(l) = Time(m) => Teacher[l] # Teacher[m]

\* Neither the teacher nor the section has a lesson then.
Free(l, seen) == l \notin seen /\ \A m \in seen : ~Clash(l, m)

\* One turn of the loop, on the committed lessons and the ones inserted here.
InsertLesson(c, l) ==
  LET inserted(d) == call[d].inserted \cup (IF d = c THEN {l} ELSE {}) IN
  /\ call[c].pc = "saving" /\ l \in call[c].asked
  /\ Free(l, timetable \cup call[c].inserted)
  /\ call' = [call EXCEPT ![c].asked = @ \ {l}, ![c].inserted = @ \cup {l}]
  /\ raced' = IF Saving = {c} THEN raced
              ELSE raced \cup UNION {inserted(d) : d \in Saving}
  /\ UNCHANGED <<timetable, studios, standins, cache>>

\* The lesson inserted twice is stopped by its unique key, the other clashes
\* of two saves by nothing.
CommitBulk(c) ==
  /\ call[c].pc = "saving" /\ call[c].asked = {}
  /\ call[c].inserted \cap timetable = {}
  /\ timetable' = timetable \cup call[c].inserted
  /\ call' = Overtake(c, {"choosing"}, Done)
  /\ listed' = {}
  /\ UNCHANGED <<raced, studios, sub, cache>>

\* The week of a section is read if it is not cached ...
FetchForSection(c, s) ==
  /\ call[c].pc = "new" /\ cache[s] = NoEntry
  /\ call' = [call EXCEPT ![c] = [pc |-> "shown", section |-> s,
                                  week |-> Week(s), dirty |-> Saving # {}]]
  /\ UNCHANGED <<lessons, studios, standins, cache>>

\* ... and cached when the answer comes.
FillCache(c) ==
  /\ call[c].pc = "shown"
  /\ cache' = [cache EXCEPT ![call[c].section] =
                 [week |-> call[c].week, dirty |-> call[c].dirty]]
  /\ call' = [call EXCEPT ![c] = Done]
  /\ UNCHANGED <<lessons, studios, standins>>

\* A minute has passed.
ExpireCache(s) ==
  /\ cache[s] # NoEntry /\ cache' = [cache EXCEPT ![s] = NoEntry]
  /\ UNCHANGED <<lessons, studios, standins, call>>

-----------------------------------------------------------------------------
(* Studio rooms                                                            *)

RemoveRoom(r) ==
  /\ r \in rooms /\ rooms' = rooms \ {r}
  /\ UNCHANGED <<lessons, room, swap, loose, standins, cache, call>>

\* Any room may be set, taken or not.
UpdateStudioAssignment(c, l, r) ==
  /\ call[c].pc = "new" /\ l \in timetable
  /\ room' = [room EXCEPT ![l] = r]
  /\ loose' = loose \cup ({r} \ {None})
  /\ call' = Overtake(c, {"dealing"}, Done)
  /\ UNCHANGED <<lessons, rooms, swap, standins, cache>>

\* The rooms are found (there must be one) and the sections, and then all
\* assignments are cleared.
BeginDistribution(c) ==
  /\ call[c].pc = "new" /\ rooms # {}
  /\ room' = [l \in Lessons |-> None] /\ loose' = {}
  /\ call' = Overtake(c, {"dealing"},
       [pc |-> "dealing", found |-> rooms, todo |-> Sections,
        plan |-> [l \in Lessons |-> None], dirty |-> FALSE])
  /\ UNCHANGED <<lessons, rooms, swap, standins, cache>>

\* Defect: a room counts as taken only by the lessons of the same section.
Dealt_PerSection(plan, found, s) ==
  \A l, m \in Week(s) :
    l # m /\ Time(l) = Time(m) /\ plan[l] # None => plan[l] # plan[m]

\* No room is dealt twice at a time, a section gets at most PerWeek, and it
\* gets fewer only when no lesson left has a free room.
Dealt(plan, found, s) ==
  LET taken(l) == {plan[m] : m \in {m \in Lessons \ {l} : Time(m) = Time(l)}}
      got == {l \in Week(s) : plan[l] # None} IN
  /\ \A l \in got : plan[l] \notin taken(l)
  /\ Cardinality(got) =< PerWeek
  /\ Cardinality(got) < PerWeek =>
       \A l \in Week(s) \ got : found \subseteq taken(l)

\* The lessons of one more section are read and get rooms.
DealSection(c, s) ==
  /\ call[c].pc = "dealing" /\ s \in call[c].todo
  /\ \E deal \in [Week(s) -> call[c].found \cup {None}] :
       LET plan == [l \in Lessons |-> IF l \in Week(s) THEN deal[l]
                                      ELSE call[c].plan[l]] IN
       /\ Dealt(plan, call[c].found, s)
       /\ call' = [call EXCEPT ![c].plan = plan, ![c].todo = @ \ {s}]
  /\ UNCHANGED <<lessons, studios, standins, cache>>

\* All planned lessons are written in one transaction.
CommitDistribution(c) ==
  LET plan == call[c].plan IN
  /\ call[c].pc = "dealing" /\ call[c].todo = {}
  /\ room' = [l \in Lessons |-> IF plan[l] = None THEN room[l] ELSE plan[l]]
  /\ loose' = IF call[c].dirty
              THEN loose \cup ({plan[l] : l \in Lessons} \ {None}) ELSE loose
  /\ call' = Overtake(c, {"dealing"}, Done)
  /\ UNCHANGED <<lessons, rooms, swap, standins, cache>>

\* The teacher offers the room of a lesson, for another lesson of the same
\* lecture number on any day, or for nothing.
CreateSwap(w, from, to) ==
  /\ swap[w].status = "none" /\ from \in timetable /\ room[from] # None
  /\ to # None => to \in timetable /\ Lecture[to] = Lecture[from]
  /\ swap' = [swap EXCEPT ![w] =
                [status |-> "PENDING", from |-> from, to |-> to]]
  /\ UNCHANGED <<lessons, room, rooms, loose, standins, cache, call>>

RejectSwap(c, w) ==
  /\ call[c].pc = "new" /\ swap[w].status = "PENDING"
  /\ swap' = [swap EXCEPT ![w].status = "REJECTED"]
  /\ call' = [call EXCEPT ![c] = Done]
  /\ UNCHANGED <<lessons, room, rooms, loose, standins, cache>>

RoomOf(l) == IF l = None THEN None ELSE room[l]

\* The request and both rooms are read, and the request must be PENDING.
ReadSwap(c, w) ==
  /\ call[c].pc = "new" /\ swap[w].status = "PENDING"
  /\ call' = [call EXCEPT ![c] =
       [pc |-> "swapping", swap |-> w, fromRoom |-> RoomOf(swap[w].from),
        toRoom |-> RoomOf(swap[w].to)]]
  /\ UNCHANGED <<lessons, studios, standins, cache>>

\* Both lessons get the room the other had at the read; neither the rooms nor
\* the status is looked at again, and nobody asks who else has the room then.
CommitSwap(c) ==
  LET w == call[c].swap
      from == swap[w].from
      to == swap[w].to
      sound == /\ to # None => Time(to) = Time(from)
               /\ RoomOf(from) = call[c].fromRoom /\ RoomOf(to) = call[c].toRoom IN
  /\ call[c].pc = "swapping"
  /\ room' = [l \in Lessons |-> IF l = to THEN call[c].fromRoom
                                ELSE IF l = from THEN call[c].toRoom ELSE room[l]]
  /\ swap' = [swap EXCEPT ![w].status = "APPROVED"]
  /\ loose' = IF sound THEN loose
              ELSE loose \cup ({call[c].fromRoom, call[c].toRoom} \ {None})
  /\ call' = Overtake(c, {"dealing"}, Done)
  /\ UNCHANGED <<lessons, rooms, standins, cache>>

-----------------------------------------------------------------------------
(* Substitutes                                                             *)

\* Defect: teachers are busy only in the lessons of their own section.
Available_SameSection(l) ==
  {t \in Teachers : \A m \in timetable :
     Time(m) = Time(l) /\ Section[m] = Section[l] => Teacher[m] # t}

\* Everybody without a lesson of his own then; who stands in elsewhere is not
\* looked at.
Available(l) ==
  {t \in Teachers : \A m \in timetable : Time(m) = Time(l) => Teacher[m] # t}

\* The principal picks a teacher from the list he was shown.
FindAvailableTeachers(c, l, t) ==
  /\ call[c].pc = "new" /\ l \in timetable /\ t \in Available(l)
  /\ call' = [call EXCEPT ![c] = [pc |-> "choosing", lesson |-> l, teacher |-> t,
                                  dirty |-> FALSE]]
  /\ UNCHANGED <<lessons, studios, standins, cache>>

\* The first assignment stands: a later one is refused by the check, or by the
\* unique key of day and lesson.
AssignReplacement(c) ==
  LET l == call[c].lesson IN
  /\ call[c].pc = "choosing" /\ sub[l] = None
  /\ sub' = [sub EXCEPT ![l] = call[c].teacher]
  /\ listed' = IF call[c].dirty THEN listed ELSE listed \cup {l}
  /\ call' = [call EXCEPT ![c] = Done]
  /\ UNCHANGED <<lessons, studios, cache>>

\* A check fails, a transaction times out or the process dies.
Abandon(c) ==
  /\ call[c].pc \notin {"new", "done"}
  /\ call' = [call EXCEPT ![c] = Done]
  /\ UNCHANGED <<lessons, studios, standins, cache>>

Next ==
  \/ \E s \in Sections : ExpireCache(s)
  \/ \E r \in Rooms : RemoveRoom(r)
  \/ \E w \in Swaps, l \in Lessons, m \in Lessons \cup {None} : CreateSwap(w, l, m)
  \/ \E c \in Calls :
       \/ \E asked \in SUBSET Lessons : BeginBulk(c, asked)
       \/ CommitBulk(c)
       \/ FillCache(c)
       \/ BeginDistribution(c)
       \/ CommitDistribution(c)
       \/ CommitSwap(c)
       \/ AssignReplacement(c)
       \/ Abandon(c)
       \/ \E s \in Sections : FetchForSection(c, s) \/ DealSection(c, s)
       \/ \E w \in Swaps : ReadSwap(c, w) \/ RejectSwap(c, w)
       \/ \E l \in Lessons :
            \/ InsertLesson(c, l)
            \/ \E r \in Rooms \cup {None} : UpdateStudioAssignment(c, l, r)
            \/ \E t \in Teachers : FindAvailableTeachers(c, l, t)

Spec == Init /\ [][Next]_vars

-----------------------------------------------------------------------------
(* What the school may rely on                                             *)

\* "Teacher busy ..." and "Section occupied ..." (timetable.service.ts:36, 41):
\* nobody is in two lessons at once, unless saves that were open at the same
\* time inserted one of them.
NoClash ==
  \A l, m \in timetable \ raced : ~Clash(l, m)

\* A room is given to one lesson at a time, as long as it is dealt out, or
\* swapped within one time on rooms that are still what the call has read.
NoRoomTwice ==
  \A l, m \in timetable :
    l # m /\ Time(l) = Time(m) /\ room[l] # None /\ room[l] \notin loose
    => room[m] # room[l]

\* A cached week shows every committed lesson, unless it was read while a save
\* was open, or was on its way into the cache when a save cleared it.
SavedIsShown ==
  \A s \in Sections :
    cache[s] # NoEntry /\ ~cache[s].dirty => cache[s].week = Week(s)

\* A teacher who stands in has no lesson of his own then, unless lessons were
\* saved after he was listed.
SubstituteIsFree ==
  \A l \in listed, m \in timetable : Time(m) = Time(l) => Teacher[m] # sub[l]
=============================================================================
