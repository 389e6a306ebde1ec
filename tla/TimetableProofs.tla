---------------------------- MODULE TimetableProofs ----------------------------
(***************************************************************************)
(* Proofs about Timetable, for any lessons, rooms, swaps and calls.         *)
(***************************************************************************)
EXTENDS Timetable, TLAPS

-----------------------------------------------------------------------------
(* The inductive invariants                                                *)

CacheEntry == [week : SUBSET (Lessons \cup {None}), dirty : BOOLEAN]
SwapRow == [status : {"none", "PENDING", "APPROVED", "REJECTED"},
            from : Lessons \cup {None}, to : Lessons \cup {None}]

\* A call is idle, or is at one place of its handler with what it has read.
IdleCall == [pc : {"new", "done"}]
SavingCall == [pc : {"saving"}, asked : SUBSET Lessons, inserted : SUBSET Lessons]
ShownCall == [pc : {"shown"}, section : Sections, week : SUBSET Lessons,
              dirty : BOOLEAN]
DealingCall == [pc : {"dealing"}, found : SUBSET Rooms, todo : SUBSET Sections,
                plan : [Lessons -> Rooms \cup {None}], dirty : BOOLEAN]
SwappingCall == [pc : {"swapping"}, swap : Swaps,
                 fromRoom : Rooms \cup {None}, toRoom : Rooms \cup {None}]
ChoosingCall == [pc : {"choosing"}, lesson : Lessons, teacher : Teachers,
                 dirty : BOOLEAN]
CallState == IdleCall \cup SavingCall \cup ShownCall \cup DealingCall
               \cup SwappingCall \cup ChoosingCall

\* Every variable holds what the code's columns and locals allow, and a swap
\* that was asked for, or that a call has read, names its lesson.
Typed ==
  /\ timetable \in SUBSET Lessons
  /\ room \in [Lessons -> Rooms \cup {None}] /\ rooms \in SUBSET Rooms
  /\ sub \in [Lessons -> Teachers \cup {None}]
  /\ cache \in [Sections -> CacheEntry]
  /\ swap \in [Swaps -> SwapRow]
  /\ call \in [Calls -> CallState]
  /\ raced \in SUBSET Lessons /\ loose \in SUBSET Rooms /\ listed \in SUBSET Lessons
  /\ \A w \in Swaps : swap[w].status # "none" => swap[w].from \in Lessons
  /\ \A c \in Calls : call[c].pc = "swapping" =>
       swap[call[c].swap].status # "none"

\* What a save has inserted clashes with nothing it could see, and two saves
\* with something inserted each have raced.
Apart ==
  /\ NoClash
  /\ \A c \in Saving :
       \A l \in call[c].inserted \ raced,
          m \in (timetable \cup call[c].inserted) \ raced : ~Clash(l, m)
  /\ \A c, d \in Saving : c # d =>
       \/ call[c].inserted = {} \/ call[d].inserted = {}
       \/ call[c].inserted \cup call[d].inserted \subseteq raced

\* A week on its way into the cache is current, and while a save is open no
\* week is there, or on its way, that does not know of it.
Current ==
  /\ SavedIsShown
  /\ \A c \in Calls : call[c].pc = "shown" /\ ~call[c].dirty =>
       call[c].week = Week(call[c].section)
  /\ Saving # {} =>
       /\ \A s \in Sections : cache[s] = NoEntry \/ cache[s].dirty
       /\ \A c \in Calls : call[c].pc = "shown" => call[c].dirty

\* So is a choice that no save has overtaken, and a listed lesson has its
\* substitute.
Chosen ==
  /\ SubstituteIsFree
  /\ \A l \in listed : sub[l] # None
  /\ \A c \in Calls : call[c].pc = "choosing" /\ ~call[c].dirty =>
       \A m \in timetable :
         Time(m) = Time(call[c].lesson) => Teacher[m] # call[c].teacher

\* The lessons r gives a room to at one time get different rooms.
Distinct(r) ==
  \A l, m \in Lessons :
    l # m /\ Time(l) = Time(m) /\ r[l] # None => r[m] # r[l]

\* A plan gives no room twice, and as long as nothing overtakes it there are no
\* rooms but those it will give.
Planned ==
  /\ \A l, m \in Lessons :
       l # m /\ Time(l) = Time(m) /\ room[l] # None /\ room[l] \notin loose
         => room[m] # room[l]
  /\ \A c \in Calls : call[c].pc = "dealing" =>
       /\ Distinct(call[c].plan)
       /\ ~call[c].dirty => \A l \in Lessons : room[l] = None

IInv == Typed /\ Apart /\ Current /\ Chosen /\ Planned

-----------------------------------------------------------------------------
(* How a step moves the calls                                              *)

\* Call c moves to s, the calls at one of places are overtaken, and the others
\* stay what they were.
Moves(c, places, s) ==
  /\ call' \in [Calls -> CallState] /\ call'[c] = s
  /\ \A d \in Calls \ {c} :
       /\ call'[d].pc = call[d].pc
       /\ call[d].pc \notin places => call'[d] = call[d]
       /\ call[d].pc \in places => call'[d].dirty
       /\ call[d].pc = "dealing" => call'[d].plan = call[d].plan

\* What a call has read, by where it stands.
LEMMA Places ==
  ASSUME Typed, NEW c \in Calls
  PROVE  /\ call[c].pc = "saving" => call[c] \in SavingCall
         /\ call[c].pc = "shown" => call[c] \in ShownCall
         /\ call[c].pc = "dealing" => call[c] \in DealingCall
         /\ call[c].pc = "swapping" => call[c] \in SwappingCall
         /\ call[c].pc = "choosing" => call[c] \in ChoosingCall
<1>1. call[c] \in CallState
  BY DEF Typed
<1>2. QED
  BY <1>1 DEF CallState, IdleCall, SavingCall, ShownCall, DealingCall,
              SwappingCall, ChoosingCall

LEMMA Steps ==
  ASSUME Typed, NEW c \in Calls, NEW s \in CallState,
         call' = [call EXCEPT ![c] = s]
  PROVE  Moves(c, {}, s)
  BY DEF Typed, Moves

\* Being overtaken changes nothing but the mark of it.
LEMMA Marked ==
  ASSUME Typed, NEW d \in Calls, call[d].pc \in {"shown", "dealing", "choosing"}
  PROVE  LET m == [call[d] EXCEPT !.dirty = TRUE] IN
         /\ m \in CallState /\ m.pc = call[d].pc /\ m.dirty
         /\ call[d].pc = "dealing" => m.plan = call[d].plan
<1>1. CASE call[d].pc = "shown"
  <2>1. call[d] \in ShownCall
    BY <1>1, Places
  <2>2. QED
    BY <1>1, <2>1 DEF CallState, ShownCall
<1>2. CASE call[d].pc = "dealing"
  <2>1. call[d] \in DealingCall
    BY <1>2, Places
  <2>2. QED
    BY <1>2, <2>1 DEF CallState, DealingCall
<1>3. CASE call[d].pc = "choosing"
  <2>1. call[d] \in ChoosingCall
    BY <1>3, Places
  <2>2. QED
    BY <1>3, <2>1 DEF CallState, ChoosingCall
<1>4. QED
  BY <1>1, <1>2, <1>3

LEMMA Overtakes ==
  ASSUME Typed, NEW c \in Calls, NEW s \in CallState,
         NEW places \in SUBSET {"shown", "dealing", "choosing"},
         call' = Overtake(c, places, s)
  PROVE  Moves(c, places, s)
<1>1. ASSUME NEW d \in Calls \ {c}
      PROVE  /\ call'[d] \in CallState /\ call'[d].pc = call[d].pc
             /\ call[d].pc \notin places => call'[d] = call[d]
             /\ call[d].pc \in places => call'[d].dirty
             /\ call[d].pc = "dealing" => call'[d].plan = call[d].plan
  <2>1. CASE call[d].pc \in places
    <3>1. call'[d] = [call[d] EXCEPT !.dirty = TRUE]
      BY <2>1 DEF Overtake
    <3>2. QED
      BY <2>1, <3>1, Marked
  <2>2. CASE call[d].pc \notin places
    BY <2>2 DEF Overtake, Typed
  <2>3. QED
    BY <2>1, <2>2
<1>2. call'[c] = s
  BY DEF Overtake
<1>3. call' = [d \in Calls |-> call'[d]]
  BY DEF Overtake
<1>4. call' \in [Calls -> CallState]
  BY <1>1, <1>2, <1>3
<1>5. QED
  BY <1>1, <1>2, <1>4 DEF Moves

\* The end of a call.
LEMMA DoneIsIdle == Done \in CallState /\ Done.pc = "done"
  BY DEF Done, CallState, IdleCall

-----------------------------------------------------------------------------
(* What leaves each part of the invariant alone                            *)

LEMMA ApartKept ==
  ASSUME Apart, UNCHANGED lessons,
         \A d \in Calls : call'[d].pc = "saving" => call'[d] = call[d]
  PROVE  Apart'
  BY DEF Apart, NoClash, Saving, lessons

LEMMA CurrentKept ==
  ASSUME Current, UNCHANGED timetable,
         \A s \in Sections : cache'[s] = cache[s] \/ cache'[s] = NoEntry,
         \A d \in Calls : call'[d].pc = "saving" => call[d].pc = "saving",
         \A d \in Calls : call'[d].pc = "shown" =>
           /\ call[d].pc = "shown"
           /\ call'[d] = call[d] \/ call'[d].dirty
  PROVE  Current'
  BY DEF Current, SavedIsShown, Saving, Week

LEMMA ChosenKept ==
  ASSUME Chosen, UNCHANGED <<timetable, sub, listed>>,
         \A d \in Calls : call'[d].pc = "choosing" =>
           call'[d] = call[d] \/ call'[d].dirty
  PROVE  Chosen'
  BY DEF Chosen, SubstituteIsFree

LEMMA PlannedKept ==
  ASSUME Planned, UNCHANGED <<room, loose>>,
         \A d \in Calls : call'[d].pc = "dealing" => call'[d] = call[d]
  PROVE  Planned'
  BY DEF Planned, Distinct

\* A step of a call at another place than a part is about.
LEMMA PartsKept ==
  ASSUME Typed, NEW c \in Calls, NEW s,
         NEW places \in SUBSET {"shown", "dealing", "choosing"}, Moves(c, places, s)
  PROVE  /\ Apart /\ UNCHANGED lessons /\ s.pc # "saving" => Apart'
         /\ /\ Current /\ UNCHANGED <<timetable, cache>>
            /\ s.pc \notin {"saving", "shown"}
            => Current'
         /\ Chosen /\ UNCHANGED <<timetable, sub, listed>> /\ s.pc # "choosing"
            => Chosen'
         /\ /\ Planned /\ UNCHANGED <<room, loose>> /\ s.pc # "dealing"
            /\ "dealing" \notin places
            => Planned'
<1>1. Apart /\ UNCHANGED lessons /\ s.pc # "saving" => Apart'
  <2>1. SUFFICES ASSUME Apart, UNCHANGED lessons, s.pc # "saving" PROVE Apart'
    OBVIOUS
  <2>2. \A d \in Calls : call'[d].pc = "saving" => call'[d] = call[d]
    BY <2>1 DEF Moves
  <2>3. QED
    BY <2>1, <2>2, ApartKept
<1>2. /\ Current /\ UNCHANGED <<timetable, cache>>
      /\ s.pc \notin {"saving", "shown"}
      => Current'
  <2>1. SUFFICES ASSUME Current, UNCHANGED <<timetable, cache>>,
                        s.pc \notin {"saving", "shown"}
                 PROVE  Current'
    OBVIOUS
  <2>2. \A d \in Calls : call'[d].pc = "saving" => call[d].pc = "saving"
    BY <2>1 DEF Moves
  <2>3. \A d \in Calls : call'[d].pc = "shown" =>
          call[d].pc = "shown" /\ (call'[d] = call[d] \/ call'[d].dirty)
    BY <2>1 DEF Moves
  <2>4. QED
    BY <2>1, <2>2, <2>3, CurrentKept
<1>3. Chosen /\ UNCHANGED <<timetable, sub, listed>> /\ s.pc # "choosing"
      => Chosen'
  <2>1. SUFFICES ASSUME Chosen, UNCHANGED <<timetable, sub, listed>>,
                        s.pc # "choosing"
                 PROVE  Chosen'
    OBVIOUS
  <2>2. \A d \in Calls : call'[d].pc = "choosing" =>
          call'[d] = call[d] \/ call'[d].dirty
    BY <2>1 DEF Moves
  <2>3. QED
    BY <2>1, <2>2, ChosenKept
<1>4. /\ Planned /\ UNCHANGED <<room, loose>> /\ s.pc # "dealing"
      /\ "dealing" \notin places
      => Planned'
  <2>1. SUFFICES ASSUME Planned, UNCHANGED <<room, loose>>, s.pc # "dealing",
                        "dealing" \notin places
                 PROVE  Planned'
    OBVIOUS
  <2>2. \A d \in Calls : call'[d].pc = "dealing" => call'[d] = call[d]
    BY <2>1 DEF Moves
  <2>3. QED
    BY <2>1, <2>2, PlannedKept
<1>5. QED
  BY <1>1, <1>2, <1>3, <1>4

-----------------------------------------------------------------------------
(* Saves and the cache                                                     *)

LEMMA BeginBulkKeeps ==
  ASSUME IInv, NEW c \in Calls, NEW asked \in SUBSET Lessons, BeginBulk(c, asked)
  PROVE  IInv'
<1> DEFINE s == [pc |-> "saving", asked |-> asked, inserted |-> {}]
<1>1. /\ s \in CallState /\ s.pc = "saving" /\ s.inserted = {}
  BY DEF CallState, SavingCall
<1> HIDE DEF s
<1>2. /\ Moves(c, {"shown"}, s) /\ call[c].pc = "new"
      /\ UNCHANGED <<lessons, studios, standins>>
      /\ cache' = [x \in Sections |-> NoEntry]
  BY <1>1, Overtakes DEF BeginBulk, ClearCache, IInv, s
<1>3. Typed'
  <2>1. NoEntry \in CacheEntry
    BY DEF NoEntry, CacheEntry
  <2>2. QED
    BY <1>1, <1>2, <2>1 DEF IInv, Typed, Moves, lessons, studios, standins
<1>4. Apart'
  <2>1. \A d \in Calls \ {c} : call'[d].pc = "saving" =>
          call[d].pc = "saving" /\ call'[d] = call[d]
    BY <1>2 DEF Moves
  <2>2. /\ call'[c].inserted = {} /\ c \notin Saving
        /\ \A d \in Saving' : d = c \/ (d \in Saving /\ call'[d] = call[d])
    <3>1. call'[c].inserted = {}
      BY <1>1, <1>2 DEF Moves
    <3>2. c \notin Saving
      BY <1>2 DEF Saving
    <3>3. QED
      BY <2>1, <3>1, <3>2 DEF Saving
  <2>3. QED
    BY <1>2, <2>2 DEF IInv, Apart, NoClash, lessons
<1>5. Current'
  <2>1. \A d \in Calls : call'[d].pc = "shown" => call'[d].dirty
    BY <1>1, <1>2 DEF Moves
  <2>2. QED
    BY <1>2, <2>1 DEF Current, SavedIsShown
<1>6. Chosen'
  BY <1>1, <1>2, PartsKept DEF IInv, lessons, standins
<1>7. Planned'
  BY <1>1, <1>2, PartsKept DEF IInv, studios
<1>8. QED
  BY <1>3, <1>4, <1>5, <1>6, <1>7 DEF IInv

\* Two lessons clash either way round.
LEMMA ClashSymmetric ==
  ASSUME NEW l \in Lessons, NEW m \in Lessons, Clash(l, m)
  PROVE  Clash(m, l)
  BY DEF Clash, Time

LEMMA InsertLessonKeeps ==
  ASSUME IInv, NEW c \in Calls, NEW l \in Lessons, InsertLesson(c, l)
  PROVE  IInv'
<1> DEFINE s == [call[c] EXCEPT !.asked = @ \ {l}, !.inserted = @ \cup {l}]
           inserted(d) == call[d].inserted \cup (IF d = c THEN {l} ELSE {})
<1>1. call[c] \in SavingCall /\ c \in Saving
  BY Places DEF IInv, InsertLesson, Saving
<1>2. call' = [call EXCEPT ![c] = s]
  BY DEF InsertLesson
<1>3. s \in CallState /\ s.pc = "saving" /\ s.inserted = call[c].inserted \cup {l}
  BY <1>1 DEF CallState, SavingCall
<1> HIDE DEF s
<1>4. /\ Moves(c, {}, s) /\ call[c].pc = "saving"
      /\ Free(l, timetable \cup call[c].inserted)
      /\ raced' = IF Saving = {c} THEN raced
                  ELSE raced \cup UNION {inserted(d) : d \in Saving}
      /\ UNCHANGED <<timetable, studios, standins, cache>>
  BY <1>2, <1>3, Steps DEF InsertLesson, IInv
<1>5. \A d \in Calls : call'[d].pc = "saving" =>
        call[d].pc = "saving" /\ call'[d].inserted = inserted(d)
  BY <1>3, <1>4 DEF Moves
<1>6. \A d \in Saving : inserted(d) \in SUBSET Lessons
  BY Places DEF IInv, Saving, SavingCall
<1>7. raced' \in SUBSET Lessons /\ raced \subseteq raced'
  BY <1>4, <1>6 DEF IInv, Typed
<1>8. Typed'
  BY <1>3, <1>4, <1>7 DEF IInv, Typed, Moves, studios, standins
<1>9. Apart'
  <2>1. CASE Saving = {c}
    <3>1. raced' = raced /\ Saving' = {c} /\ call'[c].inserted = inserted(c)
      BY <1>4, <1>5, <1>3, <2>1 DEF Saving, Moves
    <3>2. \A m \in timetable \cup call[c].inserted : ~Clash(l, m) /\ ~Clash(m, l)
      BY <1>1, <1>4, ClashSymmetric DEF Free, SavingCall, IInv, Typed
    <3>3. ~Clash(l, l)
      BY DEF Clash
    <3>4. QED
      BY <1>1, <1>4, <3>1, <3>2, <3>3 DEF IInv, Apart, NoClash
  <2>2. CASE Saving # {c}
    <3>1. \A d \in Saving : inserted(d) \subseteq raced'
      BY <1>4, <2>2
    <3>2. \A d \in Saving' : d \in Saving /\ call'[d].inserted \subseteq raced'
      BY <1>5, <3>1 DEF Saving
    <3>3. QED
      BY <1>4, <1>7, <3>2 DEF IInv, Apart, NoClash
  <2>3. QED
    BY <2>1, <2>2
<1>10. Current'
  <2>1. /\ \A d \in Calls : call'[d].pc = "saving" => call[d].pc = "saving"
        /\ \A d \in Calls : call'[d].pc = "shown" =>
             call[d].pc = "shown" /\ call'[d] = call[d]
    BY <1>3, <1>4 DEF Moves
  <2>2. QED
    BY <1>4, <2>1, CurrentKept DEF IInv
<1>11. Chosen' /\ Planned'
  BY <1>3, <1>4, PartsKept DEF IInv, standins, studios
<1>12. QED
  BY <1>8, <1>9, <1>10, <1>11 DEF IInv

LEMMA CommitBulkKeeps ==
  ASSUME IInv, NEW c \in Calls, CommitBulk(c)
  PROVE  IInv'
<1>1. /\ Moves(c, {"choosing"}, Done) /\ c \in Saving
      /\ timetable' = timetable \cup call[c].inserted
      /\ listed' = {} /\ UNCHANGED <<raced, studios, sub, cache>>
  BY DoneIsIdle, Overtakes DEF CommitBulk, IInv, Saving
<1>2. call[c].inserted \in SUBSET Lessons
  BY <1>1, Places DEF IInv, Saving, SavingCall
<1>3. \A d \in Calls : call'[d].pc = "saving" =>
        d # c /\ d \in Saving /\ call'[d] = call[d]
  BY <1>1, DoneIsIdle DEF Moves, Saving
<1>4. Typed'
  BY <1>1, <1>2, DoneIsIdle DEF IInv, Typed, Moves, studios
<1>5. Apart'
  <2>1. NoClash'
    <3>1. SUFFICES ASSUME NEW l \in timetable' \ raced, NEW m \in timetable' \ raced,
                          Clash(l, m)
                   PROVE  FALSE
      BY <1>1 DEF NoClash
    <3>2. Clash(m, l)
      BY <1>1, <1>2, <3>1, ClashSymmetric DEF IInv, Typed
    <3>3. QED
      BY <1>1, <3>1, <3>2 DEF IInv, Apart, NoClash
  <2>2. ASSUME NEW d \in Saving', NEW l \in call'[d].inserted \ raced,
               NEW m \in (timetable' \cup call'[d].inserted) \ raced
        PROVE  ~Clash(l, m)
    <3>1. d # c /\ d \in Saving /\ call'[d] = call[d]
      BY <1>3 DEF Saving
    <3>2. m \notin call[c].inserted
      BY <1>1, <2>2, <3>1 DEF IInv, Apart
    <3>3. QED
      BY <1>1, <2>2, <3>1, <3>2 DEF IInv, Apart
  <2>3. QED
    BY <1>1, <1>3, <2>1, <2>2 DEF IInv, Apart, Saving
<1>6. Current'
  <2>1. /\ \A x \in Sections : cache[x] = NoEntry \/ cache[x].dirty
        /\ \A d \in Calls : call[d].pc = "shown" => call[d].dirty
    BY <1>1 DEF IInv, Current
  <2>2. \A d \in Calls : call'[d].pc = "shown" => call'[d].dirty
    BY <1>1, <2>1, DoneIsIdle DEF Moves
  <2>3. QED
    BY <1>1, <2>1, <2>2 DEF Current, SavedIsShown
<1>7. Chosen'
  <2>1. \A d \in Calls : call'[d].pc = "choosing" => call'[d].dirty
    BY <1>1, DoneIsIdle DEF Moves
  <2>2. QED
    BY <1>1, <2>1 DEF Chosen, SubstituteIsFree
<1>8. Planned'
  BY <1>1, DoneIsIdle, PartsKept DEF IInv, studios
<1>9. QED
  BY <1>4, <1>5, <1>6, <1>7, <1>8 DEF IInv

LEMMA FetchForSectionKeeps ==
  ASSUME IInv, NEW c \in Calls, NEW x \in Sections, FetchForSection(c, x)
  PROVE  IInv'
<1> DEFINE s == [pc |-> "shown", section |-> x, week |-> Week(x),
                 dirty |-> Saving # {}]
<1>1. /\ s \in CallState /\ s.pc = "shown" /\ s.section = x /\ s.week = Week(x)
      /\ s.dirty = (Saving # {})
  BY DEF CallState, ShownCall, Week, IInv, Typed
<1> HIDE DEF s
<1>2. Moves(c, {}, s) /\ UNCHANGED <<lessons, studios, standins, cache>>
  BY <1>1, Steps DEF FetchForSection, IInv, s
<1>3. Typed'
  BY <1>1, <1>2 DEF IInv, Typed, Moves, lessons, studios, standins
<1>4. Apart' /\ Chosen' /\ Planned'
  BY <1>1, <1>2, PartsKept DEF IInv, lessons, studios, standins
<1>5. Current'
  <2>1. /\ \A d \in Calls \ {c} : call'[d] = call[d]
        /\ call'[c].pc = "shown"
    BY <1>1, <1>2 DEF Moves
  <2>2. UNCHANGED <<timetable, cache>> /\ \A y : Week(y)' = Week(y)
    BY <1>2 DEF lessons, Week
  <2>3. call'[c] = s
    BY <1>2 DEF Moves
  <2>4. SavedIsShown'
    BY <2>2 DEF IInv, Current, SavedIsShown
  <2>5. \A d \in Calls : call'[d].pc = "shown" /\ ~call'[d].dirty =>
          call'[d].week = Week(call'[d].section)
    BY <1>1, <2>1, <2>3 DEF IInv, Current
  <2>6. Saving' \subseteq Saving
    BY <2>1 DEF Saving
  <2>7. Saving' # {} =>
          /\ \A y \in Sections : cache[y] = NoEntry \/ cache[y].dirty
          /\ \A d \in Calls : call'[d].pc = "shown" => call'[d].dirty
    BY <1>1, <2>1, <2>3, <2>6 DEF IInv, Current
  <2>8. QED
    BY <2>2, <2>4, <2>5, <2>7 DEF Current
<1>6. QED
  BY <1>3, <1>4, <1>5 DEF IInv

LEMMA FillCacheKeeps ==
  ASSUME IInv, NEW c \in Calls, FillCache(c)
  PROVE  IInv'
<1> DEFINE e == [week |-> call[c].week, dirty |-> call[c].dirty]
           x == call[c].section
<1>1. Moves(c, {}, Done) /\ UNCHANGED <<lessons, studios, standins>>
  BY DoneIsIdle, Steps DEF FillCache, IInv
<1>2. call[c] \in ShownCall /\ call[c].pc = "shown"
  BY Places DEF FillCache, IInv
<1>3. /\ e \in CacheEntry /\ x \in Sections
      /\ e.week = call[c].week /\ e.dirty = call[c].dirty
  BY <1>2 DEF CacheEntry, ShownCall
<1>4. cache' = [cache EXCEPT ![x] = e]
  BY DEF FillCache
<1> HIDE DEF e, x
<1>5. /\ cache' \in [Sections -> CacheEntry] /\ cache'[x] = e
      /\ \A y \in Sections \ {x} : cache'[y] = cache[y]
  BY <1>3, <1>4 DEF IInv, Typed
<1>6. Typed'
  BY <1>1, <1>5, DoneIsIdle DEF IInv, Typed, Moves, lessons, studios, standins
<1>7. Apart' /\ Chosen' /\ Planned'
  BY <1>1, DoneIsIdle, PartsKept DEF IInv, lessons, studios, standins
<1>8. Current'
  <2>1. /\ \A d \in Calls : call'[d].pc = "shown" =>
             call[d].pc = "shown" /\ call'[d] = call[d]
        /\ Saving' \subseteq Saving
    BY <1>1, DoneIsIdle DEF Moves, Saving
  <2>2. UNCHANGED timetable /\ \A y : Week(y)' = Week(y)
    BY <1>1 DEF lessons, Week
  <2>3. /\ ~e.dirty => e.week = Week(x)
        /\ Saving # {} => e.dirty
    BY <1>2, <1>3 DEF IInv, Current, x
  <2>4. QED
    BY <1>5, <2>1, <2>2, <2>3 DEF IInv, Current, SavedIsShown
<1>9. QED
  BY <1>6, <1>7, <1>8 DEF IInv

-----------------------------------------------------------------------------
(* Studio rooms                                                            *)

\* A step at another place than rooms leaves lessons, cache and substitutes.
LEMMA RoomStep ==
  ASSUME IInv, NEW c \in Calls, NEW s, s.pc \in {"done", "dealing", "swapping"},
         NEW places \in SUBSET {"shown", "dealing", "choosing"},
         Moves(c, places, s), UNCHANGED <<lessons, standins, cache>>
  PROVE  Apart' /\ Current' /\ Chosen'
  BY PartsKept DEF IInv, lessons, standins

\* Plans stay apart, and the ones of overtaken calls are marked.
LEMMA PlansKept ==
  ASSUME Planned, NEW c \in Calls, NEW s, s.pc # "dealing", Moves(c, {"dealing"}, s)
  PROVE  \A d \in Calls : call'[d].pc = "dealing" =>
           Distinct(call'[d].plan) /\ call'[d].dirty
<1>1. ASSUME NEW d \in Calls, call'[d].pc = "dealing"
      PROVE  /\ call[d].pc = "dealing" /\ call'[d].dirty
             /\ call'[d].plan = call[d].plan
  BY <1>1 DEF Moves
<1>2. QED
  BY <1>1 DEF Planned

LEMMA UpdateStudioAssignmentKeeps ==
  ASSUME IInv, NEW c \in Calls, NEW l \in Lessons, NEW r \in Rooms \cup {None},
         UpdateStudioAssignment(c, l, r)
  PROVE  IInv'
<1>1. /\ Moves(c, {"dealing"}, Done) /\ UNCHANGED <<lessons, rooms, swap, standins, cache>>
      /\ room' = [room EXCEPT ![l] = r] /\ loose' = loose \cup ({r} \ {None})
  BY DoneIsIdle, Overtakes DEF UpdateStudioAssignment, IInv
<1>2. Typed'
  BY <1>1, DoneIsIdle DEF IInv, Typed, Moves, lessons, standins
<1>3. Apart' /\ Current' /\ Chosen'
  BY <1>1, DoneIsIdle, RoomStep
<1>4. Planned'
  <2>1. \A d \in Calls : call'[d].pc = "dealing" =>
          Distinct(call'[d].plan) /\ call'[d].dirty
    BY <1>1, DoneIsIdle, PlansKept DEF IInv
  <2>2. ASSUME NEW a \in Lessons, NEW b \in Lessons, a # b, Time(a) = Time(b),
               room'[a] # None, room'[a] \notin loose'
        PROVE  room'[b] # room'[a]
    BY <1>1, <2>2 DEF IInv, Planned, Typed
  <2>3. QED
    BY <2>1, <2>2 DEF Planned, Distinct, Time
<1>5. QED
  BY <1>2, <1>3, <1>4 DEF IInv

LEMMA BeginDistributionKeeps ==
  ASSUME IInv, NEW c \in Calls, BeginDistribution(c)
  PROVE  IInv'
<1> DEFINE none == [l \in Lessons |-> None]
           s == [pc |-> "dealing", found |-> rooms, todo |-> Sections,
                 plan |-> none, dirty |-> FALSE]
<1>1. /\ s \in CallState /\ s.pc = "dealing" /\ s.plan = none
  BY DEF CallState, DealingCall, IInv, Typed
<1>2. /\ Moves(c, {"dealing"}, s) /\ call[c].pc = "new"
      /\ room' = none /\ loose' = {}
      /\ UNCHANGED <<lessons, rooms, swap, standins, cache>>
  BY <1>1, Overtakes DEF BeginDistribution, IInv
<1> HIDE DEF s
<1>3. Typed'
  BY <1>1, <1>2 DEF IInv, Typed, Moves, lessons, standins
<1>4. Apart' /\ Current' /\ Chosen'
  BY <1>1, <1>2, RoomStep
<1>5. Planned'
  <2>1. \A d \in Calls \ {c} : call'[d].pc = "dealing" =>
          call[d].pc = "dealing" /\ call'[d].plan = call[d].plan
    BY <1>2 DEF Moves
  <2>2. Distinct(none)
    BY DEF Distinct
  <2>3. call'[c].plan = none
    BY <1>1, <1>2 DEF Moves
  <2>4. \A d \in Calls : call'[d].pc = "dealing" => Distinct(call'[d].plan)
    BY <2>1, <2>2, <2>3 DEF IInv, Planned
  <2>5. \A l \in Lessons : room'[l] = None
    BY <1>2
  <2>6. QED
    BY <2>4, <2>5 DEF Planned, Distinct, Time
<1>6. QED
  BY <1>3, <1>4, <1>5 DEF IInv

\* What is dealt to one section keeps the plan apart.
LEMMA DealtIsDistinct ==
  ASSUME Typed, NEW x \in Sections, NEW found,
         NEW old, Distinct(old), NEW deal,
         NEW plan, plan = [l \in Lessons |-> IF l \in Week(x) THEN deal[l] ELSE old[l]],
         Dealt(plan, found, x)
  PROVE  Distinct(plan)
<1> DEFINE taken(l) == {plan[m] : m \in {m \in Lessons \ {l} : Time(m) = Time(l)}}
<1>1. \A l \in Week(x) : plan[l] # None => plan[l] \notin taken(l)
  BY DEF Dealt
<1>2. \A l \in Lessons \ Week(x) : plan[l] = old[l]
  OBVIOUS
<1>3. ASSUME NEW l \in Lessons, NEW m \in Lessons,
             l # m, Time(l) = Time(m), plan[l] # None, plan[m] = plan[l]
      PROVE  FALSE
  <2>1. plan[l] \in taken(l) /\ plan[m] \in taken(m)
    BY <1>3
  <2>2. l \notin Week(x) /\ m \notin Week(x)
    BY <1>1, <1>3, <2>1
  <2>3. QED
    BY <1>2, <1>3, <2>2 DEF Distinct
<1>4. QED
  BY <1>3 DEF Distinct

LEMMA DealSectionKeeps ==
  ASSUME IInv, NEW c \in Calls, NEW x \in Sections, DealSection(c, x)
  PROVE  IInv'
<1>1. PICK deal \in [Week(x) -> call[c].found \cup {None}] :
        LET plan == [l \in Lessons |-> IF l \in Week(x) THEN deal[l]
                                       ELSE call[c].plan[l]] IN
        /\ Dealt(plan, call[c].found, x)
        /\ call' = [call EXCEPT ![c].plan = plan, ![c].todo = @ \ {x}]
  BY DEF DealSection
<1> DEFINE plan == [l \in Lessons |-> IF l \in Week(x) THEN deal[l]
                                      ELSE call[c].plan[l]]
           s == [call[c] EXCEPT !.plan = plan, !.todo = @ \ {x}]
<1>2. /\ call[c] \in DealingCall /\ call[c].pc = "dealing"
      /\ UNCHANGED <<lessons, studios, standins, cache>>
  BY Places DEF DealSection, IInv
<1>3. plan \in [Lessons -> Rooms \cup {None}]
  BY <1>2 DEF DealingCall, Week, IInv, Typed
<1>4. Distinct(plan)
  BY <1>1, <1>2, DealtIsDistinct DEF IInv, Planned
<1>5. call' = [call EXCEPT ![c] = s]
  BY <1>1
<1> HIDE DEF plan
<1>6. /\ s \in CallState /\ s.pc = "dealing" /\ s.plan = plan
      /\ s.dirty = call[c].dirty
  BY <1>2, <1>3 DEF CallState, DealingCall
<1> HIDE DEF s
<1>7. Moves(c, {}, s)
  BY <1>5, <1>6, Steps DEF IInv
<1>8. Typed'
  BY <1>2, <1>6, <1>7 DEF IInv, Typed, Moves, lessons, studios, standins
<1>9. Apart' /\ Current' /\ Chosen'
  BY <1>2, <1>6, <1>7, RoomStep
<1>10. Planned'
  <2>1. /\ \A d \in Calls \ {c} : call'[d] = call[d]
        /\ call'[c].plan = plan /\ call'[c].dirty = call[c].dirty
    BY <1>6, <1>7 DEF Moves
  <2>2. UNCHANGED <<room, loose>>
    BY <1>2 DEF studios
  <2>3. \A d \in Calls : call'[d].pc = "dealing" =>
          /\ Distinct(call'[d].plan)
          /\ ~call'[d].dirty => \A l \in Lessons : room[l] = None
    BY <1>2, <1>4, <2>1 DEF IInv, Planned
  <2>4. QED
    BY <2>2, <2>3 DEF IInv, Planned, Distinct, Time
<1>11. QED
  BY <1>8, <1>9, <1>10 DEF IInv

LEMMA CommitDistributionKeeps ==
  ASSUME IInv, NEW c \in Calls, CommitDistribution(c)
  PROVE  IInv'
<1> DEFINE plan == call[c].plan
           given == {plan[l] : l \in Lessons} \ {None}
<1>1. /\ Moves(c, {"dealing"}, Done) /\ call[c].pc = "dealing"
      /\ UNCHANGED <<lessons, rooms, swap, standins, cache>>
      /\ room' = [l \in Lessons |-> IF plan[l] = None THEN room[l] ELSE plan[l]]
      /\ loose' = IF call[c].dirty THEN loose \cup given ELSE loose
  BY DoneIsIdle, Overtakes DEF CommitDistribution, IInv
<1>2. plan \in [Lessons -> Rooms \cup {None}] /\ Distinct(plan)
  BY <1>1, Places DEF IInv, DealingCall, Planned
<1> HIDE DEF plan
<1>3. Typed'
  <2>1. given \in SUBSET Rooms
    BY <1>2
  <2>2. QED
    BY <1>1, <1>2, <2>1, DoneIsIdle DEF IInv, Typed, Moves, lessons, standins
<1>4. Apart' /\ Current' /\ Chosen'
  BY <1>1, DoneIsIdle, RoomStep
<1>5. Planned'
  <2>1. \A d \in Calls : call'[d].pc = "dealing" =>
          Distinct(call'[d].plan) /\ call'[d].dirty
    BY <1>1, DoneIsIdle, PlansKept DEF IInv
  <2>2. ASSUME NEW a \in Lessons, NEW b \in Lessons, a # b, Time(a) = Time(b),
               room'[a] # None, room'[a] \notin loose'
        PROVE  room'[b] # room'[a]
    <3>1. CASE call[c].dirty
      <4>1. /\ plan[a] # None => plan[a] \in given
            /\ plan[b] # None => plan[b] \in given
        OBVIOUS
      <4>2. QED
        BY <1>1, <2>2, <3>1, <4>1 DEF IInv, Planned
    <3>2. CASE ~call[c].dirty
      <4>1. \A l \in Lessons : room[l] = None
        BY <1>1, <3>2 DEF IInv, Planned
      <4>2. \A l \in Lessons : room'[l] = plan[l]
        BY <1>1, <4>1
      <4>3. QED
        BY <1>2, <2>2, <4>2 DEF Distinct
    <3>3. QED
      BY <3>1, <3>2
  <2>3. QED
    BY <2>1, <2>2 DEF Planned, Distinct, Time
<1>6. QED
  BY <1>3, <1>4, <1>5 DEF IInv

-----------------------------------------------------------------------------
(* Swaps                                                                   *)

\* A swap request that is answered keeps its lessons.
LEMMA SwapMoves ==
  ASSUME NEW w \in Swaps, swap \in [Swaps -> SwapRow],
         NEW status \in {"APPROVED", "REJECTED"},
         swap' = [swap EXCEPT ![w].status = status]
  PROVE  /\ swap' \in [Swaps -> SwapRow]
         /\ swap'[w].status = status /\ swap'[w].from = swap[w].from
         /\ \A v \in Swaps \ {w} : swap'[v] = swap[v]
  BY DEF SwapRow

\* So the lessons of all requests stay named.
LEMMA SwapsNamed ==
  ASSUME Typed, NEW c \in Calls, Moves(c, {"dealing"}, Done) \/ Moves(c, {}, Done),
         NEW w \in Swaps, swap[w].status # "none",
         swap'[w].status # "none", swap'[w].from = swap[w].from,
         \A v \in Swaps \ {w} : swap'[v] = swap[v]
  PROVE  /\ \A v \in Swaps : swap'[v].status # "none" => swap'[v].from \in Lessons
         /\ \A d \in Calls : call'[d].pc = "swapping" =>
              swap'[call'[d].swap].status # "none"
<1>1. \A v \in Swaps : swap'[v].status # "none" => swap'[v].from \in Lessons
  BY DEF Typed
<1>2. \A v \in Swaps : swap[v].status # "none" => swap'[v].status # "none"
  OBVIOUS
<1>3. \A d \in Calls : call'[d].pc = "swapping" =>
        call[d].pc = "swapping" /\ call'[d] = call[d]
  BY DoneIsIdle DEF Moves
<1>4. \A d \in Calls : call[d].pc = "swapping" => call[d].swap \in Swaps
  BY Places DEF SwappingCall
<1>5. QED
  BY <1>1, <1>2, <1>3, <1>4 DEF Typed

LEMMA CreateSwapKeeps ==
  ASSUME IInv, NEW w \in Swaps, NEW l \in Lessons, NEW m \in Lessons \cup {None},
         CreateSwap(w, l, m)
  PROVE  IInv'
<1> DEFINE row == [status |-> "PENDING", from |-> l, to |-> m]
<1>1. /\ row \in SwapRow /\ row.status # "none" /\ row.from \in Lessons
  BY DEF SwapRow
<1>2. /\ swap' = [swap EXCEPT ![w] = row]
      /\ UNCHANGED <<lessons, room, rooms, loose, standins, cache, call>>
  BY DEF CreateSwap
<1> HIDE DEF row
<1>3. Typed'
  BY <1>1, <1>2 DEF IInv, Typed, lessons, standins
<1>4. Apart' /\ Current' /\ Chosen' /\ Planned'
  BY <1>2, ApartKept, CurrentKept, ChosenKept, PlannedKept
  DEF IInv, lessons, standins
<1>5. QED
  BY <1>3, <1>4 DEF IInv

LEMMA RejectSwapKeeps ==
  ASSUME IInv, NEW c \in Calls, NEW w \in Swaps, RejectSwap(c, w)
  PROVE  IInv'
<1>1. /\ Moves(c, {}, Done)
      /\ UNCHANGED <<lessons, room, rooms, loose, standins, cache>>
  BY DoneIsIdle, Steps DEF RejectSwap, IInv
<1>2. /\ swap[w].status # "none" /\ swap' \in [Swaps -> SwapRow]
      /\ swap'[w].status = "REJECTED" /\ swap'[w].from = swap[w].from
      /\ \A v \in Swaps \ {w} : swap'[v] = swap[v]
  BY SwapMoves DEF RejectSwap, IInv, Typed
<1>3. Typed'
  <2>1. /\ \A v \in Swaps : swap'[v].status # "none" => swap'[v].from \in Lessons
        /\ \A d \in Calls : call'[d].pc = "swapping" =>
             swap'[call'[d].swap].status # "none"
    BY <1>1, <1>2, SwapsNamed DEF IInv
  <2>2. QED
    BY <1>1, <1>2, <2>1 DEF IInv, Typed, Moves, lessons, standins
<1>4. Apart' /\ Current' /\ Chosen' /\ Planned'
  BY <1>1, DoneIsIdle, RoomStep, PartsKept DEF IInv
<1>5. QED
  BY <1>3, <1>4 DEF IInv

LEMMA ReadSwapKeeps ==
  ASSUME IInv, NEW c \in Calls, NEW w \in Swaps, ReadSwap(c, w)
  PROVE  IInv'
<1> DEFINE s == [pc |-> "swapping", swap |-> w, fromRoom |-> RoomOf(swap[w].from),
                 toRoom |-> RoomOf(swap[w].to)]
<1>1. \A l \in Lessons \cup {None} : RoomOf(l) \in Rooms \cup {None}
  BY DEF RoomOf, IInv, Typed
<1>2. swap[w].from \in Lessons \cup {None} /\ swap[w].to \in Lessons \cup {None}
  BY DEF IInv, Typed, SwapRow
<1>3. s \in CallState /\ s.pc = "swapping" /\ s.swap = w
  BY <1>1, <1>2 DEF CallState, SwappingCall
<1> HIDE DEF s
<1>4. /\ Moves(c, {}, s) /\ swap[w].status # "none"
      /\ UNCHANGED <<lessons, studios, standins, cache>>
  BY <1>3, Steps DEF ReadSwap, IInv, s
<1>5. Typed'
  BY <1>3, <1>4 DEF IInv, Typed, Moves, lessons, studios, standins
<1>6. Apart' /\ Current' /\ Chosen' /\ Planned'
  BY <1>3, <1>4, RoomStep, PartsKept DEF IInv, studios
<1>7. QED
  BY <1>5, <1>6 DEF IInv

LEMMA CommitSwapKeeps ==
  ASSUME IInv, NEW c \in Calls, CommitSwap(c)
  PROVE  IInv'
<1> DEFINE w == call[c].swap
           from == swap[w].from
           to == swap[w].to
           f == call[c].fromRoom
           t == call[c].toRoom
           sound == /\ to # None => Time(to) = Time(from)
                    /\ RoomOf(from) = f /\ RoomOf(to) = t
<1>1. /\ call[c] \in SwappingCall /\ swap[w].status # "none"
  BY Places DEF CommitSwap, IInv, Typed
<1>2. /\ w \in Swaps /\ f \in Rooms \cup {None} /\ t \in Rooms \cup {None}
  BY <1>1 DEF SwappingCall
<1>3. from \in Lessons /\ to \in Lessons \cup {None} /\ None \notin Lessons
  BY <1>1, <1>2, TimetableAssumption DEF IInv, Typed, SwapRow
<1>4. /\ Moves(c, {"dealing"}, Done)
      /\ room' = [l \in Lessons |-> IF l = to THEN f ELSE IF l = from THEN t ELSE room[l]]
      /\ loose' = IF sound THEN loose ELSE loose \cup ({f, t} \ {None})
      /\ UNCHANGED <<lessons, rooms, standins, cache>>
  BY DoneIsIdle, Overtakes DEF CommitSwap, IInv
<1>5. /\ swap' \in [Swaps -> SwapRow]
      /\ swap'[w].status = "APPROVED" /\ swap'[w].from = swap[w].from
      /\ \A v \in Swaps \ {w} : swap'[v] = swap[v]
  BY <1>2, SwapMoves DEF CommitSwap, IInv, Typed
<1> HIDE DEF from, to, f, t, w
<1>6. Typed'
  <2>1. room' \in [Lessons -> Rooms \cup {None}] /\ loose' \in SUBSET Rooms
    BY <1>2, <1>4 DEF IInv, Typed
  <2>2. /\ \A v \in Swaps : swap'[v].status # "none" => swap'[v].from \in Lessons
        /\ \A d \in Calls : call'[d].pc = "swapping" =>
             swap'[call'[d].swap].status # "none"
    BY <1>1, <1>2, <1>4, <1>5, SwapsNamed DEF IInv, w
  <2>3. QED
    BY <1>4, <1>5, <2>1, <2>2 DEF IInv, Typed, Moves, lessons, standins
<1>7. Apart' /\ Current' /\ Chosen'
  BY <1>4, DoneIsIdle, RoomStep
<1>8. Planned'
  <2>1. \A d \in Calls : call'[d].pc = "dealing" =>
          Distinct(call'[d].plan) /\ call'[d].dirty
    BY <1>4, DoneIsIdle, PlansKept DEF IInv
  <2>2. ASSUME NEW a \in Lessons, NEW b \in Lessons, a # b, Time(a) = Time(b),
               room'[a] # None, room'[a] \notin loose'
        PROVE  room'[b] # room'[a]
    <3> DEFINE at(l) == IF l = to THEN f ELSE IF l = from THEN t ELSE room[l]
    <3>1. room'[a] = at(a) /\ room'[b] = at(b)
      BY <1>4
    <3>2. CASE sound
      <4>1. loose' = loose /\ f = room[from]
            /\ t = (IF to = None THEN None ELSE room[to])
        BY <1>3, <1>4, <3>2 DEF RoomOf
      <4>2. to \in Lessons => Time(to) = Time(from)
        BY <1>3, <3>2
      <4>3. \A l, m \in Lessons :
              l # m /\ Time(l) = Time(m) /\ room[l] # None /\ room[l] \notin loose
                => room[m] # room[l]
        BY DEF IInv, Planned
      <4>4. CASE to = None
        BY <1>3, <2>2, <3>1, <4>1, <4>3, <4>4
      <4>5. CASE to \in Lessons
        <5>1. t = room[to]
          BY <1>3, <4>1, <4>5
        <5>2. QED
          BY <1>3, <2>2, <3>1, <4>1, <4>2, <4>3, <4>5, <5>1
      <4>6. QED
        BY <1>3, <4>4, <4>5
    <3>3. CASE ~sound
      <4>1. loose' = loose \cup ({f, t} \ {None})
        BY <1>4, <3>3
      <4>2. room'[a] = room[a] /\ (room'[b] = room'[a] => room'[b] = room[b])
        BY <2>2, <3>1, <4>1
      <4>3. QED
        BY <2>2, <4>1, <4>2 DEF IInv, Planned
    <3>4. QED
      BY <3>2, <3>3
  <2>3. QED
    BY <2>1, <2>2 DEF Planned, Distinct, Time
<1>9. QED
  BY <1>6, <1>7, <1>8 DEF IInv

-----------------------------------------------------------------------------
(* Substitutes                                                             *)

LEMMA FindAvailableTeachersKeeps ==
  ASSUME IInv, NEW c \in Calls, NEW l \in Lessons, NEW t \in Teachers,
         FindAvailableTeachers(c, l, t)
  PROVE  IInv'
<1> DEFINE s == [pc |-> "choosing", lesson |-> l, teacher |-> t, dirty |-> FALSE]
<1>1. s \in CallState /\ s.pc = "choosing" /\ s.lesson = l /\ s.teacher = t
  BY DEF CallState, ChoosingCall
<1> HIDE DEF s
<1>2. /\ Moves(c, {}, s) /\ t \in Available(l)
      /\ UNCHANGED <<lessons, studios, standins, cache>>
  BY <1>1, Steps DEF FindAvailableTeachers, IInv, s
<1>3. Typed'
  BY <1>1, <1>2 DEF IInv, Typed, Moves, lessons, studios, standins
<1>4. Apart' /\ Current' /\ Planned'
  BY <1>1, <1>2, PartsKept DEF IInv, lessons, studios
<1>5. Chosen'
  <2>1. (\A d \in Calls \ {c} : call'[d] = call[d]) /\ call'[c] = s
    BY <1>2 DEF Moves
  <2>2. \A m \in timetable : Time(m) = Time(l) => Teacher[m] # t
    BY <1>2 DEF Available
  <2>3. UNCHANGED <<timetable, sub, listed>>
    BY <1>2 DEF lessons, standins
  <2>4. QED
    BY <1>1, <2>1, <2>2, <2>3 DEF IInv, Chosen, SubstituteIsFree, Time
<1>6. QED
  BY <1>3, <1>4, <1>5 DEF IInv

LEMMA AssignReplacementKeeps ==
  ASSUME IInv, NEW c \in Calls, AssignReplacement(c)
  PROVE  IInv'
<1> DEFINE l == call[c].lesson
           t == call[c].teacher
<1>1. call[c] \in ChoosingCall /\ call[c].pc = "choosing"
  BY Places DEF AssignReplacement, IInv
<1>2. l \in Lessons /\ t \in Teachers /\ t # None
  BY <1>1, TimetableAssumption DEF ChoosingCall, Teachers
<1>3. /\ Moves(c, {}, Done) /\ sub[l] = None
      /\ sub' = [sub EXCEPT ![l] = t]
      /\ listed' = IF call[c].dirty THEN listed ELSE listed \cup {l}
      /\ UNCHANGED <<lessons, studios, cache>>
  BY DoneIsIdle, Steps DEF AssignReplacement, IInv
<1>4. ~call[c].dirty => \A m \in timetable : Time(m) = Time(l) => Teacher[m] # t
  BY <1>1 DEF IInv, Chosen
<1> HIDE DEF l, t
<1>5. /\ sub' \in [Lessons -> Teachers \cup {None}] /\ sub'[l] = t
      /\ \A k \in Lessons \ {l} : sub'[k] = sub[k]
  BY <1>2, <1>3 DEF IInv, Typed
<1>6. Typed'
  BY <1>2, <1>3, <1>5, DoneIsIdle DEF IInv, Typed, Moves, lessons, studios
<1>7. Apart' /\ Current' /\ Planned'
  BY <1>3, DoneIsIdle, PartsKept DEF IInv, lessons, studios
<1>8. Chosen'
  <2>1. l \notin listed /\ listed \subseteq Lessons
    BY <1>3 DEF IInv, Chosen, Typed
  <2>2. \A d \in Calls : call'[d].pc = "choosing" => call'[d] = call[d]
    BY <1>3, DoneIsIdle DEF Moves
  <2>3. UNCHANGED timetable
    BY <1>3 DEF lessons
  <2>4. \A k \in listed' : \/ k \in listed /\ sub'[k] = sub[k]
                           \/ k = l /\ ~call[c].dirty
    BY <1>3, <1>5, <2>1
  <2>5. SubstituteIsFree' /\ \A k \in listed' : sub'[k] # None
    BY <1>2, <1>4, <1>5, <2>3, <2>4 DEF IInv, Chosen, SubstituteIsFree, Time
  <2>6. QED
    BY <2>2, <2>3, <2>5 DEF IInv, Chosen, Time
<1>9. QED
  BY <1>6, <1>7, <1>8 DEF IInv

-----------------------------------------------------------------------------
(* Every step                                                              *)

LEMMA AbandonKeeps ==
  ASSUME IInv, NEW c \in Calls, Abandon(c)
  PROVE  IInv'
<1>1. Moves(c, {}, Done) /\ UNCHANGED <<lessons, studios, standins, cache>>
  BY DoneIsIdle, Steps DEF Abandon, IInv
<1>2. Typed'
  BY <1>1, DoneIsIdle DEF IInv, Typed, Moves, lessons, studios, standins
<1>3. Apart' /\ Current' /\ Chosen' /\ Planned'
  BY <1>1, DoneIsIdle, PartsKept DEF IInv, lessons, studios, standins
<1>4. QED
  BY <1>2, <1>3 DEF IInv

\* No call moves: a minute passes, a room is removed.
LEMMA NoCallKeeps ==
  ASSUME IInv, UNCHANGED <<lessons, room, swap, loose, standins, call>>,
         rooms' \in SUBSET Rooms, cache' \in [Sections -> CacheEntry],
         \A x \in Sections : cache'[x] = cache[x] \/ cache'[x] = NoEntry
  PROVE  IInv'
<1>1. Typed'
  BY DEF IInv, Typed, lessons, standins
<1>2. Apart' /\ Current' /\ Chosen' /\ Planned'
  BY ApartKept, CurrentKept, ChosenKept, PlannedKept DEF IInv, lessons, standins
<1>3. QED
  BY <1>1, <1>2 DEF IInv

LEMMA ExpireCacheKeeps ==
  ASSUME IInv, NEW x \in Sections, ExpireCache(x)
  PROVE  IInv'
<1>1. NoEntry \in CacheEntry
  BY DEF NoEntry, CacheEntry
<1>2. /\ cache' \in [Sections -> CacheEntry] /\ rooms' \in SUBSET Rooms
      /\ \A y \in Sections : cache'[y] = cache[y] \/ cache'[y] = NoEntry
      /\ UNCHANGED <<lessons, room, swap, loose, standins, call>>
  BY <1>1 DEF ExpireCache, IInv, Typed, studios
<1>3. QED
  BY <1>2, NoCallKeeps

LEMMA RemoveRoomKeeps ==
  ASSUME IInv, NEW r \in Rooms, RemoveRoom(r)
  PROVE  IInv'
<1>1. /\ cache' \in [Sections -> CacheEntry] /\ rooms' \in SUBSET Rooms
      /\ UNCHANGED <<lessons, room, swap, loose, standins, call, cache>>
  BY DEF RemoveRoom, IInv, Typed
<1>2. QED
  BY <1>1, NoCallKeeps

LEMMA IInvInit == Init => IInv
<1> SUFFICES ASSUME Init PROVE IInv
  OBVIOUS
<1>1. \A c \in Calls : call[c] \in CallState /\ call[c].pc = "new"
  BY DEF Init, CallState, IdleCall
<1>2. \A w \in Swaps : swap[w] \in SwapRow /\ swap[w].status = "none"
  BY DEF Init, SwapRow
<1>3. NoEntry \in CacheEntry
  BY DEF NoEntry, CacheEntry
<1>4. Typed
  BY <1>1, <1>2, <1>3 DEF Init, Typed
<1>5. Apart
  BY <1>1 DEF Init, Apart, NoClash, Saving
<1>6. Current /\ Chosen
  BY <1>1 DEF Init, Current, SavedIsShown, Saving, Chosen, SubstituteIsFree
<1>7. Planned
  BY <1>1 DEF Init, Planned
<1>8. QED
  BY <1>4, <1>5, <1>6, <1>7 DEF IInv

LEMMA IInvNext == IInv /\ [Next]_vars => IInv'
<1> SUFFICES ASSUME IInv, [Next]_vars PROVE IInv'
  OBVIOUS
<1>1. CASE UNCHANGED vars
  <2>1. UNCHANGED <<lessons, room, rooms, swap, loose, standins, call, cache>>
    BY <1>1 DEF vars, studios
  <2>2. QED
    BY <2>1, NoCallKeeps DEF IInv, Typed
<1>2. CASE Next
  BY <1>2, ExpireCacheKeeps, RemoveRoomKeeps, CreateSwapKeeps, BeginBulkKeeps,
     CommitBulkKeeps, FillCacheKeeps, BeginDistributionKeeps,
     CommitDistributionKeeps, CommitSwapKeeps, AssignReplacementKeeps,
     AbandonKeeps, FetchForSectionKeeps, DealSectionKeeps, ReadSwapKeeps,
     RejectSwapKeeps, InsertLessonKeeps, UpdateStudioAssignmentKeeps,
     FindAvailableTeachersKeeps
  DEF Next
<1>3. QED
  BY <1>1, <1>2

\* Saves, fetches, distributions, swaps and substitutions, overlapping and dying
\* anywhere, keep the invariant.
THEOREM WeekInvariant == Spec => []IInv
  BY IInvInit, IInvNext, PTL DEF Spec

\* bulkCreate's check keeps every teacher and section in one lesson at a time,
\* but for lessons of saves that were open at once, which it cannot see.
THEOREM NobodyTwice == Spec => []NoClash
  BY WeekInvariant, PTL DEF IInv, Apart

\* The week cache of fetchForSection never hides a committed lesson, but when
\* it was filled across a save.
THEOREM WeekIsCurrent == Spec => []SavedIsShown
  BY WeekInvariant, PTL DEF IInv, Current

\* A substitute picked from findAvailableTeachers has no lesson of his own
\* then, until lessons are saved after the list was made.
THEOREM StandInIsFree == Spec => []SubstituteIsFree
  BY WeekInvariant, PTL DEF IInv, Chosen

\* Whatever distributions and swaps overlap, one studio room is never given to
\* two lessons at once, but for rooms set by hand, swapped across times or on
\* rooms that had changed since they were read.
THEOREM RoomsAreApart == Spec => []NoRoomTwice
<1>1. IInv => NoRoomTwice
  BY DEF IInv, Planned, Typed, NoRoomTwice
<1>2. QED
  BY <1>1, WeekInvariant, PTL
=============================================================================
