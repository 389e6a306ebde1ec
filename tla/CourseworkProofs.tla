--------------------------- MODULE CourseworkProofs ---------------------------
(***************************************************************************)
(* Proofs about Coursework, for any finite sets of users and calls, any    *)
(* profiles, assignments, maxima and marks; and, in the second half, about *)
(* Library, which shares no variable, constant or definition with it.      *)
(***************************************************************************)
EXTENDS Coursework, Library, FiniteSetTheorems, TLAPS

Ratio == [num : Int, den : Nat \ {0}]
RowType == [student : Students \cup {None}, of : Assignments \cup {None},
            marks : Int \cup {None}]
CallType ==
  [pc : {"new", "submitting", "grading", "marked", "averaged", "rated",
         "ranking", "sheet", "done", "dead"},
   student : Students \cup {None}, of : Assignments \cup Calls \cup {None},
   marks : Int, average : Ratio, list : SetToSeqs(Users) \cup {<<>>},
   ranked : Nat, sheet : SUBSET (Students \cup {Stranger})]

TypeOK ==
  /\ assignment \in [Assignments -> {"none", "posted", "discussed", "overdue"}]
  /\ row \in [Calls -> RowType]
  /\ rating \in [Users -> Ratio] /\ rank \in [Users -> Nat]
  /\ scheduled \in BOOLEAN /\ result \in [Students -> Calls \cup {None}]
  /\ call \in [Calls -> CallType]
  /\ raced \subseteq Students \X Assignments /\ stale \subseteq Users
  /\ ranker \in Calls \cup {None}

\* What a request holds is there; a submission is created whole, by a call
\* that had none.
Holds(c) ==
  /\ call[c].pc = "new" => row[c] = Absent
  /\ call[c].pc = "submitting" =>
       /\ row[c] = Absent
       /\ call[c].student \in Students /\ call[c].of \in Assignments
  /\ call[c].pc = "grading" =>
       /\ call[c].student \in Students /\ call[c].of \in Calls
       /\ row[call[c].of].student = call[c].student
  /\ call[c].pc \in {"marked", "averaged"} => call[c].student \in Students
  /\ call[c].pc = "rated" => call[c].ranked = 0
  /\ call[c].pc = "ranking" =>
       /\ call[c].list \in SetToSeqs(Users)
       /\ call[c].ranked \in 0 .. Cardinality(Users)
  /\ row[c] # Absent => row[c].student \in Students /\ row[c].of \in Assignments

Holding == \A c \in Calls : Holds(c)

Typed == TypeOK /\ Holding

-----------------------------------------------------------------------------
(* The inductive invariant                                                 *)

\* A call that has created a submission of u for a, or is about to.
Claims(c, u, a) ==
  \/ row[c].student = u /\ row[c].of = a
  \/ call[c].pc = "submitting" /\ call[c].student = u /\ call[c].of = a

\* Outside a race, one call has or will have the submission of a student.
Single ==
  \A u \in Students, a \in Assignments : <<u, a>> \notin raced =>
    \A c, d \in Calls : Claims(c, u, a) /\ Claims(d, u, a) => c = d

\* A rating is the average, or one call will make it so.
UpToDate(u) ==
  /\ \A c, d \in Rating(u) : c = d
  /\ Rating(u) = {} => rating[u] = Average(u)
  /\ \A c \in Rating(u) : call[c].pc = "averaged" => call[c].average = Average(u)

Averaged == \A u \in Users \ stale : UpToDate(u)

\* The ranks of the first n of the list are written.
Placed(list, n) ==
  /\ list \in SetToSeqs(Users) /\ Sorted(list)
  /\ \A i \in 1..n : rank[list[i]] = i

\* What the call that ranks last, with no rating written since, has got to.
Ranking ==
  ranker # None =>
    /\ call[ranker].pc \in {"ranking", "done", "dead"}
    /\ call[ranker].pc = "ranking" => Placed(call[ranker].list, call[ranker].ranked)
    /\ call[ranker].pc = "done" =>
         \E list \in SetToSeqs(Users) : Placed(list, Cardinality(Users))

-----------------------------------------------------------------------------
(* Sums.  A set that a sum goes wrong on has a smallest subset on which it *)
(* does: an element less, the sum is right, and so it is with the element. *)

\* The element that the fold takes first.
Pick(s) == CHOOSE x \in s : TRUE

\* g adds the values of f up over every subset of S.
Adds(g, f, S) ==
  g = [s \in SUBSET S |-> IF s = {} THEN 0 ELSE f[Pick(s)] + g[s \ {Pick(s)}]]

\* The element is one of the set.
LEMMA Picked == \A s : s # {} => Pick(s) \in s
  BY DEF Pick

\* Of some subsets of a finite set, one has no other of them inside it.
LEMMA SmallestSet ==
  ASSUME NEW S, IsFiniteSet(S), NEW T \in SUBSET SUBSET S, T # {}
  PROVE  \E s \in T : \A t \in T : t \subseteq s => t = s
<1>1. PICK s \in T : \A t \in T : ~ (<<t, s>> \in StrictSubsetOrdering(S))
  BY FS_StrictSubsetOrderingWellFounded, FS_FiniteSubsetsOfFinite, WFMin
<1>2. QED
  BY <1>1 DEF StrictSubsetOrdering

\* Two functions that add f up agree where both are defined.
LEMMA AddsAlike ==
  ASSUME NEW f, NEW S, IsFiniteSet(S), NEW R, NEW g, NEW h,
         Adds(g, f, S), Adds(h, f, R)
  PROVE  \A s \in SUBSET (S \cap R) : g[s] = h[s]
<1> DEFINE T == {s \in SUBSET (S \cap R) : g[s] # h[s]}
<1>1. SUFFICES ASSUME T # {} PROVE FALSE
  OBVIOUS
<1>2. PICK s \in T : \A t \in T : t \subseteq s => t = s
  <2>1. T \in SUBSET SUBSET S
    OBVIOUS
  <2> HIDE DEF T
  <2>2. QED
    BY <1>1, <2>1, SmallestSet
<1>3. CASE s = {}
  BY <1>3 DEF Adds
<1>4. CASE s # {}
  <2> DEFINE r == s \ {Pick(s)}
  <2>1. r \in SUBSET (S \cap R) /\ r \subseteq s /\ r # s
    BY <1>4, Picked
  <2>2. g[r] = h[r]
    BY <1>2, <2>1
  <2>3. g[s] = f[Pick(s)] + g[r] /\ h[s] = f[Pick(s)] + h[r]
    BY <1>4 DEF Adds
  <2>4. QED
    BY <2>2, <2>3
<1>5. QED
  BY <1>3, <1>4

\* A function that adds f up exists over every finite set.
LEMMA AddsExists ==
  ASSUME NEW f, NEW S, IsFiniteSet(S)
  PROVE  \E g : Adds(g, f, S)
<1> DEFINE G(t) == CHOOSE g : Adds(g, f, t)
           T == {s \in SUBSET S : ~ \E g : Adds(g, f, s)}
<1>1. SUFFICES ASSUME T # {} PROVE FALSE
  BY DEF T
<1>2. PICK s \in T : \A t \in T : t \subseteq s => t = s
  <2>1. T \in SUBSET SUBSET S
    OBVIOUS
  <2> HIDE DEF T
  <2>2. QED
    BY <1>1, <2>1, SmallestSet
<1>3. \A t \in SUBSET s : t # s => Adds(G(t), f, t)
  BY <1>2
<1> DEFINE h == [t \in SUBSET s |->
                   IF t = {} THEN 0
                   ELSE f[Pick(t)] + G(t \ {Pick(t)})[t \ {Pick(t)}]]
<1> HIDE DEF G
<1>4. ASSUME NEW t \in SUBSET s, t # {}
      PROVE  h[t \ {Pick(t)}] = G(t \ {Pick(t)})[t \ {Pick(t)}]
  <2> DEFINE r == t \ {Pick(t)}
  <2>1. r \in SUBSET s /\ r # s /\ Adds(G(r), f, r)
    BY <1>3, <1>4, Picked
  <2>2. CASE r = {}
    BY <2>1, <2>2 DEF Adds
  <2>3. CASE r # {}
    <3> DEFINE q == r \ {Pick(r)}
    <3>1. q \in SUBSET s /\ q # s /\ Adds(G(q), f, q) /\ IsFiniteSet(q)
      BY <1>3, <2>1, <2>3, Picked, FS_Subset
    <3>2. G(r)[q] = G(q)[q]
      BY <2>1, <3>1, AddsAlike
    <3>3. G(r)[r] = f[Pick(r)] + G(r)[q]
      BY <2>1, <2>3 DEF Adds
    <3>4. h[r] = f[Pick(r)] + G(q)[q]
      BY <2>1, <2>3
    <3>5. QED
      BY <3>2, <3>3, <3>4
  <2>4. QED
    BY <2>2, <2>3
<1>5. Adds(h, f, s)
  BY <1>4 DEF Adds
<1>6. QED
  BY <1>2, <1>5

\* The fold of the community modules is what such a function gives.
LEMMA SumAdds ==
  ASSUME NEW f, NEW S, IsFiniteSet(S), NEW g, Adds(g, f, S)
  PROVE  SumFunctionOnSet(f, S) = g[S]
<1> DEFINE h == CHOOSE h : Adds(h, f, S)
<1>1. Adds(h, f, S)
  OBVIOUS
<1>2. SumFunctionOnSet(f, S) = h[S]
  BY DEF SumFunctionOnSet, FoldFunctionOnSet, MapThenFoldSet, Adds, Pick
<1> HIDE DEF h
<1>3. QED
  BY <1>1, <1>2, AddsAlike

\* A sum is that of the element taken first and of the others.
LEMMA SumFirst ==
  ASSUME NEW f, NEW S, IsFiniteSet(S)
  PROVE  SumFunctionOnSet(f, S) =
           IF S = {} THEN 0
           ELSE f[Pick(S)] + SumFunctionOnSet(f, S \ {Pick(S)})
<1>1. PICK g : Adds(g, f, S)
  BY AddsExists
<1> DEFINE R == S \ {Pick(S)}
<1>2. IsFiniteSet(R) /\ R \in SUBSET S
  BY FS_Subset
<1>3. PICK h : Adds(h, f, R)
  BY <1>2, AddsExists
<1>4. g[R] = h[R]
  BY <1>1, <1>2, <1>3, AddsAlike
<1>5. SumFunctionOnSet(f, S) = g[S] /\ SumFunctionOnSet(f, R) = h[R]
  BY <1>1, <1>2, <1>3, SumAdds
<1>6. QED
  BY <1>1, <1>4, <1>5 DEF Adds

\* Nothing adds up to zero.
LEMMA SumNone == \A f : SumFunctionOnSet(f, {}) = 0
  BY FS_EmptySet, SumFirst

\* Integers add up to an integer.
LEMMA SumIsInt ==
  ASSUME NEW D, NEW f \in [D -> Int], NEW S \in SUBSET D, IsFiniteSet(S)
  PROVE  SumFunctionOnSet(f, S) \in Int
<1> DEFINE T == {s \in SUBSET S : SumFunctionOnSet(f, s) \notin Int}
<1>1. SUFFICES ASSUME T # {} PROVE FALSE
  OBVIOUS
<1>2. PICK s \in T : \A t \in T : t \subseteq s => t = s
  <2>1. T \in SUBSET SUBSET S
    OBVIOUS
  <2> HIDE DEF T
  <2>2. QED
    BY <1>1, <2>1, SmallestSet
<1>3. IsFiniteSet(s)
  BY <1>2, FS_Subset
<1>4. s # {}
  <2>1. SumFunctionOnSet(f, s) # 0
    BY <1>2
  <2>2. QED
    BY <2>1, SumNone
<1>5. Pick(s) \in s /\ f[Pick(s)] \in Int
  BY <1>2, <1>4, Picked
<1>6. SumFunctionOnSet(f, s \ {Pick(s)}) \in Int
  BY <1>2, <1>5
<1>7. QED
  BY <1>2, <1>3, <1>4, <1>5, <1>6, SumFirst

\* It does not matter which element is taken first.
LEMMA SumAny ==
  ASSUME NEW D, NEW f \in [D -> Int], NEW S \in SUBSET D, IsFiniteSet(S),
         NEW x \in S
  PROVE  SumFunctionOnSet(f, S) = f[x] + SumFunctionOnSet(f, S \ {x})
<1> DEFINE Off(s, y) == SumFunctionOnSet(f, s) # f[y] + SumFunctionOnSet(f, s \ {y})
           T == {s \in SUBSET S : \E y \in s : Off(s, y)}
<1>1. SUFFICES ASSUME T # {} PROVE FALSE
  OBVIOUS
<1>2. PICK s \in T : \A t \in T : t \subseteq s => t = s
  <2>1. T \in SUBSET SUBSET S
    OBVIOUS
  <2> HIDE DEF T
  <2>2. QED
    BY <1>1, <2>1, SmallestSet
<1>3. PICK y \in s : Off(s, y)
  BY <1>2
<1> DEFINE z == Pick(s)
<1>4. z \in s /\ IsFiniteSet(s) /\ IsFiniteSet(s \ {z})
  BY <1>2, <1>3, Picked, FS_Subset
<1>5. SumFunctionOnSet(f, s) = f[z] + SumFunctionOnSet(f, s \ {z})
  BY <1>3, <1>4, SumFirst
<1>6. y # z
  BY <1>3, <1>5
<1> HIDE DEF z
<1>7. /\ SumFunctionOnSet(f, s \ {z}) = f[y] + SumFunctionOnSet(f, (s \ {z}) \ {y})
      /\ SumFunctionOnSet(f, s \ {y}) = f[z] + SumFunctionOnSet(f, (s \ {y}) \ {z})
  <2>1. \A t \in SUBSET s : t # s => t \in SUBSET S /\ t \notin T
    BY <1>2
  <2>2. s \ {z} \in SUBSET s /\ s \ {z} # s /\ y \in s \ {z}
    BY <1>3, <1>4, <1>6
  <2>3. s \ {y} \in SUBSET s /\ s \ {y} # s /\ z \in s \ {y}
    BY <1>3, <1>4, <1>6
  <2>4. ~ Off(s \ {z}, y)
    BY <2>1, <2>2
  <2>5. ~ Off(s \ {y}, z)
    BY <2>1, <2>3
  <2>6. QED
    BY <2>4, <2>5
<1>8. (s \ {z}) \ {y} = (s \ {y}) \ {z}
  OBVIOUS
<1>9. /\ f[y] \in Int /\ f[z] \in Int
      /\ SumFunctionOnSet(f, (s \ {y}) \ {z}) \in Int
  <2>1. (s \ {y}) \ {z} \in SUBSET D /\ IsFiniteSet((s \ {y}) \ {z})
    BY <1>2, <1>4, FS_Subset
  <2>2. QED
    BY <1>2, <1>3, <1>4, <2>1, SumIsInt
<1>10. SumFunctionOnSet(f, s) = f[y] + SumFunctionOnSet(f, s \ {y})
  <2> DEFINE rest == SumFunctionOnSet(f, (s \ {y}) \ {z})
  <2>1. /\ SumFunctionOnSet(f, s) = f[z] + (f[y] + rest)
        /\ SumFunctionOnSet(f, s \ {y}) = f[z] + rest
    BY <1>5, <1>7, <1>8
  <2>2. f[y] \in Int /\ f[z] \in Int /\ rest \in Int
    BY <1>9
  <2> HIDE DEF rest
  <2>3. QED
    BY <2>1, <2>2
<1>11. QED
  BY <1>3, <1>10

-----------------------------------------------------------------------------
(* Types                                                                   *)

\* Lists of all users are sequences of that length.
LEMMA Lists ==
  ASSUME NEW list \in SetToSeqs(Users)
  PROVE  /\ list \in [1 .. Cardinality(Users) -> Users]
         /\ Len(list) = Cardinality(Users) /\ Cardinality(Users) \in Nat
         /\ \A i, j \in 1 .. Cardinality(Users) : i # j => list[i] # list[j]
<1>1. Cardinality(Users) \in Nat
  BY CourseworkAssumption, FS_CardinalityType
<1>2. /\ list \in [1 .. Cardinality(Users) -> Users]
      /\ \A i, j \in 1 .. Cardinality(Users) : i # j => list[i] # list[j]
  BY DEF SetToSeqs
<1>3. QED
  BY <1>1, <1>2

\* A submission that counts is marked, out of a maximum above zero.
LEMMA Counting ==
  ASSUME Typed, NEW u \in Users, NEW c \in Counted(u)
  PROVE  /\ c \in Calls /\ row[c].of \in Assignments /\ row[c].marks \in Int
         /\ MaxMarks[row[c].of] \in Nat \ {0} /\ Percentage(c) \in Int
<1>1. c \in Calls /\ row[c] # Absent /\ row[c].marks \in Int
  BY CourseworkAssumption DEF Typed, TypeOK, RowType, Counted, Owned
<1>2. row[c].of \in Assignments
  BY <1>1 DEF Typed, Holding, Holds
<1>3. MaxMarks[row[c].of] \in Nat \ {0}
  BY <1>2, CourseworkAssumption DEF Counted
<1>4. Percentage(c) \in Int
  <2>1. Scale \div MaxMarks[row[c].of] \in Int
    BY <1>3, CourseworkAssumption
  <2>2. QED
    BY <1>1, <2>1 DEF Percentage
<1>5. QED
  BY <1>1, <1>2, <1>3, <1>4

\* The submissions that count are finitely many, and so is their sum.
LEMMA CountedAddUp ==
  ASSUME Typed, NEW u \in Users
  PROVE  /\ IsFiniteSet(Counted(u)) /\ Cardinality(Counted(u)) \in Nat
         /\ Counted(u) # {} => Cardinality(Counted(u)) \in Nat \ {0}
         /\ SumFunction([c \in Counted(u) |-> Percentage(c)]) \in Int
<1> DEFINE f == [c \in Counted(u) |-> Percentage(c)]
<1>1. IsFiniteSet(Counted(u))
  BY CourseworkAssumption, FS_Subset DEF Counted, Owned
<1>2. f \in [Counted(u) -> Int]
  BY Counting
<1>3. SumFunction(f) \in Int
  BY <1>1, <1>2, SumIsInt DEF SumFunction
<1>4. QED
  BY <1>1, <1>3, FS_CardinalityType, FS_EmptySet

\* The average is a fraction: where there is nothing to divide by, it is zero.
LEMMA AverageIsRatio ==
  ASSUME Typed, NEW u \in Users
  PROVE  Average(u) \in Ratio
<1>1. CASE Counted(u) = {}
  BY <1>1 DEF Average, MeanOf, Zero, Ratio
<1>2. CASE Counted(u) # {}
  <2>1. Cardinality(Counted(u)) * Scale \in Nat \ {0}
    <3>1. PICK n \in Nat \ {0} : n = Cardinality(Counted(u))
      BY <1>2, CountedAddUp
    <3>2. QED
      BY <3>1, CourseworkAssumption
  <2>2. QED
    BY <1>2, <2>1, CountedAddUp DEF Average, MeanOf, Ratio
<1>3. QED
  BY <1>1, <1>2

\* Call c goes on as s, the others stay what they are.
Goes(c, s) ==
  /\ s \in CallType /\ call' \in [Calls -> CallType] /\ call'[c] = s
  /\ \A d \in Calls : d # c => call'[d] = call[d]

\* Writing the state of one call is a step of that call alone.
LEMMA Moves ==
  ASSUME Typed, NEW c \in Calls, NEW s \in CallType, call' = [call EXCEPT ![c] = s]
  PROVE  Goes(c, s)
  BY DEF Typed, TypeOK, Goes

\* So it is for a call that ends, and, one lemma each, for every action.
LEMMA IdleGoes ==
  ASSUME Typed, NEW c \in Calls, NEW pc \in {"rated", "done", "dead"},
         call' = [call EXCEPT ![c] = Idle(pc)]
  PROVE  Goes(c, Idle(pc))
  BY DEF Typed, TypeOK, Goes, CallType, Idle, Zero, Ratio

\* The check of submit keeps what it was asked for.
LEMMA CheckSubmitGoes ==
  ASSUME Typed, NEW c \in Calls, NEW u \in Students, NEW a \in Assignments,
         CheckSubmit(c, u, a)
  PROVE  Goes(c, [call[c] EXCEPT !.pc = "submitting", !.student = u, !.of = a])
<1> DEFINE s == [call[c] EXCEPT !.pc = "submitting", !.student = u, !.of = a]
<1>1. call[c] \in CallType
  BY DEF Typed, TypeOK
<1>2. s \in CallType
  BY <1>1 DEF CallType
<1>3. call' = [call EXCEPT ![c] = s]
  BY <1>1 DEF CheckSubmit, Typed, TypeOK
<1>4. QED
  BY <1>2, <1>3, Moves

\* grade holds the row that it has found.
LEMMA CheckGradeGoes ==
  ASSUME Typed, NEW c \in Calls, NEW r \in Calls, NEW m \in Marks,
         CheckGrade(c, r, m)
  PROVE  Goes(c, [call[c] EXCEPT !.pc = "grading", !.student = row[r].student,
                                 !.of = r, !.marks = m])
<1> DEFINE s == [call[c] EXCEPT !.pc = "grading", !.student = row[r].student,
                                 !.of = r, !.marks = m]
<1>1. call[c] \in CallType
  BY DEF Typed, TypeOK
<1>a. row[r].student \in Students \cup {None} /\ m \in Int
  BY CourseworkAssumption DEF Typed, TypeOK, RowType
<1>2. s \in CallType
  BY <1>1, <1>a DEF CallType
<1>3. call' = [call EXCEPT ![c] = s]
  BY <1>1, <1>a DEF CheckGrade, Typed, TypeOK
<1>4. QED
  BY <1>2, <1>3, Moves

\* The marks are in the row, the call only moves on.
LEMMA WriteMarksGoes ==
  ASSUME Typed, NEW c \in Calls, WriteMarks(c)
  PROVE  Goes(c, [call[c] EXCEPT !.pc = "marked"])
<1> DEFINE s == [call[c] EXCEPT !.pc = "marked"]
<1>1. call[c] \in CallType
  BY DEF Typed, TypeOK
<1>2. s \in CallType
  BY <1>1 DEF CallType
<1>3. call' = [call EXCEPT ![c] = s]
  BY <1>1 DEF WriteMarks, Step, Typed, TypeOK
<1>4. QED
  BY <1>2, <1>3, Moves

\* The average that is read is a fraction, to be written later.
LEMMA ReadMarksGoes ==
  ASSUME Typed, NEW c \in Calls, ReadMarks(c)
  PROVE  Goes(c, [call[c] EXCEPT !.pc = "averaged", !.of = None,
                                 !.average = Average(UserOf[call[c].student])])
<1> DEFINE s == [call[c] EXCEPT !.pc = "averaged", !.of = None,
                                 !.average = Average(UserOf[call[c].student])]
<1>1. call[c] \in CallType
  BY DEF Typed, TypeOK
<1>a. Average(UserOf[call[c].student]) \in Ratio
  BY CourseworkAssumption, AverageIsRatio DEF Typed, Holding, Holds, ReadMarks
<1>2. s \in CallType
  BY <1>1, <1>a DEF CallType
<1>3. call' = [call EXCEPT ![c] = s]
  BY <1>1, <1>a DEF ReadMarks, Typed, TypeOK
<1>4. QED
  BY <1>2, <1>3, Moves

\* What is read is a list of all users, best first.
LEMMA ReadRankingGoes ==
  ASSUME Typed, NEW c \in Calls, ReadRanking(c)
  PROVE  \E list \in SetToSeqs(Users) :
           Sorted(list) /\ Goes(c, [call[c] EXCEPT !.pc = "ranking", !.list = list])
<1>1. PICK list \in SetToSeqs(Users) :
        Sorted(list) /\ call' = [call EXCEPT ![c].pc = "ranking", ![c].list = list]
  BY DEF ReadRanking
<1> DEFINE s == [call[c] EXCEPT !.pc = "ranking", !.list = list]
<1>2. call[c] \in CallType
  BY DEF Typed, TypeOK
<1>3. s \in CallType
  BY <1>2 DEF CallType
<1>4. call' = [call EXCEPT ![c] = s]
  BY <1>1, <1>2 DEF Typed, TypeOK
<1>5. QED
  BY <1>1, <1>3, <1>4, Moves

\* One rank is written, of the next in the list; the last one ends the call.
LEMMA WriteRankGoes ==
  ASSUME Typed, NEW c \in Calls, WriteRank(c)
  PROVE  LET i == call[c].ranked + 1 IN
         /\ i \in 1 .. Cardinality(Users)
         /\ \/ i = Cardinality(Users) /\ Goes(c, Idle("done"))
            \/ i # Cardinality(Users) /\ Goes(c, [call[c] EXCEPT !.ranked = i])
<1> DEFINE i == call[c].ranked + 1
           n == Cardinality(Users)
<1>1. /\ call[c].list \in SetToSeqs(Users) /\ call[c].ranked \in 0 .. n
      /\ n \in Nat /\ Len(call[c].list) = n
  BY Lists DEF Typed, Holding, Holds, WriteRank
<1>2. i \in 1..n
  BY <1>1 DEF WriteRank
<1>3. CASE i = n
  BY <1>1, <1>2, <1>3, IdleGoes DEF WriteRank
<1>4. CASE i # n
  <2>1. call' = [call EXCEPT ![c] = [call[c] EXCEPT !.ranked = i]]
    BY <1>1, <1>4 DEF WriteRank
  <2>2. call[c] \in CallType /\ i \in Int
    BY <1>1 DEF Typed, TypeOK
  <2>3. [call[c] EXCEPT !.ranked = i] \in CallType
    BY <2>2 DEF CallType
  <2>4. QED
    BY <1>2, <1>4, <2>1, <2>3, Moves
<1>5. QED
  BY <1>2, <1>3, <1>4

\* A sheet is kept as it was sent.
LEMMA CheckSheetGoes ==
  ASSUME Typed, NEW c \in Calls, NEW who \in Sheets,
         CheckSheet(c, who)
  PROVE  Goes(c, [call[c] EXCEPT !.pc = "sheet", !.sheet = who])
<1> DEFINE s == [call[c] EXCEPT !.pc = "sheet", !.sheet = who]
<1>1. call[c] \in CallType
  BY DEF Typed, TypeOK
<1>2. s \in CallType
  BY <1>1, CourseworkAssumption DEF CallType
<1>3. call' = [call EXCEPT ![c] = s]
  BY <1>1 DEF CheckSheet, Typed, TypeOK
<1>4. QED
  BY <1>2, <1>3, Moves

\* No call holds anything at first.
LEMMA TypedInit == Init => Typed
<1> SUFFICES ASSUME Init PROVE Typed
  OBVIOUS
<1>1. Absent \in RowType /\ Idle("new") \in CallType
  BY DEF RowType, CallType, Idle, Absent, Zero, Ratio
<1>2. TypeOK
  <2>1. row \in [Calls -> RowType] /\ call \in [Calls -> CallType]
    BY <1>1 DEF Init
  <2>2. scheduled \in BOOLEAN /\ ranker \in Calls \cup {None}
    BY DEF Init
  <2>3. assignment \in [Assignments -> {"none", "posted", "discussed", "overdue"}]
    BY DEF Init
  <2>4. /\ rating \in [Users -> Ratio] /\ rank \in [Users -> Nat]
        /\ result \in [Students -> Calls \cup {None}]
        /\ raced \subseteq Students \X Assignments /\ stale \subseteq Users
    BY DEF Init, Zero, Ratio
  <2>5. QED
    BY <2>1, <2>2, <2>3, <2>4 DEF TypeOK
<1>3. Holding
  BY DEF Init, Holding, Holds, Idle
<1>4. QED
  BY <1>2, <1>3 DEF Typed

\* A call that a step leaves alone still holds what it held.
LEMMA HoldsStill ==
  ASSUME Typed, NEW c \in Calls, call'[c] = call[c],
         \A r \in Calls : row[r] # Absent =>
           row'[r].student = row[r].student /\ row'[r].of = row[r].of,
         row[c] = Absent => row'[c] = Absent
  PROVE  Holds(c)'
<1>1. Holds(c)
  BY DEF Typed, Holding
<1>2. call[c].pc = "grading" => row[call[c].of] # Absent
  BY <1>1, CourseworkAssumption DEF Holds, Absent
<1>3. QED
  BY <1>1, <1>2 DEF Holds

\* Every action keeps the types, and what the calls hold.
LEMMA TypedNext == Typed /\ [Next]_vars => Typed'
<1> SUFFICES ASSUME Typed, [Next]_vars PROVE Typed'
  OBVIOUS
<1>a. ASSUME NEW c \in Calls, NEW s, Goes(c, s), UNCHANGED row, Holds(c)'
      PROVE  Holding'
  BY <1>a, HoldsStill DEF Holding, Goes
<1>1. ASSUME UNCHANGED <<row, call>> PROVE Holding'
  BY <1>1, HoldsStill DEF Holding
<1>2. ASSUME NEW a \in Assignments, CreateAssignment(a) PROVE Typed'
  BY <1>1, <1>2 DEF CreateAssignment, Typed, TypeOK, ratings, exams
<1>3. ASSUME NEW a \in Assignments, CreateAssignmentGroup(a) PROVE Typed'
  BY <1>1, <1>3 DEF CreateAssignmentGroup, Typed, TypeOK, ratings, exams
<1>4. ASSUME NEW a \in Assignments, PassDueDate(a) PROVE Typed'
  BY <1>1, <1>4 DEF PassDueDate, Typed, TypeOK, ratings, exams
<1>5. CASE ScheduleExam
  BY <1>1, <1>5 DEF ScheduleExam, Typed, TypeOK, coursework, ratings
<1>6. ASSUME NEW c \in Calls, NEW u \in Students, NEW a \in Assignments,
             CheckSubmit(c, u, a)
      PROVE  Typed'
  <2> DEFINE s == [call[c] EXCEPT !.pc = "submitting", !.student = u, !.of = a]
  <2>1. Goes(c, s) /\ call[c] \in CallType /\ Holds(c)
    BY <1>6, CheckSubmitGoes DEF Typed, TypeOK, Holding
  <2>2. UNCHANGED <<assignment, row, rating, rank, stale, ranker, scheduled, result>>
    BY <1>6 DEF CheckSubmit, ratings, exams
  <2>3. raced' \subseteq Students \X Assignments
    BY <1>6 DEF CheckSubmit, Typed, TypeOK
  <2>4. TypeOK'
    BY <2>1, <2>2, <2>3 DEF Goes, Typed, TypeOK
  <2>5. s.pc = "submitting" /\ s.student = u /\ s.of = a
    BY <2>1 DEF CallType
  <2>6. Holds(c)'
    BY <1>6, <2>1, <2>2, <2>5 DEF Goes, Holds, CheckSubmit
  <2>7. QED
    BY <1>a, <2>1, <2>2, <2>4, <2>6 DEF Typed
<1>7. ASSUME NEW c \in Calls, CreateSubmission(c) PROVE Typed'
  <2> DEFINE s == [student |-> call[c].student, of |-> call[c].of, marks |-> None]
  <2>1. Goes(c, Idle("done")) /\ call[c].pc = "submitting" /\ Holds(c)
    BY <1>7, IdleGoes DEF CreateSubmission, Finish, Typed, Holding
  <2>2. UNCHANGED <<assignment, raced, rating, rank, stale, ranker, scheduled, result>>
    BY <1>7 DEF CreateSubmission, ratings, exams
  <2>3. s \in RowType /\ s.student \in Students /\ s.of \in Assignments
        /\ row[c] = Absent
    BY <2>1 DEF Holds, RowType
  <2>4. /\ row' \in [Calls -> RowType] /\ row'[c] = s
        /\ \A r \in Calls : r # c => row'[r] = row[r]
    BY <1>7, <2>3 DEF CreateSubmission, Typed, TypeOK
  <2>5. TypeOK'
    BY <2>1, <2>2, <2>4 DEF Goes, Typed, TypeOK
  <2>6. Holds(c)'
    BY <2>1, <2>3, <2>4 DEF Goes, Holds, Idle
  <2>7. \A d \in Calls : d # c => Holds(d)'
    BY <2>1, <2>3, <2>4, HoldsStill DEF Goes
  <2>8. QED
    BY <2>5, <2>6, <2>7 DEF Typed, Holding
<1>8. ASSUME NEW c \in Calls, NEW r \in Calls, NEW m \in Marks, CheckGrade(c, r, m)
      PROVE  Typed'
  <2> DEFINE s == [call[c] EXCEPT !.pc = "grading", !.student = row[r].student,
                                  !.of = r, !.marks = m]
  <2>1. Goes(c, s) /\ call[c] \in CallType /\ Holds(c) /\ Holds(r)
    BY <1>8, CheckGradeGoes DEF Typed, TypeOK, Holding
  <2>2. /\ UNCHANGED <<assignment, row, raced, rating, rank, stale, ranker,
                       scheduled, result>>
        /\ row[r] # Absent /\ call[c].pc = "new"
    BY <1>8, CourseworkAssumption DEF CheckGrade, coursework, ratings, exams
  <2>3. TypeOK'
    BY <2>1, <2>2 DEF Goes, Typed, TypeOK
  <2>4. s.pc = "grading" /\ s.student = row[r].student /\ s.of = r
    BY <2>1 DEF CallType
  <2>5. Holds(c)'
    BY <2>1, <2>2, <2>4 DEF Goes, Holds
  <2>6. QED
    BY <1>a, <2>1, <2>2, <2>3, <2>5 DEF Typed
<1>9. ASSUME NEW c \in Calls, WriteMarks(c) PROVE Typed'
  <2> DEFINE s == [call[c] EXCEPT !.pc = "marked"]
             r == call[c].of
             u == call[c].student
  <2>1. Goes(c, s) /\ call[c] \in CallType /\ Holds(c)
    BY <1>9, WriteMarksGoes DEF Typed, TypeOK, Holding
  <2>2. /\ UNCHANGED <<assignment, raced, rating, rank, ranker, scheduled, result>>
        /\ call[c].pc = "grading"
    BY <1>9 DEF WriteMarks, exams
  <2>3. /\ r \in Calls /\ call[c].marks \in Int /\ u \in Students
        /\ row[r].student = u
    BY <2>1, <2>2 DEF Holds, CallType
  <2>4. row[r] # Absent /\ row[r] \in RowType
    BY <2>3, CourseworkAssumption DEF Absent, Typed, TypeOK
  <2>5. /\ row' \in [Calls -> RowType]
        /\ \A d \in Calls : row'[d].student = row[d].student /\ row'[d].of = row[d].of
        /\ \A d \in Calls : d # r => row'[d] = row[d]
    BY <1>9, <2>3, <2>4 DEF WriteMarks, Typed, TypeOK, RowType
  <2>6. stale' \subseteq Users
    BY <1>9, <2>3, CourseworkAssumption DEF WriteMarks, Typed, TypeOK
  <2>7. TypeOK'
    BY <2>1, <2>2, <2>5, <2>6 DEF Goes, Typed, TypeOK
  <2>8. s.pc = "marked" /\ s.student = u
    BY <2>1 DEF CallType
  <2>9. Holds(r)
    BY <2>3 DEF Typed, Holding
  <2>10. Holds(c)'
    BY <2>1, <2>2, <2>3, <2>4, <2>5, <2>8, <2>9 DEF Goes, Holds
  <2>11. ASSUME NEW d \in Calls, d # c PROVE Holds(d)'
    BY <2>1, <2>4, <2>5, <2>11, HoldsStill DEF Goes
  <2>12. QED
    BY <2>7, <2>10, <2>11 DEF Typed, Holding
<1>10. ASSUME NEW c \in Calls, ReadMarks(c) PROVE Typed'
  <2> DEFINE s == [call[c] EXCEPT !.pc = "averaged", !.of = None,
                                  !.average = Average(UserOf[call[c].student])]
  <2>1. Goes(c, s) /\ call[c] \in CallType /\ Holds(c)
    BY <1>10, ReadMarksGoes DEF Typed, TypeOK, Holding
  <2>2. /\ UNCHANGED <<assignment, row, raced, rating, rank, stale, ranker,
                       scheduled, result>>
        /\ call[c].pc = "marked"
    BY <1>10 DEF ReadMarks, coursework, ratings, exams
  <2>3. TypeOK'
    BY <2>1, <2>2 DEF Goes, Typed, TypeOK
  <2>4. s.pc = "averaged" /\ s.student = call[c].student
    BY <2>1 DEF CallType
  <2>5. Holds(c)'
    BY <2>1, <2>2, <2>4 DEF Goes, Holds
  <2>6. QED
    BY <1>a, <2>1, <2>2, <2>3, <2>5 DEF Typed
<1>11. ASSUME NEW c \in Calls, WriteRating(c) PROVE Typed'
  <2>1. Goes(c, Idle("rated")) /\ call[c] \in CallType /\ Holds(c)
    BY <1>11, IdleGoes DEF WriteRating, Typed, TypeOK, Holding
  <2>2. UNCHANGED <<assignment, row, raced, rank, stale, scheduled, result>>
    BY <1>11 DEF WriteRating, coursework, exams
  <2>3. rating' \in [Users -> Ratio] /\ ranker' = None
    BY <1>11, <2>1, CourseworkAssumption DEF WriteRating, CallType, Typed, TypeOK
  <2>4. TypeOK'
    BY <2>1, <2>2, <2>3 DEF Goes, Typed, TypeOK
  <2>5. Holds(c)'
    BY <2>1, <2>2 DEF Goes, Holds, Idle
  <2>6. QED
    BY <1>a, <2>1, <2>2, <2>4, <2>5 DEF Typed
<1>12. ASSUME NEW c \in Calls, ReadRanking(c) PROVE Typed'
  <2>1. PICK list \in SetToSeqs(Users) :
          Goes(c, [call[c] EXCEPT !.pc = "ranking", !.list = list])
    BY <1>12, ReadRankingGoes
  <2> DEFINE s == [call[c] EXCEPT !.pc = "ranking", !.list = list]
  <2>2. /\ UNCHANGED <<assignment, row, raced, rating, rank, stale, scheduled, result>>
        /\ call[c].pc = "rated" /\ ranker' = c /\ call[c] \in CallType /\ Holds(c)
    BY <1>12 DEF ReadRanking, coursework, exams, Typed, TypeOK, Holding
  <2>3. TypeOK'
    BY <2>1, <2>2 DEF Goes, Typed, TypeOK
  <2>4. s.pc = "ranking" /\ s.list = list /\ s.ranked = call[c].ranked
    BY <2>2 DEF CallType
  <2>5. Cardinality(Users) \in Nat
    BY <2>1, Lists
  <2>6. Holds(c)'
    BY <2>1, <2>2, <2>4, <2>5 DEF Goes, Holds
  <2>7. QED
    BY <1>a, <2>1, <2>2, <2>3, <2>6 DEF Typed
<1>13. ASSUME NEW c \in Calls, WriteRank(c) PROVE Typed'
  <2> DEFINE i == call[c].ranked + 1
             s == [call[c] EXCEPT !.ranked = i]
             n == Cardinality(Users)
  <2>1. /\ i \in 1..n
        /\ \/ i = n /\ Goes(c, Idle("done"))
           \/ i # n /\ Goes(c, s)
    BY <1>13, WriteRankGoes
  <2>2. /\ UNCHANGED <<assignment, row, raced, rating, stale, scheduled, result>>
        /\ call[c].pc = "ranking" /\ call[c] \in CallType /\ Holds(c)
    BY <1>13 DEF WriteRank, coursework, exams, Typed, TypeOK, Holding
  <2>3. /\ call[c].list \in SetToSeqs(Users)
        /\ call[c].list \in [1..n -> Users] /\ n \in Nat
    BY <2>2, Lists DEF Holds
  <2>4. rank' \in [Users -> Nat] /\ ranker' \in Calls \cup {None}
    BY <1>13, <2>1, <2>3 DEF WriteRank, Typed, TypeOK
  <2>5. TypeOK'
    BY <2>1, <2>2, <2>4 DEF Goes, Typed, TypeOK
  <2>6. s.pc = "ranking" /\ s.list = call[c].list /\ s.ranked = i
    BY <2>2 DEF CallType
  <2>7. CASE Goes(c, Idle("done"))
    <3>1. Holds(c)'
      BY <2>2, <2>7 DEF Goes, Holds, Idle
    <3>2. QED
      BY <1>a, <2>2, <2>5, <2>7, <3>1 DEF Typed
  <2>8. CASE Goes(c, s)
    <3>1. call'[c].pc = "ranking" /\ call'[c].list = call[c].list /\ call'[c].ranked = i
      BY <2>6, <2>8 DEF Goes
    <3>2. Holds(c)'
      BY <2>1, <2>2, <2>3, <3>1 DEF Holds
    <3>3. QED
      BY <1>a, <2>2, <2>5, <2>8, <3>2 DEF Typed
  <2>9. QED
    BY <2>1, <2>7, <2>8
<1>14. ASSUME NEW c \in Calls, NEW who \in Sheets,
              CheckSheet(c, who)
       PROVE  Typed'
  <2> DEFINE s == [call[c] EXCEPT !.pc = "sheet", !.sheet = who]
  <2>1. Goes(c, s) /\ call[c] \in CallType /\ Holds(c)
    BY <1>14, CheckSheetGoes DEF Typed, TypeOK, Holding
  <2>2. UNCHANGED <<assignment, row, raced, rating, rank, stale, ranker,
                    scheduled, result>>
    BY <1>14 DEF CheckSheet, coursework, ratings, exams
  <2>3. TypeOK'
    BY <2>1, <2>2 DEF Goes, Typed, TypeOK
  <2>4. s.pc = "sheet"
    BY <2>1 DEF CallType
  <2>5. Holds(c)'
    BY <2>1, <2>2, <2>4 DEF Goes, Holds
  <2>6. QED
    BY <1>a, <2>1, <2>2, <2>3, <2>5 DEF Typed
<1>15. ASSUME NEW c \in Calls, CommitSheet(c) PROVE Typed'
  <2>1. PICK pc \in {"done", "dead"} : Goes(c, Idle(pc))
    BY <1>15, IdleGoes DEF CommitSheet, Finish
  <2>2. /\ UNCHANGED <<assignment, row, raced, rating, rank, stale, ranker, scheduled>>
        /\ call[c].pc = "sheet" /\ Holds(c)
    BY <1>15 DEF CommitSheet, coursework, ratings, Typed, Holding
  <2>3. result' \in [Students -> Calls \cup {None}]
    BY <1>15 DEF CommitSheet, Typed, TypeOK
  <2>4. TypeOK'
    BY <2>1, <2>2, <2>3 DEF Goes, Typed, TypeOK
  <2>5. Holds(c)'
    BY <2>1, <2>2 DEF Goes, Holds, Idle
  <2>6. QED
    BY <1>a, <2>1, <2>2, <2>4, <2>5 DEF Typed
<1>16. ASSUME NEW c \in Calls, Abandon(c) PROVE Typed'
  <2>1. Goes(c, Idle("dead")) /\ Holds(c)
    BY <1>16, IdleGoes DEF Abandon, Finish, Typed, Holding
  <2>2. UNCHANGED <<assignment, row, raced, rating, rank, ranker, scheduled, result>>
    BY <1>16 DEF Abandon, coursework, exams
  <2>3. stale' \subseteq Users
    BY <1>16 DEF Abandon, Typed, TypeOK
  <2>4. TypeOK'
    BY <2>1, <2>2, <2>3 DEF Goes, Typed, TypeOK
  <2>5. Holds(c)'
    BY <2>1, <2>2 DEF Goes, Holds, Idle
  <2>6. QED
    BY <1>a, <2>1, <2>2, <2>4, <2>5 DEF Typed
<1>17. CASE UNCHANGED vars
  BY <1>1, <1>17 DEF vars, Typed, TypeOK
<1>18. QED
  BY <1>2, <1>3, <1>4, <1>5, <1>6, <1>7, <1>8, <1>9, <1>10, <1>11, <1>12, <1>13,
     <1>14, <1>15, <1>16, <1>17 DEF Next

-----------------------------------------------------------------------------
(* One submission                                                          *)

\* Only the check lets a call lay claim to a submission.
LEMMA ClaimArises ==
  ASSUME Typed, [Next]_vars, NEW c \in Calls, NEW u \in Students,
         NEW a \in Assignments, Claims(c, u, a)', ~ CheckSubmit(c, u, a)
  PROVE  Claims(c, u, a)
<1>1. call \in [Calls -> CallType] /\ row \in [Calls -> RowType]
  BY DEF Typed, TypeOK
<1>2. CASE row'[c].student = u /\ row'[c].of = a
  <2>1. CASE row'[c].student = row[c].student /\ row'[c].of = row[c].of
    BY <1>2, <2>1 DEF Claims
  <2>2. CASE CreateSubmission(c)
    BY <1>1, <1>2, <2>2 DEF CreateSubmission, Claims
  <2>3. ASSUME NEW d \in Calls, WriteMarks(d)
        PROVE  row'[c].student = row[c].student /\ row'[c].of = row[c].of
    BY <1>1, <2>3 DEF WriteMarks, RowType
  <2>4. ASSUME NEW d \in Calls, d # c, CreateSubmission(d)
        PROVE  row'[c] = row[c]
    BY <1>1, <2>4 DEF CreateSubmission
  <2>5. ASSUME NEW d \in Calls,
               ReadMarks(d) \/ WriteRating(d) \/ ReadRanking(d) \/ WriteRank(d)
        PROVE  row' = row
    BY <2>5 DEF ReadMarks, WriteRating, ReadRanking, WriteRank, coursework
  <2>6. ASSUME NEW d \in Calls, CommitSheet(d) \/ Abandon(d)
        PROVE  row' = row
    BY <2>6 DEF CommitSheet, Abandon, coursework
  <2>7. ASSUME NEW d \in Calls, NEW v \in Students, NEW b \in Assignments,
               CheckSubmit(d, v, b)
        PROVE  row' = row
    BY <2>7 DEF CheckSubmit
  <2>8. ASSUME NEW d \in Calls, NEW r \in Calls, NEW m \in Marks, CheckGrade(d, r, m)
        PROVE  row' = row
    BY <2>8 DEF CheckGrade, coursework
  <2>9. ASSUME NEW d \in Calls, NEW who, CheckSheet(d, who)
        PROVE  row' = row
    BY <2>9 DEF CheckSheet, coursework
  <2>10. QED
    BY <2>1, <2>2, <2>3, <2>4, <2>5, <2>6, <2>7, <2>8, <2>9
       DEF Next, vars, coursework, CreateAssignment, CreateAssignmentGroup,
           PassDueDate, ScheduleExam
<1>3. CASE call'[c].pc = "submitting" /\ call'[c].student = u /\ call'[c].of = a
  <2>1. CASE call'[c] = call[c]
    BY <1>3, <2>1 DEF Claims
  <2>2. ASSUME NEW d \in Calls, NEW v \in Students, NEW b \in Assignments,
               CheckSubmit(d, v, b), call'[c] # call[c]
        PROVE  FALSE
    <3>1. Goes(d, [call[d] EXCEPT !.pc = "submitting", !.student = v, !.of = b])
      BY <2>2, CheckSubmitGoes
    <3>2. d = c
      BY <2>2, <3>1 DEF Goes
    <3>3. call'[c].student = v /\ call'[c].of = b
      BY <1>1, <3>1, <3>2 DEF Goes, CallType
    <3>4. QED
      BY <1>3, <2>2, <3>2, <3>3
  <2>3. ASSUME NEW d \in Calls, NEW s, Goes(d, s), s.pc # "submitting"
        PROVE  call'[c] = call[c]
    BY <1>3, <2>3 DEF Goes
  <2>4. ASSUME NEW d \in Calls, NEW pc \in {"rated", "done", "dead"},
               call' = [call EXCEPT ![d] = Idle(pc)]
        PROVE  call'[c] = call[c]
    BY <2>3, <2>4, IdleGoes DEF Idle
  <2>5. ASSUME NEW d \in Calls, NEW r \in Calls, NEW m \in Marks, CheckGrade(d, r, m)
        PROVE  call'[c] = call[c]
    BY <1>1, <1>3, <2>5 DEF CheckGrade, CallType
  <2>6. ASSUME NEW d \in Calls,
               WriteMarks(d) \/ ReadMarks(d) \/ ReadRanking(d) \/ WriteRank(d)
        PROVE  call'[c] = call[c]
    BY <1>1, <1>3, <2>6 DEF WriteMarks, ReadMarks, ReadRanking, WriteRank, Step, Idle,
       CallType
  <2>7. ASSUME NEW d \in Calls, NEW who, CheckSheet(d, who)
        PROVE  call'[c] = call[c]
    BY <1>1, <1>3, <2>7 DEF CheckSheet, CallType
  <2>8. ASSUME NEW d \in Calls,
               CreateSubmission(d) \/ WriteRating(d) \/ CommitSheet(d) \/ Abandon(d)
        PROVE  call'[c] = call[c]
    BY <2>4, <2>8 DEF CreateSubmission, WriteRating, CommitSheet, Abandon, Finish
  <2>9. QED
    BY <2>1, <2>2, <2>5, <2>6, <2>7, <2>8
       DEF Next, vars, CreateAssignment, CreateAssignmentGroup, PassDueDate,
           ScheduleExam
<1>4. QED
  BY <1>2, <1>3 DEF Claims

\* A second claim to a student's submission is recorded as a race.
LEMMA SingleNext == Typed /\ Single /\ [Next]_vars => Single'
<1> SUFFICES ASSUME Typed, Single, [Next]_vars,
                    NEW u \in Students, NEW a \in Assignments, <<u, a>> \notin raced',
                    NEW c \in Calls, NEW d \in Calls,
                    Claims(c, u, a)', Claims(d, u, a)', c # d
             PROVE  FALSE
  BY DEF Single
<1>1. raced \subseteq raced'
  <2>1. ASSUME NEW e \in Calls, NEW v \in Students, NEW b \in Assignments,
               CheckSubmit(e, v, b)
        PROVE  raced \subseteq raced'
    BY <2>1 DEF CheckSubmit
  <2>2. ASSUME NEW e \in Calls, NEW r \in Calls, NEW m \in Marks, CheckGrade(e, r, m)
        PROVE  raced' = raced
    BY <2>2 DEF CheckGrade, coursework
  <2>3. ASSUME NEW e \in Calls,
               CreateSubmission(e) \/ WriteMarks(e) \/ ReadMarks(e) \/ WriteRating(e)
        PROVE  raced' = raced
    BY <2>3 DEF CreateSubmission, WriteMarks, ReadMarks, WriteRating, coursework
  <2>4. ASSUME NEW e \in Calls,
               ReadRanking(e) \/ WriteRank(e) \/ CommitSheet(e) \/ Abandon(e)
        PROVE  raced' = raced
    BY <2>4 DEF ReadRanking, WriteRank, CommitSheet, Abandon, coursework
  <2>5. ASSUME NEW e \in Calls, NEW who, CheckSheet(e, who)
        PROVE  raced' = raced
    BY <2>5 DEF CheckSheet, coursework
  <2>6. QED
    BY <2>1, <2>2, <2>3, <2>4, <2>5
       DEF Next, vars, coursework, CreateAssignment, CreateAssignmentGroup,
           PassDueDate, ScheduleExam
<1>2. ASSUME NEW e \in Calls, NEW f \in Calls, CheckSubmit(e, u, a), e # f,
             Claims(f, u, a)'
      PROVE  FALSE
  <2>1. Claims(f, u, a)
    <3>1. ~ CheckSubmit(f, u, a)
      BY <1>2 DEF CheckSubmit, Typed, TypeOK, CallType
    <3>2. QED
      BY <1>2, <3>1, ClaimArises
  <2>2. call[f].pc = "submitting" /\ call[f].student = u /\ call[f].of = a
    BY <1>2, <2>1 DEF Claims, CheckSubmit, Submittable, Submissions
  <2>3. <<u, a>> \in raced'
    BY <1>2, <2>2 DEF CheckSubmit
  <2>4. QED
    BY <2>3
<1>3. Claims(c, u, a) /\ Claims(d, u, a)
  BY <1>2, ClaimArises
<1>4. QED
  BY <1>1, <1>3 DEF Single

-----------------------------------------------------------------------------
(* Ranks                                                                   *)

\* Ranks and the ranking call untouched, the ranking is what it was.
LEMMA RankingStays ==
  ASSUME Ranking, UNCHANGED <<ranker, rating, rank>>,
         ranker # None => call'[ranker] = call[ranker]
  PROVE  Ranking'
<1>1. \A list, n : Placed(list, n)' <=> Placed(list, n)
  BY DEF Placed, Sorted
<1>2. QED
  BY <1>1 DEF Ranking

\* A call that is not yet ranking moves on without the ranks.
LEMMA RankingPassed ==
  ASSUME Typed, Ranking, UNCHANGED <<ranker, rating, rank>>,
         NEW c \in Calls, call[c].pc \notin {"ranking", "done", "dead"},
         NEW s, Goes(c, s)
  PROVE  Ranking'
<1>1. ranker # None => ranker \in Calls /\ ranker # c
  BY DEF Ranking, Typed, TypeOK
<1>2. QED
  BY <1>1, RankingStays DEF Goes

\* Each rank is written in its turn, and a later rating ends the claim.
LEMMA RankingNext == Typed /\ Ranking /\ [Next]_vars => Ranking'
<1> SUFFICES ASSUME Typed, Ranking, [Next]_vars PROVE Ranking'
  OBVIOUS
<1>1. CASE UNCHANGED <<ranker, rating, rank, call>>
  BY <1>1, RankingStays
<1>2. ASSUME NEW c \in Calls, NEW u \in Students, NEW a \in Assignments,
             CheckSubmit(c, u, a)
      PROVE  Ranking'
  BY <1>2, CheckSubmitGoes, RankingPassed DEF CheckSubmit, ratings
<1>3. ASSUME NEW c \in Calls, CreateSubmission(c) PROVE Ranking'
  BY <1>3, IdleGoes, RankingPassed DEF CreateSubmission, Finish, ratings
<1>4. ASSUME NEW c \in Calls, NEW r \in Calls, NEW m \in Marks, CheckGrade(c, r, m)
      PROVE  Ranking'
  BY <1>4, CheckGradeGoes, RankingPassed DEF CheckGrade, ratings
<1>5. ASSUME NEW c \in Calls, WriteMarks(c) PROVE Ranking'
  BY <1>5, WriteMarksGoes, RankingPassed DEF WriteMarks
<1>6. ASSUME NEW c \in Calls, ReadMarks(c) PROVE Ranking'
  BY <1>6, ReadMarksGoes, RankingPassed DEF ReadMarks, ratings
<1>7. ASSUME NEW c \in Calls, WriteRating(c) PROVE Ranking'
  BY <1>7 DEF WriteRating, Ranking
<1>8. ASSUME NEW c \in Calls, ReadRanking(c) PROVE Ranking'
  <2>1. PICK list \in SetToSeqs(Users) :
          Sorted(list) /\ Goes(c, [call[c] EXCEPT !.pc = "ranking", !.list = list])
    BY <1>8, ReadRankingGoes
  <2>2. /\ call[c] \in CallType /\ call[c].ranked = 0 /\ ranker' = c
        /\ UNCHANGED <<rating, rank>>
    BY <1>8 DEF ReadRanking, Typed, TypeOK, Holding, Holds
  <2>3. call'[c].pc = "ranking" /\ call'[c].list = list /\ call'[c].ranked = 0
    BY <2>1, <2>2 DEF Goes, CallType
  <2>4. Placed(list, 0)'
    BY <2>1, <2>2 DEF Placed, Sorted
  <2>5. QED
    BY <2>2, <2>3, <2>4 DEF Ranking
<1>9. ASSUME NEW c \in Calls, WriteRank(c) PROVE Ranking'
  <2>1. CASE ranker # c
    BY <1>9, <2>1 DEF WriteRank, Ranking
  <2>2. CASE ranker = c
    <3> DEFINE n == Cardinality(Users)
    <3>a. PICK list, i : list = call[c].list /\ i = call[c].ranked + 1
      OBVIOUS
    <3>1. /\ call[c].pc = "ranking" /\ UNCHANGED rating /\ ranker' = c
          /\ rank' = [rank EXCEPT ![list[i]] = i]
          /\ c # None /\ call[c] \in CallType
      BY <1>9, <2>2, <3>a, CourseworkAssumption DEF WriteRank, Typed, TypeOK
    <3>2. Placed(list, call[c].ranked) /\ call[c].ranked \in 0..n
      BY <2>2, <3>a, <3>1 DEF Ranking, Typed, Holding, Holds
    <3>3. /\ list \in [1..n -> Users] /\ n \in Nat
          /\ \A j, k \in 1..n : j # k => list[j] # list[k]
      BY <3>2, Lists DEF Placed
    <3>4. i \in 1..n /\ (\/ i = n /\ Goes(c, Idle("done"))
                         \/ i # n /\ Goes(c, [call[c] EXCEPT !.ranked = i]))
      BY <1>9, <3>a, WriteRankGoes
    <3> HIDE DEF n
    <3>5. \A j \in 1..i : rank'[list[j]] = j
      <4>1. rank'[list[i]] = i
        BY <3>1, <3>3, <3>4 DEF Typed, TypeOK
      <4>2. ASSUME NEW j \in 1..(i - 1) PROVE rank'[list[j]] = j
        <5>1. j \in 1..n /\ j # i /\ rank[list[j]] = j
          BY <3>a, <3>2, <3>3, <3>4, <4>2 DEF Placed
        <5>2. list[j] # list[i] /\ list[j] \in Users
          BY <3>3, <3>4, <5>1
        <5>3. QED
          BY <3>1, <5>1, <5>2 DEF Typed, TypeOK
      <4>3. QED
        BY <3>4, <4>1, <4>2
    <3>6. Placed(list, i)'
      <4>1. Sorted(list)'
        BY <3>1, <3>2 DEF Placed, Sorted
      <4>2. \A j \in 1..i : rank'[list[j]] = j
        BY <3>5
      <4>3. QED
        BY <3>2, <4>1, <4>2 DEF Placed
    <3>7. CASE i = n
      <4>1. call'[c].pc = "done"
        BY <3>4, <3>7 DEF Goes, Idle
      <4>2. QED
        BY <3>1, <3>2, <3>6, <3>7, <4>1 DEF Ranking, Placed, n
    <3>8. CASE i # n
      <4>1. call'[c].pc = "ranking" /\ call'[c].list = list /\ call'[c].ranked = i
        BY <3>a, <3>1, <3>4, <3>8 DEF Goes, CallType
      <4>2. QED
        BY <3>1, <3>6, <4>1 DEF Ranking
    <3>9. QED
      BY <3>7, <3>8
  <2>3. QED
    BY <2>1, <2>2
<1>10. ASSUME NEW c \in Calls, NEW who \in Sheets,
              CheckSheet(c, who)
       PROVE  Ranking'
  BY <1>10, CheckSheetGoes, RankingPassed DEF CheckSheet, ratings
<1>11. ASSUME NEW c \in Calls, CommitSheet(c) PROVE Ranking'
  <2>1. PICK pc \in {"done", "dead"} : Goes(c, Idle(pc))
    BY <1>11, IdleGoes DEF CommitSheet, Finish
  <2>2. QED
    BY <1>11, <2>1, RankingPassed DEF CommitSheet, ratings
<1>12. ASSUME NEW c \in Calls, Abandon(c) PROVE Ranking'
  <2>1. Goes(c, Idle("dead")) /\ UNCHANGED <<ranker, rating, rank>>
    BY <1>12, IdleGoes DEF Abandon, Finish
  <2>2. CASE ranker = c
    BY <2>1, <2>2 DEF Goes, Idle, Ranking
  <2>3. CASE ranker # c
    BY <2>1, <2>3, RankingStays DEF Goes, Typed, TypeOK
  <2>4. QED
    BY <2>2, <2>3
<1>13. QED
  BY <1>1, <1>2, <1>3, <1>4, <1>5, <1>6, <1>7, <1>8, <1>9, <1>10, <1>11, <1>12
     DEF Next, vars, CreateAssignment, CreateAssignmentGroup, PassDueDate,
         ScheduleExam, ratings

\* A list of all users ranks every one of them once.
LEMMA RanksOfList ==
  ASSUME Typed, NEW list \in SetToSeqs(Users), Placed(list, Cardinality(Users))
  PROVE  /\ {rank[u] : u \in Users} = 1 .. Cardinality(Users)
         /\ \A u, v \in Users : rank[u] < rank[v] => AtLeast(rating[u], rating[v])
<1> DEFINE n == Cardinality(Users)
<1>1. /\ list \in [1..n -> Users] /\ Len(list) = n /\ n \in Nat
      /\ \A i, j \in 1..n : i # j => list[i] # list[j]
  BY Lists
<1>2. \A u \in Users : \E i \in 1..n : list[i] = u
  <2>1. list \in Injection(1..n, Users)
    BY <1>1 DEF Injection, IsInjective
  <2>2. Cardinality(1..n) = n
    BY <1>1, FS_Interval
  <2>3. list \in Surjection(1..n, Users)
    BY <2>1, <2>2, FS_Injection, CourseworkAssumption
  <2>4. QED
    BY <2>3 DEF Surjection
<1>3. \A i \in 1..n : rank[list[i]] = i
  BY DEF Placed
<1>4. {rank[u] : u \in Users} = 1..n
  BY <1>1, <1>2, <1>3
<1>5. ASSUME NEW u \in Users, NEW v \in Users, rank[u] < rank[v]
      PROVE  AtLeast(rating[u], rating[v])
  <2>1. PICK i \in 1..n, j \in 1..n : list[i] = u /\ list[j] = v
    BY <1>2
  <2>2. i < j
    BY <1>3, <1>5, <2>1
  <2>3. QED
    BY <1>1, <2>1, <2>2 DEF Placed, Sorted
<1>6. QED
  BY <1>4, <1>5

-----------------------------------------------------------------------------
(* Ratings                                                                 *)

\* The average follows from the marked rows of the user.
LEMMA AverageStays ==
  ASSUME Typed, Typed', NEW u \in Users,
         \A r \in Owned(u) : row'[r] = row[r],
         \A r \in Owned(u)' : r \in Owned(u) \/ row'[r].marks = None
  PROVE  Average(u)' = Average(u)
<1>1. Owned(u) \subseteq Owned(u)'
  BY DEF Owned
<1>2. Counted(u)' = Counted(u)
  BY <1>1 DEF Counted
<1>3. \A c \in Counted(u) : row'[c] = row[c]
  BY DEF Counted
<1>4. [c \in Counted(u) |-> Percentage(c)]' = [c \in Counted(u) |-> Percentage(c)]
  BY <1>2, <1>3 DEF Percentage
<1>5. QED
  BY <1>2, <1>4 DEF Average, MeanOf

\* What is rated of a student after a step that leaves his rows alone, of a
\* call that does not rate him.
LEMMA UpToDateStays ==
  ASSUME Typed, Typed', NEW u \in Users, UpToDate(u),
         rating'[u] = rating[u], Average(u)' = Average(u),
         \A d \in Calls : call'[d] = call[d] \/ d \notin Rating(u) \cup Rating(u)'
  PROVE  UpToDate(u)'
<1>1. Rating(u)' = Rating(u) /\ \A d \in Rating(u) : call'[d] = call[d]
  BY DEF Rating
<1>2. QED
  BY <1>1 DEF UpToDate

\* A call outside the rating goes on outside it.
LEMMA AveragedPassed ==
  ASSUME Typed, Typed', Averaged, UNCHANGED <<rating, stale>>,
         \A u \in Users \ stale : Average(u)' = Average(u),
         NEW c \in Calls, NEW s, Goes(c, s),
         {call[c].pc, s.pc} \cap {"marked", "averaged"} = {}
  PROVE  Averaged'
<1> SUFFICES ASSUME NEW u \in Users \ stale PROVE UpToDate(u)'
  BY DEF Averaged
<1>1. \A d \in Calls : call'[d] = call[d] \/ d \notin Rating(u) \cup Rating(u)'
  BY DEF Goes, Rating
<1>2. QED
  BY <1>1, UpToDateStays DEF Averaged

\* A rating that misses a mark is one that a race has made stale.
LEMMA AveragedNext == Typed /\ Averaged /\ [Next]_vars => Averaged'
<1> SUFFICES ASSUME Typed, Averaged, [Next]_vars PROVE Averaged'
  OBVIOUS
<1>t. Typed'
  BY TypedNext
<1>r. UNCHANGED row => \A u \in Users : Average(u)' = Average(u)
  <2>1. UNCHANGED row => \A u \in Users : Owned(u)' = Owned(u)
    BY DEF Owned
  <2>2. QED
    BY <1>t, <2>1, AverageStays
<1>1. CASE UNCHANGED <<row, rating, stale, call>>
  BY <1>1, <1>t, <1>r, UpToDateStays DEF Averaged
<1>2. ASSUME NEW c \in Calls, NEW u \in Students, NEW a \in Assignments,
             CheckSubmit(c, u, a)
      PROVE  Averaged'
  <2> DEFINE s == [call[c] EXCEPT !.pc = "submitting", !.student = u, !.of = a]
  <2>1. Goes(c, s) /\ s.pc = "submitting"
    BY <1>2, CheckSubmitGoes DEF Typed, TypeOK, CallType
  <2> HIDE DEF s
  <2>2. QED
    BY <1>2, <1>t, <1>r, <2>1, AveragedPassed DEF CheckSubmit, ratings
<1>3. ASSUME NEW c \in Calls, CreateSubmission(c) PROVE Averaged'
  <2>1. Goes(c, Idle("done")) /\ Holds(c) /\ call[c].pc = "submitting"
    BY <1>3, IdleGoes DEF CreateSubmission, Finish, Typed, Holding
  <2>2. /\ row[c] = Absent /\ row'[c].marks = None
        /\ \A r \in Calls : r # c => row'[r] = row[r]
    BY <1>3, <2>1 DEF CreateSubmission, Typed, TypeOK, Holds
  <2>3. ASSUME NEW u \in Users PROVE Average(u)' = Average(u)
    <3>1. \A r \in Owned(u) : row'[r] = row[r]
      BY <2>2 DEF Owned
    <3>2. \A r \in Owned(u)' : r \in Owned(u) \/ row'[r].marks = None
      BY <2>2 DEF Owned
    <3>3. QED
      BY <1>t, <3>1, <3>2, AverageStays
  <2>4. QED
    BY <1>3, <1>t, <2>1, <2>3, AveragedPassed DEF CreateSubmission, ratings, Idle
<1>4. ASSUME NEW c \in Calls, NEW r \in Calls, NEW m \in Marks, CheckGrade(c, r, m)
      PROVE  Averaged'
  <2> DEFINE s == [call[c] EXCEPT !.pc = "grading", !.student = row[r].student,
                                  !.of = r, !.marks = m]
  <2>1. Goes(c, s) /\ s.pc = "grading"
    BY <1>4, CheckGradeGoes DEF Typed, TypeOK, CallType
  <2> HIDE DEF s
  <2>2. QED
    BY <1>4, <1>t, <1>r, <2>1, AveragedPassed DEF CheckGrade, coursework, ratings
<1>5. ASSUME NEW c \in Calls, WriteMarks(c) PROVE Averaged'
  <2>1. PICK v \in Users : call[c].student \in Students /\ v = UserOf[call[c].student]
    BY <1>5, CourseworkAssumption DEF WriteMarks, Typed, Holding, Holds
  <2>2. /\ Goes(c, [call[c] EXCEPT !.pc = "marked"])
        /\ call[c] \in CallType /\ call[c].pc = "grading" /\ UNCHANGED rating
        /\ stale \subseteq stale' /\ (Rating(v) # {} => v \in stale')
    BY <1>5, <2>1, WriteMarksGoes DEF WriteMarks, Typed, TypeOK
  <2>3. call'[c].pc = "marked" /\ UserOf[call'[c].student] = v
    BY <2>1, <2>2 DEF Goes, CallType
  <2>4. ASSUME NEW u \in Users \ stale', u # v PROVE UpToDate(u)'
    <3>1. \A d \in Calls :
            call'[d] = call[d] \/ d \notin Rating(u) \cup Rating(u)'
      BY <2>1, <2>2, <2>3, <2>4 DEF Goes, Rating
    <3>2. \A r \in Calls : row'[r] = row[r]
                            \/ (UserOf[row[r].student] = v /\ UserOf[row'[r].student] = v)
      <4>1. /\ call[c].of \in Calls /\ UserOf[row[call[c].of].student] = v
            /\ row[call[c].of] \in RowType
        BY <2>1, <2>2 DEF Typed, TypeOK, Holding, Holds
      <4>2. QED
        BY <1>5, <4>1 DEF WriteMarks, RowType, Typed, TypeOK
    <3>3. Average(u)' = Average(u)
      <4>1. \A r \in Owned(u) : row'[r] = row[r]
        BY <2>4, <3>2 DEF Owned
      <4>2. \A r \in Owned(u)' : r \in Owned(u)
        BY <2>4, <3>2 DEF Owned
      <4>3. QED
        BY <1>t, <4>1, <4>2, AverageStays
    <3>4. UpToDate(u)
      BY <2>2 DEF Averaged
    <3>5. QED
      BY <1>t, <2>2, <3>1, <3>3, <3>4, UpToDateStays
  <2>5. ASSUME v \notin stale' PROVE UpToDate(v)'
    <3>1. Rating(v) = {}
      BY <2>2, <2>5
    <3>2. \A d \in Calls : d # c => d \notin Rating(v)'
      BY <2>2, <3>1 DEF Rating, Goes
    <3>3. Rating(v)' = {c}
      BY <2>3, <3>2 DEF Rating
    <3>4. QED
      BY <2>3, <3>3 DEF UpToDate
  <2>6. QED
    BY <2>4, <2>5 DEF Averaged
<1>6. ASSUME NEW c \in Calls, ReadMarks(c) PROVE Averaged'
  <2>1. PICK v \in Users : v = UserOf[call[c].student]
    BY <1>6, CourseworkAssumption DEF ReadMarks, Typed, Holding, Holds
  <2>2. /\ Goes(c, [call[c] EXCEPT !.pc = "averaged", !.of = None,
                                   !.average = Average(UserOf[call[c].student])])
        /\ call[c] \in CallType /\ call[c].pc = "marked"
        /\ UNCHANGED <<rating, stale, row>>
    BY <1>6, ReadMarksGoes DEF ReadMarks, coursework, ratings, Typed, TypeOK
  <2>3. /\ call'[c].pc = "averaged" /\ UserOf[call'[c].student] = v
        /\ call'[c].average = Average(v)
    BY <2>1, <2>2 DEF Goes, CallType
  <2>4. ASSUME NEW u \in Users \ stale, u # v PROVE UpToDate(u)'
    <3>1. \A d \in Calls :
            call'[d] = call[d] \/ d \notin Rating(u) \cup Rating(u)'
      BY <2>1, <2>2, <2>3, <2>4 DEF Goes, Rating
    <3>2. QED
      BY <1>t, <1>r, <2>2, <3>1, UpToDateStays DEF Averaged
  <2>5. ASSUME v \notin stale PROVE UpToDate(v)'
    <3>1. UpToDate(v) /\ c \in Rating(v)
      BY <2>1, <2>2, <2>5 DEF Averaged, Rating
    <3>2. Rating(v) = {c}
      BY <3>1 DEF UpToDate
    <3>3. Rating(v)' = {c}
      BY <2>2, <2>3, <3>2 DEF Rating, Goes
    <3>4. QED
      BY <1>r, <2>2, <2>3, <3>3 DEF UpToDate
  <2>6. QED
    BY <2>2, <2>4, <2>5 DEF Averaged
<1>7. ASSUME NEW c \in Calls, WriteRating(c) PROVE Averaged'
  <2>1. PICK v \in Users : v = UserOf[call[c].student]
    BY <1>7, CourseworkAssumption DEF WriteRating, Typed, Holding, Holds
  <2>2. /\ Goes(c, Idle("rated")) /\ call[c].pc = "averaged" /\ UNCHANGED <<stale, row>>
        /\ rating' = [rating EXCEPT ![v] = call[c].average]
    BY <1>7, <2>1, IdleGoes DEF WriteRating, coursework
  <2>3. call'[c].pc = "rated"
    BY <2>2 DEF Goes, Idle
  <2>4. ASSUME NEW u \in Users \ stale, u # v PROVE UpToDate(u)'
    <3>1. \A d \in Calls :
            call'[d] = call[d] \/ d \notin Rating(u) \cup Rating(u)'
      BY <2>1, <2>2, <2>3, <2>4 DEF Goes, Rating
    <3>2. rating'[u] = rating[u]
      BY <2>2, <2>4 DEF Typed, TypeOK
    <3>3. QED
      BY <1>t, <1>r, <2>2, <3>1, <3>2, UpToDateStays DEF Averaged
  <2>5. ASSUME v \notin stale PROVE UpToDate(v)'
    <3>1. UpToDate(v) /\ c \in Rating(v)
      BY <2>1, <2>2, <2>5 DEF Averaged, Rating
    <3>2. Rating(v) = {c} /\ call[c].average = Average(v)
      BY <2>2, <3>1 DEF UpToDate
    <3>3. Rating(v)' = {}
      BY <2>2, <2>3, <3>2 DEF Rating, Goes
    <3>4. rating'[v] = Average(v)
      BY <2>2, <3>2 DEF Typed, TypeOK
    <3>5. QED
      BY <1>r, <2>2, <3>3, <3>4 DEF UpToDate
  <2>6. QED
    BY <2>2, <2>4, <2>5 DEF Averaged
<1>8. ASSUME NEW c \in Calls, ReadRanking(c) PROVE Averaged'
  <2>1. PICK list \in SetToSeqs(Users) :
          Goes(c, [call[c] EXCEPT !.pc = "ranking", !.list = list])
    BY <1>8, ReadRankingGoes
  <2> DEFINE s == [call[c] EXCEPT !.pc = "ranking", !.list = list]
  <2>2. Goes(c, s) /\ s.pc = "ranking"
    BY <2>1 DEF Typed, TypeOK, CallType
  <2> HIDE DEF s
  <2>3. QED
    BY <1>8, <1>t, <1>r, <2>2, AveragedPassed DEF ReadRanking, coursework
<1>9. ASSUME NEW c \in Calls, WriteRank(c) PROVE Averaged'
  <2>1. PICK s : Goes(c, s) /\ s.pc \in {"done", "ranking"}
    <3>1. call[c] \in CallType /\ call[c].pc = "ranking"
      BY <1>9 DEF WriteRank, Typed, TypeOK
    <3>2. CASE Goes(c, Idle("done"))
      BY <3>2 DEF Idle
    <3>3. CASE Goes(c, [call[c] EXCEPT !.ranked = call[c].ranked + 1])
      BY <3>1, <3>3 DEF CallType
    <3>4. QED
      BY <1>9, <3>2, <3>3, WriteRankGoes
  <2>2. QED
    BY <1>9, <1>t, <1>r, <2>1, AveragedPassed DEF WriteRank, coursework
<1>10. ASSUME NEW c \in Calls, NEW who \in Sheets,
              CheckSheet(c, who)
       PROVE  Averaged'
  <2> DEFINE s == [call[c] EXCEPT !.pc = "sheet", !.sheet = who]
  <2>1. Goes(c, s) /\ s.pc = "sheet"
    BY <1>10, CheckSheetGoes DEF Typed, TypeOK, CallType
  <2> HIDE DEF s
  <2>2. QED
    BY <1>10, <1>t, <1>r, <2>1, AveragedPassed DEF CheckSheet, coursework, ratings
<1>11. ASSUME NEW c \in Calls, CommitSheet(c) PROVE Averaged'
  <2>1. PICK pc \in {"done", "dead"} : Goes(c, Idle(pc))
    BY <1>11, IdleGoes DEF CommitSheet, Finish
  <2>2. QED
    BY <1>11, <1>t, <1>r, <2>1, AveragedPassed
    DEF CommitSheet, coursework, ratings, Idle
<1>12. ASSUME NEW c \in Calls, Abandon(c) PROVE Averaged'
  <2>1. /\ Goes(c, Idle("dead")) /\ UNCHANGED <<row, rating>>
        /\ stale' = stale \cup {u \in Users : c \in Rating(u)}
    BY <1>12, IdleGoes DEF Abandon, Finish, coursework
  <2>2. call'[c].pc = "dead"
    BY <2>1 DEF Goes, Idle
  <2>3. ASSUME NEW u \in Users \ stale' PROVE UpToDate(u)'
    <3>1. c \notin Rating(u) /\ u \notin stale
      BY <2>1, <2>3
    <3>2. \A d \in Calls :
            call'[d] = call[d] \/ d \notin Rating(u) \cup Rating(u)'
      BY <2>1, <2>2, <3>1 DEF Goes, Rating
    <3>3. QED
      BY <1>t, <1>r, <2>1, <3>1, <3>2, UpToDateStays DEF Averaged
  <2>4. QED
    BY <2>3 DEF Averaged
<1>13. QED
  BY <1>1, <1>2, <1>3, <1>4, <1>5, <1>6, <1>7, <1>8, <1>9, <1>10, <1>11, <1>12
     DEF Next, vars, CreateAssignment, CreateAssignmentGroup, PassDueDate,
         ScheduleExam, ratings, coursework

-----------------------------------------------------------------------------
(* What the lists show                                                     *)

\* Rounding, to the nearest, moves a fraction by half of one at most.
LEMMA RoundingIsClose ==
  ASSUME NEW n \in Int, NEW d \in Nat \ {0}
  PROVE  /\ Rounded(n, d) \in Int
         /\ 2 * d * Rounded(n, d) =< 2 * n + d
         /\ 2 * n < 2 * d * Rounded(n, d) + d
<1> DEFINE q == Rounded(n, d)
<1>1. q = (2 * n + d) \div (2 * d)
  BY DEF Rounded
<1>2. 2 * n + d \in Int /\ 2 * d \in Nat \ {0}
  OBVIOUS
<1>3. q \in Int /\ (2 * d) * q =< 2 * n + d /\ 2 * n + d < (2 * d) * q + 2 * d
  <2>1. PICK a \in Int, b \in Nat \ {0} : a = 2 * n + d /\ b = 2 * d
    BY <1>2
  <2>2. a \div b \in Int /\ b * (a \div b) =< a /\ a < b * (a \div b) + b
    BY Z3
  <2>3. QED
    BY <1>1, <2>1, <2>2
<1>4. QED
  BY <1>3

\* What counts is what the lists show of maxima above zero, and they show it to
\* within half a percent.
LEMMA ShownOfCounted ==
  ASSUME Typed, NEW u \in Users, NEW c \in Owned(u)
  PROVE  /\ c \in Counted(u) <=>
              Graded(c).percentage # None /\ MaxMarks[row[c].of] > 0
         /\ c \in Counted(u) =>
              /\ Graded(c).percentage \in Int
              /\ 2 * (Scale * Graded(c).percentage - Percentage(c)) \in -Scale .. Scale
<1> DEFINE max == MaxMarks[row[c].of]
           m == row[c].marks
           q == Rounded(100 * m, max)
<1>1. row[c].of \in Assignments /\ m \in Int \cup {None} /\ None \notin Int
  BY CourseworkAssumption DEF Typed, TypeOK, RowType, Holding, Holds, Owned
<1>2. max \in Int
  BY <1>1, CourseworkAssumption
<1>3. c \in Counted(u) <=> m # None /\ max > 0
  BY DEF Counted
<1>4. CASE ~ (m # None /\ max > 0)
  BY <1>3, <1>4, <1>2 DEF Graded
<1>5. CASE m # None /\ max > 0
  <2>1. m \in Int /\ 100 * m \in Int /\ max \in Nat \ {0}
    BY <1>1, <1>2, <1>5
  <2>2. Graded(c).percentage = q
    BY <1>5, <2>1 DEF Graded
  <2>3. PICK k : k = Scale \div max
    OBVIOUS
  <2>4. Scale \in Nat \ {0} /\ Scale % max = 0
    BY <1>1, <1>5, CourseworkAssumption
  <2>5. k \in Nat /\ Scale = max * k
    BY <2>1, <2>3, <2>4
  <2>6. Percentage(c) = 100 * m * k
    BY <2>3 DEF Percentage
  <2>7. q \in Int /\ 2 * max * q =< 2 * (100 * m) + max
        /\ 2 * (100 * m) < 2 * max * q + max
    BY <2>1, RoundingIsClose
  <2> HIDE DEF max, m, q
  <2>8. /\ k * (2 * max * q) =< k * (2 * (100 * m) + max)
        /\ k * (2 * (100 * m)) =< k * (2 * max * q + max)
    BY <2>1, <2>5, <2>7
  <2>9. 2 * (Scale * q - Percentage(c)) \in -Scale .. Scale
    BY <2>1, <2>5, <2>6, <2>7, <2>8
  <2>10. QED
    BY <1>1, <1>3, <1>5, <2>2, <2>7, <2>9 DEF max, m
<1>6. QED
  BY <1>4, <1>5

\* Where each term is within half of e, two sums are within half of e a term.
LEMMA SumsAreClose ==
  ASSUME NEW S, IsFiniteSet(S), NEW f \in [S -> Int], NEW g \in [S -> Int],
         NEW e \in Nat, \A x \in S : 2 * (e * f[x] - g[x]) \in -e .. e
  PROVE  LET n == e * Cardinality(S) IN
         2 * (e * SumFunction(f) - SumFunction(g)) \in -n .. n
<1> DEFINE Off(s) == 2 * (e * SumFunctionOnSet(f, s) - SumFunctionOnSet(g, s))
           Close(s) == Off(s) \in -(e * Cardinality(s)) .. (e * Cardinality(s))
           T == {s \in SUBSET S : ~ Close(s)}
<1>1. SUFFICES ASSUME T # {} PROVE FALSE
  BY DEF SumFunction
<1>2. PICK s \in T : \A t \in T : t \subseteq s => t = s
  <2>1. T \in SUBSET SUBSET S
    OBVIOUS
  <2> HIDE DEF T
  <2>2. QED
    BY <1>1, <2>1, SmallestSet
<1>3. s # {}
  <2>1. SumFunctionOnSet(f, {}) = 0 /\ SumFunctionOnSet(g, {}) = 0 /\ Cardinality({}) = 0
    BY SumNone, FS_EmptySet
  <2>2. Off({}) = 0 /\ e * Cardinality({}) = 0
    BY <2>1
  <2>3. Close({})
    BY <2>2
  <2>4. QED
    BY <1>2, <2>3
<1>4. PICK x \in s : TRUE
  BY <1>3
<1> DEFINE r == s \ {x}
<1>5. IsFiniteSet(s) /\ IsFiniteSet(r) /\ s \in SUBSET S /\ r \in SUBSET S /\ x \in S
  BY <1>2, <1>4, FS_Subset
<1>6. Close(r)
  BY <1>2, <1>4, <1>5
<1>7. PICK a \in Int, b \in Int, v \in Int, w \in Int, n \in Nat :
        /\ a = SumFunctionOnSet(f, r) /\ b = SumFunctionOnSet(g, r)
        /\ v = f[x] /\ w = g[x] /\ n = Cardinality(r)
  BY <1>5, SumIsInt, FS_CardinalityType
<1>8. /\ SumFunctionOnSet(f, s) = v + a /\ SumFunctionOnSet(g, s) = w + b
      /\ Cardinality(s) = n + 1
  <2>1. SumFunctionOnSet(f, s) = f[x] + SumFunctionOnSet(f, r)
        /\ SumFunctionOnSet(g, s) = g[x] + SumFunctionOnSet(g, r)
    BY <1>4, <1>5, SumAny
  <2>2. Cardinality(r) = Cardinality(s) - 1 /\ Cardinality(s) \in Nat
    BY <1>4, <1>5, FS_RemoveElement, FS_CardinalityType
  <2>3. QED
    BY <1>7, <2>1, <2>2
<1>9. /\ 2 * (e * a - b) \in -(e * n) .. (e * n)
      /\ 2 * (e * v - w) \in -e .. e
  BY <1>5, <1>6, <1>7
<1>10. 2 * (e * (v + a) - (w + b)) \in -(e * (n + 1)) .. (e * (n + 1))
  BY <1>9
<1>11. QED
  BY <1>2, <1>8, <1>10


-----------------------------------------------------------------------------
(* The theorems                                                            *)

IInv == Typed /\ Single /\ Averaged /\ Ranking

\* It holds of an empty school.
LEMMA IInvInit == Init => IInv
<1> SUFFICES ASSUME Init PROVE IInv
  OBVIOUS
<1>1. Typed
  BY TypedInit
<1>2. Single
  BY CourseworkAssumption DEF Init, Single, Claims, Absent, Idle
<1>3. Averaged
  <2>1. \A u \in Users : Counted(u) = {} /\ Rating(u) = {}
    BY CourseworkAssumption DEF Init, Counted, Owned, Rating, Idle
  <2>2. QED
    BY <2>1 DEF Init, Averaged, UpToDate, Average, MeanOf
<1>4. Ranking
  BY DEF Init, Ranking
<1>5. QED
  BY <1>1, <1>2, <1>3, <1>4 DEF IInv

\* It is kept by every step.
LEMMA IInvNext == IInv /\ [Next]_vars => IInv'
  BY TypedNext, SingleNext, AveragedNext, RankingNext DEF IInv

\* The inductive invariant of submitting, grading, rating and ranking
\* (assignments.service.ts, analytics.service.ts) holds in every reachable state.
THEOREM CourseworkInvariant == Spec => []IInv
  BY IInvInit, IInvNext, PTL DEF Spec

\* A student has at most one submission for an assignment, whatever calls are
\* made and abandoned, unless two of his passed the look-up of submit before
\* either had created its row.
THEOREM SubmissionIsOne == Spec => []OneSubmission
<1>1. ASSUME IInv, NEW u \in Students, NEW a \in Assignments, <<u, a>> \notin raced
      PROVE  Cardinality(Submissions(u, a)) =< 1
  <2>1. \A c, d \in Submissions(u, a) : c = d
    BY <1>1 DEF IInv, Single, Claims, Submissions
  <2>2. CASE Submissions(u, a) = {}
    BY <2>2, FS_EmptySet
  <2>3. ASSUME NEW c \in Submissions(u, a) PROVE Cardinality(Submissions(u, a)) =< 1
    <3>1. Submissions(u, a) = {c}
      BY <2>1
    <3>2. QED
      BY <3>1, FS_Singleton
  <2>4. QED
    BY <2>2, <2>3
<1>2. IInv => OneSubmission
  BY <1>1 DEF OneSubmission
<1>3. QED
  BY <1>2, CourseworkInvariant, PTL

\* While no grade of a user is being worked into his rating, it is within half
\* a point of the average of the rounded percentages that the teachers' lists
\* show for his submissions under all his profiles, whatever their maxima,
\* unless two runs of grade and recalculateGlobalRating overlapped for him or
\* one died half way.
THEOREM RatingIsTheAverage == Spec => []RatingIsAverage
<1>1. ASSUME IInv PROVE RatingIsAverage
  <2> SUFFICES ASSUME NEW u \in Users \ stale, Rating(u) = {}
               PROVE  LET seen(c) == FetchSubmissions(row[c].of)[c].percentage
                          shown == {c \in Owned(u) :
                                      seen(c) # None /\ MaxMarks[row[c].of] > 0}
                          total == SumFunction([c \in shown |-> seen(c)])
                          n == Cardinality(shown)
                      IN  IF shown = {} THEN rating[u].num = 0
                          ELSE 2 * Abs(total * rating[u].den - n * rating[u].num)
                                 =< n * rating[u].den
    BY DEF RatingIsAverage
  <2> DEFINE seen(c) == FetchSubmissions(row[c].of)[c].percentage
             shown == {c \in Owned(u) : seen(c) # None /\ MaxMarks[row[c].of] > 0}
             C == Counted(u)
             f == [c \in C |-> seen(c)]
             g == [c \in C |-> Percentage(c)]
             total == SumFunction(f)
             n == Cardinality(C)
  <2>1. Typed /\ rating[u] = Average(u)
    BY <1>1 DEF IInv, Averaged, UpToDate
  <2>2. \A c \in Owned(u) : seen(c) = Graded(c).percentage
    BY DEF Owned, FetchSubmissions
  <2>3. shown = C
    BY <2>1, <2>2, ShownOfCounted DEF Counted
  <2>4. CASE C = {}
    BY <2>1, <2>3, <2>4 DEF Average, MeanOf, Zero
  <2>5. CASE C # {}
    <3>1. IsFiniteSet(C) /\ n \in Nat \ {0} /\ SumFunction(g) \in Int
      BY <2>1, <2>5, CountedAddUp
    <3>2. f \in [C -> Int] /\ g \in [C -> Int]
          /\ \A c \in C : 2 * (Scale * f[c] - g[c]) \in -Scale .. Scale
      BY <2>1, <2>2, ShownOfCounted, Counting DEF Counted
    <3>3. total \in Int
      BY <3>1, <3>2, SumIsInt DEF SumFunction
    <3>4. rating[u].num = SumFunction(g) /\ rating[u].den = n * Scale
      BY <2>1, <2>5 DEF Average, MeanOf
    <3>5. 2 * (Scale * total - SumFunction(g)) \in -(Scale * n) .. (Scale * n)
      <4>1. Scale \in Nat
        BY CourseworkAssumption
      <4> HIDE DEF f, g, C
      <4>2. QED
        BY <3>1, <3>2, <4>1, SumsAreClose
    <3>6. 2 * Abs(total * rating[u].den - n * rating[u].num) =< n * rating[u].den
      <4>1. PICK k \in Nat, p \in Int, t \in Int, z \in Nat :
              k = n /\ p = SumFunction(g) /\ t = total /\ z = Scale
        BY <3>1, <3>3, CourseworkAssumption
      <4>2. 2 * (z * t - p) =< z * k /\ -(z * k) =< 2 * (z * t - p)
        BY <3>5, <4>1
      <4>3. /\ k * (2 * (z * t - p)) =< k * (z * k)
            /\ k * (-(z * k)) =< k * (2 * (z * t - p))
        BY <4>2
      <4>4. t * (k * z) - k * p = k * (z * t - p)
        OBVIOUS
      <4>5. 2 * Abs(t * (k * z) - k * p) =< k * (k * z)
        BY <4>3, <4>4 DEF Abs
      <4>6. QED
        BY <3>4, <4>1, <4>5
    <3>7. QED
      BY <2>3, <2>5, <3>6
  <2>6. QED
    BY <2>4, <2>5
<1>2. QED
  BY <1>1, CourseworkInvariant, PTL

\* Ranks that updateGlobalRanks has written to the end, one by one, with no
\* rating and no other rank written since its read, are 1, 2, ... with nobody
\* left out or ranked before a user rated higher.
THEOREM RanksAreOrdered == Spec => []RanksFollowRatings
<1>1. ASSUME IInv, ranker # None, call[ranker].pc = "done"
      PROVE  /\ {rank[u] : u \in Users} = 1..Cardinality(Users)
             /\ \A u, v \in Users : rank[u] < rank[v] => AtLeast(rating[u], rating[v])
  <2>1. PICK list \in SetToSeqs(Users) : Placed(list, Cardinality(Users))
    BY <1>1 DEF IInv, Ranking
  <2>2. QED
    BY <1>1, <2>1, RanksOfList DEF IInv
<1>2. IInv => RanksFollowRatings
  BY <1>1 DEF RanksFollowRatings
<1>3. QED
  BY <1>2, CourseworkInvariant, PTL

-----------------------------------------------------------------------------
(***************************************************************************)
(* The library desk                                                        *)
(*                                                                         *)
(* Proofs about Library, for any books, any finite number of calls and any *)
(* number of copies.                                                       *)
(***************************************************************************)

BookRow == [total : Nat, available : Int]
LoanRow == [book : Books \cup {Nothing}, school : Schools \cup {Nothing},
            status : {"absent", "BORROWED", "RETURNED"}]
CheckoutState == [pc : {"new", "checked", "denied", "done", "failed"},
                  book : Books \cup {Nothing}, school : Schools \cup {Nothing}]
ReturnState == [pc : {"new", "checked", "denied", "done", "failed"},
                loan : Checkouts \cup {Nothing}]

-----------------------------------------------------------------------------
(* The inductive invariant                                                 *)

\* A loan is there once its call is done, and every row points to a row.
Linked ==
  /\ \A b \in Books : book[b].total = 0 => book[b].available = 0
  /\ \A c \in Checkouts :
       /\ checkout[c].pc = "checked" =>
            checkout[c].book \in Books /\ book[checkout[c].book].total > 0
       /\ IF checkout[c].pc = "done"
          THEN /\ loan[c].book \in Books /\ loan[c].status # "absent"
               /\ book[loan[c].book].total > 0
          ELSE loan[c].book = Nothing /\ loan[c].status = "absent"
  /\ \A t \in Returns : return[t].pc \in {"checked", "done"} =>
       return[t].loan \in Checkouts /\ checkout[return[t].loan].pc = "done"

DeskTyped == LibraryTypeOK /\ Linked

\* A checkout, or a return, of book b between its check and its write.
Lending(c, b) == checkout[c].pc = "checked" /\ checkout[c].book = b
Returning(t, b) == return[t].pc = "checked" /\ loan[return[t].loan].book = b

\* A book that was never raced is handled by one call at most, which will find
\* what it has checked: a copy left, or a loan that is not returned.
AtTheDesk ==
  \A b \in Books \ contended :
    /\ \A c \in Checkouts : Lending(c, b) =>
         /\ \A d \in Checkouts : Lending(d, b) => c = d
         /\ \A t \in Returns : ~Returning(t, b)
         /\ book[b].available > 0
    /\ \A t \in Returns : Returning(t, b) =>
         /\ \A s \in Returns : Returning(s, b) => s = t
         /\ loan[return[t].loan].status = "BORROWED"

DeskInv == DeskTyped /\ AtTheDesk /\ CountIsLedger /\ Stocked

-----------------------------------------------------------------------------
(* What the updates of one row do to it                                    *)

\* The count of a book moves and nothing else of it.
LEMMA CountMoves ==
  ASSUME NEW b \in Books, book \in [Books -> BookRow], NEW k \in Int,
         book' = [book EXCEPT ![b].available = k]
  PROVE  /\ book' \in [Books -> BookRow]
         /\ book'[b].total = book[b].total /\ book'[b].available = k
         /\ \A x \in Books \ {b} : book'[x] = book[x]
  BY DEF BookRow

\* A loan that is closed is of the same book.
LEMMA LoanCloses ==
  ASSUME NEW l \in Checkouts, loan \in [Checkouts -> LoanRow],
         loan' = [loan EXCEPT ![l].status = "RETURNED"]
  PROVE  /\ loan' \in [Checkouts -> LoanRow]
         /\ loan'[l].book = loan[l].book /\ loan'[l].status = "RETURNED"
         /\ \A c \in Checkouts \ {l} : loan'[c] = loan[c]
  BY DEF LoanRow

\* A checkout that moves on is about the same book.
LEMMA CheckoutMoves ==
  ASSUME NEW c \in Checkouts, checkout \in [Checkouts -> CheckoutState],
         NEW pc \in {"new", "checked", "denied", "done", "failed"},
         checkout' = [checkout EXCEPT ![c].pc = pc]
  PROVE  /\ checkout' \in [Checkouts -> CheckoutState]
         /\ checkout'[c].pc = pc /\ checkout'[c].book = checkout[c].book
         /\ \A d \in Checkouts \ {c} : checkout'[d] = checkout[d]
  BY DEF CheckoutState

\* A return that moves on is about the same loan.
LEMMA ReturnMoves ==
  ASSUME NEW t \in Returns, return \in [Returns -> ReturnState],
         NEW pc \in {"new", "checked", "denied", "done", "failed"},
         return' = [return EXCEPT ![t].pc = pc]
  PROVE  /\ return' \in [Returns -> ReturnState]
         /\ return'[t].pc = pc /\ return'[t].loan = return[t].loan
         /\ \A s \in Returns \ {t} : return'[s] = return[s]
  BY DEF ReturnState

-----------------------------------------------------------------------------
(* Typing                                                                  *)

\* The rows are given out with their types.
LEMMA Rows ==
  LibraryTypeOK <=> /\ book \in [Books -> BookRow]
                    /\ loan \in [Checkouts -> LoanRow]
                    /\ checkout \in [Checkouts -> CheckoutState]
                    /\ return \in [Returns -> ReturnState]
                    /\ contended \in SUBSET Books
  BY DEF LibraryTypeOK, BookRow, LoanRow, CheckoutState, ReturnState

\* An empty library.
LEMMA DeskTypedInit == LibraryInit => DeskTyped
  BY LibraryAssumption DEF LibraryInit, DeskTyped, LibraryTypeOK, Linked

\* What the two transactions do, told by the parts the invariant looks at.
CheckoutCommits(c, b) ==
  /\ b \in Books /\ checkout[c].pc = "checked" /\ checkout[c].book = b
  /\ book[b].total > 0
  /\ book' \in [Books -> BookRow]
  /\ book'[b].total = book[b].total /\ book'[b].available = book[b].available - 1
  /\ \A x \in Books \ {b} : book'[x] = book[x]
  /\ loan' \in [Checkouts -> LoanRow]
  /\ loan'[c].book = b /\ loan'[c].status = "BORROWED"
  /\ \A d \in Checkouts \ {c} : loan'[d] = loan[d]
  /\ checkout' \in [Checkouts -> CheckoutState]
  /\ checkout'[c].pc = "done"
  /\ \A d \in Checkouts \ {c} : checkout'[d] = checkout[d]
  /\ UNCHANGED <<return, contended>>

ReturnCommits(t, l, b) ==
  /\ l \in Checkouts /\ b \in Books
  /\ return[t].pc = "checked" /\ return[t].loan = l /\ loan[l].book = b
  /\ checkout[l].pc = "done" /\ book[b].total > 0
  /\ book' \in [Books -> BookRow]
  /\ book'[b].total = book[b].total /\ book'[b].available = book[b].available + 1
  /\ \A x \in Books \ {b} : book'[x] = book[x]
  /\ loan' \in [Checkouts -> LoanRow]
  /\ loan'[l].book = b /\ loan'[l].status = "RETURNED"
  /\ \A c \in Checkouts \ {l} : loan'[c] = loan[c]
  /\ return' \in [Returns -> ReturnState]
  /\ return'[t].pc = "done" /\ return'[t].loan = l
  /\ \A s \in Returns \ {t} : return'[s] = return[s]
  /\ UNCHANGED <<checkout, contended>>

\* What a checkout writes when it commits, in one transaction.
LEMMA CheckoutEffect ==
  ASSUME DeskTyped, NEW c \in Checkouts, CommitCheckout(c)
  PROVE  CheckoutCommits(c, checkout[c].book)
<1> DEFINE b == checkout[c].book
<1>1. /\ book \in [Books -> BookRow] /\ loan \in [Checkouts -> LoanRow]
      /\ checkout \in [Checkouts -> CheckoutState]
  BY Rows DEF DeskTyped
<1>2. /\ b \in Books /\ book[b].available - 1 \in Int
      /\ checkout[c].pc = "checked" /\ book[b].total > 0
      /\ UNCHANGED <<return, contended>>
  BY <1>1 DEF CommitCheckout, DeskTyped, Linked, BookRow
<1>3. [book |-> b, school |-> checkout[c].school, status |-> "BORROWED"] \in LoanRow
  BY <1>1 DEF LoanRow, CheckoutState
<1>4. /\ book' \in [Books -> BookRow]
      /\ book'[b].total = book[b].total /\ book'[b].available = book[b].available - 1
      /\ \A x \in Books \ {b} : book'[x] = book[x]
  BY <1>1, <1>2, CountMoves DEF CommitCheckout
<1>5. /\ checkout' \in [Checkouts -> CheckoutState]
      /\ checkout'[c].pc = "done"
      /\ \A d \in Checkouts \ {c} : checkout'[d] = checkout[d]
  BY <1>1, CheckoutMoves DEF CommitCheckout
<1>6. /\ loan' \in [Checkouts -> LoanRow]
      /\ loan'[c].book = b /\ loan'[c].status = "BORROWED"
      /\ \A d \in Checkouts \ {c} : loan'[d] = loan[d]
  BY <1>1, <1>3 DEF CommitCheckout
<1>7. QED
  BY <1>2, <1>4, <1>5, <1>6 DEF CheckoutCommits

\* What a return writes when it commits, in one transaction.
LEMMA ReturnEffect ==
  ASSUME DeskTyped, NEW t \in Returns, CommitReturn(t)
  PROVE  ReturnCommits(t, return[t].loan, loan[return[t].loan].book)
<1> DEFINE l == return[t].loan
           b == loan[l].book
<1>1. /\ book \in [Books -> BookRow] /\ loan \in [Checkouts -> LoanRow]
      /\ return \in [Returns -> ReturnState]
  BY Rows DEF DeskTyped
<1>2. /\ l \in Checkouts /\ b \in Books /\ book[b].available + 1 \in Int
      /\ return[t].pc = "checked" /\ checkout[l].pc = "done" /\ book[b].total > 0
      /\ UNCHANGED <<checkout, contended>>
  BY <1>1 DEF CommitReturn, DeskTyped, Linked, BookRow
<1>3. /\ book' \in [Books -> BookRow]
      /\ book'[b].total = book[b].total /\ book'[b].available = book[b].available + 1
      /\ \A x \in Books \ {b} : book'[x] = book[x]
  BY <1>1, <1>2, CountMoves DEF CommitReturn
<1>4. /\ loan' \in [Checkouts -> LoanRow]
      /\ loan'[l].book = b /\ loan'[l].status = "RETURNED"
      /\ \A c \in Checkouts \ {l} : loan'[c] = loan[c]
  BY <1>1, <1>2, LoanCloses DEF CommitReturn
<1>5. /\ return' \in [Returns -> ReturnState]
      /\ return'[t].pc = "done" /\ return'[t].loan = l
      /\ \A s \in Returns \ {t} : return'[s] = return[s]
  BY <1>1, ReturnMoves DEF CommitReturn
<1>6. QED
  BY <1>2, <1>3, <1>4, <1>5 DEF ReturnCommits

\* Every action keeps the types, and a loan of its book.
LEMMA DeskTypedNext == DeskTyped /\ [LibraryNext]_desk => DeskTyped'
<1> SUFFICES ASSUME DeskTyped, [LibraryNext]_desk PROVE DeskTyped'
  OBVIOUS
<1> USE LibraryAssumption DEF DeskTyped, Linked
<1>a. /\ book \in [Books -> BookRow] /\ loan \in [Checkouts -> LoanRow]
      /\ checkout \in [Checkouts -> CheckoutState]
      /\ return \in [Returns -> ReturnState] /\ contended \in SUBSET Books
  BY Rows
<1>b. ASSUME /\ book' \in [Books -> BookRow] /\ loan' \in [Checkouts -> LoanRow]
             /\ checkout' \in [Checkouts -> CheckoutState]
             /\ return' \in [Returns -> ReturnState] /\ contended' \in SUBSET Books
      PROVE  LibraryTypeOK'
  BY <1>b DEF LibraryTypeOK, BookRow, LoanRow, CheckoutState, ReturnState
<1>1. ASSUME NEW b \in Books, NEW n \in 1..MaxCopies, CreateBook(b, n)
      PROVE  DeskTyped'
  <2>1. [total |-> n, available |-> n] \in BookRow
    BY DEF BookRow
  <2>2. QED
    BY <1>1, <1>a, <1>b, <2>1 DEF CreateBook
<1>2. ASSUME NEW c \in Checkouts, NEW s \in Schools, NEW b \in Books,
             CheckCheckout(c, s, b)
      PROVE  DeskTyped'
  <2>1. contended' \in SUBSET Books
    BY <1>2, <1>a DEF CheckCheckout, Enter
  <2>2. CASE checkout' = [checkout EXCEPT ![c].pc = "denied"]
    <3>1. /\ checkout' \in [Checkouts -> CheckoutState]
          /\ checkout'[c].pc = "denied"
          /\ \A d \in Checkouts \ {c} : checkout'[d] = checkout[d]
      BY <1>a, <2>2, CheckoutMoves
    <3>2. UNCHANGED <<book, loan, return>> /\ checkout[c].pc = "new"
      BY <1>2 DEF CheckCheckout
    <3>3. QED
      BY <1>a, <1>b, <2>1, <3>1, <3>2
  <2>3. CASE /\ checkout' = [checkout EXCEPT ![c] =
                               [pc |-> "checked", book |-> b, school |-> s]]
             /\ Lendable(b)
    <3>1. [pc |-> "checked", book |-> b, school |-> s] \in CheckoutState
      BY DEF CheckoutState
    <3>2. QED
      BY <1>2, <1>a, <1>b, <2>1, <2>3, <3>1 DEF CheckCheckout, Lendable
  <2>4. QED
    BY <1>2, <2>2, <2>3 DEF CheckCheckout
<1>3. ASSUME NEW c \in Checkouts, CommitCheckout(c)
      PROVE  DeskTyped'
  <2> DEFINE b == checkout[c].book
  <2>1. CheckoutCommits(c, b)
    BY <1>3, CheckoutEffect
  <2> HIDE DEF b
  <2>2. Linked'
    BY SMTT(30), <1>a, <2>1 DEF CheckoutCommits
  <2>3. QED
    BY <1>a, <1>b, <2>1, <2>2 DEF CheckoutCommits
<1>4. ASSUME NEW c \in Checkouts, AbandonCheckout(c)
      PROVE  DeskTyped'
  BY ZenonT(30), <1>4, <1>a, <1>b, CheckoutMoves DEF AbandonCheckout
<1>5. ASSUME NEW t \in Returns, NEW s \in Schools, NEW l \in Checkouts,
             CheckReturn(t, s, l)
      PROVE  DeskTyped'
  <2>1. CASE /\ return' = [return EXCEPT ![t].pc = "denied"]
             /\ UNCHANGED contended
    BY <1>5, <1>a, <1>b, <2>1, ReturnMoves DEF CheckReturn
  <2>2. CASE /\ return' = [return EXCEPT ![t] = [pc |-> "checked", loan |-> l]]
             /\ Returnable(l, s) /\ Enter(loan[l].book)
    <3>1. [pc |-> "checked", loan |-> l] \in ReturnState
      BY DEF ReturnState
    <3>2. checkout[l].pc = "done" /\ loan[l].book \in Books
      BY <2>2 DEF Returnable
    <3>3. contended' \in SUBSET Books
      BY <2>2, <1>a, <3>2 DEF Enter
    <3>4. QED
      BY <1>5, <1>a, <1>b, <2>2, <3>1, <3>2, <3>3 DEF CheckReturn
  <2>3. QED
    BY <1>5, <2>1, <2>2 DEF CheckReturn
<1>6. ASSUME NEW t \in Returns, CommitReturn(t)
      PROVE  DeskTyped'
  <2> DEFINE l == return[t].loan
             b == loan[l].book
  <2>1. ReturnCommits(t, l, b)
    BY <1>6, ReturnEffect
  <2> HIDE DEF l, b
  <2>2. Linked'
    BY SMTT(30), <1>a, <2>1 DEF ReturnCommits
  <2>3. QED
    BY <1>a, <1>b, <2>1, <2>2 DEF ReturnCommits
<1>7. ASSUME NEW t \in Returns, AbandonReturn(t)
      PROVE  DeskTyped'
  BY <1>7, <1>a, <1>b, ReturnMoves DEF AbandonReturn
<1>8. CASE UNCHANGED desk
  BY <1>8, <1>a, <1>b DEF desk
<1>9. QED
  BY <1>1, <1>2, <1>3, <1>4, <1>5, <1>6, <1>7, <1>8 DEF LibraryNext

-----------------------------------------------------------------------------
(* Alone                                                                   *)

\* A second call at a book is recorded as a race when it arrives.
LEMMA AtTheDeskNext == DeskTyped /\ AtTheDesk /\ [LibraryNext]_desk => AtTheDesk'
<1> SUFFICES ASSUME DeskTyped, AtTheDesk, [LibraryNext]_desk PROVE AtTheDesk'
  OBVIOUS
<1>a. /\ book \in [Books -> BookRow] /\ loan \in [Checkouts -> LoanRow]
      /\ checkout \in [Checkouts -> CheckoutState]
      /\ return \in [Returns -> ReturnState] /\ contended \in SUBSET Books
  BY Rows DEF DeskTyped
<1>b. Linked
  BY DEF DeskTyped
<1>1. ASSUME NEW b \in Books, NEW n \in 1..MaxCopies, CreateBook(b, n)
      PROVE  AtTheDesk'
  <2>1. /\ book[b].total = 0 /\ UNCHANGED <<loan, checkout, return, contended>>
        /\ \A x \in Books \ {b} : book'[x] = book[x]
    BY <1>1, <1>a DEF CreateBook
  <2>2. QED
    BY <2>1, <1>b DEF AtTheDesk, Lending, Returning, Linked
<1>2. ASSUME NEW c \in Checkouts, NEW s \in Schools, NEW b \in Books,
             CheckCheckout(c, s, b)
      PROVE  AtTheDesk'
  <2>1. CASE checkout' = [checkout EXCEPT ![c].pc = "denied"] /\ UNCHANGED contended
    <3>1. /\ checkout'[c].pc = "denied"
          /\ \A d \in Checkouts \ {c} : checkout'[d] = checkout[d]
      BY <1>a, <2>1, CheckoutMoves
    <3>2. UNCHANGED <<book, loan, return>>
      BY <1>2 DEF CheckCheckout
    <3>3. QED
      BY <2>1, <3>1, <3>2 DEF AtTheDesk, Lending, Returning
  <2>2. CASE /\ checkout' = [checkout EXCEPT ![c] =
                               [pc |-> "checked", book |-> b, school |-> s]]
             /\ Lendable(b) /\ Enter(b)
    <3>1. /\ checkout'[c].pc = "checked" /\ checkout'[c].book = b
          /\ \A d \in Checkouts \ {c} : checkout'[d] = checkout[d]
      BY <1>a, <2>2
    <3>2. UNCHANGED <<book, loan, return>>
      BY <1>2 DEF CheckCheckout
    <3>3. /\ contended \subseteq contended' /\ book[b].available > 0
          /\ b \notin contended' => /\ \A d \in Checkouts : ~Lending(d, b)
                               /\ \A t \in Returns : ~Returning(t, b)
      BY <2>2 DEF Enter, Busy, Lendable, Lending, Returning
    <3>4. QED
      BY <3>1, <3>2, <3>3 DEF AtTheDesk, Lending, Returning
  <2>3. QED
    BY <1>2, <2>1, <2>2 DEF CheckCheckout
<1>3. ASSUME NEW c \in Checkouts, CommitCheckout(c)
      PROVE  AtTheDesk'
  <2> DEFINE b == checkout[c].book
  <2>1. CheckoutCommits(c, b)
    BY <1>3, CheckoutEffect
  <2> HIDE DEF b
  <2>2. \A t \in Returns : return[t].pc = "checked" =>
          return[t].loan \in Checkouts \ {c}
    BY <1>b, <2>1 DEF Linked, CheckoutCommits
  <2>3. \A t \in Returns : \A x \in Books : Returning(t, x)' <=> Returning(t, x)
    BY <2>1, <2>2 DEF Returning, CheckoutCommits
  <2>4. \A d \in Checkouts : \A x \in Books :
          Lending(d, x)' <=> d # c /\ Lending(d, x)
    BY <2>1 DEF Lending, CheckoutCommits
  <2>5. Lending(c, b)
    BY <2>1 DEF Lending, CheckoutCommits
  <2>6. QED
    BY <2>1, <2>2, <2>3, <2>4, <2>5 DEF AtTheDesk, CheckoutCommits, Returning
<1>4. ASSUME NEW c \in Checkouts, AbandonCheckout(c)
      PROVE  AtTheDesk'
  <2>1. /\ checkout'[c].pc = "failed"
        /\ \A d \in Checkouts \ {c} : checkout'[d] = checkout[d]
    BY <1>4, <1>a, CheckoutMoves DEF AbandonCheckout
  <2>2. QED
    BY <1>4, <2>1 DEF AtTheDesk, Lending, Returning, AbandonCheckout
<1>5. ASSUME NEW t \in Returns, NEW s \in Schools, NEW l \in Checkouts,
             CheckReturn(t, s, l)
      PROVE  AtTheDesk'
  <2>0. UNCHANGED <<book, loan, checkout>>
    BY <1>5 DEF CheckReturn
  <2>1. CASE return' = [return EXCEPT ![t].pc = "denied"] /\ UNCHANGED contended
    <3>1. /\ return'[t].pc = "denied"
          /\ \A q \in Returns \ {t} : return'[q] = return[q]
      BY <1>a, <2>1, ReturnMoves
    <3>2. QED
      BY <2>0, <2>1, <3>1 DEF AtTheDesk, Lending, Returning
  <2>2. CASE /\ return' = [return EXCEPT ![t] = [pc |-> "checked", loan |-> l]]
             /\ Returnable(l, s) /\ Enter(loan[l].book)
    <3> DEFINE b == loan[l].book
    <3>1. /\ return'[t].pc = "checked" /\ return'[t].loan = l
          /\ \A q \in Returns \ {t} : return'[q] = return[q]
      BY <1>a, <2>2
    <3>2. /\ contended \subseteq contended' /\ loan[l].status = "BORROWED"
          /\ b \notin contended' => /\ \A d \in Checkouts : ~Lending(d, b)
                               /\ \A q \in Returns : ~Returning(q, b)
      BY <2>2 DEF Enter, Busy, Returnable, Lending, Returning
    <3>3. QED
      BY <2>0, <3>1, <3>2 DEF AtTheDesk, Lending, Returning
  <2>3. QED
    BY <1>5, <2>1, <2>2 DEF CheckReturn
<1>6. ASSUME NEW t \in Returns, CommitReturn(t)
      PROVE  AtTheDesk'
  <2> DEFINE l == return[t].loan
             b == loan[l].book
  <2>1. ReturnCommits(t, l, b)
    BY <1>6, ReturnEffect
  <2> HIDE DEF l, b
  <2>2. \A q \in Returns : q # t /\ return[q].pc = "checked" =>
          return[q].loan \in Checkouts
    BY <1>b DEF Linked
  <2>3. \A q \in Returns : \A x \in Books :
          Returning(q, x)' <=> q # t /\ Returning(q, x)
    BY <2>1, <2>2 DEF Returning, ReturnCommits
  <2>4. \A d \in Checkouts : \A x \in Books : Lending(d, x)' <=> Lending(d, x)
    BY <2>1 DEF Lending, ReturnCommits
  <2>5. Returning(t, b)
    BY <2>1 DEF Returning, ReturnCommits
  <2>6. QED
    BY <2>1, <2>2, <2>3, <2>4, <2>5 DEF AtTheDesk, ReturnCommits, Returning
<1>7. ASSUME NEW t \in Returns, AbandonReturn(t)
      PROVE  AtTheDesk'
  <2>1. /\ return'[t].pc = "failed"
        /\ \A q \in Returns \ {t} : return'[q] = return[q]
    BY <1>7, <1>a, ReturnMoves DEF AbandonReturn
  <2>2. QED
    BY <1>7, <2>1 DEF AtTheDesk, Lending, Returning, AbandonReturn
<1>8. CASE UNCHANGED desk
  BY <1>8 DEF desk, AtTheDesk, Lending, Returning
<1>9. QED
  BY <1>1, <1>2, <1>3, <1>4, <1>5, <1>6, <1>7, <1>8 DEF LibraryNext

-----------------------------------------------------------------------------
(* The count                                                               *)

\* The calls are finitely many, so every set counted has a size.
LEMMA Countable ==
  ASSUME NEW b
  PROVE  /\ IsFiniteSet(LoansOf(b)) /\ Cardinality(LoansOf(b)) \in Nat
         /\ IsFiniteSet(Outstanding(b)) /\ Cardinality(Outstanding(b)) \in Nat
         /\ IsFiniteSet(ReturnsOf(b)) /\ Cardinality(ReturnsOf(b)) \in Nat
<1>1. /\ LoansOf(b) \subseteq Checkouts /\ Outstanding(b) \subseteq Checkouts
      /\ ReturnsOf(b) \subseteq Returns
  BY DEF LoansOf, Outstanding, ReturnsOf
<1>2. QED
  BY <1>1, LibraryAssumption, FS_Subset, FS_CardinalityType

\* A committed checkout adds its loan to the loans of its book.
LEMMA CheckoutCounts ==
  ASSUME DeskTyped, NEW c \in Checkouts, NEW b \in Books, CheckoutCommits(c, b)
  PROVE  /\ LoansOf(b)' = LoansOf(b) \cup {c} /\ c \notin LoansOf(b)
         /\ Outstanding(b)' = Outstanding(b) \cup {c} /\ c \notin Outstanding(b)
         /\ \A x \in Books \ {b} : LoansOf(x)' = LoansOf(x)
                                 /\ Outstanding(x)' = Outstanding(x)
         /\ \A x \in Books : ReturnsOf(x)' = ReturnsOf(x)
<1>1. loan[c].book = Nothing /\ Nothing \notin Books
  BY LibraryAssumption DEF DeskTyped, Linked, CheckoutCommits
<1>2. \A t \in Returns : return[t].pc = "done" =>
        return[t].loan \in Checkouts \ {c}
  BY DEF DeskTyped, Linked, CheckoutCommits
<1>3. QED
  BY <1>1, <1>2 DEF LoansOf, Outstanding, ReturnsOf, CheckoutCommits

\* A committed return adds itself to the returns of its book, and takes its
\* loan off those outstanding if it was there.
LEMMA ReturnCounts ==
  ASSUME DeskTyped, NEW t \in Returns, NEW l \in Checkouts, NEW b \in Books,
         ReturnCommits(t, l, b)
  PROVE  /\ ReturnsOf(b)' = ReturnsOf(b) \cup {t} /\ t \notin ReturnsOf(b)
         /\ Outstanding(b)' = Outstanding(b) \ {l}
         /\ loan[l].status = "BORROWED" => l \in Outstanding(b)
         /\ \A x \in Books \ {b} : ReturnsOf(x)' = ReturnsOf(x)
                                 /\ Outstanding(x)' = Outstanding(x)
         /\ \A x \in Books : LoansOf(x)' = LoansOf(x)
<1>1. \A q \in Returns : return[q].pc = "done" => return[q].loan \in Checkouts
  BY DEF DeskTyped, Linked
<1>2. \A q \in Checkouts : loan'[q].book = loan[q].book
  BY DEF ReturnCommits
<1>3. \A x \in Books : LoansOf(x)' = LoansOf(x)
  BY <1>2 DEF LoansOf
<1>4. /\ ReturnsOf(b)' = ReturnsOf(b) \cup {t} /\ t \notin ReturnsOf(b)
      /\ \A x \in Books \ {b} : ReturnsOf(x)' = ReturnsOf(x)
  BY <1>1, <1>2 DEF ReturnsOf, ReturnCommits
<1>5. /\ Outstanding(b)' = Outstanding(b) \ {l}
      /\ loan[l].status = "BORROWED" => l \in Outstanding(b)
      /\ \A x \in Books \ {b} : Outstanding(x)' = Outstanding(x)
  BY <1>3 DEF Outstanding, LoansOf, ReturnCommits
<1>6. QED
  BY <1>3, <1>4, <1>5

\* What leaves the counts alone.
LEMMA NothingCounts ==
  ASSUME UNCHANGED loan,
         \A t \in Returns : \/ return'[t] = return[t]
                            \/ return[t].pc # "done" /\ return'[t].pc # "done"
  PROVE  \A x \in Books : /\ LoansOf(x)' = LoansOf(x)
                          /\ Outstanding(x)' = Outstanding(x)
                          /\ ReturnsOf(x)' = ReturnsOf(x)
  BY DEF LoansOf, Outstanding, ReturnsOf

DeskCounted == CountIsLedger /\ Stocked

\* A step that moves no count, and lets no book out of contended, keeps both sums.
LEMMA DeskCountedKept ==
  ASSUME DeskCounted,
         \A x \in Books : /\ book'[x].total = book[x].total
                          /\ book'[x].available = book[x].available
                          /\ LoansOf(x)' = LoansOf(x)
                          /\ Outstanding(x)' = Outstanding(x)
                          /\ ReturnsOf(x)' = ReturnsOf(x),
         contended \subseteq contended'
  PROVE  DeskCounted'
  BY DEF DeskCounted, CountIsLedger, Stocked

\* Only a commit moves the count, by the loan that it opens or closes.
LEMMA DeskCountedNext ==
  DeskTyped /\ AtTheDesk /\ DeskCounted /\ [LibraryNext]_desk => DeskCounted'
<1> SUFFICES ASSUME DeskTyped, AtTheDesk, DeskCounted, [LibraryNext]_desk
             PROVE  DeskCounted'
  OBVIOUS
<1>a. /\ book \in [Books -> BookRow] /\ loan \in [Checkouts -> LoanRow]
      /\ checkout \in [Checkouts -> CheckoutState]
      /\ return \in [Returns -> ReturnState] /\ contended \in SUBSET Books
  BY Rows DEF DeskTyped
<1>b. Linked
  BY DEF DeskTyped
<1>1. ASSUME NEW b \in Books, NEW n \in 1..MaxCopies, CreateBook(b, n)
      PROVE  DeskCounted'
  <2>1. /\ book[b].total = 0 /\ UNCHANGED <<loan, checkout, return, contended>>
        /\ book'[b].total = n /\ book'[b].available = n /\ n \in Nat
        /\ \A x \in Books \ {b} : book'[x] = book[x]
    BY <1>1, <1>a, LibraryAssumption DEF CreateBook
  <2>2. \A x \in Books : /\ LoansOf(x)' = LoansOf(x)
                          /\ Outstanding(x)' = Outstanding(x)
                          /\ ReturnsOf(x)' = ReturnsOf(x)
    BY <2>1, NothingCounts
  <2>3. LoansOf(b) = {} /\ Outstanding(b) = {} /\ ReturnsOf(b) = {}
    BY <1>b, <2>1, LibraryAssumption DEF LoansOf, Outstanding, ReturnsOf, Linked
  <2>4. Cardinality({}) = 0
    BY FS_EmptySet
  <2>5. /\ LoansOf(b)' = {} /\ Outstanding(b)' = {} /\ ReturnsOf(b)' = {}
        /\ Cardinality({}) = 0
    BY <2>2, <2>3, <2>4
  <2>6. CountIsLedger'
    <3>1. (book[b].available + Cardinality(LoansOf(b))
            = book[b].total + Cardinality(ReturnsOf(b)))'
      BY <2>1, <2>5
    <3>2. \A x \in Books \ {b} :
            (book[x].available + Cardinality(LoansOf(x))
              = book[x].total + Cardinality(ReturnsOf(x)))'
      BY <2>1, <2>2 DEF DeskCounted, CountIsLedger
    <3> QED BY <3>1, <3>2 DEF CountIsLedger
  <2>7. Stocked'
    <3>1. (/\ book[b].available >= 0
           /\ book[b].available + Cardinality(Outstanding(b)) = book[b].total)'
      BY <2>1, <2>5
    <3>2. \A x \in (Books \ contended) \ {b} :
            (/\ book[x].available >= 0
             /\ book[x].available + Cardinality(Outstanding(x)) = book[x].total)'
      BY <2>1, <2>2 DEF DeskCounted, Stocked
    <3> QED BY <2>1, <3>1, <3>2 DEF Stocked
  <2>8. QED
    BY <2>6, <2>7 DEF DeskCounted
<1>2. ASSUME NEW c \in Checkouts, NEW s \in Schools, NEW b \in Books,
             CheckCheckout(c, s, b)
      PROVE  DeskCounted'
  <2>1. UNCHANGED <<book, loan, return>> /\ contended \subseteq contended'
    BY <1>2 DEF CheckCheckout, Enter
  <2>2. QED
    BY <2>1, NothingCounts, DeskCountedKept
<1>3. ASSUME NEW c \in Checkouts, CommitCheckout(c)
      PROVE  DeskCounted'
  <2>1. PICK b \in Books : CheckoutCommits(c, b)
    BY <1>3, CheckoutEffect DEF CheckoutCommits
  <2>2. /\ LoansOf(b)' = LoansOf(b) \cup {c} /\ c \notin LoansOf(b)
        /\ Outstanding(b)' = Outstanding(b) \cup {c} /\ c \notin Outstanding(b)
        /\ \A x \in Books \ {b} : LoansOf(x)' = LoansOf(x)
                                /\ Outstanding(x)' = Outstanding(x)
        /\ \A x \in Books : ReturnsOf(x)' = ReturnsOf(x)
    BY <2>1, CheckoutCounts
  <2>3. /\ Cardinality(LoansOf(b)') = Cardinality(LoansOf(b)) + 1
        /\ Cardinality(Outstanding(b)') = Cardinality(Outstanding(b)) + 1
    BY <2>2, Countable, FS_AddElement
  <2>4. b \notin contended => book[b].available > 0
    BY <2>1 DEF AtTheDesk, Lending, CheckoutCommits
  <2>5. /\ book[b].available \in Int /\ book[b].total \in Int
        /\ book'[b].available = book[b].available - 1
        /\ book'[b].total = book[b].total
        /\ \A x \in Books \ {b} : book'[x] = book[x]
        /\ contended' = contended
    BY <1>a, <2>1 DEF CheckoutCommits, BookRow
  <2>6. /\ Cardinality(LoansOf(b)) \in Nat /\ Cardinality(ReturnsOf(b)) \in Nat
        /\ Cardinality(Outstanding(b)) \in Nat
    BY Countable
  <2>7. CountIsLedger'
    <3>1. book[b].available + Cardinality(LoansOf(b))
            = book[b].total + Cardinality(ReturnsOf(b))
      BY DEF DeskCounted, CountIsLedger
    <3>2. (book[b].available + Cardinality(LoansOf(b))
            = book[b].total + Cardinality(ReturnsOf(b)))'
      <4>1. Cardinality(ReturnsOf(b)') = Cardinality(ReturnsOf(b))
        BY <2>2
      <4>2. (book[b].available - 1) + (Cardinality(LoansOf(b)) + 1)
              = book[b].total + Cardinality(ReturnsOf(b))
        BY <2>5, <2>6, <3>1
      <4>3. QED
        BY <2>3, <2>5, <4>1, <4>2
    <3>3. \A x \in Books \ {b} :
            (book[x].available + Cardinality(LoansOf(x))
              = book[x].total + Cardinality(ReturnsOf(x)))'
      BY <2>2, <2>5 DEF DeskCounted, CountIsLedger
    <3>4. QED
      BY <3>2, <3>3 DEF CountIsLedger
  <2>8. Stocked'
    <3>1. b \notin contended =>
            book[b].available + Cardinality(Outstanding(b)) = book[b].total
      BY DEF DeskCounted, Stocked
    <3>2. b \notin contended =>
            (/\ book[b].available >= 0
             /\ book[b].available + Cardinality(Outstanding(b)) = book[b].total)'
      BY <2>3, <2>4, <2>5, <2>6, <3>1
    <3>3. \A x \in (Books \ contended) \ {b} :
            (/\ book[x].available >= 0
             /\ book[x].available + Cardinality(Outstanding(x)) = book[x].total)'
      BY <2>2, <2>5 DEF DeskCounted, Stocked
    <3>4. QED
      BY <2>5, <3>2, <3>3 DEF Stocked
  <2>9. QED
    BY <2>7, <2>8 DEF DeskCounted
<1>4. ASSUME NEW c \in Checkouts, AbandonCheckout(c)
      PROVE  DeskCounted'
  BY <1>4, NothingCounts, DeskCountedKept DEF AbandonCheckout
<1>5. ASSUME NEW t \in Returns, NEW s \in Schools, NEW l \in Checkouts,
             CheckReturn(t, s, l)
      PROVE  DeskCounted'
  <2>1. UNCHANGED <<book, loan, checkout>> /\ contended \subseteq contended'
    BY <1>5 DEF CheckReturn, Enter
  <2>2. return[t].pc = "new" /\ return'[t].pc # "done"
        /\ \A q \in Returns \ {t} : return'[q] = return[q]
    BY <1>5, <1>a, ReturnMoves DEF CheckReturn
  <2>3. QED
    BY <2>1, <2>2, NothingCounts, DeskCountedKept
<1>6. ASSUME NEW t \in Returns, CommitReturn(t)
      PROVE  DeskCounted'
  <2>1. PICK l \in Checkouts, b \in Books : ReturnCommits(t, l, b)
    BY <1>6, ReturnEffect DEF ReturnCommits
  <2>2. /\ ReturnsOf(b)' = ReturnsOf(b) \cup {t} /\ t \notin ReturnsOf(b)
        /\ Outstanding(b)' = Outstanding(b) \ {l}
        /\ loan[l].status = "BORROWED" => l \in Outstanding(b)
        /\ \A x \in Books \ {b} : ReturnsOf(x)' = ReturnsOf(x)
                                /\ Outstanding(x)' = Outstanding(x)
        /\ \A x \in Books : LoansOf(x)' = LoansOf(x)
    BY <2>1, ReturnCounts
  <2>3. Cardinality(ReturnsOf(b)') = Cardinality(ReturnsOf(b)) + 1
    BY <2>2, Countable, FS_AddElement
  <2>4. b \notin contended => loan[l].status = "BORROWED"
    BY <2>1 DEF AtTheDesk, Returning, ReturnCommits
  <2>5. b \notin contended =>
          Cardinality(Outstanding(b)') = Cardinality(Outstanding(b)) - 1
    BY <2>2, <2>4, Countable, FS_RemoveElement
  <2>6. /\ book[b].available \in Int /\ book[b].total \in Int
        /\ book'[b].available = book[b].available + 1
        /\ book'[b].total = book[b].total
        /\ \A x \in Books \ {b} : book'[x] = book[x]
        /\ contended' = contended
    BY <1>a, <2>1 DEF ReturnCommits, BookRow
  <2>7. /\ Cardinality(LoansOf(b)) \in Nat /\ Cardinality(ReturnsOf(b)) \in Nat
        /\ Cardinality(Outstanding(b)) \in Nat
    BY Countable
  <2>8. CountIsLedger'
    <3>1. book[b].available + Cardinality(LoansOf(b))
            = book[b].total + Cardinality(ReturnsOf(b))
      BY DEF DeskCounted, CountIsLedger
    <3>2. (book[b].available + Cardinality(LoansOf(b))
            = book[b].total + Cardinality(ReturnsOf(b)))'
      BY <2>2, <2>3, <2>6, <2>7, <3>1
    <3>3. \A x \in Books \ {b} :
            (book[x].available + Cardinality(LoansOf(x))
              = book[x].total + Cardinality(ReturnsOf(x)))'
      BY <2>2, <2>6 DEF DeskCounted, CountIsLedger
    <3>4. QED
      BY <3>2, <3>3 DEF CountIsLedger
  <2>9. Stocked'
    <3>1. b \notin contended =>
            /\ book[b].available >= 0
            /\ book[b].available + Cardinality(Outstanding(b)) = book[b].total
      BY DEF DeskCounted, Stocked
    <3>2. b \notin contended =>
            (/\ book[b].available >= 0
             /\ book[b].available + Cardinality(Outstanding(b)) = book[b].total)'
      BY <2>5, <2>6, <2>7, <3>1
    <3>3. \A x \in (Books \ contended) \ {b} :
            (/\ book[x].available >= 0
             /\ book[x].available + Cardinality(Outstanding(x)) = book[x].total)'
      BY <2>2, <2>6 DEF DeskCounted, Stocked
    <3>4. QED
      BY <2>6, <3>2, <3>3 DEF Stocked
  <2>10. QED
    BY <2>8, <2>9 DEF DeskCounted
<1>7. ASSUME NEW t \in Returns, AbandonReturn(t)
      PROVE  DeskCounted'
  <2>1. return[t].pc = "checked" /\ return'[t].pc # "done"
        /\ \A q \in Returns \ {t} : return'[q] = return[q]
    BY <1>7, <1>a, ReturnMoves DEF AbandonReturn
  <2>2. QED
    BY <1>7, <2>1, NothingCounts, DeskCountedKept DEF AbandonReturn
<1>8. CASE UNCHANGED desk
  BY <1>8, NothingCounts, DeskCountedKept DEF desk
<1>9. QED
  BY <1>1, <1>2, <1>3, <1>4, <1>5, <1>6, <1>7, <1>8 DEF LibraryNext

-----------------------------------------------------------------------------
(* The theorems                                                            *)

\* It holds of an empty library.
LEMMA DeskInit == LibraryInit => DeskInv
<1> SUFFICES ASSUME LibraryInit PROVE DeskInv
  OBVIOUS
<1>1. DeskTyped
  BY DeskTypedInit
<1>2. AtTheDesk
  BY DEF LibraryInit, AtTheDesk, Lending, Returning
<1>3. \A b \in Books : LoansOf(b) = {} /\ Outstanding(b) = {} /\ ReturnsOf(b) = {}
  BY LibraryAssumption DEF LibraryInit, LoansOf, Outstanding, ReturnsOf
<1>4. Cardinality({}) = 0
  BY FS_EmptySet
<1>5. \A b \in Books : book[b].total = 0 /\ book[b].available = 0
  BY DEF LibraryInit
<1>6. CountIsLedger /\ Stocked
  <2>1. \A b \in Books : /\ Cardinality(LoansOf(b)) = 0
                         /\ Cardinality(Outstanding(b)) = 0
                         /\ Cardinality(ReturnsOf(b)) = 0
    BY <1>3, <1>4
  <2>2. QED
    BY <1>5, <2>1 DEF CountIsLedger, Stocked
<1>7. QED
  BY <1>1, <1>2, <1>6 DEF DeskInv

\* Checkouts and returns, overlapping and dying anywhere, keep the invariant
\* (checkoutBook, returnBook).
THEOREM DeskInvariant == LibrarySpec => []DeskInv
<1>1. DeskInv /\ [LibraryNext]_desk => DeskInv'
  BY DeskTypedNext, AtTheDeskNext, DeskCountedNext DEF DeskInv, DeskCounted
<1>2. QED
  BY DeskInit, <1>1, PTL DEF LibrarySpec

\* The count of available copies is what the completed calls make it: nothing
\* that checkoutBook or returnBook committed is lost or half done, whatever
\* calls overlap and wherever they die.
THEOREM CountIsTheLedger == LibrarySpec => []CountIsLedger
  BY DeskInvariant, PTL DEF DeskInv

\* The shelf of a book that one request at a time handled is never short and
\* never lends a copy it has not, whatever happened to the other books.
THEOREM ShelfIsStocked == LibrarySpec => []Stocked
  BY DeskInvariant, PTL DEF DeskInv

\* Every row and call stays well formed.
THEOREM TypeCorrect == LibrarySpec => []LibraryTypeOK
<1>1. DeskInv => LibraryTypeOK
  BY DEF DeskInv, DeskTyped
<1>2. QED
  BY <1>1, DeskInvariant, PTL
=============================================================================
