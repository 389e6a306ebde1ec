---------------------------- MODULE MCTimetable -----------------------------
(* Timetable for TLC: three lessons of one hour, of which one clashes with *)
(* both others, and one the next day at the same lecture number.           *)
EXTENDS Timetable, TLC

CONSTANTS l1, l2, l3, l4, ann, bob, secA, secB

MCTeacher == (l1 :> ann) @@ (l2 :> bob) @@ (l3 :> ann) @@ (l4 :> ann)
MCSection == (l1 :> secA) @@ (l2 :> secB) @@ (l3 :> secB) @@ (l4 :> secB)
MCDay == (l1 :> 1) @@ (l2 :> 1) @@ (l3 :> 1) @@ (l4 :> 2)
MCLecture == [l \in Lessons |-> 1]

Symmetry == Permutations(Calls) \cup Permutations(Rooms)
=============================================================================
