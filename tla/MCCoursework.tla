---------------------------- MODULE MCCoursework ----------------------------
(* Coursework for TLC: a student who changed school and so has two profiles, *)
(* and another who has one; an assignment whose maximum does not divide a   *)
(* hundred (an eighth is half a percent off), and one without a maximum.    *)
EXTENDS Coursework, TLC

CONSTANTS eighths, unset, moved, other, before, after, only

MCUserOf == [s \in Students |-> IF s = only THEN other ELSE moved]

MCMaxMarks == [a \in Assignments |-> IF a = eighths THEN 8 ELSE 0]

\* One sheet that can be committed and one that cannot.
MCSheets == {Students, {only, Stranger}}

\* Bound: nothing is explored behind a due date.  All it changes is that nobody
\* submits any more.
BeforeDue == \A a \in Assignments : assignment[a] # "overdue"

Symmetry == Permutations(Calls) \cup Permutations({before, after})
=============================================================================
