----------------------------- MODULE MCEnrolment -----------------------------
(* Two schools with a class and a section each, a student and a teacher of   *)
(* the first, and calls that do any of the operations.                       *)
EXTENDS Enrolment, TLC

CONSTANTS home, other, kid, tutor, g1, g2, z1, z2

MCStartUsers == (kid :> [role |-> "STUDENT", school |-> home])
                @@ (tutor :> [role |-> "TEACHER", school |-> home])
MCStartGrades == (g1 :> home) @@ (g2 :> other)
MCStartSections == (z1 :> g1) @@ (z2 :> g2)
Symmetry == Permutations(Calls)
=============================================================================
