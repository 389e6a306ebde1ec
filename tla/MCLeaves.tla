------------------------------- MODULE MCLeaves -------------------------------
(* Leaves for TLC: a holiday of another section, and the sets that are      *)
(* permuted by symmetry.                                                    *)
EXTENDS Leaves, TLC

MCEvents == {[from |-> 0, to |-> NoDay, section |-> "elsewhere"]}
Symmetry == Permutations(Requests) \cup Permutations(Calls)
=============================================================================
