------------------------------ MODULE MCLibrary ------------------------------
(* Library for TLC: the sets that are permuted by symmetry.                *)
EXTENDS Library, TLC

Symmetry == Permutations(Checkouts) \cup Permutations(Returns)
              \cup Permutations(Books)
=============================================================================
