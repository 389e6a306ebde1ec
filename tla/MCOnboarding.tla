----------------------------- MODULE MCOnboarding -----------------------------
(* Onboarding for TLC: the sets that are permuted by symmetry.             *)
EXTENDS Onboarding, TLC

Symmetry == Permutations(Records) \cup Permutations(Requests)
=============================================================================
