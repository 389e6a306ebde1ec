------------------------------ MODULE MCProfiles ------------------------------
(* Profiles for TLC: created rows, and the sets permuted by symmetry.       *)
EXTENDS Profiles, TLC

CONSTANTS full  \* a user whose account was created with a name and a number
CONSTANTS x     \* the values it was created with

MCCreated ==
  [u \in Users |-> [f \in Fields |->
     IF u = full /\ f \in AccountFields THEN x ELSE None]]

Symmetry == Permutations(Calls) \cup Permutations(Reviews)
=============================================================================
