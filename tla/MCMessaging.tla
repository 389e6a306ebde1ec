----------------------------- MODULE MCMessaging -----------------------------
(* A teacher and a student, the student with two sockets and a telephone;    *)
(* the group of their section's assignment, and direct conversations.        *)
EXTENDS Messaging, TLC

CONSTANTS u1, u2

MCOwner == [s \in Sockets |-> u1]
Symmetry == Permutations(Requests) \cup Permutations(Sockets)
=============================================================================
