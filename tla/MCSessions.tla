----------------------------- MODULE MCSessions -----------------------------
(* One user, two passwords, and five requests of any kind.                   *)
EXTENDS Sessions, TLC

Symmetry == Permutations(Calls)
=============================================================================
