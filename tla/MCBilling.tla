------------------------------ MODULE MCBilling ------------------------------
(* Billing for TLC: the sets that are permuted by symmetry.                *)
EXTENDS Billing, TLC

Symmetry == Permutations(Payments) \cup Permutations(Numbers)
              \cup Permutations(Schools)
=============================================================================
