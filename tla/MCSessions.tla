----------------------------- MODULE MCSessions -----------------------------
(* Sessions with its requests interchangeable. *)
EXTENDS Sessions, TLC

Symmetry == Permutations(Workers)
==============================================================================
