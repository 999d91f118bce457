----------------------------- MODULE MCSettings -----------------------------
(* Settings with its requests and its pages interchangeable. *)
EXTENDS Settings, TLC

Symmetry == Permutations(Requests) \cup Permutations(Pages)
==============================================================================
