------------------------ MODULE MCProfileLifecycle ------------------------
(* Finite instances of ProfileLifecycle for TLC. *)
EXTENDS ProfileRefinement, TLC

(* Pods are interchangeable; so are keys and foreign finalizers. *)
Symmetry == Permutations(Pods) \cup Permutations(Keys) \cup Permutations(Foreign)
===========================================================================
