---------------------------- MODULE MCNodeLabel ----------------------------
(* Finite instances of NodeLabel for TLC. *)
EXTENDS NodeLabel
============================================================================
