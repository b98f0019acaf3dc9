--------------------------- MODULE MCNodeRuntime ---------------------------
(* Finite instances of NodeRuntime for TLC. *)
EXTENDS NodeRuntime, Sequences, TLC

CONSTANTS a, b, x, y

(* The second version profiles one more binary of container a and none of b. *)
MCEntry ==
    SubSeq(<< (a :> {x}) @@ (b :> {x}), (a :> {x, y}) >>, 1, MaxVersion)
=============================================================================
