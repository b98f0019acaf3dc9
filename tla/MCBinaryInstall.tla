-------------------------- MODULE MCBinaryInstall --------------------------
(* A finite instance of BinaryInstall for TLC. *)
EXTENDS BinaryInstall, TLC

CONSTANTS old, new, seal1, seal2, hook1

(* An upgrade that changes seal and leaves the hook as it is. *)
SealBuild == (old :> <<seal1, hook1>>) @@ (new :> <<seal2, hook1>>)
============================================================================
