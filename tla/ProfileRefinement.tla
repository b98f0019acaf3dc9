-------------------------- MODULE ProfileRefinement --------------------------
(* ProfileLifecycle implements ProfileProtection: what the finalizer lists, *)
(* cached copies and patches of the detailed specification stand for.       *)
EXTENDS ProfileLifecycle

(* A terminating profile is closing as long as the controller holds it. *)
LifeOf(obj) ==
    [phase |-> IF obj.phase # "terminating" THEN obj.phase
               ELSE IF Finalizer \in obj.finalizers THEN "closing" ELSE "released",
     uid   |-> obj.uid]

(* A permit is a patch that can still reach the server. *)
PermitOf(req) == [key |-> req.key, uid |-> req.uid]

Life    == [k \in Keys |-> LifeOf(profiles[k])]
Permits == {PermitOf(req) : req \in InFlight}

Protection == INSTANCE ProfileProtection WITH life <- Life, permits <- Permits

(* Whatever the stale caches, lost requests, retries and crashes of the     *)
(* controller, what happens to the stored profiles is what ProfileProtection*)
(* allows: handleDeletion only gives up its hold on a profile with a patch  *)
(* decided when the pods known at the deletion request were gone, or with a *)
(* patch left over from an earlier profile of that name.                    *)
ImplementsProtection == Protection!Spec
=============================================================================
