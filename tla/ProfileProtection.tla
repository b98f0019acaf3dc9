-------------------------- MODULE ProfileProtection --------------------------
(***************************************************************************)
(* What the profile controller promises, without informers, work queue,    *)
(* patches or finalizer lists: a profile whose deletion is requested stays *)
(* until it is released, and a release needs a permit.  A permit for the   *)
(* profile at hand is given only when every pod the controller knew to use *)
(* it when the deletion was requested has gone.  Permits carry the         *)
(* incarnation they were given for, but a release does not look at it: one *)
(* given for an earlier profile of the name works as well.                 *)
(***************************************************************************)
EXTENDS Integers

CONSTANTS Keys, Pods, NoProfile, NotCreated, Deleted, MaxUid

VARIABLES
    life,           \* per key: phase and uid of the profile
    podRef,         \* the profile each pod uses
    witnessed,      \* per key: the pods that were known to use it
    permits         \* the releases that may still be carried out

pvars == <<life, podRef, witnessed, permits>>

Permit == [key : Keys, uid : 0..MaxUid]

Init ==
    /\ life = [k \in Keys |-> [phase |-> "absent", uid |-> 0]]
    /\ podRef = [p \in Pods |-> NotCreated]
    /\ witnessed = [k \in Keys |-> {}]
    /\ permits = {}

Moves(k, from, to) ==
    /\ life[k].phase = from
    /\ life' = [life EXCEPT ![k].phase = to]

Create(k) ==
    /\ life[k].phase = "absent"
    /\ life' = [life EXCEPT ![k] = [phase |-> "live", uid |-> @.uid + 1]]
    /\ UNCHANGED <<podRef, witnessed, permits>>

RequestDeletion(k, pods) ==
    /\ Moves(k, "live", "closing")
    /\ witnessed' = [witnessed EXCEPT ![k] = pods]
    /\ UNCHANGED <<podRef, permits>>

GivePermit(permit) ==
    /\ permit.uid <= life[permit.key].uid
    /\ permit.uid = life[permit.key].uid =>
           /\ life[permit.key].phase # "live"
           /\ \A p \in witnessed[permit.key] : podRef[p] # permit.key
    /\ permits' = permits \cup {permit}
    /\ UNCHANGED <<life, podRef, witnessed>>

(* Permits may lapse at any time, and one that is used may remain. *)
PermitsLapse == permits' \subseteq permits

(* Other owners may hold a released profile for a while. *)
Release(k) ==
    /\ \E permit \in permits : permit.key = k
    /\ Moves(k, "closing", "released") \/ Moves(k, "closing", "absent")
    /\ PermitsLapse
    /\ UNCHANGED <<podRef, witnessed>>

Vanish(k) ==
    /\ Moves(k, "released", "absent")
    /\ PermitsLapse
    /\ UNCHANGED <<podRef, witnessed>>

Lapse == PermitsLapse /\ UNCHANGED <<life, podRef, witnessed>>

(* A pod uses one profile, or none, all its life, and never comes back. *)
StartPod(p, ref) ==
    /\ podRef[p] = NotCreated
    /\ podRef' = [podRef EXCEPT ![p] = ref]
    /\ UNCHANGED <<life, witnessed, permits>>

EndPod(p) ==
    /\ podRef[p] \notin {NotCreated, Deleted}
    /\ podRef' = [podRef EXCEPT ![p] = Deleted]
    /\ UNCHANGED <<life, witnessed, permits>>

Next ==
    \/ \E k \in Keys : Create(k) \/ Release(k) \/ Vanish(k)
    \/ \E k \in Keys, pods \in SUBSET Pods : RequestDeletion(k, pods)
    \/ \E permit \in Permit : GivePermit(permit)
    \/ \E p \in Pods, ref \in Keys \cup {NoProfile} : StartPod(p, ref)
    \/ \E p \in Pods : EndPod(p)
    \/ Lapse

Spec == Init /\ [][Next]_pvars
=============================================================================
