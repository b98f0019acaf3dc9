-------------------------- MODULE ProfileLifecycle --------------------------
(***************************************************************************)
(* The life of LandlockProfile objects: the API server that stores them,   *)
(* the admission webhooks every write goes through, the controller that    *)
(* holds a finalizer on them while pods use them, and the users and        *)
(* kubelets that create and delete profiles and pods meanwhile.            *)
(*                                                                         *)
(* The controller never reads the API server: Get and List are answered by *)
(* informer caches that follow it at a distance, and its only write is a   *)
(* merge patch without a precondition.  A reconciliation is therefore      *)
(* split where other actors can intervene: read the profile, list the      *)
(* pods, apply the patch.                                                  *)
(***************************************************************************)
EXTENDS Integers, Sequences, FiniteSets

CONSTANTS
    Keys,           \* namespace/name of profiles; a name may be used again
    Pods,           \* pod incarnations; a pod that is deleted never comes back
    Finalizer,      \* v1alpha1.LandlockProfileFinalizer
    Foreign,        \* finalizers put on profiles by somebody else
    NoProfile,      \* "reference" of a pod without the profile label
    NotCreated,     \* "reference" of a pod that does not exist yet
    Deleted,        \* "reference" of a pod that is gone
    NoKey,          \* the worker holds no request
    VapEnabled,     \* the chart's vap.enabled value
    MaxUid,         \* bound: incarnations of a profile name
    MaxLag,         \* bound: undelivered events per object before users pause
    MaxCrashes,     \* bound: crashes of the controller
    MaxOrphans      \* bound: requests whose sender no longer waits for them

ASSUME FinalizerAssumption == Finalizer \notin Foreign

ASSUME ReferenceAssumption ==
    /\ NoProfile \notin Keys /\ NotCreated \notin Keys
    /\ Deleted \notin Keys   /\ NoKey \notin Keys
    /\ NoProfile # NotCreated /\ NoProfile # Deleted /\ NotCreated # Deleted

ASSUME BoundAssumption ==
    /\ MaxUid \in Nat /\ MaxLag \in Nat /\ MaxCrashes \in Nat
    /\ MaxOrphans \in Nat
    /\ VapEnabled \in BOOLEAN

VARIABLES
    profiles,       \* API server: the profile stored under each key
    podRef,         \* API server: the profile each pod names in its label
    cProfiles,      \* controller: informer cache of profiles
    cPods,          \* controller: informer cache of pod metadata
    profileWatch,   \* versions of each profile still on their way to the cache
    podWatch,       \* references of each pod still on their way to the cache
    queue,          \* controller: keys waiting in the work queue
    requeued,       \* controller: keys the 90 seconds timer will queue
    backoff,        \* controller: keys the rate limiter will queue
    pc,             \* controller: where the one worker is in Reconcile
    cur,            \* controller: the key being reconciled
    snap,           \* controller: the copy of the profile being reconciled
    up,             \* the controller process, and with it the webhooks, runs
    orphans,        \* patches in flight whose sender crashed or gave up
    crashes,        \* how often the controller crashed
    witnessed       \* history: the pods known to use a profile when its
                    \* deletion was requested

serverVars == <<profiles, podRef>>
watchVars  == <<profileWatch, podWatch>>
cacheVars  == <<cProfiles, cPods>>
queueVars  == <<queue, requeued, backoff>>
workerVars == <<pc, cur, snap>>
vars == <<serverVars, cacheVars, watchVars, queueVars, workerVars,
          up, orphans, crashes, witnessed>>

-----------------------------------------------------------------------------
(* Objects. *)

Finalizers == Foreign \cup {Finalizer}
Phases     == {"absent", "live", "terminating"}

(* A terminating profile has a deletion timestamp.  An absent one keeps the *)
(* uid of the last incarnation, so that uids of one name only grow.         *)
Object == [phase : Phases, uid : 0..MaxUid, finalizers : SUBSET Finalizers]
Never  == [phase |-> "absent", uid |-> 0, finalizers |-> {}]

References == Keys \cup {NoProfile, NotCreated, Deleted}

(* A finalizer-removing patch: the finalizer list in its body replaces the  *)
(* whole list of whatever profile it meets under the key.  uid is not sent; *)
(* it records which incarnation the sender had read.                        *)
Request == [key : Keys, uid : 0..MaxUid, finalizers : SUBSET Finalizers]

Exists(obj)      == obj.phase # "absent"
Gone(obj)        == [obj EXCEPT !.phase = "absent", !.finalizers = {}]
PodsNaming(refs, k) == {p \in Pods : refs[p] = k}

(* Terminating, and only waiting for the controller. *)
Pending(obj) == obj.phase = "terminating" /\ Finalizer \in obj.finalizers

-----------------------------------------------------------------------------
(* The API server and the admission chain. *)

(* Wrong variants used to show that a property depends on the code. *)
Default_SkipsNonEmpty(phase, fins) ==
    IF phase = "terminating" \/ fins # {} THEN fins ELSE fins \cup {Finalizer}
Default_Never(phase, fins) == fins

(* The mutating webhook: a profile that is not being deleted always leaves  *)
(* it with the finalizer.                                                   *)
Default(phase, fins) ==
    IF phase = "terminating" THEN fins ELSE fins \cup {Finalizer}

(* The API server refuses new finalizers on an object being deleted. *)
UpdateAllowed(obj, fins) ==
    /\ Exists(obj)
    /\ obj.phase = "terminating" =>
           Default(obj.phase, fins) \subseteq obj.finalizers

(* What a write of the finalizer list stores: a terminating object whose    *)
(* last finalizer goes away is removed.                                     *)
Updated(obj, fins) ==
    LET kept == Default(obj.phase, fins)
    IN  IF obj.phase = "terminating" /\ kept = {}
        THEN Gone(obj)
        ELSE [obj EXCEPT !.finalizers = kept]

(* A write that changes nothing produces no event; nobody watches while the *)
(* controller is down.                                                      *)
Store(k, obj) ==
    /\ profiles' = [profiles EXCEPT ![k] = obj]
    /\ profileWatch' = IF up /\ obj # profiles[k]
                       THEN [profileWatch EXCEPT ![k] = Append(@, obj)]
                       ELSE profileWatch

StorePod(p, ref) ==
    /\ podRef' = [podRef EXCEPT ![p] = ref]
    /\ podWatch' = IF up THEN [podWatch EXCEPT ![p] = Append(@, ref)]
                         ELSE podWatch

AdmitPodUpdate_Any(old, new) == TRUE

(* The validating admission policy of the chart: the profile label of a pod *)
(* is neither added, removed nor changed.                                   *)
AdmitPodUpdate(old, new) == VapEnabled => old = new

-----------------------------------------------------------------------------
(* Users, other controllers and kubelets. *)

(* Both webhooks have failurePolicy Fail and run in the controller process: *)
(* without it nobody creates or updates a profile.                          *)
CreateProfile(k, fins) ==
    /\ up
    /\ ~Exists(profiles[k])
    /\ profiles[k].uid < MaxUid /\ Len(profileWatch[k]) < MaxLag
    /\ Store(k, [phase |-> "live", uid |-> profiles[k].uid + 1,
                 finalizers |-> Default("live", fins)])
    /\ UNCHANGED <<podRef, podWatch, cacheVars, queueVars, workerVars,
                   up, orphans, crashes, witnessed>>

(* A user rewrites the finalizers of a live profile as he likes; on one     *)
(* being deleted, the owner of a foreign finalizer takes it off.  Nobody    *)
(* strips PodLock's finalizer from a profile being deleted by hand.         *)
UpdateProfile(k, fins) ==
    /\ up
    /\ profiles[k].phase = "terminating" /\ Finalizer \in profiles[k].finalizers
           => Finalizer \in fins
    /\ UpdateAllowed(profiles[k], fins)
    /\ Updated(profiles[k], fins) # profiles[k]
    /\ Len(profileWatch[k]) < MaxLag
    /\ Store(k, Updated(profiles[k], fins))
    /\ UNCHANGED <<podRef, podWatch, cacheVars, queueVars, workerVars,
                   up, orphans, crashes, witnessed>>

(* DELETE runs no webhook that can refuse it. *)
DeleteProfile(k) ==
    /\ profiles[k].phase = "live"
    /\ Len(profileWatch[k]) < MaxLag
    /\ Store(k, IF profiles[k].finalizers = {}
                THEN Gone(profiles[k])
                ELSE [profiles[k] EXCEPT !.phase = "terminating"])
    /\ witnessed' = [witnessed EXCEPT ![k] =
                         PodsNaming(IF up THEN cPods ELSE podRef, k)]
    /\ UNCHANGED <<podRef, podWatch, cacheVars, queueVars, workerVars,
                   up, orphans, crashes>>

CreatePod(p, ref) ==
    /\ podRef[p] = NotCreated
    /\ Len(podWatch[p]) < MaxLag
    /\ StorePod(p, ref)
    /\ UNCHANGED <<profiles, profileWatch, cacheVars, queueVars, workerVars,
                   up, orphans, crashes, witnessed>>

DeletePod(p) ==
    /\ podRef[p] \notin {NotCreated, Deleted}
    /\ Len(podWatch[p]) < MaxLag
    /\ StorePod(p, Deleted)
    /\ UNCHANGED <<profiles, profileWatch, cacheVars, queueVars, workerVars,
                   up, orphans, crashes, witnessed>>

RelabelPod(p, ref) ==
    /\ podRef[p] \notin {NotCreated, Deleted}
    /\ podRef[p] # ref
    /\ AdmitPodUpdate(podRef[p], ref)
    /\ Len(podWatch[p]) < MaxLag
    /\ StorePod(p, ref)
    /\ UNCHANGED <<profiles, profileWatch, cacheVars, queueVars, workerVars,
                   up, orphans, crashes, witnessed>>

-----------------------------------------------------------------------------
(* The informers of the controller. *)

DeliverProfileEvent(k) ==
    /\ up
    /\ profileWatch[k] # <<>>
    /\ cProfiles' = [cProfiles EXCEPT ![k] = Head(profileWatch[k])]
    /\ profileWatch' = [profileWatch EXCEPT ![k] = Tail(@)]
    /\ queue' = queue \cup {k}
    /\ UNCHANGED <<serverVars, cPods, podWatch, requeued, backoff, workerVars,
                   up, orphans, crashes, witnessed>>

findProfilesForPod_Nothing(ref) == {}
findProfilesForPod_NoLabelCheck(ref) == {ref}

(* The profile a pod's label names, if it has the label. *)
findProfilesForPod(ref) == {ref} \cap Keys

(* A pod event wakes the profiles named before and after it. *)
DeliverPodEvent(p) ==
    /\ up
    /\ podWatch[p] # <<>>
    /\ cPods' = [cPods EXCEPT ![p] = Head(podWatch[p])]
    /\ podWatch' = [podWatch EXCEPT ![p] = Tail(@)]
    /\ queue' = queue \cup findProfilesForPod(cPods[p])
                      \cup findProfilesForPod(Head(podWatch[p]))
    /\ UNCHANGED <<serverVars, cProfiles, profileWatch, requeued, backoff, workerVars,
                   up, orphans, crashes, witnessed>>

(* The timers of the work queue.  In a crashed process there are none. *)
FireTimer(k) ==
    /\ \/ k \in requeued /\ requeued' = requeued \ {k} /\ UNCHANGED backoff
       \/ k \in backoff /\ backoff' = backoff \ {k} /\ UNCHANGED requeued
    /\ queue' = queue \cup {k}
    /\ UNCHANGED <<serverVars, cacheVars, watchVars, workerVars,
                   up, orphans, crashes, witnessed>>

-----------------------------------------------------------------------------
(* The reconciler: one worker. *)

Idle == pc' = "idle" /\ cur' = NoKey /\ snap' = Never

TakeKey(k) ==
    /\ pc = "idle" /\ k \in queue
    /\ queue' = queue \ {k}
    /\ pc' = "get" /\ cur' = k /\ snap' = Never
    /\ UNCHANGED <<serverVars, cacheVars, watchVars, requeued, backoff,
                   up, orphans, crashes, witnessed>>

(* r.Get and the checks up to the List: only a profile that is being        *)
(* deleted and carries the finalizer is of interest.                        *)
ReconcileGet ==
    /\ pc = "get"
    /\ \/ /\ Pending(cProfiles[cur])
          /\ pc' = "list" /\ snap' = cProfiles[cur] /\ cur' = cur
       \/ ~Pending(cProfiles[cur]) /\ Idle
    /\ UNCHANGED <<serverVars, cacheVars, watchVars, queueVars,
                   up, orphans, crashes, witnessed>>

ReconcileList_IgnoresPods ==
    /\ pc = "list" /\ pc' = "patch"
    /\ UNCHANGED <<serverVars, cacheVars, watchVars, queueVars, cur, snap,
                   up, orphans, crashes, witnessed>>

(* r.List: come back in 90 seconds while the cache knows a pod using it. *)
ReconcileList ==
    /\ pc = "list"
    /\ \/ /\ PodsNaming(cPods, cur) # {}
          /\ requeued' = requeued \cup {cur}
          /\ Idle
       \/ /\ PodsNaming(cPods, cur) = {}
          /\ pc' = "patch"
          /\ UNCHANGED <<cur, snap, requeued>>
    /\ UNCHANGED <<serverVars, cacheVars, watchVars, queue, backoff,
                   up, orphans, crashes, witnessed>>

RemoveFinalizer_All(fins) == {}
RemoveFinalizer(fins) == fins \ {Finalizer}

PatchOf(k, obj) == [key |-> k, uid |-> obj.uid,
                    finalizers |-> RemoveFinalizer(obj.finalizers)]

(* What the work queue schedules when Reconcile returns an error. *)
RetryAfterError_Forgets(k) == {}
RetryAfterError(k) == {k}

(* The patch reaches the server and its answer the reconciler. *)
ReconcilePatch ==
    /\ pc = "patch"
    /\ LET obj == profiles[cur]
           req == PatchOf(cur, snap)
       IN  \/ /\ UpdateAllowed(obj, req.finalizers)
              /\ Store(cur, Updated(obj, req.finalizers))
              /\ UNCHANGED backoff
           \/ /\ ~UpdateAllowed(obj, req.finalizers)
              /\ backoff' = backoff \cup RetryAfterError(cur)
              /\ UNCHANGED <<profiles, profileWatch>>
    /\ Idle
    /\ UNCHANGED <<podRef, cacheVars, podWatch, queue, requeued,
                   up, orphans, crashes, witnessed>>

(* A call fails and Reconcile returns the error: the rate limiter brings    *)
(* the key back.  A patch that failed on the way may still arrive.          *)
ReconcileError ==
    /\ pc \in {"get", "list", "patch"}
    /\ backoff' = backoff \cup RetryAfterError(cur)
    /\ \/ UNCHANGED orphans
       \/ /\ pc = "patch" /\ Cardinality(orphans) < MaxOrphans
          /\ orphans' = orphans \cup {PatchOf(cur, snap)}
    /\ Idle
    /\ UNCHANGED <<serverVars, cacheVars, watchVars, queue, requeued,
                   up, crashes, witnessed>>

(* A patch nobody waits for any more arrives, or is lost.  Applying it      *)
(* calls the webhooks.                                                      *)
OrphanArrives(req) ==
    /\ req \in orphans
    /\ orphans' = orphans \ {req}
    /\ \/ /\ up /\ UpdateAllowed(profiles[req.key], req.finalizers)
          /\ Store(req.key, Updated(profiles[req.key], req.finalizers))
       \/ UNCHANGED <<profiles, profileWatch>>
    /\ UNCHANGED <<podRef, cacheVars, podWatch, queueVars, workerVars,
                   up, crashes, witnessed>>

(* Everything in the process is lost: queues, timers and caches. *)
ControllerCrash ==
    /\ up /\ crashes < MaxCrashes
    /\ up' = FALSE /\ crashes' = crashes + 1
    /\ \/ UNCHANGED orphans
       \/ /\ pc = "patch" /\ Cardinality(orphans) < MaxOrphans
          /\ orphans' = orphans \cup {PatchOf(cur, snap)}
    /\ queue' = {} /\ requeued' = {} /\ backoff' = {} /\ Idle
    /\ cProfiles' = [k \in Keys |-> Never]
    /\ cPods' = [p \in Pods |-> NotCreated]
    /\ profileWatch' = [k \in Keys |-> <<>>]
    /\ podWatch' = [p \in Pods |-> <<>>]
    /\ UNCHANGED <<serverVars, witnessed>>

(* The caches are filled from the server, and every object in them is       *)
(* announced to the handlers as if it had just been created.                *)
ControllerRestart ==
    /\ ~up
    /\ up' = TRUE
    /\ cProfiles' = profiles /\ cPods' = podRef
    /\ queue' = {k \in Keys : Exists(profiles[k])}
                    \cup UNION {findProfilesForPod(podRef[p]) : p \in Pods}
    /\ UNCHANGED <<serverVars, watchVars, requeued, backoff, workerVars,
                   orphans, crashes, witnessed>>

-----------------------------------------------------------------------------
Init ==
    /\ profiles = [k \in Keys |-> Never]
    /\ podRef = [p \in Pods |-> NotCreated]
    /\ cProfiles = [k \in Keys |-> Never]
    /\ cPods = [p \in Pods |-> NotCreated]
    /\ profileWatch = [k \in Keys |-> <<>>]
    /\ podWatch = [p \in Pods |-> <<>>]
    /\ queue = {} /\ requeued = {} /\ backoff = {}
    /\ pc = "idle" /\ cur = NoKey /\ snap = Never
    /\ up = TRUE /\ orphans = {} /\ crashes = 0
    /\ witnessed = [k \in Keys |-> {}]

Environment ==
    \/ \E k \in Keys, fins \in SUBSET Finalizers : CreateProfile(k, fins)
    \/ \E k \in Keys, fins \in SUBSET Finalizers : UpdateProfile(k, fins)
    \/ \E k \in Keys : DeleteProfile(k)
    \/ \E p \in Pods, ref \in Keys \cup {NoProfile} : CreatePod(p, ref)
    \/ \E p \in Pods : DeletePod(p)
    \/ \E p \in Pods, ref \in Keys \cup {NoProfile} : RelabelPod(p, ref)

Controller ==
    \/ \E k \in Keys : DeliverProfileEvent(k)
    \/ \E p \in Pods : DeliverPodEvent(p)
    \/ \E k \in Keys : FireTimer(k)
    \/ \E k \in Keys : TakeKey(k)
    \/ ReconcileGet
    \/ ReconcileList
    \/ ReconcilePatch

Faults ==
    \/ ReconcileError
    \/ \E req \in orphans : OrphanArrives(req)
    \/ ControllerCrash
    \/ ControllerRestart

Next == Environment \/ Controller \/ Faults

Spec == Init /\ [][Next]_vars

(* Users owe nothing.  Watches deliver, timers fire, the process is         *)
(* restarted by its Deployment, and an operation the reconciler retries for *)
(* ever succeeds at some point.                                             *)
Fairness ==
    /\ \A k \in Keys : WF_vars(DeliverProfileEvent(k))
    /\ \A p \in Pods : WF_vars(DeliverPodEvent(p))
    /\ \A k \in Keys : WF_vars(FireTimer(k))
    /\ \A k \in Keys : SF_vars(TakeKey(k))
    /\ \A k \in Keys : /\ SF_vars(cur = k /\ ReconcileGet)
                       /\ SF_vars(cur = k /\ ReconcileList)
                       /\ SF_vars(cur = k /\ ReconcilePatch)
    /\ WF_vars(ControllerRestart)

FairSpec == Spec /\ Fairness

-----------------------------------------------------------------------------
(* Properties. *)

TypeOK ==
    /\ profiles \in [Keys -> Object]
    /\ podRef \in [Pods -> References]
    /\ cProfiles \in [Keys -> Object]
    /\ cPods \in [Pods -> References]
    /\ profileWatch \in [Keys -> Seq(Object)]
    /\ podWatch \in [Pods -> Seq(References)]
    /\ queue \subseteq Keys /\ requeued \subseteq Keys /\ backoff \subseteq Keys
    /\ pc \in {"idle", "get", "list", "patch"}
    /\ cur \in Keys \cup {NoKey}
    /\ pc # "idle" => cur \in Keys
    /\ snap \in Object
    /\ up \in BOOLEAN
    /\ orphans \subseteq Request
    /\ crashes \in Nat
    /\ witnessed \in [Keys -> SUBSET Pods]

(* The patches that may still be applied. *)
InFlight == orphans \cup (IF pc = "patch" THEN {PatchOf(cur, snap)} ELSE {})

(* No profile is ever stored without the finalizer before its deletion is   *)
(* requested, even when a patch computed for an earlier profile of the same *)
(* name lands on it: the Default webhook puts the finalizer back.           *)
LiveProfilesProtected ==
    \A k \in Keys : profiles[k].phase = "live" =>
                        Finalizer \in profiles[k].finalizers

(* handleDeletion lists pods from a cache and patches later.  A patch made  *)
(* for the current incarnation was nevertheless decided after every pod the *)
(* controller knew about when the deletion was requested had gone away.     *)
WitnessedPodsBlockRelease ==
    \A req \in InFlight :
        req.uid = profiles[req.key].uid =>
            \A p \in witnessed[req.key] : podRef[p] # req.key

(* The merge patch replaces the whole finalizer list with one computed from *)
(* a cached copy.  While the profile it was computed for exists, that list  *)
(* still holds every foreign finalizer the server has.                      *)
PatchKeepsForeignFinalizers ==
    \A req \in InFlight :
        req.uid = profiles[req.key].uid =>
            profiles[req.key].finalizers \cap Foreign \subseteq req.finalizers

(* As long as a profile waits for the controller to release it, something   *)
(* will make a running controller look at it again: an event on its way, a  *)
(* queued key, a timer or the reconciliation in progress.                   *)
PendingProfilesTracked ==
    \A k \in Keys : up /\ Pending(profiles[k]) =>
        \/ profileWatch[k] # <<>>
        \/ k \in queue \cup requeued \cup backoff
        \/ pc # "idle" /\ cur = k

(* A profile the controller knows to be deleted and unused does not wait    *)
(* for the 90 seconds timer: the event of the last pod that stopped using   *)
(* it has queued it, and after an error the rate limiter has it.            *)
UnusedProfilesPrompt ==
    \A k \in Keys :
        Pending(cProfiles[k]) /\ PodsNaming(cPods, k) = {} =>
            \/ profileWatch[k] # <<>>
            \/ k \in queue \cup backoff
            \/ pc # "idle" /\ cur = k

(* Deleting a profile always takes two steps, whatever the cache, the patch *)
(* in flight and the restarts: no step makes a live profile vanish.         *)
DeletionIsTwoPhase ==
    [][\A k \in Keys : profiles[k].phase = "live" =>
           /\ Exists(profiles'[k])
           /\ profiles'[k].uid = profiles[k].uid]_vars

(* "The profile's finalizer will remain in place until all Pods referencing *)
(* the profile have been deleted" (concepts.adoc), for the pods known when  *)
(* the deletion was requested: a patch made for an earlier profile of that  *)
(* name does not release a later one whose pods are still there.            *)
DeletedOnlyAfterWitnesses ==
    [][\A k \in Keys : Exists(profiles[k]) /\ ~Exists(profiles'[k]) =>
           \A p \in witnessed[k] : podRef[p] # k]_vars

(* A deleted profile that pods stop using for good is released: the         *)
(* controller takes its finalizer off in spite of errors, lost requests and *)
(* crashes.                                                                 *)
EventuallyReleased ==
    \A k \in Keys :
        <>[](PodsNaming(podRef, k) = {}) =>
            [](Pending(profiles[k]) => <>(~Pending(profiles[k])))
=============================================================================
