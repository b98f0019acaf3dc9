----------------------- MODULE ProfileRefinementProofs -----------------------
(* ProfileLifecycle implements ProfileProtection, for any set of profiles,  *)
(* pods and foreign finalizers and any value of the bounds, when the label  *)
(* of a pod cannot be changed.                                              *)
EXTENDS ProfileRefinement, ProfileLifecycleProofs

-----------------------------------------------------------------------------
(* What the writes to one stored profile look like in the abstract.         *)

(* An accepted write of the finalizer list leaves a profile in its phase,   *)
(* releases it or removes it; it is only released if the write takes        *)
(* PodLock's finalizer off.                                                 *)
LEMMA UpdateLife ==
    ASSUME NEW obj \in Object, NEW fins \in SUBSET Finalizers,
           UpdateAllowed(obj, fins)
    PROVE  LET new == LifeOf(Updated(obj, fins))
           IN  \/ new = LifeOf(obj)
               \/ /\ LifeOf(obj).phase = "closing" /\ Finalizer \notin fins
                  /\ \/ new = [LifeOf(obj) EXCEPT !.phase = "released"]
                     \/ new = [LifeOf(obj) EXCEPT !.phase = "absent"]
               \/ /\ LifeOf(obj).phase = "released"
                  /\ new = [LifeOf(obj) EXCEPT !.phase = "absent"]
  <1>1. obj.phase \in {"live", "terminating"}
    BY DEF UpdateAllowed, Exists, Object, Phases
  <1>2. CASE obj.phase = "live"
    BY <1>2 DEF Updated, LifeOf, Object
  <1>3. CASE obj.phase = "terminating" /\ fins = {}
    BY <1>3 DEF Updated, LifeOf, Object, Default, Gone
  <1>4. CASE obj.phase = "terminating" /\ fins # {}
    <2>1. Updated(obj, fins) = [obj EXCEPT !.finalizers = fins]
      BY <1>4 DEF Updated, Default
    <2>2. fins \subseteq obj.finalizers
      BY <1>4 DEF UpdateAllowed, Default
    <2>. QED  BY <1>4, <2>1, <2>2 DEF LifeOf, Object
  <1>. QED  BY <1>1, <1>2, <1>3, <1>4

(* Storing a profile changes the abstract life of that profile only. *)
LEMMA StoreLife ==
    ASSUME TypeOK, NEW k \in Keys, NEW obj \in Object, Store(k, obj)
    PROVE  Life' = [Life EXCEPT ![k] = LifeOf(obj)]
  <1>1. profiles' = [profiles EXCEPT ![k] = obj]
    BY DEF Store
  <1>2. \A j \in Keys : LifeOf(profiles'[j]) =
                            IF j = k THEN LifeOf(obj) ELSE LifeOf(profiles[j])
    BY <1>1 DEF TypeOK
  <1>3. Life' = [j \in Keys |-> LifeOf(profiles'[j])]
    BY DEF Life, LifeOf
  <1>. QED  BY <1>2, <1>3 DEF Life

(* A Store that only moves a profile to another phase is a move. *)
LEMMA StoreMoves ==
    ASSUME TypeOK, NEW k \in Keys, NEW obj \in Object, Store(k, obj),
           NEW to, LifeOf(obj) = [LifeOf(profiles[k]) EXCEPT !.phase = to]
    PROVE  Protection!Moves(k, LifeOf(profiles[k]).phase, to)
  <1>1. Life[k] = LifeOf(profiles[k])
    BY DEF Life
  <1>2. Life' = [Life EXCEPT ![k] = LifeOf(obj)]
    BY StoreLife
  <1>3. LifeOf(obj) = [Life[k] EXCEPT !.phase = to]
    BY <1>1
  <1>. QED  BY <1>1, <1>2, <1>3 DEF Protection!Moves

(* A Store that keeps the abstract life changes nothing of it. *)
LEMMA StoreKeeps ==
    ASSUME TypeOK, NEW k \in Keys, NEW obj \in Object, Store(k, obj),
           LifeOf(obj) = LifeOf(profiles[k])
    PROVE  Life' = Life
  BY StoreLife DEF Life

(* An accepted write by somebody who holds a patch in flight, or by a user  *)
(* who leaves PodLock's finalizer alone, is a step of ProfileProtection.    *)
LEMMA WriteImplements ==
    ASSUME TypeOK, NEW k \in Keys, NEW fins \in SUBSET Finalizers,
           UpdateAllowed(profiles[k], fins),
           Store(k, Updated(profiles[k], fins)),
           \/ \E permit \in Permits : permit.key = k
           \/ LifeOf(profiles[k]).phase = "closing" => Finalizer \in fins,
           Permits' \subseteq Permits, UNCHANGED <<podRef, witnessed>>
    PROVE  Protection!Next
  <1>. DEFINE new == Updated(profiles[k], fins)
  <1>1. profiles[k] \in Object /\ new \in Object
    BY UpdatedType DEF TypeOK
  <1>2. CASE LifeOf(new) = LifeOf(profiles[k])
    <2>1. Life' = Life
      BY <1>1, <1>2, StoreKeeps
    <2>. QED  BY <2>1 DEF Protection!Next, Protection!Lapse, Protection!PermitsLapse
  <1>3. CASE /\ LifeOf(profiles[k]).phase = "closing" /\ Finalizer \notin fins
             /\ \/ LifeOf(new) = [LifeOf(profiles[k]) EXCEPT !.phase = "released"]
                \/ LifeOf(new) = [LifeOf(profiles[k]) EXCEPT !.phase = "absent"]
    <2>1. \/ Protection!Moves(k, "closing", "released")
          \/ Protection!Moves(k, "closing", "absent")
      BY <1>1, <1>3, StoreMoves
    <2>2. Protection!Release(k)
      BY <1>3, <2>1 DEF Protection!Release, Protection!PermitsLapse
    <2>. QED  BY <2>2 DEF Protection!Next
  <1>4. CASE /\ LifeOf(profiles[k]).phase = "released"
             /\ LifeOf(new) = [LifeOf(profiles[k]) EXCEPT !.phase = "absent"]
    <2>1. Protection!Moves(k, "released", "absent")
      BY <1>1, <1>4, StoreMoves
    <2>2. Protection!Vanish(k)
      BY <2>1 DEF Protection!Vanish, Protection!PermitsLapse
    <2>. QED  BY <2>2 DEF Protection!Next
  <1>. QED  BY <1>1, <1>2, <1>3, <1>4, UpdateLife

-----------------------------------------------------------------------------
(* The steps, by what they do to the permits. *)

(* When no patch leaves or enters flight, neither does a permit. *)
LEMMA SamePermits ==
    ASSUME UNCHANGED <<orphans, pc, cur, snap>>
    PROVE  Permits' = Permits
  BY DEF Permits, PermitOf, InFlight, PatchOf, RemoveFinalizer

(* An empty List is the only step that gives a permit. *)
LEMMA PermitsShrink ==
    ASSUME TypeOK, [Next]_vars, ~ReconcileList
    PROVE  Permits' \subseteq Permits
  <1>1. pc' = "patch" => pc = "patch" /\ cur' = cur /\ snap' = snap
    BY DEF Next, Environment, Controller, Faults, vars, workerVars,
        Idle, CreateProfile, UpdateProfile, DeleteProfile, CreatePod,
        DeletePod, RelabelPod, DeliverPodEvent, FireTimer, TakeKey,
        ReconcileGet, ReconcileError, ControllerRestart, ControllerCrash,
        DeliverProfileEvent, ReconcilePatch, OrphanArrives
  <1>2. PatchOf(cur, snap)' = PatchOf(cur', snap')
    BY DEF PatchOf, RemoveFinalizer
  <1>3. InFlight' \subseteq InFlight
    BY <1>1, <1>2, OrphanSources DEF InFlight
  <1>4. Permits' = {PermitOf(req) : req \in InFlight'}
    BY DEF Permits, PermitOf
  <1>. QED  BY <1>3, <1>4 DEF Permits

(* Whatever is in flight was computed from an old version of its profile.   *)
InFlightOld ==
    \A req \in InFlight : req \in Request /\ Agrees(req, profiles[req.key])

LEMMA InFlightInvariant == Spec => []InFlightOld
  <1>1. TypeOK /\ ReadInv => InFlightOld
    BY InFlightAgrees DEF InFlightOld
  <1>. QED  BY <1>1, TypeCorrect, ReadInvariant, PTL

(* The List that finds no pod: the patch it leads to is a permit, and the   *)
(* pods that were known at the deletion are gone.                           *)
LEMMA ListImplements ==
    ASSUME TypeOK, InFlightOld', WitnessedPodsBlockRelease', ReconcileList
    PROVE  Protection!Next \/ UNCHANGED Protection!pvars
  <1>. USE DEF serverVars
  <1>1. UNCHANGED <<profiles, podRef, witnessed, orphans>> /\ pc = "list"
    BY DEF ReconcileList
  <1>2. Life' = Life
    BY <1>1 DEF Life, LifeOf
  <1>3. CASE pc' # "patch"
    <2>1. Permits' = Permits
      BY <1>1, <1>3 DEF Permits, PermitOf, InFlight
    <2>. QED  BY <1>1, <1>2, <2>1 DEF Protection!pvars
  <1>4. CASE pc' = "patch"
    <2>. DEFINE req == PatchOf(cur', snap')
                permit == PermitOf(req)
    <2>1. InFlight' = orphans \cup {req}
      BY <1>1, <1>4 DEF InFlight, PatchOf, RemoveFinalizer
    <2>2. InFlight = orphans
      BY <1>1 DEF InFlight
    <2>3. Permits' = Permits \cup {permit}
      <3>1. Permits' = {PermitOf(r) : r \in InFlight'}
        BY DEF Permits, PermitOf
      <3>. QED  BY <2>1, <2>2, <3>1 DEF Permits
    <2>4. req \in Request /\ Agrees(req, profiles[req.key])
      <3>1. \A r \in InFlight' : r \in Request /\ Agrees(r, profiles'[r.key])
        BY DEF InFlightOld, Agrees
      <3>. QED  BY <1>1, <2>1, <3>1
    <2>5. \A p \in witnessed[req.key] :
              req.uid = profiles[req.key].uid => podRef[p] # req.key
      BY <1>1, <2>1 DEF WitnessedPodsBlockRelease
    <2>6. /\ permit \in Protection!Permit
          /\ permit.key = req.key /\ permit.uid = req.uid
      BY <2>4 DEF PermitOf, Request, Protection!Permit
    <2>7. /\ Life[permit.key].uid = profiles[req.key].uid
          /\ profiles[req.key].phase # "live" =>
                 Life[permit.key].phase # "live"
      BY <2>4, <2>6 DEF Life, LifeOf, Request
    <2>8. Protection!GivePermit(permit)
      BY <1>1, <1>2, <2>3, <2>4, <2>5, <2>6, <2>7
      DEF Protection!GivePermit, Agrees
    <2>. QED  BY <2>6, <2>8 DEF Protection!Next
  <1>. QED  BY <1>3, <1>4

(* Every step of the controller, of the API server and of its users is a    *)
(* step of ProfileProtection or changes nothing in it.                      *)
LEMMA StepImplements ==
    ASSUME VapEnabled, TypeOK, LiveProfilesProtected, InFlightOld,
           InFlightOld', WitnessedPodsBlockRelease', [Next]_vars
    PROVE  Protection!Next \/ UNCHANGED Protection!pvars
  <1>. USE DEF serverVars, workerVars
  <1>1. ASSUME NEW k \in Keys, NEW fins \in SUBSET Finalizers,
               CreateProfile(k, fins)
        PROVE  Protection!Next
    <2>. DEFINE new == [phase |-> "live", uid |-> profiles[k].uid + 1,
                        finalizers |-> Default("live", fins)]
    <2>1. new \in Object
      <3>1. profiles[k].uid + 1 \in 0..MaxUid
        BY <1>1, BoundAssumption DEF CreateProfile, TypeOK, Object
      <3>. QED  BY <3>1 DEF Default, Finalizers, Object, Phases
    <2>2. Life' = [Life EXCEPT ![k] = LifeOf(new)]
      BY <1>1, <2>1, StoreLife DEF CreateProfile
    <2>3. /\ Life[k].phase = "absent" /\ Life[k].uid = profiles[k].uid
          /\ LifeOf(new) = [phase |-> "live", uid |-> Life[k].uid + 1]
      BY <1>1 DEF Life, LifeOf, CreateProfile, Exists
    <2>4. Permits' = Permits
      BY <1>1, SamePermits DEF CreateProfile
    <2>5. Protection!Create(k)
      BY <1>1, <2>2, <2>3, <2>4 DEF CreateProfile, Protection!Create
    <2>. QED  BY <2>5 DEF Protection!Next
  <1>2. ASSUME NEW k \in Keys, NEW fins \in SUBSET Finalizers,
               UpdateProfile(k, fins)
        PROVE  Protection!Next
    <2>1. Permits' = Permits
      BY <1>2, SamePermits DEF UpdateProfile
    <2>2. LifeOf(profiles[k]).phase = "closing" => Finalizer \in fins
      <3>1. profiles[k].phase # "closing"
        BY DEF TypeOK, Object, Phases
      <3>. QED  BY <1>2, <3>1 DEF UpdateProfile, LifeOf
    <2>3. /\ UpdateAllowed(profiles[k], fins)
          /\ Store(k, Updated(profiles[k], fins))
          /\ UNCHANGED <<podRef, witnessed>>
      BY <1>2 DEF UpdateProfile
    <2>4. Permits' \subseteq Permits
      BY <2>1
    <2>. QED  BY <2>2, <2>3, <2>4, WriteImplements
  <1>3. ASSUME NEW k \in Keys, DeleteProfile(k)
        PROVE  Protection!Next
    <2>. DEFINE new == [profiles[k] EXCEPT !.phase = "terminating"]
    <2>1. /\ profiles[k] \in Object /\ profiles[k].phase = "live"
          /\ Finalizer \in profiles[k].finalizers
      BY <1>3 DEF DeleteProfile, LiveProfilesProtected, TypeOK
    <2>2. new \in Object
      BY <2>1 DEF Object, Phases
    <2>3. Store(k, new)
      BY <1>3, <2>1 DEF DeleteProfile
    <2>4. LifeOf(new) = [LifeOf(profiles[k]) EXCEPT !.phase = "closing"]
      BY <2>1 DEF LifeOf, Object
    <2>5. Protection!Moves(k, "live", "closing")
      <3>1. LifeOf(profiles[k]).phase = "live"
        BY <2>1 DEF LifeOf
      <3>. QED  BY <2>2, <2>3, <2>4, <3>1, StoreMoves
    <2>6. Permits' = Permits
      BY <1>3, SamePermits DEF DeleteProfile
    <2>. DEFINE pods == PodsNaming(IF up THEN cPods ELSE podRef, k)
    <2>7. /\ pods \in SUBSET Pods
          /\ Protection!RequestDeletion(k, pods)
      BY <1>3, <2>5, <2>6
      DEF DeleteProfile, PodsNaming, Protection!RequestDeletion
    <2>. QED  BY <2>7 DEF Protection!Next
  <1>4. ASSUME NEW p \in Pods, NEW ref \in Keys \cup {NoProfile},
               CreatePod(p, ref)
        PROVE  Protection!Next
    <2>1. Life' = Life /\ Permits' = Permits
      BY <1>4, SamePermits DEF CreatePod, Life, LifeOf
    <2>2. Protection!StartPod(p, ref)
      BY <1>4, <2>1 DEF CreatePod, StorePod, Protection!StartPod
    <2>. QED  BY <2>2 DEF Protection!Next
  <1>5. ASSUME NEW p \in Pods, DeletePod(p)
        PROVE  Protection!Next
    <2>1. Life' = Life /\ Permits' = Permits
      BY <1>5, SamePermits DEF DeletePod, Life, LifeOf
    <2>2. Protection!EndPod(p)
      BY <1>5, <2>1 DEF DeletePod, StorePod, Protection!EndPod
    <2>. QED  BY <2>2 DEF Protection!Next
  <1>6. CASE ReconcileList
    BY <1>6, ListImplements
  <1>7. CASE ReconcilePatch
    <2>. DEFINE req == PatchOf(cur, snap)
    <2>1. /\ cur \in Keys /\ req \in Request /\ req.key = cur
          /\ PermitOf(req) \in Permits /\ PermitOf(req).key = cur
      BY <1>7, PatchType
      DEF ReconcilePatch, TypeOK, PatchOf, Permits, PermitOf, InFlight
    <2>2. Permits' \subseteq Permits
      <3>1. ~ReconcileList
        BY <1>7 DEF ReconcilePatch, ReconcileList
      <3>. QED  BY <3>1, PermitsShrink
    <2>3. UNCHANGED <<podRef, witnessed>>
      BY <1>7 DEF ReconcilePatch
    <2>4. CASE /\ UpdateAllowed(profiles[cur], req.finalizers)
               /\ Store(cur, Updated(profiles[cur], req.finalizers))
      BY <2>1, <2>2, <2>3, <2>4, WriteImplements DEF Request
    <2>5. CASE UNCHANGED profiles
      BY <2>2, <2>3, <2>5
      DEF Life, LifeOf, Protection!Next, Protection!Lapse,
          Protection!PermitsLapse
    <2>. QED  BY <1>7, <2>4, <2>5 DEF ReconcilePatch
  <1>8. ASSUME NEW req \in orphans, OrphanArrives(req)
        PROVE  Protection!Next
    <2>1. /\ req \in Request /\ req.key \in Keys
          /\ PermitOf(req) \in Permits /\ PermitOf(req).key = req.key
      BY DEF TypeOK, Request, Permits, PermitOf, InFlight
    <2>2. UNCHANGED <<pc, cur, snap, podRef, witnessed>>
      BY <1>8 DEF OrphanArrives
    <2>3. Permits' \subseteq Permits
      BY <1>8, <2>2
      DEF OrphanArrives, Permits, PermitOf, InFlight, PatchOf, RemoveFinalizer
    <2>4. CASE /\ UpdateAllowed(profiles[req.key], req.finalizers)
               /\ Store(req.key, Updated(profiles[req.key], req.finalizers))
      BY <2>1, <2>2, <2>3, <2>4, WriteImplements DEF Request
    <2>5. CASE UNCHANGED profiles
      BY <2>2, <2>3, <2>5
      DEF Life, LifeOf, Protection!Next, Protection!Lapse,
          Protection!PermitsLapse
    <2>. QED  BY <1>8, <2>4, <2>5 DEF OrphanArrives
  <1>9. ASSUME UNCHANGED <<profiles, podRef, witnessed>>, ~ReconcileList
        PROVE  Protection!Next
    <2>1. Permits' \subseteq Permits
      BY <1>9, PermitsShrink
    <2>2. Life' = Life
      BY <1>9 DEF Life, LifeOf
    <2>. QED
      BY <1>9, <2>1, <2>2
      DEF Protection!Next, Protection!Lapse, Protection!PermitsLapse
  <1>10. ASSUME NEW p \in Pods, NEW ref \in Keys \cup {NoProfile},
                RelabelPod(p, ref)
         PROVE  FALSE
    BY <1>10 DEF RelabelPod, AdmitPodUpdate
  <1>. QED
    BY <1>1, <1>2, <1>3, <1>4, <1>5, <1>6, <1>7, <1>8, <1>9, <1>10
    DEF Next, Environment, Controller, Faults, vars, DeliverProfileEvent,
        DeliverPodEvent, FireTimer, TakeKey, ReconcileGet, ReconcileError,
        ControllerCrash, ControllerRestart

(* With the pod label policy, every behaviour of the controller and the API *)
(* server is one that ProfileProtection allows: handleDeletion gives a      *)
(* profile up only with a permit for its name, and a permit for the profile *)
(* at hand means that the pods known when its deletion was requested are    *)
(* gone.                                                                    *)
THEOREM LifecycleImplementsProtection ==
    ASSUME VapEnabled
    PROVE  Spec => ImplementsProtection
  <1>1. Init => Protection!Init
    <2>. SUFFICES ASSUME Init PROVE Protection!Init
      OBVIOUS
    <2>1. Life = [k \in Keys |-> [phase |-> "absent", uid |-> 0]]
      BY DEF Init, Life, LifeOf, Never
    <2>2. Permits = {}
      BY DEF Init, Permits, InFlight
    <2>. QED  BY <2>1, <2>2 DEF Init, Protection!Init
  <1>2. TypeOK /\ LiveProfilesProtected /\ InFlightOld /\ InFlightOld'
          /\ WitnessedPodsBlockRelease' /\ [Next]_vars
            => [Protection!Next]_(Protection!pvars)
    BY StepImplements
  <1>3. Spec => []WitnessedPodsBlockRelease
    BY WitnessedPodsProtect
  <1>. QED
    BY <1>1, <1>2, <1>3, TypeCorrect, LiveProtected, InFlightInvariant, PTL
    DEF Spec, ImplementsProtection, Protection!Spec
=============================================================================
