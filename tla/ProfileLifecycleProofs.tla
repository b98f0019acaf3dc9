----------------------- MODULE ProfileLifecycleProofs -----------------------
(* Proofs about ProfileLifecycle, for any set of profiles, pods and foreign *)
(* finalizers and any value of the bounds.                                  *)
EXTENDS ProfileLifecycle, SequenceTheorems, TLAPS

-----------------------------------------------------------------------------
(* Facts about the operators the actions are built from. *)

(* A write that the API server accepts stores a profile. *)
LEMMA UpdatedType ==
    ASSUME NEW obj \in Object, NEW fins \in SUBSET Finalizers
    PROVE  /\ Default(obj.phase, fins) \in SUBSET Finalizers
           /\ Updated(obj, fins) \in Object
  <1>1. Finalizer \in Finalizers
    BY DEF Finalizers
  <1>2. Default(obj.phase, fins) \in SUBSET Finalizers
    BY <1>1 DEF Default
  <1>3. Updated(obj, fins) \in Object
    BY <1>2 DEF Updated, Gone, Object, Phases
  <1>. QED  BY <1>2, <1>3

(* Storing a profile keeps the server and the watch well typed. *)
LEMMA StoreType ==
    ASSUME TypeOK, NEW k \in Keys, NEW obj \in Object, Store(k, obj)
    PROVE  /\ profiles' \in [Keys -> Object]
           /\ profileWatch' \in [Keys -> Seq(Object)]
  <1>1. profiles' \in [Keys -> Object]
    BY DEF TypeOK, Store
  <1>2. Append(profileWatch[k], obj) \in Seq(Object)
    BY DEF TypeOK
  <1>3. profileWatch' \in [Keys -> Seq(Object)]
    BY <1>2 DEF TypeOK, Store
  <1>. QED  BY <1>1, <1>3

(* A stored reference keeps the server's pods and their watches well typed. *)
LEMMA StorePodType ==
    ASSUME TypeOK, NEW p \in Pods, NEW ref \in References, StorePod(p, ref)
    PROVE  /\ podRef' \in [Pods -> References]
           /\ podWatch' \in [Pods -> Seq(References)]
  <1>1. podRef' \in [Pods -> References]
    BY DEF TypeOK, StorePod
  <1>2. Append(podWatch[p], ref) \in Seq(References)
    BY DEF TypeOK
  <1>3. podWatch' \in [Pods -> Seq(References)]
    BY <1>2 DEF TypeOK, StorePod
  <1>. QED  BY <1>1, <1>3

(* The absent profile of uid 0 is an object. *)
LEMMA NeverType == Never \in Object
  BY BoundAssumption DEF Never, Object, Phases

(* A patch made from an object is a request. *)
LEMMA PatchType ==
    ASSUME NEW k \in Keys, NEW obj \in Object
    PROVE  PatchOf(k, obj) \in Request
  BY DEF PatchOf, RemoveFinalizer, Request, Object

-----------------------------------------------------------------------------
(* Type correctness. *)

LEMMA TypeInit == Init => TypeOK
  <1>1. ASSUME Init PROVE TypeOK
    <2>1. Never \in Object
      BY NeverType
    <2>2. NotCreated \in References
      BY DEF References
    <2>3. QED
      BY <1>1, <2>1, <2>2 DEF Init, TypeOK
  <1>. QED  BY <1>1

(* Every step keeps the types: one case per action. *)
LEMMA TypeStep == TypeOK /\ [Next]_vars => TypeOK'
  <1>. SUFFICES ASSUME TypeOK, [Next]_vars PROVE TypeOK'
    OBVIOUS
  <1>. USE DEF watchVars, serverVars, cacheVars, queueVars, workerVars
  <1>1. ASSUME NEW k \in Keys, NEW fins \in SUBSET Finalizers,
               CreateProfile(k, fins)
        PROVE  TypeOK'
    <2>. DEFINE new == [phase |-> "live", uid |-> profiles[k].uid + 1,
                        finalizers |-> Default("live", fins)]
    <2>1. Default("live", fins) \in SUBSET Finalizers
      BY DEF Default, Finalizers
    <2>2. profiles[k].uid + 1 \in 0..MaxUid
      BY <1>1, BoundAssumption DEF CreateProfile, TypeOK, Object
    <2>3. new \in Object
      BY <2>1, <2>2 DEF Object, Phases
    <2>4. Store(k, new)
      BY <1>1 DEF CreateProfile
    <2>5. /\ profiles' \in [Keys -> Object]
          /\ profileWatch' \in [Keys -> Seq(Object)]
      BY <2>3, <2>4, StoreType
    <2>. QED  BY <1>1, <2>5 DEF CreateProfile, TypeOK
  <1>2. ASSUME NEW k \in Keys, NEW fins \in SUBSET Finalizers,
               UpdateProfile(k, fins)
        PROVE  TypeOK'
    <2>1. Updated(profiles[k], fins) \in Object
      BY UpdatedType DEF TypeOK
    <2>2. /\ profiles' \in [Keys -> Object]
          /\ profileWatch' \in [Keys -> Seq(Object)]
      BY <1>2, <2>1, StoreType DEF UpdateProfile
    <2>. QED  BY <1>2, <2>2 DEF UpdateProfile, TypeOK
  <1>3. ASSUME NEW k \in Keys, DeleteProfile(k) PROVE TypeOK'
    <2>. DEFINE new == IF profiles[k].finalizers = {}
                       THEN Gone(profiles[k])
                       ELSE [profiles[k] EXCEPT !.phase = "terminating"]
    <2>1. new \in Object
      BY DEF TypeOK, Gone, Object, Phases
    <2>2. Store(k, new)
      BY <1>3 DEF DeleteProfile
    <2>3. /\ profiles' \in [Keys -> Object]
          /\ profileWatch' \in [Keys -> Seq(Object)]
      BY <2>1, <2>2, StoreType
    <2>4. witnessed' \in [Keys -> SUBSET Pods]
      BY <1>3 DEF DeleteProfile, TypeOK, PodsNaming
    <2>. QED  BY <1>3, <2>3, <2>4 DEF DeleteProfile, TypeOK
  <1>4. ASSUME NEW p \in Pods, NEW ref \in Keys \cup {NoProfile},
               CreatePod(p, ref) \/ RelabelPod(p, ref)
        PROVE  TypeOK'
    <2>1. ref \in References
      BY DEF References
    <2>2. /\ podRef' \in [Pods -> References]
          /\ podWatch' \in [Pods -> Seq(References)]
      BY <1>4, <2>1, StorePodType DEF CreatePod, RelabelPod
    <2>. QED  BY <1>4, <2>2 DEF CreatePod, RelabelPod, TypeOK
  <1>5. ASSUME NEW p \in Pods, DeletePod(p) PROVE TypeOK'
    <2>1. Deleted \in References
      BY DEF References
    <2>2. /\ podRef' \in [Pods -> References]
          /\ podWatch' \in [Pods -> Seq(References)]
      BY <1>5, <2>1, StorePodType DEF DeletePod
    <2>. QED  BY <1>5, <2>2 DEF DeletePod, TypeOK
  <1>6. ASSUME NEW k \in Keys, DeliverProfileEvent(k) PROVE TypeOK'
    <2>1. /\ Head(profileWatch[k]) \in Object
          /\ Tail(profileWatch[k]) \in Seq(Object)
      BY <1>6, HeadTailProperties DEF DeliverProfileEvent, TypeOK
    <2>. QED  BY <1>6, <2>1 DEF DeliverProfileEvent, TypeOK
  <1>7. ASSUME NEW p \in Pods, DeliverPodEvent(p) PROVE TypeOK'
    <2>1. /\ Head(podWatch[p]) \in References
          /\ Tail(podWatch[p]) \in Seq(References)
      BY <1>7, HeadTailProperties DEF DeliverPodEvent, TypeOK
    <2>2. queue' \subseteq Keys
      BY <1>7 DEF DeliverPodEvent, TypeOK, findProfilesForPod
    <2>. QED  BY <1>7, <2>1, <2>2 DEF DeliverPodEvent, TypeOK
  <1>8. ASSUME NEW k \in Keys, FireTimer(k) PROVE TypeOK'
    BY <1>8 DEF FireTimer, TypeOK
  <1>9. ASSUME NEW k \in Keys, TakeKey(k) PROVE TypeOK'
    BY <1>9, NeverType DEF TakeKey, TypeOK
  <1>10. CASE ReconcileGet
    <2>1. cur \in Keys
      BY <1>10 DEF ReconcileGet, TypeOK
    <2>. QED  BY <1>10, <2>1, NeverType DEF ReconcileGet, Idle, TypeOK
  <1>11. CASE ReconcileList
    BY <1>11, NeverType DEF ReconcileList, Idle, TypeOK
  <1>12. CASE ReconcilePatch
    <2>1. cur \in Keys /\ PatchOf(cur, snap) \in Request
      BY <1>12, PatchType DEF ReconcilePatch, TypeOK
    <2>2. Updated(profiles[cur], PatchOf(cur, snap).finalizers) \in Object
      BY <2>1, UpdatedType DEF TypeOK, Request
    <2>3. /\ profiles' \in [Keys -> Object]
          /\ profileWatch' \in [Keys -> Seq(Object)]
      BY <1>12, <2>1, <2>2, StoreType DEF ReconcilePatch, TypeOK
    <2>4. backoff' \subseteq Keys
      BY <1>12, <2>1 DEF ReconcilePatch, RetryAfterError, TypeOK
    <2>. QED  BY <1>12, <2>3, <2>4, NeverType DEF ReconcilePatch, Idle, TypeOK
  <1>13. CASE ReconcileError
    <2>1. cur \in Keys /\ PatchOf(cur, snap) \in Request
      BY <1>13, PatchType DEF ReconcileError, TypeOK
    <2>. QED
      BY <1>13, <2>1, NeverType
      DEF ReconcileError, RetryAfterError, Idle, TypeOK
  <1>14. ASSUME NEW req \in orphans, OrphanArrives(req) PROVE TypeOK'
    <2>1. req \in Request
      BY DEF TypeOK
    <2>2. Updated(profiles[req.key], req.finalizers) \in Object
      BY <2>1, UpdatedType DEF TypeOK, Request
    <2>3. /\ profiles' \in [Keys -> Object]
          /\ profileWatch' \in [Keys -> Seq(Object)]
      BY <1>14, <2>1, <2>2, StoreType DEF OrphanArrives, TypeOK, Request
    <2>. QED  BY <1>14, <2>3 DEF OrphanArrives, TypeOK
  <1>15. CASE ControllerCrash
    <2>1. pc = "patch" => PatchOf(cur, snap) \in Request
      BY PatchType DEF TypeOK
    <2>2. NotCreated \in References
      BY DEF References
    <2>3. /\ cProfiles' \in [Keys -> Object]
          /\ cPods' \in [Pods -> References]
          /\ profileWatch' \in [Keys -> Seq(Object)]
          /\ podWatch' \in [Pods -> Seq(References)]
      BY <1>15, <2>2, NeverType DEF ControllerCrash
    <2>4. orphans' \subseteq Request
      BY <1>15, <2>1 DEF ControllerCrash, TypeOK
    <2>5. /\ queue' \subseteq Keys /\ requeued' \subseteq Keys
          /\ backoff' \subseteq Keys
      BY <1>15 DEF ControllerCrash
    <2>6. /\ pc' = "idle" /\ cur' \in Keys \cup {NoKey} /\ snap' \in Object
      BY <1>15, NeverType DEF ControllerCrash, Idle
    <2>7. /\ up' \in BOOLEAN
          /\ crashes' = crashes + 1 /\ crashes \in Nat
      BY <1>15 DEF ControllerCrash, TypeOK
    <2>8. crashes' \in Nat
      BY <2>7
    <2>9. /\ profiles' \in [Keys -> Object]
          /\ podRef' \in [Pods -> References]
          /\ witnessed' \in [Keys -> SUBSET Pods]
      BY <1>15 DEF ControllerCrash, TypeOK
    <2>. QED  BY <2>3, <2>4, <2>5, <2>6, <2>7, <2>8, <2>9 DEF TypeOK
  <1>16. CASE ControllerRestart
    <2>1. queue' \subseteq Keys
      BY <1>16 DEF ControllerRestart, findProfilesForPod
    <2>. QED  BY <1>16, <2>1 DEF ControllerRestart, TypeOK
  <1>17. CASE UNCHANGED vars
    BY <1>17 DEF vars, TypeOK
  <1>. QED
    BY <1>1, <1>2, <1>3, <1>4, <1>5, <1>6, <1>7, <1>8, <1>9, <1>10, <1>11,
       <1>12, <1>13, <1>14, <1>15, <1>16, <1>17
    DEF Next, Environment, Controller, Faults

(* Every reachable state is well typed: in particular the work queue only   *)
(* ever holds profile keys and the worker always works on one.              *)
THEOREM TypeCorrect == Spec => []TypeOK
  BY TypeInit, TypeStep, PTL DEF Spec

-----------------------------------------------------------------------------
(* How a step changes a stored profile: not at all, by a create, by an      *)
(* accepted write of the finalizers (a user's or a patch), or by a DELETE.  *)

WriteOf(old, new) ==
    \/ new = old
    \/ /\ ~Exists(old)
       /\ \E fins \in SUBSET Finalizers :
              new = [phase |-> "live", uid |-> old.uid + 1,
                     finalizers |-> Default("live", fins)]
    \/ \E fins \in SUBSET Finalizers :
           UpdateAllowed(old, fins) /\ new = Updated(old, fins)
    \/ /\ old.phase = "live"
       /\ new = IF old.finalizers = {}
                THEN Gone(old) ELSE [old EXCEPT !.phase = "terminating"]

(* A Store of a legitimate write is one for every key. *)
LEMMA StoreWrites ==
    ASSUME TypeOK, NEW k \in Keys, NEW obj, Store(k, obj),
           WriteOf(profiles[k], obj)
    PROVE  \A j \in Keys : WriteOf(profiles[j], profiles'[j])
  <1>. TAKE j \in Keys
  <1>1. CASE j = k
    BY <1>1 DEF Store, TypeOK
  <1>2. CASE j # k
    <2>1. profiles'[j] = profiles[j]
      BY <1>2 DEF Store, TypeOK
    <2>. QED  BY <2>1 DEF WriteOf
  <1>. QED  BY <1>1, <1>2

(* Whatever step is taken, what happens to each stored profile is one of the*)
(* writes of WriteOf.                                                       *)
LEMMA EveryWrite ==
    ASSUME TypeOK, [Next]_vars
    PROVE  \A k \in Keys : WriteOf(profiles[k], profiles'[k])
  <1>1. ASSUME NEW k \in Keys, NEW fins \in SUBSET Finalizers,
               CreateProfile(k, fins)
        PROVE  \A j \in Keys : WriteOf(profiles[j], profiles'[j])
    <2>. DEFINE new == [phase |-> "live", uid |-> profiles[k].uid + 1,
                        finalizers |-> Default("live", fins)]
    <2>1. WriteOf(profiles[k], new)
      BY <1>1 DEF CreateProfile, WriteOf
    <2>. QED  BY <1>1, <2>1, StoreWrites DEF CreateProfile
  <1>2. ASSUME NEW k \in Keys, NEW fins \in SUBSET Finalizers,
               UpdateProfile(k, fins)
        PROVE  \A j \in Keys : WriteOf(profiles[j], profiles'[j])
    <2>1. WriteOf(profiles[k], Updated(profiles[k], fins))
      BY <1>2 DEF UpdateProfile, WriteOf
    <2>. QED  BY <1>2, <2>1, StoreWrites DEF UpdateProfile
  <1>3. ASSUME NEW k \in Keys, DeleteProfile(k)
        PROVE  \A j \in Keys : WriteOf(profiles[j], profiles'[j])
    <2>. DEFINE new == IF profiles[k].finalizers = {}
                       THEN Gone(profiles[k])
                       ELSE [profiles[k] EXCEPT !.phase = "terminating"]
    <2>1. WriteOf(profiles[k], new)
      BY <1>3 DEF DeleteProfile, WriteOf
    <2>. QED  BY <1>3, <2>1, StoreWrites DEF DeleteProfile
  <1>4. CASE ReconcilePatch
    <2>. DEFINE fins == PatchOf(cur, snap).finalizers
    <2>1. cur \in Keys /\ fins \in SUBSET Finalizers
      BY <1>4, PatchType DEF ReconcilePatch, TypeOK, Request
    <2>2. CASE /\ UpdateAllowed(profiles[cur], fins)
               /\ Store(cur, Updated(profiles[cur], fins))
      <3>1. WriteOf(profiles[cur], Updated(profiles[cur], fins))
        BY <2>1, <2>2 DEF WriteOf
      <3>. QED  BY <2>1, <2>2, <3>1, StoreWrites
    <2>3. CASE UNCHANGED profiles
      BY <2>3 DEF WriteOf
    <2>. QED  BY <1>4, <2>2, <2>3 DEF ReconcilePatch
  <1>5. ASSUME NEW req \in orphans, OrphanArrives(req)
        PROVE  \A j \in Keys : WriteOf(profiles[j], profiles'[j])
    <2>1. req.key \in Keys /\ req.finalizers \in SUBSET Finalizers
      BY DEF TypeOK, Request
    <2>2. CASE /\ UpdateAllowed(profiles[req.key], req.finalizers)
               /\ Store(req.key, Updated(profiles[req.key], req.finalizers))
      <3>1. WriteOf(profiles[req.key],
                    Updated(profiles[req.key], req.finalizers))
        BY <2>1, <2>2 DEF WriteOf
      <3>. QED  BY <2>1, <2>2, <3>1, StoreWrites
    <2>3. CASE UNCHANGED profiles
      BY <2>3 DEF WriteOf
    <2>. QED  BY <1>5, <2>2, <2>3 DEF OrphanArrives
  <1>6. CASE UNCHANGED profiles
    BY <1>6 DEF WriteOf
  <1>. QED
    BY <1>1, <1>2, <1>3, <1>4, <1>5, <1>6
    DEF Next, Environment, Controller, Faults, vars, serverVars, CreatePod,
        DeletePod, RelabelPod, DeliverProfileEvent, DeliverPodEvent,
        FireTimer, TakeKey, ReconcileGet, ReconcileList, ReconcileError,
        ControllerCrash, ControllerRestart

-----------------------------------------------------------------------------
(* The finalizer protects every live profile.  With type correctness the    *)
(* property is inductive, because Default runs on every write.              *)

LEMMA ProtectedWrite ==
    ASSUME NEW old \in Object, NEW new, WriteOf(old, new),
           old.phase = "live" => Finalizer \in old.finalizers
    PROVE  new.phase = "live" => Finalizer \in new.finalizers
  <1>1. ASSUME NEW fins \in SUBSET Finalizers,
               new = [phase |-> "live", uid |-> old.uid + 1,
                      finalizers |-> Default("live", fins)]
        PROVE  Finalizer \in new.finalizers
    BY <1>1 DEF Default
  <1>2. ASSUME NEW fins \in SUBSET Finalizers, new = Updated(old, fins),
               new.phase = "live"
        PROVE  Finalizer \in new.finalizers
    <2>1. old.phase = "live"
      BY <1>2 DEF Updated, Gone, Object
    <2>2. new.finalizers = fins \cup {Finalizer}
      BY <1>2, <2>1 DEF Updated, Default, Object
    <2>. QED  BY <2>2
  <1>3. ASSUME new = IF old.finalizers = {}
                     THEN Gone(old) ELSE [old EXCEPT !.phase = "terminating"]
        PROVE  new.phase # "live"
    BY <1>3 DEF Gone, Object
  <1>. QED  BY <1>1, <1>2, <1>3 DEF WriteOf

(* No step leaves a live profile without the finalizer. *)
LEMMA ProtectedStep ==
    TypeOK /\ LiveProfilesProtected /\ [Next]_vars => LiveProfilesProtected'
  <1>. SUFFICES ASSUME TypeOK, LiveProfilesProtected, [Next]_vars,
                       NEW k \in Keys
                PROVE  profiles'[k].phase = "live" =>
                           Finalizer \in profiles'[k].finalizers
    BY DEF LiveProfilesProtected
  <1>1. WriteOf(profiles[k], profiles'[k])
    BY EveryWrite
  <1>. QED  BY <1>1, ProtectedWrite DEF LiveProfilesProtected, TypeOK

(* No profile is stored without the finalizer before its deletion is        *)
(* requested, whatever stale patches arrive.                                *)
THEOREM LiveProtected == Spec => []LiveProfilesProtected
  <1>1. Init => LiveProfilesProtected
    BY DEF Init, LiveProfilesProtected, Never
  <1>. QED  BY <1>1, ProtectedStep, TypeCorrect, PTL DEF Spec

(* A profile that is not being deleted does not disappear in one step: it   *)
(* still has the finalizer, so DELETE only marks it and no update removes   *)
(* it.                                                                      *)
THEOREM TwoPhase == Spec => DeletionIsTwoPhase
  <1>. DEFINE Stays == \A k \in Keys : profiles[k].phase = "live" =>
                           /\ Exists(profiles'[k])
                           /\ profiles'[k].uid = profiles[k].uid
  <1>1. TypeOK /\ LiveProfilesProtected /\ [Next]_vars => Stays
    <2>. SUFFICES ASSUME TypeOK, LiveProfilesProtected, [Next]_vars,
                         NEW k \in Keys, profiles[k].phase = "live"
                  PROVE  /\ Exists(profiles'[k])
                         /\ profiles'[k].uid = profiles[k].uid
      OBVIOUS
    <2>1. WriteOf(profiles[k], profiles'[k]) /\ profiles[k] \in Object
      BY EveryWrite DEF TypeOK
    <2>2. profiles[k].finalizers # {}
      BY DEF LiveProfilesProtected
    <2>. QED  BY <2>1, <2>2 DEF WriteOf, Updated, Exists, Object
  <1>2. Spec => [][Stays]_vars
    BY <1>1, TypeCorrect, LiveProtected, PTL DEF Spec
  <1>. QED  BY <1>2 DEF DeletionIsTwoPhase

-----------------------------------------------------------------------------
(* The inductive invariant behind the properties of patches and wake-ups.   *)

(* Version e of a profile is not newer than version obj: uids only grow,    *)
(* and once deletion is requested an incarnation never comes back to life   *)
(* and only loses finalizers.                                               *)
Precedes(e, obj) ==
    /\ e.uid <= obj.uid
    /\ e.uid = obj.uid /\ e.phase # "live" =>
           obj.phase # "live" /\ obj.finalizers \subseteq e.finalizers

(* A dead process has nothing scheduled. *)
DownMeansEmpty ==
    /\ ~up => queue = {} /\ requeued = {} /\ backoff = {} /\ pc = "idle"
    /\ pc \in {"list", "patch"} => Pending(snap)

(* Whatever the controller has read or will read is an old version. *)
ReadsAreOld ==
    /\ \A k \in Keys : Precedes(cProfiles[k], profiles[k])
    /\ \A k \in Keys : \A i \in 1..Len(profileWatch[k]) :
           Precedes(profileWatch[k][i], profiles[k])
    /\ pc # "idle" => Precedes(snap, profiles[cur])

(* So a patch for the current incarnation carries all the foreign           *)
(* finalizers that are left, and that incarnation is being deleted.         *)
Agrees(req, obj) ==
    /\ req.uid <= obj.uid
    /\ req.uid = obj.uid =>
           obj.phase # "live" /\ obj.finalizers \cap Foreign \subseteq req.finalizers

OrphansAgree == \A req \in orphans : Agrees(req, profiles[req.key])

(* Once everything on its way is delivered, the cache equals the server;    *)
(* nothing is on its way to a dead process.                                 *)
CacheCatchesUp ==
    /\ ~up => \A k \in Keys : profileWatch[k] = <<>>
    /\ up => \A k \in Keys :
           profiles[k] = IF profileWatch[k] = <<>>
                         THEN cProfiles[k]
                         ELSE profileWatch[k][Len(profileWatch[k])]

(* The label of a pod never changes, so all that is known or will be known  *)
(* of a pod that exists is its label.                                       *)
PodLabelsFixed ==
    \A p \in Pods :
        /\ podRef[p] = NotCreated => cPods[p] = NotCreated /\ podWatch[p] = <<>>
        /\ podRef[p] \notin {NotCreated, Deleted} =>
               \A i \in 1..Len(podWatch[p]) : podWatch[p][i] = podRef[p]

(* A running controller still sees the witnessed pods that exist. *)
WitnessesSeen ==
    \A k \in Keys : \A p \in witnessed[k] :
        /\ podRef[p] # NotCreated
        /\ up /\ podRef[p] = k => cPods[p] = k

(* Uid 0 stands for a name never used. *)
UnusedNames == \A k \in Keys : profiles[k].uid = 0 => profiles[k] = Never

ReadInv == UnusedNames /\ DownMeansEmpty /\ ReadsAreOld /\ OrphansAgree

(* Older than older is older. *)
LEMMA PrecedesTransitive ==
    ASSUME NEW a \in Object, NEW b \in Object, NEW c \in Object,
           Precedes(a, b), Precedes(b, c)
    PROVE  Precedes(a, c)
  <1>1. a.uid \in Int /\ b.uid \in Int /\ c.uid \in Int
    BY BoundAssumption DEF Object
  <1>. QED  BY <1>1 DEF Precedes

(* A request that agrees with a state agrees with every later one. *)
LEMMA AgreesLater ==
    ASSUME NEW req \in Request, NEW old \in Object, NEW new \in Object,
           Agrees(req, old), Precedes(old, new)
    PROVE  Agrees(req, new)
  <1>1. req.uid \in Int /\ old.uid \in Int /\ new.uid \in Int
    BY BoundAssumption DEF Object, Request
  <1>. QED  BY <1>1 DEF Precedes, Agrees

(* A write moves a profile forward. *)
LEMMA WritePrecedes ==
    ASSUME NEW old \in Object, NEW new \in Object, WriteOf(old, new),
           old.uid = 0 => old = Never
    PROVE  /\ Precedes(old, new)
           /\ new.uid = 0 => new = Never
  <1>1. old.uid \in Nat
    BY BoundAssumption DEF Object
  <1>2. CASE new = old
    BY <1>1, <1>2 DEF Precedes
  <1>3. ASSUME NEW fins \in SUBSET Finalizers,
               new = [phase |-> "live", uid |-> old.uid + 1,
                      finalizers |-> Default("live", fins)]
        PROVE  new.uid = old.uid + 1
    BY <1>3
  <1>4. ASSUME NEW fins \in SUBSET Finalizers,
               UpdateAllowed(old, fins), new = Updated(old, fins)
        PROVE  Precedes(old, new) /\ old.uid # 0 /\ new.uid = old.uid
    <2>1. new.uid = old.uid /\ old.uid # 0
      BY <1>4 DEF Updated, Gone, Object, UpdateAllowed, Exists, Never
    <2>2. CASE old.phase = "live"
      BY <1>1, <2>1, <2>2 DEF Precedes
    <2>3. CASE old.phase = "terminating"
      BY <1>1, <1>4, <2>1, <2>3
      DEF Precedes, Updated, UpdateAllowed, Gone, Object, Default
    <2>. QED  BY <1>4, <2>1, <2>2, <2>3 DEF UpdateAllowed, Exists, Object, Phases
  <1>5. ASSUME old.phase = "live",
               new = IF old.finalizers = {}
                     THEN Gone(old) ELSE [old EXCEPT !.phase = "terminating"]
        PROVE  Precedes(old, new) /\ old.uid # 0 /\ new.uid = old.uid
    <2>1. new.uid = old.uid /\ old.uid # 0
      BY <1>5 DEF Gone, Object, Never
    <2>. QED  BY <1>1, <1>5, <2>1 DEF Precedes
  <1>6. ASSUME new.uid = old.uid + 1
        PROVE  Precedes(old, new) /\ new.uid # 0
    BY <1>1, <1>6 DEF Precedes
  <1>. QED  BY <1>2, <1>3, <1>4, <1>5, <1>6 DEF WriteOf

(* Versions on the server are replaced by later ones. *)
LEMMA ServerMovesOn ==
    ASSUME TypeOK, TypeOK', UnusedNames, [Next]_vars
    PROVE  /\ \A k \in Keys : Precedes(profiles[k], profiles'[k])
           /\ UnusedNames'
  <1>. SUFFICES ASSUME NEW k \in Keys
                PROVE  /\ Precedes(profiles[k], profiles'[k])
                       /\ profiles'[k].uid = 0 => profiles'[k] = Never
    BY DEF UnusedNames
  <1>1. WriteOf(profiles[k], profiles'[k])
    BY EveryWrite
  <1>2. profiles[k] \in Object /\ profiles'[k] \in Object
    BY DEF TypeOK
  <1>. QED  BY <1>1, <1>2, WritePrecedes DEF UnusedNames

-----------------------------------------------------------------------------
(* Where the values the controller works with come from. *)

LEMMA CacheSources ==
    ASSUME TypeOK, [Next]_vars, NEW k \in Keys
    PROVE  \/ cProfiles'[k] \in {cProfiles[k], Never, profiles'[k]}
           \/ /\ profileWatch[k] # <<>>
              /\ cProfiles'[k] = Head(profileWatch[k])
  <1>1. ASSUME NEW j \in Keys, DeliverProfileEvent(j)
        PROVE  \/ cProfiles'[k] = cProfiles[k]
               \/ /\ profileWatch[k] # <<>>
                  /\ cProfiles'[k] = Head(profileWatch[k])
    BY <1>1 DEF DeliverProfileEvent, TypeOK
  <1>2. CASE ControllerCrash
    BY <1>2 DEF ControllerCrash
  <1>3. CASE ControllerRestart
    BY <1>3 DEF ControllerRestart, serverVars
  <1>4. CASE UNCHANGED cProfiles
    BY <1>4
  <1>. QED
    BY <1>1, <1>2, <1>3, <1>4
    DEF Next, Environment, Controller, Faults, vars, cacheVars,
        CreateProfile, UpdateProfile, DeleteProfile, CreatePod, DeletePod,
        RelabelPod, DeliverPodEvent, FireTimer, TakeKey, ReconcileGet,
        ReconcileList, ReconcilePatch, ReconcileError, OrphanArrives

(* The watch of k grows by the version being stored, or shrinks. *)
LEMMA WatchSources ==
    ASSUME TypeOK, [Next]_vars, NEW k \in Keys
    PROVE  \/ profileWatch'[k] \in {profileWatch[k], <<>>}
           \/ profileWatch[k] # <<>> /\ profileWatch'[k] = Tail(profileWatch[k])
           \/ profileWatch'[k] = Append(profileWatch[k], profiles'[k])
  <1>1. ASSUME NEW j \in Keys, NEW obj, Store(j, obj)
        PROVE  \/ profileWatch'[k] = profileWatch[k]
               \/ profileWatch'[k] = Append(profileWatch[k], profiles'[k])
    BY <1>1 DEF Store, TypeOK
  <1>2. ASSUME NEW j \in Keys, DeliverProfileEvent(j)
        PROVE  \/ profileWatch'[k] = profileWatch[k]
               \/ /\ profileWatch[k] # <<>>
                  /\ profileWatch'[k] = Tail(profileWatch[k])
    BY <1>2 DEF DeliverProfileEvent, TypeOK
  <1>3. CASE ControllerCrash
    BY <1>3 DEF ControllerCrash
  <1>4. CASE UNCHANGED profileWatch
    BY <1>4
  <1>5. CASE ReconcilePatch
    <2>1. cur \in Keys
      BY <1>5 DEF ReconcilePatch, TypeOK
    <2>. QED  BY <1>1, <1>4, <1>5, <2>1 DEF ReconcilePatch
  <1>6. ASSUME NEW req \in orphans, OrphanArrives(req)
        PROVE  \/ profileWatch'[k] = profileWatch[k]
               \/ profileWatch'[k] = Append(profileWatch[k], profiles'[k])
    <2>1. req.key \in Keys
      BY DEF TypeOK, Request
    <2>. QED  BY <1>1, <1>4, <1>6, <2>1 DEF OrphanArrives
  <1>. QED
    BY <1>1, <1>2, <1>3, <1>4, <1>5, <1>6
    DEF Next, Environment, Controller, Faults, vars, watchVars,
        CreateProfile, UpdateProfile, DeleteProfile, CreatePod, DeletePod,
        RelabelPod, DeliverPodEvent, FireTimer, TakeKey, ReconcileGet,
        ReconcileList, ReconcileError, ControllerRestart

(* What the worker works on it had before, or has just read from the cache. *)
LEMMA WorkerSources ==
    ASSUME TypeOK, [Next]_vars, pc' # "idle"
    PROVE  \/ snap' = Never
           \/ pc # "idle" /\ cur' = cur /\ snap' \in {snap, cProfiles[cur]}
  BY DEF Next, Environment, Controller, Faults, vars, workerVars, Idle,
        CreateProfile, UpdateProfile, DeleteProfile, CreatePod, DeletePod,
        RelabelPod, DeliverPodEvent, FireTimer, TakeKey, ReconcileGet,
        ReconcileList, ReconcileError, ControllerRestart, ControllerCrash,
        DeliverProfileEvent, ReconcilePatch, OrphanArrives

(* An orphan was in flight before. *)
LEMMA OrphanSources ==
    ASSUME TypeOK, [Next]_vars
    PROVE  orphans' \subseteq InFlight
  BY DEF Next, Environment, Controller, Faults, vars, InFlight,
        CreateProfile, UpdateProfile, DeleteProfile, CreatePod, DeletePod,
        RelabelPod, DeliverPodEvent, FireTimer, TakeKey, ReconcileGet,
        ReconcileList, ReconcileError, ControllerRestart, ControllerCrash,
        DeliverProfileEvent, ReconcilePatch, OrphanArrives

-----------------------------------------------------------------------------
(* Reads are old versions; patches agree with the incarnation they meet.    *)

LEMMA InFlightAgrees ==
    ASSUME TypeOK, ReadInv
    PROVE  \A req \in InFlight :
               req \in Request /\ Agrees(req, profiles[req.key])
  <1>1. ASSUME pc = "patch"
        PROVE  /\ PatchOf(cur, snap) \in Request
               /\ Agrees(PatchOf(cur, snap), profiles[PatchOf(cur, snap).key])
    <2>1. cur \in Keys /\ snap \in Object
      BY <1>1 DEF TypeOK
    <2>2. PatchOf(cur, snap) \in Request /\ PatchOf(cur, snap).key = cur
      BY <2>1, PatchType DEF PatchOf
    <2>3. Precedes(snap, profiles[cur]) /\ Pending(snap)
      BY <1>1 DEF ReadInv, ReadsAreOld, DownMeansEmpty
    <2>4. Agrees(PatchOf(cur, snap), profiles[cur])
      BY <2>3, FinalizerAssumption
      DEF Agrees, Precedes, Pending, PatchOf, RemoveFinalizer
    <2>. QED  BY <2>2, <2>4
  <1>. QED  BY <1>1 DEF InFlight, ReadInv, OrphansAgree, TypeOK

(* A controller that is down has no reads, whatever others do. *)
LEMMA DownStep ==
    ASSUME TypeOK, DownMeansEmpty, [Next]_vars
    PROVE  DownMeansEmpty'
  <1>. USE DEF DownMeansEmpty, watchVars, serverVars, cacheVars, queueVars,
               workerVars, Idle
  <1>1. ASSUME NEW k \in Keys, TakeKey(k) PROVE DownMeansEmpty'
    BY <1>1 DEF TakeKey
  <1>2. CASE ReconcileGet
    BY <1>2 DEF ReconcileGet
  <1>3. CASE ReconcileList
    BY <1>3 DEF ReconcileList
  <1>4. CASE ReconcilePatch
    BY <1>4 DEF ReconcilePatch
  <1>5. CASE ReconcileError
    BY <1>5 DEF ReconcileError
  <1>6. CASE ControllerCrash
    BY <1>6 DEF ControllerCrash
  <1>7. CASE ControllerRestart
    BY <1>7 DEF ControllerRestart
  <1>8. ASSUME NEW k \in Keys, FireTimer(k) PROVE DownMeansEmpty'
    BY <1>8 DEF FireTimer
  <1>9. ASSUME NEW k \in Keys, DeliverProfileEvent(k) PROVE DownMeansEmpty'
    BY <1>9 DEF DeliverProfileEvent
  <1>10. ASSUME NEW p \in Pods, DeliverPodEvent(p) PROVE DownMeansEmpty'
    BY <1>10 DEF DeliverPodEvent
  <1>11. CASE UNCHANGED <<up, queueVars, workerVars>>
    BY <1>11
  <1>. QED
    BY <1>1, <1>2, <1>3, <1>4, <1>5, <1>6, <1>7, <1>8, <1>9, <1>10, <1>11
    DEF Next, Environment, Controller, Faults, vars, CreateProfile,
        UpdateProfile, DeleteProfile, CreatePod, DeletePod, RelabelPod,
        OrphanArrives

(* Every step keeps what was read older than what is stored: the stored     *)
(* profile moves forward, and reads are copies of older reads.              *)
LEMMA ReadStep ==
    ASSUME TypeOK, TypeOK', ReadInv, [Next]_vars
    PROVE  ReadInv'
  <1>1. UnusedNames' /\ \A k \in Keys : Precedes(profiles[k], profiles'[k])
    BY ServerMovesOn DEF ReadInv
  <1>2. ASSUME NEW k \in Keys, NEW e \in Object, Precedes(e, profiles[k])
        PROVE  Precedes(e, profiles'[k])
    BY <1>1, <1>2, PrecedesTransitive DEF TypeOK
  <1>3. \A k \in Keys : Precedes(Never, profiles'[k])
    <2>. TAKE k \in Keys
    <2>1. profiles'[k].uid \in Nat
      BY BoundAssumption DEF TypeOK, Object
    <2>. QED  BY <1>1, <2>1 DEF Precedes, UnusedNames, Never
  <1>4. ASSUME NEW k \in Keys
        PROVE  \A i \in 1..Len(profileWatch[k]) :
                   Precedes(profileWatch[k][i], profiles'[k])
    <2>. TAKE i \in 1..Len(profileWatch[k])
    <2>1. profileWatch[k][i] \in Object
      BY ElementOfSeq DEF TypeOK
    <2>. QED  BY <1>2, <2>1 DEF ReadInv, ReadsAreOld
  <1>5. DownMeansEmpty'
    BY DownStep DEF ReadInv
  <1>6. \A k \in Keys : Precedes(cProfiles'[k], profiles'[k])
    <2>. TAKE k \in Keys
    <2>1. CASE cProfiles'[k] = cProfiles[k]
      BY <1>2, <2>1 DEF ReadInv, ReadsAreOld, TypeOK
    <2>2. CASE cProfiles'[k] = Never
      BY <1>3, <2>2
    <2>3. CASE cProfiles'[k] = profiles'[k]
      <3>1. profiles'[k].uid \in Nat
        BY BoundAssumption DEF TypeOK, Object
      <3>. QED  BY <2>3, <3>1 DEF Precedes
    <2>4. CASE /\ profileWatch[k] # <<>>
               /\ cProfiles'[k] = Head(profileWatch[k])
      <3>1. /\ Head(profileWatch[k]) = profileWatch[k][1]
            /\ 1 \in 1..Len(profileWatch[k])
        BY <2>4, EmptySeq DEF TypeOK
      <3>. QED  BY <1>4, <2>4, <3>1
    <2>. QED  BY <2>1, <2>2, <2>3, <2>4, CacheSources
  <1>7. ASSUME NEW k \in Keys, NEW i \in 1..Len(profileWatch'[k])
        PROVE  Precedes(profileWatch'[k][i], profiles'[k])
    <2>. DEFINE w == profileWatch[k]
    <2>0. w \in Seq(Object)
      BY DEF TypeOK
    <2>1. CASE profileWatch'[k] = w
      BY <1>4, <2>1
    <2>2. CASE profileWatch'[k] = <<>>
      BY <2>2
    <2>3. CASE w # <<>> /\ profileWatch'[k] = Tail(w)
      <3>1. /\ Len(w) \in Nat /\ Len(Tail(w)) = Len(w) - 1
            /\ Tail(w)[i] = w[i+1]
        BY <2>0, <2>3, HeadTailProperties, LenProperties
      <3>2. i + 1 \in 1..Len(w)
        BY <2>3, <3>1
      <3>. QED  BY <1>4, <2>3, <3>1, <3>2
    <2>4. CASE profileWatch'[k] = Append(w, profiles'[k])
      <3>1. i = Len(w) + 1 \/ i \in 1..Len(w)
        BY <2>0, <2>4
      <3>2. CASE i = Len(w) + 1
        <4>1. profileWatch'[k][i] = profiles'[k]
          BY <2>0, <2>4, <3>2
        <4>2. profiles'[k].uid \in Nat
          BY BoundAssumption DEF TypeOK, Object
        <4>. QED  BY <4>1, <4>2 DEF Precedes
      <3>3. CASE i \in 1..Len(w)
        <4>1. profileWatch'[k][i] = w[i]
          BY <2>0, <2>4, <3>3
        <4>. QED  BY <1>4, <3>3, <4>1
      <3>. QED  BY <3>1, <3>2, <3>3
    <2>. QED  BY <2>1, <2>2, <2>3, <2>4, WatchSources
  <1>8. ASSUME pc' # "idle" PROVE Precedes(snap', profiles'[cur'])
    <2>1. cur' \in Keys
      BY <1>8 DEF TypeOK
    <2>2. CASE snap' = Never
      BY <1>3, <2>1, <2>2
    <2>3. CASE pc # "idle" /\ cur' = cur /\ snap' \in {snap, cProfiles[cur]}
      <3>1. snap' \in Object /\ Precedes(snap', profiles[cur])
        BY <2>1, <2>3 DEF ReadInv, ReadsAreOld, TypeOK
      <3>. QED  BY <1>2, <2>1, <2>3, <3>1
    <2>. QED  BY <1>8, <2>2, <2>3, WorkerSources
  <1>9. ASSUME NEW req \in orphans' PROVE Agrees(req, profiles'[req.key])
    <2>1. req \in Request /\ Agrees(req, profiles[req.key])
      BY OrphanSources, InFlightAgrees
    <2>2. req.key \in Keys
      BY <2>1 DEF Request
    <2>. QED  BY <1>1, <2>1, <2>2, AgreesLater DEF TypeOK
  <1>. QED
    BY <1>1, <1>5, <1>6, <1>7, <1>8, <1>9
    DEF ReadInv, ReadsAreOld, OrphansAgree

(* ReadInv holds in every reachable state. *)
LEMMA ReadInvariant == Spec => []ReadInv
  <1>1. Init => ReadInv
    <2>. SUFFICES ASSUME Init PROVE ReadInv
      OBVIOUS
    <2>1. UnusedNames /\ DownMeansEmpty /\ OrphansAgree
      BY DEF Init, UnusedNames, DownMeansEmpty, OrphansAgree
    <2>2. Precedes(Never, Never)
      BY DEF Precedes, Never
    <2>3. ReadsAreOld
      BY <2>2 DEF Init, ReadsAreOld
    <2>. QED  BY <2>1, <2>3 DEF ReadInv
  <1>. QED  BY <1>1, ReadStep, TypeCorrect, PTL DEF Spec

(* A merge patch never drops the finalizer of somebody else from the        *)
(* incarnation it was computed for, even after its sender crashed.          *)
THEOREM ForeignFinalizersKept == Spec => []PatchKeepsForeignFinalizers
  <1>1. TypeOK /\ ReadInv => PatchKeepsForeignFinalizers
    BY InFlightAgrees DEF PatchKeepsForeignFinalizers, Agrees
  <1>. QED  BY <1>1, TypeCorrect, ReadInvariant, PTL

-----------------------------------------------------------------------------
(* No release is forgotten. *)

LEMMA StoreCatchesUp ==
    ASSUME TypeOK, CacheCatchesUp, NEW k \in Keys, NEW obj \in Object,
           Store(k, obj), UNCHANGED <<up, cProfiles>>
    PROVE  CacheCatchesUp'
  <1>1. ASSUME ~up PROVE CacheCatchesUp'
    BY <1>1 DEF Store, CacheCatchesUp
  <1>2. ASSUME up, NEW j \in Keys
        PROVE  profiles'[j] = IF profileWatch'[j] = <<>>
                              THEN cProfiles'[j]
                              ELSE profileWatch'[j][Len(profileWatch'[j])]
    <2>1. CASE j = k /\ obj # profiles[k]
      <3>1. /\ profiles'[j] = obj
            /\ profileWatch'[j] = Append(profileWatch[j], obj)
            /\ profileWatch[j] \in Seq(Object)
        BY <1>2, <2>1 DEF Store, TypeOK
      <3>. QED  BY <3>1
    <2>2. CASE ~(j = k /\ obj # profiles[k])
      <3>1. profiles'[j] = profiles[j] /\ profileWatch'[j] = profileWatch[j]
        BY <1>2, <2>2 DEF Store, TypeOK
      <3>. QED  BY <1>2, <3>1 DEF CacheCatchesUp
    <2>. QED  BY <2>1, <2>2
  <1>. QED  BY <1>1, <1>2 DEF CacheCatchesUp

(* Every step keeps the last undelivered event, or the cache, equal to the  *)
(* stored profile.                                                          *)
LEMMA CatchUpStep ==
    ASSUME TypeOK, TypeOK', CacheCatchesUp, [Next]_vars
    PROVE  CacheCatchesUp'
  <1>. USE DEF watchVars, serverVars, cacheVars, queueVars, workerVars
  <1>1. ASSUME NEW k \in Keys, NEW obj, Store(k, obj),
               UNCHANGED <<up, cProfiles>>
        PROVE  CacheCatchesUp'
    <2>1. obj = profiles'[k]
      BY <1>1 DEF Store, TypeOK
    <2>. QED  BY <1>1, <2>1, StoreCatchesUp DEF TypeOK
  <1>2. ASSUME NEW k \in Keys, DeliverProfileEvent(k) PROVE CacheCatchesUp'
    <2>. SUFFICES ASSUME NEW j \in Keys
                  PROVE  profiles'[j] =
                           IF profileWatch'[j] = <<>>
                           THEN cProfiles'[j]
                           ELSE profileWatch'[j][Len(profileWatch'[j])]
      BY <1>2 DEF DeliverProfileEvent, CacheCatchesUp
    <2>1. profiles'[j] = profiles[j]
      BY <1>2 DEF DeliverProfileEvent
    <2>2. CASE j = k
      <3>. DEFINE w == profileWatch[k]
      <3>1. /\ w \in Seq(Object) /\ w # <<>>
            /\ profileWatch'[j] = Tail(w) /\ cProfiles'[j] = Head(w)
            /\ profiles[j] = w[Len(w)]
        BY <1>2, <2>2 DEF DeliverProfileEvent, CacheCatchesUp, TypeOK
      <3>2. /\ Len(w) \in Nat \ {0} /\ Head(w) = w[1]
            /\ Tail(w) \in Seq(Object) /\ Len(Tail(w)) = Len(w) - 1
            /\ \A i \in 1..Len(Tail(w)) : Tail(w)[i] = w[i+1]
        BY <3>1, HeadTailProperties, EmptySeq
      <3>3. CASE Tail(w) = <<>>
        <4>1. Len(Tail(w)) = 0
          BY <3>3, EmptySeq
        <4>2. Len(w) = 1
          BY <3>2, <4>1
        <4>. QED  BY <2>1, <3>1, <3>2, <3>3, <4>2
      <3>4. CASE Tail(w) # <<>>
        <4>1. Len(Tail(w)) \in 1..Len(Tail(w))
          BY <3>2, <3>4, EmptySeq
        <4>2. Tail(w)[Len(Tail(w))] = w[Len(w)]
          BY <3>2, <4>1
        <4>. QED  BY <2>1, <3>1, <3>4, <4>2
      <3>. QED  BY <3>3, <3>4
    <2>3. CASE j # k
      <3>1. profileWatch'[j] = profileWatch[j] /\ cProfiles'[j] = cProfiles[j]
        BY <1>2, <2>3 DEF DeliverProfileEvent, TypeOK
      <3>. QED  BY <1>2, <2>1, <3>1 DEF DeliverProfileEvent, CacheCatchesUp
    <2>. QED  BY <2>2, <2>3
  <1>3. CASE ControllerCrash
    BY <1>3 DEF ControllerCrash, CacheCatchesUp
  <1>4. CASE ControllerRestart
    BY <1>4 DEF ControllerRestart, CacheCatchesUp
  <1>5. CASE UNCHANGED <<up, profiles, cProfiles, profileWatch>>
    BY <1>5 DEF CacheCatchesUp
  <1>6. CASE ReconcilePatch
    BY <1>1, <1>5, <1>6 DEF ReconcilePatch, TypeOK
  <1>7. ASSUME NEW req \in orphans, OrphanArrives(req) PROVE CacheCatchesUp'
    BY <1>1, <1>5, <1>7 DEF OrphanArrives, TypeOK, Request
  <1>. QED
    BY <1>1, <1>2, <1>3, <1>4, <1>5, <1>6, <1>7
    DEF Next, Environment, Controller, Faults, vars, CreateProfile,
        UpdateProfile, DeleteProfile, CreatePod, DeletePod, RelabelPod,
        DeliverPodEvent, FireTimer, TakeKey, ReconcileGet, ReconcileList,
        ReconcileError

(* CacheCatchesUp holds in every reachable state. *)
LEMMA CatchUpInvariant == Spec => []CacheCatchesUp
  <1>1. Init => CacheCatchesUp
    BY DEF Init, CacheCatchesUp
  <1>. QED  BY <1>1, CatchUpStep, TypeCorrect, PTL DEF Spec

(* What schedules a reconciliation of k. *)
Tracked(k) ==
    \/ profileWatch[k] # <<>>
    \/ k \in queue \cup requeued \cup backoff
    \/ pc # "idle" /\ cur = k

(* A write is tracked by the event it causes; one that changes nothing loses*)
(* no tracking.                                                             *)
LEMMA TrackedByStore ==
    ASSUME TypeOK, TypeOK', PendingProfilesTracked, NEW k \in Keys,
           NEW j \in Keys, NEW obj, Store(k, obj), up,
           \A i \in Keys \ {k} : Tracked(i) => Tracked(i)',
           profiles'[k] = profiles[k] => (Tracked(k) => Tracked(k)'),
           Pending(profiles'[j])
    PROVE  Tracked(j)'
  <1>1. CASE j # k
    BY <1>1 DEF Store, TypeOK, PendingProfilesTracked, Tracked
  <1>2. CASE j = k /\ profiles'[k] = profiles[k]
    BY <1>2 DEF PendingProfilesTracked, Tracked
  <1>3. CASE j = k /\ profiles'[k] # profiles[k]
    <2>1. /\ profileWatch[k] \in Seq(Object) /\ obj \in Object
          /\ profileWatch'[k] = Append(profileWatch[k], obj)
      BY <1>3 DEF Store, TypeOK
    <2>2. profileWatch'[k] # <<>>
      BY <2>1
    <2>. QED  BY <1>3, <2>2 DEF Tracked
  <1>. QED  BY <1>1, <1>2, <1>3

(* A release that succeeds is seen on the server: the profile is pending no *)
(* longer, so nothing needs to track it.                                    *)
LEMMA PatchReleases ==
    ASSUME NEW obj \in Object, NEW fins, Finalizer \notin fins,
           UpdateAllowed(obj, fins)
    PROVE  ~Pending(Updated(obj, fins))
  BY DEF UpdateAllowed, Updated, Default, Pending, Gone, Object

(* No step forgets a profile that waits to be released. *)
LEMMA TrackedStep ==
    ASSUME TypeOK, TypeOK', DownMeansEmpty, CacheCatchesUp,
           PendingProfilesTracked, [Next]_vars
    PROVE  PendingProfilesTracked'
  <1>. SUFFICES ASSUME NEW j \in Keys, up', Pending(profiles'[j])
                PROVE  Tracked(j)'
    BY DEF PendingProfilesTracked, Tracked
  <1>. USE DEF watchVars, serverVars, cacheVars, queueVars, workerVars
  <1>0. up /\ Pending(profiles[j]) => Tracked(j)
    BY DEF PendingProfilesTracked, Tracked
  <1>1. ASSUME NEW k \in Keys, NEW obj, Store(k, obj),
               UNCHANGED <<up, queueVars, workerVars>>
        PROVE  Tracked(j)'
    <2>1. \A i \in Keys : profileWatch'[i] = profileWatch[i] =>
              (Tracked(i) => Tracked(i)')
      BY <1>1 DEF Tracked
    <2>2. \A i \in Keys \ {k} : profileWatch'[i] = profileWatch[i]
      BY <1>1 DEF Store, TypeOK
    <2>3. profiles'[k] = profiles[k] => profileWatch'[k] = profileWatch[k]
      BY <1>1 DEF Store, TypeOK
    <2>. QED  BY <1>1, <2>1, <2>2, <2>3, TrackedByStore
  <1>2. ASSUME NEW k \in Keys, DeliverProfileEvent(k) PROVE Tracked(j)'
    <2>1. CASE j = k
      BY <1>2, <2>1 DEF DeliverProfileEvent, Tracked
    <2>2. CASE j # k
      BY <1>0, <1>2, <2>2 DEF DeliverProfileEvent, Tracked, TypeOK
    <2>. QED  BY <2>1, <2>2
  <1>3. ASSUME NEW p \in Pods, DeliverPodEvent(p) PROVE Tracked(j)'
    BY <1>0, <1>3 DEF DeliverPodEvent, Tracked
  <1>4. ASSUME NEW k \in Keys, FireTimer(k) PROVE Tracked(j)'
    <2>1. Tracked(j)
      BY <1>0, <1>4 DEF FireTimer
    <2>. QED  BY <1>4, <2>1 DEF FireTimer, Tracked
  <1>5. ASSUME NEW k \in Keys, TakeKey(k) PROVE Tracked(j)'
    <2>1. Tracked(j)
      BY <1>0, <1>5 DEF TakeKey
    <2>. QED  BY <1>5, <2>1 DEF TakeKey, Tracked
  <1>6. CASE ReconcileGet
    <2>1. up /\ Tracked(j) /\ Pending(profiles[j])
      BY <1>0, <1>6 DEF ReconcileGet
    <2>2. CASE cur = j /\ profileWatch[j] = <<>>
      <3>1. Pending(cProfiles[cur])
        BY <2>1, <2>2 DEF CacheCatchesUp
      <3>. QED  BY <1>6, <2>2, <3>1 DEF ReconcileGet, Tracked
    <2>3. CASE ~(cur = j /\ profileWatch[j] = <<>>)
      BY <1>6, <2>1, <2>3 DEF ReconcileGet, Tracked
    <2>. QED  BY <2>2, <2>3
  <1>7. CASE ReconcileList
    <2>1. Tracked(j)
      BY <1>0, <1>7 DEF ReconcileList
    <2>2. CASE Idle /\ requeued' = requeued \cup {cur}
      BY <1>7, <2>1, <2>2 DEF ReconcileList, Tracked
    <2>3. CASE pc' = "patch" /\ UNCHANGED <<cur, requeued>>
      BY <1>7, <2>1, <2>3 DEF ReconcileList, Tracked
    <2>. QED  BY <1>7, <2>2, <2>3 DEF ReconcileList
  <1>8. CASE ReconcilePatch
    <2>. DEFINE fins == PatchOf(cur, snap).finalizers
    <2>1. /\ cur \in Keys /\ profiles[cur] \in Object /\ up
          /\ Finalizer \notin fins
      BY <1>8 DEF ReconcilePatch, TypeOK, PatchOf, RemoveFinalizer
    <2>2. CASE /\ UpdateAllowed(profiles[cur], fins)
               /\ Store(cur, Updated(profiles[cur], fins))
      <3>1. profiles'[cur] = Updated(profiles[cur], fins)
        BY <2>1, <2>2 DEF Store, TypeOK
      <3>2. j # cur
        BY <2>1, <2>2, <3>1, PatchReleases
      <3>3. profiles'[j] = profiles[j] /\ profileWatch'[j] = profileWatch[j]
        BY <2>1, <2>2, <3>2 DEF Store, TypeOK
      <3>4. queue \cup requeued \cup backoff
                \subseteq (queue \cup requeued \cup backoff)'
        BY <1>8 DEF ReconcilePatch
      <3>5. Tracked(j)
        BY <1>0, <2>1, <3>3
      <3>. QED  BY <3>2, <3>3, <3>4, <3>5 DEF Tracked
    <2>3. CASE /\ backoff' = backoff \cup RetryAfterError(cur)
               /\ UNCHANGED <<profiles, profileWatch>>
      <3>1. Tracked(j)
        BY <1>0, <2>1, <2>3
      <3>. QED
        BY <1>8, <2>3, <3>1 DEF ReconcilePatch, RetryAfterError, Tracked
    <2>. QED  BY <1>8, <2>2, <2>3 DEF ReconcilePatch
  <1>9. CASE ReconcileError
    <2>1. Tracked(j)
      BY <1>0, <1>9 DEF ReconcileError
    <2>. QED  BY <1>9, <2>1 DEF ReconcileError, RetryAfterError, Tracked
  <1>10. ASSUME NEW req \in orphans, OrphanArrives(req) PROVE Tracked(j)'
    <2>1. req.key \in Keys
      BY DEF TypeOK, Request
    <2>2. CASE UNCHANGED <<profiles, profileWatch>>
      BY <1>0, <1>10, <2>2 DEF OrphanArrives, Tracked
    <2>. QED  BY <1>1, <1>10, <2>1, <2>2 DEF OrphanArrives
  <1>11. CASE ControllerCrash
    BY <1>11 DEF ControllerCrash
  <1>12. CASE ControllerRestart
    BY <1>12 DEF ControllerRestart, Tracked, Pending, Exists
  <1>13. CASE UNCHANGED <<up, profiles, profileWatch, queueVars, workerVars>>
    BY <1>0, <1>13 DEF Tracked
  <1>. QED
    BY <1>1, <1>2, <1>3, <1>4, <1>5, <1>6, <1>7, <1>8, <1>9, <1>10, <1>11,
       <1>12, <1>13
    DEF Next, Environment, Controller, Faults, vars, CreateProfile,
        UpdateProfile, DeleteProfile, CreatePod, DeletePod, RelabelPod

(* A profile that waits for its release is never forgotten by a running     *)
(* controller: whatever fails, an event, the queue, a timer or the running  *)
(* reconciliation will look at it again.                                    *)
THEOREM NoReleaseForgotten == Spec => []PendingProfilesTracked
  <1>1. Init => PendingProfilesTracked
    BY DEF Init, PendingProfilesTracked, Pending, Never
  <1>2. ReadInv => DownMeansEmpty
    BY DEF ReadInv
  <1>. QED
    BY <1>1, <1>2, TrackedStep, CatchUpInvariant, ReadInvariant, TypeCorrect,
       PTL DEF Spec

(* The same for profiles known to be unused, without the 90 seconds timer.  *)
Prompted(k) ==
    \/ profileWatch[k] # <<>>
    \/ k \in queue \cup backoff
    \/ pc # "idle" /\ cur = k

Unused(k) == Pending(cProfiles[k]) /\ PodsNaming(cPods, k) = {}

(* Events on their way do not get lost in a write. *)
LEMMA StoreKeepsEvents ==
    ASSUME TypeOK, NEW k \in Keys, NEW obj \in Object, Store(k, obj), NEW j \in Keys,
           profileWatch[j] # <<>>
    PROVE  profileWatch'[j] # <<>>
  <1>1. profileWatch[j] \in Seq(Object)
    BY DEF TypeOK
  <1>2. profileWatch'[j] = profileWatch[j] \/ profileWatch'[j] = Append(profileWatch[j], obj)
    BY DEF Store, TypeOK
  <1>. QED  BY <1>1, <1>2

(* No step leaves an unused profile to the timer. *)
LEMMA PromptStep ==
    ASSUME TypeOK, TypeOK', DownMeansEmpty, CacheCatchesUp', UnusedProfilesPrompt,
           [Next]_vars
    PROVE  UnusedProfilesPrompt'
  <1>. SUFFICES ASSUME NEW j \in Keys, Unused(j)' PROVE Prompted(j)'
    BY DEF UnusedProfilesPrompt, Unused, Prompted
  <1>. USE DEF watchVars, serverVars, cacheVars, queueVars, workerVars
  <1>0. Unused(j) => Prompted(j)
    BY DEF UnusedProfilesPrompt, Unused, Prompted
  <1>1. ASSUME NEW k \in Keys, NEW obj, Store(k, obj),
               UNCHANGED <<cacheVars, queueVars, workerVars>>
        PROVE  Prompted(j)'
    <2>1. obj \in Object
      BY <1>1 DEF Store, TypeOK
    <2>2. Prompted(j)
      BY <1>0, <1>1 DEF Unused
    <2>3. profileWatch[j] # <<>> => profileWatch'[j] # <<>>
      BY <1>1, <2>1, StoreKeepsEvents
    <2>. QED  BY <1>1, <2>2, <2>3 DEF Prompted
  <1>2. ASSUME NEW k \in Keys, DeliverProfileEvent(k) PROVE Prompted(j)'
    <2>1. CASE j = k
      BY <1>2, <2>1 DEF DeliverProfileEvent, Prompted
    <2>2. CASE j # k
      <3>1. Prompted(j)
        BY <1>0, <1>2, <2>2 DEF DeliverProfileEvent, Unused, TypeOK
      <3>. QED  BY <1>2, <2>2, <3>1 DEF DeliverProfileEvent, Prompted, TypeOK
    <2>. QED  BY <2>1, <2>2
  <1>3. ASSUME NEW p \in Pods, DeliverPodEvent(p) PROVE Prompted(j)'
    <2>1. CASE cPods[p] = j
      BY <1>3, <2>1 DEF DeliverPodEvent, findProfilesForPod, Prompted
    <2>2. CASE cPods[p] # j
      <3>1. \A q \in Pods : cPods[q] = j => cPods'[q] = j
        BY <1>3, <2>2 DEF DeliverPodEvent, TypeOK
      <3>2. Prompted(j)
        BY <1>0, <1>3, <3>1 DEF DeliverPodEvent, Unused, PodsNaming
      <3>. QED  BY <1>3, <3>2 DEF DeliverPodEvent, Prompted
    <2>. QED  BY <2>1, <2>2
  <1>4. ASSUME NEW k \in Keys, FireTimer(k) \/ TakeKey(k) PROVE Prompted(j)'
    <2>1. Prompted(j)
      BY <1>0, <1>4 DEF FireTimer, TakeKey, Unused
    <2>. QED  BY <1>4, <2>1 DEF FireTimer, TakeKey, Prompted
  <1>5. CASE ReconcileGet
    <2>1. Prompted(j) /\ Pending(cProfiles[j])
      BY <1>0, <1>5 DEF ReconcileGet, Unused
    <2>. QED  BY <1>5, <2>1 DEF ReconcileGet, Prompted
  <1>6. CASE ReconcileList
    <2>1. Prompted(j) /\ PodsNaming(cPods, j) = {}
      BY <1>0, <1>6 DEF ReconcileList, Unused
    <2>. QED  BY <1>6, <2>1 DEF ReconcileList, Prompted
  <1>7. CASE ReconcilePatch
    <2>. DEFINE fins == PatchOf(cur, snap).finalizers
    <2>1. /\ cur \in Keys /\ profiles[cur] \in Object /\ up /\ up'
          /\ Finalizer \notin fins /\ Prompted(j) /\ Pending(cProfiles'[j])
      BY <1>0, <1>7 DEF ReconcilePatch, TypeOK, PatchOf, RemoveFinalizer, DownMeansEmpty,
                        Unused
    <2>2. CASE /\ UpdateAllowed(profiles[cur], fins)
               /\ Store(cur, Updated(profiles[cur], fins)) /\ UNCHANGED backoff
      <3>1. profiles'[cur] = Updated(profiles[cur], fins)
        BY <2>1, <2>2 DEF Store, TypeOK
      <3>2. ~Pending(profiles'[cur])
        BY <2>1, <2>2, <3>1, PatchReleases
      <3>3. CASE j = cur
        BY <2>1, <3>2, <3>3 DEF CacheCatchesUp, Prompted
      <3>4. CASE j # cur
        <4>1. profileWatch'[j] = profileWatch[j]
          BY <2>1, <2>2, <3>4 DEF Store, TypeOK
        <4>. QED  BY <1>7, <2>1, <2>2, <3>4, <4>1 DEF ReconcilePatch, Prompted
      <3>. QED  BY <3>3, <3>4
    <2>3. CASE /\ backoff' = backoff \cup RetryAfterError(cur)
               /\ UNCHANGED <<profiles, profileWatch>>
      BY <1>7, <2>1, <2>3 DEF ReconcilePatch, RetryAfterError, Prompted
    <2>. QED  BY <1>7, <2>2, <2>3 DEF ReconcilePatch
  <1>8. CASE ReconcileError
    <2>1. Prompted(j)
      BY <1>0, <1>8 DEF ReconcileError, Unused
    <2>. QED  BY <1>8, <2>1 DEF ReconcileError, RetryAfterError, Prompted
  <1>9. ASSUME NEW req \in orphans, OrphanArrives(req) PROVE Prompted(j)'
    <2>1. req.key \in Keys
      BY DEF TypeOK, Request
    <2>2. CASE UNCHANGED <<profiles, profileWatch>>
      <3>1. Prompted(j)
        BY <1>0, <1>9 DEF OrphanArrives, Unused
      <3>. QED  BY <1>9, <2>2, <3>1 DEF OrphanArrives, Prompted
    <2>. QED  BY <1>1, <1>9, <2>1, <2>2 DEF OrphanArrives
  <1>10. CASE ControllerCrash
    BY <1>10 DEF ControllerCrash, Unused, Pending, Never
  <1>11. CASE ControllerRestart
    BY <1>11 DEF ControllerRestart, Prompted, Unused, Pending, Exists
  <1>12. CASE UNCHANGED <<profileWatch, cacheVars, queueVars, workerVars>>
    BY <1>0, <1>12 DEF Prompted, Unused
  <1>. QED
    BY <1>1, <1>2, <1>3, <1>4, <1>5, <1>6, <1>7, <1>8, <1>9, <1>10, <1>11, <1>12
    DEF Next, Environment, Controller, Faults, vars, CreateProfile,
        UpdateProfile, DeleteProfile, CreatePod, DeletePod, RelabelPod

(* With or without the pod label policy, a profile the controller knows to  *)
(* be unused never waits for the 90 seconds of handleDeletion: the pod      *)
(* event that made it unused, or the rate limiter, has queued it.           *)
THEOREM UnusedReleasedPromptly == Spec => []UnusedProfilesPrompt
  <1>1. Init => UnusedProfilesPrompt
    BY DEF Init, UnusedProfilesPrompt, Pending, Never
  <1>2. ReadInv => DownMeansEmpty
    BY DEF ReadInv
  <1>. QED
    BY <1>1, <1>2, PromptStep, CatchUpInvariant, ReadInvariant, TypeCorrect,
       PTL DEF Spec

-----------------------------------------------------------------------------
(* Pods known to use a profile when its deletion was requested block its    *)
(* release.  This rests on the admission policy that freezes pod labels.    *)

LEMMA PodMovesOn ==
    ASSUME VapEnabled, TypeOK, [Next]_vars, NEW p \in Pods
    PROVE  \/ podRef'[p] = podRef[p]
           \/ podRef[p] = NotCreated
           \/ podRef'[p] = Deleted
  BY DEF TypeOK, Next, Environment, Controller, Faults, vars, serverVars,
        StorePod, AdmitPodUpdate, CreateProfile, UpdateProfile,
        DeleteProfile, CreatePod, DeletePod, RelabelPod, DeliverPodEvent,
        FireTimer, TakeKey, ReconcileGet, ReconcileList, ReconcileError,
        ControllerRestart, ControllerCrash, DeliverProfileEvent,
        ReconcilePatch, OrphanArrives

(* With the label policy, every step keeps the label a pod was created with *)
(* everywhere it is known.                                                  *)
LEMMA PodLabelsStep ==
    ASSUME VapEnabled, TypeOK, PodLabelsFixed, [Next]_vars
    PROVE  PodLabelsFixed'
  <1>. USE DEF watchVars, serverVars, cacheVars
  <1>1. ASSUME NEW p \in Pods, NEW ref \in Keys \cup {NoProfile},
               CreatePod(p, ref)
        PROVE  PodLabelsFixed'
    <2>. SUFFICES ASSUME NEW q \in Pods
                  PROVE  /\ podRef'[q] = NotCreated =>
                                cPods'[q] = NotCreated /\ podWatch'[q] = <<>>
                         /\ podRef'[q] \notin {NotCreated, Deleted} =>
                                \A i \in 1..Len(podWatch'[q]) :
                                    podWatch'[q][i] = podRef'[q]
      BY DEF PodLabelsFixed
    <2>1. CASE q # p
      <3>1. /\ podRef'[q] = podRef[q] /\ podWatch'[q] = podWatch[q]
            /\ cPods'[q] = cPods[q]
        BY <1>1, <2>1 DEF CreatePod, StorePod, TypeOK
      <3>. QED  BY <3>1 DEF PodLabelsFixed
    <2>2. CASE q = p
      <3>1. ref # NotCreated /\ podRef'[q] = ref /\ podWatch[p] = <<>>
        BY <1>1, <2>2, ReferenceAssumption
        DEF CreatePod, StorePod, TypeOK, PodLabelsFixed
      <3>2. podWatch'[q] \in {<<>>, <<ref>>}
        BY <1>1, <2>2, <3>1 DEF CreatePod, StorePod, TypeOK
      <3>. QED  BY <3>1, <3>2
    <2>. QED  BY <2>1, <2>2
  <1>2. ASSUME NEW p \in Pods, DeletePod(p) PROVE PodLabelsFixed'
    BY <1>2, ReferenceAssumption DEF DeletePod, StorePod, TypeOK, PodLabelsFixed
  <1>3. ASSUME NEW p \in Pods, DeliverPodEvent(p) PROVE PodLabelsFixed'
    <2>. SUFFICES ASSUME NEW q \in Pods
                  PROVE  /\ podRef[q] = NotCreated =>
                                cPods'[q] = NotCreated /\ podWatch'[q] = <<>>
                         /\ podRef[q] \notin {NotCreated, Deleted} =>
                                \A i \in 1..Len(podWatch'[q]) :
                                    podWatch'[q][i] = podRef[q]
      BY <1>3 DEF PodLabelsFixed, DeliverPodEvent
    <2>1. CASE q # p
      <3>1. podWatch'[q] = podWatch[q] /\ cPods'[q] = cPods[q]
        BY <1>3, <2>1 DEF DeliverPodEvent, TypeOK
      <3>. QED  BY <3>1 DEF PodLabelsFixed
    <2>2. CASE q = p
      <3>1. /\ podWatch[p] \in Seq(References) /\ podWatch[p] # <<>>
            /\ podWatch'[q] = Tail(podWatch[p]) /\ podRef[q] # NotCreated
        BY <1>3, <2>2 DEF DeliverPodEvent, TypeOK, PodLabelsFixed
      <3>2. \A i \in 1..Len(podWatch'[q]) :
                /\ podWatch'[q][i] = podWatch[p][i+1]
                /\ i + 1 \in 1..Len(podWatch[p])
        BY <3>1, HeadTailProperties, EmptySeq
      <3>. QED  BY <2>2, <3>1, <3>2 DEF PodLabelsFixed
    <2>. QED  BY <2>1, <2>2
  <1>4. CASE ControllerCrash
    BY <1>4 DEF ControllerCrash, PodLabelsFixed
  <1>5. CASE ControllerRestart
    BY <1>5 DEF ControllerRestart, PodLabelsFixed
  <1>6. CASE UNCHANGED <<podRef, podWatch, cPods>>
    BY <1>6 DEF PodLabelsFixed
  <1>. QED
    BY <1>1, <1>2, <1>3, <1>4, <1>5, <1>6
    DEF Next, Environment, Controller, Faults, vars, AdmitPodUpdate,
        CreateProfile, UpdateProfile, DeleteProfile, RelabelPod, FireTimer,
        TakeKey, ReconcileGet, ReconcileList, ReconcileError,
        DeliverProfileEvent, ReconcilePatch, OrphanArrives

(* Every step keeps the witnessed pods that still exist in the cache of a   *)
(* running controller.                                                      *)
LEMMA WitnessesStep ==
    ASSUME VapEnabled, TypeOK, PodLabelsFixed, WitnessesSeen, [Next]_vars
    PROVE  WitnessesSeen'
  <1>. SUFFICES ASSUME NEW k \in Keys, NEW p \in witnessed'[k]
                PROVE  /\ podRef'[p] # NotCreated
                       /\ up' /\ podRef'[p] = k => cPods'[p] = k
    BY DEF WitnessesSeen
  <1>. USE DEF watchVars, serverVars, cacheVars
  <1>1. CASE \E j \in Keys : DeleteProfile(j)
    <2>1. PICK j \in Keys : DeleteProfile(j)
      BY <1>1
    <2>2. UNCHANGED <<up, podRef, cPods>>
      BY <2>1 DEF DeleteProfile
    <2>3. CASE p \in witnessed[k]
      BY <2>2, <2>3 DEF WitnessesSeen
    <2>4. CASE p \notin witnessed[k]
      <3>1. p \in PodsNaming(IF up THEN cPods ELSE podRef, k)
        BY <2>1, <2>4 DEF DeleteProfile, TypeOK
      <3>2. p \in Pods /\ k # NotCreated
        BY <3>1, ReferenceAssumption DEF PodsNaming
      <3>. QED  BY <2>2, <3>1, <3>2 DEF PodsNaming, PodLabelsFixed
    <2>. QED  BY <2>3, <2>4
  <1>2. CASE UNCHANGED witnessed
    <2>1. /\ p \in witnessed[k] /\ p \in Pods
          /\ podRef[p] # NotCreated
          /\ up /\ podRef[p] = k => cPods[p] = k
      BY <1>2 DEF WitnessesSeen, TypeOK
    <2>2. podRef'[p] = podRef[p] \/ podRef'[p] = Deleted
      BY <2>1, PodMovesOn
    <2>3. k # Deleted /\ k # NotCreated /\ Deleted # NotCreated
      BY ReferenceAssumption
    <2>4. ASSUME up', podRef'[p] = k PROVE cPods'[p] = k
      <3>1. podRef[p] = k
        BY <2>2, <2>3, <2>4
      <3>2. CASE up /\ cPods'[p] = cPods[p]
        BY <2>1, <3>1, <3>2
      <3>3. CASE ControllerRestart
        BY <3>1, <3>3 DEF ControllerRestart
      <3>4. CASE ControllerCrash
        BY <2>4, <3>4 DEF ControllerCrash
      <3>5. ASSUME NEW q \in Pods, DeliverPodEvent(q) PROVE cPods'[p] = k
        <4>1. CASE q = p
          <5>1. /\ podWatch[p] \in Seq(References) /\ podWatch[p] # <<>>
                /\ cPods'[p] = Head(podWatch[p])
            BY <2>1, <3>5, <4>1 DEF DeliverPodEvent, TypeOK
          <5>2. Head(podWatch[p]) = podWatch[p][1] /\ 1 \in 1..Len(podWatch[p])
            BY <5>1, EmptySeq
          <5>3. podWatch[p][1] = k
            BY <2>1, <2>3, <3>1, <5>2 DEF PodLabelsFixed
          <5>. QED  BY <5>1, <5>2, <5>3
        <4>2. CASE q # p
          BY <2>1, <3>1, <3>5, <4>2 DEF DeliverPodEvent, TypeOK
        <4>. QED  BY <4>1, <4>2
      <3>6. CASE UNCHANGED <<up, cPods>>
        BY <2>4, <3>2, <3>6
      <3>. QED
        BY <3>3, <3>4, <3>5, <3>6
        DEF Next, Environment, Controller, Faults, vars, CreateProfile,
            UpdateProfile, DeleteProfile, CreatePod, DeletePod, RelabelPod,
            FireTimer, TakeKey, ReconcileGet, ReconcileList, ReconcileError,
            DeliverProfileEvent, ReconcilePatch, OrphanArrives
    <2>. QED  BY <2>1, <2>2, <2>3, <2>4
  <1>. QED
    BY <1>1, <1>2
    DEF Next, Environment, Controller, Faults, vars, CreateProfile,
        UpdateProfile, CreatePod, DeletePod, RelabelPod, FireTimer, TakeKey,
        ReconcileGet, ReconcileList, ReconcileError, ControllerRestart,
        ControllerCrash, DeliverProfileEvent, DeliverPodEvent,
        ReconcilePatch, OrphanArrives

(* The only new patch a step puts in flight comes from an empty List. *)
LEMMA InFlightSources ==
    ASSUME TypeOK, [Next]_vars, NEW req \in InFlight'
    PROVE  \/ req \in InFlight
           \/ /\ pc = "list" /\ PodsNaming(cPods, cur) = {}
              /\ req = PatchOf(cur, snap)
              /\ UNCHANGED <<profiles, podRef, witnessed>>
  <1>1. CASE ReconcileList
    <2>1. req \in orphans \/ (pc' = "patch" /\ req = PatchOf(cur', snap'))
      BY <1>1 DEF InFlight, ReconcileList
    <2>. QED
      BY <1>1, <2>1 DEF InFlight, ReconcileList, Idle, serverVars
  <1>2. CASE ~ReconcileList
    <2>1. pc' = "patch" => pc = "patch" /\ cur' = cur /\ snap' = snap
      BY <1>2 DEF Next, Environment, Controller, Faults, vars, workerVars,
        Idle, CreateProfile, UpdateProfile, DeleteProfile, CreatePod,
        DeletePod, RelabelPod, DeliverPodEvent, FireTimer, TakeKey,
        ReconcileGet, ReconcileError, ControllerRestart, ControllerCrash,
        DeliverProfileEvent, ReconcilePatch, OrphanArrives
    <2>2. req \in orphans' \/ (pc' = "patch" /\ req = PatchOf(cur', snap'))
      BY DEF InFlight
    <2>3. PatchOf(cur, snap)' = PatchOf(cur', snap')
      BY DEF PatchOf, RemoveFinalizer
    <2>. QED  BY <2>1, <2>2, OrphanSources DEF InFlight
  <1>. QED  BY <1>1, <1>2

(* No step puts in flight a release that a witnessed pod still blocks, nor  *)
(* blocks one that is in flight.                                            *)
LEMMA BlockStep ==
    ASSUME VapEnabled, TypeOK, TypeOK', ReadInv, WitnessesSeen,
           WitnessedPodsBlockRelease, [Next]_vars
    PROVE  WitnessedPodsBlockRelease'
  <1>. SUFFICES ASSUME NEW req \in InFlight',
                       req.uid = profiles'[req.key].uid,
                       NEW p \in witnessed'[req.key]
                PROVE  podRef'[p] # req.key
    BY DEF WitnessedPodsBlockRelease
  <1>1. CASE req \in InFlight
    <2>. DEFINE k == req.key
    <2>1. /\ k \in Keys /\ req \in Request /\ Agrees(req, profiles[k])
      BY <1>1, InFlightAgrees DEF Request
    <2>2. Precedes(profiles[k], profiles'[k])
      BY <2>1, ServerMovesOn DEF ReadInv
    <2>3. req.uid = profiles[k].uid /\ profiles[k].phase # "live"
      <3>1. /\ req.uid \in Int /\ profiles[k].uid \in Int
            /\ profiles'[k].uid \in Int
        BY <2>1, BoundAssumption DEF Request, TypeOK, Object
      <3>. QED  BY <2>1, <2>2, <3>1 DEF Agrees, Precedes
    <2>4. witnessed'[k] = witnessed[k]
      BY <2>1, <2>3
      DEF TypeOK, Next, Environment, Controller, Faults, vars,
          CreateProfile, UpdateProfile, DeleteProfile, CreatePod, DeletePod,
          RelabelPod, FireTimer, TakeKey, ReconcileGet, ReconcileList,
          ReconcileError, ControllerRestart, ControllerCrash,
          DeliverProfileEvent, DeliverPodEvent, ReconcilePatch, OrphanArrives
    <2>5. p \in Pods /\ podRef[p] # k /\ podRef[p] # NotCreated
      BY <1>1, <2>1, <2>3, <2>4
      DEF WitnessedPodsBlockRelease, WitnessesSeen, TypeOK
    <2>6. podRef'[p] = podRef[p] \/ podRef'[p] = Deleted
      BY <2>5, PodMovesOn
    <2>. QED  BY <2>1, <2>5, <2>6, ReferenceAssumption
  <1>2. CASE /\ pc = "list" /\ PodsNaming(cPods, cur) = {}
             /\ req = PatchOf(cur, snap)
             /\ UNCHANGED <<profiles, podRef, witnessed>>
    <2>1. cur \in Keys /\ up /\ req.key = cur
      BY <1>2 DEF TypeOK, ReadInv, DownMeansEmpty, PatchOf
    <2>2. p \in witnessed[cur] /\ p \in Pods
      BY <1>2, <2>1 DEF TypeOK
    <2>3. cPods[p] # cur
      BY <1>2, <2>2 DEF PodsNaming
    <2>. QED  BY <1>2, <2>1, <2>2, <2>3 DEF WitnessesSeen
  <1>. QED  BY <1>1, <1>2, InFlightSources

(* With the admission policy on, the finalizer of an incarnation is only    *)
(* patched away after every pod the controller knew about when the deletion *)
(* was requested is gone, however stale its caches are.                     *)
THEOREM WitnessedPodsProtect ==
    ASSUME VapEnabled
    PROVE  Spec => []WitnessedPodsBlockRelease
  <1>1. Init => PodLabelsFixed /\ WitnessesSeen /\ WitnessedPodsBlockRelease
    BY DEF Init, PodLabelsFixed, WitnessesSeen, WitnessedPodsBlockRelease,
           InFlight
  <1>2. TypeOK /\ PodLabelsFixed /\ [Next]_vars => PodLabelsFixed'
    BY PodLabelsStep
  <1>3. TypeOK /\ PodLabelsFixed /\ WitnessesSeen /\ [Next]_vars
            => WitnessesSeen'
    BY WitnessesStep
  <1>4. TypeOK /\ TypeOK' /\ ReadInv /\ WitnessesSeen
          /\ WitnessedPodsBlockRelease /\ [Next]_vars
            => WitnessedPodsBlockRelease'
    BY BlockStep
  <1>. QED
    BY <1>1, <1>2, <1>3, <1>4, TypeCorrect, ReadInvariant, PTL DEF Spec
=============================================================================
