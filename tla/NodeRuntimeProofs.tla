-------------------------- MODULE NodeRuntimeProofs --------------------------
(***************************************************************************)
(* Proofs about NodeRuntime, for any pods, containers, profiles and files  *)
(* and any value of the bounds.  The invariant says who owns a file: no    *)
(* two paths share an inode, the inode a sealed container has mounted can  *)
(* be reached under the path of that container only, and what is written   *)
(* belongs to the container being created.  And it says who will clean up: *)
(* as long as a pod has files some container of it is still to be removed. *)
(***************************************************************************)
EXTENDS NodeRuntime, TLAPS

-----------------------------------------------------------------------------
(* Slots, paths and profiles. *)

(* A slot is a pod and a name, and the profile file of a slot is named    *)
(* after it.                                                                *)
LEMMA SlotFacts ==
    ASSUME NEW s \in Slots
    PROVE  /\ s[1] \in Pods /\ s[2] \in Names /\ s = <<s[1], s[2]>>
           /\ ProfilePath(s) = s
           /\ \A b \in Binaries : /\ SwappedPath(s, b) \in Pods \X Names \X Binaries
                                  /\ SwappedPath(s, b)[1] = s[1]
  BY DEF Slots, ProfilePath, landlockProfilePathOnHost, SwappedPath,
         swappedBinaryPathOnHost

(* What a version lists for a container are binaries. *)
LEMMA EntryFacts ==
    ASSUME NEW v \in Versions, NEW n \in DOMAIN Entry[v]
    PROVE  Entry[v][n] \in SUBSET Binaries
<1>1. Entry[v] \in UNION {[N -> SUBSET Binaries] : N \in SUBSET Names}
  BY EntryAssumption
<1>2. PICK N \in SUBSET Names : Entry[v] \in [N -> SUBSET Binaries]
  BY <1>1
<1> QED
  BY <1>2

-----------------------------------------------------------------------------
(* The invariant. *)

Containers == [state : {"none", "creating", "adjusted", "plain", "sealed"},
               version : 0..MaxVersion, inode : Inodes \cup {NoInode}]

(* A call in progress is that of a container in creation. *)
CallInv ==
    /\ h.step = "idle" => h = NoCall
    /\ h.step # "idle" => attached /\ ctr[h.slot].state = "creating"
    /\ h.step = "write" => h.slot \in DOMAIN files

FilesApart == \A f, g \in DOMAIN files : files[f] = files[g] => f = g

MountsOwned ==
    \A s \in Slots : ctr[s].state = "sealed" =>
        /\ ctr[s].inode \in Inodes
        /\ \A f \in DOMAIN files : files[f] = ctr[s].inode => f = s

AdjustedAsRead ==
    \A s \in DOMAIN files :
        ctr[s].state = "adjusted" => content[files[s]] = ctr[s].version

(* Something of the pod is still to be removed. *)
Due(s) == ctr[s].state # "none" \/ dead[s] > 0
RemovalDue(p) == \E s \in Slots : s[1] = p /\ Due(s)

FilesOwed ==
    \A f \in DOMAIN files \cup reserved : f[1] \in missed \/ RemovalDue(f[1])

GoneIsEmpty == \A p \in Pods : pods[p] = "gone" => ~RemovalDue(p)

NodeInv ==
    /\ TypeOK /\ CallInv
    /\ FilesApart /\ MountsOwned /\ AdjustedAsRead /\ SealedAsRead
    /\ FilesOwed /\ GoneIsEmpty

(* The type of the call in progress, as in TypeOK. *)
CallType(c) ==
    /\ c \in [step : {"idle", "get", "reserve", "write"},
              slot : Slots \cup {NoSlot}, version : 0..MaxVersion,
              todo : SUBSET Binaries]
    /\ c.step = "idle" <=> c.slot = NoSlot

(* GetProfile leads a call on to the files. *)
LEMMA CallGoesOn ==
    ASSUME NEW c, CallType(c), c.step # "idle",
           NEW v \in 0..MaxVersion, NEW todo \in SUBSET Binaries
    PROVE  CallType([c EXCEPT !.step = "reserve", !.version = v, !.todo = todo])
  BY DEF CallType

(* The initial state has no files, no containers and no call. *)
LEMMA InitInv == Init => NodeInv
<1> SUFFICES ASSUME Init PROVE NodeInv
  OBVIOUS
<1> USE DEF Init, NoCall, NoCtr
<1>1. TypeOK
  BY BoundAssumption, NoneAssumption DEF TypeOK, Unsynced
<1>2. CallInv /\ FilesApart /\ MountsOwned /\ AdjustedAsRead /\ SealedAsRead
  BY DEF CallInv, FilesApart, MountsOwned, AdjustedAsRead, SealedAsRead
<1>3. FilesOwed /\ GoneIsEmpty
  BY DEF FilesOwed, GoneIsEmpty, RemovalDue, Due
<1> QED
  BY <1>1, <1>2, <1>3 DEF NodeInv

(* The slot of a call. *)
LEMMA CallSlot ==
    ASSUME TypeOK, CallInv, h.step # "idle" \/ h # NoCall
    PROVE  h.slot \in Slots /\ h.slot[1] \in Pods /\ h.step # "idle"
<1>1. h.step # "idle" /\ h.slot \in Slots
  BY DEF TypeOK, CallInv
<1> QED
  BY <1>1, SlotFacts

(* A change of one container. *)
LEMMA SetCtrFacts ==
    ASSUME ctr \in [Slots -> Containers], NEW s \in Slots,
           NEW state \in {"none", "creating", "adjusted", "plain", "sealed"},
           NEW v \in 0..MaxVersion, NEW i \in Inodes \cup {NoInode},
           SetCtr(s, state, v, i)
    PROVE  /\ ctr' \in [Slots -> Containers]
           /\ ctr'[s].state = state /\ ctr'[s].version = v /\ ctr'[s].inode = i
           /\ \A t \in Slots : t # s => ctr'[t] = ctr[t]
  BY DEF SetCtr, Containers
-----------------------------------------------------------------------------
(* Types. *)

(* Every step keeps the types. *)
LEMMA NextType == NodeInv /\ [Next]_vars => TypeOK'
<1> SUFFICES ASSUME NodeInv, [Next]_vars PROVE TypeOK'
  OBVIOUS
<1> USE BoundAssumption, NoneAssumption
<1>a. TypeOK /\ CallInv /\ ctr \in [Slots -> Containers]
  BY DEF NodeInv, TypeOK, Containers
<1>b. ASSUME h.step # "idle" \/ h # NoCall
      PROVE  h.slot \in Slots /\ h.slot[1] \in Pods /\ h.step # "idle"
  BY <1>a, <1>b, CallSlot
<1>c. NoCall \in [step : {"idle", "get", "reserve", "write"},
                  slot : Slots \cup {NoSlot}, version : 0..MaxVersion,
                  todo : SUBSET Binaries] /\ NoCall.step = "idle" /\ NoCall.slot = NoSlot
  BY DEF NoCall
<1>1. CASE PublishVersion
  BY <1>1, <1>a DEF PublishVersion, hostVars, nodeVars, TypeOK, Unsynced
<1>2. ASSUME NEW s \in Slots, RequestContainer(s) PROVE TypeOK'
  <2>1. ctr' \in [Slots -> Containers]
    BY <1>a, <1>2, SetCtrFacts DEF RequestContainer
  <2>2. CASE h' = [NoCall EXCEPT !.step = "get", !.slot = s]
    BY <1>2, <1>a, <2>1, <2>2 DEF RequestContainer, hostVars, TypeOK, Containers, NoCall
  <2>3. CASE h' = h
    BY <1>2, <1>a, <2>1, <2>3 DEF RequestContainer, hostVars, TypeOK, Containers
  <2> QED
    BY <1>2, <2>2, <2>3 DEF RequestContainer
<1>3. ASSUME NEW s \in Slots, StartContainer(s) PROVE TypeOK'
  <2>1. files[ProfilePath(s)] \in Inodes /\ ctr[s].version \in 0..MaxVersion
    BY <1>3, <1>a DEF StartContainer, SourcesPresent, TypeOK, Containers
  <2>2. ctr' \in [Slots -> Containers]
    BY <1>a, <1>3, <2>1, SetCtrFacts DEF StartContainer
  <2> QED
    BY <1>3, <1>a, <2>2 DEF StartContainer, hostVars, TypeOK, Containers
<1>4. ASSUME NEW s \in Slots, StartFails(s) \/ ContainerExits(s) PROVE TypeOK'
  <2>1. ctr' \in [Slots -> Containers]
    BY <1>a, <1>4, SetCtrFacts DEF StartFails, ContainerExits
  <2>2. s[1] \in Pods
    BY SlotFacts
  <2>3. dead' \in [Slots -> Nat] /\ exits' \in [Slots -> 0..MaxExits]
    <3>1. CASE StartFails(s)
      BY <1>a, <3>1 DEF StartFails, TypeOK
    <3>2. CASE ContainerExits(s)
      BY <1>a, <2>2, <3>2 DEF ContainerExits, TypeOK
    <3> QED
      BY <1>4, <3>1, <3>2
  <2> QED
    BY <1>4, <1>a, <2>1, <2>3 DEF StartFails, ContainerExits, hostVars, TypeOK, Containers
<1>5. ASSUME NEW p \in Pods, DeletePod(p) \/ PodGone(p) PROVE TypeOK'
  BY <1>5, <1>a DEF DeletePod, PodGone, hostVars, TypeOK
<1>6. CASE SyncCache \/ DeliverVersion
  BY <1>6, <1>a DEF SyncCache, DeliverVersion, hostVars, nodeVars, TypeOK, Unsynced
<1>7. CASE GetProfile
  <2>1. h.slot \in Slots /\ h.slot[1] \in Pods
    BY <1>7, <1>b DEF GetProfile
  <2>2. CASE cached = 0 /\ Fail
    <3>1. ctr' \in [Slots -> Containers]
      BY <1>a, <2>1, <2>2, SetCtrFacts DEF Fail, Return
    <3>2. h' = NoCall /\ missed' \subseteq Pods
      BY <1>a, <2>1, <2>2 DEF Fail, Return, TypeOK
    <3>3. UNCHANGED <<version, cached, attached, files, reserved, content, dead, pods,
                      exits, faults>>
      BY <1>7 DEF GetProfile, hostVars
    <3> QED
      BY <1>a, <1>c, <3>1, <3>2, <3>3 DEF TypeOK, Containers
  <2>3. CASE Return("plain", 0) /\ UNCHANGED missed
    <3>1. ctr' \in [Slots -> Containers]
      BY <1>a, <2>1, <2>3, SetCtrFacts DEF Return
    <3>2. h' = NoCall /\ missed' = missed
      BY <2>3 DEF Return
    <3>3. UNCHANGED <<version, cached, attached, files, reserved, content, dead, pods,
                      exits, faults>>
      BY <1>7 DEF GetProfile, hostVars
    <3> QED
      BY <1>a, <1>c, <3>1, <3>2, <3>3 DEF TypeOK, Containers
  <2>4. CASE /\ cached # 0 /\ h.slot[2] \in DOMAIN Entry[cached]
             /\ h' = [h EXCEPT !.step = "reserve", !.version = cached,
                               !.todo = Entry[cached][h.slot[2]]]
             /\ UNCHANGED <<ctr, missed>>
    <3>a. cached # Unsynced /\ cached # 0 /\ cached \in Unsynced..MaxVersion
      BY <1>7, <1>a, <2>4 DEF GetProfile, TypeOK
    <3>1. cached \in Versions
      BY <3>a DEF Versions, Unsynced
    <3>2. Entry[cached][h.slot[2]] \in SUBSET Binaries
      BY <2>4, <3>1, EntryFacts
    <3>3. CallType(h)
      BY <1>a DEF TypeOK, CallType
    <3>4. CallType(h')
      <4>1. cached \in 0..MaxVersion /\ h.step # "idle"
        BY <1>7, <3>1 DEF Versions, GetProfile
      <4> QED
        BY <2>4, <3>2, <3>3, <4>1, CallGoesOn
    <3>5. UNCHANGED <<version, cached, attached, files, reserved, content, ctr, dead,
                      pods, exits, faults, missed>>
      BY <1>7, <2>4 DEF GetProfile, hostVars
    <3> QED
      BY <1>a, <3>4, <3>5 DEF TypeOK, CallType
  <2> QED
    BY <1>7, <2>2, <2>3, <2>4 DEF GetProfile
<1>8. ASSUME NEW b \in Binaries, ReserveBinary(b) PROVE TypeOK'
  <2>1. SwappedPath(h.slot, b) \in Pods \X Names \X Binaries /\ h.slot \in Slots
    BY <1>8, <1>b, SlotFacts DEF ReserveBinary
  <2>2. reserved' \subseteq Pods \X Names \X Binaries
    BY <1>8, <1>a, <2>1 DEF ReserveBinary, TypeOK
  <2>3. /\ h' \in [step : {"idle", "get", "reserve", "write"},
                    slot : Slots \cup {NoSlot}, version : 0..MaxVersion,
                    todo : SUBSET Binaries]
        /\ h'.step = h.step /\ h'.slot = h.slot
    BY <1>8, <1>a DEF ReserveBinary, TypeOK
  <2>4. UNCHANGED <<version, cached, attached, files, content, ctr, dead, pods, exits,
                    faults, missed>>
    BY <1>8 DEF ReserveBinary, nodeVars
  <2> QED
    BY <1>a, <2>2, <2>3, <2>4 DEF TypeOK
<1>9. CASE OpenProfile
  <2>1. h.slot \in Slots /\ ProfilePath(h.slot) = h.slot
    BY <1>9, <1>b, SlotFacts DEF OpenProfile
  <2>2. h' = [h EXCEPT !.step = "write"] /\ UNCHANGED <<version, cached, attached,
          reserved, nodeVars, faults, missed>>
    BY <1>9 DEF OpenProfile
  <2>3. /\ DOMAIN files' \subseteq Slots /\ \A f \in DOMAIN files' : files'[f] \in Inodes
        /\ content' \in [Inodes -> 0..MaxVersion]
    <3>1. CASE h.slot \in DOMAIN files
      BY <1>9, <1>a, <2>1, <3>1 DEF OpenProfile, TypeOK
    <3>2. CASE h.slot \notin DOMAIN files
      <4>1. PICK i \in Inodes : files' = [f \in DOMAIN files \cup {h.slot} |->
                                            IF f = h.slot THEN i ELSE files[f]]
                                /\ content' = [content EXCEPT ![i] = 0]
        BY <1>9, <2>1, <3>2 DEF OpenProfile
      <4> QED
        BY <1>a, <2>1, <4>1 DEF TypeOK
    <3> QED
      BY <3>1, <3>2
  <2> QED
    BY <1>9, <1>a, <2>1, <2>2, <2>3 DEF OpenProfile, nodeVars, TypeOK
<1>10. CASE WriteProfile
  <2>1. h.slot \in Slots
    BY <1>10, <1>b DEF WriteProfile
  <2>2. ctr' \in [Slots -> Containers]
    BY <1>10, <1>a, <2>1, SetCtrFacts DEF WriteProfile, Return, TypeOK
  <2>3. content' \in [Inodes -> 0..MaxVersion]
    BY <1>10, <1>a DEF WriteProfile, TypeOK
  <2> QED
    BY <1>10, <1>a, <1>c, <2>2, <2>3 DEF WriteProfile, Return, TypeOK, Containers
<1>11. CASE FileError
  <2>1. h.slot \in Slots /\ h.slot[1] \in Pods
    BY <1>11, <1>b DEF FileError
  <2>2. ctr' \in [Slots -> Containers]
    BY <1>11, <1>a, <2>1, SetCtrFacts DEF FileError, Fail, Return
  <2> QED
    BY <1>11, <1>a, <1>c, <2>1, <2>2
    DEF FileError, Fail, Return, hostVars, TypeOK, Containers
<1>12. ASSUME NEW s \in Slots, RemoveContainer(s) PROVE TypeOK'
  <2>1. s[1] \in Pods
    BY SlotFacts
  <2>2. dead' \in [Slots -> Nat]
    BY <1>12, <1>a DEF RemoveContainer, TypeOK
  <2>4. missed' \subseteq Pods
    BY <1>12, <1>a, <2>1 DEF RemoveContainer, TypeOK
  <2>3. /\ DOMAIN files' \subseteq Slots /\ \A f \in DOMAIN files' : files'[f] \in Inodes
        /\ reserved' \subseteq Pods \X Names \X Binaries
    BY <1>12, <1>a DEF RemoveContainer, Unlink, RemovedWith, TypeOK
  <2> QED
    BY <1>12, <1>a, <2>2, <2>3, <2>4 DEF RemoveContainer, TypeOK
<1>13. CASE PluginCrash
  <2>0. attached' \in BOOLEAN
    BY <1>13 DEF PluginCrash
  <2>1. CASE h = NoCall /\ UNCHANGED <<h, ctr>>
    <3>1. /\ cached' = -1 /\ faults' \in 0..MaxFaults
          /\ UNCHANGED <<version, h, files, reserved, content, ctr, dead, pods, exits, missed>>
      BY <1>13, <1>a, <2>1 DEF PluginCrash, hostVars, Unsynced, TypeOK
    <3> QED
      BY <1>a, <3>1, <2>0 DEF TypeOK, Unsynced
  <2>2. CASE h # NoCall /\ Return("plain", 0)
    <3>1. ctr' \in [Slots -> Containers]
      BY <1>a, <1>b, <2>2, SetCtrFacts DEF Return
    <3>2. h' = NoCall
      BY <2>2 DEF Return
    <3>3. /\ cached' = -1 /\ faults' \in 0..MaxFaults
          /\ UNCHANGED <<version, files, reserved, content, dead, pods, exits, missed>>
      BY <1>13, <1>a DEF PluginCrash, hostVars, Unsynced, TypeOK
    <3> QED
      BY <1>a, <1>c, <2>0, <3>1, <3>2, <3>3 DEF TypeOK, Unsynced, Containers
  <2> QED
    BY <1>13, <2>1, <2>2 DEF PluginCrash
<1>14. CASE PluginStart
  BY <1>14, <1>a DEF PluginStart, hostVars, nodeVars, TypeOK
<1>15. CASE UNCHANGED vars
  BY <1>15, <1>a DEF vars, hostVars, nodeVars, TypeOK
<1> QED
  BY <1>1, <1>2, <1>3, <1>4, <1>5, <1>6, <1>7, <1>8, <1>9, <1>10, <1>11, <1>12,
     <1>13, <1>14, <1>15
  DEF Next, Node, Plugin

-----------------------------------------------------------------------------
(* The call in progress. *)

(* A call in progress stays that of a container in creation: only returning *)
(* from it changes that container, and no removal happens meanwhile.        *)
LEMMA NextCall == NodeInv /\ [Next]_vars => CallInv'
<1> SUFFICES ASSUME NodeInv, [Next]_vars PROVE CallInv'
  OBVIOUS
<1>a. TypeOK /\ CallInv /\ ctr \in [Slots -> Containers]
  BY DEF NodeInv, TypeOK, Containers
<1>b. h.step # "idle" => h.slot \in Slots
  BY <1>a DEF TypeOK
<1>1. CASE PublishVersion \/ SyncCache \/ DeliverVersion \/ PluginStart \/ UNCHANGED vars
  BY <1>1, <1>a DEF PublishVersion, SyncCache, DeliverVersion, PluginStart, CallInv,
                    vars, hostVars, nodeVars
<1>2. ASSUME NEW s \in Slots, RequestContainer(s) PROVE CallInv'
  <2>1. CASE attached /\ h = NoCall /\ h' = [NoCall EXCEPT !.step = "get", !.slot = s]
             /\ SetCtr(s, "creating", 0, NoInode)
    <3>1. h'.step = "get" /\ h'.slot = s
      BY <2>1 DEF NoCall
    <3>2. ctr'[s].state = "creating" /\ attached'
      BY <1>2, <1>a, <2>1 DEF RequestContainer, SetCtr
    <3> QED
      BY <3>1, <3>2 DEF CallInv
  <2>2. CASE ~attached /\ UNCHANGED h
    BY <1>2, <1>a, <2>2 DEF RequestContainer, CallInv
  <2> QED
    BY <1>2, <2>1, <2>2 DEF RequestContainer
<1>3. ASSUME NEW s \in Slots, StartContainer(s) \/ StartFails(s) \/ ContainerExits(s)
      PROVE  CallInv'
  <2>1. ctr[s].state # "creating"
    BY <1>3 DEF StartContainer, StartFails, ContainerExits, Running
  <2>2. \A t \in Slots : t # s => ctr'[t] = ctr[t]
    BY <1>3, <1>a DEF StartContainer, StartFails, ContainerExits, SetCtr
  <2>3. UNCHANGED <<attached, h, files>>
    BY <1>3 DEF StartContainer, StartFails, ContainerExits, hostVars
  <2> QED
    BY <1>a, <1>b, <2>1, <2>2, <2>3 DEF CallInv
<1>4. ASSUME NEW p \in Pods, DeletePod(p) \/ PodGone(p) PROVE CallInv'
  BY <1>4, <1>a DEF DeletePod, PodGone, hostVars, CallInv
<1>5. CASE h' = NoCall
  BY <1>5 DEF CallInv, NoCall
<1>6. CASE GetProfile
  <2>1. CASE h' = [h EXCEPT !.step = "reserve", !.version = cached,
                            !.todo = Entry[cached][h.slot[2]]]
             /\ UNCHANGED <<ctr, missed>>
    <3>1. CallType(h)
      BY <1>a DEF TypeOK, CallType
    <3>2. h'.step = "reserve" /\ h'.slot = h.slot
      BY <2>1, <3>1 DEF CallType
    <3> QED
      BY <1>6, <1>a, <2>1, <3>2 DEF GetProfile, CallInv
  <2> QED
    BY <1>5, <1>6, <2>1 DEF GetProfile, Fail, Return
<1>7. ASSUME NEW b \in Binaries, ReserveBinary(b) PROVE CallInv'
  <2>1. h'.step = "reserve" /\ h'.slot = h.slot /\ h.step = "reserve"
    BY <1>7, <1>a DEF ReserveBinary, TypeOK
  <2> QED
    BY <1>7, <1>a, <2>1 DEF ReserveBinary, nodeVars, CallInv
<1>8. CASE OpenProfile
  <2>1. h'.step = "write" /\ h'.slot = h.slot /\ h.step = "reserve"
    BY <1>8, <1>a DEF OpenProfile, TypeOK
  <2>2. ProfilePath(h.slot) = h.slot
    BY <1>b, <2>1, SlotFacts
  <2>3. h.slot \in DOMAIN files'
    BY <1>8, <2>2 DEF OpenProfile
  <2> QED
    BY <1>8, <1>a, <2>1, <2>3 DEF OpenProfile, nodeVars, CallInv
<1>9. ASSUME NEW s \in Slots, RemoveContainer(s) PROVE CallInv'
  <2>1. CASE h = NoCall
    BY <1>5, <1>9, <2>1 DEF RemoveContainer
  <2>2. CASE ~attached
    BY <1>9, <1>a, <2>2 DEF RemoveContainer, CallInv
  <2> QED
    BY <1>9, <2>1, <2>2 DEF RemoveContainer
<1> QED
  BY <1>1, <1>2, <1>3, <1>4, <1>5, <1>6, <1>7, <1>8, <1>9
  DEF Next, Node, Plugin, WriteProfile, FileError, Fail, Return, PluginCrash

-----------------------------------------------------------------------------
(* Files and mounts. *)

MountInv == FilesApart /\ MountsOwned /\ AdjustedAsRead /\ SealedAsRead

(* Files may go, as long as what is left is not written to and no container *)
(* begins to rely on one.                                                   *)
LEMMA MountsKept ==
    ASSUME MountInv, TypeOK, content' = content,
           DOMAIN files' \subseteq DOMAIN files,
           \A f \in DOMAIN files' : files'[f] = files[f],
           \A s \in Slots : \/ ctr'[s] = ctr[s]
                            \/ ctr'[s].state \notin {"adjusted", "sealed"}
    PROVE  MountInv'
<1>1. DOMAIN files \subseteq Slots
  BY DEF TypeOK
<1> QED
  BY <1>1 DEF MountInv, FilesApart, MountsOwned, AdjustedAsRead, SealedAsRead

(* OpenProfile takes a fresh inode or truncates the one of a container in   *)
(* creation, which nothing has mounted; WriteProfile fills that inode.      *)
LEMMA NextMounts == NodeInv /\ [Next]_vars => MountInv'
<1> SUFFICES ASSUME NodeInv, [Next]_vars PROVE MountInv'
  OBVIOUS
<1>a. TypeOK /\ CallInv /\ MountInv /\ ctr \in [Slots -> Containers]
  BY DEF NodeInv, TypeOK, Containers, MountInv
<1>b. h.step # "idle" => h.slot \in Slots /\ ProfilePath(h.slot) = h.slot
                        /\ ctr[h.slot].state = "creating"
  BY <1>a, SlotFacts DEF TypeOK, CallInv
<1>c. DOMAIN files \subseteq Slots /\ \A f \in DOMAIN files : files[f] \in Inodes
  BY <1>a DEF TypeOK
<1>1. CASE UNCHANGED <<files, content, ctr>>
  BY <1>1, <1>a, MountsKept
<1>2. ASSUME NEW s \in Slots, RequestContainer(s) \/ StartFails(s) \/ ContainerExits(s)
      PROVE  MountInv'
  <2>1. UNCHANGED <<files, content>>
    BY <1>2 DEF RequestContainer, StartFails, ContainerExits, hostVars
  <2>2. \A t \in Slots : \/ ctr'[t] = ctr[t]
                         \/ ctr'[t].state \notin {"adjusted", "sealed"}
    BY <1>2, <1>a DEF RequestContainer, StartFails, ContainerExits, SetCtr
  <2> QED
    BY <1>a, <2>1, <2>2, MountsKept
<1>3. ASSUME NEW s \in Slots, StartContainer(s) PROVE MountInv'
  <2>1. s \in DOMAIN files /\ ctr[s].state = "adjusted" /\ UNCHANGED <<files, content>>
    BY <1>3, SlotFacts DEF StartContainer, SourcesPresent, hostVars
  <2>2. /\ ctr'[s].state = "sealed" /\ ctr'[s].version = ctr[s].version
        /\ ctr'[s].inode = files[s]
        /\ \A t \in Slots : t # s => ctr'[t] = ctr[t]
    BY <1>3, <1>a, SlotFacts DEF StartContainer, SetCtr
  <2>3. content[files[s]] = ctr[s].version
    BY <1>a, <2>1 DEF MountInv, AdjustedAsRead
  <2>4. files[s] \in Inodes /\ files[s] # NoInode
    BY <1>c, <2>1, NoneAssumption
  <2>5. FilesApart' /\ AdjustedAsRead'
    BY <1>a, <1>c, <2>1, <2>2 DEF MountInv, FilesApart, AdjustedAsRead
  <2>6. MountsOwned'
    BY <1>a, <2>1, <2>2, <2>4 DEF MountInv, FilesApart, MountsOwned
  <2>7. SealedAsRead'
    BY <1>a, <2>1, <2>2, <2>3, <2>4 DEF MountInv, SealedAsRead
  <2> QED
    BY <2>5, <2>6, <2>7 DEF MountInv
<1>4. ASSUME NEW state, NEW v, Return(state, v), h.step # "idle",
             state \notin {"adjusted", "sealed"}, UNCHANGED <<files, content>>
      PROVE  MountInv'
  <2>1. \A t \in Slots : \/ ctr'[t] = ctr[t]
                         \/ ctr'[t].state \notin {"adjusted", "sealed"}
    BY <1>4, <1>a, <1>b DEF Return, SetCtr
  <2> QED
    BY <1>4, <1>a, <2>1, MountsKept
<1>5. CASE OpenProfile
  <2>1. h.step # "idle" /\ UNCHANGED ctr
    BY <1>5 DEF OpenProfile, nodeVars
  <2>2. CASE h.slot \in DOMAIN files
    <3>1. content' = [content EXCEPT ![files[h.slot]] = 0] /\ UNCHANGED files
      BY <1>5, <1>b, <2>1, <2>2 DEF OpenProfile
    <3>2. \A f \in DOMAIN files : f # h.slot => files[f] # files[h.slot]
      BY <1>a, <2>2 DEF MountInv, FilesApart
    <3>3. \A t \in Slots : ctr[t].state = "sealed" => ctr[t].inode # files[h.slot]
      BY <1>a, <1>b, <2>1, <2>2 DEF MountInv, MountsOwned
    <3>4. FilesApart' /\ MountsOwned'
      BY <1>a, <2>1, <3>1 DEF MountInv, FilesApart, MountsOwned
    <3>5. AdjustedAsRead'
      BY <1>a, <1>b, <1>c, <2>1, <3>1, <3>2 DEF MountInv, AdjustedAsRead, TypeOK
    <3>6. SealedAsRead'
      BY <1>a, <2>1, <3>1, <3>3 DEF MountInv, SealedAsRead, MountsOwned, TypeOK
    <3> QED
      BY <3>4, <3>5, <3>6 DEF MountInv
  <2>3. CASE h.slot \notin DOMAIN files
    <3>1. PICK i \in Inodes \ InodesInUse :
              /\ files' = [f \in DOMAIN files \cup {h.slot} |->
                              IF f = h.slot THEN i ELSE files[f]]
              /\ content' = [content EXCEPT ![i] = 0]
      BY <1>5, <1>b, <2>1, <2>3 DEF OpenProfile
    <3>2. \A f \in DOMAIN files : files[f] # i
      BY <3>1 DEF InodesInUse
    <3>3. \A t \in Slots : ctr[t].inode # i
      BY <3>1 DEF InodesInUse
    <3>4. /\ DOMAIN files' = DOMAIN files \cup {h.slot} /\ files'[h.slot] = i
          /\ \A f \in DOMAIN files : files'[f] = files[f]
      BY <2>3, <3>1
    <3>5. \A j \in Inodes : j # i => content'[j] = content[j]
      BY <3>1, <1>a DEF TypeOK
    <3>6. FilesApart'
      BY <1>a, <3>2, <3>4 DEF MountInv, FilesApart
    <3>7. MountsOwned'
      BY <1>a, <2>1, <3>3, <3>4 DEF MountInv, MountsOwned
    <3>8. AdjustedAsRead'
      BY <1>a, <1>b, <1>c, <2>1, <3>2, <3>4, <3>5 DEF MountInv, AdjustedAsRead
    <3>9. SealedAsRead'
      BY <1>a, <2>1, <3>3, <3>5 DEF MountInv, SealedAsRead, MountsOwned
    <3> QED
      BY <3>6, <3>7, <3>8, <3>9 DEF MountInv
  <2> QED
    BY <2>2, <2>3
<1>6. CASE WriteProfile
  <2>1. h.step # "idle" /\ h.slot \in DOMAIN files /\ UNCHANGED files
    BY <1>6, <1>a DEF WriteProfile, CallInv
  <2>2. content' = [content EXCEPT ![files[h.slot]] = h.version]
    BY <1>6, <1>b, <2>1 DEF WriteProfile
  <2>3. /\ ctr'[h.slot].state = "adjusted" /\ ctr'[h.slot].version = h.version
        /\ \A t \in Slots : t # h.slot => ctr'[t] = ctr[t]
    BY <1>6, <1>a, <1>b, <2>1 DEF WriteProfile, Return, SetCtr
  <2>4. content'[files[h.slot]] = h.version
        /\ \A j \in Inodes : j # files[h.slot] => content'[j] = content[j]
    BY <1>a, <1>c, <2>1, <2>2 DEF TypeOK
  <2>5. FilesApart' /\ MountsOwned'
    BY <1>a, <1>b, <2>1, <2>3 DEF MountInv, FilesApart, MountsOwned
  <2>6. AdjustedAsRead'
    BY <1>a, <1>b, <1>c, <2>1, <2>3, <2>4 DEF MountInv, FilesApart, AdjustedAsRead
  <2>7. SealedAsRead'
    BY <1>a, <1>b, <2>1, <2>3, <2>4 DEF MountInv, MountsOwned, SealedAsRead
  <2> QED
    BY <2>5, <2>6, <2>7 DEF MountInv
<1>7. ASSUME NEW s \in Slots, RemoveContainer(s) PROVE MountInv'
  <2>1. UNCHANGED <<content, ctr>>
    BY <1>7 DEF RemoveContainer
  <2>2. DOMAIN files' \subseteq DOMAIN files /\ \A f \in DOMAIN files' : files'[f] = files[f]
    BY <1>7 DEF RemoveContainer, Unlink
  <2> QED
    BY <1>a, <2>1, <2>2, MountsKept
<1>8. CASE GetProfile
  BY <1>1, <1>4, <1>8 DEF GetProfile, Fail, hostVars
<1>9. CASE FileError
  BY <1>4, <1>9 DEF FileError, Fail, hostVars
<1>10. CASE PluginCrash
  <2>1. h # NoCall => h.step # "idle"
    BY <1>a DEF CallInv
  <2> QED
    BY <1>1, <1>4, <1>10, <2>1 DEF PluginCrash, hostVars
<1>11. ASSUME NEW b \in Binaries, ReserveBinary(b) PROVE MountInv'
  BY <1>1, <1>11 DEF ReserveBinary, nodeVars
<1>12. ASSUME NEW p \in Pods, DeletePod(p) \/ PodGone(p) PROVE MountInv'
  BY <1>1, <1>12 DEF DeletePod, PodGone, hostVars
<1>13. CASE PublishVersion \/ SyncCache \/ DeliverVersion \/ PluginStart \/ UNCHANGED vars
  BY <1>1, <1>13 DEF PublishVersion, SyncCache, DeliverVersion, PluginStart, vars,
                     hostVars, nodeVars
<1> QED
  BY <1>2, <1>3, <1>5, <1>6, <1>7, <1>8, <1>9, <1>10, <1>11, <1>12, <1>13
  DEF Next, Node, Plugin

-----------------------------------------------------------------------------
(* Who cleans up. *)

OwnerInv == FilesOwed /\ GoneIsEmpty

(* What is due stays due unless the pod is noted as missed, new files are   *)
(* of a pod with something due, and nothing becomes due for a gone pod.     *)
LEMMA OwnersKept ==
    ASSUME OwnerInv, missed \subseteq missed', pods' = pods,
           \A t \in Slots : Due(t) => Due(t)' \/ t[1] \in missed',
           \A t \in Slots : Due(t)' => Due(t) \/ pods[t[1]] # "gone",
           \A f \in DOMAIN files' \cup reserved' :
               f \in DOMAIN files \cup reserved \/ RemovalDue(f[1])
    PROVE  OwnerInv'
<1>1. FilesOwed'
  <2> SUFFICES ASSUME NEW f \in DOMAIN files' \cup reserved', f[1] \notin missed'
               PROVE  RemovalDue(f[1])'
    BY DEF FilesOwed
  <2>1. RemovalDue(f[1])
    BY DEF OwnerInv, FilesOwed
  <2>2. PICK t \in Slots : t[1] = f[1] /\ Due(t)
    BY <2>1 DEF RemovalDue
  <2>3. Due(t)'
    BY <2>2
  <2> QED
    BY <2>2, <2>3 DEF RemovalDue
<1>2. GoneIsEmpty'
  BY DEF OwnerInv, GoneIsEmpty, RemovalDue
<1> QED
  BY <1>1, <1>2 DEF OwnerInv

(* Creations leave a container to remove, failed ones and removals that     *)
(* nobody saw or that failed are noted, and any other takes all files of    *)
(* its pod.                                                                 *)
LEMMA NextOwners == NodeInv /\ [Next]_vars => OwnerInv'
<1> SUFFICES ASSUME NodeInv, [Next]_vars PROVE OwnerInv'
  OBVIOUS
<1>a. TypeOK /\ CallInv /\ OwnerInv /\ ctr \in [Slots -> Containers]
  BY DEF NodeInv, TypeOK, Containers, OwnerInv
<1>b. h.step # "idle" => /\ h.slot \in Slots /\ h.slot[1] \in Pods
                         /\ ProfilePath(h.slot) = h.slot /\ Due(h.slot)
  BY <1>a, SlotFacts DEF TypeOK, CallInv, Due
<1>c. ASSUME NEW t \in Slots, Due(t) PROVE pods[t[1]] # "gone"
  BY <1>a, <1>c, SlotFacts DEF OwnerInv, GoneIsEmpty, RemovalDue
<1>1. CASE UNCHANGED <<files, reserved, ctr, dead, pods, missed>>
  BY <1>1, <1>a, OwnersKept DEF Due
<1>2. ASSUME NEW s \in Slots, RequestContainer(s) PROVE OwnerInv'
  <2>1. UNCHANGED <<files, reserved, dead, pods, missed>> /\ pods[s[1]] # "gone"
    BY <1>2 DEF RequestContainer, hostVars
  <2>2. ctr'[s].state # "none" /\ \A t \in Slots : t # s => ctr'[t] = ctr[t]
    BY <1>2, <1>a DEF RequestContainer, SetCtr
  <2> QED
    BY <1>a, <2>1, <2>2, OwnersKept DEF Due
<1>3. ASSUME NEW s \in Slots, StartContainer(s) PROVE OwnerInv'
  <2>1. UNCHANGED <<files, reserved, dead, pods, missed>> /\ ctr[s].state # "none"
    BY <1>3 DEF StartContainer, hostVars
  <2>2. ctr'[s].state # "none" /\ \A t \in Slots : t # s => ctr'[t] = ctr[t]
    BY <1>3, <1>a DEF StartContainer, SetCtr
  <2> QED
    BY <1>a, <2>1, <2>2, OwnersKept DEF Due
<1>4. ASSUME NEW s \in Slots, StartFails(s) \/ ContainerExits(s) PROVE OwnerInv'
  <2>1. UNCHANGED <<files, reserved, pods, missed>> /\ Due(s)
    BY <1>4 DEF StartFails, ContainerExits, Running, hostVars, Due
  <2>2. /\ dead' = [dead EXCEPT ![s] = @ + 1]
        /\ \A t \in Slots : t # s => ctr'[t] = ctr[t]
    BY <1>4, <1>a DEF StartFails, ContainerExits, SetCtr
  <2>3. dead'[s] > 0 /\ \A t \in Slots : t # s => dead'[t] = dead[t]
    BY <1>a, <2>2 DEF TypeOK
  <2> QED
    BY <1>a, <1>c, <2>1, <2>2, <2>3, OwnersKept DEF Due
<1>5. ASSUME NEW p \in Pods, DeletePod(p) PROVE OwnerInv'
  <2>1. UNCHANGED <<files, reserved, ctr, dead, missed>>
        /\ \A q \in Pods : pods'[q] = "gone" => pods[q] = "gone"
    BY <1>5, <1>a DEF DeletePod, hostVars, TypeOK
  <2> QED
    BY <1>a, <2>1 DEF OwnerInv, FilesOwed, GoneIsEmpty, RemovalDue, Due
<1>6. ASSUME NEW p \in Pods, PodGone(p) PROVE OwnerInv'
  <2>1. UNCHANGED <<files, reserved, ctr, dead, missed>>
        /\ \A q \in Pods : pods'[q] = "gone" => pods[q] = "gone" \/ q = p
    BY <1>6, <1>a DEF PodGone, hostVars, TypeOK
  <2>2. ASSUME NEW t \in Slots, t[1] = p PROVE ~Due(t)
    <3>1. t[2] \in Names /\ t = <<p, t[2]>>
      BY <2>2, SlotFacts
    <3>2. ctr[<<p, t[2]>>].state = "none" /\ dead[<<p, t[2]>>] = 0
      BY <1>6, <3>1 DEF PodGone
    <3> QED
      BY <3>1, <3>2 DEF Due
  <2>3. FilesOwed'
    BY <1>a, <2>1 DEF OwnerInv, FilesOwed, RemovalDue, Due
  <2>4. GoneIsEmpty'
    BY <1>a, <2>1, <2>2 DEF OwnerInv, GoneIsEmpty, RemovalDue, Due
  <2> QED
    BY <2>3, <2>4 DEF OwnerInv
<1>7. ASSUME NEW state, NEW v, Return(state, v), h.step # "idle",
             state # "none" \/ h.slot[1] \in missed', missed \subseteq missed',
             UNCHANGED <<files, reserved, dead, pods>>
      PROVE  OwnerInv'
  <2>1. ctr'[h.slot].state = state /\ \A t \in Slots : t # h.slot => ctr'[t] = ctr[t]
    BY <1>7, <1>a, <1>b DEF Return, SetCtr
  <2> QED
    BY <1>7, <1>a, <1>b, <1>c, <2>1, OwnersKept DEF Due
<1>8. CASE GetProfile
  BY <1>1, <1>7, <1>8 DEF GetProfile, Fail, hostVars
<1>9. ASSUME NEW b \in Binaries, ReserveBinary(b) PROVE OwnerInv'
  <2>1. h.step # "idle" /\ UNCHANGED <<files, ctr, dead, pods, missed>>
        /\ reserved' = reserved \cup {SwappedPath(h.slot, b)}
    BY <1>9 DEF ReserveBinary, nodeVars
  <2>2. SwappedPath(h.slot, b)[1] = h.slot[1]
    BY <1>b, <2>1, SlotFacts
  <2>3. RemovalDue(SwappedPath(h.slot, b)[1])
    BY <1>b, <2>1, <2>2 DEF RemovalDue
  <2> QED
    BY <1>a, <2>1, <2>3, OwnersKept DEF Due
<1>10. CASE OpenProfile
  <2>1. h.step # "idle" /\ UNCHANGED <<reserved, ctr, dead, pods, missed>>
    BY <1>10 DEF OpenProfile, nodeVars
  <2>2. DOMAIN files' \subseteq DOMAIN files \cup {h.slot}
    BY <1>10, <1>b, <2>1 DEF OpenProfile
  <2>3. RemovalDue(h.slot[1])
    BY <1>b, <2>1 DEF RemovalDue
  <2> QED
    BY <1>a, <2>1, <2>2, <2>3, OwnersKept DEF Due
<1>11. CASE WriteProfile
  BY <1>7, <1>11 DEF WriteProfile
<1>12. CASE FileError
  BY <1>7, <1>12 DEF FileError, Fail, hostVars
<1>13. ASSUME NEW s \in Slots, RemoveContainer(s) PROVE OwnerInv'
  <2>1. /\ dead[s] > 0 /\ UNCHANGED <<ctr, pods>>
        /\ dead' = [dead EXCEPT ![s] = @ - 1]
    BY <1>13 DEF RemoveContainer
  <2>2. \A t \in Slots : (t # s => dead'[t] = dead[t]) /\ (dead'[t] > 0 => dead[t] > 0)
    BY <1>a, <2>1 DEF TypeOK
  <2>3. GoneIsEmpty'
    BY <1>a, <2>1, <2>2 DEF OwnerInv, GoneIsEmpty, RemovalDue, Due
  <2>4. FilesOwed'
    <3> SUFFICES ASSUME NEW f \in DOMAIN files' \cup reserved', f[1] \notin missed'
                 PROVE  RemovalDue(f[1])'
      BY DEF FilesOwed
    <3>1. f \in DOMAIN files \cup reserved /\ f[1] # s[1] /\ f[1] \notin missed
      BY <1>13 DEF RemoveContainer, Unlink, RemovedWith
    <3>2. PICK t \in Slots : t[1] = f[1] /\ Due(t)
      BY <1>a, <3>1 DEF OwnerInv, FilesOwed, RemovalDue
    <3>3. Due(t)'
      BY <2>1, <2>2, <3>1, <3>2 DEF Due
    <3> QED
      BY <3>2, <3>3 DEF RemovalDue
  <2> QED
    BY <2>3, <2>4 DEF OwnerInv
<1>14. CASE PluginCrash
  <2>1. h # NoCall => h.step # "idle"
    BY <1>a DEF CallInv
  <2> QED
    BY <1>1, <1>7, <1>14, <2>1 DEF PluginCrash, hostVars
<1>15. CASE PublishVersion \/ SyncCache \/ DeliverVersion \/ PluginStart \/ UNCHANGED vars
  BY <1>1, <1>15 DEF PublishVersion, SyncCache, DeliverVersion, PluginStart, vars,
                     hostVars, nodeVars
<1> QED
  BY <1>2, <1>3, <1>4, <1>5, <1>6, <1>8, <1>9, <1>10, <1>11, <1>12, <1>13, <1>14, <1>15
  DEF Next, Node, Plugin

-----------------------------------------------------------------------------
(* Theorems. *)

(* NodeInv holds in every reachable state. *)
LEMMA NodeInvariant == Spec => []NodeInv
<1>1. NodeInv /\ [Next]_vars => NodeInv'
  BY NextType, NextCall, NextMounts, NextOwners DEF NodeInv, MountInv, OwnerInv
<1> QED
  BY InitInv, <1>1, PTL DEF Spec

(* Every state the plugin, its files and the runtime can reach is well      *)
(* typed, whatever calls, crashes and file errors come in which order.      *)
THEOREM NodeTypeOK == Spec => []TypeOK
<1>1. NodeInv => TypeOK
  BY DEF NodeInv
<1> QED
  BY NodeInvariant, <1>1, PTL

(* A container sealed with the profile that CreateContainer wrote sees that *)
(* version for as long as it runs: for any number of pods, containers and   *)
(* versions, writeLandlockProfileToHostFilesystem never rewrites an inode   *)
(* that is mounted.                                                         *)
THEOREM SealedSeeWhatWasRead == Spec => []SealedAsRead
<1>1. NodeInv => SealedAsRead
  BY DEF NodeInv
<1> QED
  BY NodeInvariant, <1>1, PTL

(* A pod that is gone has left no files, unless RemoveContainer did not run *)
(* for its last removal or failed then, or CreateContainer failed with no   *)
(* removal following.                                                       *)
THEOREM NothingLeftOfPods == Spec => []FilesGoneWithPod
<1>1. NodeInv => FilesGoneWithPod
  BY DEF NodeInv, FilesOwed, GoneIsEmpty, FilesGoneWithPod
<1> QED
  BY NodeInvariant, <1>1, PTL
=============================================================================
