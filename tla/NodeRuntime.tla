----------------------------- MODULE NodeRuntime -----------------------------
(***************************************************************************)
(* The NRI plugin of one node, the files it keeps for containers under     *)
(* /var/run/podlock, and the kubelet and container runtime that call it.   *)
(*                                                                         *)
(* For a container with a profile the plugin creates one empty file per    *)
(* profiled binary and a JSON file with the profile, and answers with an   *)
(* adjustment that bind-mounts them.  The runtime resolves the mount       *)
(* sources later, when nothing of the plugin runs; a mount then holds the  *)
(* inode it found.  When any container is removed the plugin deletes the   *)
(* directory of the whole pod.                                             *)
(*                                                                         *)
(* The kubelet creates the containers of a pod one after the other, but    *)
(* deletes dead ones in the background.  The runtime sends one request or  *)
(* event at a time to the plugin.                                          *)
(***************************************************************************)
EXTENDS Integers, FiniteSets

CONSTANTS
    Pods,           \* labelled pods of the node, all naming one profile
    Names,          \* container names of a pod
    Binaries,       \* paths a profile may list
    Inodes,         \* identities of files; enough of them for what is in use
    NoInode, NoSlot,
    Entry,          \* ProfilesByContainer of each version: the binaries listed
                    \* for the containers that are in it
    MaxVersion,     \* bound: versions of the profile
    MaxDead,        \* bound: dead containers of a slot not removed yet
    MaxExits,       \* bound: exits of each container
    MaxFaults       \* bound: crashes and file errors of the plugin

Versions == 1..MaxVersion
Slots    == Pods \X Names

ASSUME EntryAssumption ==
    Entry \in [Versions -> UNION {[N -> SUBSET Binaries] : N \in SUBSET Names}]
ASSUME BoundAssumption ==
    /\ MaxVersion \in Nat /\ MaxDead \in Nat
    /\ MaxExits \in Nat /\ MaxFaults \in Nat
ASSUME NoneAssumption ==
    NoInode \notin Inodes /\ NoSlot \notin Slots

VARIABLES
    version,        \* API server: current version of the profile, 0 for none
    cached,         \* plugin: version in its cache, or Unsynced
    attached,       \* the plugin runs and is registered with the runtime
    h,              \* plugin: the CreateContainer call in progress
    files,          \* host: profile file (an inode) by path
    reserved,       \* host: <<pod, name, binary>> of the reserved files
    content,        \* host: what each inode holds, a version or 0 for nothing
    ctr,            \* runtime: the container in each slot
    dead,           \* runtime: containers of each slot that wait for removal
    pods,           \* kubelet: life of the pods
    exits, faults,  \* counters for the bounds
    missed          \* history: pods with a removal that the plugin did not see
                    \* or could not carry out, or a creation that failed, since
                    \* their directory was last deleted

nodeVars == <<ctr, dead, pods, exits>>
hostVars == <<files, reserved, content>>
vars == <<version, cached, attached, h, hostVars, nodeVars, faults, missed>>

-----------------------------------------------------------------------------
(* The informer of profiles is only started by the first Get. *)
Unsynced == -1

NoCall == [step |-> "idle", slot |-> NoSlot, version |-> 0, todo |-> {}]
NoCtr  == [state |-> "none", version |-> 0, inode |-> NoInode]

InCreation(s) == ctr[s].state \in {"creating", "adjusted"}
Running(s)    == ctr[s].state \in {"plain", "sealed"}

(* Unlinked files live on while a container has them mounted. *)
InodesInUse == {files[f] : f \in DOMAIN files} \cup {ctr[s].inode : s \in Slots}

SetCtr(s, state, v, inode) ==
    ctr' = [ctr EXCEPT ![s] = [state |-> state, version |-> v, inode |-> inode]]

-----------------------------------------------------------------------------
(* Names of files. *)

landlockProfilePathOnHost_PerPod(pod, name) == <<pod, CHOOSE n \in Names : TRUE>>
landlockProfilePathOnHost(pod, name) == <<pod, name>>

swappedBinaryPathOnHost(pod, name, binary) == <<pod, name, binary>>

ProfilePath(s) == landlockProfilePathOnHost(s[1], s[2])
SwappedPath(s, b) == swappedBinaryPathOnHost(s[1], s[2], b)

-----------------------------------------------------------------------------
(* The kubelet and the runtime. *)

PublishVersion ==
    /\ version < MaxVersion
    /\ version' = version + 1
    /\ UNCHANGED <<cached, attached, h, hostVars, nodeVars, faults, missed>>

(* A container is wanted in a slot: the runtime asks the plugin, or goes on *)
(* without it when none is registered.                                      *)
RequestContainer(s) ==
    /\ pods[s[1]] = "alive"
    /\ ctr[s].state = "none" /\ dead[s] < MaxDead
    /\ \A n \in Names : ~InCreation(<<s[1], n>>)
    /\ \/ /\ attached /\ h = NoCall
          /\ h' = [NoCall EXCEPT !.step = "get", !.slot = s]
          /\ SetCtr(s, "creating", 0, NoInode)
       \/ ~attached /\ SetCtr(s, "plain", 0, NoInode) /\ UNCHANGED h
    /\ UNCHANGED <<version, cached, attached, hostVars, dead, pods, exits,
                   faults, missed>>

(* The mounts of the adjustment that createContainerAdjustment returned:    *)
(* every source must exist.                                                 *)
SourcesPresent(s) ==
    /\ ProfilePath(s) \in DOMAIN files
    /\ \A b \in Entry[ctr[s].version][s[2]] : SwappedPath(s, b) \in reserved

StartContainer(s) ==
    /\ ctr[s].state = "adjusted" /\ SourcesPresent(s)
    /\ SetCtr(s, "sealed", ctr[s].version, files[ProfilePath(s)])
    /\ UNCHANGED <<version, cached, attached, h, hostVars, dead, pods, exits,
                   faults, missed>>

(* A container that cannot be started stays behind as a dead one. *)
StartFails(s) ==
    /\ ctr[s].state = "adjusted" /\ ~SourcesPresent(s)
    /\ SetCtr(s, "none", 0, NoInode)
    /\ dead' = [dead EXCEPT ![s] = @ + 1]
    /\ UNCHANGED <<version, cached, attached, h, hostVars, pods, exits,
                   faults, missed>>

ContainerExits(s) ==
    /\ Running(s)
    /\ pods[s[1]] = "terminating" \/ exits[s] < MaxExits
    /\ exits' = IF pods[s[1]] = "alive" THEN [exits EXCEPT ![s] = @ + 1] ELSE exits
    /\ SetCtr(s, "none", 0, NoInode)
    /\ dead' = [dead EXCEPT ![s] = @ + 1]
    /\ UNCHANGED <<version, cached, attached, h, hostVars, pods, faults, missed>>

DeletePod(p) ==
    /\ pods[p] = "alive"
    /\ pods' = [pods EXCEPT ![p] = "terminating"]
    /\ UNCHANGED <<version, cached, attached, h, hostVars, ctr, dead, exits,
                   faults, missed>>

(* The sandbox goes when nothing of the pod is left. *)
PodGone(p) ==
    /\ pods[p] = "terminating"
    /\ \A n \in Names : ctr[<<p, n>>].state = "none" /\ dead[<<p, n>>] = 0
    /\ pods' = [pods EXCEPT ![p] = "gone"]
    /\ UNCHANGED <<version, cached, attached, h, hostVars, ctr, dead, exits,
                   faults, missed>>

-----------------------------------------------------------------------------
(* The plugin. *)

(* The first Get waits until the cache has the state of the API server;     *)
(* from then on a watch brings it up to date.                               *)
SyncCache ==
    /\ h.step = "get" /\ cached = Unsynced
    /\ cached' = version
    /\ UNCHANGED <<version, attached, h, hostVars, nodeVars, faults, missed>>

DeliverVersion ==
    /\ cached # Unsynced /\ cached < version
    /\ cached' = cached + 1
    /\ UNCHANGED <<version, attached, h, hostVars, nodeVars, faults, missed>>

Return_KeepsSlot(state, v) ==
    /\ h' = [h EXCEPT !.step = "idle"]
    /\ SetCtr(h.slot, state, v, NoInode)

(* CreateContainer returns: state is what becomes of the container. *)
Return(state, v) ==
    /\ h' = NoCall
    /\ SetCtr(h.slot, state, v, NoInode)

(* An error of the plugin fails the creation; the kubelet tries again, and  *)
(* the runtime knows of no container it should have removed.                *)
Fail == Return("none", 0) /\ missed' = missed \cup {h.slot[1]}

GetProfile ==
    /\ h.step = "get" /\ cached # Unsynced
    /\ \/ cached = 0 /\ Fail
       \/ /\ cached # 0
          /\ h.slot[2] \notin DOMAIN Entry[cached]
          /\ Return("plain", 0) /\ UNCHANGED missed
       \/ /\ cached # 0
          /\ h.slot[2] \in DOMAIN Entry[cached]
          /\ h' = [h EXCEPT !.step = "reserve", !.version = cached,
                            !.todo = Entry[cached][h.slot[2]]]
          /\ UNCHANGED <<ctr, missed>>
    /\ UNCHANGED <<version, cached, attached, hostVars, dead, pods, exits,
                   faults>>

CreateFile_Exclusive(set, path) == path \notin set
CreateFile(set, path) == TRUE

(* One round of reserveSwappedBinaries, in the random order of a Go map. *)
ReserveBinary(b) ==
    /\ h.step = "reserve" /\ b \in h.todo
    /\ CreateFile(reserved, SwappedPath(h.slot, b))
    /\ reserved' = reserved \cup {SwappedPath(h.slot, b)}
    /\ h' = [h EXCEPT !.todo = @ \ {b}]
    /\ UNCHANGED <<version, cached, attached, files, content, nodeVars, faults, missed>>

(* The profile is written in place: an existing file is truncated and keeps *)
(* its inode, with whatever has it mounted.                                 *)
OpenProfile ==
    /\ h.step = "reserve" /\ h.todo = {}
    /\ h' = [h EXCEPT !.step = "write"]
    /\ \/ /\ ProfilePath(h.slot) \in DOMAIN files
          /\ content' = [content EXCEPT ![files[ProfilePath(h.slot)]] = 0]
          /\ UNCHANGED files
       \/ /\ ProfilePath(h.slot) \notin DOMAIN files
          /\ \E i \in Inodes \ InodesInUse :
                /\ files' = [f \in DOMAIN files \cup {ProfilePath(h.slot)} |->
                                IF f = ProfilePath(h.slot) THEN i ELSE files[f]]
                /\ content' = [content EXCEPT ![i] = 0]
    /\ UNCHANGED <<version, cached, attached, reserved, nodeVars, faults, missed>>

(* The profile is encoded and the adjustment returned. *)
WriteProfile ==
    /\ h.step = "write"
    /\ content' = [content EXCEPT ![files[ProfilePath(h.slot)]] = h.version]
    /\ Return("adjusted", h.version)
    /\ UNCHANGED <<version, cached, attached, files, reserved, dead, pods, exits,
                   faults, missed>>

(* Any file operation can fail, and nothing is cleaned up then. *)
FileError ==
    /\ h.step \in {"reserve", "write"}
    /\ faults < MaxFaults /\ faults' = faults + 1
    /\ Fail
    /\ UNCHANGED <<version, cached, attached, hostVars, dead, pods, exits>>

RemovedWith_ContainerOnly(paths, s) == {f \in paths : f[1] = s[1] /\ f[2] = s[2]}
RemovedWith(paths, s) == {f \in paths : f[1] = s[1]}

(* Some profile files and reserved files go. *)
Unlink(gf, gr) ==
    /\ files' = [f \in DOMAIN files \ gf |-> files[f]]
    /\ reserved' = reserved \ gr

(* RemoveContainer deletes the directory of the pod, whichever container it *)
(* is called for.  os.RemoveAll deletes what it can: after an error some of *)
(* the files are left, and the runtime, which only logs what the plugin     *)
(* answers, goes on.  A removal nobody listens to is lost.                  *)
RemoveContainer(s) ==
    /\ dead[s] > 0
    /\ dead' = [dead EXCEPT ![s] = @ - 1]
    /\ \/ /\ attached /\ h = NoCall
          /\ Unlink(RemovedWith(DOMAIN files, s), RemovedWith(reserved, s))
          /\ missed' = missed \ {s[1]}
          /\ UNCHANGED faults
       \/ /\ attached /\ h = NoCall
          /\ faults < MaxFaults /\ faults' = faults + 1
          /\ \E gf \in SUBSET RemovedWith(DOMAIN files, s),
                gr \in SUBSET RemovedWith(reserved, s) : Unlink(gf, gr)
          /\ missed' = missed \cup {s[1]}
       \/ /\ ~attached
          /\ missed' = missed \cup {s[1]}
          /\ UNCHANGED <<files, reserved, faults>>
    /\ UNCHANGED <<version, cached, attached, h, content, ctr, pods, exits>>

(* The plugin exits, by itself or because the runtime closed the            *)
(* connection.  The runtime then finishes a pending creation without it.    *)
PluginCrash ==
    /\ attached /\ faults < MaxFaults
    /\ attached' = FALSE /\ cached' = Unsynced /\ faults' = faults + 1
    /\ \/ h = NoCall /\ UNCHANGED <<h, ctr>>
       \/ h # NoCall /\ Return("plain", 0)
    /\ UNCHANGED <<version, hostVars, dead, pods, exits, missed>>

(* It does not look at the files its predecessor left. *)
PluginStart ==
    /\ ~attached
    /\ attached' = TRUE
    /\ UNCHANGED <<version, cached, h, hostVars, nodeVars, faults, missed>>

-----------------------------------------------------------------------------
Init ==
    /\ version = 0 /\ cached = Unsynced /\ attached = TRUE /\ h = NoCall
    /\ files = [f \in {} |-> NoInode] /\ reserved = {}
    /\ content = [i \in Inodes |-> 0]
    /\ ctr = [s \in Slots |-> NoCtr] /\ dead = [s \in Slots |-> 0]
    /\ pods = [p \in Pods |-> "alive"] /\ exits = [s \in Slots |-> 0]
    /\ faults = 0 /\ missed = {}

Node ==
    \/ \E s \in Slots : \/ RequestContainer(s) \/ StartContainer(s)
                        \/ StartFails(s) \/ ContainerExits(s)
    \/ \E p \in Pods : DeletePod(p) \/ PodGone(p)

Plugin ==
    \/ SyncCache \/ DeliverVersion \/ GetProfile
    \/ OpenProfile \/ WriteProfile \/ FileError
    \/ \E b \in Binaries : ReserveBinary(b)
    \/ \E s \in Slots : RemoveContainer(s)
    \/ PluginCrash \/ PluginStart

Next == PublishVersion \/ Node \/ Plugin

Spec == Init /\ [][Next]_vars

(* The kubelet retries for ever, and the plugin is restarted by its         *)
(* DaemonSet and makes progress.  SF: a request may find the plugin busy,   *)
(* and a start may lose the race with a background removal, but not always. *)
Fairness ==
    /\ WF_vars(SyncCache) /\ WF_vars(DeliverVersion) /\ WF_vars(PluginStart)
    /\ WF_vars(GetProfile) /\ WF_vars(OpenProfile) /\ WF_vars(WriteProfile)
    /\ \A b \in Binaries : WF_vars(ReserveBinary(b))
    /\ \A s \in Slots :
           /\ SF_vars(RequestContainer(s)) /\ SF_vars(StartContainer(s))
           /\ WF_vars(StartFails(s)) /\ SF_vars(RemoveContainer(s))

FairSpec == Spec /\ Fairness

-----------------------------------------------------------------------------
(* Properties. *)

TypeOK ==
    /\ version \in 0..MaxVersion /\ cached \in Unsynced..MaxVersion
    /\ attached \in BOOLEAN
    /\ h \in [step : {"idle", "get", "reserve", "write"},
              slot : Slots \cup {NoSlot}, version : 0..MaxVersion,
              todo : SUBSET Binaries]
    /\ h.step = "idle" <=> h.slot = NoSlot
    /\ DOMAIN files \subseteq Slots /\ \A f \in DOMAIN files : files[f] \in Inodes
    /\ reserved \subseteq Pods \X Names \X Binaries
    /\ content \in [Inodes -> 0..MaxVersion]
    /\ ctr \in [Slots -> [state : {"none", "creating", "adjusted", "plain", "sealed"},
                          version : 0..MaxVersion,
                          inode : Inodes \cup {NoInode}]]
    /\ dead \in [Slots -> Nat] /\ exits \in [Slots -> 0..MaxExits]
    /\ pods \in [Pods -> {"alive", "terminating", "gone"}]
    /\ faults \in 0..MaxFaults /\ missed \subseteq Pods

(* A sealed container sees, for as long as it runs, the very version of the *)
(* profile its hooks were made from: not a truncated or half-replaced file, *)
(* whatever is created, removed or restarted around it.                     *)
SealedAsRead ==
    \A s \in Slots : ctr[s].state = "sealed" =>
        /\ ctr[s].inode # NoInode
        /\ content[ctr[s].inode] = ctr[s].version

(* Once a pod is gone nothing of it is left on the host, unless the plugin  *)
(* was not there for its last removal, its os.RemoveAll failed then, or     *)
(* nothing was removed after a creation failed in the plugin.               *)
FilesGoneWithPod ==
    \A p \in Pods : pods[p] = "gone" /\ p \notin missed =>
        \A f \in DOMAIN files \cup reserved : f[1] # p

(* The plugin cleans up "when a pod is deleted" (architecture.adoc): until  *)
(* then what it prepared for a container is there when the container is     *)
(* started.                                                                 *)
PreparedFilesPresent ==
    \A s \in Slots :
        ctr[s].state = "adjusted" /\ pods[s[1]] = "alive" => SourcesPresent(s)

(* A container of a pod that stays always gets created in the end, once the *)
(* profile exists: partial creations, leftovers of a crashed plugin and     *)
(* removals of other containers do not block it for ever.                   *)
EventuallyCreated ==
    \A s \in Slots :
        <>[](pods[s[1]] = "alive") /\ <>(version > 0) => []<>Running(s)
=============================================================================
