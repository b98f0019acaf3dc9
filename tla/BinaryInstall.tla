---------------------------- MODULE BinaryInstall ----------------------------
(***************************************************************************)
(* How the plugin puts its helper binaries, seal and swap-oci-hook, on the *)
(* host when it starts: it compares checksums and rewrites what differs in *)
(* place, block by block.  The files are shared with the container runtime *)
(* and with every sealed container of the node, which execute them         *)
(* meanwhile, and a start can be cut short anywhere.                       *)
(***************************************************************************)
EXTENDS Integers

CONSTANTS
    Binaries,       \* how many binaries are installed, in order
    Images,         \* images of the plugin
    Build,          \* the content of each binary in each image
    Blocks,         \* how many writes a copy takes
    Absent,         \* a file that is not on the host
    MaxFaults       \* bound: crashes and failing file operations

ASSUME InstallAssumption ==
    /\ Binaries \in Nat \ {0} /\ Blocks \in Nat \ {0} /\ MaxFaults \in Nat
    /\ Images # {}

VARIABLES
    image,          \* the image the plugin's pod runs
    host,           \* the files under /opt/podlock/bin
    pc,             \* where the plugin is in copyBinaries
    current,        \* the binary it is at
    executing,      \* the binaries some process of the host executes
    faults          \* faults so far

vars == <<image, host, pc, current, executing, faults>>

Helpers  == 1..Binaries
Contents == {Build[i][b] : i \in Images, b \in Helpers}

(* Two files have the same checksum when they are the same.                 *)
File == [content : Contents, blocks : 0..Blocks]
Whole(i, b) == [content |-> Build[i][b], blocks |-> Blocks]

UpToDate_Present(b) == host[b] # Absent
UpToDate_Never(b) == FALSE

(* The checksum of a file that does not exist is the empty string. *)
UpToDate(b) == host[b] = Whole(image, b)

(* A binary is in place: take the next one, or register with the runtime.   *)
Advance(b) ==
    IF b = Binaries
    THEN pc' = "registered" /\ current' = b
    ELSE pc' = "compare" /\ current' = b + 1

(* os.Exit(1); the kubelet starts the container again.                      *)
Exit == pc' = "down" /\ current' = 1

Start ==
    /\ pc = "down"
    /\ pc' = "compare" /\ current' = 1
    /\ UNCHANGED <<image, host, executing, faults>>

Compare ==
    /\ pc = "compare"
    /\ \/ UpToDate(current) /\ Advance(current)
       \/ ~UpToDate(current) /\ pc' = "open" /\ UNCHANGED current
    /\ UNCHANGED <<image, host, executing, faults>>

Truncated_Appends(file, c) ==
    [content |-> c, blocks |-> IF file = Absent THEN 0 ELSE file.blocks]
Truncated(file, c) == [content |-> c, blocks |-> 0]

MayOpen_Exclusive(b) == host[b] = Absent

(* The kernel does not open a file for writing that is being executed. *)
MayOpen(b) == b \notin executing

OpenForWriting ==
    /\ pc = "open" /\ MayOpen(current)
    /\ host' = [host EXCEPT ![current] = Truncated(@, Build[image][current])]
    /\ pc' = "copy"
    /\ UNCHANGED <<image, current, executing, faults>>

OpenRefused ==
    /\ pc = "open" /\ ~MayOpen(current)
    /\ Exit
    /\ UNCHANGED <<image, host, executing, faults>>

CopyBlock ==
    /\ pc = "copy"
    /\ host' = [host EXCEPT ![current].blocks = @ + 1]
    /\ IF host[current].blocks + 1 = Blocks
       THEN Advance(current)
       ELSE UNCHANGED <<pc, current>>
    /\ UNCHANGED <<image, executing, faults>>

(* A checksum, open or write fails, or the process is killed.  What was     *)
(* written stays.                                                           *)
Fault ==
    /\ pc # "down" /\ faults < MaxFaults
    /\ faults' = faults + 1
    /\ Exit
    /\ UNCHANGED <<image, host, executing>>

(* The DaemonSet replaces the pod by one of another image.                  *)
Upgrade(i) ==
    /\ faults < MaxFaults
    /\ faults' = faults + 1
    /\ image' = i
    /\ Exit
    /\ UNCHANGED <<host, executing>>

(* A complete binary is executed; one open for writing is refused.          *)
Execute(b) ==
    /\ host[b] \in {Whole(i, b) : i \in Images}
    /\ ~(pc = "copy" /\ current = b)
    /\ executing' = executing \cup {b}
    /\ UNCHANGED <<image, host, pc, current, faults>>

(* seal replaces itself by the binary it seals; the hook ends.              *)
Ends(b) ==
    /\ b \in executing
    /\ executing' = executing \ {b}
    /\ UNCHANGED <<image, host, pc, current, faults>>

Init ==
    /\ image \in Images
    /\ host = [b \in Helpers |-> Absent]
    /\ pc = "down" /\ current = 1
    /\ executing = {} /\ faults = 0

Plugin == Start \/ Compare \/ OpenForWriting \/ OpenRefused \/ CopyBlock

Next ==
    \/ Plugin
    \/ Fault
    \/ \E i \in Images : Upgrade(i)
    \/ \E b \in Helpers : Execute(b) \/ Ends(b)

Spec == Init /\ [][Next]_vars

(* The kubelet restarts the plugin for ever. *)
Fairness ==
    /\ WF_vars(Start) /\ WF_vars(Compare) /\ WF_vars(CopyBlock)
    /\ WF_vars(OpenForWriting) /\ WF_vars(OpenRefused)

FairSpec == Spec /\ Fairness

-----------------------------------------------------------------------------
TypeOK ==
    /\ image \in Images
    /\ host \in [Helpers -> File \cup {Absent}]
    /\ pc \in {"down", "compare", "open", "copy", "registered"}
    /\ current \in Helpers
    /\ executing \subseteq Helpers
    /\ faults \in 0..MaxFaults

(* startPluginMode registers with the runtime, and so adjusts containers,   *)
(* only when both helpers on the host are complete and those of its own     *)
(* image, whatever copy an earlier start left unfinished.                   *)
InstalledWhenRegistered ==
    pc = "registered" => \A b \in Helpers : host[b] = Whole(image, b)

(* Restarts, crashes and failed starts of one image leave a helper that is  *)
(* complete alone: CopyFileIfDifferent only opens what differs, so sealed   *)
(* containers that share the file are not disturbed.                        *)
IntactFilesKept ==
    [][\A b \in Helpers :
           host[b] = Whole(image, b) => host'[b] = host[b]]_vars

(* Half-written files, helpers that were busy at some start, upgrades and   *)
(* restarts do not keep the plugin from registering, unless some process    *)
(* executes a helper whenever it has to be replaced.                        *)
EventuallyRegistered ==
    <>[](executing = {}) => []<>(pc = "registered")
=============================================================================
