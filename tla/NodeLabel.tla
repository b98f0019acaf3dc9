------------------------------ MODULE NodeLabel ------------------------------
(***************************************************************************)
(* The plugin's init container: it detects the Landlock version of the     *)
(* kernel and writes it in a label of its node.  The node is read through  *)
(* a cache that starts with the first read and then follows the API server *)
(* at a distance, changed, and written back whole under the version that   *)
(* was read; other controllers write the same node all the time.  The      *)
(* kubelet starts the plugin itself when the init container succeeded.     *)
(***************************************************************************)
EXTENDS Integers, Sequences

CONSTANTS
    Abis,           \* Landlock versions of kernels; 0 for one without
    Others,         \* values of the labels of other writers
    NoLabel,        \* the node does not have the version label
    DefaultRetry,   \* attempts of retry.RetryOnConflict
    MaxWrites,      \* bound: writes of the node by others
    MaxFaults       \* bound: failing requests, crashes and reboots

ASSUME LabelAssumption ==
    /\ Abis \subseteq Nat /\ NoLabel \notin Abis
    /\ DefaultRetry \in Nat \ {0}
    /\ MaxWrites \in Nat /\ MaxFaults \in Nat

VARIABLES
    abi,            \* the version the running kernel supports
    node,           \* API server: the versions of the node so far
    others,         \* history: what other writers wrote last
    cached,         \* init container: the version its cache is at, 0 for none
    pc,             \* init container: where it is
    read,           \* init container: the version it read
    attempts,       \* init container: attempts left
    orphans,        \* updates nobody waits for any more, by the version they
                    \* were made from: the API server may still handle them
    faults          \* faults so far

vars == <<abi, node, others, cached, pc, read, attempts, orphans, faults>>

Object == [label : Abis \cup {NoLabel}, others : Others]
Current == Len(node)

(* What DetectLandlockVersion returns: no support counts as version 0.      *)
DetectLandlockVersion_PassesError == IF abi = 0 THEN -1 ELSE abi
DetectLandlockVersion == abi

Stop(where) == pc' = where /\ cached' = 0 /\ read' = 0 /\ attempts' = 0

(* A write that changes nothing makes no new version.                       *)
Store(obj) == node' = IF obj = node[Current] THEN node ELSE Append(node, obj)

-----------------------------------------------------------------------------
Start ==
    /\ pc = "down"
    /\ pc' = "get" /\ attempts' = DefaultRetry
    /\ UNCHANGED <<abi, node, others, cached, read, orphans, faults>>

(* The first read fills the cache, the others take what it has.             *)
Get ==
    /\ pc = "get"
    /\ cached' = IF cached = 0 THEN Current ELSE cached
    /\ read' = cached'
    /\ pc' = "update"
    /\ UNCHANGED <<abi, node, others, attempts, orphans, faults>>

DeliverVersion ==
    /\ cached \in 1..Current - 1
    /\ cached' = cached + 1
    /\ UNCHANGED <<abi, node, others, pc, read, attempts, orphans, faults>>

Accepted_Always(version) == TRUE
Accepted(version) == version = Current

Labelled(obj) == [obj EXCEPT !.label = DetectLandlockVersion]

Update ==
    /\ pc = "update" /\ Accepted(read)
    /\ Store(Labelled(node[read]))
    /\ Stop("labelled")
    /\ UNCHANGED <<abi, others, orphans, faults>>

OutOfAttempts_Succeeds == "labelled"
OutOfAttempts == "down"

Conflict_ReadsOnce ==
    /\ pc = "update" /\ ~Accepted(read)
    /\ UNCHANGED vars

(* A conflict: read again, until the attempts are used up and main exits.   *)
Conflict ==
    /\ pc = "update" /\ ~Accepted(read)
    /\ \/ /\ attempts > 1
          /\ pc' = "get" /\ attempts' = attempts - 1
          /\ UNCHANGED <<cached, read>>
       \/ attempts = 1 /\ Stop(OutOfAttempts)
    /\ UNCHANGED <<abi, node, others, orphans, faults>>

(* Another error, or the end of the process: an update that was sent may    *)
(* have been handled, may be handled later, or never.                       *)
Fails ==
    /\ pc \in {"get", "update"} /\ faults < MaxFaults
    /\ faults' = faults + 1
    /\ orphans' = IF pc = "update" THEN orphans \cup {read} ELSE orphans
    /\ Stop("down")
    /\ UNCHANGED <<abi, node, others>>

(* The API server gets to such an update, and refuses it if the node has    *)
(* changed since.                                                           *)
OrphanArrives(version) ==
    /\ version \in orphans
    /\ orphans' = orphans \ {version}
    /\ \/ Accepted(version) /\ Store(Labelled(node[version]))
       \/ ~Accepted(version) /\ UNCHANGED node
    /\ UNCHANGED <<abi, others, cached, pc, read, attempts, faults>>

(* The node comes back with a kernel of another version; its pods and their *)
(* init containers are started again.  The API server gives a request up    *)
(* before its client is back from a reboot.                                 *)
Reboot(version) ==
    /\ faults < MaxFaults
    /\ faults' = faults + 1
    /\ abi' = version
    /\ orphans' = {}
    /\ Stop("down")
    /\ UNCHANGED <<node, others>>

(* Other writers leave this label alone.                                    *)
OtherWrites(value) ==
    /\ Current < MaxWrites
    /\ others' = value
    /\ Store([node[Current] EXCEPT !.others = value])
    /\ UNCHANGED <<abi, cached, pc, read, attempts, orphans, faults>>

Init ==
    /\ abi \in Abis
    /\ others \in Others
    /\ node = <<[label |-> NoLabel, others |-> others]>>
    /\ pc = "down" /\ cached = 0 /\ read = 0 /\ attempts = 0
    /\ orphans = {} /\ faults = 0

Next ==
    \/ Start \/ Get \/ DeliverVersion \/ Update \/ Conflict
    \/ Fails
    \/ \E version \in 1..Current : OrphanArrives(version)
    \/ \E version \in Abis : Reboot(version)
    \/ \E value \in Others : OtherWrites(value)

Spec == Init /\ [][Next]_vars

Fairness ==
    /\ WF_vars(Start) /\ WF_vars(Get) /\ WF_vars(DeliverVersion)
    /\ WF_vars(Update) /\ WF_vars(Conflict)

FairSpec == Spec /\ Fairness

-----------------------------------------------------------------------------
TypeOK ==
    /\ abi \in Abis
    /\ node \in Seq(Object) /\ node # <<>>
    /\ others \in Others
    /\ pc \in {"down", "get", "update", "labelled"}
    /\ cached \in 0..Current /\ read \in 0..Current
    /\ attempts \in 0..DefaultRetry
    /\ orphans \subseteq 1..Current
    /\ faults \in 0..MaxFaults

(* Labels other writers put on the node survive: an update made from a      *)
(* cached, outdated copy of the node is refused and never stored.           *)
OtherLabelsKept == node[Current].others = others

(* The plugin runs on a node only when the label states the version of the  *)
(* kernel it runs on, 0 included, in spite of conflicts, of updates that    *)
(* arrive late and of reboots with another kernel.                          *)
LabelTrueWhenStarted == pc = "labelled" => node[Current].label = abi

(* Although the attempts of one run may all meet the same outdated copy,    *)
(* the init container succeeds in the end, on kernels without Landlock too. *)
EventuallyLabelled == []<>(pc = "labelled")
=============================================================================
