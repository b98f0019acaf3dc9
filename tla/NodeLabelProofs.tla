--------------------------- MODULE NodeLabelProofs ---------------------------
(***************************************************************************)
(* Proofs about the label of the node, for every set of versions and other *)
(* labels, every number of attempts and any bounds.  A successful update   *)
(* was made from the current version of the node, so it keeps what others  *)
(* wrote; and once the init container is done, nobody else writes its      *)
(* label until the node restarts.                                          *)
(***************************************************************************)
EXTENDS NodeLabel, SequenceTheorems, TLAPS

(* The version that was read is there while an update is under way. *)
ReadWhileUpdating == pc = "update" => read \in 1..Current

LabelInv == TypeOK /\ ReadWhileUpdating /\ OtherLabelsKept /\ LabelTrueWhenStarted

(* What a stored version looks like to the next reader. *)
LEMMA StoreFacts ==
    ASSUME node \in Seq(Object), node # <<>>, NEW obj \in Object, Store(obj)
    PROVE  /\ node' \in Seq(Object) /\ node' # <<>>
           /\ node'[Len(node')] = obj
           /\ Current <= Len(node')
<1>1. CASE obj = node[Current]
  BY <1>1 DEF Store, Current
<1>2. CASE obj # node[Current]
  <2>1. node' = Append(node, obj)
    BY <1>2 DEF Store
  <2>2. node' \in Seq(Object) /\ Len(node') = Len(node) + 1 /\ node'[Len(node) + 1] = obj
    BY <2>1, AppendProperties
  <2> QED
    BY <2>2 DEF Current
<1> QED
  BY <1>1, <1>2

LEMMA CurrentFacts ==
    ASSUME TypeOK
    PROVE  /\ Current \in Nat \ {0}
           /\ node[Current] \in Object
           /\ Labelled(node[Current]) \in Object
           /\ Labelled(node[Current]).others = node[Current].others
           /\ Labelled(node[Current]).label = abi
<1>1. Current \in Nat \ {0} /\ node[Current] \in Object
  BY DEF TypeOK, Current
<1> QED
  BY <1>1 DEF TypeOK, Labelled, DetectLandlockVersion, Object

LEMMA InitInv == Init => LabelInv
<1> SUFFICES ASSUME Init PROVE LabelInv
  OBVIOUS
<1> DEFINE obj == [label |-> NoLabel, others |-> others]
<1>1. obj \in Object
  BY DEF Init, Object
<1>2. node = <<obj>> /\ node \in Seq(Object) /\ Current = 1 /\ node[Current] = obj
  BY <1>1 DEF Init, Current
<1> QED
  BY <1>2, LabelAssumption
  DEF Init, LabelInv, TypeOK, ReadWhileUpdating, OtherLabelsKept, LabelTrueWhenStarted

(* An accepted update, whether the init container still waits for it or not. *)
LEMMA UpdateFacts ==
    ASSUME LabelInv, NEW version, Accepted(version), Store(Labelled(node[version])),
           UNCHANGED <<abi, others>>
    PROVE  /\ node' \in Seq(Object) /\ node' # <<>> /\ Current <= Current'
           /\ OtherLabelsKept'
           /\ node'[Current'].label = abi'
<1>1. Store(Labelled(node[Current]))
  BY DEF Accepted
<1>2. /\ Labelled(node[Current]) \in Object
      /\ Labelled(node[Current]).others = others
      /\ Labelled(node[Current]).label = abi
  BY CurrentFacts DEF LabelInv, OtherLabelsKept
<1>3. /\ node' \in Seq(Object) /\ node' # <<>>
      /\ node'[Len(node')] = Labelled(node[Current]) /\ Current <= Len(node')
  BY <1>1, <1>2, StoreFacts DEF LabelInv, TypeOK
<1> QED
  BY <1>2, <1>3 DEF OtherLabelsKept, Current

LEMMA NextInv == LabelInv /\ [Next]_vars => LabelInv'
<1> SUFFICES ASSUME LabelInv, [Next]_vars PROVE LabelInv'
  OBVIOUS
<1> USE LabelAssumption
<1>a. Current \in Nat \ {0}
  BY CurrentFacts DEF LabelInv
<1>1. CASE Start
  BY <1>1
  DEF Start, LabelInv, TypeOK, ReadWhileUpdating, OtherLabelsKept, LabelTrueWhenStarted,
      Current
<1>2. CASE Get
  BY <1>a, <1>2
  DEF Get, LabelInv, TypeOK, ReadWhileUpdating, OtherLabelsKept, LabelTrueWhenStarted,
      Current
<1>3. CASE DeliverVersion
  BY <1>a, <1>3
  DEF DeliverVersion, LabelInv, TypeOK, ReadWhileUpdating, OtherLabelsKept,
      LabelTrueWhenStarted, Current
<1>4. CASE Update
  <2>1. /\ node' \in Seq(Object) /\ node' # <<>> /\ Current <= Current'
        /\ OtherLabelsKept' /\ node'[Current'].label = abi'
    BY <1>4, UpdateFacts DEF Update
  <2>2. Len(node') \in Nat
    BY <2>1
  <2> QED
    BY <1>4, <1>a, <2>1, <2>2
    DEF Update, Stop, LabelInv, TypeOK, ReadWhileUpdating, LabelTrueWhenStarted, Current
<1>5. CASE Conflict
  BY <1>5
  DEF Conflict, Stop, OutOfAttempts, LabelInv, TypeOK, ReadWhileUpdating,
      OtherLabelsKept, LabelTrueWhenStarted, Current
<1>6. CASE Fails
  BY <1>6, <1>a
  DEF Fails, Stop, LabelInv, TypeOK, ReadWhileUpdating, OtherLabelsKept,
      LabelTrueWhenStarted, Current
<1>10. ASSUME NEW version \in 1..Current, OrphanArrives(version) PROVE LabelInv'
  <2>1. CASE Accepted(version) /\ Store(Labelled(node[version]))
    <3>1. /\ node' \in Seq(Object) /\ node' # <<>> /\ Current <= Current'
          /\ OtherLabelsKept' /\ node'[Current'].label = abi'
      BY <1>10, <2>1, UpdateFacts DEF OrphanArrives
    <3>2. Len(node') \in Nat
      BY <3>1
    <3> QED
      BY <1>10, <1>a, <3>1, <3>2
      DEF OrphanArrives, LabelInv, TypeOK, ReadWhileUpdating, LabelTrueWhenStarted,
          Current
  <2>2. CASE UNCHANGED node
    BY <1>10, <1>a, <2>2
    DEF OrphanArrives, LabelInv, TypeOK, ReadWhileUpdating, OtherLabelsKept,
        LabelTrueWhenStarted, Current
  <2> QED
    BY <1>10, <2>1, <2>2 DEF OrphanArrives
<1>7. ASSUME NEW version \in Abis, Reboot(version) PROVE LabelInv'
  BY <1>7
  DEF Reboot, Stop, LabelInv, TypeOK, ReadWhileUpdating, OtherLabelsKept,
      LabelTrueWhenStarted, Current
<1>8. ASSUME NEW value \in Others, OtherWrites(value) PROVE LabelInv'
  <2> DEFINE obj == [node[Current] EXCEPT !.others = value]
  <2>1. obj \in Object /\ obj.others = value /\ obj.label = node[Current].label
    BY CurrentFacts DEF LabelInv, Object
  <2>2. /\ node' \in Seq(Object) /\ node' # <<>>
        /\ node'[Len(node')] = obj /\ Current <= Len(node')
    BY <1>8, <2>1, StoreFacts DEF OtherWrites, LabelInv, TypeOK
  <2>3. Len(node') \in Nat
    BY <2>2
  <2>4. OtherLabelsKept' /\ LabelTrueWhenStarted'
    BY <1>8, <2>1, <2>2
    DEF OtherWrites, LabelInv, OtherLabelsKept, LabelTrueWhenStarted, Current
  <2>5. TypeOK' /\ ReadWhileUpdating'
    BY <1>8, <1>a, <2>2, <2>3
    DEF OtherWrites, LabelInv, TypeOK, ReadWhileUpdating, Current
  <2> QED
    BY <2>4, <2>5 DEF LabelInv
<1>9. CASE UNCHANGED vars
  BY <1>9
  DEF vars, LabelInv, TypeOK, ReadWhileUpdating, OtherLabelsKept, LabelTrueWhenStarted,
      Current
<1> QED
  BY <1>1, <1>2, <1>3, <1>4, <1>5, <1>6, <1>7, <1>8, <1>9, <1>10 DEF Next

LEMMA InvariantHolds == Spec => []LabelInv
  BY InitInv, NextInv, PTL DEF Spec

(* The state of the init container and of the node keeps its type. *)
THEOREM LabelTypeOK == Spec => []TypeOK
  BY InvariantHolds, PTL DEF LabelInv

(* No update of the init container undoes a label that others wrote. *)
THEOREM KeepsOtherLabels == Spec => []OtherLabelsKept
  BY InvariantHolds, PTL DEF LabelInv

(* Where the plugin runs, the label states the version of the kernel. *)
THEOREM LabelStatesVersion == Spec => []LabelTrueWhenStarted
  BY InvariantHolds, PTL DEF LabelInv
=============================================================================
