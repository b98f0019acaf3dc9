------------------------- MODULE BinaryInstallProofs -------------------------
(***************************************************************************)
(* Proofs about the installation of the helper binaries, for every number  *)
(* of binaries, blocks, images and faults.  The invariant adds to the type *)
(* invariant what the plugin knows while it works through the list: what   *)
(* is before the current binary is in place, and the file it has opened    *)
(* differs from the one it copies until the last block is written.         *)
(***************************************************************************)
EXTENDS BinaryInstall, TLAPS

Installed(b) == host[b] = Whole(image, b)

InPlaceBefore ==
    pc \in {"compare", "open", "copy"} => \A b \in 1..current - 1 : Installed(b)

OpensWhatDiffers == pc = "open" => ~Installed(current)

Unfinished ==
    pc = "copy" =>
        /\ host[current] \in File
        /\ host[current].content = Build[image][current]
        /\ host[current].blocks < Blocks

InstallInv ==
    /\ TypeOK
    /\ InPlaceBefore
    /\ OpensWhatDiffers
    /\ Unfinished
    /\ InstalledWhenRegistered

(* A whole file is a file, and the empty one is another. *)
LEMMA FileFacts ==
    ASSUME NEW i \in Images, NEW b \in Helpers
    PROVE  /\ Whole(i, b) \in File
           /\ Build[i][b] \in Contents
           /\ \A f : Truncated(f, Build[i][b]) \in File
<1>1. Build[i][b] \in Contents
  BY DEF Contents
<1> QED
  BY <1>1, InstallAssumption DEF Whole, File, Truncated

(* Only the last binary of the list leads to registration. *)
LEMMA AdvanceInv ==
    ASSUME InstallInv, Advance(current), pc \in {"compare", "copy"},
           UNCHANGED <<image, executing, faults>>,
           host' \in [Helpers -> File \cup {Absent}],
           \A b \in 1..current : host'[b] = Whole(image, b)
    PROVE  InstallInv'
<1>1. TypeOK'
  BY InstallAssumption DEF InstallInv, TypeOK, Advance, Helpers
<1>2. InPlaceBefore'
  BY InstallAssumption DEF InstallInv, TypeOK, Advance, Helpers, InPlaceBefore, Installed, Whole
<1>3. InstalledWhenRegistered'
  BY InstallAssumption DEF InstallInv, TypeOK, Advance, Helpers, InstalledWhenRegistered, Whole
<1> QED
  BY <1>1, <1>2, <1>3 DEF InstallInv, Advance, OpensWhatDiffers, Unfinished

(* The plugin is down, and claims nothing. *)
LEMMA ExitInv ==
    ASSUME InstallInv, Exit, UNCHANGED <<host, executing>>,
           image' \in Images, faults' \in 0..MaxFaults
    PROVE  InstallInv'
  BY InstallAssumption
  DEF InstallInv, TypeOK, Exit, Helpers, InPlaceBefore, OpensWhatDiffers,
      Unfinished, InstalledWhenRegistered

LEMMA InitInv == Init => InstallInv
  BY InstallAssumption
  DEF Init, InstallInv, TypeOK, Helpers, InPlaceBefore, OpensWhatDiffers,
      Unfinished, InstalledWhenRegistered

LEMMA NextInv == InstallInv /\ [Next]_vars => InstallInv'
<1> SUFFICES ASSUME InstallInv, [Next]_vars PROVE InstallInv'
  OBVIOUS
<1> USE DEF Helpers
<1>1. CASE Start
  BY <1>1, InstallAssumption
  DEF Start, InstallInv, TypeOK, InPlaceBefore, OpensWhatDiffers, Unfinished,
      InstalledWhenRegistered
<1>2. CASE Compare
  <2>1. CASE UpToDate(current) /\ Advance(current)
    <3>1. \A b \in 1..current : host'[b] = Whole(image, b)
      BY <1>2, <2>1 DEF Compare, UpToDate, InstallInv, TypeOK, InPlaceBefore, Installed
    <3> QED
      BY <1>2, <2>1, <3>1, AdvanceInv DEF Compare, InstallInv, TypeOK
  <2>2. CASE ~UpToDate(current) /\ pc' = "open" /\ UNCHANGED current
    BY <1>2, <2>2
    DEF Compare, UpToDate, InstallInv, TypeOK, InPlaceBefore, OpensWhatDiffers,
        Unfinished, InstalledWhenRegistered, Installed, Whole
  <2> QED
    BY <1>2, <2>1, <2>2 DEF Compare
<1>3. CASE OpenForWriting
  <2> DEFINE f == Truncated(host[current], Build[image][current])
  <2>1. f \in File /\ f.content = Build[image][current] /\ f.blocks = 0
    BY FileFacts DEF InstallInv, TypeOK, Truncated
  <2>2. host' = [host EXCEPT ![current] = f]
    BY <1>3 DEF OpenForWriting
  <2>3. TypeOK' /\ host'[current'] = f
    BY <1>3, <2>1, <2>2 DEF OpenForWriting, InstallInv, TypeOK
  <2>4. Unfinished'
    BY <1>3, <2>1, <2>3, InstallAssumption DEF OpenForWriting, Unfinished
  <2>5. InPlaceBefore'
    BY <1>3, <2>2
    DEF OpenForWriting, InstallInv, TypeOK, InPlaceBefore, Installed, Whole
  <2> QED
    BY <1>3, <2>3, <2>4, <2>5
    DEF OpenForWriting, InstallInv, OpensWhatDiffers, InstalledWhenRegistered
<1>4. CASE OpenRefused
  BY <1>4, ExitInv DEF OpenRefused, InstallInv, TypeOK
<1>5. CASE CopyBlock
  <2> DEFINE f == [host[current] EXCEPT !.blocks = @ + 1]
  <2>1. host[current] \in File /\ host[current].content = Build[image][current]
        /\ host[current].blocks < Blocks
    BY <1>5 DEF CopyBlock, InstallInv, Unfinished
  <2>2. /\ f \in File /\ f.content = Build[image][current]
        /\ f.blocks = host[current].blocks + 1
    BY <2>1, InstallAssumption DEF File
  <2>3. host' = [host EXCEPT ![current] = f]
    BY <1>5 DEF CopyBlock
  <2>4. host' \in [Helpers -> File \cup {Absent}] /\ host'[current] = f
    BY <2>2, <2>3 DEF InstallInv, TypeOK
  <2>5. \A b \in 1..current - 1 : host'[b] = Whole(image, b)
    BY <1>5, <2>3 DEF CopyBlock, InstallInv, TypeOK, InPlaceBefore, Installed
  <2>6. CASE host[current].blocks + 1 = Blocks
    <3>1. f = Whole(image, current)
      BY <2>2, <2>6 DEF Whole, File
    <3>2. \A b \in 1..current : host'[b] = Whole(image, b)
      BY <2>4, <2>5, <3>1 DEF InstallInv, TypeOK
    <3> QED
      BY <1>5, <2>4, <2>6, <3>2, AdvanceInv DEF CopyBlock
  <2>7. CASE host[current].blocks + 1 # Blocks
    <3>1. TypeOK' /\ pc' = "copy" /\ current' = current
      BY <1>5, <2>4, <2>7 DEF CopyBlock, InstallInv, TypeOK
    <3>2. Unfinished'
      BY <1>5, <2>1, <2>2, <2>4, <2>7, <3>1, InstallAssumption DEF CopyBlock, Unfinished, File
    <3>3. InPlaceBefore'
      BY <1>5, <2>5, <3>1 DEF CopyBlock, InPlaceBefore, Installed, Whole
    <3> QED
      BY <3>1, <3>2, <3>3 DEF InstallInv, OpensWhatDiffers, InstalledWhenRegistered
  <2> QED
    BY <2>6, <2>7
<1>6. CASE Fault
  BY <1>6, ExitInv, InstallAssumption DEF Fault, InstallInv, TypeOK
<1>7. ASSUME NEW i \in Images, Upgrade(i) PROVE InstallInv'
  BY <1>7, ExitInv, InstallAssumption DEF Upgrade, InstallInv, TypeOK
<1>8. ASSUME NEW b \in Helpers, Execute(b) \/ Ends(b) PROVE InstallInv'
  BY <1>8
  DEF Execute, Ends, InstallInv, TypeOK, InPlaceBefore, OpensWhatDiffers, Unfinished,
      InstalledWhenRegistered, Installed, Whole
<1>9. CASE UNCHANGED vars
  BY <1>9
  DEF vars, InstallInv, TypeOK, InPlaceBefore, OpensWhatDiffers, Unfinished,
      InstalledWhenRegistered, Installed, Whole
<1> QED
  BY <1>1, <1>2, <1>3, <1>4, <1>5, <1>6, <1>7, <1>8, <1>9 DEF Next, Plugin

LEMMA InvariantHolds == Spec => []InstallInv
  BY InitInv, NextInv, PTL DEF Spec

(* The state of the installation keeps its type. *)
THEOREM InstallTypeOK == Spec => []TypeOK
  BY InvariantHolds, PTL DEF InstallInv

(* The plugin registers with the runtime only with every helper of its      *)
(* image complete on the host, after whatever crashes and upgrades.         *)
THEOREM RegistersInstalled == Spec => []InstalledWhenRegistered
  BY InvariantHolds, PTL DEF InstallInv

(* CopyFileIfDifferent never touches a helper that is complete and current. *)
THEOREM KeepsIntactFiles == Spec => IntactFilesKept
<1> DEFINE Kept == \A b \in Helpers : host[b] = Whole(image, b) => host'[b] = host[b]
<1>1. InstallInv /\ [Next]_vars => [Kept]_vars
  <2> SUFFICES ASSUME InstallInv, [Next]_vars PROVE Kept \/ UNCHANGED vars
    OBVIOUS
  <2>1. CASE OpenForWriting
    BY <2>1 DEF OpenForWriting, InstallInv, TypeOK, OpensWhatDiffers, Installed
  <2>2. CASE CopyBlock
    <3>1. host[current] # Whole(image, current)
      BY <2>2, InstallAssumption DEF CopyBlock, InstallInv, Unfinished, Whole
    <3> QED
      BY <2>2, <3>1 DEF CopyBlock, InstallInv, TypeOK
  <2>3. CASE UNCHANGED host
    BY <2>3
  <2> QED
    BY <2>1, <2>2, <2>3
    DEF Next, Plugin, Start, Compare, OpenRefused, Fault, Upgrade, Execute, Ends, vars
<1> QED
  BY <1>1, InvariantHolds, PTL DEF Spec, IntactFilesKept
=============================================================================
