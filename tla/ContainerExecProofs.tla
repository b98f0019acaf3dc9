------------------------- MODULE ContainerExecProofs -------------------------
(***************************************************************************)
(* Proofs about the hooks and the processes of a container, for every set  *)
(* of paths and entries, every image with symbolic links of any length,    *)
(* every profile and every number of stacked rulesets.  The hooks run in   *)
(* any order: what covers an entry of the image is always seal, put there  *)
(* by the hook of a path that names the entry, so the backup of a binary   *)
(* whose lookup meets no such entry is the binary itself.  From seal's     *)
(* start to its exec the binary it executes is the one whose rules it      *)
(* looked up, and the layers only grow.                                    *)
(***************************************************************************)
EXTENDS ContainerExec, WellFoundedInduction, TLAPS

(* What the hooks that ran have left. *)
HookInv ==
    /\ phase = "started" => pending = {}
    /\ \A b \in listed \ pending : image[b] # <<>> /\ image[b][1] \in DOMAIN covered
    /\ \A e \in DOMAIN covered \cap Entries :
           covered[e] = Seal /\ \E b \in listed \ pending : e = image[b][1]
    /\ \A b \in listed \ pending : Unaliased(b) => covered[Backup(b)] = Original(b)

(* Before the container starts no process of it has done anything. *)
StartInv == phase # "started" => proc = FirstProgram

(* What seal knows from its flags on: the binary to run is the backup of    *)
(* the one that argv[0] named, or in native mode the one it was given; then *)
(* the profile, and last the ruleset made of both.                          *)
ConfigInv ==
    /\ proc.stage \in {"profile", "restrict", "exec"} =>
           \/ proc.target = Backup(proc.binary) /\ proc.file # NoPath
           \/ proc.target = proc.binary
    /\ proc.stage \in {"restrict", "exec"} /\ proc.file # NoPath =>
           proc.profile = ProfilesIn(proc.file)[proc.binary]
    /\ proc.stage = "exec" => Ruleset(proc.profile, proc.target) \in proc.layers

(* Reached by its own path seal is configured for that path. *)
StraightInv ==
    proc.straight =>
        /\ proc.stage = "parse" => /\ proc.argv0 = proc.via /\ proc.env = NoPath
                                   /\ proc.via \in Executables
        /\ proc.stage \in {"profile", "restrict", "exec"} =>
               \/ /\ proc.binary = proc.via /\ proc.target = Backup(proc.via)
                  /\ proc.file = ProfileFile /\ proc.via \in Executables \ SealNames
               \/ proc.target = proc.binary /\ proc.via \in SealNames

(* The layers only grow, and a process that execs the binary itself, not    *)
(* seal again, gets one more than its parent.                               *)
LayerInv ==
    /\ proc.parent \subseteq proc.layers
    /\ proc.layers = {} => proc.depth = 0
    /\ proc.straight /\ proc.via \in listed \ SealNames /\ Unaliased(proc.via) =>
           /\ proc.stage \in {"parse", "profile", "restrict"} => proc.layers = proc.parent
           /\ proc.stage = "exec" =>
                  proc.layers = proc.parent \cup {Ruleset(proc.profile, proc.target)}

ProcessInv ==
    /\ StartInv /\ ConfigInv /\ StraightInv /\ LayerInv
    /\ RunsUnderItsProfile /\ ListedBinaryStarts

Inv == TypeOK /\ HookInv /\ ProcessInv

-----------------------------------------------------------------------------
(* Lookups. *)

(* Every set of naturals that has an element has a least one. *)
LEMMA LeastNatural ==
    ASSUME NEW T, T \subseteq Nat, T # {}
    PROVE  \E x \in T : \A y \in T : x <= y
<1> DEFINE Less == OpToRel(<, Nat)
<1>1. IsWellFoundedOn(Less, Nat)
  BY NatLessThanWellFounded, Zenon
<1>2. \A x, y \in Nat : y < x => <<y, x>> \in Less
  BY DEF OpToRel
<1> HIDE DEF Less
<1>3. PICK x \in T : \A y \in T : ~(<<y, x>> \in Less)
  BY <1>1, WFMin
<1>4. \A y \in T : ~(y < x)
  BY <1>2, <1>3
<1>5. \A y \in T : x <= y
  BY <1>4
<1> QED
  BY <1>5

(* What a path leads to: seal, if an entry of its lookup is covered, and    *)
(* otherwise the file of the image.                                         *)
LEMMA ContentFacts ==
    ASSUME TypeOK, HookInv, NEW p \in Paths, image[p] # <<>>
    PROVE  /\ Original(p) \in Entries
           /\ (\E i \in DOMAIN image[p] : image[p][i] \in DOMAIN covered) => Content(p) = Seal
           /\ (\A i \in DOMAIN image[p] : image[p][i] \notin DOMAIN covered)
                  => Content(p) = Original(p)
<1> DEFINE hit == {i \in DOMAIN image[p] : image[p][i] \in DOMAIN covered}
<1>1. image[p] \in Seq(Entries)
  BY ImageAssumption DEF TypeOK
<1>2. Original(p) \in Entries
  BY <1>1 DEF Original
<1>3. ASSUME hit # {} PROVE Content(p) = Seal
  <2> DEFINE least == CHOOSE i \in hit : \A j \in hit : i <= j
  <2>1. hit \subseteq Nat
    BY <1>1
  <2>2. \E i \in hit : \A j \in hit : i <= j
    BY ONLY <2>1, <1>3, LeastNatural
  <2>3. least \in hit
    BY <2>2
  <2> HIDE DEF least
  <2>4. image[p][least] \in DOMAIN covered \cap Entries
    BY <2>3, <1>1
  <2>5. Content(p) = covered[image[p][least]]
    BY <1>3 DEF Content, least
  <2> QED
    BY <2>4, <2>5 DEF HookInv
<1>4. ASSUME hit = {} PROVE Content(p) = Original(p)
  BY <1>4 DEF Content
<1> QED
  BY <1>2, <1>3, <1>4

(* Every listed binary whose hook ran is intercepted. *)
LEMMA HookedContent ==
    ASSUME TypeOK, HookInv, NEW b \in listed \ pending
    PROVE  Content(b) = Seal
<1>1. b \in Paths /\ image[b] # <<>> /\ image[b][1] \in DOMAIN covered
  BY DEF TypeOK, HookInv
<1>2. image[b] \in Seq(Entries)
  BY <1>1, ImageAssumption DEF TypeOK
<1>3. 1 \in DOMAIN image[b]
  BY <1>1, <1>2
<1> QED
  BY <1>1, <1>3, ContentFacts

(* A listed binary whose hook has not run, and whose lookup visits no entry *)
(* that another listed path names, is still what the image has.             *)
LEMMA PendingContent ==
    ASSUME TypeOK, HookInv, NEW b \in pending, image[b] # <<>>, Unaliased(b)
    PROVE  Content(b) = Original(b)
<1>1. b \in Paths /\ b \in listed
  BY DEF TypeOK
<1>2. image[b] \in Seq(Entries)
  BY <1>1, ImageAssumption DEF TypeOK
<1>3. ASSUME NEW i \in DOMAIN image[b], image[b][i] \in DOMAIN covered PROVE FALSE
  <2>1. image[b][i] \in DOMAIN covered \cap Entries
    BY <1>2, <1>3
  <2>2. PICK c \in listed \ pending : image[b][i] = image[c][1]
    BY <2>1 DEF HookInv
  <2>3. c \in listed \ {b} /\ image[c] # <<>>
    BY <2>2 DEF HookInv
  <2> QED
    BY <2>2, <2>3 DEF Unaliased
<1> QED
  BY <1>1, <1>3, ContentFacts

(* What the other paths lead to. *)
LEMMA FileFacts ==
    ASSUME TypeOK
    PROVE  /\ \A p \in Paths :
                  FileAt(p) = IF image[p] = <<>> THEN {} ELSE {Content(p)}
           /\ FileAt(SealPath) = {Seal}
           /\ \A f \in ProfileFiles : FileAt(f) = {f}
           /\ FileAt(NoPath) = {}
           /\ \A b \in Executables \cup {NoPath} :
                  FileAt(Backup(b)) = {covered[e] : e \in DOMAIN covered \cap {Backup(b)}}
<1>1. /\ SealPath \notin Paths /\ SealPath \notin ProfileFiles
      /\ NoPath \notin Paths /\ NoPath # SealPath /\ NoPath \notin ProfileFiles
      /\ \A p \in Paths : p # SealPath /\ p \notin ProfileFiles
      /\ \A f \in ProfileFiles : f \notin Paths /\ f # SealPath
  BY NameAssumption DEF Executables
<1>2. \A b \in Executables \cup {NoPath} :
          Backup(b) \notin Paths /\ Backup(b) # SealPath /\ Backup(b) \notin ProfileFiles
                                 /\ Backup(b) # NoPath
  BY BackupAssumption DEF Executables
<1>3. \A p \in Paths : FileAt(p) = IF image[p] = <<>> THEN {} ELSE {Content(p)}
  BY <1>1 DEF FileAt
<1>4. FileAt(SealPath) = {Seal}
  BY <1>1 DEF FileAt
<1>5. \A f \in ProfileFiles : FileAt(f) = {f}
  BY <1>1 DEF FileAt
<1>6. FileAt(NoPath) = {}
  <2>1. NoPath \notin DOMAIN covered
    <3>1. \A b \in listed : Backup(b) # NoPath
      BY <1>2 DEF TypeOK, Executables
    <3> QED
      BY <3>1, NameAssumption DEF TypeOK
  <2>2. FileAt(NoPath) = {covered[e] : e \in DOMAIN covered \cap {NoPath}}
    BY <1>1 DEF FileAt
  <2> QED
    BY <2>1, <2>2
<1>7. \A b \in Executables \cup {NoPath} :
          FileAt(Backup(b)) = {covered[e] : e \in DOMAIN covered \cap {Backup(b)}}
  BY <1>2 DEF FileAt
<1> QED
  BY <1>3, <1>4, <1>5, <1>6, <1>7

(* The backup of a listed binary is there, and no other. *)
LEMMA BackupFile ==
    ASSUME TypeOK, NEW b \in Executables \cup {NoPath}
    PROVE  /\ b \in listed => FileAt(Backup(b)) = {covered[Backup(b)]}
           /\ b \notin listed => FileAt(Backup(b)) = {}
<1>1. FileAt(Backup(b)) = {covered[e] : e \in DOMAIN covered \cap {Backup(b)}}
  BY FileFacts
<1>2. ASSUME b \in listed PROVE DOMAIN covered \cap {Backup(b)} = {Backup(b)}
  BY <1>2 DEF TypeOK
<1>3. ASSUME b \notin listed PROVE DOMAIN covered \cap {Backup(b)} = {}
  <2>1. Backup(b) \notin Entries
    BY BackupAssumption
  <2>2. \A c \in listed : Backup(c) # Backup(b)
    BY <1>3 DEF Backup, SwappedBinaryPathInsideContainer
  <2> QED
    BY <2>1, <2>2 DEF TypeOK
<1> QED
  BY <1>1, <1>2, <1>3

(* A path leads to one file at most. *)
LEMMA OneFile ==
    ASSUME TypeOK, HookInv,
           NEW path \in Executables \cup {NoPath}
                            \cup {Backup(b) : b \in Executables \cup {NoPath}}
    PROVE  /\ FileAt(path) \subseteq Entries \cup {Seal, Empty}
           /\ \A f, g \in FileAt(path) : f = g
<1>1. CASE path \in Paths
  <2>1. image[path] # <<>> => Content(path) \in Entries \cup {Seal, Empty}
    BY <1>1, ContentFacts
  <2> QED
    BY <1>1, <2>1, FileFacts
<1>2. CASE path \in {SealPath, NoPath}
  BY <1>2, FileFacts
<1>3. ASSUME NEW b \in Executables \cup {NoPath}, path = Backup(b) PROVE
             /\ FileAt(path) \subseteq Entries \cup {Seal, Empty}
             /\ \A f, g \in FileAt(path) : f = g
  <2>1. b \in listed => covered[Backup(b)] \in Entries \cup {Seal, Empty}
    BY DEF TypeOK
  <2> QED
    BY <1>3, <2>1, BackupFile
<1> QED
  BY <1>1, <1>2, <1>3 DEF Executables

(* A ruleset lets a process use files. *)
LEMMA RulesetType ==
    ASSUME TypeOK, HookInv, NEW profile, NEW path
    PROVE  Ruleset(profile, path) \in SUBSET Files
<1>1. \A x : FileAt(x) \subseteq Files
  <2> TAKE x
  <2>1. CASE x \in Executables
    BY <2>1, OneFile DEF Files
  <2>2. CASE x \in ProfileFiles
    BY <2>2, FileFacts DEF Files
  <2>3. CASE x \notin Executables /\ x \notin ProfileFiles
    <3>1. FileAt(x) = {covered[e] : e \in DOMAIN covered \cap {x}}
      BY <2>3 DEF FileAt, Executables
    <3> QED
      BY <3>1 DEF TypeOK, Files
  <2> QED
    BY <2>1, <2>2, <2>3
<1> QED
  BY <1>1 DEF Ruleset, processPaths

(* The ruleset seal builds for a binary lets it execute the binary. *)
LEMMA OwnLayerAllowsBinary ==
    ASSUME NEW profile, NEW path, FileAt(path) # {}
    PROVE  MayUse({Ruleset(profile, path)}, path)
<1>1. FileAt(path) \subseteq Ruleset(profile, path)
  BY DEF Ruleset, processPaths, RulesForBinaryToRun
<1> QED
  BY <1>1 DEF MayUse

LEMMA NoLayerAllowsProfile == TypeOK => MayUse({}, ProfileFile)
  BY FileFacts DEF MayUse, ProfileFiles

-----------------------------------------------------------------------------
(* The hooks. *)

(* No process has done anything yet. *)
Idle == proc = FirstProgram

LEMMA FirstProgramInv == TypeOK /\ Idle => ProcessInv
<1> SUFFICES ASSUME TypeOK, proc = FirstProgram PROVE ProcessInv
  BY DEF Idle
<1>1. FileAt(NoPath) = {}
  BY FileFacts
<1>2. NoPath \notin listed
  BY NameAssumption DEF TypeOK, Executables
<1>3. StartInv /\ ConfigInv /\ StraightInv /\ LayerInv
  BY DEF FirstProgram, StartInv, ConfigInv, StraightInv, LayerInv
<1>4. RunsUnderItsProfile /\ ListedBinaryStarts
  BY <1>1, <1>2 DEF FirstProgram, RunsUnderItsProfile, ListedBinaryStarts
<1> QED
  BY <1>3, <1>4 DEF ProcessInv

LEMMA InitInv == Init => Inv
<1> SUFFICES ASSUME Init PROVE Inv
  OBVIOUS
<1>1. listed \subseteq Paths /\ pending = listed /\ phase = "hooks" /\ proc = FirstProgram
  BY DEF Init
<1>2. DOMAIN covered = {Backup(b) : b \in listed}
  BY DEF Init
<1>3. DOMAIN covered \cap Entries = {}
  BY <1>1, <1>2, BackupAssumption DEF Executables
<1>4. \A e \in DOMAIN covered : covered[e] = Empty
  BY DEF Init
<1>5. FirstProgram \in Processes
  BY LayersAssumption DEF FirstProgram, Processes, Files
<1>6. TypeOK
  BY <1>1, <1>2, <1>4, <1>5 DEF Init, TypeOK
<1>7. HookInv
  BY <1>1, <1>3 DEF HookInv
<1> QED
  BY <1>1, <1>6, <1>7, FirstProgramInv DEF Inv, Idle

(* Which listed paths are aliased depends on the image and the profile. *)
LEMMA UnaliasedKept ==
    ASSUME UNCHANGED <<image, listed>>
    PROVE  \A b : (Unaliased(b)' <=> Unaliased(b)) /\ Original(b)' = Original(b)
BY DEF Unaliased, Original

(* The two mounts of one run of the hook. *)
LEMMA OverMountFacts ==
    ASSUME TypeOK, HookInv, NEW b \in pending, image[b] # <<>>, performOverMounts(b)
    PROVE  /\ image[b][1] \in Entries
           /\ DOMAIN covered' = DOMAIN covered \cup {image[b][1]}
           /\ covered'[image[b][1]] = Seal
           /\ covered'[Backup(b)] = Content(b)
           /\ \A e \in DOMAIN covered \ {image[b][1], Backup(b)} : covered'[e] = covered[e]
           /\ \A c \in listed : c # b => Backup(c) # Backup(b)
           /\ \A c \in listed : Backup(c) # image[b][1]
<1>1. b \in listed /\ listed \subseteq Paths /\ b \in Paths
  BY DEF TypeOK
<1>2. image[b] \in Seq(Entries)
  BY <1>1, ImageAssumption DEF TypeOK
<1>3. image[b][1] \in Entries
  BY <1>2
<1>4. \A c \in listed : c # b => Backup(c) # Backup(b)
  BY DEF Backup, SwappedBinaryPathInsideContainer
<1>5. \A c \in listed : Backup(c) # image[b][1]
  BY <1>1, <1>3, BackupAssumption DEF Executables
<1>6. Backup(b) \in DOMAIN covered
  BY <1>1 DEF TypeOK
<1> QED
  BY <1>1, <1>3, <1>4, <1>5, <1>6 DEF performOverMounts

LEMMA RunHookInv ==
    ASSUME Inv, NEW b \in pending, RunHook(b)
    PROVE  Inv'
<1> USE DEF Inv
<1>1. image[b] # <<>> /\ performOverMounts(b) /\ pending' = pending \ {b}
      /\ phase = "hooks" /\ UNCHANGED <<image, listed, grants, phase, proc>>
  BY DEF RunHook
<1> DEFINE first == image[b][1]
<1>2. b \in listed /\ b \in Paths /\ listed \subseteq Paths /\ pending \subseteq listed
  BY DEF TypeOK
<1>3. /\ first \in Entries
      /\ DOMAIN covered' = DOMAIN covered \cup {first}
      /\ covered'[first] = Seal
      /\ covered'[Backup(b)] = Content(b)
      /\ \A e \in DOMAIN covered \ {first, Backup(b)} : covered'[e] = covered[e]
      /\ \A c \in listed : c # b => Backup(c) # Backup(b)
      /\ \A c \in listed : Backup(c) # first
  BY <1>1, OverMountFacts
<1>4. Content(b) \in Entries \cup {Seal, Empty}
  BY <1>1, <1>2, ContentFacts
<1>5. \A c : Unaliased(c)' <=> Unaliased(c)
  BY <1>1, UnaliasedKept
<1>6. \A c : Original(c)' = Original(c)
  BY <1>1, UnaliasedKept
<1>7. TypeOK'
  <2>1. {Backup(c) : c \in listed} \subseteq DOMAIN covered'
    BY <1>3 DEF TypeOK
  <2>2. DOMAIN covered' \subseteq Entries \cup {Backup(c) : c \in listed}
    BY <1>3 DEF TypeOK
  <2>3. \A e \in DOMAIN covered' : covered'[e] \in Entries \cup {Seal, Empty}
    BY <1>3, <1>4 DEF TypeOK
  <2> QED
    BY <1>1, <2>1, <2>2, <2>3 DEF TypeOK, Backup, SwappedBinaryPathInsideContainer
<1>8. HookInv'
  <2>1. \A c \in listed \ pending' : image[c] # <<>> /\ image[c][1] \in DOMAIN covered'
    BY <1>1, <1>3 DEF HookInv
  <2>2. ASSUME NEW e \in DOMAIN covered' \cap Entries
        PROVE  covered'[e] = Seal /\ \E c \in listed \ pending' : e = image[c][1]
    <3>1. CASE e = first
      BY <3>1, <1>1, <1>2, <1>3
    <3>2. CASE e # first
      <4>1. e \in DOMAIN covered \cap Entries /\ e # Backup(b)
        BY <3>2, <1>2, <1>3, BackupAssumption DEF Executables
      <4>2. covered'[e] = covered[e]
        BY <3>2, <4>1, <1>3
      <4> QED
        BY <4>1, <4>2, <1>1 DEF HookInv
    <3> QED
      BY <3>1, <3>2
  <2>3. ASSUME NEW c \in listed \ pending', Unaliased(c)
        PROVE  covered'[Backup(c)] = Original(c)
    <3>1. CASE c = b
      BY <3>1, <2>3, <1>1, <1>3, PendingContent
    <3>2. CASE c # b
      <4>1. c \in listed \ pending /\ Backup(c) \in DOMAIN covered
        BY <3>2, <1>1 DEF TypeOK
      <4>2. covered'[Backup(c)] = covered[Backup(c)]
        BY <3>2, <4>1, <1>3
      <4> QED
        BY <4>1, <4>2, <2>3 DEF HookInv
    <3> QED
      BY <3>1, <3>2
  <2>4. \A c : Backup(c)' = Backup(c)
    BY DEF Backup, SwappedBinaryPathInsideContainer
  <2> QED
    BY <1>1, <1>5, <1>6, <2>1, <2>2, <2>3, <2>4 DEF HookInv
<1>9. Idle'
  BY <1>1 DEF ProcessInv, StartInv, FirstProgram, Idle
<1>10. ProcessInv'
  BY <1>7, <1>9, FirstProgramInv, PTL
<1> QED
  BY <1>7, <1>8, <1>10

(* A hook that fails after its first mount. *)
LEMMA HookFailsInv ==
    ASSUME Inv, NEW b \in pending, HookFails(b)
    PROVE  Inv'
<1> USE DEF Inv
<1>1. /\ phase = "hooks" /\ phase' = "aborted"
      /\ UNCHANGED <<image, listed, grants, pending, proc>>
  BY DEF HookFails
<1>2. b \in listed /\ b \in Paths /\ listed \subseteq Paths
  BY DEF TypeOK
<1>3. (\A c : Unaliased(c)' <=> Unaliased(c)) /\ \A c : Original(c)' = Original(c)
  BY <1>1, UnaliasedKept
<1>4. \A c : Backup(c)' = Backup(c)
  BY DEF Backup, SwappedBinaryPathInsideContainer
<1>5. /\ DOMAIN covered' = DOMAIN covered
      /\ \A e \in DOMAIN covered : e # Backup(b) => covered'[e] = covered[e]
      /\ covered'[Backup(b)] \in Entries \cup {Seal, Empty}
  <2>1. Backup(b) \in DOMAIN covered
    BY <1>2 DEF TypeOK
  <2>2. CASE UNCHANGED covered
    BY <2>1, <2>2 DEF TypeOK
  <2>3. CASE image[b] # <<>> /\ covered' = [covered EXCEPT ![Backup(b)] = Content(b)]
    <3>1. Content(b) \in Entries \cup {Seal, Empty}
      BY <1>2, <2>3, ContentFacts
    <3> QED
      BY <2>1, <2>3, <3>1
  <2> QED
    BY <2>2, <2>3 DEF HookFails
<1>6. TypeOK'
  BY <1>1, <1>4, <1>5 DEF TypeOK
<1>7. HookInv'
  <2>1. \A e \in DOMAIN covered \cap Entries : covered'[e] = covered[e]
    BY <1>2, <1>5, BackupAssumption DEF Executables
  <2>2. \A c \in listed \ pending : covered'[Backup(c)] = covered[Backup(c)]
    <3> TAKE c \in listed \ pending
    <3>1. Backup(c) # Backup(b) /\ Backup(c) \in DOMAIN covered
      BY DEF Backup, SwappedBinaryPathInsideContainer, TypeOK
    <3> QED
      BY <1>5, <3>1
  <2> QED
    BY <1>1, <1>3, <1>4, <1>5, <2>1, <2>2 DEF HookInv
<1>8. Idle'
  BY <1>1 DEF ProcessInv, StartInv, FirstProgram, Idle
<1>9. ProcessInv'
  BY <1>6, <1>8, FirstProgramInv, PTL
<1> QED
  BY <1>6, <1>7, <1>9

(* All hooks ran and the container starts. *)
LEMMA StartsInv ==
    ASSUME Inv, Start
    PROVE  Inv'
<1> USE DEF Inv
<1>1. /\ UNCHANGED <<image, listed, grants, pending, covered, proc>>
      /\ phase = "hooks" /\ phase' = "started" /\ pending = {}
  BY DEF Start
<1>2. (\A c : Unaliased(c)' <=> Unaliased(c)) /\ \A c : Original(c)' = Original(c)
  BY <1>1, UnaliasedKept
<1>3. \A c : Backup(c)' = Backup(c)
  BY DEF Backup, SwappedBinaryPathInsideContainer
<1>4. TypeOK' /\ HookInv'
  BY <1>1, <1>2, <1>3 DEF TypeOK, HookInv
<1>5. Idle'
  BY <1>1 DEF ProcessInv, StartInv, FirstProgram, Idle
<1>6. ProcessInv'
  BY <1>4, <1>5, FirstProgramInv, PTL
<1> QED
  BY <1>4, <1>6

-----------------------------------------------------------------------------
(* The process. *)

(* A step of the process changes nothing else, and is taken only once the   *)
(* container has started.                                                   *)
LEMMA ProcessStep ==
    ASSUME Inv, phase = "started", proc' \in Processes,
           UNCHANGED <<image, listed, grants, phase, pending, covered>>
    PROVE  /\ TypeOK' /\ HookInv' /\ StartInv' /\ pending = {}
           /\ \A c : Unaliased(c)' <=> Unaliased(c)
           /\ \A c : Original(c)' = Original(c)
           /\ \A c : FileAt(c)' = FileAt(c)
           /\ \A g, c : Ruleset(g, c)' = Ruleset(g, c)
           /\ \A c : ProfilesIn(c)' = ProfilesIn(c)
           /\ \A c : Backup(c)' = Backup(c)
<1> USE DEF Inv
<1>1. (\A c : Unaliased(c)' <=> Unaliased(c)) /\ \A c : Original(c)' = Original(c)
  BY UnaliasedKept
<1>2. \A c : Backup(c)' = Backup(c)
  BY DEF Backup, SwappedBinaryPathInsideContainer
<1>3. TypeOK'
  BY <1>2 DEF TypeOK
<1>4. HookInv' /\ pending = {}
  BY <1>1, <1>2 DEF HookInv
<1>5. \A c : FileAt(c)' = FileAt(c)
  BY DEF FileAt, Content, Original
<1>6. \A g, c : Ruleset(g, c)' = Ruleset(g, c)
  BY <1>5 DEF Ruleset, processPaths, RulesForBinaryToRun
<1>7. \A c : ProfilesIn(c)' = ProfilesIn(c)
  BY DEF ProfilesIn
<1>8. StartInv'
  BY DEF StartInv
<1> QED
  BY <1>1, <1>2, <1>3, <1>4, <1>5, <1>6, <1>7, <1>8

LEMMA SealRuns ==
    ASSUME Inv, proc.stage # "program"
    PROVE  phase = "started"
BY DEF Inv, ProcessInv, StartInv, FirstProgram

LEMMA ExecuteInv ==
    ASSUME Inv, NEW p \in Executables, NEW how \in Invocations, Execute(p, how)
    PROVE  Inv'
<1>1. /\ phase = "started" /\ proc.stage = "program" /\ MayUse(proc.layers, p)
      /\ UNCHANGED <<image, listed, grants, phase, pending, covered>>
  BY DEF Execute
<1>2. PICK name \in Argv0(p, how), env \in {NoPath} \cup OwnFiles, file \in FileAt(p) :
          proc' = [FirstProgram EXCEPT
               !.stage = Loaded(file), !.runs = file, !.via = p, !.argv0 = name,
               !.env = env, !.layers = proc.layers, !.depth = proc.depth,
               !.parent = proc.layers, !.straight = (name = p /\ env = NoPath)]
  BY DEF Execute
<1> DEFINE stage == Loaded(file)
<1> DEFINE straight == (name = p /\ env = NoPath)
<1>3. TypeOK /\ HookInv /\ proc \in Processes
  BY DEF Inv, TypeOK
<1>4. /\ stage \in {"program", "parse"}
      /\ stage = "program" => file # Seal
      /\ straight \in BOOLEAN /\ (straight => name = p /\ env = NoPath)
  BY DEF Loaded
<1>5. file \in Files /\ FileAt(p) = {file}
  BY <1>3, OneFile DEF Files
<1>6. name \in Executables \cup {BareName, SealName, NoPath}
  <2>1. how = "path" \/ how = "name" \/ how = "any"
    BY InvocationAssumption
  <2> QED
    BY <2>1 DEF Argv0
<1> HIDE DEF stage, straight
<1>7. /\ proc' = [FirstProgram EXCEPT
               !.stage = stage, !.runs = file, !.via = p, !.argv0 = name,
               !.env = env, !.layers = proc.layers, !.depth = proc.depth,
               !.parent = proc.layers, !.straight = straight]
  BY <1>2 DEF stage, straight
<1>8. /\ proc' \in Processes
      /\ proc'.stage = stage /\ proc'.argv0 = name /\ proc'.via = p /\ proc'.env = env
      /\ proc'.binary = NoPath
      /\ proc'.parent = proc.layers /\ proc'.layers = proc.layers
      /\ proc'.depth = proc.depth /\ proc'.straight = straight
  BY <1>3, <1>4, <1>5, <1>6, <1>7 DEF FirstProgram, Processes
<1>9. /\ TypeOK' /\ HookInv' /\ StartInv'
      /\ \A c : FileAt(c)' = FileAt(c)
  BY <1>1, <1>8, ProcessStep
<1>10. ConfigInv' /\ StraightInv'
  BY <1>4, <1>8 DEF ConfigInv, StraightInv
<1>11. LayerInv'
  BY <1>4, <1>8 DEF Inv, ProcessInv, LayerInv
<1>12. RunsUnderItsProfile'
  <2>1. NoPath \notin listed
    BY <1>3, NameAssumption DEF TypeOK, Executables
  <2>2. proc'.stage = "program" => Seal \notin FileAt(proc.via)'
    BY <1>4, <1>5, <1>8, <1>9
  <2> QED
    BY <1>1, <1>8, <2>1, <2>2 DEF RunsUnderItsProfile
<1>13. ListedBinaryStarts'
  BY <1>4, <1>8 DEF ListedBinaryStarts
<1> QED
  BY <1>9, <1>10, <1>11, <1>12, <1>13 DEF Inv, ProcessInv

(* Giving up is no surprise when a reason for it is. *)
LEMMA FailsInv ==
    ASSUME Inv, Fails, proc.stage # "program",
           UNCHANGED <<image, listed, grants, phase, pending, covered>>,
           /\ proc.parent = {} /\ proc.via \in listed /\ proc.straight
           => ~Unaliased(proc.via) \/ proc.via \in SealNames
    PROVE  Inv'
<1>1. phase = "started" /\ proc \in Processes
  BY SealRuns DEF Inv, TypeOK
<1>2. /\ proc' \in Processes
      /\ proc'.stage = "failed" /\ proc'.via = proc.via
      /\ proc'.parent = proc.parent /\ proc'.layers = proc.layers
      /\ proc'.depth = proc.depth /\ proc'.straight = proc.straight
  BY <1>1 DEF Processes, Fails
<1>3. TypeOK' /\ HookInv' /\ StartInv' /\ (\A c : Unaliased(c)' <=> Unaliased(c))
  BY <1>1, <1>2, ProcessStep
<1>4. ConfigInv' /\ StraightInv' /\ RunsUnderItsProfile'
  BY <1>2 DEF ConfigInv, StraightInv, RunsUnderItsProfile
<1>5. LayerInv'
  BY <1>2 DEF Inv, ProcessInv, LayerInv
<1>6. ListedBinaryStarts'
  BY <1>2, <1>3 DEF ListedBinaryStarts
<1> QED
  BY <1>3, <1>4, <1>5, <1>6 DEF Inv, ProcessInv

LEMMA ParseFlagsInv ==
    ASSUME Inv, ParseFlags
    PROVE  Inv'
<1>1. /\ phase = "started" /\ proc.stage = "parse"
      /\ UNCHANGED <<image, listed, grants, phase, pending, covered>>
  BY SealRuns DEF ParseFlags
<1>2. /\ proc \in Processes
      /\ proc.straight => /\ proc.argv0 = proc.via /\ proc.env = NoPath
                          /\ proc.via \in Executables
  BY <1>1 DEF Inv, TypeOK, ProcessInv, StraightInv
<1>3. ASSUME NEW binary \in Executables \cup {NoPath}, NEW target, NEW file, NEW profile,
             proc' \in Processes,
             proc'.stage = "profile", proc'.binary = binary, proc'.target = target,
             proc'.file = file, proc'.via = proc.via, proc'.straight = proc.straight,
             proc'.parent = proc.parent, proc'.layers = proc.layers,
             proc'.depth = proc.depth,
             (target = Backup(binary) /\ file # NoPath) \/ target = binary,
             proc.straight =>
                 \/ /\ binary = proc.via /\ target = Backup(proc.via)
                    /\ file = ProfileFile /\ proc.via \in Executables \ SealNames
                 \/ target = binary /\ proc.via \in SealNames
      PROVE  Inv'
  <2>1. /\ TypeOK' /\ HookInv' /\ StartInv' /\ (\A c : Unaliased(c)' <=> Unaliased(c))
        /\ \A c : Backup(c)' = Backup(c)
    BY <1>1, <1>3, ProcessStep
  <2>2. ConfigInv' /\ StraightInv'
    BY <1>3, <2>1 DEF ConfigInv, StraightInv
  <2>3. LayerInv'
    BY <1>1, <1>3, <2>1 DEF Inv, ProcessInv, LayerInv
  <2>4. RunsUnderItsProfile' /\ ListedBinaryStarts'
    BY <1>3 DEF RunsUnderItsProfile, ListedBinaryStarts
  <2> QED
    BY <2>1, <2>2, <2>3, <2>4 DEF Inv, ProcessInv
<1>4. ASSUME proc.argv0 \in SealNames, nativeMode PROVE Inv'
  <2>1. proc.straight => proc.via \in SealNames
    BY <1>2, <1>4
  <2>2. CASE Fails
    BY <1>1, <2>1, <2>2, FailsInv
  <2>3. ASSUME NEW binary \in Executables \cup {NoPath}, NEW flags \in GrantSets \cup {{}},
               proc' = [proc EXCEPT !.stage = "profile", !.binary = binary,
                            !.target = binary, !.file = proc.env, !.profile = flags]
        PROVE  Inv'
    <3>1. /\ proc' \in Processes
          /\ proc'.stage = "profile" /\ proc'.binary = binary /\ proc'.target = binary
          /\ proc'.file = proc.env /\ proc'.via = proc.via
          /\ proc'.straight = proc.straight
          /\ proc'.parent = proc.parent /\ proc'.layers = proc.layers
          /\ proc'.depth = proc.depth
      BY <1>2, <2>3 DEF Processes, ProfileFiles
    <3> QED
      BY <2>1, <3>1, <1>3
  <2> QED
    BY <1>4, <2>2, <2>3 DEF nativeMode
<1>5. ASSUME proc.argv0 \notin SealNames, NEW binary \in Abs(proc.argv0),
             wrapperMoode(binary)
      PROVE  Inv'
  <2> DEFINE file == IF proc.env = NoPath THEN ProfileFile ELSE proc.env
  <2>1. proc.argv0 \in Executables \cup {BareName, NoPath}
    BY <1>2, <1>5, NameAssumption DEF Processes
  <2>2. binary \in Executables \cup {NoPath}
    BY <1>5, <2>1 DEF Abs
  <2>3. file \in ProfileFiles /\ file # NoPath /\ (proc.env = NoPath => file = ProfileFile)
    BY <1>2, NameAssumption DEF Processes, ProfileFiles
  <2> HIDE DEF file
  <2>4. proc' = [proc EXCEPT !.stage = "profile", !.binary = binary,
                     !.target = Backup(binary), !.file = file]
    BY <1>5 DEF wrapperMoode, file
  <2>5. /\ proc' \in Processes
        /\ proc'.stage = "profile" /\ proc'.binary = binary /\ proc'.target = Backup(binary)
        /\ proc'.file = file /\ proc'.via = proc.via
        /\ proc'.straight = proc.straight
        /\ proc'.parent = proc.parent /\ proc'.layers = proc.layers
        /\ proc'.depth = proc.depth
    BY <1>2, <2>2, <2>3, <2>4 DEF Processes
  <2>6. proc.straight => /\ binary = proc.via /\ file = ProfileFile
                         /\ proc.via \in Executables \ SealNames
    BY <1>2, <1>5, <2>3, NameAssumption DEF Abs
  <2> QED
    BY <1>3, <2>2, <2>3, <2>5, <2>6
<1> QED
  BY <1>4, <1>5 DEF ParseFlags

LEMMA BuildProfileInv ==
    ASSUME Inv, BuildProfile
    PROVE  Inv'
<1>1. /\ phase = "started" /\ proc.stage = "profile"
      /\ UNCHANGED <<image, listed, grants, phase, pending, covered>>
  BY SealRuns DEF BuildProfile
<1>2. /\ TypeOK /\ proc \in Processes
      /\ \/ proc.target = Backup(proc.binary) /\ proc.file # NoPath
         \/ proc.target = proc.binary
      /\ proc.straight =>
             \/ /\ proc.binary = proc.via /\ proc.target = Backup(proc.via)
                /\ proc.file = ProfileFile /\ proc.via \in Executables \ SealNames
             \/ proc.target = proc.binary /\ proc.via \in SealNames
  BY <1>1 DEF Inv, TypeOK, ProcessInv, ConfigInv, StraightInv
<1>3. ASSUME NEW profile \in GrantSets \cup {{}},
             proc.file # NoPath => profile = ProfilesIn(proc.file)[proc.binary],
             proc' = [proc EXCEPT !.stage = "restrict", !.profile = profile]
      PROVE  Inv'
  <2>1. /\ proc' \in Processes
        /\ proc'.stage = "restrict" /\ proc'.binary = proc.binary
        /\ proc'.target = proc.target /\ proc'.file = proc.file
        /\ proc'.profile = profile /\ proc'.via = proc.via
        /\ proc'.parent = proc.parent /\ proc'.layers = proc.layers
        /\ proc'.depth = proc.depth /\ proc'.straight = proc.straight
    BY <1>2, <1>3 DEF Processes
  <2>2. /\ TypeOK' /\ HookInv' /\ StartInv' /\ (\A c : Unaliased(c)' <=> Unaliased(c))
        /\ \A c : Backup(c)' = Backup(c)
        /\ \A c : ProfilesIn(c)' = ProfilesIn(c)
    BY <1>1, <2>1, ProcessStep
  <2>3. ConfigInv'
    BY <1>2, <1>3, <2>1, <2>2 DEF ConfigInv
  <2>4. StraightInv'
    BY <1>2, <2>1, <2>2 DEF StraightInv
  <2>5. LayerInv'
    BY <1>1, <2>1, <2>2 DEF Inv, ProcessInv, LayerInv
  <2>6. RunsUnderItsProfile' /\ ListedBinaryStarts'
    BY <2>1 DEF RunsUnderItsProfile, ListedBinaryStarts
  <2> QED
    BY <2>2, <2>3, <2>4, <2>5, <2>6 DEF Inv, ProcessInv
<1>4. CASE proc.file = NoPath /\ proc' = [proc EXCEPT !.stage = "restrict"]
  <2>1. proc.profile \in GrantSets \cup {{}}
    BY <1>2 DEF Processes
  <2>2. proc' = [proc EXCEPT !.stage = "restrict", !.profile = proc.profile]
    BY <1>2, <1>4 DEF Processes
  <2> QED
    BY <1>3, <1>4, <2>1, <2>2
<1>5. CASE /\ proc.file # NoPath /\ proc.binary \in DOMAIN ProfilesIn(proc.file)
           /\ proc' = [proc EXCEPT !.stage = "restrict",
                                   !.profile = ProfilesIn(proc.file)[proc.binary]]
  <2>1. ProfilesIn(proc.file)[proc.binary] \in GrantSets
    <3>1. CASE proc.file = ProfileFile
      BY <1>2, <1>5, <3>1 DEF ProfilesIn, TypeOK
    <3>2. CASE proc.file # ProfileFile
      <4>1. proc.file \in OwnFiles
        BY <1>2, <1>5, <3>2 DEF Processes, ProfileFiles
      <4>2. OwnRules[proc.file] \in UNION {[B -> GrantSets] : B \in SUBSET Executables}
        BY <4>1, OwnAssumption
      <4>3. PICK B \in SUBSET Executables : OwnRules[proc.file] \in [B -> GrantSets]
        BY <4>2
      <4> QED
        BY <1>5, <3>2, <4>3 DEF ProfilesIn
    <3> QED
      BY <3>1, <3>2
  <2> QED
    BY <1>3, <1>5, <2>1
<1>6. CASE /\ MayUse(proc.layers, proc.file) =>
                  proc.binary \notin DOMAIN ProfilesIn(proc.file)
           /\ Fails
  <2>1. ASSUME proc.parent = {}, proc.via \in listed, proc.straight,
               Unaliased(proc.via), proc.via \notin SealNames
        PROVE  FALSE
    <3>1. proc.layers = {}
      BY <2>1, <1>1 DEF Inv, ProcessInv, LayerInv
    <3>2. proc.file = ProfileFile /\ proc.binary \in listed
      BY <2>1, <1>2
    <3>3. proc.binary \in DOMAIN ProfilesIn(proc.file)
      BY <1>2, <3>2 DEF ProfilesIn, TypeOK
    <3> QED
      BY <1>2, <1>6, <3>1, <3>2, <3>3, NoLayerAllowsProfile
  <2> QED
    BY <2>1, <1>1, <1>6, FailsInv
<1> QED
  BY <1>4, <1>5, <1>6 DEF BuildProfile

LEMMA RestrictInv ==
    ASSUME Inv, Restrict
    PROVE  Inv'
<1> DEFINE new == Ruleset(proc.profile, proc.target)
<1>1. /\ phase = "started" /\ proc.stage = "restrict"
      /\ UNCHANGED <<image, listed, grants, phase, pending, covered>>
  BY SealRuns DEF Restrict
<1>2. /\ proc \in Processes
      /\ \/ proc.target = Backup(proc.binary) /\ proc.file # NoPath
         \/ proc.target = proc.binary
      /\ proc.file # NoPath => proc.profile = ProfilesIn(proc.file)[proc.binary]
      /\ proc.straight =>
             \/ /\ proc.binary = proc.via /\ proc.target = Backup(proc.via)
                /\ proc.file = ProfileFile /\ proc.via \in Executables \ SealNames
             \/ proc.target = proc.binary /\ proc.via \in SealNames
  BY <1>1 DEF Inv, TypeOK, ProcessInv, ConfigInv, StraightInv
<1>3. new \in SUBSET Files
  BY RulesetType DEF Inv
<1>4. ASSUME proc.depth < MaxLayers, Stack
      PROVE  Inv'
  <2>1. proc' = [proc EXCEPT !.stage = "exec", !.depth = proc.depth + 1,
                             !.layers = proc.layers \cup {new}]
    BY <1>4 DEF Stack, NewRuleset
  <2> HIDE DEF new
  <2>2. proc.depth + 1 \in 0..MaxLayers /\ proc.layers \cup {new} \in SUBSET SUBSET Files
    BY <1>2, <1>3, <1>4, LayersAssumption DEF Processes
  <2>3. /\ proc' \in Processes
        /\ proc'.stage = "exec" /\ proc'.binary = proc.binary
        /\ proc'.target = proc.target /\ proc'.file = proc.file
        /\ proc'.profile = proc.profile /\ proc'.via = proc.via
        /\ proc'.parent = proc.parent /\ proc'.layers = proc.layers \cup {new}
        /\ proc'.straight = proc.straight
    BY <1>2, <2>1, <2>2 DEF Processes
  <2>4. /\ TypeOK' /\ HookInv' /\ StartInv' /\ (\A c : Unaliased(c)' <=> Unaliased(c))
        /\ \A c : Backup(c)' = Backup(c)
        /\ \A g, c : Ruleset(g, c)' = Ruleset(g, c)
        /\ \A c : ProfilesIn(c)' = ProfilesIn(c)
    BY <1>1, <2>3, ProcessStep
  <2>5. Ruleset(proc.profile, proc.target)' = new
    BY <2>3, <2>4 DEF new
  <2>6. ConfigInv'
    BY <1>2, <2>3, <2>4, <2>5 DEF ConfigInv
  <2>7. StraightInv'
    BY <1>2, <2>3, <2>4 DEF StraightInv
  <2>8. LayerInv'
    BY <1>1, <2>3, <2>4, <2>5 DEF Inv, ProcessInv, LayerInv
  <2>9. RunsUnderItsProfile' /\ ListedBinaryStarts'
    BY <2>3 DEF RunsUnderItsProfile, ListedBinaryStarts
  <2> QED
    BY <2>4, <2>6, <2>7, <2>8, <2>9 DEF Inv, ProcessInv
<1>5. ASSUME proc.depth = MaxLayers, Fails
      PROVE  Inv'
  <2>1. ASSUME proc.parent = {}, proc.via \in listed, proc.straight,
               Unaliased(proc.via), proc.via \notin SealNames
        PROVE  FALSE
    <3>1. proc.layers = {} /\ proc.depth = 0
      BY <2>1, <1>1 DEF Inv, ProcessInv, LayerInv
    <3> QED
      BY <3>1, <1>5, LayersAssumption
  <2> QED
    BY <2>1, <1>1, <1>5, FailsInv
<1> QED
  BY <1>4, <1>5 DEF Restrict

LEMMA ExecInv ==
    ASSUME Inv, Exec
    PROVE  Inv'
<1>1. /\ phase = "started" /\ proc.stage = "exec"
      /\ UNCHANGED <<image, listed, grants, phase, pending, covered>>
  BY SealRuns DEF Exec
<1>2. /\ TypeOK /\ HookInv /\ proc \in Processes /\ pending = {}
      /\ \/ proc.target = Backup(proc.binary) /\ proc.file # NoPath
         \/ proc.target = proc.binary
      /\ proc.file # NoPath => proc.profile = ProfilesIn(proc.file)[proc.binary]
      /\ Ruleset(proc.profile, proc.target) \in proc.layers
      /\ proc.straight =>
             \/ /\ proc.binary = proc.via /\ proc.target = Backup(proc.via)
                /\ proc.file = ProfileFile /\ proc.via \in Executables \ SealNames
             \/ proc.target = proc.binary /\ proc.via \in SealNames
      /\ proc.parent \subseteq proc.layers
  BY <1>1 DEF Inv, TypeOK, HookInv, ProcessInv, ConfigInv, StraightInv, LayerInv
<1>3. /\ proc.binary \in Executables \cup {NoPath}
      /\ Backup(proc.binary) # proc.binary
      /\ NoPath \notin listed /\ NoPath \notin Executables
  BY <1>2, BackupAssumption, NameAssumption DEF Processes, TypeOK, Executables
<1>4. \A f, g \in FileAt(proc.target) : f = g
  BY <1>2, <1>3, OneFile
<1>5. FileAt(proc.target) \subseteq Files
  BY <1>2, <1>3, OneFile DEF Files
<1>6. ASSUME NEW file \in FileAt(proc.target), proc.target = Backup(proc.binary),
             proc' = [proc EXCEPT !.stage = Loaded(file), !.runs = file,
                                  !.argv0 = proc.binary, !.env = NoPath]
      PROVE  Inv'
  <2> DEFINE stage == Loaded(file)
  <2>1. stage \in {"parse", "program"} /\ (stage = "parse" <=> file = Seal)
    BY DEF Loaded
  <2>2. proc.binary \in listed /\ file = covered[Backup(proc.binary)]
    BY <1>2, <1>3, <1>6, BackupFile
  <2>3. Unaliased(proc.binary) => file = Original(proc.binary) /\ file # Seal
    <3>1. image[proc.binary] # <<>> /\ proc.binary \in Paths
      BY <1>2, <2>2 DEF HookInv, TypeOK
    <3>2. Original(proc.binary) \in Entries
      BY <3>1, <1>2, ContentFacts
    <3>3. Unaliased(proc.binary) => file = Original(proc.binary)
      BY <1>2, <2>2 DEF HookInv
    <3> QED
      BY <3>2, <3>3, NameAssumption
  <2> HIDE DEF stage
  <2>4. proc' = [proc EXCEPT !.stage = stage, !.runs = file,
                             !.argv0 = proc.binary, !.env = NoPath]
    BY <1>6 DEF stage
  <2>5. /\ proc' \in Processes
        /\ proc'.stage = stage /\ proc'.runs = file
        /\ proc'.argv0 = proc.binary /\ proc'.env = NoPath
        /\ proc'.binary = proc.binary /\ proc'.target = proc.target
        /\ proc'.file = proc.file /\ proc'.profile = proc.profile
        /\ proc'.via = proc.via /\ proc'.straight = proc.straight
        /\ proc'.parent = proc.parent /\ proc'.layers = proc.layers
        /\ proc'.depth = proc.depth
    BY <1>2, <1>3, <1>5, <2>1, <2>4 DEF Processes
  <2>6. /\ TypeOK' /\ HookInv' /\ StartInv' /\ (\A c : Unaliased(c)' <=> Unaliased(c))
        /\ \A c : Original(c)' = Original(c)
        /\ \A g, c : Ruleset(g, c)' = Ruleset(g, c)
        /\ \A c : ProfilesIn(c)' = ProfilesIn(c)
        /\ \A c : Backup(c)' = Backup(c)
    BY <1>1, <2>5, ProcessStep
  <2>7. ConfigInv'
    BY <2>1, <2>5 DEF ConfigInv
  <2>8. proc.straight => /\ proc.binary = proc.via /\ proc.file = ProfileFile
                         /\ proc.via \in Executables
    BY <1>2, <1>3, <1>6
  <2>9. StraightInv'
    BY <2>1, <2>5, <2>8 DEF StraightInv
  <2>10. LayerInv'
    BY <2>1, <2>3, <2>5, <2>6, <2>8 DEF Inv, ProcessInv, LayerInv
  <2>11. RunsUnderItsProfile'
    <3>1. Ruleset(proc.profile, proc.target)' \in proc'.layers
      BY <1>2, <2>5, <2>6
    <3>2. proc'.file # NoPath => proc'.profile = (ProfilesIn(proc.file)[proc.binary])'
      BY <1>2, <2>5, <2>6
    <3>3. proc'.binary \in listed' /\ proc'.target = Backup(proc.binary)'
      BY <1>1, <1>6, <2>2, <2>5, <2>6
    <3>4. Unaliased(proc.binary)' => proc'.runs = Original(proc.binary)'
      BY <2>3, <2>5, <2>6
    <3>5. proc'.straight => proc'.binary = proc'.via /\ proc'.file = ProfileFile
      BY <2>5, <2>8
    <3>6. proc'.parent \subseteq proc'.layers
      BY <1>2, <2>5
    <3> QED
      BY <3>1, <3>2, <3>3, <3>4, <3>5, <3>6 DEF RunsUnderItsProfile
  <2>12. ListedBinaryStarts'
    BY <2>1, <2>5 DEF ListedBinaryStarts
  <2> QED
    BY <2>6, <2>7, <2>9, <2>10, <2>11, <2>12 DEF Inv, ProcessInv
<1>7. ASSUME NEW file \in FileAt(proc.target), proc.target = proc.binary,
             proc' = [proc EXCEPT !.stage = Loaded(file), !.runs = file,
                                  !.argv0 = proc.binary, !.env = NoPath,
                                  !.via = proc.target, !.parent = proc.layers,
                                  !.straight = TRUE]
      PROVE  Inv'
  <2> DEFINE stage == Loaded(file)
  <2>1. stage \in {"parse", "program"} /\ (stage = "parse" <=> file = Seal)
    BY DEF Loaded
  <2>2. proc.binary \in Executables
    BY <1>2, <1>3, <1>7, FileFacts
  <2> DEFINE straight == TRUE
  <2>3. straight \in BOOLEAN
    OBVIOUS
  <2>4. proc' = [proc EXCEPT !.stage = stage, !.runs = file,
                             !.argv0 = proc.binary, !.env = NoPath,
                             !.via = proc.target, !.parent = proc.layers,
                             !.straight = straight]
    BY <1>7
  <2> HIDE DEF stage, straight
  <2>5. /\ proc' \in Processes
        /\ proc'.stage = stage /\ proc'.runs = file
        /\ proc'.argv0 = proc.binary /\ proc'.env = NoPath
        /\ proc'.binary = proc.binary /\ proc'.target = proc.target
        /\ proc'.file = proc.file /\ proc'.profile = proc.profile
        /\ proc'.via = proc.binary /\ proc'.straight = straight
        /\ proc'.parent = proc.layers /\ proc'.layers = proc.layers
        /\ proc'.depth = proc.depth
    <3>1. file \in Files
      BY <1>5, <1>7
    <3>2. proc.target \in Executables /\ proc.layers \in SUBSET SUBSET Files
      BY <1>2, <1>7, <2>2 DEF Processes
    <3>3. stage \in {"program", "parse", "profile", "restrict", "exec", "failed"}
      BY <2>1
    <3> DEFINE to == proc.target
               by == proc.binary
               under == proc.layers
    <3>4. proc' = [proc EXCEPT !.stage = stage, !.runs = file,
                               !.argv0 = by, !.env = NoPath, !.via = to,
                               !.parent = under, !.straight = straight]
      BY <2>4
    <3>5. to \in Executables /\ by \in Executables /\ under \in SUBSET SUBSET Files
      BY <2>2, <3>2
    <3>6. to = proc.target /\ by = proc.binary /\ under = proc.layers /\ to = by
      BY <1>7
    <3> HIDE DEF to, by, under
    <3>7. proc \in Processes
      BY <1>2
    <3>8. proc' \in Processes
      BY <3>1, <3>3, <3>4, <3>5, <3>7, <2>3 DEF Processes
    <3>9. /\ proc'.stage = stage /\ proc'.runs = file
          /\ proc'.argv0 = by /\ proc'.env = NoPath
          /\ proc'.binary = proc.binary /\ proc'.target = proc.target
          /\ proc'.file = proc.file /\ proc'.profile = proc.profile
          /\ proc'.via = to /\ proc'.straight = straight
          /\ proc'.parent = under /\ proc'.layers = proc.layers
          /\ proc'.depth = proc.depth
      BY <3>4, <3>7 DEF Processes
    <3> QED
      BY <3>6, <3>8, <3>9
  <2>6. /\ TypeOK' /\ HookInv' /\ StartInv'
        /\ \A c : FileAt(c)' = FileAt(c)
        /\ \A g, c : Ruleset(g, c)' = Ruleset(g, c)
        /\ \A c : ProfilesIn(c)' = ProfilesIn(c)
        /\ \A c : Backup(c)' = Backup(c)
    BY <1>1, <2>5, ProcessStep
  <2>7. ConfigInv' /\ StraightInv'
    BY <2>1, <2>2, <2>5 DEF ConfigInv, StraightInv
  <2>8. LayerInv'
    BY <2>1, <2>5 DEF Inv, ProcessInv, LayerInv
  <2>9. RunsUnderItsProfile'
    <3>1. proc'.stage = "program" => Seal \notin FileAt(proc.via)'
      BY <1>4, <1>7, <2>1, <2>5, <2>6
    <3>2. Ruleset(proc.profile, proc.target)' \in proc'.layers
      BY <1>2, <2>5, <2>6
    <3>3. proc'.file # NoPath => proc'.profile = (ProfilesIn(proc.file)[proc.binary])'
      BY <1>2, <2>5, <2>6
    <3>4. proc'.target # Backup(proc.binary)'
      BY <1>3, <1>7, <2>5, <2>6
    <3>5. proc'.parent \subseteq proc'.layers
      BY <2>5
    <3> QED
      BY <3>1, <3>2, <3>3, <3>4, <3>5 DEF RunsUnderItsProfile
  <2>10. ListedBinaryStarts'
    BY <2>1, <2>5 DEF ListedBinaryStarts
  <2> QED
    BY <2>6, <2>7, <2>8, <2>9, <2>10 DEF Inv, ProcessInv
<1>8. ASSUME ~MayUse(proc.layers, proc.target), Fails
      PROVE  Inv'
  <2>1. ASSUME proc.parent = {}, proc.via \in listed, proc.straight,
               Unaliased(proc.via), proc.via \notin SealNames
        PROVE  FALSE
    <3>1. proc.target = Backup(proc.via) /\ proc.via \in Executables
      BY <2>1, <1>2
    <3>2. proc.layers = {Ruleset(proc.profile, proc.target)}
      BY <2>1, <1>1 DEF Inv, ProcessInv, LayerInv
    <3>3. FileAt(proc.target) # {}
      BY <2>1, <3>1, <1>2, BackupFile
    <3> QED
      BY <3>2, <3>3, <1>8, OwnLayerAllowsBinary
  <2> QED
    BY <2>1, <1>1, <1>8, FailsInv
<1>9. CASE MayUse(proc.layers, proc.target)
  <2>1. PICK file \in FileAt(proc.target), native \in {proc.target = proc.binary} :
            proc' = [proc EXCEPT
                     !.stage = Loaded(file), !.runs = file,
                     !.argv0 = proc.binary, !.env = NoPath,
                     !.via      = IF native THEN proc.target ELSE @,
                     !.parent   = IF native THEN proc.layers ELSE @,
                     !.straight = native \/ @]
    BY <1>9 DEF Exec
  <2>2. CASE proc.target = proc.binary
    <3>1. proc' = [proc EXCEPT !.stage = Loaded(file), !.runs = file,
                                  !.argv0 = proc.binary, !.env = NoPath,
                                  !.via = proc.target, !.parent = proc.layers,
                                  !.straight = TRUE]
      BY <2>1, <2>2
    <3> QED
      BY <1>7, <2>2, <3>1
  <2>3. CASE proc.target # proc.binary
    <3>1. proc' = [proc EXCEPT !.stage = Loaded(file), !.runs = file,
                                  !.argv0 = proc.binary, !.env = NoPath]
      BY <1>2, <2>1, <2>3 DEF Processes
    <3> QED
      BY <1>2, <1>6, <2>3, <3>1
  <2> QED
    BY <2>2, <2>3
<1> QED
  BY <1>8, <1>9 DEF Exec

-----------------------------------------------------------------------------
(* The invariant, and what it says. *)

LEMMA StutterInv ==
    ASSUME Inv, UNCHANGED vars
    PROVE  Inv'
<1>1. UNCHANGED <<image, listed, grants, phase, pending, covered, proc>>
  BY DEF vars
<1>2. (\A c : Unaliased(c)' <=> Unaliased(c)) /\ \A c : Original(c)' = Original(c)
  BY <1>1, UnaliasedKept
<1>3. \A c : Backup(c)' = Backup(c)
  BY DEF Backup, SwappedBinaryPathInsideContainer
<1>4. TypeOK' /\ HookInv'
  BY <1>1, <1>2, <1>3 DEF Inv, TypeOK, HookInv
<1>5. \A c : FileAt(c)' = FileAt(c)
  BY <1>1 DEF FileAt, Content, Original
<1>6. \A g, c : Ruleset(g, c)' = Ruleset(g, c)
  BY <1>5 DEF Ruleset, processPaths, RulesForBinaryToRun
<1>7. \A c : ProfilesIn(c)' = ProfilesIn(c)
  BY <1>1 DEF ProfilesIn
<1>8. StartInv' /\ ConfigInv' /\ StraightInv'
  BY <1>1, <1>3, <1>6, <1>7
  DEF Inv, ProcessInv, StartInv, FirstProgram, ConfigInv, StraightInv
<1>9. LayerInv' /\ ListedBinaryStarts'
  BY <1>1, <1>2, <1>6 DEF Inv, ProcessInv, LayerInv, ListedBinaryStarts
<1>10. RunsUnderItsProfile'
  BY <1>1, <1>2, <1>3, <1>5, <1>6, <1>7 DEF Inv, ProcessInv, RunsUnderItsProfile
<1> QED
  BY <1>4, <1>8, <1>9, <1>10 DEF Inv, ProcessInv

LEMMA NextInv == Inv /\ [Next]_vars => Inv'
<1> SUFFICES ASSUME Inv, [Next]_vars PROVE Inv'
  OBVIOUS
<1>1. ASSUME NEW b \in pending, RunHook(b) PROVE Inv'
  BY <1>1, RunHookInv
<1>2. ASSUME NEW b \in pending, HookFails(b) PROVE Inv'
  BY <1>2, HookFailsInv
<1>3. CASE Start
  BY <1>3, StartsInv
<1>4. CASE ParseFlags
  BY <1>4, ParseFlagsInv
<1>5. CASE BuildProfile
  BY <1>5, BuildProfileInv
<1>6. CASE Restrict
  BY <1>6, RestrictInv
<1>7. CASE Exec
  BY <1>7, ExecInv
<1>8. ASSUME NEW p \in Executables, NEW how \in Invocations, Execute(p, how) PROVE Inv'
  BY <1>8, ExecuteInv
<1>9. CASE UNCHANGED vars
  BY <1>9, StutterInv
<1> QED
  BY <1>1, <1>2, <1>3, <1>4, <1>5, <1>6, <1>7, <1>8, <1>9 DEF Next, Hooks, seal

LEMMA InvAlways == Spec => []Inv
BY InitInv, NextInv, PTL DEF Spec

(* Every reachable state of a container is of the declared types: hooks and *)
(* seal only ever deal with listed binaries, and no process is under more   *)
(* rulesets than Landlock stacks.                                           *)
THEOREM TypeCorrect == Spec => []TypeOK
<1>1. Inv => TypeOK
  BY DEF Inv, ProcessInv
<1> QED
  BY <1>1, InvAlways, PTL

(* For every image and profile and every order of the swap-oci-hook runs,   *)
(* when the container starts each listed binary leads to seal, and its      *)
(* backup to the binary unless another listed path names an entry of its    *)
(* lookup.                                                                  *)
THEOREM SwapIsComplete == Spec => []SwapComplete
<1>1. Inv => SwapComplete
  <2> SUFFICES ASSUME Inv, phase = "started", NEW b \in listed
               PROVE  Content(b) = Seal /\ (Unaliased(b) => covered[Backup(b)] = Original(b))
    BY DEF SwapComplete
  <2>1. TypeOK /\ HookInv /\ b \in listed \ pending
    BY DEF Inv, HookInv
  <2> QED
    BY <2>1, HookedContent DEF HookInv
<1> QED
  BY <1>1, InvAlways, PTL

(* A program that seal started is the binary whose rules it is under, and   *)
(* is under all those of the process that called seal, whatever argv[0] and *)
(* SEAL_PROFILE_PATH made parseFlags and buildProfile look up and whatever  *)
(* chain of seals led there; a covered path never leads to a program in     *)
(* another way; and executed as its own path without another profile file   *)
(* a listed binary gets the rules the container's profile has for it.       *)
THEOREM RunsSealed == Spec => []RunsUnderItsProfile
<1>1. Inv => RunsUnderItsProfile
  BY DEF Inv, ProcessInv
<1> QED
  BY <1>1, InvAlways, PTL

(* Executed by its path from an unrestricted program, a listed binary that  *)
(* is not called seal never fails to start for any grants its profile       *)
(* makes: the rules of RulesForBinaryToRun, room for one ruleset and the    *)
(* readable profile file are enough.                                        *)
THEOREM ListedStarts == Spec => []ListedBinaryStarts
<1>1. Inv => ListedBinaryStarts
  BY DEF Inv, ProcessInv
<1> QED
  BY <1>1, InvAlways, PTL
=============================================================================
