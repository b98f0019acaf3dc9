---------------------------- MODULE ContainerExec ----------------------------
(***************************************************************************)
(* Inside one container: the swap-oci-hook runs that put seal in front of  *)
(* the profiled binaries before the container starts, and what happens     *)
(* when a process of the container then executes a path.                   *)
(*                                                                         *)
(* The file system is seen through the lookups of the paths of interest:   *)
(* the directory entries a lookup visits, from the entry the path names    *)
(* over symbolic links to a regular file.  A mount covers one entry, a     *)
(* symbolic link included, and stops the lookup there.                     *)
(*                                                                         *)
(* Shared libraries are left out: the binaries are statically linked, or   *)
(* their loader and libraries are among what the rules grant.              *)
(***************************************************************************)
EXTENDS Integers, Sequences, FiniteSets

CONSTANTS
    Paths,          \* absolute paths that a profile may list or a process run
    Entries,        \* directory entries; the last one of a lookup stands for
                    \* the regular file found there
    Images,         \* container images: the lookup of each path, <<>> if it
                    \* does not exist
    GrantSets,      \* what the rules of the profiles let a process use
    Invocations,    \* how programs fill argv[0]: with the path ("path"), with
                    \* the bare name they looked up in PATH ("name"), or with
                    \* anything ("any")
    Seal, Empty,    \* contents: the seal binary, the reserved empty file
    SealPath,       \* where seal itself is in a container
    ProfileFile,    \* /.podlock/profile.json
    OwnFiles,       \* profile files that a user of seal wrote
    OwnRules,       \* what those say, by binary
    BareName,       \* an argv[0] without directory, other than seal
    SealName,       \* the bare name seal
    SealNames,      \* what ends in seal: the name, SealPath and maybe others
    NoPath,         \* none, or a path that is of no interest
    MaxLayers       \* Landlock: rulesets a process can stack (16 in Linux)

Executables == Paths \cup {SealPath}
ProfileFiles == {ProfileFile} \cup OwnFiles

ASSUME ImageAssumption == Images \subseteq [Paths -> Seq(Entries)]
ASSUME NameAssumption ==
    /\ Seal \notin Entries /\ Empty \notin Entries /\ Seal # Empty
    /\ SealPath \notin Paths
    /\ ProfileFiles \cap (Executables \cup Entries \cup {Seal, Empty, NoPath}) = {}
    /\ ProfileFile \notin OwnFiles
    /\ {NoPath, BareName, SealName} \cap (Executables \cup Entries) = {}
    /\ NoPath # BareName /\ NoPath # SealName /\ BareName # SealName
    /\ SealNames \subseteq Executables \cup {SealName}
    /\ {SealPath, SealName} \subseteq SealNames
ASSUME OwnAssumption ==
    OwnRules \in [OwnFiles -> UNION {[B -> GrantSets] : B \in SUBSET Executables}]
ASSUME InvocationAssumption == Invocations \subseteq {"path", "name", "any"}
ASSUME LayersAssumption == MaxLayers \in Nat \ {0}

VARIABLES
    image,          \* the image of the container
    listed,         \* the binaries the profile of the container lists
    grants,         \* per listed binary, what its rules let a process use
    phase,          \* "hooks", "started" or "aborted"
    pending,        \* listed binaries whose hook has not run
    covered,        \* mounts: what covers an entry or a backup
    proc            \* the process under observation

vars == <<image, listed, grants, phase, pending, covered, proc>>

-----------------------------------------------------------------------------
(* Lookups. *)

SwappedBinaryPathInsideContainer(b) == <<"swapped-binaries", b>>
Backup(b) == SwappedBinaryPathInsideContainer(b)

(* The backups are in a directory that is mounted into the container: no    *)
(* entry of the image, and no path of it.                                   *)
ASSUME BackupAssumption ==
    \A b \in Executables \cup {NoPath} :
        Backup(b) \notin Executables \cup Entries \cup ProfileFiles \cup {NoPath}

Usable == Executables \cup ProfileFiles \cup {Backup(b) : b \in Paths}

Original(p) == image[p][Len(image[p])]

(* The first covered entry ends the lookup. *)
Content(p) ==
    LET hit == {i \in DOMAIN image[p] : image[p][i] \in DOMAIN covered}
    IN  IF hit = {} THEN Original(p)
        ELSE covered[image[p][CHOOSE i \in hit : \A j \in hit : i <= j]]

(* No other listed binary covers an entry that the lookup of b visits. *)
Unaliased(b) ==
    \A c \in listed \ {b} : \A i \in DOMAIN image[b] :
        image[c] # <<>> => image[c][1] # image[b][i]

-----------------------------------------------------------------------------
(* swap-oci-hook, one run per listed binary.  createContainerAdjustment     *)
(* lists the hooks in the random order of a Go map.                         *)

(* open_tree follows links and crosses mounts; move_mount covers the entry  *)
(* the path names, even if it is a link.                                    *)
performOverMounts_SealFirst(b) ==
    covered' = [e \in DOMAIN covered \cup {image[b][1]} |->
        CASE e = Backup(b)   -> Seal
          [] e = image[b][1] -> Seal
          [] OTHER           -> covered[e]]

performOverMounts(b) ==
    covered' = [e \in DOMAIN covered \cup {image[b][1]} |->
        CASE e = Backup(b)   -> Content(b)
          [] e = image[b][1] -> Seal
          [] OTHER           -> covered[e]]

RunHook(b) ==
    /\ phase = "hooks" /\ b \in pending
    /\ image[b] # <<>>
    /\ performOverMounts(b)
    /\ pending' = pending \ {b}
    /\ UNCHANGED <<image, listed, grants, phase, proc>>

(* Any call of the hook can fail, the first move_mount done or not, and a   *)
(* listed binary the image does not have makes one fail.  The container is  *)
(* not created then.                                                        *)
HookFails(b) ==
    /\ phase = "hooks" /\ b \in pending
    /\ phase' = "aborted"
    /\ \/ UNCHANGED covered
       \/ /\ image[b] # <<>>
          /\ covered' = [covered EXCEPT ![Backup(b)] = Content(b)]
    /\ UNCHANGED <<image, listed, grants, pending, proc>>

Start ==
    /\ phase = "hooks" /\ pending = {}
    /\ phase' = "started"
    /\ UNCHANGED <<image, listed, grants, pending, covered, proc>>

-----------------------------------------------------------------------------
(* Processes. *)

RulesForBinaryToRun_None(path) == {}
(* Whatever a profile lists, the binary may be executed. *)
RulesForBinaryToRun(path) == {path}

(* The file that a path leads to, if it leads to one. *)
FileAt(path) ==
    CASE path \in Paths        -> IF image[path] = <<>> THEN {} ELSE {Content(path)}
      [] path = SealPath       -> {Seal}
      [] path \in ProfileFiles -> {path}
      [] OTHER                 -> {covered[e] : e \in DOMAIN covered \cap {path}}

(* A rule is tied to the file its path leads to; what cannot be found gets  *)
(* no rule.                                                                 *)
processPaths(paths) == UNION {FileAt(path) : path \in paths}

(* Rulesets are sets of files; a process may use what all of them grant. *)
Ruleset(profile, path) == processPaths(profile \cup RulesForBinaryToRun(path))

MayUse(layers, path) ==
    /\ FileAt(path) # {}
    /\ \A ruleset \in layers : FileAt(path) \subseteq ruleset

(* A process: what it is (stage), what it runs, the path and argv[0] it was *)
(* executed by, the profile file SEAL_PROFILE_PATH names (env); then seal's *)
(* configuration; its rulesets and those of the program that executed it;   *)
(* and whether that named the executed path in argv[0] and no profile file. *)
FirstProgram ==
    [stage |-> "program", runs |-> Empty, via |-> NoPath, argv0 |-> NoPath, env |-> NoPath,
     binary |-> NoPath, target |-> NoPath, file |-> NoPath, profile |-> {},
     layers |-> {}, depth |-> 0, parent |-> {}, straight |-> FALSE]

Loaded(file) == IF file = Seal THEN "parse" ELSE "program"

Argv0(p, how) ==
    CASE how = "path" -> {p}
      [] how = "name" -> {BareName}
      [] how = "any"  -> Executables \cup {BareName, SealName}

(* A program executes a path it may use.  The kernel follows the lookup;    *)
(* argv[0] and the environment are the program's to choose.                 *)
Execute(p, how) ==
    /\ phase = "started" /\ proc.stage = "program"
    /\ MayUse(proc.layers, p)
    /\ \E name \in Argv0(p, how), env \in {NoPath} \cup OwnFiles, file \in FileAt(p) :
           proc' = [FirstProgram EXCEPT
               !.stage = Loaded(file), !.runs = file, !.via = p, !.argv0 = name,
               !.env = env, !.layers = proc.layers, !.depth = proc.depth,
               !.parent = proc.layers, !.straight = (name = p /\ env = NoPath)]
    /\ UNCHANGED <<image, listed, grants, phase, pending, covered>>

Fails == proc' = [proc EXCEPT !.stage = "failed"]

(* filepath.Abs: a bare name is taken as relative to the working directory, *)
(* where there may be anything of that name.                                *)
Abs(name) ==
    IF name = BareName THEN (Executables \ SealNames) \cup {NoPath} ELSE {name}

(* The binary is the one argv[0] names, the profile that of the container   *)
(* unless the environment names another file.                               *)
wrapperMoode(binary) ==
    proc' = [proc EXCEPT !.stage = "profile", !.binary = binary,
                 !.target = Backup(binary),
                 !.file = IF proc.env = NoPath THEN ProfileFile ELSE proc.env]

(* The command line names the binary, and the profile unless the            *)
(* environment names a file; or it is no good, or says both.                *)
nativeMode ==
    \/ \E binary \in Executables \cup {NoPath},
          flags \in IF proc.env = NoPath THEN GrantSets ELSE {{}} :
           proc' = [proc EXCEPT !.stage = "profile", !.binary = binary,
                        !.target = binary, !.file = proc.env, !.profile = flags]
    \/ Fails

ParseFlags ==
    /\ proc.stage = "parse"
    /\ \/ proc.argv0 \in SealNames /\ nativeMode
       \/ /\ proc.argv0 \notin SealNames
          /\ \E binary \in Abs(proc.argv0) : wrapperMoode(binary)
    /\ UNCHANGED <<image, listed, grants, phase, pending, covered>>

(* What a profile file says. *)
ProfilesIn(file) == IF file = ProfileFile THEN grants ELSE OwnRules[file]

(* buildProfile: the profile file must be readable and list the binary. *)
BuildProfile_FallsBack ==
    /\ proc.stage = "profile"
    /\ \/ proc.file = NoPath /\ proc' = [proc EXCEPT !.stage = "restrict"]
       \/ /\ proc.file # NoPath /\ MayUse(proc.layers, proc.file)
          /\ proc.binary \in DOMAIN ProfilesIn(proc.file)
          /\ proc' = [proc EXCEPT !.stage = "restrict",
                                  !.profile = ProfilesIn(proc.file)[proc.binary]]
       \/ /\ proc.file # NoPath /\ ~MayUse(proc.layers, proc.file)
          /\ proc' = [proc EXCEPT !.stage = "exec"]
       \/ /\ proc.file # NoPath /\ MayUse(proc.layers, proc.file)
          /\ proc.binary \notin DOMAIN ProfilesIn(proc.file)
          /\ Fails
    /\ UNCHANGED <<image, listed, grants, phase, pending, covered>>

BuildProfile ==
    /\ proc.stage = "profile"
    /\ \/ proc.file = NoPath /\ proc' = [proc EXCEPT !.stage = "restrict"]
       \/ /\ proc.file # NoPath /\ MayUse(proc.layers, proc.file)
          /\ proc.binary \in DOMAIN ProfilesIn(proc.file)
          /\ proc' = [proc EXCEPT !.stage = "restrict",
                                  !.profile = ProfilesIn(proc.file)[proc.binary]]
       \/ /\ proc.file # NoPath
          /\ MayUse(proc.layers, proc.file) =>
                 proc.binary \notin DOMAIN ProfilesIn(proc.file)
          /\ Fails
    /\ UNCHANGED <<image, listed, grants, phase, pending, covered>>

(* RestrictPaths stacks one more ruleset, if there is room, even one that   *)
(* the process is under already.                                            *)
NewRuleset == Ruleset(proc.profile, proc.target)
Stack == proc' = [proc EXCEPT !.stage = "exec", !.depth = @ + 1,
                              !.layers = @ \cup {NewRuleset}]

Restrict_Unbounded ==
    /\ proc.stage = "restrict" /\ Stack
    /\ UNCHANGED <<image, listed, grants, phase, pending, covered>>

Restrict_Once ==
    /\ proc.stage = "restrict"
    /\ \/ NewRuleset \in proc.layers /\ proc' = [proc EXCEPT !.stage = "exec"]
       \/ NewRuleset \notin proc.layers /\ proc.depth < MaxLayers /\ Stack
       \/ NewRuleset \notin proc.layers /\ proc.depth = MaxLayers /\ Fails
    /\ UNCHANGED <<image, listed, grants, phase, pending, covered>>

Restrict ==
    /\ proc.stage = "restrict"
    /\ \/ proc.depth < MaxLayers /\ Stack
       \/ proc.depth = MaxLayers /\ Fails
    /\ UNCHANGED <<image, listed, grants, phase, pending, covered>>

(* Exec with the path of the binary as argv[0] and without the variables of *)
(* seal, if every ruleset allows it.  Native mode executes the path that it *)
(* was given, which may lead to seal once more.                             *)
Exec ==
    /\ proc.stage = "exec"
    /\ \/ /\ MayUse(proc.layers, proc.target)
          /\ \E file \in FileAt(proc.target), native \in {proc.target = proc.binary} :
                 proc' = [proc EXCEPT
                     !.stage = Loaded(file), !.runs = file,
                     !.argv0 = proc.binary, !.env = NoPath,
                     !.via      = IF native THEN proc.target ELSE @,
                     !.parent   = IF native THEN proc.layers ELSE @,
                     !.straight = native \/ @]
       \/ ~MayUse(proc.layers, proc.target) /\ Fails
    /\ UNCHANGED <<image, listed, grants, phase, pending, covered>>

-----------------------------------------------------------------------------
(* The first program of the container is not a listed one. *)
Init ==
    /\ image \in Images /\ listed \in SUBSET Paths
    /\ grants \in [listed -> GrantSets]
    /\ phase = "hooks" /\ pending = listed
    /\ covered = [e \in {Backup(b) : b \in listed} |-> Empty]
    /\ proc = FirstProgram

Hooks == Start \/ \E b \in pending : RunHook(b) \/ HookFails(b)
seal  == ParseFlags \/ BuildProfile \/ Restrict \/ Exec
Next  == Hooks \/ seal \/ \E p \in Executables, how \in Invocations : Execute(p, how)

Spec == Init /\ [][Next]_vars

(* Nothing but the scheduler stops seal; programs may run for ever. *)
FairSpec == Spec /\ WF_vars(seal)

-----------------------------------------------------------------------------
(* Properties. *)

Files == Entries \cup {Seal, Empty} \cup ProfileFiles

Processes ==
    [stage : {"program", "parse", "profile", "restrict", "exec", "failed"},
     runs : Files, via : Executables \cup {NoPath},
     argv0 : Executables \cup {BareName, SealName, NoPath}, env : OwnFiles \cup {NoPath},
     binary : Executables \cup {NoPath},
     target : Executables \cup {NoPath}
                  \cup {Backup(path) : path \in Executables \cup {NoPath}},
     file : ProfileFiles \cup {NoPath}, profile : GrantSets \cup {{}},
     layers : SUBSET SUBSET Files, depth : 0..MaxLayers,
     parent : SUBSET SUBSET Files, straight : BOOLEAN]

TypeOK ==
    /\ image \in Images /\ listed \subseteq Paths
    /\ grants \in [listed -> GrantSets]
    /\ phase \in {"hooks", "started", "aborted"} /\ pending \subseteq listed
    /\ {Backup(b) : b \in listed} \subseteq DOMAIN covered
    /\ DOMAIN covered \subseteq Entries \cup {Backup(b) : b \in listed}
    /\ \A e \in DOMAIN covered : covered[e] \in Entries \cup {Seal, Empty}
    /\ proc \in Processes

(* Once the container starts, in whatever order the hooks ran, every listed *)
(* binary is intercepted; and unless two listed paths lead through one      *)
(* entry, its backup is the binary itself.                                  *)
SwapComplete ==
    phase = "started" =>
        \A b \in listed :
            /\ Content(b) = Seal
            /\ Unaliased(b) => covered[Backup(b)] = Original(b)

(* Whatever argv[0] and SEAL_PROFILE_PATH were, executing a path that seal  *)
(* covers ends in a backup and nothing else; a program started by seal is   *)
(* the file of the binary whose rules apply (the original, unless two       *)
(* listed paths lead through one entry) and is under those rules, as the    *)
(* file consulted has them, and all its parent was under; and they are the  *)
(* rules the container's profile has for the path that was executed, when   *)
(* argv[0] named that path and no other file was asked for.                 *)
RunsUnderItsProfile ==
    proc.stage = "program" =>
        /\ Seal \in FileAt(proc.via) =>
               proc.binary \in listed /\ proc.target = Backup(proc.binary)
        /\ proc.binary # NoPath =>
               /\ proc.parent \subseteq proc.layers
               /\ Ruleset(proc.profile, proc.target) \in proc.layers
               /\ proc.file # NoPath =>
                      proc.profile = ProfilesIn(proc.file)[proc.binary]
        /\ proc.binary \in listed /\ proc.target = Backup(proc.binary) =>
               /\ Unaliased(proc.binary) => proc.runs = Original(proc.binary)
               /\ proc.straight => proc.binary = proc.via /\ proc.file = ProfileFile

(* Executed by its path from an unrestricted program, a listed binary does  *)
(* start, even when its profile grants nothing; unless it is itself called  *)
(* seal, which selects native mode.                                         *)
ListedBinaryStarts ==
    /\ proc.stage = "failed" /\ proc.parent = {} /\ proc.via \in listed
    /\ proc.straight
    => ~Unaliased(proc.via) \/ proc.via \in SealNames

(* seal does not run for ever: it becomes a program or gives up, also when  *)
(* a backup leads back to seal.                                             *)
SealEnds == proc.stage \notin {"program", "failed"} ~>
                proc.stage \in {"program", "failed"}

(* "/.podlock/swapped-binaries/...: contains the original curl binary", the *)
(* final state of the example in architecture.adoc.                         *)
BackupHoldsOriginal ==
    phase = "started" => \A b \in listed : covered[Backup(b)] = Original(b)

(* "The seal binary determines which binary was intended to be executed by  *)
(* examining the path it was invoked from" (architecture.adoc).             *)
SealKnowsItsBinary ==
    proc.stage \in {"profile", "restrict", "exec"} /\ proc.via \in listed =>
        proc.binary = proc.via
=============================================================================
