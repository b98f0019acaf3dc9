------------------------------ MODULE Admission ------------------------------
(***************************************************************************)
(* The validating webhook of LandlockProfiles, and what the parts that     *)
(* read an admitted profile later rely on: the rules seal builds from it,  *)
(* the place the hook backs a binary up to, and the controller, whose      *)
(* patch that releases a profile is validated like any other update.       *)
(***************************************************************************)
EXTENDS Paths

CONSTANTS
    Specs,          \* profilesByContainer values users submit
    None,           \* no profile
    BackupDir,      \* PodLockContainerSwappedBinariesDir
    Cwd             \* working directory of a process that runs a binary

VARIABLES
    stored,         \* the spec of the stored profile
    refused         \* the spec that was refused last

admissionVars == <<stored, refused>>

Levels == {"readOnly", "readWrite", "readExec", "readWriteExec"}

(* What the API server lets a user submit: any paths, in any of the lists. *)
ASSUME SpecsAssumption ==
    /\ None \notin Specs
    /\ \A spec \in Specs : \A container \in DOMAIN spec :
           \A binary \in DOMAIN spec[container] :
               binary \in Path /\ spec[container][binary] \in [Levels -> SUBSET Path]
ASSUME DirsAssumption ==
    BackupDir \in Path /\ Straight(BackupDir) /\ Cwd \in Path /\ IsAbs(Cwd)

-----------------------------------------------------------------------------
(* The validator. *)

validateBinaryPath(path) == IsAbs(path) /\ Clean(path) = path

Overlaps_OneMissing ==
    {<<"readOnly", "readWrite">>, <<"readOnly", "readExec">>,
     <<"readOnly", "readWriteExec">>, <<"readWrite", "readWriteExec">>,
     <<"readExec", "readWriteExec">>}
Overlaps_WithItself == Levels \X Levels
Overlaps ==
    {<<"readOnly", "readWrite">>, <<"readOnly", "readExec">>,
     <<"readOnly", "readWriteExec">>, <<"readWrite", "readExec">>,
     <<"readWrite", "readWriteExec">>, <<"readExec", "readWriteExec">>}

validateNoOverlappingPaths(profile) ==
    \A pair \in Overlaps : profile[pair[1]] \cap profile[pair[2]] = {}

validateLevels(profile) ==
    \A level \in Levels : \A path \in profile[level] : validateBinaryPath(path)

(* Containers and binaries are walked in any order; only whether there is   *)
(* an error matters.                                                        *)
validateProfile(spec) ==
    \A container \in DOMAIN spec : \A binary \in DOMAIN spec[container] :
        /\ validateBinaryPath(binary)
        /\ validateNoOverlappingPaths(spec[container][binary])
        /\ validateLevels(spec[container][binary])

ValidateCreate_BinariesOnly(spec) ==
    \A container \in DOMAIN spec : \A binary \in DOMAIN spec[container] :
        validateBinaryPath(binary)
ValidateCreate(spec) == validateProfile(spec)

ValidateUpdate(spec) == validateProfile(spec)

-----------------------------------------------------------------------------
(* Requests. *)

Create(spec) ==
    /\ stored = None /\ ValidateCreate(spec)
    /\ stored' = spec /\ UNCHANGED refused

Update(spec) ==
    /\ stored # None /\ stored # spec /\ ValidateUpdate(spec)
    /\ stored' = spec /\ UNCHANGED refused

Refuse(spec) ==
    /\ IF stored = None THEN ~ValidateCreate(spec) ELSE ~ValidateUpdate(spec)
    /\ refused' = spec /\ UNCHANGED stored

(* The controller's patch changes no spec; it lets a deleted profile go.    *)
Release ==
    /\ stored # None /\ ValidateUpdate(stored)
    /\ stored' = None /\ UNCHANGED refused

AdmissionInit == stored = None /\ refused = None

AdmissionNext ==
    \/ Release
    \/ \E spec \in Specs : Create(spec) \/ Update(spec) \/ Refuse(spec)

-----------------------------------------------------------------------------
(* What readers of a stored profile do with it. *)

(* The access modes of rules.go, as far as files go. *)
AccessFile ==
    [readOnly      |-> {"read"},
     readWrite     |-> {"read", "write"},
     readExec      |-> {"read", "execute"},
     readWriteExec |-> {"read", "write", "execute"}]

(* A rule for a directory holds for all that lies below it, and Landlock    *)
(* grants a file what the rules on the way to it grant together.  The paths *)
(* of the profile exist and have no links on the way.                       *)
ProfileToLandlockRules(profile, path) ==
    UNION {AccessFile[level] : level \in
        {l \in Levels : \E p \in profile[l] : IsPrefix(p.segs, path.segs)}}

SwappedBinaryPathInsideContainer_BaseOnly(path) ==
    Join(BackupDir, RelPath(IF path.segs = <<>> THEN <<>> ELSE <<Last(path.segs)>>))
SwappedBinaryPathInsideContainer(path) == Join(BackupDir, path)

StoredBinaries(container) == DOMAIN stored[container]

-----------------------------------------------------------------------------
(* Properties. *)

(* The rules seal builds give a path the access of the one list that names  *)
(* it and what the lists grant that name a directory above it, which a list *)
(* further down cannot take back, and nothing more: the six comparisons of  *)
(* validateNoOverlappingPaths leave no two lists out whose union would.     *)
GrantedAsListed ==
    stored # None =>
        \A container \in DOMAIN stored : \A binary \in StoredBinaries(container) :
            LET profile == stored[container][binary]
            IN  \A level \in Levels : \A path \in profile[level] :
                    LET above == {l \in Levels : \E dir \in profile[l] :
                                     IsStrictPrefix(dir.segs, path.segs)}
                    IN  ProfileToLandlockRules(profile, path) =
                            AccessFile[level] \cup UNION {AccessFile[l] : l \in above}

(* The backups of a container's binaries are in the directory for them as   *)
(* the binaries are in the root: no listed path climbs out of it with "..", *)
(* and filepath.Join makes two backups one file, or one a directory on the  *)
(* way to another, only where the binaries are that too, which no image can *)
(* have.                                                                    *)
BackupsApart ==
    stored # None =>
        \A container \in DOMAIN stored :
            \A b1, b2 \in StoredBinaries(container) :
                LET s1 == SwappedBinaryPathInsideContainer(b1)
                    s2 == SwappedBinaryPathInsideContainer(b2)
                IN  /\ s1.abs /\ IsPrefix(BackupDir.segs, s1.segs)
                    /\ IsPrefix(s1.segs, s2.segs) <=> IsPrefix(b1.segs, b2.segs)
                    /\ s1 = s2 => b1 = b2

(* Nothing well formed is refused: a spec whose paths are all straight and  *)
(* that gives each path one access level at most is admitted.               *)
WellFormedAdmitted ==
    refused # None =>
        \E container \in DOMAIN refused : \E binary \in DOMAIN refused[container] :
            LET profile == refused[container][binary]
            IN  \/ ~Straight(binary)
                \/ \E level \in Levels : \E path \in profile[level] :
                       \/ ~Straight(path)
                       \/ \E l2 \in Levels \ {level} : path \in profile[l2]

(* ValidateUpdate also judges the patch that takes the finalizer off a      *)
(* deleted profile: what was admitted once is never refused then, so the    *)
(* controller can always let go.                                            *)
ReleaseAccepted == stored # None => ValidateUpdate(stored)
=============================================================================
