----------------------------- MODULE SealConfig -----------------------------
(***************************************************************************)
(* How seal finds out what to run and under which profile: from its own    *)
(* name and the profile of the container when it stands in the place of    *)
(* another binary, from its flags when it is called as seal, and from the  *)
(* SEAL_ variables of the environment in both cases.  A sealed program may *)
(* call seal again, directly or through another binary it stands for, so   *)
(* what one seal was told must not reach the next.  The profile of the     *)
(* container is the one that Admission stored when the container started.  *)
(***************************************************************************)
EXTENDS Integers, Admission

CONSTANTS
    Handwritten,        \* files SEAL_PROFILE_PATH may name |-> binaries listed
    Container,          \* the container seal runs in
    ContainerProfile,   \* ContainerProfilePathInsideContainer()
    InPath,             \* where PATH has the bare names that are in it
    Links,              \* the symbolic links of the container
    Calls,              \* names and arguments seal is called with
    MaxDepth            \* bound: seals that seal one process

VARIABLES
    stage,              \* "none" before the container starts; then what the
                        \* process runs: "program", "seal", "failed"
    env,                \* its SEAL_ variables
    call,               \* how seal was called, while it runs
    layers              \* history: the calls and configurations in effect

sealVars == <<stage, env, call, layers>>
vars == <<stored, refused, stage, env, call, layers>>

(* SEAL_PROFILE_PATH and SEAL_ADD_LINKED_LIBRARIES. *)
Environment == [profile : DOMAIN Handwritten \cup {None}, ldd : BOOLEAN]
Unset == [profile |-> None, ldd |-> FALSE]

(* Arguments: the separator, flags (one that seal does not have included),  *)
(* and everything else.                                                     *)
Sep == [kind |-> "sep"]
Flag(name) == [kind |-> "flag", name |-> name]
Word(path) == [kind |-> "word", path |-> path]
Argument == [kind : {"sep"}] \cup [kind : {"flag"}, name : STRING]
                \cup [kind : {"word"}, path : Path]

(* exec.LookPath joins a name to a directory of PATH, none of them relative. *)
ASSUME CallsAssumption ==
    /\ \A c \in Calls : c.argv0 \in Path /\ c.args \in Seq(Argument)
    /\ \A name \in DOMAIN InPath : InPath[name] \in Path /\ Straight(InPath[name])

(* A link leads to a place with no links on the way. *)
ASSUME LinksAssumption ==
    /\ DOMAIN Links \subseteq Seq(Part)
    /\ \A from \in DOMAIN Links :
           LET to == Links[from]
           IN  /\ to \in Seq(Part) /\ Straight(AbsPath(to))
               /\ \A n \in 0..Len(to) : SubSeq(to, 1, n) \notin DOMAIN Links

PathFlags == {"ro", "rx", "rw", "rwx"}
Flags == PathFlags \cup {"ldd"}

Configuration ==
    [profilePath : DOMAIN Handwritten \cup {None, ContainerProfile},
     paths : SUBSET PathFlags, ldd : BOOLEAN, binary : Path, binaryToRun : Path]

ASSUME NoneAssumption == None \notin Configuration

-----------------------------------------------------------------------------
(* Native mode. *)

(* The first separator, 0 when there is none. *)
sepIdx(args) == SelectInSeq(args, LAMBDA a : a = Sep)

flagArgs(args) ==
    IF sepIdx(args) = 0 THEN args ELSE SubSeq(args, 1, sepIdx(args) - 1)

Command(args) ==
    IF sepIdx(args) = 0 THEN <<>> ELSE SubSeq(args, sepIdx(args) + 1, Len(args))

(* flag.Parse stops at the first argument that is no flag.                  *)
Parsed(args) ==
    LET stop == SelectInSeq(flagArgs(args), LAMBDA a : a.kind # "flag")
    IN  IF stop = 0 THEN flagArgs(args) ELSE SubSeq(flagArgs(args), 1, stop - 1)

FlagNames(args) == {Parsed(args)[i].name : i \in DOMAIN Parsed(args)}

resolveBinaryPath_BelowCwd(path) == Join(Cwd, path)

(* None when a bare name is not in PATH. *)
resolveBinaryPath(path) ==
    CASE IsName(path) -> IF path \in DOMAIN InPath THEN InPath[path] ELSE None
      [] ~IsName(path) /\ IsLocal(path) -> Abs(Cwd, path)
      [] OTHER -> Clean(path)

Conflicting_Allowed(flags, e) == FALSE

(* Path flags and a profile file exclude each other. *)
Conflicting(flags, e) == flags \cap PathFlags # {} /\ e.profile # None

(* The binary after the separator; None when there is none to be found.     *)
(* A flag or a second separator in its place is a name that PATH lacks.     *)
Binary(args) ==
    IF Command(args) # <<>> /\ Head(Command(args)).kind = "word"
    THEN resolveBinaryPath(Head(Command(args)).path) ELSE None

(* The configuration a call leads to, None on an error. *)
nativeMode(args, e) ==
    IF \/ ~(FlagNames(args) \subseteq Flags)
       \/ Conflicting(FlagNames(args), e)
       \/ Binary(args) = None
    THEN None
    ELSE [profilePath |-> e.profile, paths |-> FlagNames(args) \cap PathFlags,
          ldd |-> e.ldd \/ "ldd" \in FlagNames(args),
          binary |-> Binary(args), binaryToRun |-> Binary(args)]

-----------------------------------------------------------------------------
(* Wrapper mode. *)

wrapperMoode(argv0, e) ==
    LET binary == Abs(Cwd, argv0)
    IN  [profilePath |-> IF e.profile = None THEN ContainerProfile ELSE e.profile,
         paths |-> {}, ldd |-> e.ldd,
         binary |-> binary, binaryToRun |-> Join(BackupDir, binary)]

Native(argv0) == Last(argv0.segs) = "seal"

parseFlags(argv0, args, e) ==
    IF Native(argv0) THEN nativeMode(args, e) ELSE wrapperMoode(argv0, e)

(* The profile a configuration leads to: the entry of a file, or the flags. *)
BuildProfile(cfg) ==
    IF cfg.profilePath # None
    THEN [from |-> cfg.profilePath, of |-> cfg.binary]
    ELSE [from |-> None, of |-> cfg.paths]

Listed(file) ==
    IF file = ContainerProfile THEN StoredBinaries(Container) ELSE Handwritten[file]

ProfileFound(cfg) ==
    cfg.profilePath # None => cfg.binary \in Listed(cfg.profilePath)

sealedProcessEnv_Inherited(e) == e

(* Every SEAL_ variable is dropped. *)
sealedProcessEnv(e) == Unset

-----------------------------------------------------------------------------
(* Users write profiles until the container starts.  What they write later  *)
(* does not reach its file (NodeRuntime, SealedAsRead) and is left out.      *)
Admit == stage = "none" /\ AdmissionNext /\ UNCHANGED sealVars

StartContainer ==
    /\ stage = "none" /\ stored # None
    /\ stage' = "program" /\ refused' = None
    /\ UNCHANGED <<stored, env, call, layers>>

(* A program calls seal, setting variables of its own or leaving them.      *)
Call(argv0, args, own) ==
    /\ stage = "program" /\ Len(layers) < MaxDepth
    /\ stage' = "seal"
    /\ call' = [argv0 |-> argv0, args |-> args, own |-> own]
    /\ env' = [profile |-> IF own.profile = None THEN env.profile ELSE own.profile,
               ldd |-> own.ldd \/ env.ldd]
    /\ UNCHANGED <<admissionVars, layers>>

Config == parseFlags(call.argv0, call.args, env)

Seal ==
    /\ stage = "seal"
    /\ Config # None /\ ProfileFound(Config)
    /\ layers' = Append(layers, [call |-> call, cfg |-> Config])
    /\ stage' = "program" /\ env' = sealedProcessEnv(env)
    /\ UNCHANGED <<admissionVars, call>>

SealFails ==
    /\ stage = "seal"
    /\ Config # None => ~ProfileFound(Config)
    /\ stage' = "failed"
    /\ UNCHANGED <<admissionVars, env, call, layers>>

Init ==
    /\ AdmissionInit
    /\ stage = "none" /\ env = Unset /\ call = None /\ layers = <<>>

Next ==
    \/ Admit
    \/ StartContainer
    \/ \E c \in Calls, own \in Environment : Call(c.argv0, c.args, own)
    \/ Seal
    \/ SealFails

Spec == Init /\ [][Next]_vars

-----------------------------------------------------------------------------
(* Properties, of every seal that went through. *)

Went == {layers[i] : i \in DOMAIN layers}

(* A nested seal is configured by its own call: what the environment told   *)
(* an outer seal about its profile and libraries is gone, because           *)
(* sealedProcessEnv took it away.                                           *)
ConfiguredAfresh ==
    \A l \in Went : l.cfg = parseFlags(l.call.argv0, l.call.args, l.call.own)

(* The path flags before the separator make up the profile, and the         *)
(* arguments of the sealed command that look like flags do not: a profile   *)
(* file is consulted only if it is the one the caller named and no flags    *)
(* were given.  A stray word before the separator hides the flags behind    *)
(* it, unreported, as flag.Parse stops there; it never adds any.            *)
FlagsAreTheProfile ==
    \A l \in Went :
        LET args    == l.call.args
            Ahead(i) == \A j \in 1..i : args[j] # Sep
            given   == {n \in PathFlags : \E i \in DOMAIN args : args[i] = Flag(n) /\ Ahead(i)}
            stray   == \E i \in DOMAIN args : args[i].kind = "word" /\ Ahead(i)
            profile == BuildProfile(l.cfg)
        IN  Native(l.call.argv0) =>
                /\ profile.from = None => profile.of \subseteq given
                /\ profile.from # None => profile.from = l.call.own.profile
                /\ given # {} /\ ~stray => profile = [from |-> None, of |-> given]

(* What a call names: the first word after the separator, looked up in PATH *)
(* when it is a bare name; in wrapper mode argv[0], a bare name being one   *)
(* in the working directory.                                                *)
Named(c) ==
    IF ~Native(c.argv0) THEN c.argv0
    ELSE LET word == c.args[sepIdx(c.args) + 1].path
         IN  IF IsName(word) THEN InPath[word] ELSE word

(* Making the name of the binary canonical never changes which file it is,  *)
(* unless it has a ".." that leaves a directory entered by a link (counting *)
(* the working directory where the path is made absolute): resolveBinaryPath*)
(* runs what a shell would, and wrapper mode looks for the binary that      *)
(* argv[0] leads to.                                                        *)
RunsWhatWasNamed ==
    \A l \in Went :
        LET name    == Named(l.call)
            binary  == l.cfg.binary
            cleaned == IF binary.abs THEN InDir(Cwd, name) ELSE name
        IN  \/ Place(Links, Cwd, binary) = Place(Links, Cwd, name)
            \/ LeavesLink(Links, Cwd, cleaned)
=============================================================================
