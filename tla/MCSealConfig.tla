---------------------------- MODULE MCSealConfig ----------------------------
(* A finite instance of Admission and SealConfig for TLC. *)
EXTENDS SealConfig

CONSTANTS inContainer, byHand

(* The working directory has a link on its way. *)
MCCwd == AbsPath(<<"home", "b">>)
MCLinks == (<<"home">> :> <<"mnt", "u">>) @@ (<<"l">> :> <<"a", "a">>)
MCBackupDir == AbsPath(<<"podlock", "swapped">>)

-----------------------------------------------------------------------------
(* Submitted profiles. *)

Parts(alphabet, n) == UNION {[1..len -> alphabet] : len \in 0..n}

(* Straight paths, and paths with every kind of odd part in every place. *)
AnyPaths == [abs : BOOLEAN, segs : Parts({"a", "..", ""}, 2) \ {<<>>}]
                \cup {AbsPath(<<>>), AbsPath(<<".">>), RelPath(<<".">>)}

NoAccess == [level \in Levels |-> {}]

(* One or two binaries with any paths for names. *)
BinarySpecs ==
    {[c \in {"main"} |-> [b \in bs |-> NoAccess]] :
        bs \in {{b1, b2} : b1, b2 \in AnyPaths}}

(* Paths in two of the access levels, in one of two containers: the same    *)
(* ones, one below another, one that is not clean.                          *)
LevelSpecs ==
    {[c \in {"init", "main"} |->
        [b \in {AbsPath(<<"a">>)} |->
            IF c = "init" THEN NoAccess
            ELSE [NoAccess EXCEPT ![l1] = s1, ![l2] = s2]]] :
        l1, l2 \in Levels,
        s1 \in {{}, {AbsPath(<<"a">>)}, {AbsPath(<<"a", "">>)}},
        s2 \in SUBSET {AbsPath(<<"a">>), AbsPath(<<"a", "a">>)}}

MCSpecs == BinarySpecs \cup LevelSpecs

-----------------------------------------------------------------------------
(* Calls of seal. *)

Tool == RelPath(<<"tool">>)
MCInPath == [n \in {Tool} |-> AbsPath(<<"a">>)]

(* A profile that a user wrote. *)
MCHandwritten ==
    [f \in {byHand} |-> {AbsPath(<<"a">>), AbsPath(<<"home", "b", "x">>)}]

(* Names in PATH or not, absolute, unclean, local and above; over links and *)
(* out of them.                                                             *)
Words == {Tool, RelPath(<<"missing">>), AbsPath(<<"a", ".">>),
          RelPath(<<".", "x">>), RelPath(<<"..", "x">>), RelPath(<<"y", "..", "x">>),
          AbsPath(<<"home", "b", "x">>), AbsPath(<<"l", "..", "a">>)}

Options == {<<>>, <<Flag("ro")>>, <<Flag("ro"), Flag("ldd")>>,
            <<Flag("rw"), Word(Tool), Flag("rx")>>, <<Flag("unknown")>>}
Commands == {<<Word(Tool)>>, <<Word(Tool), Sep, Flag("rwx")>>, <<>>}

(* Native mode with all options for some commands, and all names without    *)
(* options.  Wrapper mode hands its arguments on: one list is enough.       *)
MCCalls ==
    [argv0 : {AbsPath(<<"bin", "seal">>)},
     args : {o \o <<Sep>> \o c : o \in Options, c \in Commands} \cup Options
                \cup {<<Sep, Word(p)>> : p \in Words}]
    \cup
    [argv0 : {AbsPath(<<"a">>), AbsPath(<<"l", "..", "a">>), RelPath(<<"..", "..", "a">>),
              RelPath(<<"..", "..", "..", "a">>), RelPath(<<".", "x">>)},
     args : {<<>>}]
=============================================================================
