--------------------------- MODULE LinkedLibraries ---------------------------
(***************************************************************************)
(* How seal finds the shared libraries of the binary it is about to seal,  *)
(* so that the rules it then applies leave the binary able to start.  It   *)
(* lets a loader of the image list them and reads the listing.  seal may   *)
(* itself be under the rules of an outer seal, which hide directories and  *)
(* files from it and from the loader it calls.                             *)
(***************************************************************************)
EXTENDS Integers, SequencesExt

CONSTANTS
    Binaries,       \* what may be sealed: first bytes, whether the rest can be
                    \* parsed, ELF class, interpreter, needed libraries
    Loaders,        \* files that match ld-*.so.*, as Glob orders them
    About,          \* the directory, class and libc of each loader
    Cache,          \* the file that tells a loader of further directories
    Cached,         \* libraries in those directories
    Spaced,         \* paths with white space, and the first word of each
    Images,         \* the files that may make up an image
    Preloads,       \* objects that LD_PRELOAD may name
    Profiles,       \* files that the profile may let the binary read and execute
    None            \* no interpreter, no loader

LdSos == Range(Loaders)
Dirs  == {About[l].dir : l \in LdSos}

ASSUME LoadersAssumption == Loaders \in Seq(LdSos)

VARIABLES
    binary,         \* the binary to seal
    files,          \* the files of the image
    dirs, outer,    \* what of them the outer rules let seal list and use
    preload,        \* LD_PRELOAD, which loader and binary inherit from seal
    profile,        \* files with a rule from the profile
    pc,             \* where seal is
    loader,         \* the loader it found
    output,         \* the lines the loader wrote
    granted         \* files with a rule from the listing

image == <<binary, files, dirs, outer, preload, profile>>
vars  == <<image, pc, loader, output, granted>>

-----------------------------------------------------------------------------
(* detectFileType, from the at most four bytes that could be read. *)
ELFMagic == <<"7F", "E", "L", "F">>

detectFileType(magic) ==
    CASE Len(magic) < 2                   -> "error"
      [] magic = ELFMagic                 -> "elf"
      [] SubSeq(magic, 1, 2) = <<"#", "!">> -> "script"
      [] OTHER                            -> "unknown"

(* Glob passes over directories it may not read; of the matches of a        *)
(* pattern the first one counts.                                            *)
FirstMatch(dir) ==
    SelectInSeq(Loaders, LAMBDA l : About[l].dir = dir /\ l \in files /\ dir \in dirs)

Find(patterns) ==
    LET hit == SelectInSeq(patterns, LAMBDA dir : FirstMatch(dir) # 0)
    IN  IF hit = 0 THEN None ELSE Loaders[FirstMatch(patterns[hit])]

Searched(class) ==
    CASE class = 32 -> <<"lib32", "lib">>
      [] class = 64 -> <<"lib64", "lib">>
      [] OTHER      -> <<"lib">>

findLdSoBin(class) == Find(Searched(class))

(* The words of a line, split at white space, as strings.Fields does: of a  *)
(* path with white space in it the first word is left.  A last word stands  *)
(* for all that follow, the rest of such a path and the address.            *)
FirstWord(f) == IF f \in DOMAIN Spaced THEN Spaced[f] ELSE f

Arrow   == [text |-> "=>", abs |-> FALSE]
Word(w) == [text |-> w, abs |-> FALSE]
Path(f) == [text |-> FirstWord(f), abs |-> TRUE]

(* No library's name holds the arrow, at which the code cuts a line.        *)
ASSUME NamesAssumption == \A b \in Binaries : \A lib \in b.needed : Word(lib) # Arrow

parseLoaderOutput_ArrowsOnly(lines) ==
    LET after(line) == SubSeq(line, SelectInSeq(line, LAMBDA w : w = Arrow) + 1,
                              Len(line))
    IN  {Head(after(line)).text : line \in {l \in lines :
             Arrow \in Range(l) /\ after(l) # <<>> /\ Head(after(l)).abs}}

parseLoaderOutput_AnyWord(lines) ==
    LET after(line) == SubSeq(line, SelectInSeq(line, LAMBDA w : w = Arrow) + 1,
                              Len(line))
    IN  {Head(after(line)).text : line \in {l \in lines : after(l) # <<>>}}

(* The first word behind the arrow, or of a line without one, if it is an   *)
(* absolute path.                                                           *)
parseLoaderOutput(lines) ==
    LET after(line) == SubSeq(line, SelectInSeq(line, LAMBDA w : w = Arrow) + 1,
                              Len(line))
    IN  {Head(after(line)).text :
             line \in {l \in lines : after(l) # <<>> /\ Head(after(l)).abs}}

-----------------------------------------------------------------------------
(* Loaders and the kernel. *)

(* A loader finds and maps a library under these rules. *)
Found(lib, rules) == lib \in rules /\ (lib \in Cached => Cache \in rules)

(* The interpreter runs and finds every needed library; without the objects *)
(* of LD_PRELOAD it goes on.                                                *)
Starts(rules) ==
    /\ binary.interp # None => binary.interp \in rules
    /\ \A lib \in binary.needed : Found(lib, rules)

LibLine(lib) ==
    IF Found(lib, outer) THEN <<Word(lib), Arrow, Path(lib), Word("address")>>
    ELSE <<Word(lib), Arrow, Word("not"), Word("found")>>

(* glibc's loader complains of an object it cannot open, musl's does not.   *)
PreloadLine(l, object) ==
    CASE object \in outer /\ About[l].musl ->
             <<Path(object), Arrow, Path(object), Word("address")>>
      [] object \in outer /\ ~About[l].musl -> <<Path(object), Word("address")>>
      [] object \notin outer /\ About[l].musl -> <<>>
      [] object \notin outer /\ ~About[l].musl -> <<Word("ERROR"), Word("ignored")>>

(* The loader appears under its path, with or without an arrow, or in the   *)
(* place of libc; the kernel's own object has no file.                      *)
Listing(l) ==
    {{LibLine(lib) : lib \in binary.needed}
         \cup {PreloadLine(l, object) : object \in preload}
         \cup {<<>>, own}
         \cup IF About[l].musl THEN {<<Word("libc"), Arrow, Path(l), Word("address")>>}
              ELSE {<<Word("vdso"), Word("address")>>} :
     own \in {<<Path(l), Word("address")>>,
              <<Path(l), Arrow, Path(l), Word("address")>>}}

(* A loader refuses the other class, musl's also what misses a library, and *)
(* any may refuse a binary that was linked for another loader.              *)
ListsFor(l) ==
    /\ l \in outer /\ About[l].class = binary.class
    /\ About[l].musl => \A lib \in binary.needed : Found(lib, outer)

MayRefuse(l) == ~ListsFor(l) \/ l # binary.interp

-----------------------------------------------------------------------------
Goto(where) == pc' = where /\ UNCHANGED image

(* Scripts and unknown files are sealed without libraries, and so are ELF   *)
(* files that import none; elf.Open and ImportedLibraries may fail.         *)
DiscoverLinkedLibraries ==
    /\ pc = "discover"
    /\ \/ detectFileType(binary.magic) = "error" /\ Goto("failed")
       \/ detectFileType(binary.magic) \in {"script", "unknown"} /\ Goto("restrict")
       \/ /\ detectFileType(binary.magic) = "elf"
          /\ \/ ~binary.parses /\ Goto("failed")
             \/ binary.parses /\ binary.needed = {} /\ Goto("restrict")
             \/ binary.parses /\ binary.needed # {} /\ Goto("find")
    /\ UNCHANGED <<loader, output, granted>>

FindLoader ==
    /\ pc = "find"
    /\ loader' = findLdSoBin(binary.class)
    /\ Goto(IF loader' = None THEN "failed" ELSE "list")
    /\ UNCHANGED <<output, granted>>

RunLoader ==
    /\ pc = "list" /\ ListsFor(loader)
    /\ output' \in Listing(loader)
    /\ Goto("restrict")
    /\ UNCHANGED <<loader, granted>>

LoaderFails ==
    /\ pc = "list" /\ MayRefuse(loader)
    /\ Goto("failed")
    /\ UNCHANGED <<loader, output, granted>>

(* processPaths leaves out what is not there. *)
RulesForBinaryToRun ==
    /\ pc = "restrict"
    /\ granted' = parseLoaderOutput(output) \cap files
    /\ Goto("exec")
    /\ UNCHANGED <<loader, output>>

Exec ==
    /\ pc = "exec"
    /\ Goto(IF Starts(outer \cap (granted \cup profile)) THEN "started" ELSE "killed")
    /\ UNCHANGED <<loader, output, granted>>

Init ==
    /\ binary \in Binaries
    /\ files \in Images /\ dirs \in SUBSET Dirs /\ outer \in SUBSET files
    /\ preload \in SUBSET Preloads /\ profile \in SUBSET Profiles
    /\ pc = "discover" /\ loader = None /\ output = {} /\ granted = {}

Next ==
    \/ DiscoverLinkedLibraries \/ FindLoader \/ RunLoader \/ LoaderFails
    \/ RulesForBinaryToRun \/ Exec

Spec == Init /\ [][Next]_vars

-----------------------------------------------------------------------------
(* A dynamically linked binary starts sealed whenever it would have started *)
(* unsealed, whatever an outer seal hides: discovery fails, or lists all    *)
(* that is needed.  The code cannot promise this where the image holds a    *)
(* second loader in the directories it searches, for files whose paths hold *)
(* white space, and for libraries in directories that only the loader's     *)
(* cache tells of, unless the profile grants that cache.                    *)
StartsAsUnsealed ==
    pc = "killed" /\ Starts(outer) =>
        \/ binary.magic # ELFMagic \/ binary.needed = {}
        \/ \E l \in LdSos \cap files :
               l # binary.interp /\ About[l].dir \in Range(Searched(binary.class))
        \/ \E f \in binary.needed \cup {binary.interp} : FirstWord(f) # f
        \/ binary.needed \cap Cached # {} /\ Cache \notin profile

(* The files that a listing adds to the rules are the loader, needed        *)
(* libraries and objects of LD_PRELOAD, or what white space in their paths  *)
(* leaves of them: no word of a line for a missing library or object or for *)
(* the kernel's own is taken for a file in the working directory.           *)
OnlyLibrariesGranted ==
    granted \subseteq {FirstWord(f) : f \in {loader} \cup binary.needed \cup preload}
=============================================================================
