------------------------- MODULE LinkedLibrariesProofs -------------------------
(***************************************************************************)
(* Proofs about the discovery of linked libraries, for every image, every  *)
(* binary and every outer seal: what the code reads in each form of line a *)
(* loader writes, and from it what the new seal grants.                    *)
(***************************************************************************)
EXTENDS LinkedLibraries, SequenceTheorems, WellFoundedInduction, TLAPS

-----------------------------------------------------------------------------
(* Reading one line. *)

(* The words behind the arrow, or all of them. *)
After(line) == SubSeq(line, SelectInSeq(line, LAMBDA w : w = Arrow) + 1, Len(line))

LEMMA ParsedLines ==
    ASSUME NEW lines
    PROVE  parseLoaderOutput(lines) =
               {Head(After(line)).text :
                    line \in {l \in lines : After(l) # <<>> /\ Head(After(l)).abs}}
BY Zenon DEF parseLoaderOutput, After

LEMMA ArrowAt ==
    ASSUME NEW S, NEW s \in Seq(S), NEW k \in 1..Len(s), s[k] = Arrow,
           \A j \in 1..(k - 1) : s[j] # Arrow
    PROVE  After(s) = SubSeq(s, k + 1, Len(s))
<1> DEFINE I == {i \in 1..Len(s) : s[i] = Arrow}
<1>1. SelectInSeq(s, LAMBDA w : w = Arrow) = IF I # {} THEN Min(I) ELSE 0
  BY Zenon DEF SelectInSeq
<1>2. k \in I /\ \A y \in I : k <= y
  OBVIOUS
<1>3. \A x, y \in I : x \in Int /\ (x <= y /\ y <= x => x = y)
  OBVIOUS
<1> HIDE DEF I
<1>4. Min(I) = k
  <2> DEFINE m == CHOOSE x \in I : \A y \in I : x <= y
  <2>1. m \in I /\ \A y \in I : m <= y
    BY <1>2
  <2> HIDE DEF m
  <2>2. m = k
    BY <2>1, <1>2, <1>3
  <2> QED
    BY <2>2 DEF m, Min
<1>5. SelectInSeq(s, LAMBDA w : w = Arrow) = k
  BY <1>1, <1>2, <1>4
<1> QED
  BY <1>5 DEF After

LEMMA NoArrow ==
    ASSUME NEW S, NEW s \in Seq(S), \A j \in 1..Len(s) : s[j] # Arrow
    PROVE  After(s) = s
<1> DEFINE I == {i \in 1..Len(s) : s[i] = Arrow}
<1>1. SelectInSeq(s, LAMBDA w : w = Arrow) = IF I # {} THEN Min(I) ELSE 0
  BY Zenon DEF SelectInSeq
<1>2. I = {}
  OBVIOUS
<1>3. SelectInSeq(s, LAMBDA w : w = Arrow) = 0
  BY <1>1, <1>2
<1>4. SubSeq(s, 0 + 1, Len(s)) = s
  OBVIOUS
<1> QED
  BY <1>3, <1>4 DEF After

(* Only a path is an absolute word, and no path is the arrow. *)
LEMMA WordFacts ==
    /\ Arrow.abs = FALSE
    /\ \A w : Word(w).abs = FALSE
    /\ \A f : Path(f).abs = TRUE /\ Path(f).text = FirstWord(f) /\ Path(f) # Arrow
    /\ Word("address") # Arrow /\ Word("vdso") # Arrow /\ Word("libc") # Arrow
    /\ Word("ERROR") # Arrow /\ Word("ignored") # Arrow
BY DEF Arrow, Word, Path

(* A line with the arrow in the second place. *)
LEMMA ArrowLine ==
    ASSUME NEW a, NEW c, NEW d, a # Arrow
    PROVE  After(<<a, Arrow, c, d>>) # <<>> /\ Head(After(<<a, Arrow, c, d>>)) = c
<1> DEFINE S == {a, Arrow, c, d}
           s == <<a, Arrow, c, d>>
<1>1. s \in Seq(S) /\ Len(s) = 4 /\ s[1] = a /\ s[2] = Arrow /\ s[3] = c
  OBVIOUS
<1> HIDE DEF s, S
<1>2. After(s) = SubSeq(s, 3, Len(s))
  <2>1. 2 \in 1..Len(s) /\ \A j \in 1..(2 - 1) : s[j] # Arrow
    BY <1>1
  <2>2. After(s) = SubSeq(s, 2 + 1, Len(s))
    BY <2>1, <1>1, ArrowAt
  <2> QED
    BY <2>2
<1>3. SubSeq(s, 3, Len(s)) # <<>> /\ Head(SubSeq(s, 3, Len(s))) = s[3]
  BY <1>1
<1> QED
  BY <1>1, <1>2, <1>3 DEF s

(* A line of two words without an arrow. *)
LEMMA PlainLine ==
    ASSUME NEW a, NEW b, a # Arrow, b # Arrow
    PROVE  After(<<a, b>>) # <<>> /\ Head(After(<<a, b>>)) = a
<1> DEFINE S == {a, b}
           s == <<a, b>>
<1>1. s \in Seq(S) /\ Len(s) = 2 /\ s[1] = a /\ s[2] = b
  OBVIOUS
<1>2. s # <<>> /\ Head(s) = a
  OBVIOUS
<1> HIDE DEF s, S
<1>3. \A j \in 1..Len(s) : s[j] # Arrow
  BY <1>1
<1>4. After(s) = s
  BY <1>1, <1>3, NoArrow
<1> QED
  BY <1>2, <1>4 DEF s

LEMMA EmptyLine == After(<<>>) = <<>>
<1>1. <<>> \in Seq({}) /\ Len(<<>>) = 0
  OBVIOUS
<1>2. \A j \in 1..Len(<<>>) : <<>>[j] # Arrow
  BY <1>1
<1> QED
  BY <1>1, <1>2, NoArrow

-----------------------------------------------------------------------------
(* Reading a listing. *)

(* The file that a line names, if it names one. *)
Names(line, file) == After(line) # <<>> /\ Head(After(line)) = Path(file)

Silent(line) == After(line) = <<>> \/ Head(After(line)).abs = FALSE

LEMMA ReadsNamed ==
    ASSUME NEW lines, NEW Named,
           \A line \in lines : Silent(line) \/ \E f \in Named : Names(line, f),
           \A f \in Named : \E line \in lines : Names(line, f)
    PROVE  parseLoaderOutput(lines) = {FirstWord(f) : f \in Named}
<1> DEFINE Read == {l \in lines : After(l) # <<>> /\ Head(After(l)).abs}
<1>1. parseLoaderOutput(lines) = {Head(After(line)).text : line \in Read}
  BY ParsedLines
<1>2. ASSUME NEW line \in Read PROVE \E f \in Named : Head(After(line)).text = FirstWord(f)
  <2>1. ~Silent(line)
    BY DEF Silent
  <2>2. PICK f \in Named : Names(line, f)
    BY <2>1
  <2> QED
    BY <2>2, WordFacts DEF Names
<1>3. ASSUME NEW f \in Named PROVE \E line \in Read : Head(After(line)).text = FirstWord(f)
  <2>1. PICK line \in lines : Names(line, f)
    OBVIOUS
  <2>2. line \in Read /\ Head(After(line)).text = FirstWord(f)
    BY <2>1, WordFacts DEF Names
  <2> QED
    BY <2>2
<1> HIDE DEF Read
<1> QED
  BY <1>1, <1>2, <1>3

LEMMA LibLineFacts ==
    ASSUME binary \in Binaries, NEW lib \in binary.needed
    PROVE  /\ Found(lib, outer) => Names(LibLine(lib), lib)
           /\ ~Found(lib, outer) => Silent(LibLine(lib))
<1>1. Word(lib) # Arrow
  BY NamesAssumption
<1>2. CASE Found(lib, outer)
  <2>1. LibLine(lib) = <<Word(lib), Arrow, Path(lib), Word("address")>>
    BY <1>2 DEF LibLine
  <2>2. Names(<<Word(lib), Arrow, Path(lib), Word("address")>>, lib)
    BY <1>1, ArrowLine DEF Names
  <2> QED
    BY <1>2, <2>1, <2>2
<1>3. CASE ~Found(lib, outer)
  <2>1. LibLine(lib) = <<Word(lib), Arrow, Word("not"), Word("found")>>
    BY <1>3 DEF LibLine
  <2>2. Silent(<<Word(lib), Arrow, Word("not"), Word("found")>>)
    BY <1>1, ArrowLine, WordFacts DEF Silent
  <2> QED
    BY <1>3, <2>1, <2>2
<1> QED
  BY <1>2, <1>3

LEMMA PreloadLineFacts ==
    ASSUME NEW l, NEW object
    PROVE  /\ object \in outer => Names(PreloadLine(l, object), object)
           /\ object \notin outer => Silent(PreloadLine(l, object))
<1>1. Names(<<Path(object), Arrow, Path(object), Word("address")>>, object)
  BY ArrowLine, WordFacts DEF Names
<1>2. Names(<<Path(object), Word("address")>>, object)
  BY PlainLine, WordFacts DEF Names
<1>3. Silent(<<>>)
  BY EmptyLine DEF Silent
<1>4. Silent(<<Word("ERROR"), Word("ignored")>>)
  BY PlainLine, WordFacts DEF Silent
<1>5. CASE object \in outer
  <2>1. \/ PreloadLine(l, object) = <<Path(object), Arrow, Path(object), Word("address")>>
        \/ PreloadLine(l, object) = <<Path(object), Word("address")>>
    BY <1>5, Zenon DEF PreloadLine
  <2> QED
    BY <1>1, <1>2, <1>5, <2>1, Zenon
<1>6. CASE object \notin outer
  <2>1. \/ PreloadLine(l, object) = <<>>
        \/ PreloadLine(l, object) = <<Word("ERROR"), Word("ignored")>>
    BY <1>6, Zenon DEF PreloadLine
  <2> QED
    BY <1>3, <1>4, <1>6, <2>1, Zenon
<1> QED
  BY <1>5, <1>6

(* The files that a listing names: the loader that wrote it, and every      *)
(* needed library and object of LD_PRELOAD that the outer rules let the     *)
(* loader open.                                                             *)
Listed(l) ==
    {l} \cup {lib \in binary.needed : Found(lib, outer)} \cup (preload \cap outer)

(* What the code reads in it: the first words of their paths. *)
LEMMA ListingRead ==
    ASSUME binary \in Binaries, NEW l, NEW lines \in Listing(l)
    PROVE  parseLoaderOutput(lines) = {FirstWord(f) : f \in Listed(l)}
<1> DEFINE libs == {LibLine(lib) : lib \in binary.needed}
           pre  == {PreloadLine(l, object) : object \in preload}
           more == IF About[l].musl
                   THEN {<<Word("libc"), Arrow, Path(l), Word("address")>>}
                   ELSE {<<Word("vdso"), Word("address")>>}
           owns == {<<Path(l), Word("address")>>,
                    <<Path(l), Arrow, Path(l), Word("address")>>}
           found == {lib \in binary.needed : Found(lib, outer)}
<1>1. PICK own \in owns : lines = libs \cup pre \cup {<<>>, own} \cup more
  BY Zenon DEF Listing
<1>2. Names(own, l)
  <2>1. Names(<<Path(l), Word("address")>>, l)
    BY PlainLine, WordFacts DEF Names
  <2>2. Names(<<Path(l), Arrow, Path(l), Word("address")>>, l)
    BY ArrowLine, WordFacts DEF Names
  <2> QED
    BY <2>1, <2>2, Zenon
<1>3. ASSUME NEW line \in more PROVE Silent(line) \/ Names(line, l)
  <2>1. Names(<<Word("libc"), Arrow, Path(l), Word("address")>>, l)
    BY ArrowLine, WordFacts DEF Names
  <2>2. Silent(<<Word("vdso"), Word("address")>>)
    BY PlainLine, WordFacts DEF Silent
  <2> QED
    BY <2>1, <2>2, <1>3, Zenon
<1>4. Silent(<<>>)
  BY EmptyLine DEF Silent
<1>5. ASSUME NEW line \in libs PROVE Silent(line) \/ \E f \in found : Names(line, f)
  BY LibLineFacts
<1>6. ASSUME NEW f \in found PROVE \E line \in libs : Names(line, f)
  BY LibLineFacts
<1>7. ASSUME NEW line \in pre
      PROVE  Silent(line) \/ \E f \in preload \cap outer : Names(line, f)
  BY PreloadLineFacts
<1>8. ASSUME NEW f \in preload \cap outer PROVE \E line \in pre : Names(line, f)
  BY PreloadLineFacts
<1>9. Listed(l) = {l} \cup found \cup (preload \cap outer)
  BY DEF Listed
<1> HIDE DEF libs, pre, more, owns, found
<1>10. \A line \in lines : Silent(line) \/ \E f \in Listed(l) : Names(line, f)
  BY <1>1, <1>2, <1>3, <1>4, <1>5, <1>7, <1>9, Zenon
<1>11. \A f \in Listed(l) : \E line \in lines : Names(line, f)
  BY <1>1, <1>2, <1>6, <1>8, <1>9, Zenon
<1> QED
  BY <1>10, <1>11, ReadsNamed

LEMMA NothingRead == parseLoaderOutput({}) = {}
BY ParsedLines

-----------------------------------------------------------------------------
(* Finding a loader. *)

LEMMA LeastIsOne ==
    ASSUME NEW len \in Nat, NEW I, I \subseteq 1..len, I # {}
    PROVE  Min(I) \in I
<1> DEFINE Less == OpToRel(<, Nat)
<1>1. IsWellFoundedOn(Less, Nat)
  BY NatLessThanWellFounded, Zenon
<1>2. \A x, y \in Nat : y < x => <<y, x>> \in Less
  BY DEF OpToRel
<1> HIDE DEF Less
<1>3. I \subseteq Nat
  OBVIOUS
<1>4. PICK x \in I : \A y \in I : ~(<<y, x>> \in Less)
  BY <1>1, <1>3, WFMin
<1>5. \A y \in I : x <= y
  <2>1. \A y \in I : ~(y < x)
    BY <1>2, <1>3, <1>4
  <2>2. x \in Nat
    BY <1>3
  <2> QED
    BY <1>3, <2>1, <2>2
<1> QED
  BY <1>5 DEF Min

LEMMA FirstMatchFacts ==
    ASSUME NEW dir, FirstMatch(dir) # 0
    PROVE  LET l == Loaders[FirstMatch(dir)]
           IN  l \in LdSos /\ l \in files /\ About[l].dir = dir
<1> DEFINE I == {i \in 1..Len(Loaders) :
                    About[Loaders[i]].dir = dir /\ Loaders[i] \in files /\ dir \in dirs}
           n == FirstMatch(dir)
<1>1. n = IF I # {} THEN Min(I) ELSE 0
  BY Zenon DEF FirstMatch, SelectInSeq
<1>2. Len(Loaders) \in Nat /\ DOMAIN Loaders = 1..Len(Loaders)
  BY LoadersAssumption
<1>3. I \subseteq 1..Len(Loaders)
  OBVIOUS
<1>4. n \in I
  <2> HIDE DEF I, n
  <2>1. I # {} /\ n = Min(I)
    BY <1>1 DEF n
  <2> QED
    BY <1>2, <1>3, <2>1, LeastIsOne
<1>5. n \in DOMAIN Loaders /\ About[Loaders[n]].dir = dir /\ Loaders[n] \in files
  BY <1>2, <1>4, Zenon
<1>6. Loaders[n] \in LdSos
  BY <1>5, Zenon DEF LdSos, Range
<1> QED
  BY <1>5, <1>6

LEMMA FindFacts ==
    ASSUME NEW S, NEW patterns \in Seq(S), Find(patterns) # None
    PROVE  /\ Find(patterns) \in LdSos \cap files
           /\ About[Find(patterns)].dir \in Range(patterns)
<1> DEFINE I == {i \in 1..Len(patterns) : FirstMatch(patterns[i]) # 0}
           hit == SelectInSeq(patterns, LAMBDA dir : FirstMatch(dir) # 0)
<1>1. hit = IF I # {} THEN Min(I) ELSE 0
  BY Zenon DEF SelectInSeq
<1>2. hit # 0 /\ Find(patterns) = Loaders[FirstMatch(patterns[hit])]
  BY Zenon DEF Find
<1>3. Len(patterns) \in Nat /\ DOMAIN patterns = 1..Len(patterns)
  OBVIOUS
<1>4. I \subseteq 1..Len(patterns)
  OBVIOUS
<1>5. hit \in I
  <2> HIDE DEF I, hit
  <2>1. I # {} /\ hit = Min(I)
    BY <1>1, <1>2
  <2> QED
    BY <1>3, <1>4, <2>1, LeastIsOne
<1>6. hit \in DOMAIN patterns /\ FirstMatch(patterns[hit]) # 0
  BY <1>3, <1>5, Zenon
<1> HIDE DEF hit
<1>7. patterns[hit] \in Range(patterns)
  BY <1>6, Zenon DEF Range
<1> QED
  BY <1>2, <1>6, <1>7, FirstMatchFacts

(* The loaders that seal may come upon. *)
Candidates ==
    {l \in LdSos \cap files : About[l].dir \in Range(Searched(binary.class))}

LEMMA FoundIsCandidate ==
    ASSUME findLdSoBin(binary.class) # None
    PROVE  findLdSoBin(binary.class) \in Candidates
<1> DEFINE patterns == Searched(binary.class)
<1>1. patterns \in Seq({"lib32", "lib64", "lib"})
  <2>1. /\ <<"lib32", "lib">> \in Seq({"lib32", "lib64", "lib"})
        /\ <<"lib64", "lib">> \in Seq({"lib32", "lib64", "lib"})
        /\ <<"lib">> \in Seq({"lib32", "lib64", "lib"})
    OBVIOUS
  <2>2. 32 # 64
    OBVIOUS
  <2> QED
    BY <2>1, <2>2, Zenon DEF Searched
<1>2. findLdSoBin(binary.class) = Find(patterns)
  BY DEF findLdSoBin
<1> HIDE DEF patterns
<1>3. Find(patterns) \in LdSos \cap files /\ About[Find(patterns)].dir \in Range(patterns)
  BY <1>1, <1>2, FindFacts
<1> QED
  BY <1>2, <1>3, Zenon DEF Candidates, patterns

-----------------------------------------------------------------------------
(* The inductive invariant. *)

Early == {"discover", "find", "list"}
Sealed == {"exec", "started", "killed"}

(* A linked binary is sealed only with the listing of the loader found. *)
Linked == binary.magic = ELFMagic /\ binary.needed # {}

OutputInv ==
    /\ pc \in Early => output = {}
    /\ output = {} \/ output \in Listing(loader)
    /\ pc \in {"restrict"} \cup Sealed /\ Linked => output \in Listing(loader)

(* The loader that was found is one of the image. *)
LoaderInv ==
    pc = "list" \/ (pc \in {"restrict"} \cup Sealed /\ Linked) => loader \in Candidates

GrantedInv ==
    /\ pc \in Sealed => granted = parseLoaderOutput(output) \cap files
    /\ pc \notin Sealed => granted = {}
    /\ pc = "killed" => ~Starts(outer \cap (granted \cup profile))

Inv ==
    /\ binary \in Binaries /\ outer \subseteq files
    /\ OutputInv
    /\ LoaderInv
    /\ GrantedInv

LEMMA ElfDetected == detectFileType(ELFMagic) = "elf"
<1>1. ~(Len(ELFMagic) < 2)
  BY DEF ELFMagic
<1>2. SubSeq(ELFMagic, 1, 2) # <<"#", "!">>
  <2>1. SubSeq(ELFMagic, 1, 2)[1] = "7F" /\ <<"#", "!">>[1] = "#"
    BY DEF ELFMagic
  <2> QED
    BY <2>1
<1> QED
  BY <1>1, <1>2, Zenon DEF detectFileType

LEMMA InitInv == Init => Inv
BY DEF Init, Inv, OutputInv, LoaderInv, GrantedInv, Early, Sealed, Linked

(* What the image and the environment determine stays. *)
LEMMA ImageStays ==
    ASSUME UNCHANGED image
    PROVE  /\ binary' = binary /\ files' = files /\ outer' = outer
           /\ Linked' = Linked /\ Candidates' = Candidates
           /\ loader' = loader => Listing(loader)' = Listing(loader)
           /\ granted' = granted => Starts(outer \cap (granted \cup profile))'
                                        = Starts(outer \cap (granted \cup profile))
<1>1. /\ binary' = binary /\ files' = files /\ outer' = outer /\ dirs' = dirs
      /\ preload' = preload /\ profile' = profile
  BY DEF image
<1>2. Linked' = Linked /\ Candidates' = Candidates
  BY <1>1 DEF Linked, Candidates
<1>3. loader' = loader => Listing(loader)' = Listing(loader)
  BY <1>1 DEF Listing, LibLine, PreloadLine, Found
<1>4. granted' = granted => Starts(outer \cap (granted \cup profile))'
                               = Starts(outer \cap (granted \cup profile))
  BY <1>1 DEF Starts, Found
<1> QED
  BY <1>1, <1>2, <1>3, <1>4

LEMMA NextInv == Inv /\ [Next]_vars => Inv'
<1> SUFFICES ASSUME Inv, [Next]_vars PROVE Inv'
  OBVIOUS
<1> USE DEF Inv
<1>1. CASE DiscoverLinkedLibraries
  <2>1. /\ pc = "discover" /\ output = {} /\ granted = {}
        /\ UNCHANGED image /\ UNCHANGED <<loader, output, granted>>
    BY <1>1 DEF DiscoverLinkedLibraries, Goto, OutputInv, GrantedInv, Early, Sealed
  <2>2. pc' \in {"failed", "restrict", "find"} /\ (Linked => pc' # "restrict")
    BY <1>1, ElfDetected DEF DiscoverLinkedLibraries, Goto, Linked
  <2> QED
    BY <2>1, <2>2, ImageStays DEF OutputInv, LoaderInv, GrantedInv, Early, Sealed
<1>2. CASE FindLoader
  <2>1. /\ pc = "find" /\ output = {} /\ granted = {} /\ pc' \in {"failed", "list"}
        /\ UNCHANGED image /\ UNCHANGED <<output, granted>>
    BY <1>2 DEF FindLoader, Goto, OutputInv, GrantedInv, Early, Sealed
  <2>2. pc' = "list" => loader' \in Candidates
    BY <1>2, FoundIsCandidate DEF FindLoader, Goto
  <2> QED
    BY <2>1, <2>2, ImageStays DEF OutputInv, LoaderInv, GrantedInv, Early, Sealed
<1>3. CASE RunLoader
  <2>1. /\ pc = "list" /\ pc' = "restrict" /\ granted = {} /\ output' \in Listing(loader)
        /\ UNCHANGED image /\ UNCHANGED <<loader, granted>>
    BY <1>3 DEF RunLoader, Goto, GrantedInv, Sealed
  <2>2. Listing(loader)' = Listing(loader)
    BY <2>1, ImageStays
  <2> QED
    BY <2>1, <2>2, ImageStays DEF OutputInv, LoaderInv, GrantedInv, Early, Sealed
<1>4. CASE LoaderFails
  <2>1. /\ pc = "list" /\ pc' = "failed" /\ output = {} /\ granted = {}
        /\ UNCHANGED image /\ UNCHANGED <<loader, output, granted>>
    BY <1>4 DEF LoaderFails, Goto, OutputInv, GrantedInv, Early, Sealed
  <2> QED
    BY <2>1, ImageStays DEF OutputInv, LoaderInv, GrantedInv, Early, Sealed
<1>5. CASE RulesForBinaryToRun
  <2>1. /\ pc = "restrict" /\ pc' = "exec"
        /\ granted' = parseLoaderOutput(output) \cap files
        /\ UNCHANGED image /\ UNCHANGED <<loader, output>>
    BY <1>5 DEF RulesForBinaryToRun, Goto
  <2>2. Listing(loader)' = Listing(loader) /\ Linked' = Linked
    BY <2>1, ImageStays
  <2>3. OutputInv'
    BY <2>1, <2>2 DEF OutputInv, Early, Sealed
  <2>4. LoaderInv'
    BY <2>1, ImageStays DEF LoaderInv, Sealed
  <2>5. GrantedInv'
    BY <2>1, ImageStays DEF GrantedInv, Sealed
  <2> QED
    BY <2>1, <2>3, <2>4, <2>5, ImageStays
<1>6. CASE Exec
  <2>1. /\ pc = "exec" /\ pc' \in {"started", "killed"}
        /\ pc' = "killed" => ~Starts(outer \cap (granted \cup profile))
        /\ UNCHANGED image /\ UNCHANGED <<loader, output, granted>>
    BY <1>6 DEF Exec, Goto
  <2>2. /\ Listing(loader)' = Listing(loader) /\ Linked' = Linked
        /\ Starts(outer \cap (granted \cup profile))'
               = Starts(outer \cap (granted \cup profile))
    BY <2>1, ImageStays
  <2>3. OutputInv'
    BY <2>1, <2>2 DEF OutputInv, Early, Sealed
  <2>4. LoaderInv'
    BY <2>1, ImageStays DEF LoaderInv, Sealed
  <2>5. GrantedInv'
    BY <2>1, <2>2, ImageStays DEF GrantedInv, Sealed
  <2> QED
    BY <2>1, <2>3, <2>4, <2>5, ImageStays
<1>7. CASE UNCHANGED vars
  <2>1. UNCHANGED image /\ UNCHANGED <<pc, loader, output, granted>>
    BY <1>7 DEF vars
  <2>2. /\ Listing(loader)' = Listing(loader) /\ Linked' = Linked
        /\ Starts(outer \cap (granted \cup profile))'
               = Starts(outer \cap (granted \cup profile))
    BY <2>1, ImageStays
  <2> QED
    BY <2>1, <2>2, ImageStays DEF OutputInv, LoaderInv, GrantedInv
<1> QED
  BY <1>1, <1>2, <1>3, <1>4, <1>5, <1>6, <1>7 DEF Next

LEMMA InvHolds == Spec => []Inv
BY InitInv, NextInv, PTL DEF Spec

-----------------------------------------------------------------------------
(* Whatever the loader lists, whatever an outer seal hides from it and      *)
(* whatever LD_PRELOAD makes it load, the rules that parseLoaderOutput adds *)
(* are for that loader, libraries the binary needs and preloaded objects,   *)
(* or for the first word of their paths: no other word of a line is ever    *)
(* taken for a file.                                                        *)
THEOREM OnlyLibraries == Spec => []OnlyLibrariesGranted
<1>1. Inv => OnlyLibrariesGranted
  <2> SUFFICES ASSUME Inv PROVE OnlyLibrariesGranted
    OBVIOUS
  <2>1. CASE granted = {}
    BY <2>1 DEF OnlyLibrariesGranted
  <2>2. CASE granted = parseLoaderOutput(output) \cap files /\ output = {}
    BY <2>2, NothingRead DEF OnlyLibrariesGranted
  <2>3. CASE granted = parseLoaderOutput(output) \cap files /\ output \in Listing(loader)
    <3>1. parseLoaderOutput(output) = {FirstWord(f) : f \in Listed(loader)}
      BY <2>3, ListingRead DEF Inv
    <3>2. Listed(loader) \subseteq {loader} \cup binary.needed \cup preload
      BY DEF Listed
    <3> QED
      BY <2>3, <3>1, <3>2 DEF OnlyLibrariesGranted
  <2> QED
    BY <2>1, <2>2, <2>3 DEF Inv, OutputInv, GrantedInv
<1> QED
  BY <1>1, InvHolds, PTL

(* Where the image has one loader in the directories that findLdSoBin       *)
(* searches, no path with white space, and no library that only the cache   *)
(* tells of or a profile that grants the cache, a linked binary starts      *)
(* under the new seal whenever it would have started without it, whatever   *)
(* directories and files an outer seal hides from DiscoverLinkedLibraries.  *)
THEOREM SealedStarts == Spec => []StartsAsUnsealed
<1>1. Inv => StartsAsUnsealed
  <2> SUFFICES ASSUME Inv, pc = "killed", Starts(outer), Linked,
                      \A l \in LdSos \cap files :
                          About[l].dir \in Range(Searched(binary.class)) => l = binary.interp,
                      \A f \in binary.needed \cup {binary.interp} : FirstWord(f) = f,
                      \A lib \in binary.needed : lib \in Cached => Cache \in profile
               PROVE  FALSE
    BY DEF StartsAsUnsealed, Linked
  <2>1. /\ output \in Listing(loader) /\ granted = parseLoaderOutput(output) \cap files
        /\ ~Starts(outer \cap (granted \cup profile)) /\ loader \in Candidates
    BY DEF Inv, OutputInv, LoaderInv, GrantedInv, Sealed
  <2>2. parseLoaderOutput(output) = {FirstWord(f) : f \in Listed(loader)}
    BY <2>1, ListingRead DEF Inv
  <2>3. loader = binary.interp /\ loader \in files
    BY <2>1 DEF Candidates
  <2>4. binary.interp \in granted
    <3>1. loader \in Listed(loader)
      BY DEF Listed
    <3> QED
      BY <2>1, <2>2, <2>3, <3>1
  <2>5. ASSUME NEW lib \in binary.needed PROVE Found(lib, outer \cap (granted \cup profile))
    <3>1. Found(lib, outer)
      BY DEF Starts
    <3>2. lib \in Listed(loader) /\ lib \in files /\ FirstWord(lib) = lib
      BY <3>1 DEF Listed, Found, Inv
    <3>3. lib \in granted
      BY <2>1, <2>2, <3>2
    <3> QED
      BY <3>1, <3>3 DEF Found
  <2>6. Starts(outer \cap (granted \cup profile))
    BY <2>4, <2>5 DEF Starts
  <2> QED
    BY <2>1, <2>6
<1> QED
  BY <1>1, InvHolds, PTL
=============================================================================
