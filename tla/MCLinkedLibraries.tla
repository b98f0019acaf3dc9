------------------------- MODULE MCLinkedLibraries -------------------------
(* Finite instances of LinkedLibraries for TLC. *)
EXTENDS LinkedLibraries

MCLoaders == <<"glibc", "musl", "glibc32", "glibc64">>
MCAbout ==
    [l \in {"glibc", "musl", "glibc32", "glibc64"} |->
        CASE l = "glibc"   -> [dir |-> "lib", class |-> 32, musl |-> FALSE]
          [] l = "musl"    -> [dir |-> "lib", class |-> 64, musl |-> TRUE]
          [] l = "glibc32" -> [dir |-> "lib32", class |-> 32, musl |-> FALSE]
          [] l = "glibc64" -> [dir |-> "lib64", class |-> 64, musl |-> FALSE]]

(* "my libA" is cut to "my"; "not" is a file in the working directory that  *)
(* has the name of a word in a listing.                                     *)
MCSpaced == [f \in {"my libA"} |-> "my"]

MCImages ==
    {ldsos \cup others : ldsos \in {s \in SUBSET LdSos : Cardinality(s) <= 2},
                         others \in {{"libA", "libB", "cache", "not"},
                                     {"libA", "my libA", "my", "agent"}}}

Elf(p, c, i, n) ==
    [magic |-> ELFMagic, parses |-> p, class |-> c, interp |-> i, needed |-> n]
Other(m, i) == [magic |-> m, parses |-> FALSE, class |-> 0, interp |-> i, needed |-> {}]

MCBinaries ==
    {Elf(TRUE, 64, i, n) : i \in {"glibc64", "musl"},
                           n \in {{"libA"}, {"libA", "libB"}, {"my libA"}, {}}}
        \cup {Elf(TRUE, 32, "glibc32", {"libA"}), Elf(TRUE, 32, "glibc", {"libB"}),
              Elf(TRUE, 64, None, {}), Elf(FALSE, 64, "musl", {"libA"})}
        \cup {Other(<<"#", "!">>, "glibc64"), Other(<<"7F", "E">>, None),
              Other(<<"#">>, None)}
=============================================================================
