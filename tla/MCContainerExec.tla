-------------------------- MODULE MCContainerExec --------------------------
(* Finite instances of ContainerExec for TLC. *)
EXTENDS ContainerExec, TLC

CONSTANTS p, q, r, d, e, f, own

(* The entries are all regular files, or d is a link to e, or d links to e  *)
(* and e to f.                                                              *)
LookupsFrom(link) ==
    [entry \in {d, e, f} |->
        IF link[entry] = entry THEN <<entry>>
        ELSE IF link[link[entry]] = link[entry] THEN <<entry, link[entry]>>
        ELSE <<entry, link[entry], link[link[entry]]>>]

Links == { [entry \in {d, e, f} |-> entry],
           [entry \in {d, e, f} |-> IF entry = d THEN e ELSE entry],
           [entry \in {d, e, f} |-> IF entry = f THEN f ELSE
                                       IF entry = d THEN e ELSE f] }

(* Each path names one of the entries or does not exist.  Up to renaming, p *)
(* names d and q names d or e.                                              *)
Names == {name \in [Paths -> {d, e, f}] : name[p] = d /\ name[q] # f}

MCImages ==
    {[path \in Paths |-> IF path = missing THEN <<>>
                         ELSE LookupsFrom(link)[name[path]]] :
        link \in Links, name \in Names, missing \in (Paths \ {p}) \cup {NoPath}}

(* A profile grants nothing, tools with or without what seal needs to start *)
(* q, or everything.                                                        *)
MCGrantSets ==
    {{}, {p, q, ProfileFile}, {p, q, Backup(q)}, Usable}

(* The file a user wrote grants everything to p, which the profile of the   *)
(* container may list or not, and lists nothing else.                       *)
MCOwnRules == own :> (p :> Usable)
NoRules == [file \in {} |-> {}]
=============================================================================
