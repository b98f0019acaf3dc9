-------------------------------- MODULE Paths --------------------------------
(* Paths as the functions of Go's path/filepath see them: absolute or not,  *)
(* and the parts between the slashes, which may be "", "." and "..".        *)
EXTENDS Integers, Sequences, SequencesExt

Part == STRING \cup {"", ".", ".."}
Path == [abs : BOOLEAN, segs : Seq(Part)]

AbsPath(segs) == [abs |-> TRUE, segs |-> segs]
RelPath(segs) == [abs |-> FALSE, segs |-> segs]

IsAbs(path) == path.abs

(* A path that starts at the root and goes straight down. *)
Straight(path) ==
    path.abs /\ \A i \in DOMAIN path.segs : path.segs[i] \notin {"", ".", ".."}

(* One step of Clean: what a further part makes of the parts kept so far.   *)
Walk(abs, kept, seg) ==
    CASE seg \in {"", "."} -> kept
      [] seg = ".." /\ kept # <<>> /\ Last(kept) # ".." -> Front(kept)
      [] seg = ".." /\ (kept = <<>> \/ Last(kept) = "..") ->
             IF abs THEN kept ELSE Append(kept, seg)
      [] OTHER -> Append(kept, seg)

(* One step of the kernel, which goes on where a symbolic link leads to.    *)
(* links has the places of the links and the places they lead to in the     *)
(* end, as the parts of straight paths.                                     *)
Follow(links, abs, at, seg) ==
    LET next == Walk(abs, at, seg)
    IN  IF next \in DOMAIN links THEN links[next] ELSE next

(* The place reached after all the parts. *)
Reached(links, abs, segs) ==
    LET at[n \in 0..Len(segs)] ==
            IF n = 0 THEN <<>> ELSE Follow(links, abs, at[n - 1], segs[n])
    IN  at[Len(segs)]

(* The parts that are left when Clean has walked over all of them: Clean    *)
(* knows of no links.                                                       *)
NoLinks == [place \in {} |-> place]
Kept(abs, segs) == Reached(NoLinks, abs, segs)

Clean(path) ==
    LET kept == Kept(path.abs, path.segs)
    IN  [path EXCEPT !.segs = IF kept = <<>> /\ ~path.abs THEN <<".">> ELSE kept]

Join(dir, path) == Clean([dir EXCEPT !.segs = @ \o path.segs])

(* filepath.Abs, in the working directory cwd. *)
Abs(cwd, path) == IF path.abs THEN Clean(path) ELSE Join(cwd, path)

(* filepath.Base(path) = path, for what is not the root. *)
IsName(path) == ~path.abs /\ Len(path.segs) = 1 /\ path.segs # <<"">>

(* filepath.IsLocal: below the working directory, as far as names tell. *)
IsLocal(path) ==
    ~path.abs /\ path.segs # <<"">> /\ Clean(path).segs[1] # ".."

-----------------------------------------------------------------------------
(* Files. *)

(* A path that is looked up from the working directory, if it is relative. *)
InDir(cwd, path) == IF path.abs THEN path ELSE AbsPath(cwd.segs \o path.segs)

(* Where the kernel finds it, if all its parts exist. *)
Place(links, cwd, path) == Reached(links, TRUE, InDir(cwd, path).segs)

(* A ".." of the path leaves a directory that the path entered by a link:   *)
(* the kernel goes on from above the directory the link leads to, Clean     *)
(* from above the link.                                                     *)
LeavesLink(links, cwd, path) ==
    \E n \in DOMAIN path.segs :
        LET dir == Kept(path.abs, SubSeq(path.segs, 1, n - 1))
            at  == Place(links, cwd, [path EXCEPT !.segs = Front(dir)])
        IN  /\ path.segs[n] = ".." /\ dir # <<>> /\ Last(dir) # ".."
            /\ Append(at, Last(dir)) \in DOMAIN links
=============================================================================
