--------------------------- MODULE SealConfigProofs ---------------------------
(***************************************************************************)
(* Proofs about admitted profiles and about how seal is configured, for    *)
(* paths of any length, every submitted profile and every call.            *)
(*                                                                         *)
(* What Clean does to a path is proved by induction over its parts.  The   *)
(* induction is over sets: a set of sequences that holds the empty one and *)
(* with every sequence its extensions by one element holds them all.       *)
(***************************************************************************)
EXTENDS SealConfig, SequenceTheorems, WellFoundedInduction, TLAPS

-----------------------------------------------------------------------------
(* Induction. *)

(* Every set of naturals that has an element has a least one. *)
LEMMA LeastNatural ==
    ASSUME NEW T, T \subseteq Nat, T # {}
    PROVE  \E x \in T : \A y \in T : x <= y
<1> DEFINE Less == OpToRel(<, Nat)
<1>1. IsWellFoundedOn(Less, Nat)
  BY NatLessThanWellFounded, Zenon
<1>2. \A x, y \in Nat : y < x => <<y, x>> \in Less
  BY DEF OpToRel
<1> HIDE DEF Less
<1>3. PICK x \in T : \A y \in T : ~(<<y, x>> \in Less)
  BY <1>1, WFMin
<1>4. \A y \in T : ~(y < x)
  BY <1>2, <1>3
<1>5. \A y \in T : x <= y
  BY <1>4
<1> QED
  BY <1>5

(* Induction up to a bound. *)
LEMMA UpTo ==
    ASSUME NEW N \in Nat, NEW T, 0 \in T,
           \A n \in 1..N : n - 1 \in T => n \in T
    PROVE  0..N \subseteq T
<1> SUFFICES ASSUME 0..N \ T # {} PROVE FALSE
  OBVIOUS
<1>1. 0..N \ T \subseteq Nat
  OBVIOUS
<1>2. PICK least \in 0..N \ T : \A m \in 0..N \ T : least <= m
  BY <1>1, LeastNatural
<1>3. least \in 1..N /\ least - 1 \in 0..N /\ ~(least <= least - 1)
  BY <1>2
<1>4. least - 1 \in T
  BY <1>2, <1>3
<1> QED
  BY <1>2, <1>3, <1>4

(* Induction over the sequences over a set. *)
LEMMA SeqInduct ==
    ASSUME NEW S, NEW T, <<>> \in T,
           \A s \in Seq(S), x \in S : s \in T => Append(s, x) \in T
    PROVE  Seq(S) \subseteq T
<1> SUFFICES ASSUME NEW s \in Seq(S) PROVE s \in T
  OBVIOUS
<1> DEFINE upTo(n) == SubSeq(s, 1, n)
           Good == {n \in 0..Len(s) : upTo(n) \in T}
<1>1. Len(s) \in Nat /\ upTo(Len(s)) = s
  OBVIOUS
<1>2. upTo(0) = <<>>
  BY SubSeqEmpty
<1>3. ASSUME NEW n \in 1..Len(s)
      PROVE  /\ upTo(n - 1) \in Seq(S) /\ s[n] \in S
             /\ upTo(n) = Append(upTo(n - 1), s[n])
  <2>1. upTo(n - 1) \in Seq(S) /\ s[n] \in S
    OBVIOUS
  <2>2. upTo(n) = upTo(n - 1) \o <<s[n]>>
    BY SubSeqRecursiveSecond
  <2> QED
    BY <2>1, <2>2, AppendIsConcat
<1> HIDE DEF upTo
<1>4. 0 \in Good
  BY <1>1, <1>2
<1>5. ASSUME NEW n \in 1..Len(s), n - 1 \in Good PROVE n \in Good
  <2>1. upTo(n - 1) \in T /\ n \in 0..Len(s)
    BY <1>1, <1>5
  <2>2. Append(upTo(n - 1), s[n]) \in T
    BY <2>1, <1>3
  <2> QED
    BY <2>1, <2>2, <1>3
<1> HIDE DEF Good
<1>6. 0..Len(s) \subseteq Good
  BY <1>1, <1>4, <1>5, UpTo
<1>7. Len(s) \in Good
  BY <1>1, <1>6
<1> QED
  BY <1>1, <1>7 DEF Good

-----------------------------------------------------------------------------
(* What is reached, with links or without. *)

(* f walks over the first n parts. *)
Walks(f, links, abs, segs, n) ==
    /\ f = [k \in 0..n |-> f[k]]
    /\ f[0] = <<>>
    /\ \A k \in 1..n : f[k] = Follow(links, abs, f[k - 1], segs[k])

(* The recursion of Reached is well founded. *)
LEMMA WalksExists ==
    ASSUME NEW links, NEW abs, NEW segs, NEW N \in Nat
    PROVE  \E f : Walks(f, links, abs, segs, N)
<1> DEFINE Good == {n \in 0..N : \E f : Walks(f, links, abs, segs, n)}
<1>1. 0 \in Good
  <2> DEFINE f == [k \in 0..0 |-> <<>>]
  <2>1. Walks(f, links, abs, segs, 0)
    BY DEF Walks
  <2> QED
    BY <2>1
<1>2. ASSUME NEW n \in 1..N, n - 1 \in Good PROVE n \in Good
  <2>1. PICK f : Walks(f, links, abs, segs, n - 1)
    BY <1>2
  <2> DEFINE g == [k \in 0..n |->
                      IF k = n THEN Follow(links, abs, f[n - 1], segs[n]) ELSE f[k]]
  <2>2. g[0] = <<>>
    BY <2>1 DEF Walks
  <2>3. \A k \in 1..n : g[k] = Follow(links, abs, g[k - 1], segs[k])
    BY <2>1 DEF Walks
  <2>4. g = [k \in 0..n |-> g[k]]
    OBVIOUS
  <2>5. Walks(g, links, abs, segs, n)
    BY <2>2, <2>3, <2>4 DEF Walks
  <2> QED
    BY <2>5
<1> HIDE DEF Good
<1>3. 0..N \subseteq Good
  BY <1>1, <1>2, UpTo
<1>4. N \in Good
  BY <1>3
<1> QED
  BY <1>4 DEF Good

SameUpTo(s, t, n) == \A k \in 1..n : s[k] = t[k]

(* Two walks over the same parts agree. *)
LEMMA WalksAgree ==
    ASSUME NEW links, NEW abs, NEW s, NEW t, NEW f, NEW g,
           NEW M \in Nat, NEW N \in Nat, M <= N,
           Walks(f, links, abs, s, M), Walks(g, links, abs, t, N), SameUpTo(s, t, M)
    PROVE  f[M] = g[M]
<1> DEFINE Good == {n \in 0..M : f[n] = g[n]}
<1>1. 0 \in Good
  BY DEF Walks
<1>2. ASSUME NEW n \in 1..M, n - 1 \in Good PROVE n \in Good
  <2>1. f[n - 1] = g[n - 1] /\ s[n] = t[n] /\ n \in 1..N
    BY <1>2 DEF SameUpTo
  <2>2. f[n] = Follow(links, abs, f[n - 1], s[n])
    BY DEF Walks
  <2>3. g[n] = Follow(links, abs, g[n - 1], t[n])
    BY <2>1 DEF Walks
  <2> QED
    BY <2>1, <2>2, <2>3
<1> HIDE DEF Good
<1>3. 0..M \subseteq Good
  BY <1>1, <1>2, UpTo
<1> QED
  BY <1>3 DEF Good

(* What the definition of Reached computes. *)
LEMMA ReachedWalks ==
    ASSUME NEW links, NEW abs, NEW S, NEW segs \in Seq(S)
    PROVE  \E f : /\ Walks(f, links, abs, segs, Len(segs))
                  /\ Reached(links, abs, segs) = f[Len(segs)]
<1> DEFINE Eq(f) == f = [n \in 0..Len(segs) |->
                IF n = 0 THEN <<>> ELSE Follow(links, abs, f[n - 1], segs[n])]
<1>1. PICK g : Walks(g, links, abs, segs, Len(segs))
  <2>1. Len(segs) \in Nat
    OBVIOUS
  <2> QED
    BY <2>1, WalksExists
<1>2. Eq(g)
  <2>1. \A n \in 0..Len(segs) :
            g[n] = IF n = 0 THEN <<>> ELSE Follow(links, abs, g[n - 1], segs[n])
    BY <1>1 DEF Walks
  <2>2. g = [n \in 0..Len(segs) |-> g[n]]
    BY <1>1 DEF Walks
  <2> QED
    BY <2>1, <2>2
<1> DEFINE at == CHOOSE f : Eq(f)
<1>3. Eq(at)
  BY <1>2
<1>4. Reached(links, abs, segs) = at[Len(segs)]
  BY DEF Reached
<1> HIDE DEF at
<1>5. Walks(at, links, abs, segs, Len(segs))
  BY <1>3 DEF Walks
<1> QED
  BY <1>4, <1>5

LEMMA ReachedEmpty == \A links, abs : Reached(links, abs, <<>>) = <<>>
<1> SUFFICES ASSUME NEW links, NEW abs PROVE Reached(links, abs, <<>>) = <<>>
  OBVIOUS
<1>1. <<>> \in Seq(Part) /\ Len(<<>>) = 0
  OBVIOUS
<1>2. PICK f : /\ Walks(f, links, abs, <<>>, Len(<<>>))
               /\ Reached(links, abs, <<>>) = f[Len(<<>>)]
  BY <1>1, ReachedWalks
<1> QED
  BY <1>1, <1>2 DEF Walks

LEMMA ReachedAppend ==
    ASSUME NEW links, NEW abs, NEW S, NEW s \in Seq(S), NEW x \in S
    PROVE  Reached(links, abs, Append(s, x)) = Follow(links, abs, Reached(links, abs, s), x)
<1> DEFINE t == Append(s, x)
<1>1. /\ t \in Seq(S) /\ Len(t) = Len(s) + 1 /\ Len(s) \in Nat
      /\ (\A k \in 1..Len(s) : s[k] = t[k]) /\ t[Len(t)] = x
  <2>1. t \in Seq(S) /\ Len(t) = Len(s) + 1 /\ Len(s) \in Nat
    OBVIOUS
  <2>2. (\A k \in 1..Len(s) : s[k] = t[k]) /\ t[Len(s) + 1] = x
    OBVIOUS
  <2> QED
    BY <2>1, <2>2
<1> HIDE DEF t
<1>2. PICK f : Walks(f, links, abs, s, Len(s)) /\ Reached(links, abs, s) = f[Len(s)]
  BY ReachedWalks
<1>3. PICK g : Walks(g, links, abs, t, Len(t)) /\ Reached(links, abs, t) = g[Len(t)]
  BY <1>1, ReachedWalks
<1>4. Len(t) \in Nat /\ Len(s) <= Len(t)
  BY <1>1
<1>5. f[Len(s)] = g[Len(s)]
  <2> DEFINE m == Len(s)
             n == Len(t)
  <2>1. Walks(f, links, abs, s, m) /\ Walks(g, links, abs, t, n)
    BY <1>2, <1>3
  <2>2. m \in Nat /\ n \in Nat /\ m <= n /\ SameUpTo(s, t, m)
    BY <1>1, <1>4 DEF SameUpTo
  <2> HIDE DEF m, n
  <2>3. f[m] = g[m]
    BY ONLY <2>1, <2>2, WalksAgree
  <2> QED
    BY <2>3 DEF m
<1>6. g[Len(t)] = Follow(links, abs, g[Len(s)], x)
  BY <1>1, <1>3 DEF Walks
<1> QED
  BY <1>2, <1>3, <1>5, <1>6 DEF t

-----------------------------------------------------------------------------
(* What Clean keeps. *)

LEMMA KeptEmpty == \A abs : Kept(abs, <<>>) = <<>>
BY ReachedEmpty DEF Kept

LEMMA ReachedStep ==
    ASSUME NEW S, NEW s \in Seq(S), NEW x \in S
    PROVE  Reached(Links, TRUE, Append(s, x)) = Follow(Links, TRUE, Reached(Links, TRUE, s), x)
<1> DEFINE yes == TRUE
<1> HIDE DEF yes
<1>1. Reached(Links, yes, Append(s, x)) = Follow(Links, yes, Reached(Links, yes, s), x)
  BY ReachedAppend
<1> QED
  BY <1>1, Zenon DEF yes

LEMMA KeptAppend ==
    ASSUME NEW abs, NEW S, NEW s \in Seq(S), NEW x \in S
    PROVE  Kept(abs, Append(s, x)) = Walk(abs, Kept(abs, s), x)
<1>1. Kept(abs, Append(s, x)) = Follow(NoLinks, abs, Kept(abs, s), x)
  BY ReachedAppend DEF Kept
<1>2. DOMAIN NoLinks = {}
  BY DEF NoLinks
<1> QED
  BY <1>1, <1>2 DEF Follow

(* One part. *)
LEMMA WalkSkips ==
    ASSUME NEW abs, NEW kept, NEW x \in {"", "."}
    PROVE  Walk(abs, kept, x) = kept
BY DEF Walk

LEMMA WalkBack ==
    ASSUME NEW abs, NEW kept, kept # <<>>, Last(kept) # ".."
    PROVE  Walk(abs, kept, "..") = Front(kept)
<1>1. ".." \notin {"", "."}
  OBVIOUS
<1> QED
  BY <1>1 DEF Walk

LEMMA WalkAtRoot ==
    ASSUME NEW kept, kept = <<>> \/ Last(kept) = ".."
    PROVE  Walk(TRUE, kept, "..") = kept /\ Walk(FALSE, kept, "..") = Append(kept, "..")
<1>1. ".." \notin {"", "."}
  OBVIOUS
<1> QED
  BY <1>1 DEF Walk

LEMMA WalkDown ==
    ASSUME NEW abs, NEW kept, NEW x, x \notin {"", ".", ".."}
    PROVE  Walk(abs, kept, x) = Append(kept, x)
BY DEF Walk

LEMMA WalkOutcome ==
    ASSUME NEW abs \in BOOLEAN, NEW kept, NEW x
    PROVE  \/ Walk(abs, kept, x) = kept
           \/ kept # <<>> /\ Walk(abs, kept, x) = Front(kept)
           \/ /\ x \notin {"", "."} /\ (x = ".." => abs = FALSE)
              /\ Walk(abs, kept, x) = Append(kept, x)
<1>1. CASE x \in {"", "."}
  BY <1>1, WalkSkips
<1>2. CASE x = ".." /\ kept # <<>> /\ Last(kept) # ".."
  BY <1>2, WalkBack
<1>3. CASE x = ".." /\ (kept = <<>> \/ Last(kept) = "..")
  <2>1. Walk(TRUE, kept, "..") = kept /\ Walk(FALSE, kept, "..") = Append(kept, "..")
    BY <1>3, WalkAtRoot
  <2>2. CASE abs = TRUE
    BY <2>1, <2>2, <1>3
  <2>3. CASE abs = FALSE
    BY <2>1, <2>3, <1>3
  <2> QED
    BY <2>2, <2>3
<1>4. CASE x \notin {"", ".", ".."}
  BY <1>4, WalkDown
<1> QED
  BY <1>1, <1>2, <1>3, <1>4

LEMMA FrontFacts ==
    ASSUME NEW S, NEW s \in Seq(S), s # <<>>
    PROVE  /\ Front(s) \in Seq(S) /\ Last(s) \in S
           /\ s = Append(Front(s), Last(s))
           /\ \A i \in DOMAIN Front(s) : i \in DOMAIN s /\ Front(s)[i] = s[i]
           /\ Len(s) \in DOMAIN s
<1>1. Len(s) \in 1..Len(s) /\ Len(s) \in Nat
  OBVIOUS
<1>2. Front(s) \in Seq(S) /\ Last(s) \in S
  BY <1>1 DEF Front, Last
<1>3. SubSeq(s, 1, Len(s)) = SubSeq(s, 1, Len(s) - 1) \o <<s[Len(s)]>>
  BY <1>1, SubSeqRecursiveSecond
<1>4. s = Append(Front(s), Last(s))
  BY <1>2, <1>3, AppendIsConcat DEF Front, Last
<1>5. \A i \in DOMAIN Front(s) : i \in DOMAIN s /\ Front(s)[i] = s[i]
  BY <1>1 DEF Front
<1> QED
  BY <1>1, <1>2, <1>4, <1>5

LEMMA AppendFacts ==
    ASSUME NEW S, NEW s \in Seq(S), NEW x \in S
    PROVE  /\ Append(s, x) \in Seq(S) /\ Append(s, x) # <<>>
           /\ Last(Append(s, x)) = x /\ Front(Append(s, x)) = s
           /\ \A i \in DOMAIN Append(s, x) :
                  Append(s, x)[i] = x \/ (i \in DOMAIN s /\ Append(s, x)[i] = s[i])
           /\ \A i \in DOMAIN s : i \in DOMAIN Append(s, x) /\ Append(s, x)[i] = s[i]
           /\ \E i \in DOMAIN Append(s, x) : Append(s, x)[i] = x
<1> DEFINE t == Append(s, x)
<1>1. t \in Seq(S) /\ t # <<>> /\ Len(t) = Len(s) + 1 /\ Len(s) \in Nat
  OBVIOUS
<1>2. (\A i \in 1..Len(s) : t[i] = s[i]) /\ t[Len(s) + 1] = x
  OBVIOUS
<1>3. DOMAIN t = 1..(Len(s) + 1) /\ DOMAIN s = 1..Len(s)
  BY <1>1
<1> HIDE DEF t
<1>4. Last(t) = x
  BY <1>1, <1>2 DEF Last
<1>5. Front(t) = s
  <2>1. Front(t) \in Seq(S) /\ t = Append(Front(t), Last(t))
    BY <1>1, FrontFacts
  <2> QED
    BY <1>1, <1>4, <2>1, AppendInjective DEF t
<1>6. \A i \in DOMAIN t : t[i] = x \/ (i \in DOMAIN s /\ t[i] = s[i])
  BY <1>1, <1>2, <1>3
<1>7. \A i \in DOMAIN s : i \in DOMAIN t /\ t[i] = s[i]
  BY <1>1, <1>2, <1>3
<1>8. \E i \in DOMAIN t : t[i] = x
  BY <1>1, <1>2, <1>3
<1> QED
  BY <1>1, <1>4, <1>5, <1>6, <1>7, <1>8 DEF t

LEMMA WalkType ==
    ASSUME NEW S, NEW abs \in BOOLEAN, NEW kept \in Seq(S), NEW x \in S
    PROVE  Walk(abs, kept, x) \in Seq(S)
<1>1. Append(kept, x) \in Seq(S)
  OBVIOUS
<1>2. kept # <<>> => Front(kept) \in Seq(S)
  BY FrontFacts
<1>3. Walk(abs, kept, x) \in {kept, Append(kept, x)}
          \/ (kept # <<>> /\ Walk(abs, kept, x) = Front(kept))
  BY WalkOutcome, Zenon
<1> QED
  BY <1>1, <1>2, <1>3

LEMMA KeptType ==
    ASSUME NEW S, NEW abs \in BOOLEAN
    PROVE  \A s \in Seq(S) : Kept(abs, s) \in Seq(S)
<1> DEFINE T == {s \in Seq(S) : Kept(abs, s) \in Seq(S)}
<1>1. <<>> \in T
  <2>1. <<>> \in Seq(S)
    OBVIOUS
  <2> QED
    BY <2>1, KeptEmpty
<1>2. ASSUME NEW s \in Seq(S), NEW x \in S, s \in T PROVE Append(s, x) \in T
  <2>1. Append(s, x) \in Seq(S)
    OBVIOUS
  <2>2. Kept(abs, Append(s, x)) = Walk(abs, Kept(abs, s), x)
    BY KeptAppend
  <2>3. Kept(abs, s) \in Seq(S)
    BY <1>2
  <2>4. Walk(abs, Kept(abs, s), x) \in Seq(S)
    BY <2>3, WalkType
  <2> QED
    BY <2>1, <2>2, <2>4
<1> HIDE DEF T
<1>3. Seq(S) \subseteq T
  BY <1>1, <1>2, SeqInduct
<1> QED
  BY <1>3 DEF T

(* All parts of s are ordinary names, or at least neither "" nor ".". *)
Ordinary(s) == \A i \in DOMAIN s : s[i] \notin {"", ".", ".."}
Pointed(s)  == \A i \in DOMAIN s : s[i] \notin {"", "."}

LEMMA AppendOrdinary ==
    ASSUME NEW S, NEW s \in Seq(S), NEW x \in S
    PROVE  /\ Ordinary(Append(s, x)) <=> Ordinary(s) /\ x \notin {"", ".", ".."}
           /\ Pointed(Append(s, x)) <=> Pointed(s) /\ x \notin {"", "."}
<1> DEFINE t == Append(s, x)
<1>1. /\ \A i \in DOMAIN t : t[i] = x \/ (i \in DOMAIN s /\ t[i] = s[i])
      /\ \A i \in DOMAIN s : i \in DOMAIN t /\ t[i] = s[i]
      /\ \E i \in DOMAIN t : t[i] = x
  BY AppendFacts
<1> HIDE DEF t
<1>2. Ordinary(t) <=> Ordinary(s) /\ x \notin {"", ".", ".."}
  BY <1>1 DEF Ordinary
<1>3. Pointed(t) <=> Pointed(s) /\ x \notin {"", "."}
  BY <1>1 DEF Pointed
<1> QED
  BY <1>2, <1>3 DEF t

(* Clean leaves nothing odd in an absolute path. *)
LEMMA KeptOrdinary ==
    ASSUME NEW S
    PROVE  \A s \in Seq(S) : Ordinary(Kept(TRUE, s))
<1> DEFINE T == {s \in Seq(S) : Ordinary(Kept(TRUE, s))}
<1>1. <<>> \in T
  <2>1. <<>> \in Seq(S) /\ Ordinary(<<>>)
    BY DEF Ordinary
  <2> QED
    BY <2>1, KeptEmpty
<1>2. ASSUME NEW s \in Seq(S), NEW x \in S, s \in T PROVE Append(s, x) \in T
  <2> DEFINE k == Kept(TRUE, s)
  <2>1. Append(s, x) \in Seq(S) /\ Ordinary(k)
    <3>1. Append(s, x) \in Seq(S)
      OBVIOUS
    <3>2. Ordinary(k)
      BY <1>2, Zenon
    <3> QED
      BY <3>1, <3>2
  <2>2. Kept(TRUE, Append(s, x)) = Walk(TRUE, k, x)
    BY KeptAppend
  <2>3. k \in Seq(S)
    BY KeptType
  <2> HIDE DEF k
  <2>4. k # <<>> => Ordinary(Front(k))
    BY <2>1, <2>3, FrontFacts DEF Ordinary
  <2>5. x \notin {"", ".", ".."} => Ordinary(Append(k, x))
    BY <2>1, <2>3, AppendOrdinary
  <2>6. \/ Walk(TRUE, k, x) = k
        \/ k # <<>> /\ Walk(TRUE, k, x) = Front(k)
        \/ x \notin {"", ".", ".."} /\ Walk(TRUE, k, x) = Append(k, x)
    BY WalkOutcome
  <2> QED
    BY <2>1, <2>2, <2>4, <2>5, <2>6
<1> HIDE DEF T
<1>3. Seq(S) \subseteq T
  BY <1>1, <1>2, SeqInduct
<1> QED
  BY <1>3 DEF T

LEMMA KeptPointed ==
    ASSUME NEW S
    PROVE  \A s \in Seq(S) : Pointed(Kept(FALSE, s))
<1> DEFINE T == {s \in Seq(S) : Pointed(Kept(FALSE, s))}
<1>1. <<>> \in T
  <2>1. <<>> \in Seq(S) /\ Pointed(<<>>)
    BY DEF Pointed
  <2> QED
    BY <2>1, KeptEmpty
<1>2. ASSUME NEW s \in Seq(S), NEW x \in S, s \in T PROVE Append(s, x) \in T
  <2> DEFINE k == Kept(FALSE, s)
  <2>1. Append(s, x) \in Seq(S) /\ Pointed(k)
    <3>1. Append(s, x) \in Seq(S)
      OBVIOUS
    <3>2. Pointed(k)
      BY <1>2, Zenon
    <3> QED
      BY <3>1, <3>2
  <2>2. Kept(FALSE, Append(s, x)) = Walk(FALSE, k, x)
    BY KeptAppend
  <2>3. k \in Seq(S)
    BY KeptType
  <2> HIDE DEF k
  <2>4. k # <<>> => Pointed(Front(k))
    BY <2>1, <2>3, FrontFacts DEF Pointed
  <2>5. x \notin {"", "."} => Pointed(Append(k, x))
    BY <2>1, <2>3, AppendOrdinary
  <2>6. \/ Walk(FALSE, k, x) = k
        \/ k # <<>> /\ Walk(FALSE, k, x) = Front(k)
        \/ x \notin {"", "."} /\ Walk(FALSE, k, x) = Append(k, x)
    BY WalkOutcome
  <2> QED
    BY <2>1, <2>2, <2>4, <2>5, <2>6
<1> HIDE DEF T
<1>3. Seq(S) \subseteq T
  BY <1>1, <1>2, SeqInduct
<1> QED
  BY <1>3 DEF T

(* Clean leaves a path alone that goes straight down. *)
LEMMA OrdinaryKept ==
    ASSUME NEW S, NEW abs
    PROVE  \A s \in Seq(S) : Ordinary(s) => Kept(abs, s) = s
<1> DEFINE T == {s \in Seq(S) : Ordinary(s) => Kept(abs, s) = s}
<1>1. <<>> \in T
  <2>1. <<>> \in Seq(S)
    OBVIOUS
  <2> QED
    BY <2>1, KeptEmpty
<1>2. ASSUME NEW s \in Seq(S), NEW x \in S, s \in T PROVE Append(s, x) \in T
  <2>1. Append(s, x) \in Seq(S)
    OBVIOUS
  <2>2. ASSUME Ordinary(Append(s, x)) PROVE Kept(abs, Append(s, x)) = Append(s, x)
    <3>1. Ordinary(s) /\ x \notin {"", ".", ".."}
      BY <2>2, AppendOrdinary
    <3>2. Kept(abs, s) = s
      BY <1>2, <3>1
    <3>3. Kept(abs, Append(s, x)) = Walk(abs, s, x)
      BY <3>2, KeptAppend
    <3> QED
      BY <3>1, <3>3, WalkDown
  <2> QED
    BY <2>1, <2>2
<1> HIDE DEF T
<1>3. Seq(S) \subseteq T
  BY <1>1, <1>2, SeqInduct
<1> QED
  BY <1>3 DEF T

-----------------------------------------------------------------------------
(* Where the kernel gets. *)

(* A place with no link on the way to it. *)
Unlinked(r) == \A n \in 0..Len(r) : SubSeq(r, 1, n) \notin DOMAIN Links

RealPlace(r) == r \in Seq(Part) /\ Ordinary(r) /\ Unlinked(r)

LEMMA SamePrefix ==
    ASSUME NEW S, NEW s \in Seq(S), NEW t \in Seq(S), NEW n \in Nat,
           n <= Len(s), n <= Len(t), \A i \in 1..n : t[i] = s[i]
    PROVE  SubSeq(t, 1, n) = SubSeq(s, 1, n)
<1>1. SubSeq(t, 1, n) \in Seq(S) /\ SubSeq(s, 1, n) \in Seq(S)
  OBVIOUS
<1>2. Len(SubSeq(t, 1, n)) = n /\ Len(SubSeq(s, 1, n)) = n
  OBVIOUS
<1>3. \A i \in 1..n : SubSeq(t, 1, n)[i] = SubSeq(s, 1, n)[i]
  OBVIOUS
<1> QED
  BY <1>1, <1>2, <1>3, SeqEqual

LEMMA WholeSeq ==
    ASSUME NEW S, NEW s \in Seq(S)
    PROVE  SubSeq(s, 1, Len(s)) = s /\ Len(s) \in Nat /\ Len(s) \in 0..Len(s)
OBVIOUS

LEMMA FrontPrefix ==
    ASSUME NEW S, NEW s \in Seq(S), s # <<>>
    PROVE  /\ Len(Front(s)) \in Nat /\ Len(Front(s)) <= Len(s)
           /\ \A n \in 0..Len(Front(s)) :
                  n \in 0..Len(s) /\ SubSeq(Front(s), 1, n) = SubSeq(s, 1, n)
<1> DEFINE t == Front(s)
<1>1. t \in Seq(S) /\ Len(t) \in Nat /\ Len(s) \in Nat /\ Len(t) <= Len(s)
  BY FrontFacts DEF Front
<1>2. \A i \in 1..Len(t) : t[i] = s[i]
  BY <1>1, FrontFacts
<1> HIDE DEF t
<1>3. ASSUME NEW n \in 0..Len(t) PROVE n \in 0..Len(s) /\ SubSeq(t, 1, n) = SubSeq(s, 1, n)
  <2>1. n \in Nat /\ n <= Len(t) /\ n <= Len(s) /\ \A i \in 1..n : t[i] = s[i]
    BY <1>1, <1>2
  <2> QED
    BY <1>1, <2>1, SamePrefix
<1> QED
  BY <1>1, <1>3 DEF t

LEMMA AppendPrefix ==
    ASSUME NEW S, NEW s \in Seq(S), NEW x \in S, Unlinked(s), Append(s, x) \notin DOMAIN Links
    PROVE  Unlinked(Append(s, x))
<1> DEFINE t == Append(s, x)
<1>1. t \in Seq(S) /\ Len(t) = Len(s) + 1 /\ Len(s) \in Nat
  OBVIOUS
<1>2. \A i \in 1..Len(s) : t[i] = s[i]
  OBVIOUS
<1> HIDE DEF t
<1>3. SubSeq(t, 1, Len(t)) = t
  BY <1>1
<1>4. ASSUME NEW n \in 0..Len(s) PROVE SubSeq(t, 1, n) = SubSeq(s, 1, n)
  <2>1. n \in Nat /\ n <= Len(t) /\ n <= Len(s) /\ \A i \in 1..n : t[i] = s[i]
    BY <1>1, <1>2
  <2> QED
    BY <1>1, <2>1, SamePrefix
<1>5. \A n \in 0..Len(t) : n = Len(t) \/ n \in 0..Len(s)
  BY <1>1
<1>6. t \notin DOMAIN Links
  BY Zenon DEF t
<1>7. \A n \in 0..Len(t) : SubSeq(t, 1, n) \notin DOMAIN Links
  BY <1>3, <1>4, <1>5, <1>6, Zenon DEF Unlinked
<1> QED
  BY <1>7, Zenon DEF t, Unlinked

LEMMA RootReal == RealPlace(<<>>)
<1>1. <<>> \in Seq(Part) /\ Ordinary(<<>>)
  BY DEF Ordinary
<1>2. SubSeq(<<>>, 1, 0) = <<>> /\ \A n \in 0..Len(<<>>) : n = 0
  BY <1>1, SubSeqEmpty
<1>3. ASSUME <<>> \in DOMAIN Links PROVE FALSE
  <2> DEFINE to == Links[<<>>]
  <2>1. to \in Seq(Part) /\ \A n \in 0..Len(to) : SubSeq(to, 1, n) \notin DOMAIN Links
    BY <1>3, LinksAssumption
  <2> HIDE DEF to
  <2>2. SubSeq(to, 1, 0) \notin DOMAIN Links
    BY <2>1
  <2>3. SubSeq(to, 1, 0) = <<>>
    BY <2>1, SubSeqEmpty
  <2> QED
    BY <1>3, <2>2, <2>3
<1>4. Unlinked(<<>>)
  BY <1>2, <1>3, Zenon DEF Unlinked
<1> QED
  BY <1>1, <1>4, Zenon DEF RealPlace

LEMMA RealNoLink ==
    ASSUME NEW r, RealPlace(r)
    PROVE  r \notin DOMAIN Links
<1>1. r \in Seq(Part) /\ Unlinked(r)
  BY Zenon DEF RealPlace
<1>2. SubSeq(r, 1, Len(r)) = r /\ Len(r) \in 0..Len(r)
  BY <1>1, WholeSeq
<1> QED
  BY <1>1, <1>2, Zenon DEF Unlinked

LEMMA FrontReal ==
    ASSUME NEW r, RealPlace(r), r # <<>>
    PROVE  RealPlace(Front(r))
<1>1. r \in Seq(Part) /\ Ordinary(r) /\ Unlinked(r)
  BY Zenon DEF RealPlace
<1>2. Front(r) \in Seq(Part) /\ \A i \in DOMAIN Front(r) : i \in DOMAIN r /\ Front(r)[i] = r[i]
  BY <1>1, FrontFacts
<1>3. Ordinary(Front(r))
  BY <1>1, <1>2, Zenon DEF Ordinary
<1>4. \A n \in 0..Len(Front(r)) : n \in 0..Len(r) /\ SubSeq(Front(r), 1, n) = SubSeq(r, 1, n)
  BY <1>1, FrontPrefix
<1>5. Unlinked(Front(r))
  BY <1>1, <1>4, Zenon DEF Unlinked
<1> QED
  BY <1>2, <1>3, <1>5, Zenon DEF RealPlace

LEMMA AppendReal ==
    ASSUME NEW r, RealPlace(r), NEW x \in Part, x \notin {"", ".", ".."},
           Append(r, x) \notin DOMAIN Links
    PROVE  RealPlace(Append(r, x))
<1>1. r \in Seq(Part) /\ Ordinary(r) /\ Unlinked(r)
  BY Zenon DEF RealPlace
<1>2. Append(r, x) \in Seq(Part)
  BY <1>1, AppendFacts
<1>3. Ordinary(Append(r, x))
  BY <1>1, AppendOrdinary
<1>4. Unlinked(Append(r, x))
  BY <1>1, AppendPrefix
<1> QED
  BY <1>2, <1>3, <1>4, Zenon DEF RealPlace

LEMMA TargetReal ==
    ASSUME NEW from \in DOMAIN Links
    PROVE  RealPlace(Links[from])
<1> DEFINE to == Links[from]
<1>1. /\ to \in Seq(Part) /\ Straight(AbsPath(to))
      /\ \A n \in 0..Len(to) : SubSeq(to, 1, n) \notin DOMAIN Links
  BY LinksAssumption
<1> HIDE DEF to
<1>2. Ordinary(to)
  <2>1. AbsPath(to).segs = to
    BY DEF AbsPath
  <2> QED
    BY <1>1, <2>1 DEF Straight, Ordinary
<1> QED
  BY <1>1, <1>2, Zenon DEF RealPlace, Unlinked, to

LEMMA FollowReal ==
    ASSUME NEW r, RealPlace(r), NEW x \in Part
    PROVE  RealPlace(Follow(Links, TRUE, r, x))
<1> DEFINE next == Walk(TRUE, r, x)
<1>1. Follow(Links, TRUE, r, x) = IF next \in DOMAIN Links THEN Links[next] ELSE next
  BY DEF Follow
<1>2. \/ next = r
      \/ r # <<>> /\ next = Front(r)
      \/ x \notin {"", ".", ".."} /\ next = Append(r, x)
  BY WalkOutcome
<1> HIDE DEF next
<1>3. next \notin DOMAIN Links => RealPlace(next)
  BY <1>2, FrontReal, AppendReal
<1> QED
  BY <1>1, <1>3, TargetReal

LEMMA ReachedReal == \A s \in Seq(Part) : RealPlace(Reached(Links, TRUE, s))
<1> DEFINE T == {s \in Seq(Part) : RealPlace(Reached(Links, TRUE, s))}
<1>1. <<>> \in T
  <2>1. <<>> \in Seq(Part)
    OBVIOUS
  <2>2. Reached(Links, TRUE, <<>>) = <<>>
    BY ReachedEmpty, Zenon
  <2> QED
    BY <2>1, <2>2, RootReal
<1>2. ASSUME NEW s \in Seq(Part), NEW x \in Part, s \in T PROVE Append(s, x) \in T
  <2>1. Append(s, x) \in Seq(Part)
    OBVIOUS
  <2>2. RealPlace(Reached(Links, TRUE, s))
    BY <1>2, Zenon
  <2>3. RealPlace(Follow(Links, TRUE, Reached(Links, TRUE, s), x))
    BY <2>2, FollowReal
  <2>4. Reached(Links, TRUE, Append(s, x)) = Follow(Links, TRUE, Reached(Links, TRUE, s), x)
    BY ReachedStep
  <2> QED
    BY <2>1, <2>3, <2>4
<1> HIDE DEF T
<1>3. Seq(Part) \subseteq T
  BY <1>1, <1>2, SeqInduct
<1> QED
  BY <1>3 DEF T

(* Below a directory dir, the part x of a path leaves a directory that the  *)
(* parts s before it entered by a link; some part of a path does.           *)
Leaving(abs, dir, s, x) ==
    /\ x = ".." /\ Kept(abs, s) # <<>> /\ Last(Kept(abs, s)) # ".."
    /\ Append(Reached(Links, TRUE, dir \o Front(Kept(abs, s))), Last(Kept(abs, s)))
           \in DOMAIN Links

Crossing(abs, dir, s) ==
    \E n \in DOMAIN s : Leaving(abs, dir, SubSeq(s, 1, n - 1), s[n])

LEMMA CrossingAppend ==
    ASSUME NEW abs, NEW dir, NEW s \in Seq(Part), NEW x \in Part,
           ~Crossing(abs, dir, Append(s, x))
    PROVE  ~Crossing(abs, dir, s) /\ ~Leaving(abs, dir, s, x)
<1> DEFINE t == Append(s, x)
<1>1. /\ t \in Seq(Part) /\ Len(t) = Len(s) + 1 /\ Len(s) \in Nat
      /\ DOMAIN t = 1..(Len(s) + 1) /\ DOMAIN s = 1..Len(s)
  OBVIOUS
<1>2. (\A i \in 1..Len(s) : t[i] = s[i]) /\ t[Len(s) + 1] = x
  OBVIOUS
<1> HIDE DEF t
<1>3. ASSUME NEW n \in 0..Len(s) PROVE SubSeq(t, 1, n) = SubSeq(s, 1, n)
  <2>1. SubSeq(t, 1, n) \in Seq(Part) /\ SubSeq(s, 1, n) \in Seq(Part)
    BY <1>1
  <2>2. Len(SubSeq(t, 1, n)) = n /\ Len(SubSeq(s, 1, n)) = n
    BY <1>1
  <2>3. \A i \in 1..n : SubSeq(t, 1, n)[i] = SubSeq(s, 1, n)[i]
    BY <1>1, <1>2
  <2> QED
    BY <2>1, <2>2, <2>3, SeqEqual
<1>4. \A n \in DOMAIN t : ~Leaving(abs, dir, SubSeq(t, 1, n - 1), t[n])
  BY DEF Crossing, t
<1>5. ASSUME NEW n \in DOMAIN s PROVE ~Leaving(abs, dir, SubSeq(s, 1, n - 1), s[n])
  <2>1. n \in DOMAIN t /\ n - 1 \in 0..Len(s) /\ t[n] = s[n]
    BY <1>1, <1>2
  <2>2. SubSeq(t, 1, n - 1) = SubSeq(s, 1, n - 1)
    BY <1>3, <2>1
  <2> QED
    BY <1>4, <2>1, <2>2
<1>6. ~Leaving(abs, dir, s, x)
  <2> DEFINE n == Len(s) + 1
  <2>1. n \in DOMAIN t /\ n - 1 = Len(s) /\ Len(s) \in 0..Len(s)
    BY <1>1
  <2>2. SubSeq(t, 1, n - 1) = SubSeq(s, 1, Len(s)) /\ SubSeq(s, 1, Len(s)) = s
    BY <1>3, <2>1
  <2> HIDE DEF n
  <2>3. SubSeq(t, 1, n - 1) = s
    BY <2>2
  <2>4. t[n] = x
    BY <1>2 DEF n
  <2> QED
    BY <1>4, <2>1, <2>3, <2>4
<1> QED
  BY <1>5, <1>6 DEF Crossing

(* Unless it leaves a directory entered by a link, a path leads to the same *)
(* place before and after Clean.                                            *)
LEMMA CleanReaches ==
    ASSUME NEW abs \in BOOLEAN, NEW dir \in Seq(Part), abs = TRUE => dir = <<>>
    PROVE  \A s \in Seq(Part) : ~Crossing(abs, dir, s) =>
               Reached(Links, TRUE, dir \o Kept(abs, s)) = Reached(Links, TRUE, dir \o s)
<1> DEFINE at(s) == Reached(Links, TRUE, dir \o s)
           T == {s \in Seq(Part) : ~Crossing(abs, dir, s) => at(Kept(abs, s)) = at(s)}
<1>1. <<>> \in T
  <2>1. <<>> \in Seq(Part)
    OBVIOUS
  <2>2. Kept(abs, <<>>) = <<>>
    BY KeptEmpty, Zenon
  <2> QED
    BY <2>1, <2>2
<1>2. ASSUME NEW s \in Seq(Part), NEW x \in Part
      PROVE  at(Append(s, x)) = Follow(Links, TRUE, at(s), x)
  <2>1. dir \o s \in Seq(Part) /\ dir \o Append(s, x) = Append(dir \o s, x)
    <3>1. dir \o s \in Seq(Part) /\ <<x>> \in Seq(Part)
      OBVIOUS
    <3>2. dir \o Append(s, x) = dir \o (s \o <<x>>)
      BY AppendIsConcat
    <3>3. dir \o (s \o <<x>>) = (dir \o s) \o <<x>>
      BY <3>1, ConcatAssociative
    <3>4. (dir \o s) \o <<x>> = Append(dir \o s, x)
      BY <3>1, AppendIsConcat
    <3> QED
      BY <3>1, <3>2, <3>3, <3>4
  <2>2. Reached(Links, TRUE, Append(dir \o s, x))
            = Follow(Links, TRUE, Reached(Links, TRUE, dir \o s), x)
    BY <2>1, ReachedStep
  <2> QED
    BY <2>1, <2>2
<1>3. ASSUME NEW s \in Seq(Part) PROVE RealPlace(at(s))
  <2>1. dir \o s \in Seq(Part)
    OBVIOUS
  <2> QED
    BY <2>1, ReachedReal
<1>4. abs = TRUE => at(<<>>) = <<>>
  <2>1. <<>> \o <<>> = <<>>
    OBVIOUS
  <2> QED
    BY <2>1, ReachedEmpty
<1>5. ASSUME NEW s \in Seq(Part), NEW x, ~Leaving(abs, dir, s, x),
             x = "..", Kept(abs, s) # <<>>, Last(Kept(abs, s)) # ".."
      PROVE  Append(at(Front(Kept(abs, s))), Last(Kept(abs, s))) \notin DOMAIN Links
  BY <1>5, Zenon DEF Leaving
<1> HIDE DEF at
<1>6. ASSUME NEW s \in Seq(Part), NEW x \in Part, s \in T PROVE Append(s, x) \in T
  <2>1. Append(s, x) \in Seq(Part)
    OBVIOUS
  <2> SUFFICES ASSUME ~Crossing(abs, dir, Append(s, x))
               PROVE  at(Kept(abs, Append(s, x))) = at(Append(s, x))
    BY <2>1
  <2>2. ~Crossing(abs, dir, s) /\ ~Leaving(abs, dir, s, x)
    BY CrossingAppend
  <2> DEFINE k == Kept(abs, s)
  <2>3. at(k) = at(s)
    BY <1>6, <2>2, Zenon
  <2>4. k \in Seq(Part)
    BY KeptType
  <2>5. Pointed(k) /\ (abs = TRUE => Ordinary(k))
    BY KeptPointed, KeptOrdinary DEF Pointed, Ordinary
  <2>6. Kept(abs, Append(s, x)) = Walk(abs, k, x)
    BY KeptAppend
  <2>7. x = ".." /\ k # <<>> /\ Last(k) # ".." =>
            Append(at(Front(k)), Last(k)) \notin DOMAIN Links
    BY <1>5, <2>2, Zenon
  <2> HIDE DEF k
  <2>8. at(Append(s, x)) = Follow(Links, TRUE, at(k), x)
    BY <1>2, <2>3
  <2>9. RealPlace(at(k)) /\ at(k) \notin DOMAIN Links
    BY <1>3, <2>4, RealNoLink
  <2>10. ASSUME x \in {"", "."} PROVE at(Walk(abs, k, x)) = at(Append(s, x))
    <3>1. Walk(abs, k, x) = k /\ Walk(TRUE, at(k), x) = at(k)
      BY <2>10, WalkSkips
    <3> QED
      BY <2>8, <2>9, <3>1 DEF Follow
  <2>11. ASSUME Walk(abs, k, x) = Append(k, x)
         PROVE  at(Walk(abs, k, x)) = at(Append(s, x))
    BY <2>11, <2>4, <2>8, <1>2
  <2>12. ASSUME x = "..", k # <<>>, Last(k) # ".."
         PROVE  at(Walk(abs, k, x)) = at(Append(s, x))
    <3>1. Front(k) \in Seq(Part) /\ Last(k) \in Part /\ k = Append(Front(k), Last(k))
          /\ Len(k) \in DOMAIN k
      BY <2>4, <2>12, FrontFacts
    <3>2. Last(k) \notin {"", ".", ".."}
      BY <2>5, <2>12, <3>1 DEF Pointed, Last
    <3>3. RealPlace(at(Front(k))) /\ at(Front(k)) \notin DOMAIN Links
          /\ at(Front(k)) \in Seq(Part)
      BY <1>3, <3>1, RealNoLink DEF RealPlace
    <3>4. at(k) = Append(at(Front(k)), Last(k))
      <4>1. at(Append(Front(k), Last(k))) = Follow(Links, TRUE, at(Front(k)), Last(k))
        BY <3>1, <1>2
      <4>2. Walk(TRUE, at(Front(k)), Last(k)) = Append(at(Front(k)), Last(k))
        BY <3>2, WalkDown
      <4> QED
        BY <2>7, <2>12, <3>1, <4>1, <4>2 DEF Follow
    <3>5. at(k) # <<>> /\ Last(at(k)) = Last(k) /\ Front(at(k)) = at(Front(k))
      BY <3>1, <3>3, <3>4, AppendFacts
    <3>6. Walk(TRUE, at(k), "..") = at(Front(k))
      BY <3>5, <2>12, WalkBack
    <3>7. Walk(abs, k, "..") = Front(k)
      BY <2>12, WalkBack
    <3> QED
      BY <3>3, <3>6, <3>7, <2>8, <2>12 DEF Follow
  <2>13. ASSUME abs = TRUE, x = "..", k = <<>> \/ Last(k) = ".."
         PROVE  at(Walk(abs, k, x)) = at(Append(s, x))
    <3>1. k = <<>>
      <4> SUFFICES ASSUME k # <<>> PROVE FALSE
        OBVIOUS
      <4>1. Len(k) \in DOMAIN k
        BY <2>4, FrontFacts
      <4> QED
        BY <2>5, <2>13, <4>1 DEF Ordinary, Last
    <3>2. Walk(TRUE, <<>>, "..") = <<>>
      BY WalkAtRoot
    <3>3. at(k) = <<>> /\ <<>> \notin DOMAIN Links
      BY <1>4, <2>9, <2>13, <3>1
    <3> QED
      BY <2>8, <2>13, <3>1, <3>2, <3>3 DEF Follow
  <2>14. \/ x \in {"", "."}
         \/ Walk(abs, k, x) = Append(k, x)
         \/ x = ".." /\ k # <<>> /\ Last(k) # ".."
         \/ abs = TRUE /\ x = ".." /\ (k = <<>> \/ Last(k) = "..")
    <3>1. x \notin {"", ".", ".."} => Walk(abs, k, x) = Append(k, x)
      BY WalkDown, Zenon
    <3>2. abs = FALSE /\ x = ".." /\ (k = <<>> \/ Last(k) = "..")
              => Walk(abs, k, x) = Append(k, x)
      BY WalkAtRoot, Zenon
    <3>3. abs = TRUE \/ abs = FALSE
      OBVIOUS
    <3> QED
      BY <3>1, <3>2, <3>3
  <2>15. at(Walk(abs, k, x)) = at(Append(s, x))
    BY <2>10, <2>11, <2>12, <2>13, <2>14
  <2> QED
    BY <2>6, <2>15
<1> HIDE DEF T
<1>7. Seq(Part) \subseteq T
  BY <1>1, <1>6, SeqInduct
<1> QED
  BY <1>7 DEF T, at

-----------------------------------------------------------------------------
(* Clean, Join and Abs. *)

LEMMA PathFacts ==
    ASSUME NEW p \in Path
    PROVE  /\ p.abs \in BOOLEAN /\ p.segs \in Seq(Part)
           /\ p = [abs |-> p.abs, segs |-> p.segs]
           /\ Straight(p) <=> p.abs /\ Ordinary(p.segs)
           /\ \A s \in Seq(Part) :
                  [p EXCEPT !.segs = s] = [abs |-> p.abs, segs |-> s]
<1>1. p.abs \in BOOLEAN /\ p.segs \in Seq(Part) /\ p = [abs |-> p.abs, segs |-> p.segs]
  BY DEF Path
<1>2. Straight(p) <=> p.abs /\ Ordinary(p.segs)
  BY DEF Straight, Ordinary
<1>3. \A s \in Seq(Part) : [p EXCEPT !.segs = s] = [abs |-> p.abs, segs |-> s]
  BY DEF Path
<1> QED
  BY <1>1, <1>2, <1>3

(* Clean makes of an absolute path one that goes straight down. *)
LEMMA CleanAbs ==
    ASSUME NEW p \in Path, p.abs
    PROVE  /\ Clean(p) = [abs |-> TRUE, segs |-> Kept(TRUE, p.segs)]
           /\ Clean(p) \in Path /\ Straight(Clean(p))
<1>1. p.abs = TRUE /\ p.segs \in Seq(Part)
  BY PathFacts
<1>2. Kept(TRUE, p.segs) \in Seq(Part)
  BY <1>1, KeptType
<1>3. Ordinary(Kept(TRUE, p.segs))
  BY <1>1, KeptOrdinary
<1>4. Clean(p) = [p EXCEPT !.segs = Kept(TRUE, p.segs)]
  BY <1>1 DEF Clean
<1>5. Clean(p) = [abs |-> TRUE, segs |-> Kept(TRUE, p.segs)]
  BY <1>1, <1>2, <1>4, PathFacts
<1>6. \A s \in Seq(Part) : [abs |-> TRUE, segs |-> s] \in Path
  BY DEF Path
<1>7. Clean(p) \in Path
  BY <1>2, <1>5, <1>6, Zenon
<1>8. Clean(p).abs = TRUE /\ Clean(p).segs = Kept(TRUE, p.segs)
  BY <1>5
<1> QED
  BY <1>3, <1>5, <1>7, <1>8, PathFacts

(* And of a relative path a relative one. *)
LEMMA CleanRel ==
    ASSUME NEW p \in Path, ~p.abs
    PROVE  /\ Clean(p) = [abs |-> FALSE,
                          segs |-> IF Kept(FALSE, p.segs) = <<>> THEN <<".">>
                                   ELSE Kept(FALSE, p.segs)]
           /\ Clean(p) \in Path /\ Clean(p).abs = FALSE
           /\ Clean(p).segs = IF Kept(FALSE, p.segs) = <<>> THEN <<".">>
                              ELSE Kept(FALSE, p.segs)
<1> DEFINE k == Kept(FALSE, p.segs)
           segs == IF k = <<>> THEN <<".">> ELSE k
<1>1. p.abs = FALSE /\ p.segs \in Seq(Part)
  BY PathFacts
<1>2. k \in Seq(Part)
  BY <1>1, KeptType
<1>3. segs \in Seq(Part)
  <2>1. "." \in Part
    BY DEF Part
  <2>2. <<".">> \in Seq(Part)
    BY <2>1
  <2> QED
    BY <1>2, <2>2
<1>4. Clean(p) = [p EXCEPT !.segs = segs]
  BY <1>1 DEF Clean
<1>5. Clean(p) = [abs |-> FALSE, segs |-> segs]
  BY <1>1, <1>3, <1>4, PathFacts
<1> HIDE DEF segs
<1>6. Clean(p) \in Path /\ Clean(p).abs = FALSE /\ Clean(p).segs = segs
  BY <1>3, <1>5 DEF Path
<1> QED
  BY <1>5, <1>6 DEF segs

(* The paths that validateBinaryPath accepts are the straight ones. *)
LEMMA ValidIsStraight ==
    ASSUME NEW p \in Path
    PROVE  validateBinaryPath(p) <=> Straight(p)
<1>1. ASSUME validateBinaryPath(p) PROVE Straight(p)
  BY <1>1, CleanAbs DEF validateBinaryPath, IsAbs
<1>2. ASSUME Straight(p) PROVE validateBinaryPath(p)
  <2>1. p.abs /\ Ordinary(p.segs) /\ p.segs \in Seq(Part)
    BY <1>2, PathFacts
  <2>2. Kept(TRUE, p.segs) = p.segs
    BY <2>1, OrdinaryKept
  <2>3. Clean(p) = [abs |-> TRUE, segs |-> p.segs]
    BY <2>1, <2>2, CleanAbs
  <2>4. p = [abs |-> TRUE, segs |-> p.segs]
    BY <2>1, PathFacts
  <2> QED
    BY <2>1, <2>3, <2>4 DEF validateBinaryPath, IsAbs
<1> QED
  BY <1>1, <1>2

(* Join below an absolute directory. *)
LEMMA JoinFacts ==
    ASSUME NEW dir \in Path, dir.abs, NEW p \in Path
    PROVE  /\ Join(dir, p) = [abs |-> TRUE, segs |-> Kept(TRUE, dir.segs \o p.segs)]
           /\ Join(dir, p) \in Path /\ Straight(Join(dir, p))
<1> DEFINE q == [abs |-> TRUE, segs |-> dir.segs \o p.segs]
<1>1. dir.segs \in Seq(Part) /\ p.segs \in Seq(Part) /\ dir.abs = TRUE
  BY PathFacts
<1>2. dir.segs \o p.segs \in Seq(Part)
  BY <1>1
<1>3. [dir EXCEPT !.segs = @ \o p.segs] = q
  BY <1>1, <1>2, PathFacts
<1>4. q \in Path /\ q.abs /\ q.segs = dir.segs \o p.segs
  BY <1>2 DEF Path
<1>5. Join(dir, p) = Clean(q)
  BY <1>3 DEF Join
<1> HIDE DEF q
<1> QED
  BY <1>4, <1>5, CleanAbs

LEMMA AbsFacts ==
    ASSUME NEW p \in Path
    PROVE  Abs(Cwd, p) \in Path /\ Straight(Abs(Cwd, p))
<1>1. CASE p.abs
  BY <1>1, CleanAbs DEF Abs
<1>2. CASE ~p.abs
  BY <1>2, JoinFacts, DirsAssumption DEF Abs, IsAbs
<1> QED
  BY <1>1, <1>2

(* Where a path of either kind is looked up. *)
DirOf(p) == IF p.abs THEN <<>> ELSE Cwd.segs

LEMMA PlaceFacts ==
    ASSUME NEW p \in Path
    PROVE  /\ DirOf(p) \in Seq(Part) /\ (p.abs = TRUE => DirOf(p) = <<>>)
           /\ InDir(Cwd, p) \in Path /\ InDir(Cwd, p).abs = TRUE
           /\ InDir(Cwd, p).segs = DirOf(p) \o p.segs
           /\ Place(Links, Cwd, p) = Reached(Links, TRUE, DirOf(p) \o p.segs)
           /\ Place(Links, Cwd, InDir(Cwd, p)) = Place(Links, Cwd, p)
<1>1. p.abs \in BOOLEAN /\ p.segs \in Seq(Part) /\ Cwd.segs \in Seq(Part)
  BY PathFacts, DirsAssumption
<1>2. DirOf(p) \in Seq(Part) /\ (p.abs = TRUE => DirOf(p) = <<>>)
  BY <1>1 DEF DirOf
<1>3. \A s \in Seq(Part) : /\ AbsPath(s) \in Path /\ AbsPath(s).abs = TRUE
                           /\ AbsPath(s).segs = s
  BY DEF AbsPath, Path
<1>4. /\ InDir(Cwd, p) \in Path /\ InDir(Cwd, p).abs = TRUE
      /\ InDir(Cwd, p).segs = DirOf(p) \o p.segs
  <2>1. CASE p.abs
    <3>1. InDir(Cwd, p) = p /\ DirOf(p) = <<>> /\ p.abs = TRUE
      BY <1>1, <2>1 DEF InDir, DirOf
    <3>2. <<>> \o p.segs = p.segs
      BY <1>1
    <3> QED
      BY <3>1, <3>2
  <2>2. CASE ~p.abs
    <3>1. InDir(Cwd, p) = AbsPath(Cwd.segs \o p.segs) /\ DirOf(p) = Cwd.segs
      BY <2>2 DEF InDir, DirOf
    <3>2. Cwd.segs \o p.segs \in Seq(Part)
      BY <1>1
    <3> DEFINE t == Cwd.segs \o p.segs
    <3> HIDE DEF t
    <3>3. t \in Seq(Part) /\ InDir(Cwd, p) = AbsPath(t)
      BY <3>1, <3>2 DEF t
    <3>4. InDir(Cwd, p) \in Path /\ InDir(Cwd, p).abs = TRUE /\ InDir(Cwd, p).segs = t
      BY <1>3, <3>3
    <3> QED
      BY <3>1, <3>4 DEF t
  <2> QED
    BY <2>1, <2>2
<1>5. InDir(Cwd, InDir(Cwd, p)) = InDir(Cwd, p)
  <2> DEFINE q == InDir(Cwd, p)
  <2>1. q.abs = TRUE
    BY <1>4
  <2> HIDE DEF q
  <2>2. InDir(Cwd, q) = q
    BY <2>1 DEF InDir
  <2> QED
    BY <2>2 DEF q
<1> QED
  BY <1>2, <1>4, <1>5 DEF Place

LEMMA CrossingLeaves ==
    ASSUME NEW p \in Path
    PROVE  LeavesLink(Links, Cwd, p) <=> Crossing(p.abs, DirOf(p), p.segs)
<1> SUFFICES ASSUME NEW n \in DOMAIN p.segs
             PROVE  LET dir == Kept(p.abs, SubSeq(p.segs, 1, n - 1))
                        at  == Place(Links, Cwd, [p EXCEPT !.segs = Front(dir)])
                    IN  (/\ p.segs[n] = ".." /\ dir # <<>> /\ Last(dir) # ".."
                         /\ Append(at, Last(dir)) \in DOMAIN Links)
                        <=> Leaving(p.abs, DirOf(p), SubSeq(p.segs, 1, n - 1), p.segs[n])
  BY DEF LeavesLink, Crossing
<1> DEFINE before == SubSeq(p.segs, 1, n - 1)
           dir == Kept(p.abs, before)
           q == [p EXCEPT !.segs = Front(dir)]
<1>1. p.abs \in BOOLEAN /\ p.segs \in Seq(Part) /\ n \in 1..Len(p.segs)
  BY PathFacts
<1>2. before \in Seq(Part)
  BY <1>1
<1>3. dir \in Seq(Part)
  BY <1>1, <1>2, KeptType
<1> HIDE DEF before, dir
<1>4. ASSUME dir # <<>>
      PROVE  Place(Links, Cwd, q) = Reached(Links, TRUE, DirOf(p) \o Front(dir))
  <2>1. Front(dir) \in Seq(Part)
    BY <1>3, <1>4, FrontFacts
  <2>2. q = [abs |-> p.abs, segs |-> Front(dir)]
    BY <2>1, PathFacts
  <2>3. q \in Path /\ q.abs = p.abs /\ q.segs = Front(dir)
    BY <1>1, <2>1, <2>2 DEF Path
  <2> HIDE DEF q
  <2>4. DirOf(q) = DirOf(p)
    BY <2>3 DEF DirOf
  <2> QED
    BY <2>3, <2>4, PlaceFacts
<1> QED
  BY <1>4 DEF Leaving, before, dir

(* Clean names the same file, unless it leaves a link. *)
LEMMA CleanPlace ==
    ASSUME NEW p \in Path
    PROVE  /\ Clean(p) \in Path /\ Clean(p).abs = p.abs
           /\ \/ Place(Links, Cwd, Clean(p)) = Place(Links, Cwd, p)
              \/ LeavesLink(Links, Cwd, p)
<1> DEFINE k == Kept(p.abs, p.segs)
           d == DirOf(p)
           c == Clean(p)
<1>1. /\ p.abs \in BOOLEAN /\ p.segs \in Seq(Part) /\ d \in Seq(Part)
      /\ (p.abs = TRUE => d = <<>>)
  BY PathFacts, PlaceFacts
<1>2. k \in Seq(Part)
  BY <1>1, KeptType
<1>3. c \in Path /\ c.abs = p.abs /\ (c.segs = k \/ (k = <<>> /\ c.segs = <<".">>))
  <2>1. CASE p.abs
    <3>1. p.abs = TRUE
      BY <1>1, <2>1
    <3>2. c = [abs |-> TRUE, segs |-> k] /\ c \in Path
      BY <2>1, <3>1, CleanAbs
    <3> HIDE DEF c, k
    <3> QED
      BY <3>1, <3>2
  <2>2. CASE ~p.abs
    <3>1. p.abs = FALSE
      BY <1>1, <2>2
    <3>2. c \in Path /\ c.abs = FALSE /\ c.segs = IF k = <<>> THEN <<".">> ELSE k
      BY <2>2, <3>1, CleanRel
    <3> HIDE DEF c, k
    <3> QED
      BY <3>1, <3>2
  <2> QED
    BY <2>1, <2>2
<1>4. ~LeavesLink(Links, Cwd, p) =>
          Reached(Links, TRUE, d \o k) = Reached(Links, TRUE, d \o p.segs)
  BY <1>1, CleanReaches, CrossingLeaves
<1>5. k = <<>> => Reached(Links, TRUE, d \o <<".">>) = Reached(Links, TRUE, d \o k)
  <2> HIDE DEF d, k
  <2>1. d \o <<>> = d
    BY <1>1, ConcatEmptySeq
  <2>2. d \o <<".">> = Append(d, ".")
    BY <1>1, AppendIsConcat
  <2>3. Reached(Links, TRUE, Append(d, ".")) = Follow(Links, TRUE, Reached(Links, TRUE, d), ".")
    <3>1. "." \in Part
      BY DEF Part
    <3> QED
      BY <1>1, <3>1, ReachedStep
  <2>4. Walk(TRUE, Reached(Links, TRUE, d), ".") = Reached(Links, TRUE, d)
    BY WalkSkips
  <2>5. Reached(Links, TRUE, d) \notin DOMAIN Links
    BY <1>1, ReachedReal, RealNoLink
  <2> QED
    BY <2>1, <2>2, <2>3, <2>4, <2>5 DEF Follow
<1>6. Place(Links, Cwd, p) = Reached(Links, TRUE, d \o p.segs)
  BY PlaceFacts
<1>7. Place(Links, Cwd, c) = Reached(Links, TRUE, d \o c.segs)
  <2>1. DirOf(c) = d
    BY <1>3 DEF DirOf
  <2> HIDE DEF c, d
  <2> QED
    BY <1>3, <2>1, PlaceFacts
<1> HIDE DEF c, d, k
<1>8. ~LeavesLink(Links, Cwd, p) => Place(Links, Cwd, c) = Place(Links, Cwd, p)
  BY <1>3, <1>4, <1>5, <1>6, <1>7
<1> QED
  BY <1>3, <1>8 DEF c

(* Abs is Clean after the working directory is put in front. *)
LEMMA AbsPlace ==
    ASSUME NEW p \in Path
    PROVE  /\ Abs(Cwd, p) \in Path /\ Abs(Cwd, p).abs = TRUE
           /\ \/ Place(Links, Cwd, Abs(Cwd, p)) = Place(Links, Cwd, p)
              \/ LeavesLink(Links, Cwd, InDir(Cwd, p))
<1> DEFINE q == InDir(Cwd, p)
<1>1. q \in Path /\ q.abs = TRUE /\ Place(Links, Cwd, q) = Place(Links, Cwd, p)
  BY PlaceFacts
<1>2. Abs(Cwd, p) = Clean(q)
  <2>1. CASE p.abs
    BY <2>1 DEF Abs, InDir
  <2>2. CASE ~p.abs
    <3>1. Cwd \in Path /\ Cwd.abs = TRUE /\ Cwd.segs \in Seq(Part) /\ p.segs \in Seq(Part)
      BY PathFacts, DirsAssumption DEF IsAbs
    <3>2. Cwd.segs \o p.segs \in Seq(Part)
      BY <3>1
    <3>3. [Cwd EXCEPT !.segs = @ \o p.segs] = [abs |-> TRUE, segs |-> Cwd.segs \o p.segs]
      BY <3>1, <3>2, PathFacts
    <3> QED
      BY <2>2, <3>3 DEF Abs, Join, InDir, AbsPath
  <2> QED
    BY <2>1, <2>2
<1> HIDE DEF q
<1>3. /\ Clean(q) \in Path /\ Clean(q).abs = q.abs
      /\ \/ Place(Links, Cwd, Clean(q)) = Place(Links, Cwd, q)
         \/ LeavesLink(Links, Cwd, q)
  BY <1>1, CleanPlace
<1> QED
  BY <1>1, <1>2, <1>3 DEF q

-----------------------------------------------------------------------------
(* Admission. *)

(* Whatever is stored was found valid, whatever was refused was not. *)
AdmissionInv ==
    /\ stored \in Specs \cup {None} /\ refused \in Specs \cup {None}
    /\ stored # None => validateProfile(stored)
    /\ refused # None => ~validateProfile(refused)

LEMMA AdmissionStep ==
    ASSUME AdmissionInv, AdmissionNext
    PROVE  AdmissionInv'
<1>1. CASE Release
  BY <1>1 DEF AdmissionInv, Release
<1>2. ASSUME NEW spec \in Specs, Create(spec) \/ Update(spec) PROVE AdmissionInv'
  <2>1. stored' = spec /\ refused' = refused /\ validateProfile(spec)
    BY <1>2 DEF Create, Update, ValidateCreate, ValidateUpdate
  <2> QED
    BY <2>1 DEF AdmissionInv
<1>3. ASSUME NEW spec \in Specs, Refuse(spec) PROVE AdmissionInv'
  <2>1. refused' = spec /\ stored' = stored /\ ~validateProfile(spec)
    BY <1>3 DEF Refuse, ValidateCreate, ValidateUpdate
  <2> QED
    BY <2>1 DEF AdmissionInv
<1> QED
  BY <1>1, <1>2, <1>3 DEF AdmissionNext

LEMMA StoredFacts ==
    ASSUME AdmissionInv, stored # None,
           NEW container \in DOMAIN stored, NEW binary \in DOMAIN stored[container]
    PROVE  /\ binary \in Path /\ Straight(binary)
           /\ stored[container][binary] \in [Levels -> SUBSET Path]
           /\ validateNoOverlappingPaths(stored[container][binary])
           /\ \A level \in Levels : \A path \in stored[container][binary][level] :
                  path \in Path /\ Straight(path)
<1>1. stored \in Specs /\ validateProfile(stored)
  BY DEF AdmissionInv
<1>2. binary \in Path /\ stored[container][binary] \in [Levels -> SUBSET Path]
  BY <1>1, SpecsAssumption
<1>3. /\ validateBinaryPath(binary)
      /\ validateNoOverlappingPaths(stored[container][binary])
      /\ validateLevels(stored[container][binary])
  BY <1>1 DEF validateProfile
<1>4. \A level \in Levels : \A path \in stored[container][binary][level] :
          path \in Path /\ validateBinaryPath(path)
  BY <1>2, <1>3 DEF validateLevels
<1> QED
  BY <1>2, <1>3, <1>4, ValidIsStraight

(* The six comparisons cover every pair of lists. *)
LEMMA OneLevel ==
    ASSUME NEW profile, validateNoOverlappingPaths(profile),
           NEW l1 \in Levels, NEW l2 \in Levels, l1 # l2
    PROVE  profile[l1] \cap profile[l2] = {}
<1>1. <<l1, l2>> \in Overlaps \/ <<l2, l1>> \in Overlaps
  BY DEF Levels, Overlaps
<1>2. ASSUME NEW m1, NEW m2, <<m1, m2>> \in Overlaps
      PROVE  profile[m1] \cap profile[m2] = {}
  BY <1>2 DEF validateNoOverlappingPaths
<1> QED
  BY <1>1, <1>2

LEMMA PrefixFacts ==
    ASSUME NEW S, NEW s \in Seq(S), NEW t \in Seq(S)
    PROVE  IsPrefix(s, t) <=> Len(s) <= Len(t) /\ \A i \in 1..Len(s) : s[i] = t[i]
<1>1. Len(s) \in Nat /\ Len(t) \in Nat /\ SubSeq(s, 1, Len(s)) = s
  OBVIOUS
<1>2. ASSUME Len(s) <= Len(t)
      PROVE  s = SubSeq(t, 1, Len(s)) <=> \A i \in 1..Len(s) : s[i] = t[i]
  <2> DEFINE u == SubSeq(t, 1, Len(s))
  <2>1. u \in Seq(S) /\ Len(u) = Len(s) /\ \A i \in 1..Len(s) : u[i] = t[i]
    BY <1>1, <1>2
  <2> HIDE DEF u
  <2>2. (\A i \in 1..Len(s) : s[i] = u[i]) => s = u
    BY <2>1, SeqEqual
  <2>3. s = u <=> \A i \in 1..Len(s) : s[i] = t[i]
    BY <2>1, <2>2
  <2> QED
    BY <2>3 DEF u
<1> QED
  BY <1>1, <1>2 DEF IsPrefix

LEMMA GrantedStored == AdmissionInv => GrantedAsListed
<1> SUFFICES ASSUME AdmissionInv, stored # None,
                    NEW container \in DOMAIN stored,
                    NEW binary \in DOMAIN stored[container],
                    NEW level \in Levels, NEW path \in stored[container][binary][level]
             PROVE  LET profile == stored[container][binary]
                        above == {l \in Levels : \E dir \in profile[l] :
                                     IsStrictPrefix(dir.segs, path.segs)}
                    IN  ProfileToLandlockRules(profile, path)
                            = AccessFile[level] \cup UNION {AccessFile[l] : l \in above}
  BY DEF GrantedAsListed, StoredBinaries
<1> DEFINE profile == stored[container][binary]
           above == {l \in Levels : \E dir \in profile[l] : IsStrictPrefix(dir.segs, path.segs)}
           on == {l \in Levels : \E p \in profile[l] : IsPrefix(p.segs, path.segs)}
<1>1. /\ validateNoOverlappingPaths(profile)
      /\ \A l \in Levels : \A p \in profile[l] : p \in Path /\ Straight(p)
  BY StoredFacts
<1> HIDE DEF profile
<1>2. path \in profile[level]
  BY DEF profile
<1>3. IsPrefix(path.segs, path.segs)
  <2>1. path.segs \in Seq(Part)
    BY <1>1, <1>2, PathFacts
  <2> QED
    BY <2>1, PrefixFacts
<1>4. ASSUME NEW l \in Levels, NEW p \in profile[l], p.segs = path.segs PROVE l = level
  <2>1. p = [abs |-> p.abs, segs |-> p.segs] /\ path = [abs |-> path.abs, segs |-> path.segs]
        /\ p.abs = TRUE /\ path.abs = TRUE
    BY <1>1, <1>2, PathFacts DEF Straight
  <2>2. p = path
    BY <1>4, <2>1
  <2> QED
    BY <1>1, <1>2, <2>2, OneLevel
<1>5. on = {level} \cup above
  <2>1. ASSUME NEW l \in on PROVE l \in {level} \cup above
    <3>1. PICK p \in profile[l] : IsPrefix(p.segs, path.segs)
      BY <2>1
    <3>2. CASE p.segs = path.segs
      BY <1>4, <2>1, <3>2
    <3>3. CASE p.segs # path.segs
      BY <2>1, <3>1, <3>3 DEF IsStrictPrefix
    <3> QED
      BY <3>2, <3>3
  <2>2. level \in on /\ above \subseteq on
    BY <1>2, <1>3 DEF IsStrictPrefix
  <2> QED
    BY <2>1, <2>2
<1>6. ProfileToLandlockRules(profile, path) = UNION {AccessFile[l] : l \in on}
  BY DEF ProfileToLandlockRules
<1> HIDE DEF on, above
<1>7. UNION {AccessFile[l] : l \in {level} \cup above}
          = AccessFile[level] \cup UNION {AccessFile[l] : l \in above}
  OBVIOUS
<1> QED
  BY <1>5, <1>6, <1>7 DEF profile, above

LEMMA OrdinaryConcat ==
    ASSUME NEW S, NEW s \in Seq(S), NEW t \in Seq(S), Ordinary(s), Ordinary(t)
    PROVE  s \o t \in Seq(S) /\ Ordinary(s \o t)
<1> DEFINE u == s \o t
<1>1. u \in Seq(S) /\ Len(u) = Len(s) + Len(t)
  BY ConcatProperties
<1>2. \A i \in 1..(Len(s) + Len(t)) : u[i] = IF i <= Len(s) THEN s[i] ELSE t[i - Len(s)]
  BY ConcatProperties
<1>3. /\ Len(s) \in Nat /\ Len(t) \in Nat /\ DOMAIN s = 1..Len(s) /\ DOMAIN t = 1..Len(t)
      /\ DOMAIN u = 1..(Len(s) + Len(t))
  BY <1>1
<1> HIDE DEF u
<1>4. ASSUME NEW i \in DOMAIN u PROVE u[i] \notin {"", ".", ".."}
  <2>1. CASE i <= Len(s)
    <3>1. i \in DOMAIN s /\ u[i] = s[i]
      BY <1>2, <1>3, <2>1
    <3> QED
      BY <3>1 DEF Ordinary
  <2>2. CASE ~(i <= Len(s))
    <3>1. i - Len(s) \in DOMAIN t /\ u[i] = t[i - Len(s)]
      BY <1>2, <1>3, <2>2
    <3> QED
      BY <3>1 DEF Ordinary
  <2> QED
    BY <2>1, <2>2
<1>5. Ordinary(u)
  BY <1>4 DEF Ordinary
<1> QED
  BY <1>1, <1>5 DEF u

(* Below a straight directory, Join only puts straight paths together. *)
LEMMA JoinStraight ==
    ASSUME NEW p \in Path, Straight(p)
    PROVE  Join(BackupDir, p) = [abs |-> TRUE, segs |-> BackupDir.segs \o p.segs]
<1> DEFINE t == BackupDir.segs \o p.segs
<1>1. /\ BackupDir \in Path /\ BackupDir.abs
      /\ Ordinary(BackupDir.segs) /\ BackupDir.segs \in Seq(Part)
      /\ Ordinary(p.segs) /\ p.segs \in Seq(Part)
  BY PathFacts, DirsAssumption
<1>2. t \in Seq(Part) /\ Ordinary(t)
  BY <1>1, OrdinaryConcat
<1>3. Kept(TRUE, t) = t
  BY <1>2, OrdinaryKept
<1> QED
  BY <1>1, <1>3, JoinFacts

(* One path is on the way to another below a directory as it is without. *)
LEMMA PrefixBelow ==
    ASSUME NEW S, NEW d \in Seq(S), NEW s \in Seq(S), NEW t \in Seq(S)
    PROVE  /\ IsPrefix(d, d \o s)
           /\ IsPrefix(d \o s, d \o t) <=> IsPrefix(s, t)
<1> DEFINE Fits(a, b) == Len(a) <= Len(b) /\ \A i \in 1..Len(a) : a[i] = b[i]
<1>0. \A a, b \in Seq(S) : IsPrefix(a, b) <=> Fits(a, b)
  BY PrefixFacts
<1> DEFINE ds == d \o s
           dt == d \o t
<1>1. /\ Len(d) \in Nat /\ Len(s) \in Nat /\ Len(t) \in Nat
      /\ ds \in Seq(S) /\ Len(ds) = Len(d) + Len(s)
      /\ dt \in Seq(S) /\ Len(dt) = Len(d) + Len(t)
  BY ConcatProperties
<1>2. /\ \A i \in 1..(Len(d) + Len(s)) : ds[i] = IF i <= Len(d) THEN d[i] ELSE s[i - Len(d)]
      /\ \A i \in 1..(Len(d) + Len(t)) : dt[i] = IF i <= Len(d) THEN d[i] ELSE t[i - Len(d)]
  BY ConcatProperties
<1> HIDE DEF ds, dt
<1>3. IsPrefix(d, ds)
  <2>1. Len(d) <= Len(ds) /\ \A i \in 1..Len(d) : d[i] = ds[i]
    BY <1>1, <1>2
  <2> QED
    BY <1>1, <2>1, PrefixFacts
<1>4. ASSUME Len(s) <= Len(t)
      PROVE  (\A i \in 1..Len(ds) : ds[i] = dt[i]) <=> (\A i \in 1..Len(s) : s[i] = t[i])
  <2>1. ASSUME \A i \in 1..Len(ds) : ds[i] = dt[i], NEW i \in 1..Len(s) PROVE s[i] = t[i]
    <3>1. Len(d) + i \in 1..Len(ds) /\ Len(d) + i \in 1..Len(dt)
          /\ ~(Len(d) + i <= Len(d)) /\ (Len(d) + i) - Len(d) = i
      BY <1>1, <1>4
    <3>2. ds[Len(d) + i] = s[i] /\ dt[Len(d) + i] = t[i]
      BY <1>1, <1>2, <3>1
    <3> QED
      BY <2>1, <3>1, <3>2
  <2>2. ASSUME \A i \in 1..Len(s) : s[i] = t[i], NEW i \in 1..Len(ds) PROVE ds[i] = dt[i]
    <3>1. i \in 1..(Len(d) + Len(s)) /\ i \in 1..(Len(d) + Len(t))
      BY <1>1, <1>4
    <3>2. CASE i <= Len(d)
      BY <1>2, <3>1, <3>2
    <3>3. CASE ~(i <= Len(d))
      <4>1. i - Len(d) \in 1..Len(s)
        BY <1>1, <3>1, <3>3
      <4> QED
        BY <1>2, <2>2, <3>1, <3>3, <4>1
    <3> QED
      BY <3>2, <3>3
  <2> QED
    BY <2>1, <2>2
<1>5. Len(ds) <= Len(dt) <=> Len(s) <= Len(t)
  BY <1>1
<1>6. IsPrefix(ds, dt) <=> IsPrefix(s, t)
  <2>1. Fits(ds, dt) <=> Fits(s, t)
    BY <1>4, <1>5, Zenon
  <2>2. ds \in Seq(S) /\ dt \in Seq(S)
    BY <1>1
  <2> HIDE DEF Fits
  <2> QED
    BY <1>0, <2>1, <2>2, Zenon
<1> QED
  BY <1>3, <1>6 DEF ds, dt

LEMMA BackupsStored == AdmissionInv => BackupsApart
<1> SUFFICES ASSUME AdmissionInv, stored # None,
                    NEW container \in DOMAIN stored,
                    NEW b1 \in DOMAIN stored[container], NEW b2 \in DOMAIN stored[container]
             PROVE  LET s1 == Join(BackupDir, b1)
                        s2 == Join(BackupDir, b2)
                    IN  /\ s1.abs /\ IsPrefix(BackupDir.segs, s1.segs)
                        /\ IsPrefix(s1.segs, s2.segs) <=> IsPrefix(b1.segs, b2.segs)
                        /\ s1 = s2 => b1 = b2
  BY DEF BackupsApart, StoredBinaries, SwappedBinaryPathInsideContainer
<1> DEFINE d == BackupDir.segs
<1>1. b1 \in Path /\ Straight(b1) /\ b2 \in Path /\ Straight(b2)
  BY StoredFacts
<1>2. /\ Join(BackupDir, b1) = [abs |-> TRUE, segs |-> d \o b1.segs]
      /\ Join(BackupDir, b2) = [abs |-> TRUE, segs |-> d \o b2.segs]
  BY <1>1, JoinStraight
<1>3. /\ d \in Seq(Part) /\ b1.segs \in Seq(Part) /\ b2.segs \in Seq(Part)
      /\ b1 = [abs |-> TRUE, segs |-> b1.segs] /\ b2 = [abs |-> TRUE, segs |-> b2.segs]
  BY <1>1, PathFacts, DirsAssumption
<1>4. /\ Join(BackupDir, b1).abs = TRUE /\ Join(BackupDir, b1).segs = d \o b1.segs
      /\ Join(BackupDir, b2).segs = d \o b2.segs
  <2>1. \A t : [abs |-> TRUE, segs |-> t].abs = TRUE /\ [abs |-> TRUE, segs |-> t].segs = t
    OBVIOUS
  <2> QED
    BY <1>2, <2>1, Zenon
<1>5. /\ IsPrefix(d, d \o b1.segs)
      /\ IsPrefix(d \o b1.segs, d \o b2.segs) <=> IsPrefix(b1.segs, b2.segs)
  BY <1>3, PrefixBelow
<1>6. ASSUME Join(BackupDir, b1) = Join(BackupDir, b2) PROVE b1 = b2
  <2>1. d \o b1.segs = d \o b2.segs
    BY <1>4, <1>6
  <2>2. b1.segs = b2.segs
    BY <1>3, <2>1, ConcatSimplifications
  <2> QED
    BY <1>3, <2>2
<1> QED
  BY <1>4, <1>5, <1>6

LEMMA WellFormedRefused == AdmissionInv => WellFormedAdmitted
<1> SUFFICES ASSUME AdmissionInv, refused # None, ~WellFormedAdmitted PROVE FALSE
  BY DEF WellFormedAdmitted
<1>1. refused \in Specs /\ ~validateProfile(refused)
  BY DEF AdmissionInv
<1>2. ASSUME NEW container \in DOMAIN refused, NEW binary \in DOMAIN refused[container]
      PROVE  /\ validateBinaryPath(binary)
             /\ validateNoOverlappingPaths(refused[container][binary])
             /\ validateLevels(refused[container][binary])
  <2> DEFINE profile == refused[container][binary]
  <2>1. binary \in Path /\ profile \in [Levels -> SUBSET Path]
    BY <1>1, SpecsAssumption
  <2>2. /\ Straight(binary)
        /\ \A level \in Levels : \A path \in profile[level] :
               Straight(path) /\ \A l2 \in Levels \ {level} : path \notin profile[l2]
    BY DEF WellFormedAdmitted
  <2> HIDE DEF profile
  <2>3. validateBinaryPath(binary)
    BY <2>1, <2>2, ValidIsStraight
  <2>4. \A pair \in Overlaps : pair[1] \in Levels /\ pair[2] \in Levels /\ pair[1] # pair[2]
    BY DEF Levels, Overlaps
  <2>5. validateNoOverlappingPaths(profile)
    BY <2>2, <2>4 DEF validateNoOverlappingPaths
  <2>6. validateLevels(profile)
    BY <2>1, <2>2, ValidIsStraight DEF validateLevels
  <2> QED
    BY <2>3, <2>5, <2>6 DEF profile
<1> QED
  BY <1>1, <1>2 DEF validateProfile

-----------------------------------------------------------------------------
(* The arguments of native mode. *)

LEMMA MinFacts ==
    ASSUME NEW T, T \subseteq Nat, T # {}
    PROVE  Min(T) \in T /\ \A y \in T : Min(T) <= y
<1>1. \E x \in T : \A y \in T : x <= y
  BY LeastNatural
<1> QED
  BY <1>1 DEF Min

(* The index that SelectInSeq finds is the first of the set it looks in. *)
First(n, len, T) ==
    /\ n \in 0..len
    /\ n = 0 => T = {}
    /\ n # 0 => n \in T /\ \A j \in T : n <= j

LEMMA FirstFacts ==
    ASSUME NEW len \in Nat, NEW T, T \subseteq 1..len
    PROVE  First(IF T # {} THEN Min(T) ELSE 0, len, T)
<1>1. CASE T # {}
  <2>1. T \subseteq Nat
    OBVIOUS
  <2>2. Min(T) \in T /\ \A y \in T : Min(T) <= y
    BY <1>1, <2>1, MinFacts
  <2>3. ASSUME NEW n \in T, \A y \in T : n <= y PROVE First(n, len, T)
    BY <1>1, <2>3 DEF First
  <2>4. First(Min(T), len, T)
    BY <2>2, <2>3, Zenon
  <2> QED
    BY <1>1, <2>4
<1>2. CASE T = {}
  BY <1>2 DEF First
<1> QED
  BY <1>1, <1>2

LEMMA SepFacts ==
    ASSUME NEW args \in Seq(Argument)
    PROVE  First(sepIdx(args), Len(args), {i \in 1..Len(args) : args[i] = Sep})
<1> DEFINE T == {i \in 1..Len(args) : args[i] = Sep}
<1>1. sepIdx(args) = IF T # {} THEN Min(T) ELSE 0
  BY Zenon DEF sepIdx, SelectInSeq
<1>2. Len(args) \in Nat /\ T \subseteq 1..Len(args)
  OBVIOUS
<1> HIDE DEF T
<1>3. First(sepIdx(args), Len(args), T)
  BY <1>1, <1>2, FirstFacts
<1> QED
  BY <1>3 DEF T

(* Where flag.Parse stops, and what it has seen until then. *)
LEMMA ParsedFacts ==
    ASSUME NEW args \in Seq(Argument)
    PROVE  \E m \in 0..Len(args) :
              /\ DOMAIN Parsed(args) = 1..m
              /\ \A i \in 1..m : Parsed(args)[i] = args[i] /\ args[i].kind = "flag"
              /\ m < Len(args) => args[m + 1].kind # "flag"
<1> DEFINE fa == flagArgs(args)
           n == IF sepIdx(args) = 0 THEN Len(args) ELSE sepIdx(args) - 1
<1>1. First(sepIdx(args), Len(args), {i \in 1..Len(args) : args[i] = Sep})
  BY SepFacts
<1>2. Len(args) \in Nat /\ n \in 0..Len(args)
  BY <1>1 DEF First
<1>3. n < Len(args) => args[n + 1].kind # "flag"
  <2>1. sepIdx(args) # 0 => n + 1 = sepIdx(args) /\ args[sepIdx(args)] = Sep
    BY <1>1 DEF First
  <2> QED
    BY <1>2, <2>1 DEF Sep
<1>4. fa \in Seq(Argument) /\ Len(fa) = n /\ \A i \in 1..n : fa[i] = args[i]
  BY <1>1, <1>2 DEF flagArgs, First
<1> HIDE DEF fa, n
<1> DEFINE T == {i \in 1..Len(fa) : fa[i].kind # "flag"}
           stop == IF T # {} THEN Min(T) ELSE 0
           m == IF stop = 0 THEN n ELSE stop - 1
<1>5. Parsed(args) = IF stop = 0 THEN fa ELSE SubSeq(fa, 1, stop - 1)
  BY Zenon DEF Parsed, SelectInSeq, fa
<1>6. First(stop, Len(fa), T)
  <2>1. Len(fa) \in Nat /\ T \subseteq 1..Len(fa)
    BY <1>2, <1>4
  <2> HIDE DEF T
  <2> QED
    BY <2>1, FirstFacts
<1>7. m \in 0..n /\ (m < n => args[m + 1].kind # "flag")
  <2> HIDE DEF stop
  <2>1. stop # 0 => m + 1 = stop /\ fa[stop].kind # "flag" /\ stop \in 1..n
    BY <1>4, <1>6 DEF First
  <2> QED
    BY <1>2, <1>4, <1>6, <2>1 DEF First
<1>8. \A i \in 1..m : args[i].kind = "flag"
  <2> HIDE DEF stop
  <2>1. ASSUME NEW i \in 1..m PROVE i \notin T
    BY <1>2, <1>4, <1>6 DEF First
  <2>2. m \in 0..n
    BY <1>7
  <2> HIDE DEF m
  <2> QED
    BY <1>2, <1>4, <2>1, <2>2
<1>9. Parsed(args) \in Seq(Argument) /\ Len(Parsed(args)) = m
      /\ \A i \in 1..m : Parsed(args)[i] = fa[i]
  <2> HIDE DEF stop
  <2>1. CASE stop = 0
    BY <1>4, <1>5, <2>1
  <2>2. CASE stop # 0
    <3>1. Parsed(args) = SubSeq(fa, 1, m) /\ m \in 0..n
      BY <1>5, <1>7, <2>2
    <3> HIDE DEF m
    <3> QED
      BY <1>2, <1>4, <3>1
  <2> QED
    BY <2>1, <2>2
<1> HIDE DEF m
<1>10. m \in 0..Len(args) /\ DOMAIN Parsed(args) = 1..m
  BY <1>2, <1>7, <1>9
<1>11. m < Len(args) => args[m + 1].kind # "flag"
  BY <1>2, <1>3, <1>7
<1>12. \A i \in 1..m : Parsed(args)[i] = args[i]
  BY <1>2, <1>4, <1>7, <1>9
<1> QED
  BY <1>8, <1>10, <1>11, <1>12

(* An argument before the separator. *)
AheadOfSep(args, i) == \A j \in 1..i : args[j] # Sep

(* The path flags that flag.Parse sees are given before the separator, and  *)
(* all those are seen when there is no stray word among them.               *)
LEMMA GivenFlags ==
    ASSUME NEW args \in Seq(Argument)
    PROVE  LET given == {n \in PathFlags : \E i \in DOMAIN args :
                            args[i] = Flag(n) /\ AheadOfSep(args, i)}
               stray == \E i \in DOMAIN args : args[i].kind = "word" /\ AheadOfSep(args, i)
           IN  /\ FlagNames(args) \cap PathFlags \subseteq given
               /\ ~stray => FlagNames(args) \cap PathFlags = given
<1> DEFINE given == {n \in PathFlags : \E i \in DOMAIN args :
                        args[i] = Flag(n) /\ AheadOfSep(args, i)}
<1>1. PICK m \in 0..Len(args) :
              /\ DOMAIN Parsed(args) = 1..m
              /\ \A i \in 1..m : Parsed(args)[i] = args[i] /\ args[i].kind = "flag"
              /\ m < Len(args) => args[m + 1].kind # "flag"
  BY ParsedFacts
<1>2. DOMAIN args = 1..Len(args) /\ Len(args) \in Nat
  OBVIOUS
<1>3. FlagNames(args) = {args[i].name : i \in 1..m}
  BY <1>1 DEF FlagNames
<1>4. ASSUME NEW i \in 1..m PROVE args[i] = Flag(args[i].name)
  <2>1. args[i] \in Argument /\ args[i].kind = "flag"
    BY <1>1, <1>2
  <2> QED
    BY <2>1 DEF Argument, Flag
<1>5. \A n : Flag(n).name = n
  BY DEF Flag
<1>6. ASSUME NEW i \in 1..m PROVE i \in DOMAIN args /\ AheadOfSep(args, i)
  <2>1. \A j \in 1..m : args[j] # Sep
    BY <1>1 DEF Sep
  <2> QED
    BY <1>1, <1>2, <2>1 DEF AheadOfSep
<1>7. FlagNames(args) \cap PathFlags \subseteq given
  <2> SUFFICES ASSUME NEW n \in FlagNames(args) \cap PathFlags PROVE n \in given
    OBVIOUS
  <2>1. PICK i \in 1..m : n = args[i].name
    BY <1>3
  <2> QED
    BY <1>4, <1>6, <2>1
<1>8. ASSUME ~\E i \in DOMAIN args : args[i].kind = "word" /\ AheadOfSep(args, i),
             NEW i \in DOMAIN args, AheadOfSep(args, i)
      PROVE  i \in 1..m
  <2>1. i \in 1..Len(args)
    BY <1>2
  <2>2. ASSUME m + 1 <= i PROVE FALSE
    <3>1. m + 1 \in 1..i /\ m + 1 \in DOMAIN args /\ m < Len(args)
      BY <1>1, <1>2, <2>1, <2>2
    <3>2. AheadOfSep(args, m + 1) /\ args[m + 1] # Sep
      BY <1>1, <1>8, <3>1 DEF AheadOfSep
    <3>3. args[m + 1] \in Argument /\ args[m + 1].kind # "flag" /\ args[m + 1].kind # "word"
      BY <1>1, <1>8, <3>1, <3>2
    <3> QED
      BY <3>2, <3>3 DEF Argument, Sep
  <2> QED
    BY <1>1, <2>1, <2>2
<1>9. ASSUME ~\E i \in DOMAIN args : args[i].kind = "word" /\ AheadOfSep(args, i)
      PROVE  given \subseteq FlagNames(args) \cap PathFlags
  <2> SUFFICES ASSUME NEW n \in given PROVE n \in FlagNames(args)
    OBVIOUS
  <2>1. PICK i \in DOMAIN args : args[i] = Flag(n) /\ AheadOfSep(args, i)
    OBVIOUS
  <2>2. i \in 1..m
    BY <1>8, <1>9, <2>1
  <2> QED
    BY <1>3, <1>5, <2>1, <2>2
<1> QED
  BY <1>7, <1>9

(* The word after the first separator. *)
LEMMA CommandFacts ==
    ASSUME NEW args \in Seq(Argument), Command(args) # <<>>
    PROVE  LET i == sepIdx(args) + 1
           IN  /\ i \in DOMAIN args /\ i > 1 /\ args[i - 1] = Sep
               /\ \A j \in 1..i - 2 : args[j] # Sep
               /\ Head(Command(args)) = args[i] /\ args[i] \in Argument
<1> DEFINE n == sepIdx(args)
<1>1. First(n, Len(args), {i \in 1..Len(args) : args[i] = Sep}) /\ Len(args) \in Nat
  BY SepFacts
<1>2. n # 0 /\ Command(args) = SubSeq(args, n + 1, Len(args))
  BY DEF Command
<1> HIDE DEF n
<1>3. n \in 1..Len(args) /\ args[n] = Sep /\ \A j \in 1..n - 1 : args[j] # Sep
  BY <1>1, <1>2 DEF First
<1>4. n + 1 <= Len(args)
  <2> SUFFICES ASSUME Len(args) < n + 1 PROVE FALSE
    BY <1>1, <1>3
  <2>1. SubSeq(args, n + 1, Len(args)) = <<>>
    BY <1>1, <1>3, SubSeqEmpty
  <2> QED
    BY <1>2, <2>1
<1>5. Head(SubSeq(args, n + 1, Len(args))) = args[n + 1]
  BY <1>1, <1>3, <1>4, HeadTailOfSubSeq
<1>6. n + 1 \in DOMAIN args /\ args[n + 1] \in Argument
  BY <1>1, <1>3, <1>4
<1>7. n + 1 > 1 /\ (n + 1) - 1 = n /\ (n + 1) - 2 = n - 1
  BY <1>3
<1> QED
  BY <1>2, <1>3, <1>5, <1>6, <1>7 DEF n

LEMMA ResolveCases ==
    ASSUME NEW path
    PROVE  /\ IsName(path) =>
                  resolveBinaryPath(path) = IF path \in DOMAIN InPath THEN InPath[path] ELSE None
           /\ ~IsName(path) => resolveBinaryPath(path) \in {Abs(Cwd, path), Clean(path)}
<1>1. CASE IsName(path)
  BY <1>1 DEF resolveBinaryPath
<1>2. CASE ~IsName(path) /\ IsLocal(path)
  BY <1>2 DEF resolveBinaryPath
<1>3. CASE ~IsName(path) /\ ~IsLocal(path)
  BY <1>3 DEF resolveBinaryPath
<1> QED
  BY <1>1, <1>2, <1>3

(* Whatever resolveBinaryPath makes of a name, it is the file a shell finds. *)
LEMMA ResolveFacts ==
    ASSUME NEW path \in Path, resolveBinaryPath(path) # None
    PROVE  LET name == IF IsName(path) THEN InPath[path] ELSE path
               binary == resolveBinaryPath(path)
               cleaned == IF binary.abs THEN InDir(Cwd, name) ELSE name
           IN  /\ binary \in Path
               /\ \/ Place(Links, Cwd, binary) = Place(Links, Cwd, name)
                  \/ LeavesLink(Links, Cwd, cleaned)
<1> DEFINE binary == resolveBinaryPath(path)
<1>1. CASE IsName(path)
  <2>1. path \in DOMAIN InPath /\ binary = InPath[path]
    BY <1>1, ResolveCases
  <2>2. InPath[path] \in Path
    BY <2>1, CallsAssumption
  <2> QED
    BY <1>1, <2>1, <2>2
<1>2. CASE ~IsName(path) /\ binary = Abs(Cwd, path)
  <2>1. /\ Abs(Cwd, path) \in Path /\ Abs(Cwd, path).abs = TRUE
        /\ \/ Place(Links, Cwd, Abs(Cwd, path)) = Place(Links, Cwd, path)
           \/ LeavesLink(Links, Cwd, InDir(Cwd, path))
    BY AbsPlace
  <2> QED
    BY <1>2, <2>1
<1>3. CASE ~IsName(path) /\ binary = Clean(path)
  <2>1. /\ Clean(path) \in Path /\ Clean(path).abs = path.abs
        /\ \/ Place(Links, Cwd, Clean(path)) = Place(Links, Cwd, path)
           \/ LeavesLink(Links, Cwd, path)
    BY CleanPlace
  <2>2. path.abs => InDir(Cwd, path) = path
    BY DEF InDir
  <2> QED
    BY <1>3, <2>1, <2>2
<1>4. ~IsName(path) => binary \in {Abs(Cwd, path), Clean(path)}
  BY ResolveCases
<1> QED
  BY <1>1, <1>2, <1>3, <1>4

LEMMA BinaryFacts ==
    ASSUME NEW args \in Seq(Argument), Binary(args) # None
    PROVE  LET word == args[sepIdx(args) + 1].path
           IN  word \in Path /\ Binary(args) = resolveBinaryPath(word)
<1> DEFINE i == sepIdx(args) + 1
<1>1. /\ Command(args) # <<>> /\ Head(Command(args)).kind = "word"
      /\ Binary(args) = resolveBinaryPath(Head(Command(args)).path)
  BY DEF Binary
<1>2. Head(Command(args)) = args[i] /\ args[i] \in Argument
  BY <1>1, CommandFacts
<1> HIDE DEF i
<1>3. args[i].path \in Path
  <2>1. args[i].kind = "word"
    BY <1>1, <1>2
  <2> QED
    BY <1>2, <2>1 DEF Argument
<1> QED
  BY <1>1, <1>2, <1>3 DEF i

-----------------------------------------------------------------------------
(* Configurations. *)

LEMMA NativeFacts ==
    ASSUME NEW args \in Seq(Argument), NEW e \in Environment, nativeMode(args, e) # None
    PROVE  /\ nativeMode(args, e) \in Configuration
           /\ nativeMode(args, e).profilePath = e.profile
           /\ nativeMode(args, e).paths = FlagNames(args) \cap PathFlags
           /\ nativeMode(args, e).binary = Binary(args)
           /\ ~Conflicting(FlagNames(args), e)
           /\ Binary(args) # None
<1> DEFINE paths == FlagNames(args) \cap PathFlags
           ldd == e.ldd \/ "ldd" \in FlagNames(args)
<1>1. /\ Binary(args) # None /\ ~Conflicting(FlagNames(args), e)
      /\ nativeMode(args, e) =
             [profilePath |-> e.profile, paths |-> paths, ldd |-> ldd,
              binary |-> Binary(args), binaryToRun |-> Binary(args)]
  BY DEF nativeMode
<1>2. Binary(args) \in Path
  BY <1>1, BinaryFacts, ResolveFacts
<1>3. e.profile \in DOMAIN Handwritten \cup {None, ContainerProfile} /\ ldd \in BOOLEAN
  BY DEF Environment
<1>4. paths \in SUBSET PathFlags
  OBVIOUS
<1> HIDE DEF paths, ldd
<1>5. nativeMode(args, e) \in Configuration
  BY <1>1, <1>2, <1>3, <1>4 DEF Configuration
<1> QED
  BY <1>1, <1>5 DEF paths

LEMMA WrapperFacts ==
    ASSUME NEW argv0 \in Path, NEW e \in Environment
    PROVE  /\ wrapperMoode(argv0, e) \in Configuration
           /\ wrapperMoode(argv0, e).binary = Abs(Cwd, argv0)
<1> DEFINE binary == Abs(Cwd, argv0)
           toRun == Join(BackupDir, binary)
           path == IF e.profile = None THEN ContainerProfile ELSE e.profile
<1>1. binary \in Path
  BY AbsFacts
<1>2. toRun \in Path
  BY <1>1, JoinFacts, DirsAssumption DEF Straight
<1>3. path \in DOMAIN Handwritten \cup {None, ContainerProfile} /\ e.ldd \in BOOLEAN
  BY DEF Environment
<1>4. wrapperMoode(argv0, e) =
          [profilePath |-> path, paths |-> {}, ldd |-> e.ldd,
           binary |-> binary, binaryToRun |-> toRun]
  BY DEF wrapperMoode
<1> HIDE DEF binary, toRun, path
<1> QED
  BY <1>1, <1>2, <1>3, <1>4 DEF Configuration, binary

Called == [argv0 : Path, args : Seq(Argument), own : Environment]

(* How seal is configured by a call, None if it gives up. *)
Asked(c) == parseFlags(c.argv0, c.args, c.own)

LEMMA AskedType ==
    ASSUME NEW c \in Called
    PROVE  Asked(c) \in Configuration \cup {None}
<1>1. c.argv0 \in Path /\ c.args \in Seq(Argument) /\ c.own \in Environment
  BY DEF Called
<1>2. CASE Native(c.argv0)
  BY <1>1, <1>2, NativeFacts DEF Asked, parseFlags
<1>3. CASE ~Native(c.argv0)
  BY <1>1, <1>3, WrapperFacts DEF Asked, parseFlags
<1> QED
  BY <1>2, <1>3

-----------------------------------------------------------------------------
(* The invariant. *)

Layer == [call : Called, cfg : Configuration]

(* While seal runs, its environment is what its caller set: the program     *)
(* that called it had none of the variables.                                *)
CallInv ==
    /\ stage \in {"none", "program", "seal", "failed"}
    /\ stage \in {"none", "program"} => env = Unset
    /\ stage \in {"seal", "failed"} => call \in Called /\ env = call.own

LayersInv ==
    /\ layers \in Seq(Layer)
    /\ \A i \in DOMAIN layers : layers[i].cfg = Asked(layers[i].call)

Inv == AdmissionInv /\ CallInv /\ LayersInv

LEMMA InitInv == Init => Inv
<1> SUFFICES ASSUME Init PROVE Inv
  OBVIOUS
<1>1. AdmissionInv
  BY DEF Init, AdmissionInit, AdmissionInv
<1>2. CallInv
  BY DEF Init, CallInv
<1>3. LayersInv
  BY DEF Init, LayersInv
<1> QED
  BY <1>1, <1>2, <1>3 DEF Inv

LEMMA CallStep ==
    ASSUME Inv, NEW c \in Calls, NEW own \in Environment, Call(c.argv0, c.args, own)
    PROVE  Inv'
<1>1. /\ stage = "program" /\ stage' = "seal"
      /\ call' = [argv0 |-> c.argv0, args |-> c.args, own |-> own]
      /\ env' = [profile |-> IF own.profile = None THEN env.profile ELSE own.profile,
                 ldd |-> own.ldd \/ env.ldd]
      /\ UNCHANGED <<stored, refused, layers>>
  BY DEF Call, admissionVars
<1>2. env = Unset
  BY <1>1 DEF Inv, CallInv
<1>3. env' = own
  <2>1. (own.ldd \/ FALSE) = own.ldd
    BY DEF Environment
  <2>2. (IF own.profile = None THEN None ELSE own.profile) = own.profile
    OBVIOUS
  <2>3. env.profile = None /\ env.ldd = FALSE
    BY <1>2 DEF Unset
  <2>4. env' = [profile |-> own.profile, ldd |-> own.ldd]
    BY <1>1, <2>1, <2>2, <2>3
  <2> QED
    BY <2>4 DEF Environment
<1>4. call' \in Called /\ call'.own = own
  BY <1>1, CallsAssumption DEF Called
<1>5. CallInv'
  BY <1>1, <1>3, <1>4 DEF CallInv, Called, Environment
<1>6. AdmissionInv' /\ LayersInv'
  BY <1>1 DEF Inv, AdmissionInv, LayersInv, validateProfile, Asked
<1> QED
  BY <1>5, <1>6 DEF Inv

LEMMA SealStep ==
    ASSUME Inv, Seal
    PROVE  Inv'
<1>1. /\ stage = "seal" /\ stage' = "program" /\ env' = Unset /\ Config # None
      /\ layers' = Append(layers, [call |-> call, cfg |-> Config])
      /\ UNCHANGED <<stored, refused, call>>
  BY DEF Seal, sealedProcessEnv, admissionVars
<1>2. call \in Called /\ Config = Asked(call)
  BY <1>1 DEF Inv, CallInv, Config, Asked
<1>3. Config \in Configuration
  BY <1>1, <1>2, AskedType
<1> DEFINE new == [call |-> call, cfg |-> Config]
<1>4. new \in Layer /\ new.cfg = Asked(new.call)
  BY <1>2, <1>3 DEF Layer
<1>5. layers \in Seq(Layer) /\ \A i \in DOMAIN layers : layers[i].cfg = Asked(layers[i].call)
  BY DEF Inv, LayersInv
<1> HIDE DEF new
<1>6. /\ layers' \in Seq(Layer)
      /\ \A i \in DOMAIN layers' : layers'[i] = new \/ (i \in DOMAIN layers /\ layers'[i] = layers[i])
  BY <1>1, <1>4, <1>5, AppendFacts DEF new
<1>7. \A i \in DOMAIN layers' : layers'[i].cfg = Asked(layers'[i].call)
  BY <1>4, <1>5, <1>6
<1>8. LayersInv'
  BY <1>6, <1>7 DEF LayersInv
<1>9. CallInv'
  BY <1>1 DEF CallInv
<1>10. AdmissionInv'
  BY <1>1 DEF Inv, AdmissionInv, validateProfile
<1> QED
  BY <1>8, <1>9, <1>10 DEF Inv

LEMMA SealFailsStep ==
    ASSUME Inv, SealFails
    PROVE  Inv'
<1>1. /\ stage = "seal" /\ stage' = "failed"
      /\ UNCHANGED <<stored, refused, env, call, layers>>
  BY DEF SealFails, admissionVars
<1>2. CallInv'
  BY <1>1 DEF Inv, CallInv
<1>3. AdmissionInv' /\ LayersInv'
  BY <1>1 DEF Inv, AdmissionInv, LayersInv
<1> QED
  BY <1>2, <1>3 DEF Inv

LEMMA NextInv == Inv /\ [Next]_vars => Inv'
<1> SUFFICES ASSUME Inv, [Next]_vars PROVE Inv'
  OBVIOUS
<1>1. CASE Admit
  <2>1. /\ stage = "none" /\ AdmissionNext /\ stage' = stage /\ env' = env
        /\ UNCHANGED <<call, layers>>
    BY <1>1 DEF Admit, sealVars
  <2>2. AdmissionInv'
    BY <2>1, AdmissionStep DEF Inv
  <2>3. CallInv' /\ LayersInv'
    BY <2>1 DEF Inv, CallInv, LayersInv
  <2> QED
    BY <2>2, <2>3 DEF Inv
<1>2. CASE StartContainer
  <2>1. /\ stage = "none" /\ stage' = "program" /\ refused' = None
        /\ UNCHANGED <<stored, env, call, layers>>
    BY <1>2 DEF StartContainer
  <2>2. AdmissionInv'
    BY <2>1 DEF Inv, AdmissionInv
  <2>3. CallInv' /\ LayersInv'
    BY <2>1 DEF Inv, CallInv, LayersInv
  <2> QED
    BY <2>2, <2>3 DEF Inv
<1>3. ASSUME NEW c \in Calls, NEW own \in Environment, Call(c.argv0, c.args, own) PROVE Inv'
  BY <1>3, CallStep
<1>4. CASE Seal
  BY <1>4, SealStep
<1>5. CASE SealFails
  BY <1>5, SealFailsStep
<1>6. CASE UNCHANGED vars
  <2>1. UNCHANGED <<stored, refused, stage, env, call, layers>>
    BY <1>6 DEF vars
  <2> QED
    BY <2>1 DEF Inv, AdmissionInv, CallInv, LayersInv
<1> QED
  BY <1>1, <1>2, <1>3, <1>4, <1>5, <1>6 DEF Next

LEMMA InvAlways == Spec => []Inv
BY InitInv, NextInv, PTL DEF Spec

-----------------------------------------------------------------------------
(* What it says of admitted profiles. *)

(* The patch with which the controller releases a deleted profile passes    *)
(* the validating webhook, whatever profile was admitted before.            *)
THEOREM AlwaysReleasable == Spec => []ReleaseAccepted
<1>1. Inv => ReleaseAccepted
  BY DEF Inv, AdmissionInv, ReleaseAccepted, ValidateUpdate
<1> QED
  BY <1>1, InvAlways, PTL

(* The rules seal builds from an admitted profile give a path the access of *)
(* the one list that names it and of the lists that name directories above  *)
(* it, nothing more: validateNoOverlappingPaths leaves no pair of lists out.*)
THEOREM GrantsAreListed == Spec => []GrantedAsListed
<1>1. Inv => GrantedAsListed
  BY GrantedStored DEF Inv
<1> QED
  BY <1>1, InvAlways, PTL

(* For keys of any length, the root included, filepath.Join puts the        *)
(* backups into their directory as the binaries are in the image, and no    *)
(* two in one place: validateBinaryPath admits only what Join leaves alone. *)
THEOREM BackupsDistinct == Spec => []BackupsApart
<1>1. Inv => BackupsApart
  BY BackupsStored DEF Inv
<1> QED
  BY <1>1, InvAlways, PTL

(* The webhook refuses nothing well formed: a profile whose paths all go    *)
(* straight down and that lists each under one access level is admitted.    *)
THEOREM NothingRefusedWrongly == Spec => []WellFormedAdmitted
<1>1. Inv => WellFormedAdmitted
  BY WellFormedRefused DEF Inv
<1> QED
  BY <1>1, InvAlways, PTL

-----------------------------------------------------------------------------
(* What it says of every seal that went through. *)

LEMMA WentFacts ==
    ASSUME Inv, NEW l \in Went
    PROVE  /\ l.call \in Called /\ l.cfg \in Configuration /\ l.cfg = Asked(l.call)
           /\ l.call.argv0 \in Path /\ l.call.args \in Seq(Argument)
           /\ l.call.own \in Environment
<1>1. PICK i \in DOMAIN layers : l = layers[i]
  BY DEF Went
<1>2. layers[i] \in Layer /\ layers[i].cfg = Asked(layers[i].call)
  BY DEF Inv, LayersInv
<1>3. l.call \in Called /\ l.cfg \in Configuration /\ l.cfg = Asked(l.call)
  BY <1>1, <1>2 DEF Layer
<1> QED
  BY <1>3 DEF Called

(* Native mode, of a seal that went through. *)
LEMMA WentNative ==
    ASSUME Inv, NEW l \in Went, Native(l.call.argv0)
    PROVE  /\ l.cfg = nativeMode(l.call.args, l.call.own)
           /\ nativeMode(l.call.args, l.call.own) # None
<1>1. l.cfg \in Configuration /\ l.cfg = Asked(l.call)
  BY WentFacts
<1>2. l.cfg = nativeMode(l.call.args, l.call.own)
  BY <1>1 DEF Asked, parseFlags
<1> QED
  BY <1>1, <1>2, NoneAssumption

(* However deeply seals are nested, each is configured by the call that     *)
(* started it and the variables its caller set: sealedProcessEnv leaves     *)
(* nothing of the outer one.                                                *)
THEOREM NestedAfresh == Spec => []ConfiguredAfresh
<1>1. Inv => ConfiguredAfresh
  BY WentFacts DEF ConfiguredAfresh, Asked
<1> QED
  BY <1>1, InvAlways, PTL

(* For every list of arguments, flags from behind the separator never get   *)
(* into the profile, a file gets consulted only if the caller named it, and *)
(* path flags that no stray word hides are the whole profile.               *)
THEOREM FlagsWin == Spec => []FlagsAreTheProfile
<1> DEFINE given(args) == {n \in PathFlags : \E i \in DOMAIN args :
                              args[i] = Flag(n) /\ AheadOfSep(args, i)}
           stray(args) == \E i \in DOMAIN args :
                              args[i].kind = "word" /\ AheadOfSep(args, i)
<1>1. ASSUME Inv, NEW l \in Went, Native(l.call.argv0)
      PROVE  LET profile == BuildProfile(l.cfg)
             IN  /\ profile.from = None => profile.of \subseteq given(l.call.args)
                 /\ profile.from # None => profile.from = l.call.own.profile
                 /\ given(l.call.args) # {} /\ ~stray(l.call.args) =>
                        profile = [from |-> None, of |-> given(l.call.args)]
  <2> DEFINE args == l.call.args
             own == l.call.own
             flags == FlagNames(args) \cap PathFlags
  <2>1. /\ args \in Seq(Argument) /\ own \in Environment
        /\ l.cfg = nativeMode(args, own) /\ nativeMode(args, own) # None
    BY <1>1, WentFacts, WentNative
  <2>2. flags \subseteq given(args) /\ (~stray(args) => flags = given(args))
    BY <2>1, GivenFlags
  <2>3. /\ l.cfg.profilePath = own.profile /\ l.cfg.paths = flags
        /\ ~Conflicting(FlagNames(args), own)
    BY <2>1, NativeFacts
  <2>4. flags # {} => own.profile = None
    BY <2>3 DEF Conflicting
  <2> HIDE DEF given, stray, args, own, flags
  <2>5. BuildProfile(l.cfg) = IF own.profile # None THEN [from |-> own.profile, of |-> l.cfg.binary]
                              ELSE [from |-> None, of |-> flags]
    BY <2>3 DEF BuildProfile
  <2> QED
    BY <2>2, <2>4, <2>5 DEF args, own
<1>2. Inv => FlagsAreTheProfile
  BY <1>1 DEF FlagsAreTheProfile, AheadOfSep
<1> QED
  BY <1>2, InvAlways, PTL

(* For paths and links of any kind, native mode runs the file a shell would *)
(* find under the first word after the separator, and wrapper mode looks    *)
(* for the one argv[0] leads to, unless Clean or Abs took out a ".." that   *)
(* leaves a directory entered by a link.                                    *)
THEOREM RunsTheNamed == Spec => []RunsWhatWasNamed
<1>1. ASSUME Inv, NEW l \in Went
      PROVE  LET name    == Named(l.call)
                 binary  == l.cfg.binary
                 cleaned == IF binary.abs THEN InDir(Cwd, name) ELSE name
             IN  \/ Place(Links, Cwd, binary) = Place(Links, Cwd, name)
                 \/ LeavesLink(Links, Cwd, cleaned)
  <2>1. CASE Native(l.call.argv0)
    <3> DEFINE args == l.call.args
               word == args[sepIdx(args) + 1].path
    <3>1. /\ args \in Seq(Argument) /\ l.call.own \in Environment
          /\ l.cfg = nativeMode(args, l.call.own) /\ nativeMode(args, l.call.own) # None
      BY <1>1, <2>1, WentFacts, WentNative
    <3>2. l.cfg.binary = Binary(args) /\ Binary(args) # None
      BY <3>1, NativeFacts
    <3>3. word \in Path /\ l.cfg.binary = resolveBinaryPath(word) /\ l.cfg.binary # None
      BY <3>1, <3>2, BinaryFacts
    <3>4. Named(l.call) = IF IsName(word) THEN InPath[word] ELSE word
      BY <2>1 DEF Named
    <3> HIDE DEF args, word
    <3> QED
      BY <3>3, <3>4, ResolveFacts
  <2>2. CASE ~Native(l.call.argv0)
    <3>1. /\ l.call.argv0 \in Path /\ l.call.own \in Environment
          /\ l.cfg = wrapperMoode(l.call.argv0, l.call.own)
      BY <1>1, <2>2, WentFacts DEF Asked, parseFlags
    <3> DEFINE name   == Named(l.call)
               binary == l.cfg.binary
    <3>2. binary = Abs(Cwd, name) /\ name = l.call.argv0
      BY <2>2, <3>1, WrapperFacts DEF Named
    <3> HIDE DEF name, binary
    <3>3. /\ binary.abs = TRUE
          /\ \/ Place(Links, Cwd, binary) = Place(Links, Cwd, name)
             \/ LeavesLink(Links, Cwd, InDir(Cwd, name))
      BY <3>1, <3>2, AbsPlace
    <3>4. (IF binary.abs THEN InDir(Cwd, name) ELSE name) = InDir(Cwd, name)
      BY <3>3
    <3> QED
      BY <3>3, <3>4, Zenon DEF name, binary
  <2> QED
    BY <2>1, <2>2
<1>2. Inv => RunsWhatWasNamed
  BY <1>1 DEF RunsWhatWasNamed
<1> QED
  BY <1>2, InvAlways, PTL
=============================================================================
