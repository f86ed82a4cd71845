--------------------------- MODULE PathTreeProofs ----------------------------
(***************************************************************************)
(* Proofs about PathTree: the links of the arena, its counters and sharers *)
(* and the step by step refinement of EntryTree.                           *)
(***************************************************************************)
EXTENDS PathTree, FiniteSetTheorems, SequenceTheorems, WellFoundedInduction, TLAPS

LEMMA NatLeast ==
  ASSUME NEW T, T \subseteq Nat, T # {}
  PROVE  \E x \in T : \A y \in T : x <= y
<1> DEFINE R == {ss \in Nat \X Nat : ss[1] < ss[2]}
<1>1. IsWellFoundedOn(R, Nat)
  BY NatLessThanWellFounded DEF OpToRel
<1> HIDE DEF R
<1>2. PICK x \in T : \A y \in T : ~(<<y, x>> \in R)
  BY <1>1, WFMin
<1>3. ASSUME NEW y \in T PROVE x <= y
  <2>1. y \in Nat /\ x \in Nat /\ ~(<<y, x>> \in R) /\ <<y, x>> \in Nat \X Nat
    BY <1>2
  <2> QED BY <2>1 DEF R
<1> QED BY <1>3

\* A set of numbers that has each number with everything below it in it has all.
LEMMA AllNumbers ==
  ASSUME NEW T, \A n \in Nat : (\A k \in 0..(n - 1) : k \in T) => n \in T
  PROVE  Nat \subseteq T
<1> SUFFICES ASSUME Nat \ T # {} PROVE FALSE
  OBVIOUS
<1>1. PICK x \in Nat \ T : \A y \in Nat \ T : x <= y
  BY NatLeast
<1>2. ASSUME NEW k \in 0..(x - 1) PROVE k \in T
  BY <1>1
<1> QED BY <1>1, <1>2

-----------------------------------------------------------------------------
(* Arenas. *)

\* Names of files, and that of the root.
Name == STRING \cup {""}

Size(ns) == Cardinality(DOMAIN ns)
Kids == UNION {[D -> Nat] : D \in SUBSET Name}
Counts == [represented : Nat, distributed : Nat, exclusive : Nat, shared : Nat,
           comp_samples : Nat, uncompressed : Nat]
NodeRec == [name : Name, parent : Int, children : Kids, subvol : BOOLEAN, removed : BOOLEAN,
            c : Counts, sharers : Seq(Path)]

\* Parents come first.
Rooted(ns) ==
  /\ Size(ns) \in Nat \ {0} /\ DOMAIN ns = 0..(Size(ns) - 1)
  /\ ns[0].parent = NoParent
  /\ \A i \in DOMAIN ns \ {0} : ns[i].parent \in 0..(i - 1)

\* A children map leads to the nodes below, under their names, and to all of those
\* that were not removed.
Arena(ns) ==
  /\ Rooted(ns)
  /\ ns \in [DOMAIN ns -> NodeRec]
  /\ ~ns[0].removed
  /\ \A i \in DOMAIN ns : \A nm \in DOMAIN ns[i].children :
       LET k == ns[i].children[nm] IN
       k \in DOMAIN ns \ {0} /\ ns[k].name = nm /\ ns[k].parent = i /\ ~ns[k].removed
  /\ \A k \in DOMAIN ns \ {0} :
       LET up == ns[ns[k].parent] IN
       ~ns[k].removed => ns[k].name \in DOMAIN up.children /\ up.children[ns[k].name] = k

LEMMA RootedFacts ==
  ASSUME NEW ns, Rooted(ns)
  PROVE  /\ 0 \in DOMAIN ns /\ ns[0].parent = NoParent /\ DOMAIN ns \subseteq Nat
         /\ \A i \in DOMAIN ns : i # 0 => /\ ns[i].parent \in DOMAIN ns /\ ns[i].parent # NoParent
                                          /\ ns[i].parent < i
         /\ \A i \in DOMAIN ns : 0..i \subseteq DOMAIN ns
BY DEF Rooted, NoParent

\* An induction over the nodes: along parents it ends at the root.
LEMMA NodeInduction ==
  ASSUME NEW ns, Rooted(ns), NEW T, 0 \in T,
         \A i \in DOMAIN ns \ {0} : ns[i].parent \in T => i \in T
  PROVE  DOMAIN ns \subseteq T
<1> DEFINE U == {i \in Nat : i \in DOMAIN ns => i \in T}
<1>1. ASSUME NEW n \in Nat, \A k \in 0..(n - 1) : k \in U PROVE n \in U
  <2> SUFFICES ASSUME n \in DOMAIN ns, n # 0 PROVE n \in T
    OBVIOUS
  <2>1. ns[n].parent \in DOMAIN ns /\ ns[n].parent \in 0..(n - 1)
    BY RootedFacts DEF Rooted
  <2>2. ns[n].parent \in T
    BY <2>1, <1>1
  <2> QED BY <2>2
<1> HIDE DEF U
<1>2. Nat \subseteq U
  BY <1>1, AllNumbers
<1> QED BY <1>2, RootedFacts DEF U

-----------------------------------------------------------------------------
(* Chains of parents. *)

UpClosed(ns, S) == \A j \in S : ns[j].parent # NoParent => ns[j].parent \in S
Closure(ns, k) == {j \in DOMAIN ns : \A S \in SUBSET DOMAIN ns : k \in S /\ UpClosed(ns, S) => j \in S}

LEMMA ClosureStep ==
  ASSUME NEW ns, Rooted(ns), NEW k \in DOMAIN ns
  PROVE  Closure(ns, k) = {k} \cup IF ns[k].parent = NoParent THEN {}
                                   ELSE Closure(ns, ns[k].parent)
<1> DEFINE p == ns[k].parent
           up == IF p = NoParent THEN {} ELSE Closure(ns, p)
<1>1. ASSUME NEW j \in {k} \cup up PROVE j \in Closure(ns, k)
  BY <1>1 DEF Closure, UpClosed
<1>2. UpClosed(ns, {k} \cup up) /\ {k} \cup up \subseteq DOMAIN ns
  <2>1. p # NoParent => p \in DOMAIN ns
    BY RootedFacts
  <2>2. up \subseteq DOMAIN ns
    BY DEF Closure
  <2>3. p # NoParent => p \in up
    BY <2>1 DEF Closure
  <2>4. ASSUME NEW j \in up, ns[j].parent # NoParent PROVE ns[j].parent \in up
    <3>1. ns[j].parent \in DOMAIN ns /\ p # NoParent
      BY <2>2, <2>4, RootedFacts
    <3>2. \A S \in SUBSET DOMAIN ns : p \in S /\ UpClosed(ns, S) => ns[j].parent \in S
      BY <2>4, <3>1 DEF Closure, UpClosed
    <3> QED BY <3>1, <3>2 DEF Closure
  <2> QED BY <2>2, <2>3, <2>4 DEF UpClosed
<1>3. ASSUME NEW j \in Closure(ns, k) PROVE j \in {k} \cup up
  BY <1>2 DEF Closure
<1> QED BY <1>1, <1>3

LEMMA ChainStep ==
  ASSUME NEW ns, Rooted(ns), NEW i \in DOMAIN ns
  PROVE  Chain(ns, i) = {i} \cup IF ns[i].parent = NoParent THEN {} ELSE Chain(ns, ns[i].parent)
<1> DEFINE f == CHOOSE up : up = [k \in DOMAIN ns |-> {k} \cup IF ns[k].parent = NoParent THEN {}
                                                                ELSE up[ns[k].parent]]
<1>1. \E up : up = [k \in DOMAIN ns |-> {k} \cup IF ns[k].parent = NoParent THEN {}
                                                ELSE up[ns[k].parent]]
  <2> DEFINE g == [k \in DOMAIN ns |-> Closure(ns, k)]
  <2>1. ASSUME NEW k \in DOMAIN ns
        PROVE  g[k] = {k} \cup IF ns[k].parent = NoParent THEN {} ELSE g[ns[k].parent]
    <3>1. ns[k].parent # NoParent => ns[k].parent \in DOMAIN ns
      BY RootedFacts
    <3> QED BY <3>1, ClosureStep
  <2>2. g = [k \in DOMAIN ns |-> {k} \cup IF ns[k].parent = NoParent THEN {} ELSE g[ns[k].parent]]
    BY <2>1
  <2> HIDE DEF g
  <2> QED BY <2>2
<1>2. f = [k \in DOMAIN ns |-> {k} \cup IF ns[k].parent = NoParent THEN {} ELSE f[ns[k].parent]]
  BY <1>1
<1>3. \A j : Chain(ns, j) = f[j]
  BY DEF Chain
<1> HIDE DEF f
<1> QED BY <1>2, <1>3

\* A chain goes from the node down to the root.
LEMMA ChainFacts ==
  ASSUME NEW ns, Rooted(ns)
  PROVE  /\ Chain(ns, 0) = {0}
         /\ \A i \in DOMAIN ns : i # 0 => Chain(ns, i) = {i} \cup Chain(ns, ns[i].parent)
         /\ \A i \in DOMAIN ns : i \in Chain(ns, i) /\ 0 \in Chain(ns, i) /\ Chain(ns, i) \subseteq 0..i
         /\ \A i \in DOMAIN ns : Chain(ns, i) \subseteq DOMAIN ns
<1>1. Chain(ns, 0) = {0}
  BY RootedFacts, ChainStep
<1>2. ASSUME NEW i \in DOMAIN ns, i # 0 PROVE Chain(ns, i) = {i} \cup Chain(ns, ns[i].parent)
  BY <1>2, RootedFacts, ChainStep
<1> DEFINE T == {i \in DOMAIN ns : 0 \in Chain(ns, i) /\ Chain(ns, i) \subseteq 0..i}
<1>3. 0 \in T
  BY <1>1, RootedFacts
<1>4. ASSUME NEW i \in DOMAIN ns \ {0}, ns[i].parent \in T PROVE i \in T
  <2>1. ns[i].parent \in Nat /\ i \in Nat /\ ns[i].parent < i
    BY RootedFacts
  <2>2. Chain(ns, i) = {i} \cup Chain(ns, ns[i].parent)
    BY <1>2
  <2> QED BY <1>4, <2>1, <2>2
<1> HIDE DEF T
<1>5. DOMAIN ns \subseteq T
  BY <1>3, <1>4, NodeInduction
<1>6. \A i \in DOMAIN ns : i \in Chain(ns, i)
  BY <1>1, <1>2
<1>7. \A i \in DOMAIN ns : 0 \in Chain(ns, i) /\ Chain(ns, i) \subseteq 0..i
  BY <1>5 DEF T
<1> QED BY <1>1, <1>2, <1>6, <1>7, RootedFacts

\* What is above something above a node is above the node.
LEMMA ChainTransitive ==
  ASSUME NEW ns, Rooted(ns), NEW i \in DOMAIN ns, NEW j \in Chain(ns, i)
  PROVE  Chain(ns, j) \subseteq Chain(ns, i)
<1> DEFINE T == {k \in DOMAIN ns : \A l \in Chain(ns, k) : Chain(ns, l) \subseteq Chain(ns, k)}
<1>1. 0 \in T
  BY ChainFacts, RootedFacts
<1>2. ASSUME NEW k \in DOMAIN ns \ {0}, ns[k].parent \in T PROVE k \in T
  BY <1>2, ChainFacts
<1> HIDE DEF T
<1>3. DOMAIN ns \subseteq T
  BY <1>1, <1>2, NodeInduction
<1> QED BY <1>3 DEF T

\* Of two nodes above a third one is above the other.
LEMMA ChainComparable ==
  ASSUME NEW ns, Rooted(ns), NEW i \in DOMAIN ns, NEW j \in Chain(ns, i), NEW k \in Chain(ns, i)
  PROVE  j \in Chain(ns, k) \/ k \in Chain(ns, j)
<1> DEFINE T == {n \in DOMAIN ns : \A l, m \in Chain(ns, n) : l \in Chain(ns, m) \/ m \in Chain(ns, l)}
<1>1. 0 \in T
  BY ChainFacts, RootedFacts
<1>2. ASSUME NEW n \in DOMAIN ns \ {0}, ns[n].parent \in T PROVE n \in T
  <2>1. Chain(ns, n) = {n} \cup Chain(ns, ns[n].parent)
    BY ChainFacts
  <2> QED BY <1>2, <2>1
<1> HIDE DEF T
<1>3. DOMAIN ns \subseteq T
  BY <1>1, <1>2, NodeInduction
<1> QED BY <1>3 DEF T

-----------------------------------------------------------------------------
(* Paths. *)

\* f[k]: the path of node k, up to node m.
PathFn(ns, m, f) ==
  f = [k \in 0..m |-> IF ns[k].parent = NoParent THEN <<>> ELSE Append(f[ns[k].parent], ns[k].name)]

LEMMA PathFnExists ==
  ASSUME NEW ns, Rooted(ns), NEW m \in DOMAIN ns
  PROVE  \E f : PathFn(ns, m, f)
<1> DEFINE T == {n \in Nat : n \in DOMAIN ns => \E f : PathFn(ns, n, f)}
<1>1. ASSUME NEW n \in Nat, \A k \in 0..(n - 1) : k \in T PROVE n \in T
  <2> SUFFICES ASSUME n \in DOMAIN ns PROVE \E f : PathFn(ns, n, f)
    OBVIOUS
  <2>1. CASE n = 0
    <3> DEFINE g == [k \in 0..0 |-> <<>>]
    <3>1. PathFn(ns, 0, g)
      BY RootedFacts DEF PathFn
    <3> QED BY <2>1, <3>1
  <2>2. CASE n # 0
    <3>1. n - 1 \in 0..(n - 1) /\ n - 1 \in DOMAIN ns /\ n - 1 \in Nat
      BY <2>2, RootedFacts
    <3>2. PICK f : PathFn(ns, n - 1, f)
      BY <3>1, <1>1
    <3>0. \A k \in 0..(n - 1) : f[k] = IF ns[k].parent = NoParent THEN <<>>
                                       ELSE Append(f[ns[k].parent], ns[k].name)
      <4> HIDE DEF T
      <4> QED BY <3>2 DEF PathFn
    <3> DEFINE b(h, k) == IF ns[k].parent = NoParent THEN <<>> ELSE Append(h[ns[k].parent], ns[k].name)
               g == [k \in 0..n |-> IF k = n THEN b(f, k) ELSE f[k]]
    <3>3. ASSUME NEW k \in 0..n PROVE g[k] = b(g, k)
      <4>1. k \in DOMAIN ns
        BY RootedFacts
      <4>2. k # 0 => ns[k].parent \in 0..(n - 1) /\ ns[k].parent # NoParent
        BY <4>1 DEF Rooted, NoParent
      <4>3. b(g, k) = b(f, k)
        BY <4>1, <4>2, RootedFacts
      <4>4. k # n => f[k] = b(f, k)
        BY <3>0
      <4> QED BY <4>3, <4>4
    <3> HIDE DEF g
    <3>4. g = [k \in 0..n |-> b(g, k)]
      <4>1. g = [k \in 0..n |-> g[k]]
        BY DEF g
      <4> QED BY <4>1, <3>3
    <3> QED BY <3>4 DEF PathFn
  <2> QED BY <2>1, <2>2
<1> HIDE DEF T
<1>2. Nat \subseteq T
  BY <1>1, AllNumbers
<1> QED BY <1>2, RootedFacts DEF T

LEMMA PathStep ==
  ASSUME NEW ns, Rooted(ns), NEW i \in DOMAIN ns
  PROVE  path_of(ns, i) = IF ns[i].parent = NoParent THEN <<>>
                          ELSE Append(path_of(ns, ns[i].parent), ns[i].name)
<1> DEFINE b(h, k) == IF ns[k].parent = NoParent THEN <<>> ELSE Append(h[ns[k].parent], ns[k].name)
           f == CHOOSE h : h = [k \in DOMAIN ns |-> b(h, k)]
<1>1. \E h : h = [k \in DOMAIN ns |-> b(h, k)]
  <2>1. Size(ns) - 1 \in DOMAIN ns /\ DOMAIN ns = 0..(Size(ns) - 1)
    BY DEF Rooted
  <2>2. \E h : PathFn(ns, Size(ns) - 1, h)
    BY <2>1, PathFnExists
  <2> QED BY <2>1, <2>2 DEF PathFn
<1>2. f = [k \in DOMAIN ns |-> b(f, k)]
  BY <1>1
<1>3. \A j : path_of(ns, j) = f[j]
  BY DEF path_of
<1> HIDE DEF f
<1> QED BY <1>2, <1>3

Named(ns) == \A i \in DOMAIN ns : ns[i].name \in Name

LEMMA PathFacts ==
  ASSUME NEW ns, Rooted(ns), Named(ns)
  PROVE  /\ path_of(ns, 0) = <<>>
         /\ \A i \in DOMAIN ns : i # 0 => path_of(ns, i) = Append(path_of(ns, ns[i].parent), ns[i].name)
         /\ \A i \in DOMAIN ns : path_of(ns, i) \in Seq(Name)
<1>1. path_of(ns, 0) = <<>>
  BY RootedFacts, PathStep
<1>2. \A i \in DOMAIN ns : i # 0 => path_of(ns, i) = Append(path_of(ns, ns[i].parent), ns[i].name)
  BY RootedFacts, PathStep
<1> DEFINE T == {i \in DOMAIN ns : path_of(ns, i) \in Seq(Name)}
<1>3. 0 \in T
  <2>1. <<>> \in Seq(Name)
    OBVIOUS
  <2> QED BY <2>1, <1>1, RootedFacts
<1>4. \A i \in DOMAIN ns \ {0} : ns[i].parent \in T => i \in T
  <2> SUFFICES ASSUME NEW i \in DOMAIN ns \ {0}, path_of(ns, ns[i].parent) \in Seq(Name)
               PROVE  path_of(ns, i) \in Seq(Name)
    OBVIOUS
  <2>1. ns[i].name \in Name
    BY DEF Named
  <2>2. path_of(ns, i) = Append(path_of(ns, ns[i].parent), ns[i].name)
    BY <1>2
  <2> QED BY <2>1, <2>2
<1> HIDE DEF T
<1>5. DOMAIN ns \subseteq T
  BY <1>3, <1>4, NodeInduction
<1> QED BY <1>1, <1>2, <1>5 DEF T

\* Nodes that were there keep what is above them and their paths.
LEMMA SameWalks ==
  ASSUME NEW a, NEW b, Rooted(a), Rooted(b), Named(a), DOMAIN a \subseteq DOMAIN b,
         \A i \in DOMAIN a : a[i].parent = b[i].parent /\ a[i].name = b[i].name
  PROVE  \A i \in DOMAIN a : Chain(a, i) = Chain(b, i) /\ path_of(a, i) = path_of(b, i)
<1> DEFINE T == {i \in DOMAIN a : Chain(a, i) = Chain(b, i) /\ path_of(a, i) = path_of(b, i)}
<1>1. 0 \in T
  <2>1. 0 \in DOMAIN a /\ 0 \in DOMAIN b /\ a[0].parent = NoParent /\ b[0].parent = NoParent
    BY RootedFacts
  <2>2. Chain(a, 0) = {0} /\ Chain(b, 0) = {0}
    BY ChainFacts
  <2>3. path_of(a, 0) = <<>> /\ path_of(b, 0) = <<>>
    BY <2>1, PathStep
  <2> QED BY <2>1, <2>2, <2>3
<1>2. ASSUME NEW i \in DOMAIN a \ {0}, a[i].parent \in T PROVE i \in T
  <2>1. i \in DOMAIN b /\ a[i].parent = b[i].parent /\ a[i].name = b[i].name /\ a[i].parent # NoParent
    BY RootedFacts
  <2> DEFINE p == a[i].parent
  <2>2. Chain(a, i) = Chain(b, i)
    <3>1. Chain(a, i) = {i} \cup Chain(a, p) /\ Chain(b, i) = {i} \cup Chain(b, p)
      BY <2>1, ChainStep
    <3> QED BY <1>2, <3>1
  <2>3. path_of(a, i) = path_of(b, i)
    <3>1. /\ path_of(a, i) = Append(path_of(a, p), a[i].name)
          /\ path_of(b, i) = Append(path_of(b, p), a[i].name)
      BY <2>1, PathStep
    <3> QED BY <1>2, <3>1
  <2> QED BY <2>2, <2>3
<1> HIDE DEF T
<1>3. DOMAIN a \subseteq T
  BY <1>1, <1>2, NodeInduction
<1> QED BY <1>3 DEF T

\* The strict prefixes of a path.
StrictPrefixes(p) == {SubSeq(p, 1, k) : k \in 0..(Len(p) - 1)}

LEMMA PrefixAppend ==
  ASSUME NEW s \in Seq(Name), NEW e \in Name
  PROVE  StrictPrefixes(Append(s, e)) = StrictPrefixes(s) \cup {s}
<1> DEFINE p == Append(s, e)
<1>1. p \in Seq(Name) /\ Len(p) = Len(s) + 1 /\ Len(s) \in Nat
  OBVIOUS
<1>2. \A k \in 0..Len(s) : SubSeq(p, 1, k) = SubSeq(s, 1, k)
  <2> SUFFICES ASSUME NEW k \in 0..Len(s) PROVE SubSeq(p, 1, k) = SubSeq(s, 1, k)
    OBVIOUS
  <2>1. /\ SubSeq(p, 1, k) = [j \in 1..k |-> p[j]]
        /\ SubSeq(s, 1, k) = [j \in 1..k |-> s[j]]
    BY <1>1
  <2>2. \A j \in 1..k : p[j] = s[j]
    OBVIOUS
  <2> QED BY <2>1, <2>2
<1>3. SubSeq(s, 1, Len(s)) = s
  OBVIOUS
<1> HIDE DEF p
<1>4. StrictPrefixes(p) \subseteq StrictPrefixes(s) \cup {s}
  <2> SUFFICES ASSUME NEW k \in 0..Len(s) PROVE SubSeq(p, 1, k) \in StrictPrefixes(s) \cup {s}
    BY <1>1 DEF StrictPrefixes
  <2>1. SubSeq(p, 1, k) = SubSeq(s, 1, k)
    BY <1>2
  <2>2. k # Len(s) => k \in 0..(Len(s) - 1)
    BY <1>1
  <2> QED BY <2>1, <2>2, <1>3 DEF StrictPrefixes
<1>5. StrictPrefixes(s) \cup {s} \subseteq StrictPrefixes(p)
  <2>1. \A k \in 0..(Len(s) - 1) : k \in 0..(Len(p) - 1) /\ k \in 0..Len(s)
    BY <1>1
  <2>2. Len(s) \in 0..(Len(p) - 1) /\ Len(s) \in 0..Len(s)
    BY <1>1
  <2>3. StrictPrefixes(s) \subseteq StrictPrefixes(p)
    BY <2>1, <1>2 DEF StrictPrefixes
  <2>4. s \in StrictPrefixes(p)
    BY <2>2, <1>2, <1>3 DEF StrictPrefixes
  <2> QED BY <2>3, <2>4
<1> QED BY <1>4, <1>5 DEF p

\* A node hangs below one node for each strict prefix of its path.
LEMMA ArenaHangs ==
  ASSUME NEW ns, Rooted(ns), Named(ns), NEW i \in DOMAIN ns
  PROVE  /\ {path_of(ns, j) : j \in Chain(ns, i) \ {i}} = StrictPrefixes(path_of(ns, i))
         /\ \A j \in Chain(ns, i) : Len(path_of(ns, j)) <= Len(path_of(ns, i))
         /\ \A j, k \in Chain(ns, i) : path_of(ns, j) = path_of(ns, k) => j = k
<1> DEFINE P(j) == path_of(ns, j)
           C(j) == Chain(ns, j)
           T == {n \in DOMAIN ns : /\ {P(j) : j \in C(n) \ {n}} = StrictPrefixes(P(n))
                                   /\ \A j \in C(n) : Len(P(j)) <= Len(P(n))
                                   /\ \A j, k \in C(n) : P(j) = P(k) => j = k}
<1>1. 0 \in T
  <2>1. C(0) = {0} /\ P(0) = <<>> /\ 0 \in DOMAIN ns
    BY ChainFacts, PathFacts, RootedFacts
  <2>2. StrictPrefixes(<<>>) = {}
    BY DEF StrictPrefixes
  <2>3. {P(j) : j \in C(0) \ {0}} = {}
    BY <2>1
  <2> HIDE DEF P, C
  <2> QED BY <2>1, <2>2, <2>3
<1>2. ASSUME NEW n \in DOMAIN ns \ {0}, ns[n].parent \in T PROVE n \in T
  <2> DEFINE m == ns[n].parent
  <2>1. C(n) = {n} \cup C(m) /\ m \in DOMAIN ns /\ m \in C(m) /\ n \notin C(m)
    <3>1. m \in DOMAIN ns /\ m < n /\ m \in Nat /\ n \in Nat
      BY RootedFacts
    <3>2. C(n) = {n} \cup C(m) /\ m \in C(m) /\ C(m) \subseteq 0..m
      BY <3>1, ChainFacts
    <3> QED BY <3>1, <3>2
  <2>2. P(n) = Append(P(m), ns[n].name) /\ P(m) \in Seq(Name) /\ ns[n].name \in Name
    BY <2>1, PathFacts DEF Named
  <2>3. Len(P(n)) = Len(P(m)) + 1 /\ Len(P(m)) \in Nat
    BY <2>2
  <2>4. \A j \in C(m) : P(j) \in Seq(Name) /\ Len(P(j)) \in Nat
    BY <2>1, ChainFacts, PathFacts
  <2>5. StrictPrefixes(P(n)) = StrictPrefixes(P(m)) \cup {P(m)}
    BY <2>2, PrefixAppend
  <2> HIDE DEF P, C
  <2>6. {P(j) : j \in C(n) \ {n}} = {P(j) : j \in C(m) \ {m}} \cup {P(m)}
    BY <2>1
  <2>7. \A j \in C(m) : Len(P(j)) <= Len(P(m))
    BY <1>2
  <2>8. \A j \in C(n) : Len(P(j)) <= Len(P(n))
    BY <2>1, <2>3, <2>4, <2>7
  <2>9. \A j \in C(m) : P(j) # P(n)
    BY <2>3, <2>4, <2>7
  <2>10. \A j, k \in C(n) : P(j) = P(k) => j = k
    BY <1>2, <2>1, <2>9
  <2> QED BY <1>2, <2>5, <2>6, <2>8, <2>10
<1> HIDE DEF T
<1>3. DOMAIN ns \subseteq T
  BY <1>1, <1>2, NodeInduction
<1> QED BY <1>3 DEF T

-----------------------------------------------------------------------------
(* Live nodes. *)

Live(ns) == {i \in DOMAIN ns : is_live(ns, i)}

LEMMA ArenaFacts ==
  ASSUME NEW ns, Arena(ns)
  PROVE  Rooted(ns) /\ Named(ns) /\ \A i \in DOMAIN ns : ns[i] \in NodeRec
BY DEF Arena, Named, NodeRec

LEMMA LiveFacts ==
  ASSUME NEW ns, Arena(ns)
  PROVE  /\ 0 \in Live(ns)
         /\ \A i \in Live(ns) : Chain(ns, i) \subseteq Live(ns) /\ ~ns[i].removed
         /\ \A i \in DOMAIN ns \ {0} : i \in Live(ns) <=> ~ns[i].removed /\ ns[i].parent \in Live(ns)
<1>1. Rooted(ns)
  BY ArenaFacts
<1>2. 0 \in Live(ns)
  BY <1>1, ChainFacts, RootedFacts DEF Live, is_live, Arena
<1>3. ASSUME NEW i \in Live(ns) PROVE Chain(ns, i) \subseteq Live(ns) /\ ~ns[i].removed
  BY <1>1, ChainFacts, ChainTransitive DEF Live, is_live
<1>4. ASSUME NEW i \in DOMAIN ns \ {0}
      PROVE  i \in Live(ns) <=> ~ns[i].removed /\ ns[i].parent \in Live(ns)
  <2>1. Chain(ns, i) = {i} \cup Chain(ns, ns[i].parent) /\ ns[i].parent \in DOMAIN ns
    BY <1>1, ChainFacts, RootedFacts
  <2> QED BY <2>1 DEF Live, is_live
<1> QED BY <1>2, <1>3, <1>4

LEMMA AppendSame ==
  ASSUME NEW S, NEW p \in Seq(S), NEW q \in Seq(S), NEW a \in S, NEW b \in S,
         Append(p, a) = Append(q, b)
  PROVE  p = q /\ a = b
<1>1. Len(p) = Len(q) /\ Len(p) \in Nat
  OBVIOUS
<1>2. a = b
  <2>1. Append(p, a)[Len(p) + 1] = a /\ Append(q, b)[Len(p) + 1] = b
    BY <1>1
  <2> QED BY <2>1
<1>3. \A j \in 1..Len(p) : p[j] = q[j]
  <2>1. \A j \in 1..Len(p) : Append(p, a)[j] = p[j] /\ Append(q, b)[j] = q[j]
    BY <1>1
  <2> QED BY <2>1
<1>4. p = [j \in 1..Len(p) |-> p[j]] /\ q = [j \in 1..Len(p) |-> q[j]]
  BY <1>1
<1> QED BY <1>2, <1>3, <1>4

\* A path has at most one live node.
LEMMA OneLive ==
  ASSUME NEW ns, Arena(ns), NEW i \in Live(ns), NEW k \in Live(ns), path_of(ns, i) = path_of(ns, k)
  PROVE  i = k
<1> DEFINE P(j) == path_of(ns, j)
           T == {n \in DOMAIN ns : \A m \in Live(ns) : n \in Live(ns) /\ P(n) = P(m) => n = m}
<1>1. Rooted(ns) /\ Named(ns)
  BY ArenaFacts
<1>2. \A n \in DOMAIN ns \ {0} :
        P(n) = Append(P(ns[n].parent), ns[n].name) /\ ns[n].name \in Name /\ ns[n].parent \in DOMAIN ns
  BY <1>1, PathFacts, RootedFacts DEF Named
<1>3. P(0) = <<>> /\ \A n \in DOMAIN ns : P(n) \in Seq(Name)
  BY <1>1, PathFacts
<1>4. Live(ns) \subseteq DOMAIN ns
  BY DEF Live
<1>5. \A n \in DOMAIN ns \ {0} : P(n) # <<>>
  BY <1>2, <1>3
<1>6. 0 \in T
  BY <1>1, <1>3, <1>4, <1>5, RootedFacts
<1>7. ASSUME NEW n \in DOMAIN ns \ {0}, ns[n].parent \in T PROVE n \in T
  <2> SUFFICES ASSUME NEW m \in Live(ns), n \in Live(ns), P(n) = P(m) PROVE n = m
    OBVIOUS
  <2> DEFINE a == ns[n].parent
             b == ns[m].parent
  <2>1. m \in DOMAIN ns \ {0}
    BY <1>3, <1>4, <1>5
  <2>2. Append(P(a), ns[n].name) = Append(P(b), ns[m].name)
    BY <1>2, <2>1
  <2>3. P(a) \in Seq(Name) /\ P(b) \in Seq(Name) /\ ns[n].name \in Name /\ ns[m].name \in Name
    BY <1>2, <1>3, <2>1
  <2> HIDE DEF P
  <2>4. P(a) = P(b) /\ ns[n].name = ns[m].name
    BY <2>2, <2>3, AppendSame
  <2>5. a \in Live(ns) /\ b \in Live(ns) /\ ~ns[n].removed /\ ~ns[m].removed
    BY <2>1, LiveFacts
  <2>6. a = b
    BY <1>7, <2>4, <2>5
  <2> HIDE DEF T
  <2>7. ns[a].children[ns[n].name] = n /\ ns[b].children[ns[m].name] = m
    BY <2>1, <2>5 DEF Arena
  <2> QED BY <2>4, <2>6, <2>7
<1> HIDE DEF T
<1>8. DOMAIN ns \subseteq T
  BY <1>1, <1>6, <1>7, NodeInduction
<1> QED BY <1>4, <1>8 DEF T

-----------------------------------------------------------------------------
(* Arenas that grow. *)

\* b is a with more nodes, all live, and the nodes M marked.
Grows(a, b, M) ==
  /\ Arena(a) /\ Arena(b) /\ DOMAIN a \subseteq DOMAIN b /\ M \subseteq DOMAIN b
  /\ \A i \in DOMAIN a :
       /\ b[i].name = a[i].name /\ b[i].parent = a[i].parent /\ b[i].removed = a[i].removed
       /\ b[i].c = a[i].c /\ b[i].sharers = a[i].sharers
  /\ \A i \in DOMAIN b \ DOMAIN a : i \in Live(b) /\ b[i].c = Zero /\ b[i].sharers = <<>>
  /\ \A i \in DOMAIN b : b[i].subvol <=> i \in M \/ (i \in DOMAIN a /\ a[i].subvol)

LEMMA GrowsFacts ==
  ASSUME NEW a, NEW b, NEW M, Grows(a, b, M)
  PROVE  /\ \A i \in DOMAIN a : Chain(b, i) = Chain(a, i) /\ path_of(b, i) = path_of(a, i)
         /\ \A i \in DOMAIN a : i \in Live(b) <=> i \in Live(a)
         /\ Live(a) \subseteq Live(b)
<1>1. Rooted(a) /\ Rooted(b) /\ Named(a) /\ DOMAIN a \subseteq DOMAIN b
  BY ArenaFacts DEF Grows
<1>2. \A i \in DOMAIN a : Chain(b, i) = Chain(a, i) /\ path_of(b, i) = path_of(a, i)
  BY <1>1, SameWalks DEF Grows
<1>3. ASSUME NEW i \in DOMAIN a PROVE i \in Live(b) <=> i \in Live(a)
  <2>1. \A j \in Chain(a, i) : b[j].removed = a[j].removed
    BY <1>1, ChainFacts DEF Grows
  <2> QED BY <1>1, <1>2, <2>1 DEF Live, is_live
<1> QED BY <1>2, <1>3 DEF Live

LEMMA GrowsNot ==
  ASSUME NEW a, Arena(a)
  PROVE  Grows(a, a, {})
BY DEF Grows

LEMMA GrowsTwice ==
  ASSUME NEW a, NEW b, NEW d, NEW M, NEW N, Grows(a, b, M), Grows(b, d, N)
  PROVE  Grows(a, d, M \cup N)
<1>1. ASSUME NEW i \in DOMAIN d \ DOMAIN a PROVE i \in Live(d) /\ d[i].c = Zero /\ d[i].sharers = <<>>
  <2>1. CASE i \in DOMAIN b
    BY <2>1, GrowsFacts DEF Grows
  <2>2. CASE i \notin DOMAIN b
    BY <2>2 DEF Grows
  <2> QED BY <2>1, <2>2
<1>2. ASSUME NEW i \in DOMAIN d
      PROVE  d[i].subvol <=> i \in M \cup N \/ (i \in DOMAIN a /\ a[i].subvol)
  BY <1>2 DEF Grows
<1> QED BY <1>1, <1>2 DEF Grows

\* A child that is not there is added at the end of the arena.
LEMMA AddedChild ==
  ASSUME NEW ns, Arena(ns), NEW par \in Live(ns), NEW nm \in Name, nm \notin DOMAIN ns[par].children
  PROVE  LET g == add_child(ns, par, nm)
             id == Size(ns)
         IN /\ g \in [0..id -> NodeRec] /\ g[id] = NewNode(nm, par)
            /\ \A i \in DOMAIN ns \ {par} : g[i] = ns[i]
            /\ par \in DOMAIN ns /\ id \notin DOMAIN ns /\ id \in Nat
            /\ g[par] = [ns[par] EXCEPT !.children = g[par].children]
            /\ DOMAIN g[par].children = DOMAIN ns[par].children \cup {nm}
            /\ g[par].children[nm] = id
            /\ \A x \in DOMAIN ns[par].children : g[par].children[x] = ns[par].children[x]
<1> DEFINE id == Size(ns)
           kids == ns[par].children
           more == With(kids, nm, id)
           upd == [ns EXCEPT ![par].children = more]
           g == add_child(ns, par, nm)
<1>1. DOMAIN ns = 0..(id - 1) /\ id \in Nat \ {0} /\ par \in DOMAIN ns /\ id \notin DOMAIN ns
  BY DEF Arena, Rooted, Live
<1>2. ns \in [DOMAIN ns -> NodeRec] /\ ns[par] \in NodeRec /\ kids \in Kids
  BY <1>1 DEF Arena, NodeRec
<1>3. /\ DOMAIN more = DOMAIN kids \cup {nm}
      /\ more[nm] = id
      /\ \A x \in DOMAIN kids : more[x] = kids[x]
  BY DEF With
<1>4. more \in Kids
  <2>1. DOMAIN kids \subseteq Name /\ \A x \in DOMAIN kids : kids[x] \in Nat
    BY <1>2 DEF Kids
  <2>2. more = [x \in DOMAIN more |-> more[x]]
    BY DEF With
  <2> HIDE DEF more, kids
  <2>3. \A x \in DOMAIN more : more[x] \in Nat
    BY <1>1, <1>3, <2>1
  <2>4. more \in [DOMAIN more -> Nat]
    BY <2>2, <2>3
  <2> QED BY <1>3, <2>1, <2>4 DEF Kids
<1>5. upd \in [DOMAIN ns -> NodeRec] /\ upd[par] = [ns[par] EXCEPT !.children = more]
      /\ \A i \in DOMAIN ns \ {par} : upd[i] = ns[i]
  <2> HIDE DEF more, kids
  <2>1. [ns[par] EXCEPT !.children = more] \in NodeRec
    BY <1>2, <1>4 DEF NodeRec
  <2> QED BY <1>1, <1>2, <2>1
<1>6. upd[par].children = more
  <2> HIDE DEF more, upd
  <2> QED BY <1>2, <1>5 DEF NodeRec
<1>7. g = With(upd, id, NewNode(nm, par))
  BY DEF add_child, Size
<1>8. NewNode(nm, par) \in NodeRec
  <2>1. <<>> \in Kids
    <3>1. <<>> \in [{} -> Nat]
      OBVIOUS
    <3> QED BY <3>1 DEF Kids
  <2>2. <<>> \in Seq(Path) /\ Zero \in Counts
    BY DEF Zero, Counts
  <2> QED BY <1>1, <2>1, <2>2 DEF NewNode, NodeRec
<1> HIDE DEF upd
<1>9. /\ DOMAIN g = 0..id
      /\ g[id] = NewNode(nm, par)
      /\ \A i \in DOMAIN ns : g[i] = upd[i]
  <2>1. DOMAIN upd = DOMAIN ns
    BY <1>5
  <2>2. DOMAIN ns \cup {id} = 0..id
    BY <1>1
  <2> QED BY <1>1, <1>7, <2>1, <2>2 DEF With
<1>10. g \in [0..id -> NodeRec]
  <2>1. g = [i \in DOMAIN g |-> g[i]]
    BY <1>7 DEF With
  <2>2. \A i \in 0..id : g[i] \in NodeRec
    BY <1>1, <1>5, <1>8, <1>9
  <2> HIDE DEF g
  <2> QED BY <1>9, <2>1, <2>2
<1> HIDE DEF g, more
<1>11. g[par] = upd[par] /\ g[par].children = more
  BY <1>1, <1>6, <1>9
<1>12. g[par] = [ns[par] EXCEPT !.children = g[par].children]
  BY <1>5, <1>11
<1>13. \A i \in DOMAIN ns \ {par} : g[i] = ns[i]
  BY <1>5, <1>9
<1> QED BY <1>1, <1>3, <1>9, <1>10, <1>11, <1>12, <1>13 DEF g

LEMMA UpTo ==
  ASSUME NEW n \in Nat
  PROVE  Cardinality(0..n) = n + 1
<1>1. 0 \in Int /\ n \in Int /\ ~(0 > n)
  OBVIOUS
<1>2. Cardinality(0..n) = n - 0 + 1
  BY <1>1, FS_Interval
<1> QED BY <1>2

LEMMA AddedArena ==
  ASSUME NEW ns, Arena(ns), NEW par \in Live(ns), NEW nm \in Name, nm \notin DOMAIN ns[par].children
  PROVE  /\ Grows(ns, add_child(ns, par, nm), {})
         /\ DOMAIN add_child(ns, par, nm) = DOMAIN ns \cup {Size(ns)}
         /\ nm \in DOMAIN add_child(ns, par, nm)[par].children
         /\ add_child(ns, par, nm)[par].children[nm] = Size(ns)
<1> DEFINE g == add_child(ns, par, nm)
           id == Size(ns)
<1>1. /\ g \in [0..id -> NodeRec] /\ g[id] = NewNode(nm, par)
      /\ \A i \in DOMAIN ns \ {par} : g[i] = ns[i]
      /\ par \in DOMAIN ns /\ id \notin DOMAIN ns /\ id \in Nat
      /\ g[par] = [ns[par] EXCEPT !.children = g[par].children]
      /\ DOMAIN g[par].children = DOMAIN ns[par].children \cup {nm}
      /\ g[par].children[nm] = id
      /\ \A x \in DOMAIN ns[par].children : g[par].children[x] = ns[par].children[x]
  BY AddedChild
<1> HIDE DEF g
<1>2. Rooted(ns) /\ DOMAIN ns = 0..(id - 1) /\ DOMAIN g = 0..id
  BY <1>1 DEF Arena, Rooted
<1>3. Size(g) = id + 1
  BY <1>1, <1>2, UpTo DEF Size
<1>4. /\ g[id].name = nm /\ g[id].parent = par /\ ~g[id].removed /\ ~g[id].subvol
      /\ DOMAIN g[id].children = {} /\ g[id].c = Zero /\ g[id].sharers = <<>>
  BY <1>1 DEF NewNode
<1>5. ASSUME NEW i \in DOMAIN ns
      PROVE  /\ g[i].name = ns[i].name /\ g[i].parent = ns[i].parent
             /\ g[i].removed = ns[i].removed /\ g[i].subvol = ns[i].subvol
             /\ g[i].c = ns[i].c /\ g[i].sharers = ns[i].sharers
             /\ i # par => g[i].children = ns[i].children
  <2>1. ns[par] \in NodeRec
    BY <1>1, ArenaFacts
  <2>2. CASE i = par
    BY <1>1, <2>1, <2>2 DEF NodeRec
  <2>3. CASE i # par
    BY <1>1, <2>3
  <2> QED BY <2>2, <2>3
<1>6. DOMAIN ns \subseteq DOMAIN g /\ DOMAIN g = DOMAIN ns \cup {id} /\ id # 0
  BY <1>1, <1>2, RootedFacts
<1>7. Rooted(g)
  <2>1. \A i \in DOMAIN g \ {0} : g[i].parent \in 0..(i - 1)
    <3> SUFFICES ASSUME NEW i \in DOMAIN g \ {0} PROVE g[i].parent \in 0..(i - 1)
      OBVIOUS
    <3>1. CASE i = id
      BY <1>1, <1>2, <1>4, <3>1
    <3>2. CASE i \in DOMAIN ns
      BY <1>2, <1>5, <3>2 DEF Rooted
    <3> QED BY <1>6, <3>1, <3>2
  <2>2. g[0].parent = NoParent
    BY <1>2, <1>5, RootedFacts
  <2>3. id + 1 \in Nat \ {0} /\ 0..((id + 1) - 1) = 0..id
    BY <1>1
  <2> QED BY <1>2, <1>3, <2>1, <2>2, <2>3 DEF Rooted
<1>8. Arena(g)
  <2>1. g \in [DOMAIN g -> NodeRec]
    BY <1>1
  <2>2. ~g[0].removed
    BY <1>2, <1>5, RootedFacts DEF Arena
  <2>3. ASSUME NEW i \in DOMAIN g, NEW x \in DOMAIN g[i].children
        PROVE  LET k == g[i].children[x] IN
               k \in DOMAIN g \ {0} /\ g[k].name = x /\ g[k].parent = i /\ ~g[k].removed
    <3>1. CASE i = par /\ x = nm
      BY <1>1, <1>4, <1>6, <3>1
    <3>2. CASE i # id /\ ~(i = par /\ x = nm)
      <4>1. i \in DOMAIN ns /\ x \in DOMAIN ns[i].children /\ g[i].children[x] = ns[i].children[x]
        BY <1>1, <1>5, <1>6, <2>3, <3>2
      <4> DEFINE k == ns[i].children[x]
      <4>2. k \in DOMAIN ns \ {0} /\ ns[k].name = x /\ ns[k].parent = i /\ ~ns[k].removed
        BY <4>1 DEF Arena
      <4> QED BY <1>5, <1>6, <4>1, <4>2
    <3>3. CASE i = id
      BY <1>4, <2>3, <3>3
    <3> QED BY <3>1, <3>2, <3>3
  <2>4. ASSUME NEW k \in DOMAIN g \ {0}, ~g[k].removed
        PROVE  /\ g[k].name \in DOMAIN g[g[k].parent].children
               /\ g[g[k].parent].children[g[k].name] = k
    <3>1. CASE k = id
      BY <1>1, <1>4, <3>1
    <3>2. CASE k \in DOMAIN ns
      <4> DEFINE p == ns[k].parent
                 x == ns[k].name
      <4>1. p \in DOMAIN ns /\ ~ns[k].removed
        BY <1>2, <1>5, <2>4, <3>2, RootedFacts
      <4>2. x \in DOMAIN ns[p].children /\ ns[p].children[x] = k
        BY <2>4, <3>2, <4>1 DEF Arena
      <4>3. x \in DOMAIN g[p].children /\ g[p].children[x] = k
        <5>1. CASE p = par
          BY <1>1, <4>2, <5>1
        <5>2. CASE p # par
          BY <1>5, <4>1, <4>2, <5>2
        <5> QED BY <5>1, <5>2
      <4> QED BY <1>5, <3>2, <4>3
    <3> QED BY <1>6, <3>1, <3>2
  <2> QED BY <1>7, <2>1, <2>2, <2>3, <2>4 DEF Arena
<1>9. id \in Live(g)
  <2>1. par \in Live(g)
    <3>1. Named(ns)
      BY ArenaFacts
    <3>2. Chain(g, par) = Chain(ns, par)
      BY <1>1, <1>2, <1>5, <1>6, <1>7, <3>1, SameWalks
    <3>3. \A j \in Chain(ns, par) : j \in DOMAIN ns /\ ~ns[j].removed
      BY <1>1, <1>2, ChainFacts DEF Live, is_live
    <3> QED BY <1>1, <1>5, <1>6, <3>2, <3>3 DEF Live, is_live
  <2> QED BY <1>4, <1>6, <1>8, <2>1, LiveFacts
<1>10. Grows(ns, g, {})
  <2>1. \A i \in DOMAIN g : g[i].subvol <=> (i \in DOMAIN ns /\ ns[i].subvol)
    BY <1>4, <1>5, <1>6
  <2>2. \A i \in DOMAIN g \ DOMAIN ns : i = id
    BY <1>6
  <2> QED BY <1>4, <1>5, <1>6, <1>8, <1>9, <2>1, <2>2 DEF Grows
<1>11. nm \in DOMAIN g[par].children /\ g[par].children[nm] = id
  BY <1>1
<1> QED BY <1>6, <1>10, <1>11 DEF g

\* One component further.
LEMMA DescendFacts ==
  ASSUME NEW ns, Arena(ns), NEW par \in Live(ns), NEW nm \in Name
  PROVE  LET nx == Descend([ns |-> ns, id |-> par], nm) IN
         /\ Grows(ns, nx.ns, {}) /\ nx.id \in Live(nx.ns)
         /\ path_of(nx.ns, nx.id) = Append(path_of(ns, par), nm)
         /\ \A i \in DOMAIN nx.ns \ DOMAIN ns : i = nx.id
         /\ nx = [ns |-> nx.ns, id |-> nx.id]
<1> DEFINE g == add_child(ns, par, nm)
           id == g[par].children[nm]
           nx == Descend([ns |-> ns, id |-> par], nm)
<1>1. nx = [ns |-> g, id |-> id]
  BY DEF Descend
<1>2. nx.ns = g /\ nx.id = id /\ nx = [ns |-> nx.ns, id |-> nx.id]
  BY <1>1
<1>3. par \in DOMAIN ns /\ Rooted(ns)
  BY ArenaFacts DEF Live
<1>4. Grows(ns, g, {}) /\ (\A i \in DOMAIN g \ DOMAIN ns : i = id) /\ nm \in DOMAIN g[par].children
  <2>1. CASE nm \in DOMAIN ns[par].children
    <3>1. g = ns
      BY <2>1 DEF add_child
    <3> HIDE DEF g
    <3> QED BY <2>1, <3>1, GrowsNot
  <2>2. CASE nm \notin DOMAIN ns[par].children
    <3>1. /\ Grows(ns, g, {}) /\ DOMAIN g = DOMAIN ns \cup {Size(ns)}
          /\ nm \in DOMAIN g[par].children /\ g[par].children[nm] = Size(ns)
      BY <2>2, AddedArena
    <3> HIDE DEF g
    <3> QED BY <3>1
  <2> QED BY <2>1, <2>2
<1> HIDE DEF g, nx
<1>5. Arena(g) /\ par \in DOMAIN g /\ Rooted(g) /\ Named(g)
  BY <1>3, <1>4, ArenaFacts DEF Grows
<1>6. id \in DOMAIN g \ {0} /\ g[id].name = nm /\ g[id].parent = par /\ ~g[id].removed
  BY <1>4, <1>5 DEF Arena
<1>7. id \in Live(g)
  BY <1>4, <1>5, <1>6, LiveFacts, GrowsFacts
<1>8. path_of(g, id) = Append(path_of(ns, par), nm)
  BY <1>3, <1>4, <1>5, <1>6, PathFacts, GrowsFacts
<1> QED BY <1>2, <1>4, <1>7, <1>8 DEF nx

-----------------------------------------------------------------------------
(* Loops.  X pairs each state of a loop with the number of rounds so far. *)

IsLoop(n, b, g, f) == f = [k \in 0..n |-> IF k = 0 THEN b ELSE g[<<f[k - 1], k>>]]

LEMMA LoopExists ==
  ASSUME NEW n \in Nat, NEW b, NEW g
  PROVE  \E f : IsLoop(n, b, g, f)
<1> DEFINE T == {m \in Nat : \E f : IsLoop(m, b, g, f)}
<1>1. ASSUME NEW m \in Nat, \A k \in 0..(m - 1) : k \in T PROVE m \in T
  <2>1. CASE m = 0
    <3> DEFINE f == [k \in 0..0 |-> b]
    <3>1. IsLoop(0, b, g, f)
      BY DEF IsLoop
    <3> QED BY <2>1, <3>1
  <2>2. CASE m # 0
    <3>1. m - 1 \in 0..(m - 1) /\ m - 1 \in Nat
      BY <2>2
    <3>2. PICK f : IsLoop(m - 1, b, g, f)
      BY <3>1, <1>1
    <3> DEFINE h == [k \in 0..m |-> IF k = m THEN g[<<f[m - 1], m>>] ELSE f[k]]
    <3>3. ASSUME NEW k \in 0..m PROVE h[k] = IF k = 0 THEN b ELSE g[<<h[k - 1], k>>]
      <4>1. CASE k = m
        BY <2>2, <4>1
      <4>2. CASE k # m
        <5>1. k \in 0..(m - 1) /\ (k # 0 => k - 1 \in 0..m /\ k - 1 # m)
          BY <4>2
        <5>2. f[k] = IF k = 0 THEN b ELSE g[<<f[k - 1], k>>]
          BY <3>2, <5>1 DEF IsLoop
        <5>3. h[k] = f[k] /\ (k # 0 => h[k - 1] = f[k - 1])
          BY <4>2, <5>1
        <5> HIDE DEF h
        <5> QED BY <5>2, <5>3
      <4> QED BY <4>1, <4>2
    <3>4. h = [k \in 0..m |-> IF k = 0 THEN b ELSE g[<<h[k - 1], k>>]]
      BY <3>3
    <3> HIDE DEF h
    <3>5. IsLoop(m, b, g, h)
      BY <3>4 DEF IsLoop
    <3> QED BY <3>5
  <2> QED BY <2>1, <2>2
<1> HIDE DEF T
<1>2. n \in T
  BY <1>1, AllNumbers
<1> QED BY <1>2 DEF T

LEMMA LoopInvariant ==
  ASSUME NEW n \in Nat, NEW X, NEW f, <<f[0], 0>> \in X,
         \A k \in 1..n : <<f[k - 1], k - 1>> \in X => <<f[k], k>> \in X
  PROVE  \A k \in 0..n : <<f[k], k>> \in X
<1> DEFINE T == {k \in Nat : k <= n => <<f[k], k>> \in X}
<1>1. ASSUME NEW m \in Nat, \A k \in 0..(m - 1) : k \in T PROVE m \in T
  <2>1. m # 0 => m - 1 \in 0..(m - 1)
    OBVIOUS
  <2>2. m # 0 /\ m <= n => m - 1 \in T /\ m - 1 <= n /\ m \in 1..n
    BY <1>1, <2>1
  <2> QED BY <2>2
<1> HIDE DEF T
<1>2. Nat \subseteq T
  BY <1>1, AllNumbers
<1> QED BY <1>2 DEF T

\* A loop whose body is g wherever X holds keeps X, and is well defined.
LEMMA Loop ==
  ASSUME NEW n \in Nat, NEW b, NEW g, NEW X, <<b, 0>> \in X,
         \A k \in 1..n : \A x : <<x, k - 1>> \in X => <<g[<<x, k>>], k>> \in X
  PROVE  \E f : /\ IsLoop(n, b, g, f)
                /\ f[0] = b /\ \A k \in 1..n : f[k] = g[<<f[k - 1], k>>]
                /\ \A k \in 0..n : <<f[k], k>> \in X
<1>1. PICK f : IsLoop(n, b, g, f)
  BY LoopExists
<1>2. f[0] = b
  BY <1>1 DEF IsLoop
<1>3. ASSUME NEW k \in 1..n PROVE f[k] = g[<<f[k - 1], k>>]
  BY <1>1 DEF IsLoop
<1>4. \A k \in 1..n : <<f[k - 1], k - 1>> \in X => <<f[k], k>> \in X
  BY <1>3
<1>5. \A k \in 0..n : <<f[k], k>> \in X
  BY <1>2, <1>4, LoopInvariant
<1> QED BY <1>1, <1>2, <1>3, <1>5

-----------------------------------------------------------------------------
(* Creating nodes. *)

Arenas == {a \in UNION {[0..(m - 1) -> NodeRec] : m \in Nat} : Arena(a)}

LEMMA ArenaIn ==
  ASSUME NEW a, Arena(a)
  PROVE  a \in Arenas
<1>1. Size(a) \in Nat /\ a \in [0..(Size(a) - 1) -> NodeRec]
  BY DEF Arena, Rooted
<1> QED BY <1>1 DEF Arenas

LEMMA LiveNat ==
  ASSUME NEW a, Arena(a)
  PROVE  Live(a) \subseteq Nat /\ Live(a) \subseteq DOMAIN a
BY ArenaFacts, RootedFacts DEF Live

LEMMA SubSeqNext ==
  ASSUME NEW S, NEW s \in Seq(S), NEW k \in 1..Len(s)
  PROVE  SubSeq(s, 1, k) = Append(SubSeq(s, 1, k - 1), s[k]) /\ s[k] \in S
<1>1. /\ SubSeq(s, 1, k) = [j \in 1..k |-> s[j]]
      /\ SubSeq(s, 1, k - 1) = [j \in 1..(k - 1) |-> s[j]]
  OBVIOUS
<1> DEFINE p == [j \in 1..(k - 1) |-> s[j]]
<1>2. p \in Seq(S) /\ Len(p) = k - 1 /\ s[k] \in S
  OBVIOUS
<1>3. Append(p, s[k]) = [j \in 1..k |-> IF j = k THEN s[k] ELSE p[j]]
  BY <1>2
<1>4. \A j \in 1..k : (IF j = k THEN s[k] ELSE p[j]) = s[j]
  OBVIOUS
<1> QED BY <1>1, <1>2, <1>3, <1>4

\* The state of the walk of get_or_create after k components.
Walked(ns, path, st, k) ==
  /\ Grows(ns, st.ns, {}) /\ st.id \in Live(st.ns)
  /\ path_of(st.ns, st.id) = SubSeq(path, 1, k)
  /\ \A i \in DOMAIN st.ns \ DOMAIN ns : \E j \in 0..k : path_of(st.ns, i) = SubSeq(path, 1, j)

LEMMA WalkedNext ==
  ASSUME NEW ns, NEW path \in Seq(Name), NEW k \in 1..Len(path), NEW a, NEW id,
         Walked(ns, path, [ns |-> a, id |-> id], k - 1)
  PROVE  LET nx == Descend([ns |-> a, id |-> id], path[k]) IN
         /\ Walked(ns, path, nx, k) /\ nx \in [ns : Arenas, id : Nat]
<1> DEFINE st == [ns |-> a, id |-> id]
           nm == path[k]
           nx == Descend(st, nm)
           b == nx.ns
<1>1. /\ Grows(ns, a, {}) /\ id \in Live(a)
      /\ path_of(a, id) = SubSeq(path, 1, k - 1)
      /\ \A i \in DOMAIN a \ DOMAIN ns : \E j \in 0..(k - 1) : path_of(a, i) = SubSeq(path, 1, j)
  BY DEF Walked
<1>2. Arena(a) /\ SubSeq(path, 1, k) = Append(SubSeq(path, 1, k - 1), nm) /\ nm \in Name
  BY <1>1, SubSeqNext DEF Grows
<1> HIDE DEF nm
<1>3. /\ Grows(a, b, {}) /\ nx.id \in Live(b)
      /\ path_of(b, nx.id) = Append(path_of(a, id), nm)
      /\ \A i \in DOMAIN b \ DOMAIN a : i = nx.id
      /\ nx = [ns |-> b, id |-> nx.id]
  BY <1>1, <1>2, DescendFacts
<1> HIDE DEF nx
<1>4. Grows(ns, b, {})
  <2>1. Grows(ns, b, {} \cup {})
    BY <1>1, <1>3, GrowsTwice
  <2> QED BY <2>1
<1>5. path_of(b, nx.id) = SubSeq(path, 1, k)
  BY <1>1, <1>2, <1>3
<1>6. ASSUME NEW i \in DOMAIN b \ DOMAIN ns PROVE \E j \in 0..k : path_of(b, i) = SubSeq(path, 1, j)
  <2>1. CASE i \in DOMAIN a
    <3>1. PICK j \in 0..(k - 1) : path_of(a, i) = SubSeq(path, 1, j)
      BY <1>1, <1>6, <2>1
    <3>2. path_of(b, i) = path_of(a, i)
      BY <1>3, <2>1, GrowsFacts
    <3>3. j \in 0..k
      OBVIOUS
    <3> QED BY <3>1, <3>2, <3>3
  <2>2. CASE i \notin DOMAIN a
    <3>1. i = nx.id /\ k \in 0..k
      BY <1>3, <1>6, <2>2
    <3> QED BY <3>1, <1>5
  <2> QED BY <2>1, <2>2
<1>7. nx \in [ns : Arenas, id : Nat]
  <2>1. Arena(b)
    BY <1>3 DEF Grows
  <2>2. b \in Arenas /\ nx.id \in Nat
    BY <1>3, <2>1, ArenaIn, LiveNat
  <2> QED BY <1>3, <2>2
<1>8. Walked(ns, path, nx, k)
  BY <1>3, <1>4, <1>5, <1>6 DEF Walked
<1> QED BY <1>7, <1>8 DEF nx, nm

\* get_or_create gives a live node for the path.
LEMMA GetOrCreateFacts ==
  ASSUME NEW ns, Arena(ns), NEW path \in Seq(Name)
  PROVE  LET got == get_or_create(ns, path) IN
         /\ Grows(ns, got.ns, {}) /\ got.id \in Live(got.ns)
         /\ path_of(got.ns, got.id) = path
         /\ \A i \in DOMAIN got.ns \ DOMAIN ns : path_of(got.ns, i) \in StrictPrefixes(path) \cup {path}
<1> DEFINE n == Len(path)
           b == [ns |-> ns, id |-> ROOT]
           U == [ns : Arenas, id : Nat]
           X == {y \in U \X Nat : Walked(ns, path, y[1], y[2])}
           g == [y \in U \X Nat |-> Descend(y[1], path[y[2]])]
<1>1. n \in Nat
  OBVIOUS
<1>2. <<b, 0>> \in X
  <2>1. SubSeq(path, 1, 0) = <<>>
    OBVIOUS
  <2>2. 0 \in Live(ns) /\ path_of(ns, 0) = <<>>
    BY LiveFacts, ArenaFacts, PathFacts
  <2>3. Walked(ns, path, b, 0)
    BY <2>1, <2>2, GrowsNot DEF Walked, ROOT
  <2>4. b \in U /\ 0 \in Nat
    BY ArenaIn DEF ROOT
  <2> HIDE DEF b, U
  <2> QED BY <2>3, <2>4
<1>3. ASSUME NEW k \in 1..n, NEW x, <<x, k - 1>> \in X
      PROVE  /\ <<Descend(x, path[k]), k>> \in X
             /\ g[<<x, k>>] = Descend(x, path[k])
  <2>1. x \in U /\ Walked(ns, path, x, k - 1) /\ k \in Nat
    BY <1>3
  <2>2. x = [ns |-> x.ns, id |-> x.id]
    BY <2>1
  <2>3. Walked(ns, path, Descend(x, path[k]), k) /\ Descend(x, path[k]) \in U
    BY <2>1, <2>2, WalkedNext
  <2> QED BY <2>1, <2>3
<1> HIDE DEF X, g
<1>4. \E f : f = [k \in 0..n |-> IF k = 0 THEN b ELSE Descend(f[k - 1], path[k])]
  <2>1. PICK f : /\ IsLoop(n, b, g, f)
                 /\ f[0] = b /\ \A k \in 1..n : f[k] = g[<<f[k - 1], k>>]
                 /\ \A k \in 0..n : <<f[k], k>> \in X
    <3> HIDE DEF b, n
    <3>1. \A k \in 1..n : \A x : <<x, k - 1>> \in X => <<g[<<x, k>>], k>> \in X
      BY <1>3
    <3> QED BY <1>1, <1>2, <3>1, Loop, ZenonT(60)
  <2>2. ASSUME NEW k \in 1..n PROVE f[k] = Descend(f[k - 1], path[k])
    <3>1. k - 1 \in 0..n
      OBVIOUS
    <3>2. <<f[k - 1], k - 1>> \in X
      BY <2>1, <3>1
    <3> QED BY <2>1, <3>2, <1>3
  <2>3. f = [k \in 0..n |-> f[k]]
    BY <2>1 DEF IsLoop
  <2>4. \A k \in 0..n : f[k] = IF k = 0 THEN b ELSE Descend(f[k - 1], path[k])
    BY <2>1, <2>2
  <2> HIDE DEF b, n
  <2> QED BY <2>3, <2>4
<1> DEFINE to == CHOOSE f : f = [k \in 0..n |-> IF k = 0 THEN b ELSE Descend(f[k - 1], path[k])]
<1>5. to = [k \in 0..n |-> IF k = 0 THEN b ELSE Descend(to[k - 1], path[k])]
  BY <1>4
<1>6. get_or_create(ns, path) = to[n]
  BY DEF get_or_create
<1> HIDE DEF to
<1>7. to[0] = b /\ \A k \in 1..n : to[k] = Descend(to[k - 1], path[k])
  BY <1>1, <1>5
<1>8. <<to[n], n>> \in X
  <2> HIDE DEF b, n
  <2>1. \A k \in 1..n : <<to[k - 1], k - 1>> \in X => <<to[k], k>> \in X
    BY <1>3, <1>7
  <2>2. \A k \in 0..n : <<to[k], k>> \in X
    BY <1>1, <1>2, <1>7, <2>1, LoopInvariant
  <2> QED BY <1>1, <2>2
<1>9. Walked(ns, path, to[n], n)
  BY <1>8 DEF X
<1>10. SubSeq(path, 1, n) = path
  OBVIOUS
<1>11. \A j \in 0..n : SubSeq(path, 1, j) \in StrictPrefixes(path) \cup {path}
  <2> SUFFICES ASSUME NEW j \in 0..n PROVE SubSeq(path, 1, j) \in StrictPrefixes(path) \cup {path}
    OBVIOUS
  <2>1. j # n => j \in 0..(Len(path) - 1)
    BY <1>1
  <2> QED BY <2>1, <1>10 DEF StrictPrefixes
<1> QED BY <1>6, <1>9, <1>10, <1>11 DEF Walked

LEMMA SeqWider ==
  ASSUME NEW A, NEW B, A \subseteq B, NEW p \in Seq(A)
  PROVE  p \in Seq(B)
OBVIOUS

LEMMA PathNames ==
  /\ Path \subseteq Seq(Name) /\ <<>> \in Path
  /\ \A p \in Path : StrictPrefixes(p) \subseteq Path
<1>1. ASSUME NEW p \in Path PROVE p \in Seq(Name) /\ StrictPrefixes(p) \subseteq Path
  <2>1. p \in Seq(Name)
    <3>1. STRING \subseteq Name
      BY Zenon DEF Name
    <3>2. p \in Seq(STRING)
      BY PathAssumption
    <3> QED BY <3>1, <3>2, SeqWider, Zenon
  <2>2. \A k \in 0..(Len(p) - 1) : k \in 0..Len(p)
    BY <2>1
  <2> QED BY <2>1, <2>2, PathAssumption DEF StrictPrefixes
<1> QED BY <1>1, PathAssumption

\* The loop of get_or_create over paths, after k of them.
MadeSoFar(ns, paths, st, k) ==
  /\ Grows(ns, st.ns, {}) /\ st.ids \in Seq(Nat) /\ Len(st.ids) = k
  /\ \A j \in 1..k : st.ids[j] \in Live(st.ns) /\ path_of(st.ns, st.ids[j]) = paths[j]
  /\ \A i \in DOMAIN st.ns \ DOMAIN ns :
       \E j \in 1..k : path_of(st.ns, i) \in StrictPrefixes(paths[j]) \cup {paths[j]}

LEMMA MadeNext ==
  ASSUME NEW ns, NEW paths \in Seq(Path), NEW k \in 1..Len(paths), NEW a, NEW ids,
         MadeSoFar(ns, paths, [ns |-> a, ids |-> ids], k - 1)
  PROVE  LET nx == CreateNext([ns |-> a, ids |-> ids], paths[k]) IN
         MadeSoFar(ns, paths, nx, k) /\ nx \in [ns : Arenas, ids : Seq(Nat)]
<1> DEFINE got == get_or_create(a, paths[k])
           b == got.ns
           id == got.id
           all == Append(ids, id)
           nx == CreateNext([ns |-> a, ids |-> ids], paths[k])
<1>1. /\ Grows(ns, a, {}) /\ ids \in Seq(Nat) /\ Len(ids) = k - 1
      /\ \A j \in 1..(k - 1) : ids[j] \in Live(a) /\ path_of(a, ids[j]) = paths[j]
      /\ \A i \in DOMAIN a \ DOMAIN ns :
           \E j \in 1..(k - 1) : path_of(a, i) \in StrictPrefixes(paths[j]) \cup {paths[j]}
  BY DEF MadeSoFar
<1>2. paths[k] \in Seq(Name) /\ Arena(a)
  BY <1>1, PathNames DEF Grows
<1>3. /\ Grows(a, b, {}) /\ id \in Live(b)
      /\ path_of(b, id) = paths[k]
      /\ \A i \in DOMAIN b \ DOMAIN a : path_of(b, i) \in StrictPrefixes(paths[k]) \cup {paths[k]}
  BY <1>2, GetOrCreateFacts
<1>4. nx = [ns |-> b, ids |-> all]
  BY DEF CreateNext
<1> HIDE DEF got, nx
<1>5. Grows(ns, b, {})
  <2>1. Grows(ns, b, {} \cup {})
    BY <1>1, <1>3, GrowsTwice
  <2> QED BY <2>1
<1>6. Arena(b) /\ b \in Arenas /\ id \in Nat
  <2>1. Arena(b)
    BY <1>3 DEF Grows
  <2> QED BY <1>3, <2>1, ArenaIn, LiveNat
<1>7. /\ all \in Seq(Nat) /\ Len(all) = k /\ all[k] = id
      /\ \A j \in 1..(k - 1) : all[j] = ids[j]
  BY <1>1, <1>6
<1> HIDE DEF all
<1>8. ASSUME NEW j \in 1..k PROVE all[j] \in Live(b) /\ path_of(b, all[j]) = paths[j]
  <2>1. CASE j = k
    BY <1>3, <1>7, <2>1
  <2>2. CASE j # k
    <3>1. j \in 1..(k - 1)
      BY <2>2
    <3>2. all[j] \in Live(a) /\ path_of(a, all[j]) = paths[j] /\ all[j] \in DOMAIN a
      BY <1>1, <1>2, <1>7, <3>1, LiveNat
    <3> QED BY <1>3, <3>2, GrowsFacts
  <2> QED BY <2>1, <2>2
<1>9. ASSUME NEW i \in DOMAIN b \ DOMAIN ns
      PROVE  \E j \in 1..k : path_of(b, i) \in StrictPrefixes(paths[j]) \cup {paths[j]}
  <2>1. CASE i \in DOMAIN a
    <3>1. PICK j \in 1..(k - 1) : path_of(a, i) \in StrictPrefixes(paths[j]) \cup {paths[j]}
      BY <1>1, <1>9, <2>1
    <3>2. path_of(b, i) = path_of(a, i)
      BY <1>3, <2>1, GrowsFacts
    <3>3. j \in 1..k
      OBVIOUS
    <3> QED BY <3>1, <3>2, <3>3
  <2>2. CASE i \notin DOMAIN a
    <3>1. k \in 1..k
      OBVIOUS
    <3> QED BY <1>3, <1>9, <2>2, <3>1
  <2> QED BY <2>1, <2>2
<1>10. nx \in [ns : Arenas, ids : Seq(Nat)] /\ nx.ns = b /\ nx.ids = all
  BY <1>4, <1>6, <1>7
<1>11. MadeSoFar(ns, paths, nx, k)
  BY <1>5, <1>7, <1>8, <1>9, <1>10 DEF MadeSoFar
<1> QED BY <1>10, <1>11 DEF nx

\* All paths asked for, and what is above them.
Wanted(paths) == UNION {StrictPrefixes(paths[j]) \cup {paths[j]} : j \in DOMAIN paths}

\* Each path gets a live node, and nothing else is created but what is above.
LEMMA CreatedFacts ==
  ASSUME NEW ns, Arena(ns), NEW paths \in Seq(Path)
  PROVE  LET got == Created(ns, paths) IN
         /\ Grows(ns, got.ns, {}) /\ got.ids \in Seq(Nat) /\ Len(got.ids) = Len(paths)
         /\ \A j \in DOMAIN paths :
              got.ids[j] \in Live(got.ns) /\ path_of(got.ns, got.ids[j]) = paths[j]
         /\ \A i \in DOMAIN got.ns \ DOMAIN ns : path_of(got.ns, i) \in Wanted(paths)
<1> DEFINE n == Len(paths)
           b == [ns |-> ns, ids |-> <<>>]
           U == [ns : Arenas, ids : Seq(Nat)]
           X == {y \in U \X Nat : MadeSoFar(ns, paths, y[1], y[2])}
           g == [y \in U \X Nat |-> CreateNext(y[1], paths[y[2]])]
<1>1. n \in Nat /\ DOMAIN paths = 1..n
  OBVIOUS
<1>2. <<b, 0>> \in X
  <2>1. <<>> \in Seq(Nat) /\ Len(<<>>) = 0
    OBVIOUS
  <2>2. MadeSoFar(ns, paths, b, 0)
    BY <2>1, GrowsNot DEF MadeSoFar
  <2>3. b \in U /\ 0 \in Nat
    BY <2>1, ArenaIn
  <2> HIDE DEF b, U
  <2> QED BY <2>2, <2>3
<1>3. ASSUME NEW k \in 1..n, NEW x, <<x, k - 1>> \in X
      PROVE  /\ <<CreateNext(x, paths[k]), k>> \in X
             /\ g[<<x, k>>] = CreateNext(x, paths[k])
  <2>1. x \in U /\ MadeSoFar(ns, paths, x, k - 1) /\ k \in Nat
    BY <1>3
  <2>2. x = [ns |-> x.ns, ids |-> x.ids]
    BY <2>1
  <2>3. MadeSoFar(ns, paths, CreateNext(x, paths[k]), k) /\ CreateNext(x, paths[k]) \in U
    BY <2>1, <2>2, MadeNext
  <2> QED BY <2>1, <2>3
<1> HIDE DEF X, g
<1>4. \E f : f = [k \in 0..n |-> IF k = 0 THEN b ELSE CreateNext(f[k - 1], paths[k])]
  <2>1. PICK f : /\ IsLoop(n, b, g, f)
                 /\ f[0] = b /\ \A k \in 1..n : f[k] = g[<<f[k - 1], k>>]
                 /\ \A k \in 0..n : <<f[k], k>> \in X
    <3> HIDE DEF b, n
    <3> HIDE DEF U
    <3>1. \A k \in 1..n : \A x : <<x, k - 1>> \in X => <<g[<<x, k>>], k>> \in X
      BY <1>3
    <3>2. n \in Nat /\ <<b, 0>> \in X
      BY <1>1, <1>2
    <3> QED BY <3>1, <3>2, Loop, ZenonT(60)
  <2>2. ASSUME NEW k \in 1..n PROVE f[k] = CreateNext(f[k - 1], paths[k])
    <3>1. k - 1 \in 0..n
      OBVIOUS
    <3>2. <<f[k - 1], k - 1>> \in X
      BY <2>1, <3>1
    <3> QED BY <2>1, <3>2, <1>3
  <2>3. f = [k \in 0..n |-> f[k]]
    BY <2>1 DEF IsLoop
  <2>4. \A k \in 0..n : f[k] = IF k = 0 THEN b ELSE CreateNext(f[k - 1], paths[k])
    BY <2>1, <2>2
  <2> HIDE DEF b, n
  <2> QED BY <2>3, <2>4
<1> DEFINE to == CHOOSE f : f = [k \in 0..n |-> IF k = 0 THEN b ELSE CreateNext(f[k - 1], paths[k])]
<1>5. to = [k \in 0..n |-> IF k = 0 THEN b ELSE CreateNext(to[k - 1], paths[k])]
  BY <1>4
<1>6. Created(ns, paths) = to[n]
  BY DEF Created
<1> HIDE DEF to
<1>7. to[0] = b /\ \A k \in 1..n : to[k] = CreateNext(to[k - 1], paths[k])
  BY <1>1, <1>5
<1>8. <<to[n], n>> \in X
  <2> HIDE DEF b, n
  <2>1. \A k \in 1..n : <<to[k - 1], k - 1>> \in X => <<to[k], k>> \in X
    BY <1>3, <1>7
  <2>2. \A k \in 0..n : <<to[k], k>> \in X
    BY <1>1, <1>2, <1>7, <2>1, LoopInvariant
  <2> QED BY <1>1, <2>2
<1>9. MadeSoFar(ns, paths, to[n], n)
  BY <1>8 DEF X
<1> QED BY <1>1, <1>6, <1>9 DEF MadeSoFar, Wanted

\* An arena stays one when only marks, counters and sharers change.
LEMMA SameLinks ==
  ASSUME NEW a, NEW b, Arena(a), b \in [DOMAIN a -> NodeRec],
         \A i \in DOMAIN a : /\ b[i].name = a[i].name /\ b[i].parent = a[i].parent
                             /\ b[i].children = a[i].children /\ b[i].removed = a[i].removed
  PROVE  /\ Arena(b) /\ Live(b) = Live(a) /\ DOMAIN b = DOMAIN a
         /\ \A i \in DOMAIN a : Chain(b, i) = Chain(a, i) /\ path_of(b, i) = path_of(a, i)
<1>1. DOMAIN b = DOMAIN a /\ Size(b) = Size(a)
  BY DEF Size
<1>2. Rooted(a) /\ Named(a) /\ Rooted(b)
  <2>1. Rooted(a) /\ Named(a)
    BY ArenaFacts
  <2> QED BY <1>1, <2>1, RootedFacts DEF Rooted
<1>3. Arena(b)
  <2>1. ~b[0].removed
    BY <1>2, RootedFacts DEF Arena
  <2>2. \A i \in DOMAIN b : \A nm \in DOMAIN b[i].children :
          LET k == b[i].children[nm] IN
          k \in DOMAIN b \ {0} /\ b[k].name = nm /\ b[k].parent = i /\ ~b[k].removed
    BY <1>1 DEF Arena
  <2>3. ASSUME NEW k \in DOMAIN b \ {0}, ~b[k].removed
        PROVE  /\ b[k].name \in DOMAIN b[b[k].parent].children
               /\ b[b[k].parent].children[b[k].name] = k
    <3>1. a[k].parent \in DOMAIN a
      BY <1>1, <1>2, RootedFacts
    <3>2. /\ a[k].name \in DOMAIN a[a[k].parent].children
          /\ a[a[k].parent].children[a[k].name] = k
      BY <1>1, <2>3 DEF Arena
    <3> QED BY <1>1, <3>1, <3>2
  <2> QED BY <1>1, <1>2, <2>1, <2>2, <2>3 DEF Arena
<1>4. \A i \in DOMAIN a : Chain(b, i) = Chain(a, i) /\ path_of(b, i) = path_of(a, i)
  BY <1>1, <1>2, SameWalks
<1>5. Live(b) = Live(a)
  <2>1. \A i \in DOMAIN a : \A k \in Chain(a, i) : k \in DOMAIN a
    BY <1>2, ChainFacts
  <2> QED BY <1>1, <1>4, <2>1 DEF Live, is_live
<1> QED BY <1>1, <1>3, <1>4, <1>5

\* mark_subvol marks the live nodes of the paths, which it creates.
LEMMA MarkedFacts ==
  ASSUME NEW ns, Arena(ns), NEW paths \in Seq(Path)
  PROVE  LET b == mark_subvols(ns, paths) IN
         \E M : /\ Grows(ns, b, M) /\ M \subseteq Live(b)
                /\ {path_of(b, i) : i \in M} = Range(paths)
                /\ \A i \in DOMAIN b \ DOMAIN ns : path_of(b, i) \in Wanted(paths)
<1> DEFINE got == Created(ns, paths)
           a == got.ns
           M == Range(got.ids)
           b == mark_subvols(ns, paths)
<1>1. /\ Grows(ns, a, {}) /\ got.ids \in Seq(Nat) /\ Len(got.ids) = Len(paths)
      /\ \A j \in DOMAIN paths : got.ids[j] \in Live(a) /\ path_of(a, got.ids[j]) = paths[j]
      /\ \A i \in DOMAIN a \ DOMAIN ns : path_of(a, i) \in Wanted(paths)
  BY CreatedFacts
<1>2. b = [k \in DOMAIN a |-> [a[k] EXCEPT !.subvol = @ \/ k \in M]]
  BY DEF mark_subvols
<1>3. Range(paths) = {paths[j] : j \in DOMAIN paths} /\ M = {got.ids[j] : j \in DOMAIN paths}
  <2>1. DOMAIN got.ids = DOMAIN paths
    BY <1>1
  <2> QED BY <2>1 DEF Range
<1> HIDE DEF got, b, M
<1>4. Arena(a) /\ \A k \in DOMAIN a : a[k] \in NodeRec
  BY <1>1, ArenaFacts DEF Grows
<1>5. ASSUME NEW k \in DOMAIN a
      PROVE  /\ b[k] \in NodeRec /\ b[k].name = a[k].name /\ b[k].parent = a[k].parent
             /\ b[k].children = a[k].children /\ b[k].removed = a[k].removed
             /\ b[k].c = a[k].c /\ b[k].sharers = a[k].sharers
             /\ b[k].subvol <=> a[k].subvol \/ k \in M
  BY <1>2, <1>4 DEF NodeRec
<1>6. b \in [DOMAIN a -> NodeRec]
  BY <1>2, <1>5
<1>7. /\ Arena(b) /\ Live(b) = Live(a) /\ DOMAIN b = DOMAIN a
      /\ \A i \in DOMAIN a : path_of(b, i) = path_of(a, i)
  BY <1>4, <1>5, <1>6, SameLinks
<1>8. M \subseteq Live(a) /\ Live(a) \subseteq DOMAIN a
  BY <1>1, <1>3, <1>4, LiveNat
<1>9. Grows(ns, b, M)
  <2>1. \A i \in DOMAIN ns : /\ b[i].name = ns[i].name /\ b[i].parent = ns[i].parent
                             /\ b[i].removed = ns[i].removed /\ b[i].c = ns[i].c
                             /\ b[i].sharers = ns[i].sharers
    BY <1>1, <1>5 DEF Grows
  <2>2. \A i \in DOMAIN b \ DOMAIN ns : i \in Live(b) /\ b[i].c = Zero /\ b[i].sharers = <<>>
    BY <1>1, <1>5, <1>7 DEF Grows
  <2>3. \A i \in DOMAIN b : b[i].subvol <=> i \in M \/ (i \in DOMAIN ns /\ ns[i].subvol)
    BY <1>1, <1>5, <1>7 DEF Grows
  <2> QED BY <1>1, <1>7, <1>8, <2>1, <2>2, <2>3 DEF Grows
<1>10. {path_of(b, i) : i \in M} = Range(paths)
  BY <1>1, <1>3, <1>7, <1>8
<1>11. \A i \in DOMAIN b \ DOMAIN ns : path_of(b, i) \in Wanted(paths)
  BY <1>1, <1>7
<1> QED BY <1>7, <1>8, <1>9, <1>10, <1>11 DEF b

-----------------------------------------------------------------------------
(* Sharers. *)

\* A sharers list: bounded, and no path twice.
Sharers == {sh \in Seq(Path) : /\ Len(sh) <= MAX_SHARERS
                               /\ \A j, l \in DOMAIN sh : sh[j] = sh[l] => j = l}

LEMMA RememberFacts ==
  ASSUME NEW sh \in Sharers, NEW p \in Path
  PROVE  /\ Remember(sh, p) \in Sharers
         /\ \A j \in DOMAIN Remember(sh, p) :
              Remember(sh, p)[j] = p \/ \E l \in DOMAIN sh : Remember(sh, p)[j] = sh[l]
<1>1. /\ sh \in Seq(Path) /\ Len(sh) <= MAX_SHARERS /\ Len(sh) \in Nat /\ DOMAIN sh = 1..Len(sh)
      /\ \A j, l \in DOMAIN sh : sh[j] = sh[l] => j = l
  BY DEF Sharers
<1>2. MAX_SHARERS \in Nat \ {0}
  BY SampleAssumption
<1>3. CASE Contains(sh, p)
  BY <1>1, <1>3 DEF Remember
<1>4. CASE ~Contains(sh, p)
  <2> DEFINE t == IF Len(sh) = MAX_SHARERS THEN Tail(sh) ELSE sh
  <2>1. Remember(sh, p) = Append(t, p)
    BY <1>4 DEF Remember
  <2>2. \A j \in DOMAIN sh : sh[j] # p
    BY <1>1, <1>4 DEF Contains
  <2>3. /\ t \in Seq(Path) /\ Len(t) \in Nat /\ Len(t) + 1 <= MAX_SHARERS /\ DOMAIN t = 1..Len(t)
        /\ \E d \in Nat : \A j \in DOMAIN t : t[j] = sh[j + d] /\ j + d \in DOMAIN sh
    <3>1. CASE Len(sh) = MAX_SHARERS
      <4>1. /\ Tail(sh) \in Seq(Path) /\ Len(Tail(sh)) = Len(sh) - 1
            /\ \A j \in 1..(Len(sh) - 1) : Tail(sh)[j] = sh[j + 1]
        BY <1>1, <1>2, <3>1
      <4>2. \A j \in 1..(Len(sh) - 1) : j + 1 \in DOMAIN sh
        BY <1>1
      <4>3. DOMAIN Tail(sh) = 1..(Len(sh) - 1) /\ Len(sh) - 1 \in Nat
        BY <1>1, <1>2, <3>1, <4>1
      <4>4. t = Tail(sh)
        BY <3>1
      <4>5. 1 \in Nat /\ Len(sh) - 1 + 1 <= MAX_SHARERS
        BY <1>1
      <4> HIDE DEF t
      <4>6. \A j \in DOMAIN t : t[j] = sh[j + 1] /\ j + 1 \in DOMAIN sh
        BY <4>1, <4>2, <4>3, <4>4
      <4>7. t \in Seq(Path) /\ Len(t) \in Nat /\ Len(t) + 1 <= MAX_SHARERS /\ DOMAIN t = 1..Len(t)
        BY <4>1, <4>3, <4>4, <4>5
      <4> QED BY <4>5, <4>6, <4>7
    <3>2. CASE Len(sh) # MAX_SHARERS
      <4>1. \A j \in DOMAIN sh : sh[j] = sh[j + 0] /\ j + 0 \in DOMAIN sh
        BY <1>1
      <4>2. t = sh
        BY <3>2
      <4>4. Len(sh) + 1 <= MAX_SHARERS
        <5>1. Len(sh) <= MAX_SHARERS /\ Len(sh) \in Nat
          BY <1>1
        <5> HIDE DEF t
        <5> QED BY <1>2, <3>2, <5>1
      <4>3. 0 \in Nat
        OBVIOUS
      <4> HIDE DEF t
      <4> QED BY <1>1, <4>1, <4>2, <4>3, <4>4
    <3> QED BY <3>1, <3>2
  <2> HIDE DEF t
  <2>4. PICK d \in Nat : \A j \in DOMAIN t : t[j] = sh[j + d] /\ j + d \in DOMAIN sh
    BY <2>3
  <2>5. \A j, l \in DOMAIN t : t[j] = t[l] => j = l
    <3> SUFFICES ASSUME NEW j \in DOMAIN t, NEW l \in DOMAIN t, t[j] = t[l] PROVE j = l
      OBVIOUS
    <3>1. j + d = l + d /\ j \in Nat /\ l \in Nat
      BY <1>1, <2>3, <2>4
    <3> QED BY <3>1
  <2> DEFINE r == Append(t, p)
  <2>6. /\ r \in Seq(Path) /\ Len(r) = Len(t) + 1 /\ DOMAIN r = 1..(Len(t) + 1)
        /\ r[Len(t) + 1] = p /\ \A j \in DOMAIN t : r[j] = t[j]
    BY <2>3
  <2> HIDE DEF r
  <2>7. \A j \in DOMAIN r : j = Len(t) + 1 \/ j \in DOMAIN t
    BY <2>3, <2>6
  <2>8. \A j \in DOMAIN t : r[j] # p
    BY <2>2, <2>4, <2>6
  <2>9. \A j, l \in DOMAIN r : r[j] = r[l] => j = l
    BY <2>5, <2>6, <2>7, <2>8
  <2>10. \A j \in DOMAIN r : r[j] = p \/ \E l \in DOMAIN sh : r[j] = sh[l]
    BY <2>4, <2>6, <2>7
  <2>11. r \in Sharers
    BY <2>3, <2>6, <2>9 DEF Sharers
  <2> QED BY <2>1, <2>10, <2>11 DEF r
<1> QED BY <1>3, <1>4

LEMMA OthersFacts ==
  ASSUME NEW owners \in Seq(Path), NEW i \in DOMAIN owners
  PROVE  /\ Others(owners, i) \in Seq(Path)
         /\ \A j \in DOMAIN Others(owners, i) : \E k \in DOMAIN owners \ {i} : Others(owners, i)[j] = owners[k]
<1> DEFINE n == Len(owners)
           a == SubSeq(owners, 1, i - 1)
           z == SubSeq(owners, i + 1, n)
           o == a \o z
           m == IF Len(o) < MAX_SHARERS THEN Len(o) ELSE MAX_SHARERS
<1>1. n \in Nat /\ DOMAIN owners = 1..n /\ i \in 1..n /\ MAX_SHARERS \in Nat
  BY SampleAssumption
<1>2. /\ a \in Seq(Path) /\ Len(a) = i - 1 /\ \A j \in 1..(i - 1) : a[j] = owners[j]
  BY <1>1
<1>3. /\ z \in Seq(Path) /\ Len(z) = n - i /\ \A j \in 1..(n - i) : z[j] = owners[i + j]
  <2>1. i + 1 \in Int /\ n \in Int /\ \A j \in (i + 1)..n : owners[j] \in Path
    BY <1>1
  <2>2. /\ z \in Seq(Path)
        /\ Len(z) = IF i + 1 <= n THEN n - (i + 1) + 1 ELSE 0
        /\ \A j \in 1..(n - (i + 1) + 1) : z[j] = owners[(i + 1) + j - 1]
    BY <2>1, SubSeqProperties
  <2>3. /\ (IF i + 1 <= n THEN n - (i + 1) + 1 ELSE 0) = n - i
        /\ n - (i + 1) + 1 = n - i
        /\ \A j \in 1..(n - i) : (i + 1) + j - 1 = i + j
    BY <1>1
  <2> HIDE DEF z
  <2> QED BY <2>2, <2>3
<1> HIDE DEF a, z
<1>4. /\ o \in Seq(Path) /\ Len(o) = n - 1
      /\ \A j \in 1..(n - 1) : o[j] = owners[IF j <= i - 1 THEN j ELSE j + 1]
  <2>1. /\ o \in Seq(Path) /\ Len(o) = Len(a) + Len(z)
        /\ \A j \in 1..(Len(a) + Len(z)) : o[j] = IF j <= Len(a) THEN a[j] ELSE z[j - Len(a)]
    BY <1>2, <1>3, ConcatProperties
  <2>2. Len(a) + Len(z) = n - 1
    BY <1>1, <1>2, <1>3
  <2> HIDE DEF o
  <2>3. ASSUME NEW j \in 1..(n - 1) PROVE o[j] = owners[IF j <= i - 1 THEN j ELSE j + 1]
    <3>1. CASE j <= i - 1
      <4>1. o[j] = a[j] /\ j \in 1..(i - 1)
        BY <1>1, <1>2, <2>1, <2>2, <3>1
      <4> QED BY <1>2, <3>1, <4>1
    <3>2. CASE ~(j <= i - 1)
      <4>1. o[j] = z[j - (i - 1)] /\ j - (i - 1) \in 1..(n - i)
        BY <1>1, <1>2, <2>1, <2>2, <3>2
      <4>2. i + (j - (i - 1)) = j + 1
        BY <1>1
      <4> QED BY <1>3, <3>2, <4>1, <4>2
    <3> QED BY <3>1, <3>2
  <2> QED BY <2>1, <2>2, <2>3
<1>5. Others(owners, i) = SubSeq(o, 1, m)
  BY DEF Others, RemoveAt, a, z
<1>8. m \in Nat /\ m <= n - 1
  BY <1>1, <1>4
<1> HIDE DEF o, m
<1>6. Len(Others(owners, i)) \in Nat /\ Others(owners, i) \in Seq(Path) /\
      \A j \in 1..Len(Others(owners, i)) : j \in 1..(n - 1) /\ Others(owners, i)[j] = o[j]
  <2>1. SubSeq(o, 1, m) \in Seq(Path) /\ Len(SubSeq(o, 1, m)) = m
        /\ \A j \in 1..m : SubSeq(o, 1, m)[j] = o[j]
    BY <1>1, <1>4, <1>8
  <2>2. \A j \in 1..m : j \in 1..(n - 1)
    BY <1>1, <1>8
  <2> QED BY <1>5, <1>8, <2>1, <2>2
<1>7. ASSUME NEW j \in DOMAIN Others(owners, i)
      PROVE  \E k \in DOMAIN owners \ {i} : Others(owners, i)[j] = owners[k]
  <2> DEFINE k == IF j <= i - 1 THEN j ELSE j + 1
  <2>1. j \in 1..Len(Others(owners, i))
    BY <1>6
  <2>2. j \in 1..(n - 1) /\ Others(owners, i)[j] = owners[k]
    BY <1>4, <1>6, <2>1
  <2>3. k \in DOMAIN owners \ {i}
    BY <1>1, <2>2
  <2> HIDE DEF k
  <2> QED BY <2>2, <2>3
<1> QED BY <1>6, <1>7

\* The sharers kept are known ones and other owners of the sample.
LEMMA SharedFacts ==
  ASSUME NEW sh \in Sharers, NEW owners \in Seq(Path), NEW i \in DOMAIN owners
  PROVE  /\ Shared(sh, owners, i) \in Sharers
         /\ \A j \in DOMAIN Shared(sh, owners, i) :
              LET p == Shared(sh, owners, i)[j] IN
              (\E l \in DOMAIN sh : p = sh[l]) \/ (\E k \in DOMAIN owners \ {i} : p = owners[k])
<1> DEFINE ps == Others(owners, i)
           n == Len(ps)
           Of(x) == \A j \in DOMAIN x : \/ \E l \in DOMAIN sh : x[j] = sh[l]
                                        \/ \E k \in DOMAIN owners \ {i} : x[j] = owners[k]
           X == {y \in Sharers \X Nat : Of(y[1])}
           g == [y \in Sharers \X Nat |-> Remember(y[1], ps[y[2]])]
<1>1. n \in Nat /\ DOMAIN ps = 1..n /\ ps \in Seq(Path)
  BY OthersFacts
<1>2. \A k \in 1..n : ps[k] \in Path /\ \E l \in DOMAIN owners \ {i} : ps[k] = owners[l]
  BY <1>1, OthersFacts
<1> HIDE DEF ps
<1>3. <<sh, 0>> \in X
  OBVIOUS
<1>4. ASSUME NEW k \in 1..n, NEW x, <<x, k - 1>> \in X
      PROVE  /\ <<Remember(x, ps[k]), k>> \in X
             /\ g[<<x, k>>] = Remember(x, ps[k])
  <2>1. x \in Sharers /\ Of(x) /\ k \in Nat
    BY <1>4
  <2>2. Remember(x, ps[k]) \in Sharers
        /\ \A j \in DOMAIN Remember(x, ps[k]) :
             Remember(x, ps[k])[j] = ps[k] \/ \E l \in DOMAIN x : Remember(x, ps[k])[j] = x[l]
    BY <1>2, <2>1, RememberFacts
  <2>3. Of(Remember(x, ps[k]))
    BY <1>2, <2>1, <2>2
  <2> HIDE DEF Of
  <2> QED BY <2>1, <2>2, <2>3
<1> HIDE DEF X, g
<1>5. \E f : f = [k \in 0..n |-> IF k = 0 THEN sh ELSE Remember(f[k - 1], ps[k])]
  <2> HIDE DEF n, Of
  <2>1. PICK f : /\ IsLoop(n, sh, g, f)
                 /\ f[0] = sh /\ \A k \in 1..n : f[k] = g[<<f[k - 1], k>>]
                 /\ \A k \in 0..n : <<f[k], k>> \in X
    <3>1. \A k \in 1..n : \A x : <<x, k - 1>> \in X => <<g[<<x, k>>], k>> \in X
      BY <1>4
    <3>2. n \in Nat
      BY <1>1
    <3> QED BY <3>1, <3>2, <1>3, Loop, ZenonT(60)
  <2>2. ASSUME NEW k \in 1..n PROVE f[k] = Remember(f[k - 1], ps[k])
    <3>1. k - 1 \in 0..n
      BY <1>1
    <3>2. <<f[k - 1], k - 1>> \in X
      BY <2>1, <3>1
    <3> QED BY <2>1, <3>2, <1>4
  <2>3. f = [k \in 0..n |-> f[k]]
    BY <2>1 DEF IsLoop
  <2>4. \A k \in 0..n : f[k] = IF k = 0 THEN sh ELSE Remember(f[k - 1], ps[k])
    BY <1>1, <2>1, <2>2
  <2> QED BY <2>3, <2>4
<1> DEFINE to == CHOOSE f : f = [k \in 0..n |-> IF k = 0 THEN sh ELSE Remember(f[k - 1], ps[k])]
<1>6. to = [k \in 0..n |-> IF k = 0 THEN sh ELSE Remember(to[k - 1], ps[k])]
  BY <1>5
<1>7. Shared(sh, owners, i) = to[n]
  BY DEF Shared, ps
<1> HIDE DEF to, n
<1>8. to[0] = sh /\ \A k \in 1..n : to[k] = Remember(to[k - 1], ps[k])
  BY <1>1, <1>6
<1>9. <<to[n], n>> \in X
  <2>1. \A k \in 1..n : <<to[k - 1], k - 1>> \in X => <<to[k], k>> \in X
    BY <1>4, <1>8
  <2>2. \A k \in 0..n : <<to[k], k>> \in X
    BY <1>1, <1>3, <1>8, <2>1, LoopInvariant
  <2> QED BY <1>1, <2>2
<1> QED BY <1>7, <1>9 DEF X

\* What node id may have in its list y after a sample, where it had sh: known ones, and
\* other owners of a leaf that is the node.
Extends(y, sh, id, leaves, owners) ==
  /\ y \in Sharers
  /\ \A j \in DOMAIN y :
       \/ \E l \in DOMAIN sh : y[j] = sh[l]
       \/ \E i \in DOMAIN leaves : \E x \in DOMAIN leaves \ {i} :
            leaves[i] = id /\ y[j] = owners[x]

LEMMA SharersAfterFacts ==
  ASSUME NEW sh \in Sharers, NEW owners \in Seq(Path), NEW leaves \in Seq(Nat),
         Len(leaves) = Len(owners), NEW id
  PROVE  Extends(SharersAfter(sh, id, leaves, owners), sh, id, leaves, owners)
<1> DEFINE n == Len(leaves)
           Of(y) == \A j \in DOMAIN y :
                      \/ \E l \in DOMAIN sh : y[j] = sh[l]
                      \/ \E i \in DOMAIN leaves : \E x \in DOMAIN leaves \ {i} :
                           leaves[i] = id /\ y[j] = owners[x]
           X == {y \in Sharers \X Nat : Of(y[1])}
           next(y, k) == IF leaves[k] = id THEN Shared(y, owners, k) ELSE y
           g == [y \in Sharers \X Nat |-> next(y[1], y[2])]
<1>1. n \in Nat /\ DOMAIN leaves = 1..n /\ DOMAIN owners = 1..n
  OBVIOUS
<1>2. <<sh, 0>> \in X
  OBVIOUS
<1>3. ASSUME NEW k \in 1..n, NEW y, <<y, k - 1>> \in X
      PROVE  <<next(y, k), k>> \in X /\ g[<<y, k>>] = next(y, k)
  <2>1. y \in Sharers /\ Of(y) /\ k \in Nat
    BY <1>3
  <2>2. CASE leaves[k] = id
    <3>1. next(y, k) = Shared(y, owners, k)
      BY <2>2
    <3> DEFINE z == Shared(y, owners, k)
    <3>2. /\ z \in Sharers
          /\ \A j \in DOMAIN z : \/ \E l \in DOMAIN y : z[j] = y[l]
                                 \/ \E x \in DOMAIN owners \ {k} : z[j] = owners[x]
      BY <1>1, <2>1, SharedFacts
    <3> HIDE DEF z
    <3>3. Of(z)
      BY <1>1, <2>1, <2>2, <3>2
    <3> HIDE DEF Of, next
    <3> QED BY <2>1, <3>1, <3>2, <3>3 DEF z
  <2>3. CASE leaves[k] # id
    <3>1. next(y, k) = y
      BY <2>3
    <3> HIDE DEF Of, next
    <3> QED BY <2>1, <3>1
  <2> QED BY <2>2, <2>3
<1> HIDE DEF X, g
<1>4. \E f : f = [k \in 0..n |-> IF k = 0 THEN sh ELSE next(f[k - 1], k)]
  <2> HIDE DEF n, Of, next
  <2>1. PICK f : /\ IsLoop(n, sh, g, f)
                 /\ f[0] = sh /\ \A k \in 1..n : f[k] = g[<<f[k - 1], k>>]
                 /\ \A k \in 0..n : <<f[k], k>> \in X
    <3>1. \A k \in 1..n : \A y : <<y, k - 1>> \in X => <<g[<<y, k>>], k>> \in X
      BY <1>3
    <3>2. n \in Nat
      BY <1>1
    <3> QED BY <3>1, <3>2, <1>2, Loop, ZenonT(60)
  <2>2. ASSUME NEW k \in 1..n PROVE f[k] = next(f[k - 1], k)
    <3>1. k - 1 \in 0..n
      BY <1>1
    <3>2. <<f[k - 1], k - 1>> \in X
      BY <2>1, <3>1
    <3> QED BY <2>1, <3>2, <1>3
  <2>3. f = [k \in 0..n |-> f[k]]
    BY <2>1 DEF IsLoop
  <2>4. \A k \in 0..n : f[k] = IF k = 0 THEN sh ELSE next(f[k - 1], k)
    BY <1>1, <2>1, <2>2
  <2> QED BY <2>3, <2>4
<1> DEFINE to == CHOOSE f : f = [k \in 0..n |-> IF k = 0 THEN sh ELSE next(f[k - 1], k)]
<1>5. to = [k \in 0..n |-> IF k = 0 THEN sh ELSE next(to[k - 1], k)]
  <2> HIDE DEF n, next
  <2> QED BY <1>4
<1>6. SharersAfter(sh, id, leaves, owners) = to[n]
  BY DEF SharersAfter
<1> HIDE DEF to, n, next
<1>7. to[0] = sh /\ \A k \in 1..n : to[k] = next(to[k - 1], k)
  BY <1>1, <1>5
<1>8. <<to[n], n>> \in X
  <2>1. \A k \in 1..n : <<to[k - 1], k - 1>> \in X => <<to[k], k>> \in X
    BY <1>3, <1>7
  <2>2. \A k \in 0..n : <<to[k], k>> \in X
    BY <1>1, <1>2, <1>7, <2>1, LoopInvariant
  <2> QED BY <1>1, <2>2
<1>9. to[n] \in Sharers /\ Of(to[n])
  BY <1>8 DEF X
<1> QED BY <1>6, <1>9 DEF Extends

-----------------------------------------------------------------------------
(* Counters. *)

\* d is c with one more sample, of node id.
Credited(ns, id, leaves, ratio, c, d) ==
  LET H == {i \in DOMAIN leaves : id \in Chain(ns, leaves[i])}
      first == id \in Chain(ns, leaves[1])
  IN /\ d \in Counts /\ IsFiniteSet(H) /\ Cardinality(H) \in Nat
     /\ d.represented = c.represented + (IF first THEN 1 ELSE 0)
     /\ d.distributed = c.distributed + Cardinality(H) * (Unit \div Len(leaves))
     /\ d.comp_samples = c.comp_samples + (IF first /\ ratio # NoRatio THEN 1 ELSE 0)
     /\ d.uncompressed = c.uncompressed + (IF first /\ ratio # NoRatio THEN ratio ELSE 0)
     /\ d.exclusive = c.exclusive
          + (IF \A i \in DOMAIN leaves : id \in Chain(ns, leaves[i]) THEN 1 ELSE 0)
     /\ d.shared = c.shared
          + (IF H # {} /\ ~\A i \in DOMAIN leaves : id \in Chain(ns, leaves[i]) THEN 1 ELSE 0)

LEMMA CreditFacts ==
  ASSUME NEW ns, NEW id, NEW leaves \in Seq(Nat), leaves # <<>>, NEW ratio \in Nat \cup {NoRatio},
         NEW c \in Counts
  PROVE  Credited(ns, id, leaves, ratio, c, Credit(ns, id, leaves, ratio, c))
<1> DEFINE m == Len(leaves)
           H == {i \in DOMAIN leaves : id \in Chain(ns, leaves[i])}
           first == id \in Chain(ns, leaves[1])
           d == Credit(ns, id, leaves, ratio, c)
           hits == Cardinality(H)
           u == Unit \div m
<1>1. m \in Nat \ {0} /\ DOMAIN leaves = 1..m /\ Unit \in Nat
  BY SampleAssumption
<1>2. u \in Nat
  BY <1>1
<1>3. IsFiniteSet(1..m) /\ Cardinality(1..m) = m
  <2>1. 1 \in Int /\ m \in Int /\ ~(1 > m) /\ m - 1 + 1 = m
    BY <1>1
  <2> QED BY <2>1, FS_Interval
<1>4. /\ IsFiniteSet(H) /\ hits \in Nat /\ (hits = m <=> H = 1..m)
      /\ hits \in 1..(m - 1) <=> H # {} /\ H # 1..m
  <2>1. H \subseteq 1..m
    BY <1>1
  <2> HIDE DEF H
  <2>2. IsFiniteSet(H) /\ hits \in Nat /\ (hits = m <=> H = 1..m) /\ hits <= m
    <3> HIDE DEF m
    <3>1. IsFiniteSet(H) /\ hits <= Cardinality(1..m) /\ (hits = Cardinality(1..m) => H = 1..m)
      BY <1>3, <2>1, FS_Subset
    <3>2. hits \in Nat
      BY <3>1, FS_CardinalityType
    <3> QED BY <1>3, <3>1, <3>2
  <2>3. hits = 0 <=> H = {}
    BY <2>2, FS_EmptySet
  <2> HIDE DEF hits, m
  <2> QED BY <1>1, <2>2, <2>3
<1>5. H = 1..m <=> \A i \in DOMAIN leaves : id \in Chain(ns, leaves[i])
  BY <1>1
<1>6. d = [c EXCEPT !.distributed = @ + hits * u,
                    !.represented = @ + (IF first THEN 1 ELSE 0),
                    !.comp_samples = @ + (IF first /\ ratio # NoRatio THEN 1 ELSE 0),
                    !.uncompressed = @ + (IF first /\ ratio # NoRatio THEN ratio ELSE 0),
                    !.exclusive = @ + (IF hits = m THEN 1 ELSE 0),
                    !.shared = @ + (IF hits \in 1..(m - 1) THEN 1 ELSE 0)]
  BY <1>1 DEF Credit, Met
<1>7. hits * u \in Nat
  BY <1>2, <1>4
<1> HIDE DEF H, first, d, u, hits
<1> DEFINE w == hits * u
<1> HIDE DEF w
<1>8. d = [c EXCEPT !.distributed = @ + w,
                    !.represented = @ + (IF first THEN 1 ELSE 0),
                    !.comp_samples = @ + (IF first /\ ratio # NoRatio THEN 1 ELSE 0),
                    !.uncompressed = @ + (IF first /\ ratio # NoRatio THEN ratio ELSE 0),
                    !.exclusive = @ + (IF hits = m THEN 1 ELSE 0),
                    !.shared = @ + (IF hits \in 1..(m - 1) THEN 1 ELSE 0)]
  BY <1>6 DEF w
<1>9. d \in Counts
  <2> DEFINE x == IF first /\ ratio # NoRatio THEN ratio ELSE 0
             y == IF first /\ ratio # NoRatio THEN 1 ELSE 0
             z == IF first THEN 1 ELSE 0
             e == IF hits = m THEN 1 ELSE 0
             o == IF hits \in 1..(m - 1) THEN 1 ELSE 0
  <2>1. w \in Nat
    BY <1>7 DEF w
  <2>2. x \in Nat /\ y \in Nat /\ z \in Nat /\ e \in Nat /\ o \in Nat
    OBVIOUS
  <2>3. d = [c EXCEPT !.distributed = @ + w, !.represented = @ + z, !.comp_samples = @ + y,
                      !.uncompressed = @ + x, !.exclusive = @ + e, !.shared = @ + o]
    BY <1>8
  <2> HIDE DEF x, y, z, e, o, m
  <2>4. d = [represented |-> c.represented + z, distributed |-> c.distributed + w,
             exclusive |-> c.exclusive + e, shared |-> c.shared + o,
             comp_samples |-> c.comp_samples + y, uncompressed |-> c.uncompressed + x]
    BY <2>3 DEF Counts
  <2>5. /\ c.represented \in Nat /\ c.distributed \in Nat /\ c.exclusive \in Nat
        /\ c.shared \in Nat /\ c.comp_samples \in Nat /\ c.uncompressed \in Nat
    BY DEF Counts
  <2>6. /\ c.represented + z \in Nat /\ c.distributed + w \in Nat /\ c.exclusive + e \in Nat
        /\ c.shared + o \in Nat /\ c.comp_samples + y \in Nat /\ c.uncompressed + x \in Nat
    <3>1. \A a, b \in Nat : a + b \in Nat
      OBVIOUS
    <3> QED BY <3>1, <2>1, <2>2, <2>5, Zenon
  <2> QED BY <2>4, <2>6 DEF Counts
<1>10. /\ d.represented = c.represented + (IF first THEN 1 ELSE 0)
       /\ d.distributed = c.distributed + w
       /\ d.comp_samples = c.comp_samples + (IF first /\ ratio # NoRatio THEN 1 ELSE 0)
       /\ d.uncompressed = c.uncompressed + (IF first /\ ratio # NoRatio THEN ratio ELSE 0)
       /\ d.exclusive = c.exclusive + (IF hits = m THEN 1 ELSE 0)
       /\ d.shared = c.shared + (IF hits \in 1..(m - 1) THEN 1 ELSE 0)
  BY <1>8 DEF Counts
<1> QED BY <1>4, <1>5, <1>9, <1>10 DEF H, first, d, u, w, hits, Credited

LEMMA SubtractFacts ==
  ASSUME NEW c \in Counts, NEW o \in Counts
  PROVE  /\ subtract(c, o) \in Counts
         /\ \A f \in DOMAIN c : subtract(c, o)[f] = Minus(c[f], o[f]) /\ c[f] \in Nat /\ o[f] \in Nat
         /\ DOMAIN c = {"represented", "distributed", "exclusive", "shared", "comp_samples",
                        "uncompressed"}
<1> DEFINE F == {"represented", "distributed", "exclusive", "shared", "comp_samples", "uncompressed"}
<1>1. DOMAIN c = F
  BY DEF Counts
<1>2. \A f \in F : c[f] \in Nat /\ o[f] \in Nat
  BY DEF Counts
<1>3. \A f \in F : Minus(c[f], o[f]) \in Nat
  BY <1>2 DEF Minus
<1>4. subtract(c, o) = [f \in F |-> Minus(c[f], o[f])]
  BY <1>1 DEF subtract
<1>5. subtract(c, o) = [represented |-> Minus(c.represented, o.represented),
                        distributed |-> Minus(c.distributed, o.distributed),
                        exclusive |-> Minus(c.exclusive, o.exclusive),
                        shared |-> Minus(c.shared, o.shared),
                        comp_samples |-> Minus(c.comp_samples, o.comp_samples),
                        uncompressed |-> Minus(c.uncompressed, o.uncompressed)]
  BY <1>4
<1>6. subtract(c, o) \in Counts
  BY <1>3, <1>5 DEF Counts
<1> QED BY <1>1, <1>2, <1>4, <1>6

-----------------------------------------------------------------------------
(* Removing. *)

\* b is a after the removal of id, which was live and not the root.
Removed(a, b, id) ==
  /\ Arena(a) /\ Arena(b) /\ DOMAIN b = DOMAIN a /\ id \in Live(a) \ {0}
  /\ \A k \in DOMAIN a :
       /\ Chain(b, k) = Chain(a, k) /\ path_of(b, k) = path_of(a, k)
       /\ b[k].subvol = a[k].subvol /\ b[k].sharers = a[k].sharers
       /\ b[k].removed <=> a[k].removed \/ k = id
       /\ b[k].c = IF k \in Chain(a, id) \ {id} THEN subtract(a[k].c, a[id].c) ELSE a[k].c
  /\ Live(b) = {k \in Live(a) : id \notin Chain(a, k)}

LEMMA RemovedFacts ==
  ASSUME Arena(nodes), NEW id \in DOMAIN nodes, remove(id), Removable(id)
  PROVE  Removed(nodes, nodes', id)
<1> DEFINE a == nodes
           b == nodes'
           nd == a[id]
           par == nd.parent
           up == Chain(a, id) \ {id}
           kids(k) == IF k = par THEN WithoutChild(a[k].children, nd.name) ELSE a[k].children
           cnt(k) == subtract(a[k].c, nd.c)
<1>1. b = [k \in DOMAIN a |->
             IF k = id THEN [nd EXCEPT !.removed = TRUE]
             ELSE IF k \notin up THEN a[k]
             ELSE [a[k] EXCEPT !.c = cnt(k), !.children = kids(k)]]
  BY DEF remove, SubtractedFrom
<1>2. Rooted(a) /\ Named(a) /\ id \in Live(a) \ {0} /\ \A k \in DOMAIN a : a[k] \in NodeRec
  BY ArenaFacts DEF Removable, ROOT, Live
<1>3. par \in DOMAIN a /\ par \in up /\ par # id /\ ~nd.removed /\ up \subseteq DOMAIN a
  <2>1. par \in DOMAIN a /\ par < id /\ par \in Nat /\ id \in Nat
    BY <1>2, RootedFacts
  <2>2. par \in Chain(a, id)
    BY <1>2, <2>1, ChainFacts
  <2> QED BY <1>2, <2>1, <2>2, ChainFacts, LiveFacts
<1>4. ASSUME NEW k \in DOMAIN a
      PROVE  kids(k) \in Kids /\ cnt(k) \in Counts
  <2>1. a[k].children \in Kids /\ a[k].c \in Counts /\ nd.c \in Counts
    BY <1>2 DEF NodeRec
  <2>2. cnt(k) \in Counts
    BY <2>1, SubtractFacts
  <2>3. WithoutChild(a[k].children, nd.name) \in Kids
    <3> DEFINE f == a[k].children
               D == DOMAIN f \ {nd.name}
    <3>1. DOMAIN f \subseteq Name /\ \A x \in DOMAIN f : f[x] \in Nat
      BY <2>1 DEF Kids
    <3>2. WithoutChild(f, nd.name) = [x \in D |-> f[x]]
      BY DEF WithoutChild, Restrict
    <3> HIDE DEF f
    <3>3. [x \in D |-> f[x]] \in [D -> Nat] /\ D \in SUBSET Name
      BY <3>1
    <3> QED BY <3>2, <3>3 DEF Kids, f
  <2> QED BY <2>1, <2>2, <2>3
<1> HIDE DEF b, cnt, up
<1>5. ASSUME NEW k \in DOMAIN a
      PROVE  /\ b[k] \in NodeRec
             /\ b[k].name = a[k].name /\ b[k].parent = a[k].parent
             /\ b[k].subvol = a[k].subvol /\ b[k].sharers = a[k].sharers
             /\ b[k].removed <=> a[k].removed \/ k = id
             /\ b[k].c = IF k \in up THEN cnt(k) ELSE a[k].c
             /\ b[k].children = kids(k)
  <2>1. a[k] \in NodeRec /\ kids(k) \in Kids /\ cnt(k) \in Counts
    BY <1>2, <1>4
  <2>2. CASE k = id
    <3>1. b[k] = [nd EXCEPT !.removed = TRUE] /\ k \notin up /\ kids(k) = a[k].children
      BY <1>1, <1>3, <2>2 DEF up
    <3> HIDE DEF kids
    <3> QED BY <1>3, <2>1, <2>2, <3>1 DEF NodeRec
  <2>3. CASE k # id /\ k \notin up
    <3>1. b[k] = a[k] /\ kids(k) = a[k].children
      BY <1>1, <1>3, <2>3
    <3> HIDE DEF kids
    <3> QED BY <2>1, <2>3, <3>1
  <2>4. CASE k # id /\ k \in up
    <3>1. b[k] = [a[k] EXCEPT !.c = cnt(k), !.children = kids(k)]
      BY <1>1, <2>4
    <3> HIDE DEF kids
    <3> QED BY <2>1, <2>4, <3>1 DEF NodeRec
  <2> QED BY <2>2, <2>3, <2>4
<1>6. DOMAIN b = DOMAIN a /\ Size(b) = Size(a)
  BY <1>1 DEF Size
<1>7. Rooted(b)
  BY <1>2, <1>5, <1>6, RootedFacts DEF Rooted
<1>8. Arena(b)
  <2>1. b \in [DOMAIN b -> NodeRec]
    <3>1. b = [k \in DOMAIN b |-> b[k]]
      BY <1>1
    <3> QED BY <3>1, <1>5, <1>6
  <2>2. ~b[0].removed
    BY <1>2, <1>5, RootedFacts DEF Arena
  <2>3. \A i \in DOMAIN a : \A nm \in DOMAIN kids(i) :
          /\ nm \in DOMAIN a[i].children /\ kids(i)[nm] = a[i].children[nm]
          /\ ~(i = par /\ nm = nd.name)
    BY DEF WithoutChild, Restrict
  <2>4. \A i \in DOMAIN a : \A nm \in DOMAIN a[i].children :
          ~(i = par /\ nm = nd.name) => nm \in DOMAIN kids(i) /\ kids(i)[nm] = a[i].children[nm]
    BY DEF WithoutChild, Restrict
  <2> HIDE DEF kids
  <2>5. ASSUME NEW i \in DOMAIN b, NEW nm \in DOMAIN b[i].children
        PROVE  LET k == b[i].children[nm] IN
               k \in DOMAIN b \ {0} /\ b[k].name = nm /\ b[k].parent = i /\ ~b[k].removed
    <3> DEFINE k == a[i].children[nm]
    <3>1. nm \in DOMAIN a[i].children /\ b[i].children[nm] = k /\ ~(i = par /\ nm = nd.name)
      BY <1>5, <1>6, <2>3, <2>5
    <3>2. k \in DOMAIN a \ {0} /\ a[k].name = nm /\ a[k].parent = i /\ ~a[k].removed
      BY <1>6, <3>1 DEF Arena
    <3> HIDE DEF k
    <3>3. k # id
      BY <3>1, <3>2
    <3> QED BY <1>5, <1>6, <3>1, <3>2, <3>3
  <2>6. ASSUME NEW k \in DOMAIN b \ {0}, ~b[k].removed
        PROVE  /\ b[k].name \in DOMAIN b[b[k].parent].children
               /\ b[b[k].parent].children[b[k].name] = k
    <3> DEFINE p == a[k].parent
               nm == a[k].name
    <3>1. p \in DOMAIN a /\ ~a[k].removed /\ k # id /\ k \in DOMAIN a \ {0}
      BY <1>2, <1>5, <1>6, <2>6, RootedFacts
    <3>2. nm \in DOMAIN a[p].children /\ a[p].children[nm] = k
      BY <3>1 DEF Arena
    <3>3. a[par].children[nd.name] = id
      BY <1>2, <1>3 DEF Arena
    <3>4. ~(p = par /\ nm = nd.name)
      BY <3>1, <3>2, <3>3
    <3>5. b[k].parent = p /\ b[k].name = nm /\ b[p].children = kids(p)
      BY <1>5, <3>1
    <3> HIDE DEF p, nm
    <3>6. nm \in DOMAIN kids(p) /\ kids(p)[nm] = k
      BY <2>4, <3>1, <3>2, <3>4
    <3> QED BY <3>5, <3>6
  <2> QED BY <1>7, <2>1, <2>2, <2>5, <2>6 DEF Arena
<1>9. \A k \in DOMAIN a : Chain(b, k) = Chain(a, k) /\ path_of(b, k) = path_of(a, k)
  BY <1>2, <1>5, <1>6, <1>7, SameWalks
<1>10. Live(b) = {k \in Live(a) : id \notin Chain(a, k)}
  <2>1. ASSUME NEW k \in DOMAIN a
        PROVE  k \in Live(b) <=> k \in Live(a) /\ id \notin Chain(a, k)
    <3>1. Chain(b, k) = Chain(a, k) /\ Chain(a, k) \subseteq DOMAIN a
      BY <1>2, <1>9, ChainFacts
    <3>2. \A j \in Chain(a, k) : b[j].removed <=> a[j].removed \/ j = id
      BY <1>5, <3>1
    <3> QED BY <1>6, <3>1, <3>2 DEF Live, is_live
  <2> QED BY <1>6, <2>1 DEF Live
<1>11. \A k \in DOMAIN a : b[k].c = IF k \in Chain(a, id) \ {id} THEN subtract(a[k].c, a[id].c)
                                    ELSE a[k].c
  BY <1>5 DEF up, cnt
<1> QED BY <1>2, <1>5, <1>6, <1>8, <1>9, <1>10, <1>11 DEF Removed, b

-----------------------------------------------------------------------------
(* Adding a sample. *)

\* b is a with other counters and sharers.
Same(a, b) ==
  /\ Arena(a) /\ Arena(b) /\ DOMAIN b = DOMAIN a /\ Live(b) = Live(a)
  /\ \A i \in DOMAIN a :
       /\ Chain(b, i) = Chain(a, i) /\ path_of(b, i) = path_of(a, i)
       /\ b[i].removed = a[i].removed /\ b[i].subvol = a[i].subvol

\* Of the arena a comes ns, with the nodes of s, and of that b, where s is counted at
\* its leaves.
Added(a, ns, M, leaves, b, s) ==
  /\ Grows(a, ns, M) /\ M \subseteq Live(ns) /\ {path_of(ns, i) : i \in M} = Range(s.subvols)
  /\ \A i \in DOMAIN ns \ DOMAIN a : path_of(ns, i) \in Wanted(s.subvols) \cup Wanted(s.owners)
  /\ leaves \in Seq(Nat) /\ Len(leaves) = Len(s.owners) /\ leaves # <<>>
  /\ \A j \in DOMAIN s.owners : leaves[j] \in Live(ns) /\ path_of(ns, leaves[j]) = s.owners[j]
  /\ Same(ns, b)
  /\ \A k \in DOMAIN ns :
       /\ b[k].c = Credit(ns, k, leaves, s.ratio, ns[k].c)
       /\ b[k].sharers \in Sharers
       /\ \A j \in DOMAIN b[k].sharers :
            \/ \E l \in DOMAIN ns[k].sharers : b[k].sharers[j] = ns[k].sharers[l]
            \/ \E i \in DOMAIN leaves : \E x \in DOMAIN leaves \ {i} :
                 leaves[i] = k /\ b[k].sharers[j] = s.owners[x]

LEMMA SampleFacts ==
  ASSUME NEW s \in Sample
  PROVE  /\ s.owners \in Seq(Path) /\ s.subvols \in Seq(Path) /\ s.ratio \in Nat \cup {NoRatio}
         /\ s.owners # <<>>
BY SampleAssumption

LEMMA AddedFacts ==
  ASSUME Arena(nodes), \A i \in DOMAIN nodes : nodes[i].sharers \in Sharers,
         NEW s \in Sample, add_sample(s)
  PROVE  \E ns, M, leaves : /\ Added(nodes, ns, M, leaves, nodes', s)
                            /\ log' = Append(log, [leaves |-> leaves, ratio |-> s.ratio])
<1> DEFINE a == nodes
           mid == mark_subvols(a, s.subvols)
           got == Created(mid, s.owners)
           ns == got.ns
           leaves == got.ids
           b == nodes'
<1>1. s.owners \in Seq(Path) /\ s.subvols \in Seq(Path) /\ s.ratio \in Nat \cup {NoRatio}
      /\ s.owners # <<>>
  BY SampleFacts
<1>2. PICK M : /\ Grows(a, mid, M) /\ M \subseteq Live(mid)
               /\ {path_of(mid, i) : i \in M} = Range(s.subvols)
               /\ \A i \in DOMAIN mid \ DOMAIN a : path_of(mid, i) \in Wanted(s.subvols)
  BY <1>1, MarkedFacts
<1>3. Arena(mid)
  BY <1>2 DEF Grows
<1>4. /\ Grows(mid, ns, {}) /\ leaves \in Seq(Nat) /\ Len(leaves) = Len(s.owners)
      /\ \A j \in DOMAIN s.owners : leaves[j] \in Live(ns) /\ path_of(ns, leaves[j]) = s.owners[j]
      /\ \A i \in DOMAIN ns \ DOMAIN mid : path_of(ns, i) \in Wanted(s.owners)
  BY <1>1, <1>3, CreatedFacts
<1> DEFINE shr(k) == SharersAfter(ns[k].sharers, k, leaves, s.owners)
           cnt(k) == Credit(ns, k, leaves, s.ratio, ns[k].c)
<1>5. /\ b = [k \in DOMAIN ns |-> [ns[k] EXCEPT !.c = cnt(k), !.sharers = shr(k)]]
      /\ log' = Append(log, [leaves |-> leaves, ratio |-> s.ratio])
  BY DEF add_sample
<1> HIDE DEF mid, got, b, cnt, shr
<1>6. Grows(a, ns, M)
  <2>1. Grows(a, ns, M \cup {})
    BY <1>2, <1>4, GrowsTwice
  <2> QED BY <2>1
<1>7. M \subseteq Live(ns) /\ {path_of(ns, i) : i \in M} = Range(s.subvols)
  <2>1. M \subseteq DOMAIN mid /\ M \subseteq Live(ns)
    BY <1>2, <1>3, <1>4, GrowsFacts, LiveNat
  <2>2. \A i \in M : path_of(ns, i) = path_of(mid, i)
    BY <2>1, <1>4, GrowsFacts
  <2> QED BY <1>2, <2>1, <2>2
<1>8. \A i \in DOMAIN ns \ DOMAIN a : path_of(ns, i) \in Wanted(s.subvols) \cup Wanted(s.owners)
  BY <1>2, <1>4, GrowsFacts
<1>9. Arena(ns) /\ \A k \in DOMAIN ns : ns[k] \in NodeRec
  BY <1>4, ArenaFacts DEF Grows
<1>10. DOMAIN leaves = DOMAIN s.owners /\ leaves # <<>>
  BY <1>1, <1>4
<1>11. ASSUME NEW k \in DOMAIN ns PROVE ns[k].sharers \in Sharers
  <2>1. <<>> \in Sharers
    BY SampleAssumption DEF Sharers
  <2> QED BY <1>6, <2>1 DEF Grows
<1>12. ASSUME NEW k \in DOMAIN ns
       PROVE  /\ shr(k) \in Sharers
              /\ \A j \in DOMAIN shr(k) :
                   \/ \E l \in DOMAIN ns[k].sharers : shr(k)[j] = ns[k].sharers[l]
                   \/ \E i \in DOMAIN leaves : \E x \in DOMAIN leaves \ {i} :
                        leaves[i] = k /\ shr(k)[j] = s.owners[x]
  <2> DEFINE o == s.owners
             sh == ns[k].sharers
  <2>1. sh \in Sharers /\ o \in Seq(Path) /\ leaves \in Seq(Nat) /\ Len(leaves) = Len(o)
    BY <1>1, <1>4, <1>11
  <2>2. shr(k) = SharersAfter(sh, k, leaves, o)
    BY DEF shr
  <2> HIDE DEF o, sh, leaves
  <2>3. Extends(SharersAfter(sh, k, leaves, o), sh, k, leaves, o)
    BY <2>1, SharersAfterFacts
  <2> QED BY <2>2, <2>3 DEF Extends, o, sh
<1>13. ASSUME NEW k \in DOMAIN ns
       PROVE  /\ b[k] \in NodeRec /\ b[k].name = ns[k].name /\ b[k].parent = ns[k].parent
              /\ b[k].children = ns[k].children /\ b[k].removed = ns[k].removed
              /\ b[k].subvol = ns[k].subvol /\ b[k].c = cnt(k) /\ b[k].sharers = shr(k)
  <2>1. ns[k] \in NodeRec /\ ns[k].c \in Counts
    BY <1>9 DEF NodeRec
  <2>2. cnt(k) \in Counts
    BY <1>1, <1>4, <1>10, <2>1, CreditFacts DEF cnt, Credited
  <2>3. shr(k) \in Seq(Path)
    BY <1>12 DEF Sharers
  <2>4. b[k] = [ns[k] EXCEPT !.c = cnt(k), !.sharers = shr(k)]
    BY <1>5
  <2> QED BY <2>1, <2>2, <2>3, <2>4 DEF NodeRec
<1>14. Same(ns, b)
  <2>1. b \in [DOMAIN ns -> NodeRec]
    <3>1. b = [k \in DOMAIN ns |-> b[k]]
      BY <1>5
    <3> QED BY <3>1, <1>13
  <2>2. /\ Arena(b) /\ Live(b) = Live(ns) /\ DOMAIN b = DOMAIN ns
        /\ \A i \in DOMAIN ns : Chain(b, i) = Chain(ns, i) /\ path_of(b, i) = path_of(ns, i)
    BY <1>9, <1>13, <2>1, SameLinks
  <2> QED BY <1>9, <1>13, <2>2 DEF Same
<1>15. Added(a, ns, M, leaves, b, s)
  BY <1>4, <1>6, <1>7, <1>8, <1>10, <1>12, <1>13, <1>14 DEF Added, cnt
<1> QED BY <1>5, <1>15 DEF b

-----------------------------------------------------------------------------
(* The inductive invariant, and what a step of the specification may be. *)

LogRec == [leaves : Seq(Nat), ratio : Nat \cup {NoRatio}]
LogOK ==
  /\ log \in Seq(LogRec) /\ total_samples = Len(log)
  /\ \A e \in DOMAIN log : /\ log[e].leaves # <<>>
                           /\ \A i \in DOMAIN log[e].leaves : log[e].leaves[i] \in DOMAIN nodes
ListsOK == \A i \in DOMAIN nodes : nodes[i].sharers \in Sharers
Tracked == entries = Entries(nodes)
IInv == Arena(nodes) /\ LogOK /\ ListsOK /\ Tracked

\* The steps, by what they make of the arena.
Adds(s, ns, M, leaves) ==
  /\ Added(nodes, ns, M, leaves, nodes', s)
  /\ log' = Append(log, [leaves |-> leaves, ratio |-> s.ratio])
  /\ total_samples' = total_samples + 1
  /\ Roomy
Marks(l, M) ==
  /\ Grows(nodes, nodes', M) /\ M \subseteq Live(nodes') /\ {path_of(nodes', i) : i \in M} = Range(l)
  /\ \A i \in DOMAIN nodes' \ DOMAIN nodes : path_of(nodes', i) \in Wanted(l)
  /\ UNCHANGED <<total_samples, log>>
  /\ Roomy
Removes(id) == Removed(nodes, nodes', id) /\ UNCHANGED <<total_samples, log>>

LEMMA Steps ==
  ASSUME IInv, [Next]_vars
  PROVE  /\ entries' = Entries(nodes')
         /\ \/ \E s \in Sample : \E ns, M, leaves : Adds(s, ns, M, leaves)
            \/ \E l \in SubvolList : \E M : Marks(l, M)
            \/ \E id \in DOMAIN nodes : Removes(id)
            \/ UNCHANGED <<nodes, total_samples, log>>
<1>0. Arena(nodes) /\ \A i \in DOMAIN nodes : nodes[i].sharers \in Sharers
  BY DEF IInv, ListsOK
<1>1. ASSUME NEW s \in Sample, add_sample(s), Roomy
      PROVE  entries' = Entries(nodes') /\ \E ns, M, leaves : Adds(s, ns, M, leaves)
  <2>1. PICK ns, M, leaves : /\ Added(nodes, ns, M, leaves, nodes', s)
                             /\ log' = Append(log, [leaves |-> leaves, ratio |-> s.ratio])
    BY <1>0, <1>1, AddedFacts
  <2>2. entries' = Entries(nodes') /\ total_samples' = total_samples + 1
    BY <1>1 DEF add_sample
  <2> QED BY <1>1, <2>1, <2>2 DEF Adds
<1>2. ASSUME NEW l \in SubvolList, refresh_subvols(l), Roomy
      PROVE  entries' = Entries(nodes') /\ \E M : Marks(l, M)
  <2>1. nodes' = mark_subvols(nodes, l) /\ entries' = Entries(nodes')
        /\ UNCHANGED <<total_samples, log>>
    BY <1>2 DEF refresh_subvols
  <2>2. l \in Seq(Path)
    BY SampleAssumption
  <2> DEFINE b == mark_subvols(nodes, l)
  <2>3. PICK M : /\ Grows(nodes, b, M) /\ M \subseteq Live(b) /\ {path_of(b, i) : i \in M} = Range(l)
                 /\ \A i \in DOMAIN b \ DOMAIN nodes : path_of(b, i) \in Wanted(l)
    BY <1>0, <2>2, MarkedFacts
  <2>4. b = nodes'
    BY <2>1
  <2> HIDE DEF b
  <2> QED BY <1>2, <2>1, <2>3, <2>4 DEF Marks
<1>3. ASSUME NEW id \in DOMAIN nodes, remove(id)
      PROVE  /\ entries' = Entries(nodes')
             /\ Removes(id) \/ UNCHANGED <<nodes, total_samples, log>>
  <2>1. entries' = Entries(nodes') /\ UNCHANGED <<total_samples, log>>
    BY <1>3 DEF remove
  <2>2. CASE Removable(id)
    BY <1>0, <1>3, <2>1, <2>2, RemovedFacts DEF Removes
  <2>3. CASE ~Removable(id)
    BY <1>3, <2>1, <2>3 DEF remove
  <2> QED BY <2>1, <2>2, <2>3
<1>4. CASE UNCHANGED vars
  BY <1>4 DEF IInv, Tracked, vars
<1> QED BY <1>1, <1>2, <1>3, <1>4 DEF Next

LEMMA NewNodeFacts ==
  ASSUME NEW nm \in Name, NEW par \in Int
  PROVE  LET nd == NewNode(nm, par) IN
         /\ nd \in NodeRec /\ nd.name = nm /\ nd.parent = par /\ ~nd.removed /\ ~nd.subvol
         /\ DOMAIN nd.children = {} /\ nd.c = Zero /\ nd.sharers = <<>>
<1>1. <<>> \in Kids
  <2>1. <<>> \in [{} -> Nat]
    OBVIOUS
  <2> QED BY <2>1 DEF Kids
<1>2. <<>> \in Seq(Path) /\ Zero \in Counts
  BY DEF Zero, Counts
<1> QED BY <1>1, <1>2 DEF NewNode, NodeRec

LEMMA NewFacts ==
  /\ Arena(New) /\ DOMAIN New = {0}
  /\ path_of(New, 0) = <<>> /\ Chain(New, 0) = {0} /\ Live(New) = {0}
  /\ ~New[0].removed /\ ~New[0].subvol /\ New[0].c = Zero /\ New[0].sharers = <<>>
<1> DEFINE nm == ""
<1>1. nm \in Name /\ NoParent \in Int
  <2>1. nm \in Name
    BY Zenon DEF Name
  <2>2. NoParent \in Int
    BY DEF NoParent
  <2> QED BY <2>1, <2>2
<1>2. DOMAIN New = {0} /\ New = [i \in {0} |-> NewNode(nm, NoParent)]
  BY DEF New, ROOT
<1> HIDE DEF nm
<1>3. /\ New[0] \in NodeRec /\ New[0].parent = NoParent /\ ~New[0].removed /\ ~New[0].subvol
      /\ DOMAIN New[0].children = {} /\ New[0].c = Zero /\ New[0].sharers = <<>>
  BY <1>1, <1>2, NewNodeFacts
<1>4. {0} = 0..0 /\ Cardinality(0..0) = 1
  <2>1. {0} = 0..0 /\ 0 \in Nat /\ 0 + 1 = 1
    OBVIOUS
  <2> QED BY <2>1, UpTo
<1>5. Size(New) = 1
  BY <1>2, <1>4 DEF Size
<1>6. New \in [DOMAIN New -> NodeRec]
  BY <1>2, <1>3
<1>7. Arena(New)
  <2>1. 1 \in Nat \ {0} /\ 1 - 1 = 0
    OBVIOUS
  <2>2. Rooted(New)
    BY <1>2, <1>3, <1>4, <1>5, <2>1 DEF Rooted
  <2> QED BY <1>2, <1>3, <1>6, <2>2 DEF Arena
<1>8. Live(New) = {0}
  BY <1>2, <1>7, LiveFacts, LiveNat
<1>9. path_of(New, 0) = <<>> /\ Chain(New, 0) = {0}
  BY <1>7, ArenaFacts, PathFacts, ChainFacts
<1> QED BY <1>2, <1>3, <1>7, <1>8, <1>9

LEMMA IInvInit ==
  ASSUME Init
  PROVE  IInv
<1>1. nodes = New /\ total_samples = 0 /\ log = <<>> /\ entries = Entries(nodes)
  BY DEF Init
<1>2. log \in Seq(LogRec) /\ Len(log) = 0 /\ DOMAIN log = {}
  BY <1>1
<1>3. <<>> \in Sharers
  BY SampleAssumption DEF Sharers
<1>4. ListsOK
  BY <1>1, <1>3, NewFacts DEF ListsOK
<1> QED BY <1>1, <1>2, <1>4, NewFacts DEF IInv, LogOK, Tracked

LEMMA IInvStep ==
  ASSUME IInv, [Next]_vars
  PROVE  IInv'
<1>1. /\ Arena(nodes) /\ ListsOK /\ log \in Seq(LogRec) /\ total_samples = Len(log)
      /\ \A e \in DOMAIN log : /\ log[e].leaves # <<>>
                               /\ \A i \in DOMAIN log[e].leaves : log[e].leaves[i] \in DOMAIN nodes
  BY DEF IInv, LogOK
<1>2. Tracked'
  BY Steps DEF Tracked
<1>3. <<>> \in Sharers
  BY SampleAssumption DEF Sharers
<1>4. ASSUME NEW s \in Sample, NEW ns, NEW M, NEW leaves, Adds(s, ns, M, leaves)
      PROVE  Arena(nodes') /\ ListsOK' /\ LogOK'
  <2>1. /\ Grows(nodes, ns, M) /\ Same(ns, nodes')
        /\ leaves \in Seq(Nat) /\ Len(leaves) = Len(s.owners) /\ leaves # <<>>
        /\ \A j \in DOMAIN s.owners : leaves[j] \in Live(ns)
        /\ \A k \in DOMAIN ns : nodes'[k].sharers \in Sharers
    BY <1>4 DEF Adds, Added
  <2>2. Arena(nodes') /\ DOMAIN nodes' = DOMAIN ns /\ DOMAIN nodes \subseteq DOMAIN nodes' /\ Arena(ns)
    BY <2>1 DEF Same, Grows
  <2>3. ListsOK'
    BY <2>1, <2>2 DEF ListsOK
  <2> DEFINE r == [leaves |-> leaves, ratio |-> s.ratio]
  <2>4. r \in LogRec /\ r.leaves = leaves
    BY <2>1, SampleFacts DEF LogRec
  <2>5. log' = Append(log, r) /\ total_samples' = total_samples + 1
    BY <1>4 DEF Adds
  <2> HIDE DEF r
  <2>6. /\ log' \in Seq(LogRec) /\ Len(log') = Len(log) + 1 /\ log'[Len(log) + 1] = r
        /\ DOMAIN log' = 1..(Len(log) + 1) /\ DOMAIN log = 1..Len(log) /\ Len(log) \in Nat
        /\ \A e \in 1..Len(log) : log'[e] = log[e]
    BY <1>1, <2>4, <2>5
  <2>7. \A i \in DOMAIN leaves : leaves[i] \in DOMAIN nodes'
    <3>1. DOMAIN leaves = DOMAIN s.owners
      BY <2>1, SampleFacts
    <3> QED BY <2>1, <2>2, <3>1, LiveNat
  <2>8. ASSUME NEW e \in DOMAIN log'
        PROVE  /\ log'[e].leaves # <<>>
               /\ \A i \in DOMAIN log'[e].leaves : log'[e].leaves[i] \in DOMAIN nodes'
    <3>1. CASE e = Len(log) + 1
      BY <2>1, <2>4, <2>6, <2>7, <3>1
    <3>2. CASE e # Len(log) + 1
      <4>1. e \in DOMAIN log /\ log'[e] = log[e]
        BY <2>6, <3>2
      <4> QED BY <1>1, <2>2, <4>1
    <3> QED BY <3>1, <3>2
  <2>9. LogOK'
    BY <1>1, <2>5, <2>6, <2>8 DEF LogOK
  <2> QED BY <2>2, <2>3, <2>9
<1>5. ASSUME NEW l \in SubvolList, NEW M, Marks(l, M)
      PROVE  Arena(nodes') /\ ListsOK' /\ LogOK'
  <2>1. Grows(nodes, nodes', M) /\ UNCHANGED <<total_samples, log>>
    BY <1>5 DEF Marks
  <2>2. Arena(nodes') /\ DOMAIN nodes \subseteq DOMAIN nodes'
    BY <2>1 DEF Grows
  <2>3. ListsOK'
    BY <1>1, <1>3, <2>1 DEF ListsOK, Grows
  <2>4. LogOK'
    BY <1>1, <2>1, <2>2 DEF LogOK
  <2> QED BY <2>2, <2>3, <2>4
<1>6. ASSUME NEW id \in DOMAIN nodes, Removes(id)
      PROVE  Arena(nodes') /\ ListsOK' /\ LogOK'
  <2>1. Removed(nodes, nodes', id) /\ UNCHANGED <<total_samples, log>>
    BY <1>6 DEF Removes
  <2>2. Arena(nodes') /\ DOMAIN nodes' = DOMAIN nodes
    BY <2>1 DEF Removed
  <2>3. ListsOK'
    BY <1>1, <2>1, <2>2 DEF ListsOK, Removed
  <2>4. LogOK'
    BY <1>1, <2>1, <2>2 DEF LogOK
  <2> QED BY <2>2, <2>3, <2>4
<1>7. ASSUME UNCHANGED <<nodes, total_samples, log>>
      PROVE  Arena(nodes') /\ ListsOK' /\ LogOK'
  BY <1>1, <1>7 DEF ListsOK, LogOK
<1>8. Arena(nodes') /\ ListsOK' /\ LogOK'
  BY <1>4, <1>5, <1>6, <1>7, Steps
<1> QED BY <1>2, <1>8 DEF IInv

\* Every state of the specification satisfies the invariant.
LEMMA Invariance == Spec => []IInv
<1>1. Init => IInv
  BY IInvInit
<1>2. IInv /\ [Next]_vars => IInv'
  BY IInvStep
<1> QED BY <1>1, <1>2, PTL DEF Spec

\* The links of the arena agree whatever is sampled, marked and removed, the sharers
\* lists stay within their capacity and no counter leaves the numbers.
THEOREM TypeCorrect == Spec => []TypeOK
<1>1. ASSUME IInv PROVE TypeOK
  <2>1. Arena(nodes) /\ Rooted(nodes) /\ ListsOK /\ total_samples = Len(log)
    BY <1>1, ArenaFacts DEF IInv, LogOK
  <2>2. DOMAIN nodes = 0..(Cardinality(DOMAIN nodes) - 1)
    BY <2>1 DEF Rooted, Size
  <2>3. ASSUME NEW i \in DOMAIN nodes
        PROVE  LET nd == nodes[i] IN
               /\ nd.parent \in (DOMAIN nodes \cup {NoParent})
               /\ \A nm \in DOMAIN nd.children : nd.children[nm] \in DOMAIN nodes
               /\ nd.subvol \in BOOLEAN /\ nd.removed \in BOOLEAN
               /\ \A f \in DOMAIN Zero : nd.c[f] \in Nat
               /\ Len(nd.sharers) <= MAX_SHARERS
    <3>1. nodes[i] \in NodeRec
      BY <2>1, ArenaFacts
    <3>2. nodes[i].parent \in (DOMAIN nodes \cup {NoParent})
      BY <2>1, RootedFacts
    <3>3. \A nm \in DOMAIN nodes[i].children : nodes[i].children[nm] \in DOMAIN nodes
      BY <2>1 DEF Arena
    <3>4. nodes[i].subvol \in BOOLEAN /\ nodes[i].removed \in BOOLEAN /\ nodes[i].c \in Counts
      BY <3>1 DEF NodeRec
    <3>5. \A f \in DOMAIN Zero : nodes[i].c[f] \in Nat
      BY <3>4 DEF Zero, Counts
    <3>6. Len(nodes[i].sharers) <= MAX_SHARERS
      BY <2>1 DEF ListsOK, Sharers
    <3> QED BY <3>2, <3>3, <3>4, <3>5, <3>6
  <2>4. Linked
    <3> SUFFICES ASSUME NEW i \in DOMAIN nodes
                 PROVE  /\ i # ROOT => nodes[i].parent \in 0..(i - 1)
                        /\ i = ROOT => nodes[i].parent = NoParent /\ ~nodes[i].removed
                        /\ \A k \in DOMAIN nodes :
                             (nodes[k].parent = i /\ ~nodes[k].removed)
                             <=> \E nm \in DOMAIN nodes[i].children :
                                   nodes[i].children[nm] = k /\ nodes[k].name = nm
      BY DEF Linked
    <3>1. i # ROOT => nodes[i].parent \in 0..(i - 1)
      BY <2>1 DEF Rooted, ROOT
    <3>2. i = ROOT => nodes[i].parent = NoParent /\ ~nodes[i].removed
      BY <2>1 DEF Arena, Rooted, ROOT
    <3>3. ASSUME NEW k \in DOMAIN nodes, nodes[k].parent = i, ~nodes[k].removed
          PROVE  \E nm \in DOMAIN nodes[i].children :
                   nodes[i].children[nm] = k /\ nodes[k].name = nm
      <4>1. k # 0
        BY <2>1, <3>3, RootedFacts DEF Rooted, NoParent
      <4> QED BY <2>1, <3>3, <4>1 DEF Arena
    <3>4. ASSUME NEW k \in DOMAIN nodes, NEW nm \in DOMAIN nodes[i].children,
                 nodes[i].children[nm] = k
          PROVE  nodes[k].parent = i /\ ~nodes[k].removed
      BY <2>1, <3>4 DEF Arena
    <3> QED BY <3>1, <3>2, <3>3, <3>4
  <2> QED BY <2>1, <2>2, <2>3, <2>4 DEF TypeOK
<1> QED BY <1>1, Invariance, PTL

-----------------------------------------------------------------------------
(* The entries of an arena. *)

Earlier(ns, i) == {k \in 0..(i - 1) : path_of(ns, k) = path_of(ns, i)}
Having(ns, p) == {i \in DOMAIN ns : path_of(ns, i) = p}
Id(ns, i) == <<path_of(ns, i), Cardinality(Earlier(ns, i))>>
Ids(ns) == {Id(ns, i) : i \in DOMAIN ns}

LEMMA EntriesFacts ==
  ASSUME NEW ns, Rooted(ns), \A i, k \in DOMAIN ns : Id(ns, i) = Id(ns, k) => i = k
  PROVE  LET E == Entries(ns) IN
         /\ E.known = Ids(ns)
         /\ E.made = [p \in Path |-> Cardinality(Having(ns, p))]
         /\ E.anc = [n \in Ids(ns) |-> E.anc[n]]
         /\ \A i \in DOMAIN ns : E.anc[Id(ns, i)] = {Id(ns, k) : k \in Chain(ns, i) \ {i}}
         /\ E.removed = {Id(ns, i) : i \in {k \in DOMAIN ns : ns[k].removed}}
         /\ E.subvol = {Id(ns, i) : i \in {k \in DOMAIN ns : ns[k].subvol}}
<1> DEFINE E == Entries(ns)
           path == [i \in DOMAIN ns |-> path_of(ns, i)]
           id == [i \in DOMAIN ns |-> <<path[i], Cardinality({k \in 0..(i - 1) : path[k] = path[i]})>>]
           above == [i \in DOMAIN ns |-> {id[k] : k \in Chain(ns, i) \ {i}}]
           all == Range(id)
<1>1. E = [known |-> all,
           made |-> [p \in Path |-> Cardinality({i \in DOMAIN ns : path[i] = p})],
           anc |-> [n \in all |-> above[CHOOSE i \in DOMAIN ns : id[i] = n]],
           removed |-> {id[i] : i \in {k \in DOMAIN ns : ns[k].removed}},
           subvol |-> {id[i] : i \in {k \in DOMAIN ns : ns[k].subvol}}]
  BY DEF Entries
<1>2. ASSUME NEW i \in DOMAIN ns PROVE id[i] = Id(ns, i)
  <2>1. 0..(i - 1) \subseteq DOMAIN ns
    BY RootedFacts
  <2>2. {k \in 0..(i - 1) : path[k] = path[i]} = Earlier(ns, i)
    BY <2>1 DEF Earlier
  <2> QED BY <2>2 DEF Id
<1>3. \A p \in Path : {i \in DOMAIN ns : path[i] = p} = Having(ns, p)
  BY DEF Having
<1>4. DOMAIN id = DOMAIN ns
  OBVIOUS
<1> HIDE DEF id, path, E
<1>5. all = Ids(ns)
  BY <1>2, <1>4 DEF Range, Ids
<1>6. ASSUME NEW i \in DOMAIN ns
      PROVE  above[i] = {Id(ns, k) : k \in Chain(ns, i) \ {i}}
  BY <1>2, ChainFacts
<1>7. ASSUME NEW i \in DOMAIN ns PROVE (CHOOSE k \in DOMAIN ns : id[k] = Id(ns, i)) = i
  BY <1>2
<1> HIDE DEF above, all
<1>8. E.anc = [n \in all |-> above[CHOOSE i \in DOMAIN ns : id[i] = n]]
  BY <1>1
<1>9. \A i \in DOMAIN ns : E.anc[Id(ns, i)] = {Id(ns, k) : k \in Chain(ns, i) \ {i}}
  <2> SUFFICES ASSUME NEW i \in DOMAIN ns
               PROVE  E.anc[Id(ns, i)] = {Id(ns, k) : k \in Chain(ns, i) \ {i}}
    OBVIOUS
  <2>1. Id(ns, i) \in all
    BY <1>5 DEF Ids
  <2>2. E.anc[Id(ns, i)] = above[CHOOSE k \in DOMAIN ns : id[k] = Id(ns, i)]
    BY <1>8, <2>1
  <2> QED BY <1>6, <1>7, <2>2
<1>10. E.anc = [n \in Ids(ns) |-> E.anc[n]]
  BY <1>5, <1>8
<1>11. E.made = [p \in Path |-> Cardinality(Having(ns, p))]
  <2>1. E.made = [p \in Path |-> Cardinality({i \in DOMAIN ns : path[i] = p})]
    BY <1>1
  <2> QED BY <1>3, <2>1
<1>12. /\ E.removed = {Id(ns, i) : i \in {k \in DOMAIN ns : ns[k].removed}}
       /\ E.subvol = {Id(ns, i) : i \in {k \in DOMAIN ns : ns[k].subvol}}
  <2>1. /\ E.removed = {id[i] : i \in {k \in DOMAIN ns : ns[k].removed}}
        /\ E.subvol = {id[i] : i \in {k \in DOMAIN ns : ns[k].subvol}}
    BY <1>1
  <2> QED BY <1>2, <2>1
<1>13. E.known = Ids(ns)
  BY <1>1, <1>5
<1> QED BY <1>9, <1>10, <1>11, <1>12, <1>13 DEF E

LEMMA EarlierFacts ==
  ASSUME NEW ns, Rooted(ns), NEW i \in DOMAIN ns
  PROVE  /\ Earlier(ns, i) \subseteq DOMAIN ns /\ IsFiniteSet(Earlier(ns, i))
         /\ Cardinality(Earlier(ns, i)) \in Nat
         /\ IsFiniteSet(DOMAIN ns) /\ Cardinality(DOMAIN ns) \in Nat
<1>1. i \in Nat /\ 0..(i - 1) \subseteq DOMAIN ns
  BY RootedFacts
<1>2. IsFiniteSet(0..(i - 1))
  <2>1. 0 \in Int /\ i - 1 \in Int
    BY <1>1
  <2> QED BY <2>1, FS_Interval
<1>3. Earlier(ns, i) \subseteq 0..(i - 1)
  BY DEF Earlier
<1>4. IsFiniteSet(DOMAIN ns)
  <2>1. 0 \in Int /\ Size(ns) - 1 \in Int /\ DOMAIN ns = 0..(Size(ns) - 1)
    BY DEF Rooted
  <2> QED BY <2>1, FS_Interval
<1> QED BY <1>1, <1>2, <1>3, <1>4, FS_Subset, FS_CardinalityType

\* No two nodes are the same entry.
LEMMA IdOnce ==
  ASSUME NEW ns, Rooted(ns)
  PROVE  \A i, k \in DOMAIN ns : Id(ns, i) = Id(ns, k) => i = k
<1>1. ASSUME NEW i \in DOMAIN ns, NEW k \in DOMAIN ns, i < k PROVE Id(ns, i) # Id(ns, k)
  <2> SUFFICES ASSUME path_of(ns, i) = path_of(ns, k),
                      Cardinality(Earlier(ns, i)) = Cardinality(Earlier(ns, k))
               PROVE  FALSE
    BY DEF Id
  <2>1. i \in Nat /\ k \in Nat
    BY RootedFacts
  <2>2. Earlier(ns, i) \subseteq Earlier(ns, k)
    BY <1>1, <2>1 DEF Earlier
  <2>3. i \in Earlier(ns, k) /\ i \notin Earlier(ns, i)
    BY <1>1, <2>1 DEF Earlier
  <2>4. Earlier(ns, i) = Earlier(ns, k)
    BY <2>2, EarlierFacts, FS_Subset
  <2> QED BY <2>3, <2>4
<1> SUFFICES ASSUME NEW i \in DOMAIN ns, NEW k \in DOMAIN ns, Id(ns, i) = Id(ns, k) PROVE i = k
  OBVIOUS
<1>2. i \in Nat /\ k \in Nat
  BY RootedFacts
<1>3. i < k \/ k < i \/ i = k
  BY <1>2
<1> QED BY <1>1, <1>3

\* Changed counters and sharers leave the entries alone.
LEMMA SameEntries ==
  ASSUME NEW a, NEW b, Same(a, b)
  PROVE  /\ Entries(b).known = Entries(a).known /\ Entries(b).made = Entries(a).made
         /\ Entries(b).anc = Entries(a).anc /\ Entries(b).removed = Entries(a).removed
         /\ Entries(b).subvol = Entries(a).subvol
<1> DEFINE A == Entries(a)
           B == Entries(b)
           gone(ns) == {k \in DOMAIN ns : ns[k].removed}
           sub(ns) == {k \in DOMAIN ns : ns[k].subvol}
<1>1. Rooted(a) /\ Rooted(b) /\ DOMAIN b = DOMAIN a
  BY ArenaFacts DEF Same
<1>2. \A i \in DOMAIN a : Chain(b, i) = Chain(a, i) /\ path_of(b, i) = path_of(a, i)
  BY DEF Same
<1>3. gone(b) = gone(a) /\ sub(b) = sub(a)
  BY <1>1 DEF Same
<1>4. ASSUME NEW i \in DOMAIN a PROVE Id(b, i) = Id(a, i)
  <2>1. 0..(i - 1) \subseteq DOMAIN a
    BY <1>1, RootedFacts
  <2>2. Earlier(b, i) = Earlier(a, i)
    BY <1>2, <2>1 DEF Earlier
  <2> QED BY <1>2, <2>2 DEF Id
<1>5. Ids(b) = Ids(a)
  BY <1>1, <1>4 DEF Ids
<1>6. \A p : Having(b, p) = Having(a, p)
  BY <1>1, <1>2 DEF Having
<1>7. /\ A.known = Ids(a)
      /\ A.made = [p \in Path |-> Cardinality(Having(a, p))]
      /\ A.anc = [n \in Ids(a) |-> A.anc[n]]
      /\ \A i \in DOMAIN a : A.anc[Id(a, i)] = {Id(a, k) : k \in Chain(a, i) \ {i}}
      /\ A.removed = {Id(a, i) : i \in gone(a)}
      /\ A.subvol = {Id(a, i) : i \in sub(a)}
  BY <1>1, IdOnce, EntriesFacts
<1>8. /\ B.known = Ids(b)
      /\ B.made = [p \in Path |-> Cardinality(Having(b, p))]
      /\ B.anc = [n \in Ids(b) |-> B.anc[n]]
      /\ \A i \in DOMAIN b : B.anc[Id(b, i)] = {Id(b, k) : k \in Chain(b, i) \ {i}}
      /\ B.removed = {Id(b, i) : i \in gone(b)}
      /\ B.subvol = {Id(b, i) : i \in sub(b)}
  BY <1>1, IdOnce, EntriesFacts
<1> HIDE DEF A, B
<1>9. B.known = A.known /\ B.made = A.made
  BY <1>5, <1>6, <1>7, <1>8
<1>10. B.anc = A.anc
  <2>1. ASSUME NEW i \in DOMAIN a PROVE B.anc[Id(b, i)] = A.anc[Id(a, i)]
    <3>1. \A k \in Chain(a, i) : k \in DOMAIN a
      BY <1>1, ChainFacts
    <3>2. {Id(b, k) : k \in Chain(b, i) \ {i}} = {Id(a, k) : k \in Chain(a, i) \ {i}}
      BY <1>2, <1>4, <3>1
    <3> HIDE DEF gone, sub
    <3>3. B.anc[Id(b, i)] = {Id(b, k) : k \in Chain(b, i) \ {i}}
      BY <1>1, <1>8
    <3>4. A.anc[Id(a, i)] = {Id(a, k) : k \in Chain(a, i) \ {i}}
      BY <1>7
    <3> QED BY <3>2, <3>3, <3>4
  <2>2. \A n \in Ids(a) : B.anc[n] = A.anc[n]
    BY <1>4, <2>1 DEF Ids
  <2>3. B.anc = [n \in Ids(a) |-> B.anc[n]] /\ A.anc = [n \in Ids(a) |-> A.anc[n]]
    BY <1>5, <1>7, <1>8
  <2> QED BY <2>2, <2>3
<1>11. B.removed = A.removed
  <2>1. gone(a) \subseteq DOMAIN a
    OBVIOUS
  <2> HIDE DEF gone
  <2>2. {Id(b, i) : i \in gone(a)} = {Id(a, i) : i \in gone(a)}
    BY <1>4, <2>1
  <2> QED BY <1>3, <1>7, <1>8, <2>2
<1>12. B.subvol = A.subvol
  <2>1. sub(a) \subseteq DOMAIN a
    OBVIOUS
  <2> HIDE DEF sub
  <2>2. {Id(b, i) : i \in sub(a)} = {Id(a, i) : i \in sub(a)}
    BY <1>4, <2>1
  <2> QED BY <1>3, <1>7, <1>8, <2>2
<1> QED BY <1>9, <1>10, <1>11, <1>12 DEF A, B

-----------------------------------------------------------------------------
(* The entries of an arena that grows. *)

Above(P) == P \cup UNION {StrictPrefixes(p) : p \in P}
Bound(ns, p) == \E i \in Live(ns) : path_of(ns, i) = p
AtNode(ns, p) ==
  IF Bound(ns, p) THEN Id(ns, CHOOSE i \in Live(ns) : path_of(ns, i) = p)
  ELSE <<p, Cardinality(Having(ns, p))>>
NewPaths(ns, P) == {p \in Above(P) : ~Bound(ns, p)}

LEMMA GrownId ==
  ASSUME NEW a, NEW b, NEW M, Grows(a, b, M)
  PROVE  /\ \A i \in DOMAIN a : Id(b, i) = Id(a, i)
         /\ \A i \in DOMAIN b \ DOMAIN a :
              /\ ~Bound(a, path_of(b, i))
              /\ Id(b, i) = <<path_of(b, i), Cardinality(Having(a, path_of(b, i)))>>
         /\ \A i \in DOMAIN b : Id(b, i) \in Ids(a) <=> i \in DOMAIN a
         /\ \A i \in Live(b) : AtNode(a, path_of(b, i)) = Id(b, i)
<1>1. Rooted(a) /\ Rooted(b) /\ Arena(a) /\ Arena(b) /\ DOMAIN a \subseteq DOMAIN b
  BY ArenaFacts DEF Grows
<1>2. /\ \A i \in DOMAIN a : path_of(b, i) = path_of(a, i) /\ (i \in Live(b) <=> i \in Live(a))
      /\ Live(a) \subseteq Live(b) /\ Live(a) \subseteq DOMAIN a
  BY <1>1, GrowsFacts, LiveNat
<1>3. ASSUME NEW i \in DOMAIN a PROVE Id(b, i) = Id(a, i)
  <2>1. 0..(i - 1) \subseteq DOMAIN a
    BY <1>1, RootedFacts
  <2>2. Earlier(b, i) = Earlier(a, i)
    BY <1>2, <2>1 DEF Earlier
  <2> QED BY <1>2, <2>2 DEF Id
<1>4. ASSUME NEW i \in DOMAIN b \ DOMAIN a PROVE ~Bound(a, path_of(b, i))
  <2>1. i \in Live(b)
    BY DEF Grows
  <2>2. ASSUME NEW k \in Live(a), path_of(a, k) = path_of(b, i) PROVE FALSE
    <3>1. k \in Live(b) /\ path_of(b, k) = path_of(b, i) /\ k \in DOMAIN a
      BY <1>2, <2>2
    <3>2. k = i
      BY <1>1, <2>1, <3>1, OneLive
    <3> QED BY <3>1, <3>2
  <2> QED BY <2>2 DEF Bound
<1>5. ASSUME NEW i \in DOMAIN b \ DOMAIN a
      PROVE  Id(b, i) = <<path_of(b, i), Cardinality(Having(a, path_of(b, i)))>>
  <2>1. DOMAIN a \subseteq 0..(i - 1) /\ 0..(i - 1) \subseteq DOMAIN b /\ i \in Nat
    <3>1. i \in Nat /\ i >= Size(a) /\ Size(a) \in Nat /\ DOMAIN a = 0..(Size(a) - 1)
      BY <1>1, RootedFacts DEF Rooted
    <3> QED BY <1>1, <3>1, RootedFacts
  <2>2. ASSUME NEW k \in 0..(i - 1), path_of(b, k) = path_of(b, i) PROVE k \in DOMAIN a
    <3> SUFFICES ASSUME k \notin DOMAIN a PROVE FALSE
      OBVIOUS
    <3>1. k \in Live(b) /\ i \in Live(b)
      BY <2>1 DEF Grows
    <3>2. k = i
      BY <1>1, <2>2, <3>1, OneLive
    <3> QED BY <2>1, <3>2
  <2>3. Earlier(b, i) = Having(a, path_of(b, i))
    BY <1>2, <2>1, <2>2 DEF Earlier, Having
  <2> QED BY <2>3 DEF Id
<1>6. ASSUME NEW i \in DOMAIN b PROVE Id(b, i) \in Ids(a) <=> i \in DOMAIN a
  <2>1. i \in DOMAIN a => Id(b, i) \in Ids(a)
    BY <1>3 DEF Ids
  <2>2. ASSUME Id(b, i) \in Ids(a) PROVE i \in DOMAIN a
    <3>1. PICK k \in DOMAIN a : Id(b, i) = Id(a, k)
      BY <2>2 DEF Ids
    <3>2. Id(b, i) = Id(b, k) /\ k \in DOMAIN b
      BY <1>1, <1>3, <3>1
    <3>3. i = k
      BY <1>1, <3>2, IdOnce
    <3> QED BY <3>3
  <2> QED BY <2>1, <2>2
<1>7. ASSUME NEW i \in Live(b) PROVE AtNode(a, path_of(b, i)) = Id(b, i)
  <2> DEFINE p == path_of(b, i)
  <2>1. CASE Bound(a, p)
    <3> DEFINE k == CHOOSE j \in Live(a) : path_of(a, j) = p
    <3>1. k \in Live(a) /\ path_of(a, k) = p
      BY <2>1 DEF Bound
    <3>2. AtNode(a, p) = Id(a, k)
      BY <2>1 DEF AtNode
    <3> HIDE DEF k
    <3>3. k \in Live(b) /\ path_of(b, k) = p /\ k \in DOMAIN a
      BY <1>2, <3>1
    <3>4. k = i
      BY <1>1, <3>3, OneLive
    <3> QED BY <1>3, <3>2, <3>3, <3>4
  <2>2. CASE ~Bound(a, p)
    <3>1. AtNode(a, p) = <<p, Cardinality(Having(a, p))>>
      BY <2>2 DEF AtNode
    <3>2. i \notin DOMAIN a
      BY <1>2, <2>2 DEF Bound
    <3>3. i \in DOMAIN b \ DOMAIN a
      BY <1>1, <3>2, LiveNat
    <3> QED BY <1>5, <3>1, <3>3
  <2> QED BY <2>1, <2>2
<1> QED BY <1>3, <1>4, <1>5, <1>6, <1>7

\* b has the nodes that owners O and subvolume roots S ask for.
GrowsBy(a, b, M, O, S) ==
  /\ Grows(a, b, M) /\ M \subseteq Live(b) /\ {path_of(b, i) : i \in M} = S
  /\ \A i \in DOMAIN b \ DOMAIN a : path_of(b, i) \in Above(O \cup S)
  /\ \A p \in O \cup S : Bound(b, p)

Fresh(a, P) == {AtNode(a, p) : p \in NewPaths(a, P)}

\* What that makes of the entries.
Grown(a, b, O, S) ==
  /\ Ids(b) = Ids(a) \cup Fresh(a, O \cup S)
  /\ \A p : Cardinality(Having(b, p)) =
              Cardinality(Having(a, p)) + (IF p \in NewPaths(a, O \cup S) THEN 1 ELSE 0)
  /\ \A i \in DOMAIN b \ DOMAIN a : {Id(b, k) : k \in Chain(b, i) \ {i}}
                                      = {AtNode(a, q) : q \in StrictPrefixes(path_of(b, i))}
  /\ {Id(b, i) : i \in {k \in DOMAIN b : b[k].subvol}}
       = {Id(a, i) : i \in {k \in DOMAIN a : a[k].subvol}} \cup {AtNode(a, p) : p \in S}
  /\ {Id(b, i) : i \in {k \in DOMAIN b : b[k].removed}}
       = {Id(a, i) : i \in {k \in DOMAIN a : a[k].removed}}

LEMMA GrownEntries ==
  ASSUME NEW a, NEW b, NEW M, NEW O, NEW S, GrowsBy(a, b, M, O, S)
  PROVE  Grown(a, b, O, S)
<1> DEFINE new == NewPaths(a, O \cup S)
           fresh == {AtNode(a, p) : p \in new}
<1>0. /\ Grows(a, b, M) /\ M \subseteq Live(b) /\ {path_of(b, i) : i \in M} = S
      /\ \A i \in DOMAIN b \ DOMAIN a : path_of(b, i) \in Above(O \cup S)
      /\ \A p \in O \cup S : Bound(b, p)
  BY DEF GrowsBy
<1>1. /\ Rooted(a) /\ Rooted(b) /\ Arena(a) /\ Arena(b) /\ DOMAIN a \subseteq DOMAIN b /\ Named(b)
      /\ Live(b) \subseteq DOMAIN b
  BY <1>0, ArenaFacts, LiveNat DEF Grows
<1>2. /\ \A i \in DOMAIN a : path_of(b, i) = path_of(a, i) /\ (i \in Live(b) <=> i \in Live(a))
      /\ Live(a) \subseteq Live(b) /\ Live(a) \subseteq DOMAIN a
  BY <1>0, <1>1, GrowsFacts, LiveNat
<1>3. /\ \A i \in DOMAIN a : Id(b, i) = Id(a, i)
      /\ \A i \in DOMAIN b \ DOMAIN a : i \in Live(b) /\ ~Bound(a, path_of(b, i))
      /\ \A i \in Live(b) : AtNode(a, path_of(b, i)) = Id(b, i)
  <2>1. \A i \in DOMAIN b \ DOMAIN a : i \in Live(b)
    BY <1>0 DEF Grows
  <2> HIDE DEF new, fresh
  <2> QED BY <1>0, <2>1, GrownId
<1>4. \A p \in Above(O \cup S) : \E i \in Live(b) : path_of(b, i) = p
  <2>1. ASSUME NEW p \in O \cup S, NEW q \in StrictPrefixes(p) PROVE \E i \in Live(b) : path_of(b, i) = q
    <3>1. PICK i \in Live(b) : path_of(b, i) = p
      BY <1>0 DEF Bound
    <3>2. {path_of(b, j) : j \in Chain(b, i) \ {i}} = StrictPrefixes(p)
      BY <1>1, <3>1, ArenaHangs
    <3>3. PICK j \in Chain(b, i) : path_of(b, j) = q
      BY <3>2
    <3>4. j \in Live(b)
      BY <1>1, LiveFacts
    <3> QED BY <3>3, <3>4
  <2> QED BY <1>0, <2>1 DEF Above, Bound
<1>5. \A p \in new : \E i \in DOMAIN b \ DOMAIN a : path_of(b, i) = p /\ AtNode(a, p) = Id(b, i)
  <2> SUFFICES ASSUME NEW p \in new
               PROVE  \E i \in DOMAIN b \ DOMAIN a : path_of(b, i) = p /\ AtNode(a, p) = Id(b, i)
    OBVIOUS
  <2>1. p \in Above(O \cup S) /\ ~Bound(a, p)
    BY DEF NewPaths
  <2>2. PICK i \in Live(b) : path_of(b, i) = p
    BY <1>4, <2>1
  <2>3. i \notin DOMAIN a
    BY <1>2, <2>1, <2>2 DEF Bound
  <2> QED BY <1>1, <1>3, <2>2, <2>3
<1>6. \A i \in DOMAIN b \ DOMAIN a : path_of(b, i) \in new /\ AtNode(a, path_of(b, i)) = Id(b, i)
  BY <1>0, <1>3 DEF NewPaths
<1> HIDE DEF new
<1>7. Ids(b) = Ids(a) \cup fresh
  <2>1. ASSUME NEW i \in DOMAIN b PROVE Id(b, i) \in Ids(a) \cup fresh
    <3>1. CASE i \in DOMAIN a
      BY <1>3, <3>1 DEF Ids
    <3>2. CASE i \notin DOMAIN a
      BY <1>6, <3>2
    <3> QED BY <3>1, <3>2
  <2>2. Ids(a) \subseteq Ids(b)
    BY <1>1, <1>3 DEF Ids
  <2>3. fresh \subseteq Ids(b)
    BY <1>5 DEF Ids
  <2> QED BY <2>1, <2>2, <2>3 DEF Ids
<1>8. ASSUME NEW p
      PROVE  Cardinality(Having(b, p)) = Cardinality(Having(a, p)) + (IF p \in new THEN 1 ELSE 0)
  <2>1. IsFiniteSet(Having(a, p)) /\ Cardinality(Having(a, p)) \in Nat
    <3>1. Having(a, p) \subseteq DOMAIN a /\ 0 \in DOMAIN a
      BY <1>1, RootedFacts DEF Having
    <3>2. IsFiniteSet(DOMAIN a)
      BY <1>1, <3>1, EarlierFacts
    <3> QED BY <3>1, <3>2, FS_Subset, FS_CardinalityType
  <2>2. CASE p \in new
    <3>1. PICK i \in DOMAIN b \ DOMAIN a : path_of(b, i) = p
      BY <1>5, <2>2
    <3>2. ASSUME NEW k \in DOMAIN b, path_of(b, k) = p, k \notin DOMAIN a PROVE k = i
      <4>1. k \in Live(b) /\ i \in Live(b)
        BY <1>3, <3>2
      <4> QED BY <1>1, <3>1, <3>2, <4>1, OneLive
    <3>3. Having(b, p) = Having(a, p) \cup {i} /\ i \notin Having(a, p)
      BY <1>1, <1>2, <3>1, <3>2 DEF Having
    <3> QED BY <2>1, <2>2, <3>3, FS_AddElement
  <2>3. CASE p \notin new
    <3>1. \A i \in DOMAIN b \ DOMAIN a : path_of(b, i) # p
      BY <1>6, <2>3
    <3>2. Having(b, p) = Having(a, p)
      BY <1>1, <1>2, <3>1 DEF Having
    <3> QED BY <2>1, <2>3, <3>2
  <2> QED BY <2>2, <2>3
<1>9. ASSUME NEW i \in DOMAIN b \ DOMAIN a
      PROVE  {Id(b, k) : k \in Chain(b, i) \ {i}} = {AtNode(a, q) : q \in StrictPrefixes(path_of(b, i))}
  <2>1. {path_of(b, k) : k \in Chain(b, i) \ {i}} = StrictPrefixes(path_of(b, i))
    BY <1>1, ArenaHangs
  <2>2. \A k \in Chain(b, i) : AtNode(a, path_of(b, k)) = Id(b, k)
    <3>1. Chain(b, i) \subseteq Live(b)
      BY <1>1, <1>3, LiveFacts
    <3> QED BY <1>3, <3>1
  <2>3. {AtNode(a, q) : q \in {path_of(b, k) : k \in Chain(b, i) \ {i}}}
          = {Id(b, k) : k \in Chain(b, i) \ {i}}
    BY <2>2
  <2> QED BY <2>1, <2>3
<1>10. {Id(b, i) : i \in {k \in DOMAIN b : b[k].subvol}}
         = {Id(a, i) : i \in {k \in DOMAIN a : a[k].subvol}} \cup {AtNode(a, p) : p \in S}
  <2>1. {AtNode(a, p) : p \in S} = {Id(b, i) : i \in M}
    <3>1. \A i \in M : AtNode(a, path_of(b, i)) = Id(b, i)
      BY <1>0, <1>3
    <3> QED BY <1>0, <3>1
  <2>2. {k \in DOMAIN b : b[k].subvol} = M \cup {k \in DOMAIN a : a[k].subvol}
    BY <1>0, <1>1 DEF Grows
  <2>3. {Id(b, i) : i \in {k \in DOMAIN a : a[k].subvol}}
          = {Id(a, i) : i \in {k \in DOMAIN a : a[k].subvol}}
    BY <1>3
  <2> QED BY <2>1, <2>2, <2>3
<1>11. {Id(b, i) : i \in {k \in DOMAIN b : b[k].removed}}
         = {Id(a, i) : i \in {k \in DOMAIN a : a[k].removed}}
  <2>1. \A i \in DOMAIN b \ DOMAIN a : ~b[i].removed
    BY <1>1, <1>3, LiveFacts
  <2>2. {k \in DOMAIN b : b[k].removed} = {k \in DOMAIN a : a[k].removed}
    BY <1>0, <1>1, <2>1 DEF Grows
  <2> QED BY <1>3, <2>2
<1> QED BY <1>7, <1>8, <1>9, <1>10, <1>11 DEF Grown, Fresh, new

-----------------------------------------------------------------------------
(* The arena implements EntryTree. *)

\* What EntryTree reads of the entries is what the code reads of the arena.
LEMMA EntryReads ==
  ASSUME IInv
  PROVE  /\ \A i \in DOMAIN nodes : Entry!is_live(Id(nodes, i)) <=> i \in Live(nodes)
         /\ Entry!LiveNodes = {Id(nodes, i) : i \in Live(nodes)}
         /\ \A p : Entry!Bound(p) <=> Bound(nodes, p)
         /\ \A p \in Path : Entry!NodeAt(p) = AtNode(nodes, p)
<1> DEFINE a == nodes
           E == Entries(a)
           gone == {k \in DOMAIN a : a[k].removed}
<1>1. Rooted(a) /\ Arena(a) /\ entries = E /\ Live(a) \subseteq DOMAIN a
  BY ArenaFacts, LiveNat DEF IInv, Tracked
<1>2. /\ E.known = Ids(a)
      /\ E.made = [p \in Path |-> Cardinality(Having(a, p))]
      /\ \A i \in DOMAIN a : E.anc[Id(a, i)] = {Id(a, k) : k \in Chain(a, i) \ {i}}
      /\ E.removed = {Id(a, i) : i \in gone}
  BY <1>1, IdOnce, EntriesFacts
<1> HIDE DEF E
<1>3. \A i, k \in DOMAIN a : Id(a, i) = Id(a, k) => i = k
  BY <1>1, IdOnce
<1>4. ASSUME NEW i \in DOMAIN a PROVE Entry!is_live(Id(a, i)) <=> i \in Live(a)
  <2>1. i \in Chain(a, i) /\ Chain(a, i) \subseteq DOMAIN a
    BY <1>1, ChainFacts
  <2>2. E.anc[Id(a, i)] \cup {Id(a, i)} = {Id(a, k) : k \in Chain(a, i)}
    BY <1>2, <2>1
  <2>3. Entry!Chain(Id(a, i)) = {Id(a, k) : k \in Chain(a, i)}
    BY <1>1, <2>2 DEF Entry!Chain
  <2>4. {Id(a, k) : k \in Chain(a, i)} \cap {Id(a, k) : k \in gone} = {}
        <=> \A k \in Chain(a, i) : k \notin gone
    BY <1>3, <2>1
  <2>5. entries.removed = {Id(a, k) : k \in gone}
    BY <1>1, <1>2
  <2>6. (\A k \in Chain(a, i) : k \notin gone) <=> i \in Live(a)
    BY <2>1 DEF Live, is_live
  <2> HIDE DEF gone
  <2> QED BY <2>3, <2>4, <2>5, <2>6 DEF Entry!is_live
<1>5. Entry!LiveNodes = {Id(a, i) : i \in Live(a)}
  <2>1. Entry!LiveNodes = {n \in Ids(a) : Entry!is_live(n)}
    BY <1>1, <1>2 DEF Entry!LiveNodes
  <2> QED BY <1>1, <1>4, <2>1 DEF Ids
<1>6. \A i : Entry!path_of(Id(a, i)) = path_of(a, i)
  BY DEF Entry!path_of, Id
<1>7. \A p : Entry!Bound(p) <=> Bound(a, p)
  BY <1>5, <1>6 DEF Entry!Bound, Bound
<1>8. ASSUME NEW p \in Path PROVE Entry!NodeAt(p) = AtNode(a, p)
  <2>1. CASE Bound(a, p)
    <3>1. PICK i \in Live(a) : path_of(a, i) = p
      BY <2>1 DEF Bound
    <3>2. \A k \in Live(a) : path_of(a, k) = p => k = i
      BY <1>1, <3>1, OneLive
    <3>3. (CHOOSE k \in Live(a) : path_of(a, k) = p) = i
      BY <3>1, <3>2
    <3>4. (CHOOSE n \in Entry!LiveNodes : Entry!path_of(n) = p) = Id(a, i)
      BY <1>5, <1>6, <3>1, <3>2
    <3>5. AtNode(a, p) = Id(a, i)
      BY <2>1, <3>3 DEF AtNode
    <3>6. Entry!NodeAt(p) = Id(a, i)
      BY <1>7, <2>1, <3>4 DEF Entry!NodeAt
    <3> QED BY <3>5, <3>6
  <2>2. CASE ~Bound(a, p)
    <3>1. entries.made[p] = Cardinality(Having(a, p))
      BY <1>1, <1>2
    <3> QED BY <1>7, <2>2, <3>1 DEF Entry!NodeAt, AtNode
  <2> QED BY <2>1, <2>2
<1> QED BY <1>4, <1>5, <1>7, <1>8

LEMMA EntryInit ==
  ASSUME Init
  PROVE  Entry!TreeInit
<1> DEFINE E == Entries(New)
           root == <<<<>>, 0>>
<1>1. nodes = New /\ entries = E
  BY DEF Init
<1>2. /\ Arena(New) /\ Rooted(New) /\ DOMAIN New = {0} /\ path_of(New, 0) = <<>>
      /\ Chain(New, 0) = {0} /\ ~New[0].removed /\ ~New[0].subvol
  BY NewFacts, ArenaFacts
<1>3. Id(New, 0) = root
  <2>1. 0..(0 - 1) = {}
    OBVIOUS
  <2>2. Earlier(New, 0) = {}
    BY <2>1 DEF Earlier
  <2> QED BY <1>2, <2>2, FS_EmptySet DEF Id
<1>4. /\ E.known = Ids(New)
      /\ E.made = [p \in Path |-> Cardinality(Having(New, p))]
      /\ E.anc = [n \in Ids(New) |-> E.anc[n]]
      /\ \A i \in DOMAIN New : E.anc[Id(New, i)] = {Id(New, k) : k \in Chain(New, i) \ {i}}
      /\ E.removed = {Id(New, i) : i \in {k \in DOMAIN New : New[k].removed}}
      /\ E.subvol = {Id(New, i) : i \in {k \in DOMAIN New : New[k].subvol}}
  BY <1>2, IdOnce, EntriesFacts
<1> HIDE DEF E
<1>5. Ids(New) = {root}
  BY <1>2, <1>3 DEF Ids
<1>6. E.anc = [n \in {root} |-> {}]
  <2>1. E.anc[root] = {}
    BY <1>2, <1>3, <1>4
  <2> QED BY <1>4, <1>5, <2>1
<1>7. E.removed = {} /\ E.subvol = {}
  BY <1>2, <1>4
<1>8. E.made = [p \in Path |-> IF p = <<>> THEN 1 ELSE 0]
  <2>1. \A p : Having(New, p) = IF p = <<>> THEN {0} ELSE {}
    BY <1>2 DEF Having
  <2>2. Cardinality({0}) = 1 /\ Cardinality({}) = 0
    BY FS_Singleton, FS_EmptySet
  <2>3. \A p : Cardinality(Having(New, p)) = IF p = <<>> THEN 1 ELSE 0
    BY <2>1, <2>2
  <2> QED BY <1>4, <2>3
<1> QED BY <1>1, <1>4, <1>5, <1>6, <1>7, <1>8 DEF Entry!TreeInit, Entry!ROOT

LEMMA AbovePaths ==
  ASSUME NEW P, P \subseteq Path
  PROVE  Above(P) \subseteq Path /\ Entry!WithPrefixes(P) = Above(P)
<1>1. \A p \in Path : StrictPrefixes(p) \subseteq Path
  BY PathNames
<1>2. \A p \in Path : [q \in Path |-> {SubSeq(q, 1, k) : k \in 0..(Len(q) - 1)}][p] = StrictPrefixes(p)
  BY DEF StrictPrefixes
<1>3. Above(P) \subseteq Path
  BY <1>1 DEF Above
<1>4. Entry!WithPrefixes(P) = Above(P)
  <2>1. {[q \in Path |-> {SubSeq(q, 1, k) : k \in 0..(Len(q) - 1)}][p] : p \in P}
          = {StrictPrefixes(p) : p \in P}
    BY <1>2
  <2> QED BY <2>1 DEF Entry!WithPrefixes, Above
<1> QED BY <1>3, <1>4

\* An arena with room that grows by what O and S ask for is a step of EntryTree.
LEMMA EntryAdds ==
  ASSUME IInv, Roomy, NEW b, NEW M, NEW O \in SUBSET Path, NEW S \in SUBSET Path,
         GrowsBy(nodes, b, M, O, S),
         entries'.known = Entries(b).known, entries'.made = Entries(b).made,
         entries'.anc = Entries(b).anc, entries'.removed = Entries(b).removed,
         entries'.subvol = Entries(b).subvol
  PROVE  Entry!AddSample(O, S)
<1> DEFINE a == nodes
           P == O \cup S
           new == NewPaths(a, O \cup S)
           fresh == {AtNode(a, p) : p \in new}
           A == Entries(a)
           B == Entries(b)
           Up == [q \in Path |-> {SubSeq(q, 1, k) : k \in 0..(Len(q) - 1)}]
<1>0. Grows(a, b, M) /\ \A i \in DOMAIN b \ DOMAIN a : path_of(b, i) \in Above(P)
  BY DEF GrowsBy
<1>1. Rooted(a) /\ Rooted(b) /\ Arena(a) /\ entries = A /\ Live(a) \subseteq DOMAIN a
  BY <1>0, ArenaFacts, LiveNat DEF IInv, Tracked, Grows
<1>2. /\ A.known = Ids(a)
      /\ A.made = [p \in Path |-> Cardinality(Having(a, p))]
      /\ A.anc = [n \in Ids(a) |-> A.anc[n]]
      /\ \A i \in DOMAIN a : A.anc[Id(a, i)] = {Id(a, k) : k \in Chain(a, i) \ {i}}
      /\ A.removed = {Id(a, i) : i \in {k \in DOMAIN a : a[k].removed}}
      /\ A.subvol = {Id(a, i) : i \in {k \in DOMAIN a : a[k].subvol}}
  BY <1>1, IdOnce, EntriesFacts
<1>3. /\ B.known = Ids(b)
      /\ B.made = [p \in Path |-> Cardinality(Having(b, p))]
      /\ B.anc = [n \in Ids(b) |-> B.anc[n]]
      /\ \A i \in DOMAIN b : B.anc[Id(b, i)] = {Id(b, k) : k \in Chain(b, i) \ {i}}
      /\ B.removed = {Id(b, i) : i \in {k \in DOMAIN b : b[k].removed}}
      /\ B.subvol = {Id(b, i) : i \in {k \in DOMAIN b : b[k].subvol}}
  BY <1>1, IdOnce, EntriesFacts
<1>4. /\ Ids(b) = Ids(a) \cup fresh
      /\ \A p : Cardinality(Having(b, p)) =
                  Cardinality(Having(a, p)) + (IF p \in new THEN 1 ELSE 0)
      /\ \A i \in DOMAIN b \ DOMAIN a : {Id(b, k) : k \in Chain(b, i) \ {i}}
                                          = {AtNode(a, q) : q \in StrictPrefixes(path_of(b, i))}
      /\ {Id(b, i) : i \in {k \in DOMAIN b : b[k].subvol}}
           = {Id(a, i) : i \in {k \in DOMAIN a : a[k].subvol}} \cup {AtNode(a, p) : p \in S}
      /\ {Id(b, i) : i \in {k \in DOMAIN b : b[k].removed}}
           = {Id(a, i) : i \in {k \in DOMAIN a : a[k].removed}}
  <2>1. Grown(a, b, O, S)
    BY GrownEntries
  <2> HIDE DEF A, B, Up, P
  <2> QED BY <2>1 DEF Grown, Fresh
<1>5. P \subseteq Path /\ Above(P) \subseteq Path /\ Entry!WithPrefixes(P) = Above(P)
  BY AbovePaths
<1>6. /\ \A p : Entry!Bound(p) <=> Bound(a, p)
      /\ \A p \in Path : Entry!NodeAt(p) = AtNode(a, p)
  BY EntryReads
<1>7. {p \in Entry!WithPrefixes(P) : ~Entry!Bound(p)} = new
  BY <1>5, <1>6 DEF NewPaths
<1>8. new \subseteq Path
  BY <1>5 DEF NewPaths
<1>9. {Entry!NodeAt(p) : p \in new} = fresh
  BY <1>6, <1>8
<1> HIDE DEF new, A, B
<1>10. \A p \in new : Entry!HasRoom(p)
  <2> SUFFICES ASSUME NEW p \in new PROVE Entry!HasRoom(p)
    OBVIOUS
  <2>1. Having(a, p) \subseteq DOMAIN a /\ 0 \in DOMAIN a
    BY <1>1, RootedFacts DEF Having
  <2>2. IsFiniteSet(DOMAIN a) /\ Cardinality(DOMAIN a) \in Nat
    BY <1>1, <2>1, EarlierFacts
  <2>3. Cardinality(Having(a, p)) <= Cardinality(DOMAIN a) /\ Cardinality(Having(a, p)) \in Nat
    BY <2>1, <2>2, FS_Subset, FS_CardinalityType
  <2>4. Cardinality(DOMAIN a) < MaxNodes /\ MaxNodes \in 0..(MaxInc + 1) /\ MaxInc \in Nat
    BY BoundAssumption DEF Roomy
  <2>5. Cardinality(Having(a, p)) <= MaxInc
    BY <2>2, <2>3, <2>4
  <2>6. entries.made[p] = Cardinality(Having(a, p))
    BY <1>1, <1>2, <1>8
  <2> QED BY <2>5, <2>6 DEF Entry!HasRoom
<1>11. entries'.known = entries.known \cup fresh
  BY <1>1, <1>2, <1>3, <1>4 DEF B
<1>12. entries'.made = [p \in Path |-> IF p \in new THEN entries.made[p] + 1 ELSE entries.made[p]]
  <2>1. \A p \in Path : Cardinality(Having(b, p)) =
                          IF p \in new THEN A.made[p] + 1 ELSE A.made[p]
    <3> SUFFICES ASSUME NEW p \in Path
                 PROVE  Cardinality(Having(b, p)) = IF p \in new THEN A.made[p] + 1 ELSE A.made[p]
      OBVIOUS
    <3>1. Cardinality(Having(a, p)) \in Nat
      <4>1. Having(a, p) \subseteq DOMAIN a /\ 0 \in DOMAIN a
        BY <1>1, RootedFacts DEF Having
      <4>2. IsFiniteSet(DOMAIN a)
        BY <1>1, <4>1, EarlierFacts
      <4> QED BY <4>1, <4>2, FS_Subset, FS_CardinalityType
    <3>2. A.made[p] = Cardinality(Having(a, p))
      BY <1>2
    <3>3. Cardinality(Having(b, p)) = Cardinality(Having(a, p)) + (IF p \in new THEN 1 ELSE 0)
      BY <1>4
    <3> QED BY <3>1, <3>2, <3>3
  <2>2. B.made = [p \in Path |-> IF p \in new THEN A.made[p] + 1 ELSE A.made[p]]
    BY <1>3, <2>1
  <2>3. entries'.made = B.made /\ entries.made = A.made
    BY <1>1 DEF B
  <2> QED BY <2>2, <2>3
<1>13. entries'.anc = [n \in entries.known \cup fresh |->
                         IF n \in entries.known THEN entries.anc[n]
                         ELSE {Entry!NodeAt(q) : q \in Up[Entry!path_of(n)]}]
  <2> DEFINE f(n) == IF n \in entries.known THEN entries.anc[n]
                     ELSE {Entry!NodeAt(q) : q \in Up[Entry!path_of(n)]}
  <2>1. ASSUME NEW i \in DOMAIN b PROVE B.anc[Id(b, i)] = f(Id(b, i))
    <3>1. CASE i \in DOMAIN a
      <4>1. Id(b, i) = Id(a, i) /\ Id(a, i) \in Ids(a) /\ Chain(b, i) = Chain(a, i)
        BY <3>1, <1>0, GrownId, GrowsFacts DEF Ids
      <4>2. \A k \in Chain(a, i) : Id(b, k) = Id(a, k)
        BY <1>1, <3>1, ChainFacts, <1>0, GrownId
      <4>3. B.anc[Id(b, i)] = {Id(b, k) : k \in Chain(a, i) \ {i}}
        BY <1>3, <4>1
      <4>4. B.anc[Id(b, i)] = A.anc[Id(a, i)]
        <5>1. {Id(b, k) : k \in Chain(a, i) \ {i}} = {Id(a, k) : k \in Chain(a, i) \ {i}}
          BY <4>2
        <5>2. A.anc[Id(a, i)] = {Id(a, k) : k \in Chain(a, i) \ {i}}
          BY <1>2, <3>1
        <5> QED BY <4>3, <5>1, <5>2
      <4> QED BY <1>1, <1>2, <4>1, <4>4
    <3>2. CASE i \notin DOMAIN a
      <4>1. Id(b, i) \notin entries.known
        BY <1>1, <1>2, <3>2, <1>0, GrownId
      <4>2. Entry!path_of(Id(b, i)) = path_of(b, i)
        BY DEF Entry!path_of, Id
      <4>3. path_of(b, i) \in Path
        BY <1>0, <1>5, <3>2
      <4>4. Up[path_of(b, i)] = StrictPrefixes(path_of(b, i)) /\ StrictPrefixes(path_of(b, i)) \subseteq Path
        BY <4>3, PathNames DEF StrictPrefixes
      <4>5. {Entry!NodeAt(q) : q \in StrictPrefixes(path_of(b, i))}
              = {AtNode(a, q) : q \in StrictPrefixes(path_of(b, i))}
        BY <1>6, <4>4
      <4>6. f(Id(b, i)) = {AtNode(a, q) : q \in StrictPrefixes(path_of(b, i))}
        BY <4>1, <4>2, <4>4, <4>5
      <4>7. B.anc[Id(b, i)] = {Id(b, k) : k \in Chain(b, i) \ {i}}
        BY <1>3
      <4> QED BY <1>4, <3>2, <4>6, <4>7
    <3> QED BY <3>1, <3>2
  <2> HIDE DEF f
  <2>2. \A n \in Ids(b) : B.anc[n] = f(n)
    BY <2>1 DEF Ids
  <2>3. entries'.anc = B.anc /\ Ids(b) = entries.known \cup fresh
    BY <1>1, <1>2, <1>4 DEF B
  <2>4. B.anc = [n \in entries.known \cup fresh |-> f(n)]
    BY <1>3, <2>2, <2>3
  <2> QED BY <2>3, <2>4 DEF f
<1>14. entries'.subvol = entries.subvol \cup {Entry!NodeAt(p) : p \in S}
  <2>1. {Entry!NodeAt(p) : p \in S} = {AtNode(a, p) : p \in S}
    BY <1>6
  <2>2. entries'.subvol = B.subvol /\ entries.subvol = A.subvol
    BY <1>1 DEF B
  <2> QED BY <1>2, <1>3, <1>4, <2>1, <2>2
<1>15. entries'.removed = entries.removed
  BY <1>1, <1>2, <1>3, <1>4 DEF B
<1> HIDE DEF P, fresh, Up
<1>16. Entry!GetOrCreate(P)
  <2>1. {Entry!NodeAt(p) : p \in {p \in Entry!WithPrefixes(P) : ~Entry!Bound(p)}} = fresh
    BY <1>7, <1>9
  <2> QED BY <1>7, <1>10, <1>11, <1>12, <1>13, <2>1 DEF Entry!GetOrCreate, Up
<1>17. Entry!Touched(O, S) = P
  BY DEF Entry!Touched, P
<1> QED BY <1>14, <1>15, <1>16, <1>17 DEF Entry!AddSample

LEMMA WantedAbove ==
  ASSUME NEW paths \in Seq(Path)
  PROVE  Range(paths) \subseteq Path /\ Wanted(paths) = Above(Range(paths))
<1>1. Range(paths) = {paths[j] : j \in DOMAIN paths} /\ \A j \in DOMAIN paths : paths[j] \in Path
  BY DEF Range
<1>2. Wanted(paths) = Above(Range(paths))
  BY <1>1 DEF Wanted, Above
<1> QED BY <1>1, <1>2

\* Two arenas, the second grown and then perhaps counted, are a step of EntryTree.
LEMMA EntryGrows ==
  ASSUME IInv, Roomy, NEW b, NEW M, NEW O \in SUBSET Path, NEW S \in SUBSET Path,
         GrowsBy(nodes, b, M, O, S), Same(b, nodes'), entries' = Entries(nodes')
  PROVE  Entry!AddSample(O, S)
<1>1. /\ entries'.known = Entries(b).known /\ entries'.made = Entries(b).made
      /\ entries'.anc = Entries(b).anc /\ entries'.removed = Entries(b).removed
      /\ entries'.subvol = Entries(b).subvol
  BY SameEntries
<1> QED BY <1>1, EntryAdds

\* Removing a live entry takes nothing else from the entries.
LEMMA EntryRemoves ==
  ASSUME IInv, NEW id \in DOMAIN nodes, Removes(id), entries' = Entries(nodes')
  PROVE  Id(nodes, id) \in entries.known /\ Entry!Remove(Id(nodes, id))
<1> DEFINE a == nodes
           b == nodes'
           A == Entries(a)
           B == Entries(b)
           gone(ns) == {k \in DOMAIN ns : ns[k].removed}
           sub(ns) == {k \in DOMAIN ns : ns[k].subvol}
<1>1. /\ Arena(a) /\ Arena(b) /\ DOMAIN b = DOMAIN a /\ id \in Live(a) \ {0}
      /\ \A k \in DOMAIN a : /\ Chain(b, k) = Chain(a, k) /\ path_of(b, k) = path_of(a, k)
                             /\ b[k].subvol = a[k].subvol
                             /\ b[k].removed <=> a[k].removed \/ k = id
  BY DEF Removes, Removed
<1>2. Rooted(a) /\ Rooted(b) /\ entries = A /\ entries' = B
  BY <1>1, ArenaFacts DEF IInv, Tracked
<1>3. ASSUME NEW i \in DOMAIN a PROVE Id(b, i) = Id(a, i)
  <2>1. 0..(i - 1) \subseteq DOMAIN a
    BY <1>2, RootedFacts
  <2>2. Earlier(b, i) = Earlier(a, i)
    BY <1>1, <2>1 DEF Earlier
  <2> QED BY <1>1, <2>2 DEF Id
<1>4. Ids(b) = Ids(a) /\ \A p : Having(b, p) = Having(a, p)
  BY <1>1, <1>3 DEF Ids, Having
<1>5. sub(b) = sub(a) /\ gone(b) = gone(a) \cup {id}
  BY <1>1
<1>6. /\ A.known = Ids(a)
      /\ A.made = [p \in Path |-> Cardinality(Having(a, p))]
      /\ A.anc = [n \in Ids(a) |-> A.anc[n]]
      /\ \A i \in DOMAIN a : A.anc[Id(a, i)] = {Id(a, k) : k \in Chain(a, i) \ {i}}
      /\ A.removed = {Id(a, i) : i \in gone(a)}
      /\ A.subvol = {Id(a, i) : i \in sub(a)}
  BY <1>2, IdOnce, EntriesFacts
<1>7. /\ B.known = Ids(b)
      /\ B.made = [p \in Path |-> Cardinality(Having(b, p))]
      /\ B.anc = [n \in Ids(b) |-> B.anc[n]]
      /\ \A i \in DOMAIN b : B.anc[Id(b, i)] = {Id(b, k) : k \in Chain(b, i) \ {i}}
      /\ B.removed = {Id(b, i) : i \in gone(b)}
      /\ B.subvol = {Id(b, i) : i \in sub(b)}
  BY <1>2, IdOnce, EntriesFacts
<1>8. gone(a) \subseteq DOMAIN a /\ sub(a) \subseteq DOMAIN a
  OBVIOUS
<1> HIDE DEF A, B, gone, sub
<1>9. B.known = A.known /\ B.made = A.made
  BY <1>4, <1>6, <1>7
<1>10. B.anc = A.anc
  <2>1. ASSUME NEW i \in DOMAIN a PROVE B.anc[Id(a, i)] = A.anc[Id(a, i)]
    <3>1. \A k \in Chain(a, i) : k \in DOMAIN a
      BY <1>2, ChainFacts
    <3>2. {Id(b, k) : k \in Chain(b, i) \ {i}} = {Id(a, k) : k \in Chain(a, i) \ {i}}
      BY <1>1, <1>3, <3>1
    <3>3. B.anc[Id(b, i)] = {Id(b, k) : k \in Chain(b, i) \ {i}}
      BY <1>1, <1>7
    <3>4. A.anc[Id(a, i)] = {Id(a, k) : k \in Chain(a, i) \ {i}}
      BY <1>6
    <3> QED BY <1>3, <3>2, <3>3, <3>4
  <2>2. \A n \in Ids(a) : B.anc[n] = A.anc[n]
    BY <2>1 DEF Ids
  <2>3. B.anc = [n \in Ids(a) |-> B.anc[n]] /\ A.anc = [n \in Ids(a) |-> A.anc[n]]
    BY <1>4, <1>6, <1>7
  <2> QED BY <2>2, <2>3
<1>11. B.subvol = A.subvol
  BY <1>3, <1>5, <1>6, <1>7, <1>8
<1>12. B.removed = A.removed \cup {Id(a, id)}
  <2>1. {Id(b, i) : i \in gone(b)} = {Id(a, i) : i \in gone(a)} \cup {Id(a, id)}
    BY <1>3, <1>5, <1>8
  <2> QED BY <1>6, <1>7, <2>1
<1>13. Id(a, id) # Entry!ROOT /\ Entry!is_live(Id(a, id))
  <2>1. Entry!is_live(Id(a, id))
    BY <1>1, EntryReads
  <2>2. 0 \in DOMAIN a /\ Id(a, id) # Id(a, 0)
    BY <1>1, <1>2, RootedFacts, IdOnce
  <2>3. Id(a, 0) = <<<<>>, 0>>
    <3>1. path_of(a, 0) = <<>>
      BY <1>1, ArenaFacts, PathFacts
    <3>2. Earlier(a, 0) = {}
      <4>1. 0..(0 - 1) = {}
        OBVIOUS
      <4> QED BY <4>1 DEF Earlier
    <3> QED BY <3>1, <3>2, FS_EmptySet DEF Id
  <2> QED BY <2>1, <2>2, <2>3 DEF Entry!ROOT
<1>14. Id(a, id) \in entries.known
  BY <1>2, <1>6 DEF Ids
<1> HIDE DEF a, b
<1> QED BY <1>2, <1>9, <1>10, <1>11, <1>12, <1>13, <1>14 DEF Entry!Remove, a

LEMMA EntryStep ==
  ASSUME IInv, [Next]_vars
  PROVE  [Entry!TreeNext]_(Entry!tree)
<1>1. entries' = Entries(nodes')
  BY Steps
<1>2. ASSUME NEW s \in Sample, NEW ns, NEW M, NEW leaves, Adds(s, ns, M, leaves)
      PROVE  Entry!TreeNext
  <2> DEFINE O == Range(s.owners)
             S == Range(s.subvols)
  <2>1. s.owners \in Seq(Path) /\ s.subvols \in Seq(Path)
    BY SampleFacts
  <2>2. O \subseteq Path /\ S \subseteq Path /\ Wanted(s.owners) = Above(O) /\ Wanted(s.subvols) = Above(S)
    BY <2>1, WantedAbove
  <2>3. /\ Grows(nodes, ns, M) /\ M \subseteq Live(ns) /\ {path_of(ns, i) : i \in M} = S
        /\ \A i \in DOMAIN ns \ DOMAIN nodes : path_of(ns, i) \in Above(S) \cup Above(O)
        /\ \A j \in DOMAIN s.owners : leaves[j] \in Live(ns) /\ path_of(ns, leaves[j]) = s.owners[j]
        /\ Same(ns, nodes') /\ Roomy
    BY <1>2, <2>2 DEF Adds, Added
  <2>4. \A p \in O \cup S : Bound(ns, p)
    <3>1. \A p \in O : \E j \in DOMAIN s.owners : p = s.owners[j]
      BY DEF Range
    <3>2. \A p \in O : Bound(ns, p)
      BY <2>3, <3>1 DEF Bound
    <3>3. \A p \in S : Bound(ns, p)
      BY <2>3 DEF Bound
    <3> QED BY <3>2, <3>3
  <2> HIDE DEF O, S
  <2>5. Above(S) \cup Above(O) = Above(O \cup S)
    BY DEF Above
  <2>6. GrowsBy(nodes, ns, M, O, S)
    BY <2>3, <2>4, <2>5 DEF GrowsBy
  <2>7. Entry!AddSample(O, S)
    BY <1>1, <2>2, <2>3, <2>6, EntryGrows
  <2>8. <<O, S>> \in Batch
    BY BoundAssumption DEF O, S
  <2> QED BY <2>7, <2>8 DEF Entry!TreeNext
<1>3. ASSUME NEW l \in SubvolList, NEW M, Marks(l, M)
      PROVE  Entry!TreeNext
  <2> DEFINE S == Range(l)
  <2>1. l \in Seq(Path)
    BY SampleAssumption
  <2>2. S \subseteq Path /\ Wanted(l) = Above(S)
    BY <2>1, WantedAbove
  <2>3. /\ Grows(nodes, nodes', M) /\ M \subseteq Live(nodes') /\ {path_of(nodes', i) : i \in M} = S
        /\ \A i \in DOMAIN nodes' \ DOMAIN nodes : path_of(nodes', i) \in Above(S)
        /\ Roomy
    BY <1>3, <2>2 DEF Marks
  <2>4. \A p \in S : Bound(nodes', p)
    BY <2>3 DEF Bound
  <2> HIDE DEF S
  <2>5. {} \cup S = S /\ {} \in SUBSET Path
    OBVIOUS
  <2>6. GrowsBy(nodes, nodes', M, {}, S)
    BY <2>3, <2>4, <2>5 DEF GrowsBy
  <2>7. Same(nodes', nodes')
    BY <2>3 DEF Same, Grows
  <2>8. Entry!AddSample({}, S)
    BY <1>1, <2>2, <2>3, <2>5, <2>6, <2>7, EntryGrows
  <2>9. <<{}, S>> \in Batch
    BY BoundAssumption DEF S
  <2> QED BY <2>8, <2>9 DEF Entry!TreeNext
<1>4. ASSUME NEW id \in DOMAIN nodes, Removes(id)
      PROVE  Entry!TreeNext
  BY <1>1, <1>4, EntryRemoves DEF Entry!TreeNext
<1>5. ASSUME UNCHANGED <<nodes, total_samples, log>>
      PROVE  UNCHANGED Entry!tree
  <2>1. entries' = entries
    BY <1>1, <1>5 DEF IInv, Tracked
  <2> QED BY <2>1 DEF Entry!tree
<1> QED BY <1>2, <1>3, <1>4, <1>5, Steps

\* The arena implements the trie of entries that Session and Browse are built on: what
\* samples, marks and removals do to it, with all the nodes they create on the way, is
\* one step of EntryTree.
THEOREM Refinement == Spec => ImplementsEntryTree
<1>1. Init => Entry!TreeInit
  BY EntryInit
<1>2. IInv /\ [Next]_vars => [Entry!TreeNext]_(Entry!tree)
  BY EntryStep
<1> QED BY <1>1, <1>2, Invariance, PTL DEF Spec, ImplementsEntryTree, Entry!TreeSpec

-----------------------------------------------------------------------------
(* The sharers lists. *)

\* p is the path of another owner of a sample of node n.
Shares(ns, lg, n, p) ==
  \E e \in DOMAIN lg : \E i, k \in DOMAIN lg[e].leaves :
    i # k /\ lg[e].leaves[i] = n /\ path_of(ns, lg[e].leaves[k]) = p
SharersFrom == \A n \in DOMAIN nodes : \A j \in DOMAIN nodes[n].sharers :
                 Shares(nodes, log, n, nodes[n].sharers[j])

\* What was shared still is, while nodes keep their paths and the log grows.
LEMMA SharesKept ==
  ASSUME NEW a, NEW b, NEW la, NEW lb, NEW n \in DOMAIN a, NEW p, Shares(a, la, n, p),
         \A i \in DOMAIN a : path_of(b, i) = path_of(a, i),
         \A e \in DOMAIN la : e \in DOMAIN lb /\ lb[e] = la[e],
         \A e \in DOMAIN la : \A i \in DOMAIN la[e].leaves : la[e].leaves[i] \in DOMAIN a
  PROVE  Shares(b, lb, n, p)
<1>0. PICK e \in DOMAIN la : \E i, k \in DOMAIN la[e].leaves :
        i # k /\ la[e].leaves[i] = n /\ path_of(a, la[e].leaves[k]) = p
  BY DEF Shares
<1>1. PICK i \in DOMAIN la[e].leaves, k \in DOMAIN la[e].leaves :
        i # k /\ la[e].leaves[i] = n /\ path_of(a, la[e].leaves[k]) = p
  BY <1>0
<1>3. e \in DOMAIN lb /\ lb[e] = la[e] /\ path_of(b, la[e].leaves[k]) = p
  BY <1>1
<1> QED BY <1>1, <1>3 DEF Shares

LEMMA LogNext ==
  ASSUME LogOK, NEW r, log' = Append(log, r), r \in LogRec
  PROVE  /\ \A e \in DOMAIN log : e \in DOMAIN log' /\ log'[e] = log[e]
         /\ DOMAIN log = 1..Len(log) /\ Len(log) \in Nat
         /\ DOMAIN log' = 1..(Len(log) + 1) /\ log'[Len(log) + 1] = r
         /\ Len(log) + 1 \in DOMAIN log' /\ Len(log') = Len(log) + 1
<1>1. log \in Seq(LogRec)
  BY DEF LogOK
<1> QED BY <1>1

LEMMA SharersStep ==
  ASSUME IInv, SharersFrom, [Next]_vars
  PROVE  SharersFrom'
<1>1. /\ Arena(nodes) /\ LogOK
      /\ \A e \in DOMAIN log : \A i \in DOMAIN log[e].leaves : log[e].leaves[i] \in DOMAIN nodes
  BY DEF IInv, LogOK
<1>2. ASSUME NEW s \in Sample, NEW ns, NEW M, NEW leaves, Adds(s, ns, M, leaves)
      PROVE  SharersFrom'
  <2> DEFINE r == [leaves |-> leaves, ratio |-> s.ratio]
  <2>1. /\ Grows(nodes, ns, M) /\ Same(ns, nodes')
        /\ leaves \in Seq(Nat) /\ Len(leaves) = Len(s.owners)
        /\ \A j \in DOMAIN s.owners : leaves[j] \in Live(ns) /\ path_of(ns, leaves[j]) = s.owners[j]
        /\ \A k \in DOMAIN ns : \A j \in DOMAIN nodes'[k].sharers :
             \/ \E l \in DOMAIN ns[k].sharers : nodes'[k].sharers[j] = ns[k].sharers[l]
             \/ \E i \in DOMAIN leaves : \E x \in DOMAIN leaves \ {i} :
                  leaves[i] = k /\ nodes'[k].sharers[j] = s.owners[x]
        /\ log' = Append(log, r)
    BY <1>2 DEF Adds, Added
  <2>2. s.owners \in Seq(Path)
    BY SampleFacts
  <2>3. r \in LogRec /\ r.leaves = leaves
    BY <2>1, SampleFacts DEF LogRec
  <2> HIDE DEF r
  <2>4. /\ \A e \in DOMAIN log : e \in DOMAIN log' /\ log'[e] = log[e]
        /\ Len(log) + 1 \in DOMAIN log' /\ log'[Len(log) + 1] = r
    BY <1>1, <2>1, <2>3, LogNext
  <2>5. /\ DOMAIN nodes' = DOMAIN ns /\ DOMAIN nodes \subseteq DOMAIN ns
        /\ \A i \in DOMAIN ns : path_of(nodes', i) = path_of(ns, i)
        /\ \A i \in DOMAIN nodes : path_of(ns, i) = path_of(nodes, i)
        /\ \A i \in DOMAIN nodes : ns[i].sharers = nodes[i].sharers
        /\ \A i \in DOMAIN ns \ DOMAIN nodes : ns[i].sharers = <<>>
        /\ Live(ns) \subseteq DOMAIN ns
    <3>1. \A i \in DOMAIN nodes : path_of(ns, i) = path_of(nodes, i)
      BY <2>1, GrowsFacts
    <3>2. Live(ns) \subseteq DOMAIN ns
      BY DEF Live
    <3> QED BY <2>1, <3>1, <3>2 DEF Same, Grows
  <2>6. ASSUME NEW n \in DOMAIN ns, NEW j \in DOMAIN nodes'[n].sharers
        PROVE  Shares(nodes', log', n, nodes'[n].sharers[j])
    <3> DEFINE p == nodes'[n].sharers[j]
    <3>1. ASSUME NEW l \in DOMAIN ns[n].sharers, p = ns[n].sharers[l]
          PROVE  Shares(nodes', log', n, p)
      <4>1. n \in DOMAIN nodes
        BY <2>5, <3>1
      <4>2. Shares(nodes, log, n, p)
        BY <2>5, <3>1, <4>1 DEF SharersFrom
      <4>3. \A i \in DOMAIN nodes : path_of(nodes', i) = path_of(nodes, i)
        BY <2>5
      <4> HIDE DEF p
      <4> QED BY <1>1, <2>4, <4>1, <4>2, <4>3, SharesKept
    <3>2. ASSUME NEW i \in DOMAIN leaves, NEW x \in DOMAIN leaves \ {i},
                 leaves[i] = n, p = s.owners[x]
          PROVE  Shares(nodes', log', n, p)
      <4>1. DOMAIN leaves = DOMAIN s.owners
        BY <2>1, <2>2
      <4>2. path_of(ns, leaves[x]) = s.owners[x] /\ leaves[x] \in DOMAIN ns
        BY <2>1, <2>5, <3>2, <4>1
      <4>3. path_of(nodes', leaves[x]) = p
        BY <2>5, <3>2, <4>2
      <4> HIDE DEF p
      <4> QED BY <2>3, <2>4, <3>2, <4>3 DEF Shares
    <3> HIDE DEF p
    <3> QED BY <2>1, <3>1, <3>2 DEF p
  <2> QED BY <2>5, <2>6 DEF SharersFrom
<1>3. ASSUME NEW l \in SubvolList, NEW M, Marks(l, M)
      PROVE  SharersFrom'
  <2>1. Grows(nodes, nodes', M) /\ log' = log
    BY <1>3 DEF Marks
  <2>2. \A i \in DOMAIN nodes : path_of(nodes', i) = path_of(nodes, i)
    BY <2>1, GrowsFacts
  <2>3. ASSUME NEW n \in DOMAIN nodes', NEW j \in DOMAIN nodes'[n].sharers
        PROVE  Shares(nodes', log', n, nodes'[n].sharers[j])
    <3>1. n \in DOMAIN nodes /\ nodes'[n].sharers = nodes[n].sharers
      BY <2>1, <2>3 DEF Grows
    <3>2. Shares(nodes, log, n, nodes'[n].sharers[j])
      BY <2>3, <3>1 DEF SharersFrom
    <3> QED BY <1>1, <2>1, <2>2, <3>1, <3>2, SharesKept
  <2> QED BY <2>3 DEF SharersFrom
<1>4. ASSUME NEW id \in DOMAIN nodes, Removes(id)
      PROVE  SharersFrom'
  <2>1. /\ DOMAIN nodes' = DOMAIN nodes /\ log' = log
        /\ \A i \in DOMAIN nodes : /\ path_of(nodes', i) = path_of(nodes, i)
                                   /\ nodes'[i].sharers = nodes[i].sharers
    BY <1>4 DEF Removes, Removed
  <2>2. ASSUME NEW n \in DOMAIN nodes', NEW j \in DOMAIN nodes'[n].sharers
        PROVE  Shares(nodes', log', n, nodes'[n].sharers[j])
    <3>1. n \in DOMAIN nodes /\ Shares(nodes, log, n, nodes'[n].sharers[j])
      BY <2>1, <2>2 DEF SharersFrom
    <3> QED BY <1>1, <2>1, <3>1, SharesKept
  <2> QED BY <2>2 DEF SharersFrom
<1>5. ASSUME UNCHANGED <<nodes, total_samples, log>>
      PROVE  SharersFrom'
  BY <1>5 DEF SharersFrom
<1> QED BY <1>2, <1>3, <1>4, <1>5, Steps

\* Every sharer listed for an entry is another owner of a sample that the entry had, and
\* is listed once, whatever was evicted, removed or created again in between.
THEOREM SharersCorrect == Spec => []SharersSound
<1>1. Init => SharersFrom
  <2> SUFFICES ASSUME Init PROVE SharersFrom
    OBVIOUS
  <2>1. nodes = New
    BY DEF Init
  <2> QED BY <2>1, NewFacts DEF SharersFrom
<1>2. SharersFrom /\ IInv /\ [Next]_vars => SharersFrom'
  BY SharersStep
<1>3. ASSUME IInv, SharersFrom PROVE SharersSound
  <2> SUFFICES ASSUME NEW n \in DOMAIN nodes, NEW j \in DOMAIN nodes[n].sharers
               PROVE  LET p == nodes[n].sharers[j] IN
                      /\ \E e \in Samples : \E i, k \in DOMAIN log[e].leaves :
                           i # k /\ log[e].leaves[i] = n /\ path_of(nodes, log[e].leaves[k]) = p
                      /\ \A l \in DOMAIN nodes[n].sharers : nodes[n].sharers[l] = p => l = j
    BY DEF SharersSound
  <2>1. Shares(nodes, log, n, nodes[n].sharers[j])
    BY <1>3 DEF SharersFrom
  <2>2. \A l \in DOMAIN nodes[n].sharers : nodes[n].sharers[l] = nodes[n].sharers[j] => l = j
    BY <1>3 DEF IInv, ListsOK, Sharers
  <2> QED BY <2>1, <2>2 DEF Shares, Samples
<1> QED BY <1>1, <1>2, <1>3, Invariance, PTL DEF Spec

-----------------------------------------------------------------------------
(* Sums. *)

\* t[k] is the sum of the first k numbers of f.
Partial(f, t) == /\ t \in [0..Len(f) -> Nat] /\ t[0] = 0
                 /\ \A k \in 1..Len(f) : t[k] = t[k - 1] + f[k]

LEMMA TotalFacts ==
  ASSUME NEW f \in Seq(Nat)
  PROVE  \E t : Partial(f, t) /\ Total(f) = t[Len(f)]
<1> DEFINE n == Len(f)
           X == Nat \X Nat
           g == [y \in Nat \X Nat |-> y[1] + f[y[2]]]
<1>1. n \in Nat /\ \A k \in 1..n : f[k] \in Nat
  OBVIOUS
<1>2. <<0, 0>> \in X
  OBVIOUS
<1>3. ASSUME NEW k \in 1..n, NEW x, <<x, k - 1>> \in X
      PROVE  <<x + f[k], k>> \in X /\ g[<<x, k>>] = x + f[k] /\ x \in Nat
  <2>1. x \in Nat /\ f[k] \in Nat /\ k \in Nat
    BY <1>1, <1>3
  <2> QED BY <2>1
<1> HIDE DEF X, g
<1>4. PICK t : /\ IsLoop(n, 0, g, t)
               /\ t[0] = 0 /\ \A k \in 1..n : t[k] = g[<<t[k - 1], k>>]
               /\ \A k \in 0..n : <<t[k], k>> \in X
  <2> HIDE DEF n
  <2>1. \A k \in 1..n : \A x : <<x, k - 1>> \in X => <<g[<<x, k>>], k>> \in X
    BY <1>3
  <2> QED BY <1>1, <1>2, <2>1, Loop, ZenonT(60)
<1>5. ASSUME NEW k \in 1..n PROVE t[k] = t[k - 1] + f[k]
  <2>1. k - 1 \in 0..n
    BY <1>1
  <2>2. <<t[k - 1], k - 1>> \in X
    BY <1>4, <2>1
  <2> QED BY <1>3, <1>4, <2>2
<1>6. t = [k \in 0..n |-> t[k]] /\ \A k \in 0..n : t[k] \in Nat
  <2>1. t = [k \in 0..n |-> t[k]]
    BY <1>4 DEF IsLoop
  <2> QED BY <1>4, <2>1 DEF X
<1>7. \E u : u = [k \in 0..n |-> IF k = 0 THEN 0 ELSE u[k - 1] + f[k]]
  <2>1. \A k \in 0..n : t[k] = IF k = 0 THEN 0 ELSE t[k - 1] + f[k]
    BY <1>1, <1>4, <1>5
  <2> HIDE DEF n
  <2> QED BY <1>6, <2>1
<1> DEFINE upto == CHOOSE u : u = [k \in 0..n |-> IF k = 0 THEN 0 ELSE u[k - 1] + f[k]]
<1>8. upto = [k \in 0..n |-> IF k = 0 THEN 0 ELSE upto[k - 1] + f[k]]
  BY <1>7
<1>9. Total(f) = upto[n]
  BY DEF Total
<1> HIDE DEF upto
<1>10. upto[0] = 0 /\ \A k \in 1..n : upto[k] = upto[k - 1] + f[k]
  BY <1>1, <1>8
<1> DEFINE Y == {y \in Nat \X Nat : y[1] = t[y[2]]}
<1>11. \A k \in 0..n : <<upto[k], k>> \in Y
  <2>1. <<upto[0], 0>> \in Y
    BY <1>4, <1>10
  <2>2. ASSUME NEW k \in 1..n, <<upto[k - 1], k - 1>> \in Y PROVE <<upto[k], k>> \in Y
    <3>1. upto[k - 1] = t[k - 1] /\ k \in 0..n /\ k \in Nat
      BY <2>2, <1>1
    <3>2. upto[k] = t[k]
      BY <3>1, <1>5, <1>10
    <3> QED BY <1>6, <3>1, <3>2
  <2> HIDE DEF Y, n
  <2> QED BY <1>1, <2>1, <2>2, LoopInvariant
<1>12. Total(f) = t[n]
  <2>1. n \in 0..n
    BY <1>1
  <2> QED BY <1>9, <1>11, <2>1
<1>13. t \in [0..n -> Nat]
  BY <1>6
<1> QED BY <1>4, <1>5, <1>12, <1>13 DEF Partial

\* Sums add up number by number.
LEMMA TotalPlus ==
  ASSUME NEW f \in Seq(Nat), NEW g \in Seq(Nat), NEW h \in Seq(Nat),
         Len(g) = Len(f), Len(h) = Len(f), \A k \in 1..Len(f) : f[k] = g[k] + h[k]
  PROVE  Total(f) = Total(g) + Total(h) /\ Total(f) \in Nat /\ Total(g) \in Nat /\ Total(h) \in Nat
<1> DEFINE n == Len(f)
<1>1. PICK t : Partial(f, t) /\ Total(f) = t[n]
  BY TotalFacts
<1>2. PICK u : Partial(g, u) /\ Total(g) = u[n]
  BY TotalFacts
<1>3. PICK v : Partial(h, v) /\ Total(h) = v[n]
  BY TotalFacts
<1>4. n \in Nat /\ \A k \in 1..n : f[k] \in Nat /\ g[k] \in Nat /\ h[k] \in Nat
  OBVIOUS
<1>5. /\ t[0] = 0 /\ u[0] = 0 /\ v[0] = 0
      /\ \A k \in 0..n : t[k] \in Nat /\ u[k] \in Nat /\ v[k] \in Nat
      /\ \A k \in 1..n : t[k] = t[k - 1] + f[k] /\ u[k] = u[k - 1] + g[k] /\ v[k] = v[k - 1] + h[k]
  BY <1>1, <1>2, <1>3 DEF Partial
<1> DEFINE Y == {y \in Nat \X Nat : y[1] = u[y[2]] + v[y[2]]}
<1>6. <<t[0], 0>> \in Y
  BY <1>4, <1>5
<1>7. ASSUME NEW k \in 1..n, <<t[k - 1], k - 1>> \in Y PROVE <<t[k], k>> \in Y
  <2>1. t[k - 1] = u[k - 1] + v[k - 1] /\ k - 1 \in 0..n /\ k \in 0..n /\ k \in Nat
    BY <1>4, <1>7
  <2>2. /\ t[k] = t[k - 1] + f[k] /\ u[k] = u[k - 1] + g[k] /\ v[k] = v[k - 1] + h[k]
        /\ f[k] = g[k] + h[k] /\ f[k] \in Nat /\ g[k] \in Nat /\ h[k] \in Nat
        /\ u[k - 1] \in Nat /\ v[k - 1] \in Nat
    BY <1>4, <1>5, <2>1
  <2>3. t[k] = u[k] + v[k]
    <3> DEFINE a == u[k - 1]
               b == v[k - 1]
               x == g[k]
               y == h[k]
    <3>1. /\ a \in Nat /\ b \in Nat /\ x \in Nat /\ y \in Nat
          /\ t[k] = (a + b) + (x + y) /\ u[k] = a + x /\ v[k] = b + y
      BY <2>1, <2>2, Zenon
    <3> HIDE DEF a, b, x, y
    <3> QED BY <3>1
  <2> QED BY <1>5, <2>1, <2>3
<1> HIDE DEF Y
<1>8. n \in 0..n /\ <<t[n], n>> \in Y
  <2>1. n \in Nat /\ n \in 0..n
    BY <1>4
  <2> HIDE DEF n
  <2>2. \A k \in 0..n : <<t[k], k>> \in Y
    BY <1>6, <1>7, <2>1, LoopInvariant
  <2> QED BY <2>1, <2>2
<1> HIDE DEF n
<1> QED BY <1>1, <1>2, <1>3, <1>5, <1>8 DEF Y

\* A sum with one more number.
LEMMA TotalNext ==
  ASSUME NEW f \in Seq(Nat), NEW h \in Seq(Nat), Len(h) = Len(f) + 1,
         \A k \in 1..Len(f) : h[k] = f[k]
  PROVE  Total(h) = Total(f) + h[Len(h)] /\ Total(f) \in Nat
<1> DEFINE n == Len(f)
<1>1. PICK t : Partial(f, t) /\ Total(f) = t[n]
  BY TotalFacts
<1>2. PICK u : Partial(h, u) /\ Total(h) = u[n + 1]
  BY TotalFacts
<1>3. n \in Nat /\ \A k \in 1..n : f[k] \in Nat /\ h[k] = f[k]
  OBVIOUS
<1>4. /\ t[0] = 0 /\ u[0] = 0 /\ \A k \in 0..n : t[k] \in Nat
      /\ \A k \in 1..n : t[k] = t[k - 1] + f[k]
      /\ \A k \in 1..(n + 1) : u[k] = u[k - 1] + h[k]
  BY <1>1, <1>2 DEF Partial
<1> DEFINE Y == {y \in Nat \X Nat : y[1] = t[y[2]]}
<1>5. <<u[0], 0>> \in Y
  BY <1>3, <1>4
<1>6. ASSUME NEW k \in 1..n, <<u[k - 1], k - 1>> \in Y PROVE <<u[k], k>> \in Y
  <2>1. u[k - 1] = t[k - 1] /\ k \in 0..n /\ k \in Nat /\ k \in 1..(n + 1)
    BY <1>3, <1>6
  <2>2. u[k] = t[k]
    BY <1>3, <1>4, <2>1
  <2> QED BY <1>4, <2>1, <2>2
<1> HIDE DEF Y
<1>7. \A k \in 0..n : <<u[k], k>> \in Y
  <2> HIDE DEF n
  <2> QED BY <1>3, <1>5, <1>6, LoopInvariant
<1>8. u[n] = t[n] /\ n + 1 \in 1..(n + 1) /\ n + 1 - 1 = n /\ t[n] \in Nat
  <2>1. n \in 0..n /\ n + 1 \in 1..(n + 1) /\ n + 1 - 1 = n
    BY <1>3
  <2> HIDE DEF n
  <2> QED BY <1>4, <1>7, <2>1 DEF Y
<1> QED BY <1>1, <1>2, <1>4, <1>8

LEMMA TotalZero ==
  ASSUME NEW f \in Seq(Nat), \A k \in 1..Len(f) : f[k] = 0
  PROVE  Total(f) = 0
<1>1. \A k \in 1..Len(f) : f[k] = f[k] + f[k]
  OBVIOUS
<1>2. Total(f) = Total(f) + Total(f) /\ Total(f) \in Nat
  BY <1>1, TotalPlus
<1> QED BY <1>2

-----------------------------------------------------------------------------
(* What the counters count, in an arena ns with the log lg. *)

LeafIn(ns, lg, n, e, i) == lg[e].leaves[i] \in Live(ns) /\ n \in Chain(ns, lg[e].leaves[i])
Owned(ns, lg, n) == {e \in DOMAIN lg : LeafIn(ns, lg, n, e, 1)}
RatedIn(ns, lg, n) == {e \in Owned(ns, lg, n) : lg[e].ratio # NoRatio}
Hits(ns, lg, n, e) == {i \in DOMAIN lg[e].leaves : LeafIn(ns, lg, n, e, i)}
ShareSeq(ns, lg, n) ==
  [e \in DOMAIN lg |-> Cardinality(Hits(ns, lg, n, e)) * (Unit \div Len(lg[e].leaves))]
RatioSeq(ns, lg, n) == [e \in DOMAIN lg |-> IF e \in RatedIn(ns, lg, n) THEN lg[e].ratio ELSE 0]
Wholly(ns, lg, n, e) == \A i \in DOMAIN lg[e].leaves : n \in Chain(ns, lg[e].leaves[i])
Taken(ns, lg, n, e) ==
  \E r \in DOMAIN ns : ns[r].removed /\ n \in Chain(ns, r) /\ Wholly(ns, lg, r, e)
Inside(ns, lg, n) == {e \in DOMAIN lg : Wholly(ns, lg, n, e) /\ ~Taken(ns, lg, n, e)}

CountedAt(ns, lg, n) ==
  /\ ns[n].c.represented = Cardinality(Owned(ns, lg, n))
  /\ ns[n].c.distributed = Total(ShareSeq(ns, lg, n))
  /\ ns[n].c.comp_samples = Cardinality(RatedIn(ns, lg, n))
  /\ ns[n].c.uncompressed = Total(RatioSeq(ns, lg, n))
  /\ ns[n].c.exclusive = Cardinality(Inside(ns, lg, n))
Counted(ns, lg) == \A n \in Live(ns) : CountedAt(ns, lg, n)

LogIn(ns, lg) ==
  /\ lg \in Seq(LogRec)
  /\ \A e \in DOMAIN lg : /\ lg[e].leaves # <<>>
                          /\ \A i \in DOMAIN lg[e].leaves : lg[e].leaves[i] \in DOMAIN ns

LEMMA LogFacts ==
  ASSUME NEW ns, NEW lg, LogIn(ns, lg)
  PROVE  /\ Len(lg) \in Nat /\ DOMAIN lg = 1..Len(lg) /\ IsFiniteSet(DOMAIN lg)
         /\ \A e \in DOMAIN lg :
              /\ lg[e].leaves \in Seq(Nat) /\ lg[e].ratio \in Nat \cup {NoRatio}
              /\ Len(lg[e].leaves) \in Nat \ {0} /\ DOMAIN lg[e].leaves = 1..Len(lg[e].leaves)
              /\ IsFiniteSet(DOMAIN lg[e].leaves) /\ 1 \in DOMAIN lg[e].leaves
              /\ \A i \in DOMAIN lg[e].leaves : lg[e].leaves[i] \in DOMAIN ns
<1>1. lg \in Seq(LogRec)
  BY DEF LogIn
<1>2. \A m \in Nat : IsFiniteSet(1..m)
  <2> TAKE m \in Nat
  <2>1. 1 \in Int /\ m \in Int
    OBVIOUS
  <2> QED BY <2>1, FS_Interval
<1>3. ASSUME NEW e \in DOMAIN lg
      PROVE  lg[e].leaves \in Seq(Nat) /\ lg[e].ratio \in Nat \cup {NoRatio} /\ lg[e].leaves # <<>>
  <2>1. lg[e] \in LogRec
    BY <1>1
  <2> QED BY <2>1 DEF LogIn, LogRec
<1>4. ASSUME NEW e \in DOMAIN lg
      PROVE  /\ Len(lg[e].leaves) \in Nat \ {0} /\ DOMAIN lg[e].leaves = 1..Len(lg[e].leaves)
             /\ 1 \in DOMAIN lg[e].leaves
  BY <1>3
<1> QED BY <1>1, <1>2, <1>3, <1>4 DEF LogIn

LEMMA NumbersSeq ==
  ASSUME NEW m \in Nat, NEW f \in [1..m -> Nat]
  PROVE  f \in Seq(Nat) /\ Len(f) = m
OBVIOUS

\* What is counted can be.
LEMMA CountsFacts ==
  ASSUME NEW ns, NEW lg, LogIn(ns, lg), NEW n
  PROVE  /\ IsFiniteSet(Owned(ns, lg, n)) /\ IsFiniteSet(RatedIn(ns, lg, n))
         /\ IsFiniteSet(Inside(ns, lg, n))
         /\ \A e \in DOMAIN lg : IsFiniteSet(Hits(ns, lg, n, e)) /\ Cardinality(Hits(ns, lg, n, e)) \in Nat
                                 /\ Unit \div Len(lg[e].leaves) \in Nat
         /\ ShareSeq(ns, lg, n) \in Seq(Nat) /\ Len(ShareSeq(ns, lg, n)) = Len(lg)
         /\ RatioSeq(ns, lg, n) \in Seq(Nat) /\ Len(RatioSeq(ns, lg, n)) = Len(lg)
<1>1. /\ Len(lg) \in Nat /\ DOMAIN lg = 1..Len(lg) /\ IsFiniteSet(DOMAIN lg)
      /\ \A e \in DOMAIN lg : /\ lg[e].ratio \in Nat \cup {NoRatio} /\ Len(lg[e].leaves) \in Nat \ {0}
                              /\ IsFiniteSet(DOMAIN lg[e].leaves)
  BY LogFacts
<1>2. /\ IsFiniteSet(Owned(ns, lg, n)) /\ IsFiniteSet(RatedIn(ns, lg, n))
      /\ IsFiniteSet(Inside(ns, lg, n))
  <2>1. /\ Owned(ns, lg, n) \subseteq DOMAIN lg /\ RatedIn(ns, lg, n) \subseteq DOMAIN lg
        /\ Inside(ns, lg, n) \subseteq DOMAIN lg
    BY DEF Owned, RatedIn, Inside
  <2> QED BY <1>1, <2>1, FS_Subset
<1>3. ASSUME NEW e \in DOMAIN lg
      PROVE  /\ IsFiniteSet(Hits(ns, lg, n, e)) /\ Cardinality(Hits(ns, lg, n, e)) \in Nat
             /\ Unit \div Len(lg[e].leaves) \in Nat
             /\ Cardinality(Hits(ns, lg, n, e)) * (Unit \div Len(lg[e].leaves)) \in Nat
  <2>1. Hits(ns, lg, n, e) \subseteq DOMAIN lg[e].leaves
    BY DEF Hits
  <2>2. IsFiniteSet(Hits(ns, lg, n, e)) /\ Cardinality(Hits(ns, lg, n, e)) \in Nat
    BY <1>1, <2>1, FS_Subset, FS_CardinalityType
  <2> DEFINE m == Len(lg[e].leaves)
             c == Cardinality(Hits(ns, lg, n, e))
             u == Unit \div m
  <2>3. u \in Nat
    <3>1. m \in Nat \ {0} /\ Unit \in Nat
      BY <1>1, SampleAssumption
    <3> HIDE DEF m
    <3> QED BY <3>1
  <2> HIDE DEF c, u
  <2>4. c * u \in Nat
    <3>1. c \in Nat
      BY <2>2 DEF c
    <3> QED BY <2>3, <3>1
  <2> QED BY <2>2, <2>3, <2>4 DEF c, u
<1>4. ShareSeq(ns, lg, n) \in Seq(Nat) /\ Len(ShareSeq(ns, lg, n)) = Len(lg)
  <2> DEFINE f == ShareSeq(ns, lg, n)
  <2>1. DOMAIN f = 1..Len(lg) /\ \A e \in 1..Len(lg) : f[e] \in Nat
    BY <1>1, <1>3 DEF ShareSeq
  <2>2. f \in [1..Len(lg) -> Nat]
    BY <2>1 DEF ShareSeq
  <2> QED BY <1>1, <2>2, NumbersSeq
<1>5. RatioSeq(ns, lg, n) \in Seq(Nat) /\ Len(RatioSeq(ns, lg, n)) = Len(lg)
  <2> DEFINE f == RatioSeq(ns, lg, n)
  <2>1. DOMAIN f = 1..Len(lg) /\ \A e \in 1..Len(lg) : f[e] \in Nat
    BY <1>1 DEF RatioSeq, RatedIn
  <2>2. f \in [1..Len(lg) -> Nat]
    BY <2>1 DEF RatioSeq
  <2> QED BY <1>1, <2>2, NumbersSeq
<1> QED BY <1>2, <1>3, <1>4, <1>5

\* A node with the same counters counts the same where the same is below it.
LEMMA CountedSame ==
  ASSUME NEW a, NEW b, NEW lg, LogIn(a, lg), NEW n, CountedAt(a, lg, n), b[n].c = a[n].c,
         \A e \in DOMAIN lg : \A i \in DOMAIN lg[e].leaves : LeafIn(b, lg, n, e, i) <=> LeafIn(a, lg, n, e, i),
         Inside(b, lg, n) = Inside(a, lg, n)
  PROVE  CountedAt(b, lg, n)
<1>1. Owned(b, lg, n) = Owned(a, lg, n)
  BY LogFacts DEF Owned
<1>2. RatedIn(b, lg, n) = RatedIn(a, lg, n)
  BY <1>1 DEF RatedIn
<1>3. ShareSeq(b, lg, n) = ShareSeq(a, lg, n)
  <2>1. \A e \in DOMAIN lg : Hits(b, lg, n, e) = Hits(a, lg, n, e)
    BY DEF Hits
  <2> QED BY <2>1 DEF ShareSeq
<1>4. RatioSeq(b, lg, n) = RatioSeq(a, lg, n)
  BY <1>2 DEF RatioSeq
<1> QED BY <1>1, <1>2, <1>3, <1>4 DEF CountedAt

LEMMA GrownCounts ==
  ASSUME NEW a, NEW b, NEW M, NEW lg, Grows(a, b, M), LogIn(a, lg), Counted(a, lg)
  PROVE  Counted(b, lg) /\ LogIn(b, lg)
<1>1. /\ Arena(a) /\ Arena(b) /\ DOMAIN a \subseteq DOMAIN b
      /\ \A i \in DOMAIN a : b[i].c = a[i].c /\ b[i].removed = a[i].removed
      /\ \A i \in DOMAIN b \ DOMAIN a : i \in Live(b) /\ b[i].c = Zero
  BY DEF Grows
<1>2. /\ \A i \in DOMAIN a : Chain(b, i) = Chain(a, i)
      /\ \A i \in DOMAIN a : i \in Live(b) <=> i \in Live(a)
  BY GrowsFacts
<1>3. LogIn(b, lg)
  BY <1>1 DEF LogIn
<1>4. \A e \in DOMAIN lg : \A i \in DOMAIN lg[e].leaves : lg[e].leaves[i] \in DOMAIN a
  BY DEF LogIn
<1>5. \A n : \A e \in DOMAIN lg : Wholly(b, lg, n, e) <=> Wholly(a, lg, n, e)
  BY <1>2, <1>4 DEF Wholly
<1>6. \A r \in DOMAIN b : b[r].removed => r \in DOMAIN a
  BY <1>1, LiveFacts
<1>7. ASSUME NEW n \in Live(b), n \in DOMAIN a PROVE CountedAt(b, lg, n)
  <2>1. CountedAt(a, lg, n) /\ b[n].c = a[n].c
    BY <1>1, <1>2, <1>7 DEF Counted
  <2>2. \A e \in DOMAIN lg : Taken(b, lg, n, e) <=> Taken(a, lg, n, e)
    BY <1>1, <1>2, <1>5, <1>6 DEF Taken
  <2>3. Inside(b, lg, n) = Inside(a, lg, n)
    BY <1>5, <2>2 DEF Inside
  <2>4. \A e \in DOMAIN lg : \A i \in DOMAIN lg[e].leaves :
          LeafIn(b, lg, n, e, i) <=> LeafIn(a, lg, n, e, i)
    BY <1>2, <1>4 DEF LeafIn
  <2> QED BY <2>1, <2>3, <2>4, CountedSame
<1>8. ASSUME NEW n \in Live(b), n \notin DOMAIN a PROVE CountedAt(b, lg, n)
  <2>1. \A e \in DOMAIN lg : \A i \in DOMAIN lg[e].leaves : n \notin Chain(b, lg[e].leaves[i])
    BY <1>1, <1>2, <1>4, <1>8, ChainFacts, ArenaFacts
  <2>2. Owned(b, lg, n) = {} /\ RatedIn(b, lg, n) = {} /\ \A e \in DOMAIN lg : Hits(b, lg, n, e) = {}
    BY <1>3, <2>1, LogFacts DEF Owned, RatedIn, Hits, LeafIn
  <2>3. Inside(b, lg, n) = {}
    BY <1>3, <2>1, LogFacts DEF Inside, Wholly
  <2>4. Total(RatioSeq(b, lg, n)) = 0
    <3>1. \A e \in DOMAIN lg : RatioSeq(b, lg, n)[e] = 0
      BY <2>2 DEF RatioSeq
    <3> QED BY <1>3, <3>1, CountsFacts, LogFacts, TotalZero
  <2>5. Total(ShareSeq(b, lg, n)) = 0
    <3>1. \A e \in DOMAIN lg : ShareSeq(b, lg, n)[e] = 0
      <4> TAKE e \in DOMAIN lg
      <4>1. Unit \div Len(lg[e].leaves) \in Nat
        BY <1>3, CountsFacts
      <4>2. \A u \in Nat : 0 * u = 0
        OBVIOUS
      <4>3. ShareSeq(b, lg, n)[e] = 0 * (Unit \div Len(lg[e].leaves))
        BY <2>2, FS_EmptySet DEF ShareSeq
      <4> QED BY <4>1, <4>2, <4>3
    <3> QED BY <1>3, <3>1, CountsFacts, LogFacts, TotalZero
  <2>6. n \in DOMAIN b /\ b[n].c = Zero
    BY <1>1, <1>8 DEF Live
  <2> QED BY <2>2, <2>3, <2>4, <2>5, <2>6, FS_EmptySet DEF CountedAt, Zero
<1> QED BY <1>3, <1>7, <1>8 DEF Counted

LEMMA OneMore ==
  ASSUME NEW S, IsFiniteSet(S), NEW x, x \notin S, NEW P
  PROVE  Cardinality(S \cup (IF P THEN {x} ELSE {})) = Cardinality(S) + (IF P THEN 1 ELSE 0)
<1>1. Cardinality(S) \in Nat
  BY FS_CardinalityType
<1>2. CASE P
  <2>1. S \cup (IF P THEN {x} ELSE {}) = S \cup {x}
    BY <1>2
  <2>2. Cardinality(S \cup {x}) = Cardinality(S) + 1
    BY FS_AddElement
  <2> QED BY <1>2, <2>1, <2>2
<1>3. CASE ~P
  <2>1. S \cup (IF P THEN {x} ELSE {}) = S
    BY <1>3
  <2> QED BY <1>1, <1>3, <2>1
<1> QED BY <1>2, <1>3

\* What is left of a set without one of its parts.
LEMMA LessPart ==
  ASSUME NEW S, IsFiniteSet(S), NEW T, T \subseteq S
  PROVE  Cardinality(S \ T) = Minus(Cardinality(S), Cardinality(T))
<1>1. IsFiniteSet(T) /\ Cardinality(T) <= Cardinality(S) /\ Cardinality(S) \in Nat /\ Cardinality(T) \in Nat
  BY FS_Subset, FS_CardinalityType
<1>2. S \cap T = T
  OBVIOUS
<1>3. Cardinality(S \ T) = Cardinality(S) - Cardinality(T)
  BY <1>2, FS_Difference
<1> QED BY <1>1, <1>3 DEF Minus

\* One sample more, all of its leaves live.
LEMMA SampleCounts ==
  ASSUME NEW ns, NEW b, NEW lg, LogIn(ns, lg), Counted(ns, lg), Same(ns, b),
         \A k \in DOMAIN ns : ns[k].c \in Counts,
         NEW leaves \in Seq(Nat), leaves # <<>>, \A i \in DOMAIN leaves : leaves[i] \in Live(ns),
         NEW ratio \in Nat \cup {NoRatio},
         \A k \in DOMAIN ns : b[k].c = Credit(ns, k, leaves, ratio, ns[k].c)
  PROVE  /\ Counted(b, Append(lg, [leaves |-> leaves, ratio |-> ratio]))
         /\ LogIn(b, Append(lg, [leaves |-> leaves, ratio |-> ratio]))
<1> DEFINE r == [leaves |-> leaves, ratio |-> ratio]
           lg2 == Append(lg, r)
           new == Len(lg) + 1
<1>1. r \in LogRec /\ r.leaves = leaves /\ r.ratio = ratio
  BY DEF LogRec
<1> HIDE DEF r
<1>2. /\ lg \in Seq(LogRec) /\ lg2 \in Seq(LogRec) /\ Len(lg) \in Nat /\ DOMAIN lg = 1..Len(lg)
      /\ Len(lg2) = new /\ DOMAIN lg2 = 1..new /\ lg2[new] = r /\ \A e \in DOMAIN lg : lg2[e] = lg[e]
  BY <1>1 DEF LogIn
<1>3. new \notin DOMAIN lg /\ DOMAIN lg2 = DOMAIN lg \cup {new} /\ new \in Nat
  BY <1>2
<1> HIDE DEF lg2, new
<1>4. /\ Arena(ns) /\ DOMAIN b = DOMAIN ns /\ Live(b) = Live(ns) /\ Live(ns) \subseteq DOMAIN ns
      /\ \A i \in DOMAIN ns : Chain(b, i) = Chain(ns, i) /\ b[i].removed = ns[i].removed
  BY DEF Same, Live
<1>5. LogIn(b, lg2)
  BY <1>1, <1>2, <1>3, <1>4 DEF LogIn
<1>6. \A e \in DOMAIN lg : \A i \in DOMAIN lg[e].leaves : lg[e].leaves[i] \in DOMAIN ns
  BY DEF LogIn
<1>7. 1 \in DOMAIN leaves
  OBVIOUS
<1>8. ASSUME NEW n \in Live(ns) PROVE CountedAt(b, lg2, n)
  <2> DEFINE first == n \in Chain(ns, leaves[1])
             all == \A i \in DOMAIN leaves : n \in Chain(ns, leaves[i])
             H == {i \in DOMAIN leaves : n \in Chain(ns, leaves[i])}
             c == ns[n].c
             d == b[n].c
             u == Unit \div Len(leaves)
  <2>1. /\ d \in Counts /\ IsFiniteSet(H) /\ Cardinality(H) \in Nat
        /\ d.represented = c.represented + (IF first THEN 1 ELSE 0)
        /\ d.distributed = c.distributed + Cardinality(H) * u
        /\ d.comp_samples = c.comp_samples + (IF first /\ ratio # NoRatio THEN 1 ELSE 0)
        /\ d.uncompressed = c.uncompressed + (IF first /\ ratio # NoRatio THEN ratio ELSE 0)
        /\ d.exclusive = c.exclusive + (IF all THEN 1 ELSE 0)
    <3>1. n \in DOMAIN ns /\ c \in Counts /\ d = Credit(ns, n, leaves, ratio, c)
      BY <1>4
    <3>2. Credited(ns, n, leaves, ratio, c, d)
      <4> HIDE DEF c, d
      <4> QED BY <3>1, CreditFacts
    <3> HIDE DEF c, d
    <3> QED BY <3>2 DEF Credited
  <2>2. CountedAt(ns, lg, n)
    BY DEF Counted
  <2>3. \A i \in DOMAIN leaves : leaves[i] \in DOMAIN ns /\ Chain(b, leaves[i]) = Chain(ns, leaves[i])
    BY <1>4
  <2>4. \A i \in DOMAIN leaves : LeafIn(b, lg2, n, new, i) <=> n \in Chain(ns, leaves[i])
    BY <1>1, <1>2, <1>4, <2>3 DEF LeafIn
  <2>5. \A e \in DOMAIN lg : \A i \in DOMAIN lg[e].leaves :
          LeafIn(b, lg2, n, e, i) <=> LeafIn(ns, lg, n, e, i)
    BY <1>2, <1>4, <1>6 DEF LeafIn
  <2>6. \A e \in DOMAIN lg : 1 \in DOMAIN lg[e].leaves
    BY LogFacts
  <2> HIDE DEF c, d
  <2>7. Owned(b, lg2, n) = Owned(ns, lg, n) \cup (IF first THEN {new} ELSE {})
    BY <1>3, <1>7, <2>4, <2>5, <2>6 DEF Owned
  <2>8. RatedIn(b, lg2, n)
          = RatedIn(ns, lg, n) \cup (IF first /\ ratio # NoRatio THEN {new} ELSE {})
    <3>1. ASSUME NEW e PROVE e \in RatedIn(b, lg2, n) <=>
                               e \in RatedIn(ns, lg, n) \/ (e = new /\ first /\ ratio # NoRatio)
      <4>1. CASE e = new
        <5>1. e \notin RatedIn(ns, lg, n) /\ lg2[e].ratio = ratio
          BY <1>1, <1>2, <1>3, <4>1 DEF RatedIn, Owned
        <5>2. e \in Owned(b, lg2, n) <=> first
          BY <1>3, <2>7, <4>1 DEF Owned
        <5> QED BY <4>1, <5>1, <5>2 DEF RatedIn
      <4>2. CASE e # new
        <5>1. e \in Owned(b, lg2, n) <=> e \in Owned(ns, lg, n)
          BY <2>7, <4>2
        <5>2. e \in Owned(ns, lg, n) => lg2[e].ratio = lg[e].ratio
          BY <1>2 DEF Owned
        <5> QED BY <4>2, <5>1, <5>2 DEF RatedIn
      <4> QED BY <4>1, <4>2
    <3> QED BY <3>1
  <2>9. /\ \A e \in DOMAIN lg : Hits(b, lg2, n, e) = Hits(ns, lg, n, e)
        /\ Hits(b, lg2, n, new) = H
    BY <1>1, <1>2, <2>4, <2>5 DEF Hits
  <2>10. /\ \A e \in DOMAIN lg : ShareSeq(b, lg2, n)[e] = ShareSeq(ns, lg, n)[e]
         /\ ShareSeq(b, lg2, n)[new] = Cardinality(H) * u
    BY <1>1, <1>2, <1>3, <2>9 DEF ShareSeq
  <2>11. /\ \A e \in DOMAIN lg : RatioSeq(b, lg2, n)[e] = RatioSeq(ns, lg, n)[e]
         /\ RatioSeq(b, lg2, n)[new] = IF first /\ ratio # NoRatio THEN ratio ELSE 0
    <3>1. \A e \in DOMAIN lg : e \in RatedIn(b, lg2, n) <=> e \in RatedIn(ns, lg, n)
      BY <1>3, <2>8
    <3>2. new \in RatedIn(b, lg2, n) <=> first /\ ratio # NoRatio
      BY <1>3, <2>8 DEF RatedIn, Owned
    <3> QED BY <1>1, <1>2, <1>3, <3>1, <3>2 DEF RatioSeq
  <2>12. \A m : \A e \in DOMAIN lg : Wholly(b, lg2, m, e) <=> Wholly(ns, lg, m, e)
    BY <1>2, <1>4, <1>6 DEF Wholly
  <2>13. \A m : Wholly(b, lg2, m, new) <=> \A i \in DOMAIN leaves : m \in Chain(ns, leaves[i])
    BY <1>1, <1>2, <2>3 DEF Wholly
  <2>14. ~Taken(b, lg2, n, new)
    <3>1. \A k \in Chain(ns, leaves[1]) : ~ns[k].removed
      <4>1. leaves[1] \in Live(ns)
        BY <1>7
      <4> QED BY <4>1 DEF Live, is_live
    <3> QED BY <1>4, <1>7, <2>13, <3>1 DEF Taken
  <2>15. \A e \in DOMAIN lg : Taken(b, lg2, n, e) <=> Taken(ns, lg, n, e)
    BY <1>4, <2>12 DEF Taken
  <2>16. Inside(b, lg2, n) = Inside(ns, lg, n) \cup (IF all THEN {new} ELSE {})
    BY <1>3, <2>12, <2>13, <2>14, <2>15 DEF Inside
  <2>17. /\ new \notin Owned(ns, lg, n) /\ new \notin RatedIn(ns, lg, n) /\ new \notin Inside(ns, lg, n)
         /\ IsFiniteSet(Owned(ns, lg, n)) /\ IsFiniteSet(RatedIn(ns, lg, n))
         /\ IsFiniteSet(Inside(ns, lg, n))
    BY <1>3, CountsFacts DEF Owned, RatedIn, Inside
  <2> HIDE DEF first, all, H, u
  <2>18. Cardinality(Owned(b, lg2, n)) = d.represented
    BY <2>1, <2>2, <2>7, <2>17, OneMore DEF CountedAt, c
  <2>19. Cardinality(RatedIn(b, lg2, n)) = d.comp_samples
    <3> DEFINE rated == first /\ ratio # NoRatio
    <3> HIDE DEF rated
    <3>1. RatedIn(b, lg2, n) = RatedIn(ns, lg, n) \cup (IF rated THEN {new} ELSE {})
      BY <2>8 DEF rated
    <3>2. d.comp_samples = Cardinality(RatedIn(ns, lg, n)) + (IF rated THEN 1 ELSE 0)
      BY <2>1, <2>2 DEF CountedAt, c, rated
    <3> QED BY <2>17, <3>1, <3>2, OneMore
  <2>20. Cardinality(Inside(b, lg2, n)) = d.exclusive
    BY <2>1, <2>2, <2>16, <2>17, OneMore DEF CountedAt, c
  <2>21. Total(ShareSeq(b, lg2, n)) = d.distributed
    <3>1. /\ ShareSeq(ns, lg, n) \in Seq(Nat) /\ Len(ShareSeq(ns, lg, n)) = Len(lg)
          /\ ShareSeq(b, lg2, n) \in Seq(Nat) /\ Len(ShareSeq(b, lg2, n)) = new
      BY <1>2, <1>5, CountsFacts
    <3>2. Total(ShareSeq(b, lg2, n)) = Total(ShareSeq(ns, lg, n)) + ShareSeq(b, lg2, n)[new]
      BY <1>2, <2>10, <3>1, TotalNext DEF new
    <3> QED BY <2>1, <2>2, <2>10, <3>2 DEF CountedAt, c
  <2>22. Total(RatioSeq(b, lg2, n)) = d.uncompressed
    <3>1. /\ RatioSeq(ns, lg, n) \in Seq(Nat) /\ Len(RatioSeq(ns, lg, n)) = Len(lg)
          /\ RatioSeq(b, lg2, n) \in Seq(Nat) /\ Len(RatioSeq(b, lg2, n)) = new
      BY <1>2, <1>5, CountsFacts
    <3>2. Total(RatioSeq(b, lg2, n)) = Total(RatioSeq(ns, lg, n)) + RatioSeq(b, lg2, n)[new]
      BY <1>2, <2>11, <3>1, TotalNext DEF new
    <3> QED BY <2>1, <2>2, <2>11, <3>2 DEF CountedAt, c
  <2> QED BY <2>18, <2>19, <2>20, <2>21, <2>22 DEF CountedAt, d
<1>9. Counted(b, lg2)
  BY <1>4, <1>8 DEF Counted
<1> QED BY <1>5, <1>9 DEF lg2, r

\* A removal: what the removed node counted is what its ancestors no longer do, and it
\* was all counted there.
LEMMA RemovedCounts ==
  ASSUME NEW a, NEW b, NEW lg, NEW id, LogIn(a, lg), Counted(a, lg), Removed(a, b, id)
  PROVE  Counted(b, lg) /\ LogIn(b, lg)
<1>1. /\ Arena(a) /\ Rooted(a) /\ DOMAIN b = DOMAIN a /\ id \in Live(a) /\ id \in DOMAIN a
      /\ \A k \in DOMAIN a :
           /\ Chain(b, k) = Chain(a, k)
           /\ b[k].removed <=> a[k].removed \/ k = id
           /\ b[k].c = IF k \in Chain(a, id) \ {id} THEN subtract(a[k].c, a[id].c) ELSE a[k].c
      /\ Live(b) = {k \in Live(a) : id \notin Chain(a, k)}
      /\ Live(a) \subseteq DOMAIN a
  BY ArenaFacts DEF Removed, Live
<1>2. LogIn(b, lg)
  BY <1>1 DEF LogIn
<1>3. \A e \in DOMAIN lg : \A i \in DOMAIN lg[e].leaves : lg[e].leaves[i] \in DOMAIN a
  BY DEF LogIn
<1>4. \A n : \A e \in DOMAIN lg : Wholly(b, lg, n, e) <=> Wholly(a, lg, n, e)
  BY <1>1, <1>3 DEF Wholly
<1>5. CountedAt(a, lg, id)
  BY <1>1 DEF Counted
<1>6. ASSUME NEW n \in Live(b), n \notin Chain(a, id) PROVE CountedAt(b, lg, n)
  <2>1. n \in Live(a) /\ n \in DOMAIN a /\ id \notin Chain(a, n) /\ b[n].c = a[n].c
    BY <1>1, <1>6
  <2>2. CountedAt(a, lg, n)
    BY <2>1 DEF Counted
  <2>3. \A e \in DOMAIN lg : \A i \in DOMAIN lg[e].leaves :
          LeafIn(b, lg, n, e, i) <=> LeafIn(a, lg, n, e, i)
    <3>1. \A k \in DOMAIN a : n \in Chain(a, k) => id \notin Chain(a, k)
      BY <1>1, <1>6, <2>1, ChainComparable
    <3> QED BY <1>1, <1>3, <3>1 DEF LeafIn
  <2>4. \A e \in DOMAIN lg : Taken(b, lg, n, e) <=> Taken(a, lg, n, e)
    BY <1>1, <1>4, <1>6 DEF Taken
  <2>5. Inside(b, lg, n) = Inside(a, lg, n)
    BY <1>4, <2>4 DEF Inside
  <2> QED BY <2>1, <2>2, <2>3, <2>5, CountedSame
<1>7. ASSUME NEW n \in Live(b), n \in Chain(a, id) PROVE CountedAt(b, lg, n)
  <2> DEFINE c == a[n].c
             o == a[id].c
             d == b[n].c
  <2>1. /\ n \in Live(a) /\ n \in DOMAIN a /\ n # id /\ d = subtract(c, o)
        /\ c \in Counts /\ o \in Counts
    <3>1. n \in Live(a) /\ n \in DOMAIN a /\ n # id
      BY <1>1, <1>7, ChainFacts
    <3> QED BY <1>1, <1>7, <3>1, ArenaFacts DEF NodeRec
  <2>2. CountedAt(a, lg, n)
    BY <2>1 DEF Counted
  <2>3. \A k \in DOMAIN a : id \in Chain(a, k) => n \in Chain(a, k)
    BY <1>1, <1>7, ChainTransitive
  <2>4. \A e \in DOMAIN lg : \A i \in DOMAIN lg[e].leaves :
          /\ LeafIn(b, lg, n, e, i) <=> LeafIn(a, lg, n, e, i) /\ ~LeafIn(a, lg, id, e, i)
          /\ LeafIn(a, lg, id, e, i) => LeafIn(a, lg, n, e, i)
    BY <1>1, <1>3, <2>3 DEF LeafIn
  <2>5. /\ Owned(b, lg, n) = Owned(a, lg, n) \ Owned(a, lg, id)
        /\ Owned(a, lg, id) \subseteq Owned(a, lg, n)
    BY <2>4, LogFacts DEF Owned
  <2>6. /\ RatedIn(b, lg, n) = RatedIn(a, lg, n) \ RatedIn(a, lg, id)
        /\ RatedIn(a, lg, id) \subseteq RatedIn(a, lg, n)
    BY <2>5 DEF RatedIn
  <2>7. \A e \in DOMAIN lg : /\ Hits(b, lg, n, e) = Hits(a, lg, n, e) \ Hits(a, lg, id, e)
                             /\ Hits(a, lg, id, e) \subseteq Hits(a, lg, n, e)
    BY <2>4 DEF Hits
  <2>8. \A k \in Chain(a, id) : ~a[k].removed
    BY <1>1 DEF Live, is_live
  <2>9. ASSUME NEW e \in DOMAIN lg
        PROVE  /\ e \in Inside(b, lg, n) <=> e \in Inside(a, lg, n) /\ e \notin Inside(a, lg, id)
               /\ e \in Inside(a, lg, id) => e \in Inside(a, lg, n)
    <3>1. 1 \in DOMAIN lg[e].leaves /\ lg[e].leaves[1] \in DOMAIN a
      BY LogFacts
    <3>2. Wholly(a, lg, id, e) => Wholly(a, lg, n, e)
      BY <1>3, <2>3 DEF Wholly
    <3>3. Taken(a, lg, id, e) => Taken(a, lg, n, e)
      BY <2>3 DEF Taken
    <3>4. ASSUME Wholly(a, lg, id, e), Taken(a, lg, n, e) PROVE Taken(a, lg, id, e)
      <4>1. PICK r \in DOMAIN a : a[r].removed /\ n \in Chain(a, r) /\ Wholly(a, lg, r, e)
        BY <3>4 DEF Taken
      <4>2. r \in Chain(a, lg[e].leaves[1]) /\ id \in Chain(a, lg[e].leaves[1])
        BY <3>1, <3>4, <4>1 DEF Wholly
      <4>3. r \in Chain(a, id) \/ id \in Chain(a, r)
        BY <1>1, <3>1, <4>2, ChainComparable
      <4> QED BY <2>8, <4>1, <4>3 DEF Taken
    <3>5. Taken(b, lg, n, e) <=> Taken(a, lg, n, e) \/ Wholly(a, lg, id, e)
      BY <1>1, <1>4, <1>7 DEF Taken
    <3>6. Wholly(b, lg, n, e) <=> Wholly(a, lg, n, e)
      BY <1>4
    <3> QED BY <3>2, <3>3, <3>4, <3>5, <3>6 DEF Inside
  <2>10. /\ Inside(b, lg, n) = Inside(a, lg, n) \ Inside(a, lg, id)
         /\ Inside(a, lg, id) \subseteq Inside(a, lg, n)
    <3>1. \A x, m : Inside(x, lg, m) \subseteq DOMAIN lg
      BY DEF Inside
    <3> QED BY <2>9, <3>1
  <2>11. /\ d.represented = Minus(c.represented, o.represented)
         /\ d.distributed = Minus(c.distributed, o.distributed)
         /\ d.comp_samples = Minus(c.comp_samples, o.comp_samples)
         /\ d.uncompressed = Minus(c.uncompressed, o.uncompressed)
         /\ d.exclusive = Minus(c.exclusive, o.exclusive)
    <3> HIDE DEF c, d, o
    <3> QED BY <2>1, SubtractFacts
  <2>12. \A m : /\ IsFiniteSet(Owned(a, lg, m)) /\ IsFiniteSet(RatedIn(a, lg, m))
                /\ IsFiniteSet(Inside(a, lg, m))
    BY CountsFacts
  <2>13. d.represented = Cardinality(Owned(b, lg, n))
    BY <1>5, <2>2, <2>5, <2>11, <2>12, LessPart DEF CountedAt
  <2>14. d.comp_samples = Cardinality(RatedIn(b, lg, n))
    BY <1>5, <2>2, <2>6, <2>11, <2>12, LessPart DEF CountedAt
  <2>15. d.exclusive = Cardinality(Inside(b, lg, n))
    BY <1>5, <2>2, <2>10, <2>11, <2>12, LessPart DEF CountedAt
  <2>16. ASSUME NEW f \in Seq(Nat), NEW g \in Seq(Nat), NEW h \in Seq(Nat),
                Len(f) = Len(lg), Len(g) = Len(lg), Len(h) = Len(lg),
                \A e \in DOMAIN lg : f[e] = g[e] + h[e]
         PROVE  Total(g) = Minus(Total(f), Total(h))
    <3>1. \A e \in 1..Len(f) : f[e] = g[e] + h[e]
      BY <2>16, LogFacts
    <3>2. /\ Total(f) = Total(g) + Total(h) /\ Total(f) \in Nat /\ Total(g) \in Nat /\ Total(h) \in Nat
      BY <2>16, <3>1, TotalPlus
    <3> QED BY <3>2 DEF Minus
  <2>17. d.distributed = Total(ShareSeq(b, lg, n))
    <3> DEFINE f == ShareSeq(a, lg, n)
               g == ShareSeq(b, lg, n)
               h == ShareSeq(a, lg, id)
    <3>1. ASSUME NEW e \in DOMAIN lg PROVE f[e] = g[e] + h[e]
      <4> DEFINE x == Cardinality(Hits(a, lg, n, e))
                 y == Cardinality(Hits(b, lg, n, e))
                 z == Cardinality(Hits(a, lg, id, e))
                 u == Unit \div Len(lg[e].leaves)
      <4>1. f[e] = x * u /\ g[e] = y * u /\ h[e] = z * u
        BY DEF ShareSeq
      <4>2. x \in Nat /\ y \in Nat /\ z \in Nat /\ u \in Nat
        BY <1>2, CountsFacts
      <4>3. x = y + z
        <5>1. IsFiniteSet(Hits(a, lg, n, e)) /\ Hits(a, lg, n, e) \cap Hits(a, lg, id, e) = Hits(a, lg, id, e)
          BY <2>7, CountsFacts
        <5>2. Cardinality(Hits(a, lg, n, e) \ Hits(a, lg, id, e)) = x - z
          BY <5>1, FS_Difference
        <5>3. y = x - z
          BY <2>7, <5>2
        <5> QED BY <4>2, <5>3
      <4> HIDE DEF f, g, h, x, y, z, u
      <4>4. (y + z) * u = y * u + z * u
        BY <4>2
      <4> QED BY <4>1, <4>3, <4>4
    <3>2. /\ f \in Seq(Nat) /\ g \in Seq(Nat) /\ h \in Seq(Nat)
          /\ Len(f) = Len(lg) /\ Len(g) = Len(lg) /\ Len(h) = Len(lg)
      BY <1>2, CountsFacts
    <3>3. d.distributed = Minus(Total(f), Total(h))
      BY <1>5, <2>2, <2>11 DEF CountedAt
    <3> HIDE DEF f, g, h
    <3>4. Total(g) = Minus(Total(f), Total(h))
      BY <2>16, <3>1, <3>2
    <3> QED BY <3>3, <3>4 DEF g
  <2>18. d.uncompressed = Total(RatioSeq(b, lg, n))
    <3> DEFINE f == RatioSeq(a, lg, n)
               g == RatioSeq(b, lg, n)
               h == RatioSeq(a, lg, id)
    <3>1. ASSUME NEW e \in DOMAIN lg PROVE f[e] = g[e] + h[e]
      <4>1. \A m : e \in RatedIn(a, lg, m) => lg[e].ratio \in Nat
        BY LogFacts DEF RatedIn
      <4> QED BY <2>6, <4>1 DEF RatioSeq
    <3>2. /\ f \in Seq(Nat) /\ g \in Seq(Nat) /\ h \in Seq(Nat)
          /\ Len(f) = Len(lg) /\ Len(g) = Len(lg) /\ Len(h) = Len(lg)
      BY <1>2, CountsFacts
    <3>3. d.uncompressed = Minus(Total(f), Total(h))
      BY <1>5, <2>2, <2>11 DEF CountedAt
    <3> HIDE DEF f, g, h
    <3>4. Total(g) = Minus(Total(f), Total(h))
      BY <2>16, <3>1, <3>2
    <3> QED BY <3>3, <3>4 DEF g
  <2> QED BY <2>13, <2>14, <2>15, <2>17, <2>18 DEF CountedAt
<1> QED BY <1>2, <1>6, <1>7 DEF Counted

LEMMA CountersStep ==
  ASSUME IInv, Counted(nodes, log), [Next]_vars
  PROVE  Counted(nodes, log)'
<1>1. Arena(nodes) /\ LogIn(nodes, log)
  BY DEF IInv, LogOK, LogIn
<1>2. ASSUME NEW s \in Sample, NEW ns, NEW M, NEW leaves, Adds(s, ns, M, leaves)
      PROVE  Counted(nodes', log')
  <2>1. /\ Grows(nodes, ns, M) /\ Same(ns, nodes')
        /\ leaves \in Seq(Nat) /\ Len(leaves) = Len(s.owners) /\ leaves # <<>>
        /\ \A j \in DOMAIN s.owners : leaves[j] \in Live(ns)
        /\ \A k \in DOMAIN ns : nodes'[k].c = Credit(ns, k, leaves, s.ratio, ns[k].c)
        /\ log' = Append(log, [leaves |-> leaves, ratio |-> s.ratio])
    BY <1>2 DEF Adds, Added
  <2>2. s.ratio \in Nat \cup {NoRatio} /\ s.owners \in Seq(Path)
    BY SampleFacts
  <2>3. \A j \in DOMAIN leaves : leaves[j] \in Live(ns)
    BY <2>1, <2>2
  <2>4. Counted(ns, log) /\ LogIn(ns, log)
    BY <1>1, <2>1, GrownCounts
  <2>5. \A k \in DOMAIN ns : ns[k].c \in Counts
    <3>1. Arena(ns)
      BY <2>1 DEF Grows
    <3> QED BY <3>1, ArenaFacts DEF NodeRec
  <2> DEFINE ratio == s.ratio
  <2>6. /\ ratio \in Nat \cup {NoRatio}
        /\ \A k \in DOMAIN ns : nodes'[k].c = Credit(ns, k, leaves, ratio, ns[k].c)
        /\ log' = Append(log, [leaves |-> leaves, ratio |-> ratio])
    BY <2>1, <2>2
  <2> HIDE DEF ratio
  <2> QED BY <2>1, <2>3, <2>4, <2>5, <2>6, SampleCounts
<1>3. ASSUME NEW l \in SubvolList, NEW M, Marks(l, M)
      PROVE  Counted(nodes', log')
  <2>1. Grows(nodes, nodes', M) /\ log' = log
    BY <1>3 DEF Marks
  <2> QED BY <1>1, <2>1, GrownCounts
<1>4. ASSUME NEW id \in DOMAIN nodes, Removes(id)
      PROVE  Counted(nodes', log')
  <2>1. Removed(nodes, nodes', id) /\ log' = log
    BY <1>4 DEF Removes
  <2> QED BY <1>1, <2>1, RemovedCounts
<1>5. ASSUME UNCHANGED <<nodes, total_samples, log>>
      PROVE  Counted(nodes', log')
  BY <1>5
<1>6. Counted(nodes', log')
  BY <1>2, <1>3, <1>4, <1>5, Steps
<1> QED BY <1>6

-----------------------------------------------------------------------------
(* The counter of shared samples. *)

Partly(ns, lg, n, e) == \E i \in DOMAIN lg[e].leaves : n \in Chain(ns, lg[e].leaves[i])
Part(ns, lg, n) == {e \in DOMAIN lg : Partly(ns, lg, n, e) /\ ~Wholly(ns, lg, n, e)}
Untouched(ns, n) == \A k \in DOMAIN ns : ns[k].removed => n \notin Chain(ns, k)
SharedAt(ns, lg, n) ==
  /\ ns[n].c.shared <= Cardinality(Part(ns, lg, n))
  /\ Untouched(ns, n) => ns[n].c.shared = Cardinality(Part(ns, lg, n))
AllShared(ns, lg) == \A n \in Live(ns) : SharedAt(ns, lg, n)

\* The walks up from the leaves meet the same nodes, so the same samples are shared.
LEMMA SamePart ==
  ASSUME NEW a, NEW b, NEW la, NEW lb, LogIn(a, la),
         \A e \in DOMAIN la : e \in DOMAIN lb /\ lb[e] = la[e],
         \A i \in DOMAIN a : Chain(b, i) = Chain(a, i), NEW n, NEW e \in DOMAIN la
  PROVE  e \in Part(b, lb, n) <=> e \in Part(a, la, n)
<1>1. \A i \in DOMAIN la[e].leaves : la[e].leaves[i] \in DOMAIN a
  BY DEF LogIn
<1>2. Partly(b, lb, n, e) <=> Partly(a, la, n, e)
  BY <1>1 DEF Partly
<1>3. Wholly(b, lb, n, e) <=> Wholly(a, la, n, e)
  BY <1>1 DEF Wholly
<1> QED BY <1>2, <1>3 DEF Part

LEMMA PartFinite ==
  ASSUME NEW ns, NEW lg, LogIn(ns, lg), NEW n
  PROVE  IsFiniteSet(Part(ns, lg, n)) /\ Cardinality(Part(ns, lg, n)) \in Nat
<1>1. Part(ns, lg, n) \subseteq DOMAIN lg /\ IsFiniteSet(DOMAIN lg)
  BY LogFacts DEF Part
<1> QED BY <1>1, FS_Subset, FS_CardinalityType

LEMMA GrownShared ==
  ASSUME NEW a, NEW b, NEW M, NEW lg, Grows(a, b, M), LogIn(a, lg), AllShared(a, lg)
  PROVE  AllShared(b, lg)
<1>1. /\ Arena(a) /\ Arena(b) /\ DOMAIN a \subseteq DOMAIN b
      /\ \A i \in DOMAIN a : b[i].c = a[i].c /\ b[i].removed = a[i].removed
      /\ \A i \in DOMAIN b \ DOMAIN a : i \in Live(b) /\ b[i].c = Zero
  BY DEF Grows
<1>2. /\ \A i \in DOMAIN a : Chain(b, i) = Chain(a, i)
      /\ \A i \in DOMAIN a : i \in Live(b) <=> i \in Live(a)
  BY GrowsFacts
<1>3. ASSUME NEW n \in Live(b), n \in DOMAIN a PROVE SharedAt(b, lg, n)
  <2>1. SharedAt(a, lg, n) /\ b[n].c = a[n].c
    BY <1>1, <1>2, <1>3 DEF AllShared
  <2>2. Part(b, lg, n) = Part(a, lg, n)
    <3>1. \A e \in DOMAIN lg : e \in Part(b, lg, n) <=> e \in Part(a, lg, n)
      BY <1>2, SamePart
    <3> QED BY <3>1 DEF Part
  <2>3. Untouched(b, n) => Untouched(a, n)
    BY <1>1, <1>2 DEF Untouched
  <2> QED BY <2>1, <2>2, <2>3 DEF SharedAt
<1>4. ASSUME NEW n \in Live(b), n \notin DOMAIN a PROVE SharedAt(b, lg, n)
  <2>1. \A e \in DOMAIN lg : \A i \in DOMAIN lg[e].leaves : lg[e].leaves[i] \in DOMAIN a
    BY DEF LogIn
  <2>2. \A e \in DOMAIN lg : \A i \in DOMAIN lg[e].leaves : n \notin Chain(b, lg[e].leaves[i])
    BY <1>1, <1>2, <1>4, <2>1, ChainFacts, ArenaFacts
  <2>3. Part(b, lg, n) = {}
    BY <2>2 DEF Part, Partly
  <2>4. b[n].c.shared = 0
    BY <1>1, <1>4 DEF Live, Zero
  <2> QED BY <2>3, <2>4, FS_EmptySet DEF SharedAt
<1> QED BY <1>3, <1>4 DEF AllShared

LEMMA SampleShared ==
  ASSUME NEW ns, NEW b, NEW lg, LogIn(ns, lg), AllShared(ns, lg), Same(ns, b),
         \A k \in DOMAIN ns : ns[k].c \in Counts,
         NEW leaves \in Seq(Nat), leaves # <<>>, \A i \in DOMAIN leaves : leaves[i] \in Live(ns),
         NEW ratio \in Nat \cup {NoRatio},
         \A k \in DOMAIN ns : b[k].c = Credit(ns, k, leaves, ratio, ns[k].c)
  PROVE  AllShared(b, Append(lg, [leaves |-> leaves, ratio |-> ratio]))
<1> DEFINE r == [leaves |-> leaves, ratio |-> ratio]
           lg2 == Append(lg, r)
           new == Len(lg) + 1
<1>1. r \in LogRec /\ r.leaves = leaves
  BY DEF LogRec
<1> HIDE DEF r
<1>2. /\ Len(lg) \in Nat /\ DOMAIN lg = 1..Len(lg) /\ DOMAIN lg2 = 1..new /\ lg2[new] = r
      /\ \A e \in DOMAIN lg : lg2[e] = lg[e]
  BY <1>1 DEF LogIn
<1>3. new \notin DOMAIN lg /\ DOMAIN lg2 = DOMAIN lg \cup {new}
  BY <1>2
<1> HIDE DEF lg2, new
<1>4. /\ DOMAIN b = DOMAIN ns /\ Live(b) = Live(ns) /\ Live(ns) \subseteq DOMAIN ns
      /\ \A i \in DOMAIN ns : Chain(b, i) = Chain(ns, i) /\ b[i].removed = ns[i].removed
  BY DEF Same, Live
<1>5. ASSUME NEW n \in Live(ns) PROVE SharedAt(b, lg2, n)
  <2> DEFINE all == \A i \in DOMAIN leaves : n \in Chain(ns, leaves[i])
             H == {i \in DOMAIN leaves : n \in Chain(ns, leaves[i])}
             part == H # {} /\ ~all
             c == ns[n].c
             d == b[n].c
  <2>1. d.shared = c.shared + (IF part THEN 1 ELSE 0) /\ c.shared \in Nat
    <3>1. n \in DOMAIN ns /\ c \in Counts /\ d = Credit(ns, n, leaves, ratio, c)
      BY <1>4
    <3>2. Credited(ns, n, leaves, ratio, c, d)
      <4> HIDE DEF c, d
      <4> QED BY <3>1, CreditFacts
    <3> HIDE DEF c, d
    <3> QED BY <3>1, <3>2 DEF Credited, Counts
  <2>2. \A i \in DOMAIN leaves : leaves[i] \in DOMAIN ns /\ Chain(b, leaves[i]) = Chain(ns, leaves[i])
    BY <1>4
  <2>3. new \in Part(b, lg2, n) <=> part
    <3>1. Partly(b, lg2, n, new) <=> H # {}
      BY <1>1, <1>2, <2>2 DEF Partly
    <3>2. Wholly(b, lg2, n, new) <=> all
      BY <1>1, <1>2, <2>2 DEF Wholly
    <3> QED BY <1>3, <3>1, <3>2 DEF Part
  <2>4. \A e \in DOMAIN lg : e \in Part(b, lg2, n) <=> e \in Part(ns, lg, n)
    BY <1>2, <1>3, <1>4, SamePart
  <2>5. Part(b, lg2, n) = Part(ns, lg, n) \cup (IF part THEN {new} ELSE {})
    <3>1. Part(b, lg2, n) \subseteq DOMAIN lg \cup {new} /\ Part(ns, lg, n) \subseteq DOMAIN lg
      BY <1>3 DEF Part
    <3> HIDE DEF part
    <3> QED BY <1>3, <2>3, <2>4, <3>1
  <2>6. IsFiniteSet(Part(ns, lg, n)) /\ Cardinality(Part(ns, lg, n)) \in Nat /\ new \notin Part(ns, lg, n)
    BY <1>3, PartFinite DEF Part
  <2> HIDE DEF part
  <2>7. Cardinality(Part(b, lg2, n)) = Cardinality(Part(ns, lg, n)) + (IF part THEN 1 ELSE 0)
    BY <2>5, <2>6, OneMore
  <2>8. Untouched(b, n) => Untouched(ns, n)
    BY <1>4 DEF Untouched
  <2>9. SharedAt(ns, lg, n)
    BY DEF AllShared
  <2> HIDE DEF c, d
  <2>10. /\ c.shared <= Cardinality(Part(ns, lg, n))
         /\ Untouched(ns, n) => c.shared = Cardinality(Part(ns, lg, n))
    BY <2>9 DEF SharedAt, c
  <2>11. /\ d.shared <= Cardinality(Part(b, lg2, n))
         /\ Untouched(b, n) => d.shared = Cardinality(Part(b, lg2, n))
    BY <2>1, <2>6, <2>7, <2>8, <2>10
  <2> QED BY <2>11 DEF SharedAt, d
<1> QED BY <1>4, <1>5 DEF AllShared, lg2, r

\* A removal touches all nodes above, which may lose more than what is shared no longer.
LEMMA RemovedShared ==
  ASSUME NEW a, NEW b, NEW lg, NEW id, LogIn(a, lg), AllShared(a, lg), Removed(a, b, id)
  PROVE  AllShared(b, lg)
<1>1. /\ Arena(a) /\ DOMAIN b = DOMAIN a /\ id \in Live(a) /\ id \in DOMAIN a
      /\ \A k \in DOMAIN a :
           /\ Chain(b, k) = Chain(a, k)
           /\ b[k].removed <=> a[k].removed \/ k = id
           /\ b[k].c = IF k \in Chain(a, id) \ {id} THEN subtract(a[k].c, a[id].c) ELSE a[k].c
      /\ Live(b) = {k \in Live(a) : id \notin Chain(a, k)}
      /\ Live(a) \subseteq DOMAIN a
  BY DEF Removed, Live
<1>2. ASSUME NEW n \in Live(b) PROVE SharedAt(b, lg, n)
  <2>1. n \in Live(a) /\ n \in DOMAIN a /\ n # id
    BY <1>1, <1>2, ChainFacts, ArenaFacts
  <2>2. SharedAt(a, lg, n)
    BY <2>1 DEF AllShared
  <2>3. Part(b, lg, n) = Part(a, lg, n)
    <3>1. \A e \in DOMAIN lg : e \in Part(b, lg, n) <=> e \in Part(a, lg, n)
      BY <1>1, SamePart
    <3> QED BY <3>1 DEF Part
  <2>4. CASE n \notin Chain(a, id)
    <3>1. b[n].c = a[n].c
      BY <1>1, <2>1, <2>4
    <3>2. Untouched(b, n) => Untouched(a, n)
      BY <1>1 DEF Untouched
    <3> QED BY <2>2, <2>3, <3>1, <3>2 DEF SharedAt
  <2>5. CASE n \in Chain(a, id)
    <3> DEFINE c == a[n].c
               o == a[id].c
    <3>1. b[n].c = subtract(c, o) /\ c \in Counts /\ o \in Counts
      BY <1>1, <2>1, <2>5, ArenaFacts DEF NodeRec
    <3> HIDE DEF c, o
    <3>2. b[n].c.shared = Minus(c.shared, o.shared) /\ c.shared \in Nat /\ o.shared \in Nat
      BY <3>1, SubtractFacts
    <3>3. b[n].c.shared <= c.shared /\ b[n].c.shared \in Nat
      BY <3>2 DEF Minus
    <3>4. ~Untouched(b, n)
      BY <1>1, <2>5 DEF Untouched
    <3>5. c.shared <= Cardinality(Part(a, lg, n)) /\ Cardinality(Part(a, lg, n)) \in Nat
      BY <2>2, PartFinite DEF SharedAt, c
    <3> QED BY <2>3, <3>2, <3>3, <3>4, <3>5 DEF SharedAt
  <2> QED BY <2>4, <2>5
<1> QED BY <1>2 DEF AllShared

LEMMA SharedStep ==
  ASSUME IInv, AllShared(nodes, log), [Next]_vars
  PROVE  AllShared(nodes, log)'
<1>1. Arena(nodes) /\ LogIn(nodes, log)
  BY DEF IInv, LogOK, LogIn
<1>2. ASSUME NEW s \in Sample, NEW ns, NEW M, NEW leaves, Adds(s, ns, M, leaves)
      PROVE  AllShared(nodes', log')
  <2>1. /\ Grows(nodes, ns, M) /\ Same(ns, nodes')
        /\ leaves \in Seq(Nat) /\ Len(leaves) = Len(s.owners) /\ leaves # <<>>
        /\ \A j \in DOMAIN s.owners : leaves[j] \in Live(ns)
        /\ \A k \in DOMAIN ns : nodes'[k].c = Credit(ns, k, leaves, s.ratio, ns[k].c)
        /\ log' = Append(log, [leaves |-> leaves, ratio |-> s.ratio])
    BY <1>2 DEF Adds, Added
  <2>2. s.ratio \in Nat \cup {NoRatio} /\ s.owners \in Seq(Path)
    BY SampleFacts
  <2>3. \A j \in DOMAIN leaves : leaves[j] \in Live(ns)
    BY <2>1, <2>2
  <2>4. AllShared(ns, log)
    BY <1>1, <2>1, GrownShared
  <2>5. LogIn(ns, log)
    BY <1>1, <2>1 DEF LogIn, Grows
  <2>6. \A k \in DOMAIN ns : ns[k].c \in Counts
    <3>1. Arena(ns)
      BY <2>1 DEF Grows
    <3> QED BY <3>1, ArenaFacts DEF NodeRec
  <2> DEFINE ratio == s.ratio
  <2>7. /\ ratio \in Nat \cup {NoRatio}
        /\ \A k \in DOMAIN ns : nodes'[k].c = Credit(ns, k, leaves, ratio, ns[k].c)
        /\ log' = Append(log, [leaves |-> leaves, ratio |-> ratio])
    BY <2>1, <2>2
  <2> HIDE DEF ratio
  <2> QED BY <2>1, <2>3, <2>4, <2>5, <2>6, <2>7, SampleShared
<1>3. ASSUME NEW l \in SubvolList, NEW M, Marks(l, M)
      PROVE  AllShared(nodes', log')
  <2>1. Grows(nodes, nodes', M) /\ log' = log
    BY <1>3 DEF Marks
  <2> QED BY <1>1, <2>1, GrownShared
<1>4. ASSUME NEW id \in DOMAIN nodes, Removes(id)
      PROVE  AllShared(nodes', log')
  <2>1. Removed(nodes, nodes', id) /\ log' = log
    BY <1>4 DEF Removes
  <2> QED BY <1>1, <2>1, RemovedShared
<1>5. ASSUME UNCHANGED <<nodes, total_samples, log>>
      PROVE  AllShared(nodes', log')
  BY <1>5
<1>6. AllShared(nodes', log')
  BY <1>2, <1>3, <1>4, <1>5, Steps
<1> QED BY <1>6

LEMMA SharedInit ==
  ASSUME Init
  PROVE  AllShared(nodes, log)
<1>1. nodes = New /\ log = <<>>
  BY DEF Init
<1>2. ASSUME NEW n \in Live(New) PROVE SharedAt(New, <<>>, n)
  <2>1. New[n].c = Zero
    BY <1>2, NewFacts
  <2>2. Part(New, <<>>, n) = {}
    BY DEF Part
  <2>3. New[n].c.shared = 0 /\ Cardinality(Part(New, <<>>, n)) = 0
    <3>1. Zero.shared = 0
      BY DEF Zero
    <3> QED BY <2>1, <2>2, <3>1, FS_EmptySet
  <2>4. New[n].c.shared <= Cardinality(Part(New, <<>>, n))
    BY <2>3
  <2> QED BY <2>3, <2>4 DEF SharedAt
<1> QED BY <1>1, <1>2 DEF AllShared

-----------------------------------------------------------------------------
(* The counters start at zero. *)

LEMMA CountersInit ==
  ASSUME Init
  PROVE  Counted(nodes, log)
<1>1. nodes = New /\ log = <<>> /\ <<>> \in Seq(LogRec)
  BY DEF Init
<1>2. LogIn(New, <<>>)
  BY DEF LogIn
<1>3. ASSUME NEW n \in Live(New) PROVE CountedAt(New, <<>>, n)
  <2>1. New[n].c = Zero
    BY <1>3, NewFacts
  <2>2. Owned(New, <<>>, n) = {} /\ RatedIn(New, <<>>, n) = {} /\ Inside(New, <<>>, n) = {}
    BY DEF Owned, RatedIn, Inside
  <2>3. Total(ShareSeq(New, <<>>, n)) = 0 /\ Total(RatioSeq(New, <<>>, n)) = 0
    <3>1. Len(<<>>) = 0
      OBVIOUS
    <3> QED BY <1>2, <3>1, CountsFacts, TotalZero
  <2>4. /\ Zero.represented = 0 /\ Zero.distributed = 0 /\ Zero.comp_samples = 0
        /\ Zero.uncompressed = 0 /\ Zero.exclusive = 0
    BY DEF Zero
  <2> QED BY <2>1, <2>2, <2>3, <2>4, FS_EmptySet DEF CountedAt
<1> QED BY <1>1, <1>3 DEF Counted

\* Five of the six counters of a live entry are those of the samples whose owners are left
\* in it, to the last share, and a removal takes away exactly what the removed entry had:
\* however samples, marks, removals and creations follow one another, no subtraction from
\* them saturates.  One from shared may: that counter is exact for an entry with nothing
\* removed below it, and never more than the samples the entry shared.
THEOREM CountersCorrect == Spec => []CountersExact
<1>1. Init => Counted(nodes, log) /\ AllShared(nodes, log)
  BY CountersInit, SharedInit
<1>2. /\ Counted(nodes, log) /\ AllShared(nodes, log) /\ IInv /\ [Next]_vars
      => Counted(nodes, log)' /\ AllShared(nodes, log)'
  BY CountersStep, SharedStep
<1>3. ASSUME IInv, Counted(nodes, log), AllShared(nodes, log) PROVE CountersExact
  <2>1. LiveNodes = Live(nodes) /\ Samples = DOMAIN log
    BY DEF LiveNodes, Live, Samples
  <2>2. ASSUME NEW n \in Live(nodes)
        PROVE  /\ Canonical(n) = Owned(nodes, log, n) /\ Rated(n) = RatedIn(nodes, log, n)
               /\ [e \in Samples |-> Share(n, e)] = ShareSeq(nodes, log, n)
               /\ [e \in Samples |-> IF e \in Rated(n) THEN log[e].ratio ELSE 0]
                    = RatioSeq(nodes, log, n)
    <3>1. Canonical(n) = Owned(nodes, log, n)
      BY <2>1 DEF Canonical, Owned, LiveLeaf, LeafIn
    <3>2. Rated(n) = RatedIn(nodes, log, n)
      BY <3>1 DEF Rated, RatedIn
    <3>3. ASSUME NEW e \in DOMAIN log
          PROVE  Share(n, e) = Cardinality(Hits(nodes, log, n, e)) * (Unit \div Len(log[e].leaves))
      <4>1. Hits(nodes, log, n, e) = {i \in DOMAIN log[e].leaves : LiveLeaf(n, e, i)}
        BY <2>1 DEF Hits, LiveLeaf, LeafIn
      <4> QED BY <4>1 DEF Share
    <3>4. [e \in Samples |-> Share(n, e)] = ShareSeq(nodes, log, n)
      BY <2>1, <3>3 DEF ShareSeq
    <3>5. [e \in Samples |-> IF e \in Rated(n) THEN log[e].ratio ELSE 0] = RatioSeq(nodes, log, n)
      BY <2>1, <3>2 DEF RatioSeq
    <3> QED BY <3>1, <3>2, <3>4, <3>5
  <2>3. ASSUME NEW n \in Live(nodes)
        PROVE  Inside(nodes, log, n)
                 = {e \in Samples :
                      /\ AllUnder(log[e], n)
                      /\ ~\E r \in DOMAIN nodes :
                           nodes[r].removed /\ n \in Chain(nodes, r) /\ AllUnder(log[e], r)}
    BY <2>1 DEF Inside, Wholly, Taken, AllUnder
  <2>4. \A n \in Live(nodes) : CountedAt(nodes, log, n)
    BY <1>3 DEF Counted
  <2>5. CreditExact
    BY <2>1, <2>2, <2>4 DEF CreditExact, CountedAt
  <2>6. ExclusiveExact
    BY <2>1, <2>3, <2>4 DEF ExclusiveExact, CountedAt
  <2>7. SharedExact
    <3>1. ASSUME NEW n \in Live(nodes)
          PROVE  {e \in Samples : SomeUnder(log[e], n) /\ ~AllUnder(log[e], n)}
                   = Part(nodes, log, n)
      BY <2>1 DEF Part, Partly, Wholly, SomeUnder, AllUnder
    <3>2. \A n \in Live(nodes) : SharedAt(nodes, log, n)
      BY <1>3 DEF AllShared
    <3> QED BY <2>1, <3>1, <3>2 DEF SharedExact, SharedAt, Untouched
  <2> QED BY <2>5, <2>6, <2>7 DEF CountersExact
<1> QED BY <1>1, <1>2, <1>3, Invariance, PTL DEF Spec

-----------------------------------------------------------------------------
(* Export and import. *)

\* One entry of the document d read into the arena st.
Read(d, st) == LET got == get_or_create(st, d.path) IN set_counters(got.ns, got.id, d.c, d.subvol)
Pick(s) == CHOOSE d \in s : TRUE

\* f folds the subsets of D of the sets S.
IsFold(S, g, f) ==
  f = [s \in S |-> IF s = {} THEN New ELSE g[<<Pick(s), f[s \ {Pick(s)}]>>]]

LEMMA FromJson ==
  ASSUME NEW doc
  PROVE  from_json(doc) =
           (CHOOSE f : f = [s \in SUBSET doc |-> IF s = {} THEN New
                                                 ELSE Read(Pick(s), f[s \ {Pick(s)}])])[doc]
BY DEF from_json, FoldSet, MapThenFoldSet, Read, Pick

\* What is reached from a node through the children maps: what is below it with nothing
\* removed in between.
Reached(ns, k) ==
  {i \in DOMAIN ns : k \in Chain(ns, i) /\ \A m \in Chain(ns, i) \ Chain(ns, k) : ~ns[m].removed}

\* On the way up from i to k, one child of k is passed.
LEMMA ChildAbove ==
  ASSUME NEW ns, Rooted(ns), NEW i \in DOMAIN ns, NEW k \in Chain(ns, i), i # k
  PROVE  \E j \in Chain(ns, i) : j # 0 /\ ns[j].parent = k
<1> DEFINE T == {n \in DOMAIN ns : \A m \in Chain(ns, n) :
                   m # n => \E j \in Chain(ns, n) : j # 0 /\ ns[j].parent = m}
<1>1. 0 \in T
  BY ChainFacts, RootedFacts
<1>2. ASSUME NEW n \in DOMAIN ns \ {0}, ns[n].parent \in T PROVE n \in T
  <2>1. Chain(ns, n) = {n} \cup Chain(ns, ns[n].parent)
    BY ChainFacts
  <2> QED BY <1>2, <2>1
<1> HIDE DEF T
<1>3. DOMAIN ns \subseteq T
  BY <1>1, <1>2, NodeInduction
<1> QED BY <1>3 DEF T

LEMMA ReachedStep ==
  ASSUME NEW ns, Arena(ns), NEW k \in DOMAIN ns
  PROVE  /\ Range(ns[k].children) \subseteq DOMAIN ns
         /\ \A j \in Range(ns[k].children) : j > k /\ j \in Nat
         /\ Reached(ns, k) = {k} \cup UNION {Reached(ns, j) : j \in Range(ns[k].children)}
<1> DEFINE kids == Range(ns[k].children)
<1>1. Rooted(ns) /\ k \in Nat
  BY ArenaFacts, RootedFacts
<1>2. ASSUME NEW j PROVE j \in kids <=> j \in DOMAIN ns \ {0} /\ ns[j].parent = k /\ ~ns[j].removed
  <2>1. ASSUME j \in kids PROVE j \in DOMAIN ns \ {0} /\ ns[j].parent = k /\ ~ns[j].removed
    BY <2>1 DEF Arena, Range
  <2>2. ASSUME j \in DOMAIN ns \ {0}, ns[j].parent = k, ~ns[j].removed PROVE j \in kids
    BY <2>2 DEF Arena, Range
  <2> QED BY <2>1, <2>2
<1>3. \A j \in kids : j > k /\ j \in Nat /\ Chain(ns, j) = {j} \cup Chain(ns, k)
  BY <1>1, <1>2, RootedFacts, ChainFacts
<1> HIDE DEF kids
<1>4. ASSUME NEW i \in Reached(ns, k), i # k PROVE \E j \in kids : i \in Reached(ns, j)
  <2>1. i \in DOMAIN ns /\ k \in Chain(ns, i) /\ \A m \in Chain(ns, i) \ Chain(ns, k) : ~ns[m].removed
    BY <1>4 DEF Reached
  <2>2. PICK j \in Chain(ns, i) : j # 0 /\ ns[j].parent = k
    BY <1>1, <1>4, <2>1, ChildAbove
  <2>3. j \in DOMAIN ns /\ j \in Nat /\ j > k
    BY <1>1, <2>1, <2>2, ChainFacts, RootedFacts
  <2>4. j \notin Chain(ns, k)
    <3>1. Chain(ns, k) \subseteq 0..k
      BY <1>1, ChainFacts
    <3> QED BY <1>1, <2>3, <3>1
  <2>5. j \in kids
    BY <1>2, <2>1, <2>2, <2>3, <2>4
  <2> QED BY <1>3, <2>1, <2>2, <2>5 DEF Reached
<1>5. ASSUME NEW j \in kids, NEW i \in Reached(ns, j) PROVE i \in Reached(ns, k)
  <2>1. i \in DOMAIN ns /\ j \in Chain(ns, i) /\ \A m \in Chain(ns, i) \ Chain(ns, j) : ~ns[m].removed
    BY <1>5 DEF Reached
  <2>2. k \in Chain(ns, j) /\ Chain(ns, j) \subseteq Chain(ns, i)
    BY <1>1, <1>3, <2>1, ChainFacts, ChainTransitive
  <2>3. ~ns[j].removed
    BY <1>2, <1>5
  <2>4. \A m \in Chain(ns, i) \ Chain(ns, k) : ~ns[m].removed
    BY <1>3, <2>1, <2>3
  <2> QED BY <2>1, <2>2, <2>4 DEF Reached
<1>6. k \in Reached(ns, k)
  BY <1>1, ChainFacts DEF Reached
<1>7. \A j \in kids : j \in DOMAIN ns
  BY <1>2
<1>8. Reached(ns, k) = {k} \cup UNION {Reached(ns, j) : j \in kids}
  BY <1>4, <1>5, <1>6
<1> QED BY <1>3, <1>7, <1>8 DEF kids

LEMMA ReachedLive ==
  ASSUME NEW ns, Arena(ns)
  PROVE  Reached(ns, 0) = Live(ns)
<1>1. Rooted(ns) /\ ~ns[0].removed
  BY ArenaFacts DEF Arena
<1>2. ASSUME NEW i \in DOMAIN ns PROVE i \in Reached(ns, 0) <=> i \in Live(ns)
  <2>1. 0 \in Chain(ns, i) /\ Chain(ns, 0) = {0}
    BY <1>1, ChainFacts
  <2> QED BY <1>1, <2>1 DEF Reached, Live, is_live
<1> QED BY <1>2 DEF Reached, Live

\* The document holds the live nodes.
LEMMA ToJson ==
  ASSUME NEW ns, Arena(ns)
  PROVE  to_json(ns) = {[path |-> path_of(ns, i), subvol |-> ns[i].subvol, c |-> ns[i].c] : i \in Live(ns)}
<1> DEFINE kids(k) == Range(ns[k].children)
           h == [k \in DOMAIN ns |-> Reached(ns, k)]
           below == CHOOSE f : f = [k \in DOMAIN ns |-> {k} \cup UNION {f[j] : j \in Range(ns[k].children)}]
<1>1. \A k \in DOMAIN ns : /\ kids(k) \subseteq DOMAIN ns /\ \A j \in kids(k) : j > k /\ j \in Nat
                           /\ Reached(ns, k) = {k} \cup UNION {Reached(ns, j) : j \in kids(k)}
  BY ReachedStep
<1>2. h = [k \in DOMAIN ns |-> {k} \cup UNION {h[j] : j \in kids(k)}]
  <2>1. ASSUME NEW k \in DOMAIN ns PROVE h[k] = {k} \cup UNION {h[j] : j \in kids(k)}
    <3>1. \A j \in kids(k) : h[j] = Reached(ns, j)
      BY <1>1
    <3> HIDE DEF kids
    <3>2. {h[j] : j \in kids(k)} = {Reached(ns, j) : j \in kids(k)}
      BY <3>1
    <3> QED BY <1>1, <3>2
  <2>2. h = [k \in DOMAIN ns |-> h[k]]
    OBVIOUS
  <2> HIDE DEF h, kids
  <2> QED BY <2>1, <2>2
<1>3. below = [k \in DOMAIN ns |-> {k} \cup UNION {below[j] : j \in kids(k)}]
  <2> HIDE DEF h
  <2> QED BY <1>2
<1>4. to_json(ns) = {[path |-> path_of(ns, i), subvol |-> ns[i].subvol, c |-> ns[i].c] : i \in below[ROOT]}
  BY DEF to_json
<1>5. Rooted(ns)
  BY ArenaFacts
<1> DEFINE T == {m \in Nat : \A k \in DOMAIN ns : k + m = Size(ns) => below[k] = h[k]}
<1>6. ASSUME NEW m \in Nat, \A l \in 0..(m - 1) : l \in T PROVE m \in T
  <2> SUFFICES ASSUME NEW k \in DOMAIN ns, k + m = Size(ns) PROVE below[k] = h[k]
    OBVIOUS
  <2>1. ASSUME NEW j \in kids(k) PROVE below[j] = h[j]
    <3> DEFINE l == Size(ns) - j
    <3>1. j \in DOMAIN ns /\ j > k /\ j \in Nat /\ k \in Nat /\ Size(ns) \in Nat /\ j < Size(ns)
      BY <1>1, <1>5, <2>1, RootedFacts DEF Rooted
    <3>2. l \in 0..(m - 1) /\ j + l = Size(ns)
      BY <3>1
    <3> HIDE DEF l, kids, h, below
    <3> QED BY <1>6, <3>1, <3>2
  <2> HIDE DEF kids, h, below
  <2>2. {below[j] : j \in kids(k)} = {h[j] : j \in kids(k)}
    BY <2>1
  <2> QED BY <1>2, <1>3, <2>2
<1> HIDE DEF T
<1>7. Nat \subseteq T
  BY <1>6, AllNumbers
<1>8. below[0] = h[0]
  <2>1. Size(ns) \in Nat /\ 0 \in DOMAIN ns /\ 0 + Size(ns) = Size(ns)
    BY <1>5, RootedFacts DEF Rooted
  <2> HIDE DEF below, h
  <2> QED BY <1>7, <2>1 DEF T
<1>9. below[ROOT] = Live(ns)
  <2>1. h[0] = Reached(ns, 0)
    BY <1>5, RootedFacts
  <2> HIDE DEF below, h
  <2> QED BY <1>8, <2>1, ReachedLive DEF ROOT
<1> HIDE DEF below
<1> QED BY <1>4, <1>9

LEMMA PickFacts ==
  ASSUME NEW D, IsFiniteSet(D), NEW s \in SUBSET D, s # {}
  PROVE  /\ Pick(s) \in s /\ s \ {Pick(s)} \in SUBSET D
         /\ Cardinality(s) \in Nat \ {0} /\ Cardinality(s \ {Pick(s)}) = Cardinality(s) - 1
<1>1. Pick(s) \in s
  BY DEF Pick
<1>2. IsFiniteSet(s)
  BY FS_Subset
<1>3. Cardinality(s) \in Nat \ {0}
  BY <1>2, FS_CardinalityType, FS_EmptySet
<1>4. Cardinality(s \ {Pick(s)}) = Cardinality(s) - 1
  BY <1>1, <1>2, FS_RemoveElement
<1> QED BY <1>1, <1>3, <1>4

\* A fold of a finite set exists, and keeps what its rounds keep.
LEMMA FoldExists ==
  ASSUME NEW D, IsFiniteSet(D), NEW g
  PROVE  \E f : IsFold(SUBSET D, g, f)
<1> DEFINE S(m) == {s \in SUBSET D : Cardinality(s) <= m}
           T == {m \in Nat : \E f : IsFold(S(m), g, f)}
<1>0. \A s \in SUBSET D : Cardinality(s) \in Nat /\ (Cardinality(s) = 0 <=> s = {})
  BY FS_Subset, FS_CardinalityType, FS_EmptySet
<1>1. ASSUME NEW m \in Nat, \A k \in 0..(m - 1) : k \in T PROVE m \in T
  <2>1. CASE m = 0
    <3> DEFINE f == [s \in S(0) |-> New]
    <3>1. \A s \in S(0) : s = {}
      BY <1>0
    <3>2. f = [s \in S(0) |-> IF s = {} THEN New ELSE g[<<Pick(s), f[s \ {Pick(s)}]>>]]
      BY <3>1
    <3>3. IsFold(S(0), g, f)
      BY <3>2 DEF IsFold
    <3> QED BY <2>1, <3>3
  <2>2. CASE m # 0
    <3>1. m - 1 \in 0..(m - 1) /\ m - 1 \in Nat
      BY <2>2
    <3>2. PICK f : IsFold(S(m - 1), g, f)
      BY <3>1, <1>1
    <3> DEFINE h == [s \in S(m) |-> IF Cardinality(s) <= m - 1 THEN f[s]
                                    ELSE g[<<Pick(s), f[s \ {Pick(s)}]>>]]
    <3>3. ASSUME NEW s \in S(m)
          PROVE  h[s] = IF s = {} THEN New ELSE g[<<Pick(s), h[s \ {Pick(s)}]>>]
      <4>1. s \in SUBSET D /\ Cardinality(s) \in Nat /\ Cardinality(s) <= m
        BY <1>0
      <4>2. CASE s = {}
        <5>1. Cardinality(s) <= m - 1 /\ s \in S(m - 1)
          BY <1>0, <3>1, <4>1, <4>2
        <5>2. f[s] = New
          BY <3>2, <4>2, <5>1 DEF IsFold
        <5> QED BY <4>2, <5>1, <5>2
      <4>3. CASE s # {}
        <5> DEFINE r == s \ {Pick(s)}
        <5>1. r \in SUBSET D /\ Cardinality(r) = Cardinality(s) - 1
          BY <4>1, <4>3, PickFacts
        <5>2. r \in S(m) /\ Cardinality(r) <= m - 1
          BY <4>1, <5>1
        <5>3. h[r] = f[r]
          BY <5>2
        <5>4. CASE Cardinality(s) <= m - 1
          <6>1. s \in S(m - 1)
            BY <4>1, <5>4
          <6>2. f[s] = g[<<Pick(s), f[r]>>]
            BY <3>2, <4>3, <6>1 DEF IsFold
          <6> QED BY <4>3, <5>3, <5>4, <6>2
        <5>5. CASE ~(Cardinality(s) <= m - 1)
          BY <4>3, <5>3, <5>5
        <5> QED BY <5>4, <5>5
      <4> QED BY <4>2, <4>3
    <3>4. h = [s \in S(m) |-> h[s]]
      OBVIOUS
    <3> HIDE DEF h, S
    <3>5. IsFold(S(m), g, h)
      BY <3>3, <3>4 DEF IsFold
    <3> QED BY <3>5
  <2> QED BY <2>1, <2>2
<1> HIDE DEF T
<1>2. Cardinality(D) \in Nat /\ Cardinality(D) \in T
  BY <1>1, AllNumbers, FS_CardinalityType
<1>3. S(Cardinality(D)) = SUBSET D
  BY FS_Subset
<1> HIDE DEF S
<1> QED BY <1>2, <1>3 DEF T

LEMMA FoldInvariant ==
  ASSUME NEW D, IsFiniteSet(D), NEW X, NEW f, <<f[{}], {}>> \in X,
         \A s \in SUBSET D : s # {} /\ <<f[s \ {Pick(s)}], s \ {Pick(s)}>> \in X => <<f[s], s>> \in X
  PROVE  <<f[D], D>> \in X
<1> DEFINE T == {m \in Nat : \A s \in SUBSET D : Cardinality(s) = m => <<f[s], s>> \in X}
<1>1. ASSUME NEW m \in Nat, \A k \in 0..(m - 1) : k \in T PROVE m \in T
  <2> SUFFICES ASSUME NEW s \in SUBSET D, Cardinality(s) = m PROVE <<f[s], s>> \in X
    OBVIOUS
  <2>1. CASE s = {}
    BY <2>1
  <2>2. CASE s # {}
    <3> DEFINE r == s \ {Pick(s)}
    <3>1. r \in SUBSET D /\ Cardinality(r) = m - 1 /\ m # 0
      BY <2>2, PickFacts
    <3>2. m - 1 \in 0..(m - 1)
      BY <3>1
    <3>3. <<f[r], r>> \in X
      BY <1>1, <3>1, <3>2
    <3> QED BY <2>2, <3>3
  <2> QED BY <2>1, <2>2
<1> HIDE DEF T
<1>2. Cardinality(D) \in T
  BY <1>1, AllNumbers, FS_CardinalityType
<1> QED BY <1>2 DEF T

DocRec == [path : Seq(Name), subvol : BOOLEAN, c : Counts]

\* An arena that is being read, with the nodes of the documents s.
Holds(t, s) ==
  /\ Arena(t) /\ Live(t) = DOMAIN t
  /\ \A d \in s : \E i \in DOMAIN t : path_of(t, i) = d.path /\ t[i].c = d.c /\ t[i].subvol = d.subvol
  /\ \A i \in DOMAIN t : path_of(t, i) = <<>> \/ \E d \in s : path_of(t, i) \in StrictPrefixes(d.path) \cup {d.path}

LEMMA ReadHolds ==
  ASSUME NEW t, NEW s, Holds(t, s), s \subseteq DocRec, NEW d \in DocRec, \A e \in s : e.path # d.path
  PROVE  Holds(Read(d, t), s \cup {d})
<1> DEFINE got == get_or_create(t, d.path)
           a == got.ns
           id == got.id
           u == Read(d, t)
<1>1. /\ Arena(t) /\ Live(t) = DOMAIN t /\ d.path \in Seq(Name) /\ d.subvol \in BOOLEAN /\ d.c \in Counts
      /\ d = [path |-> d.path, subvol |-> d.subvol, c |-> d.c]
  BY DEF Holds, DocRec
<1>2. /\ Grows(t, a, {}) /\ id \in Live(a) /\ path_of(a, id) = d.path
      /\ \A i \in DOMAIN a \ DOMAIN t : path_of(a, i) \in StrictPrefixes(d.path) \cup {d.path}
  <2> DEFINE p == d.path
  <2>1. p \in Seq(Name)
    BY <1>1
  <2> HIDE DEF p
  <2>2. /\ Grows(t, get_or_create(t, p).ns, {})
        /\ get_or_create(t, p).id \in Live(get_or_create(t, p).ns)
        /\ path_of(get_or_create(t, p).ns, get_or_create(t, p).id) = p
        /\ \A i \in DOMAIN get_or_create(t, p).ns \ DOMAIN t :
             path_of(get_or_create(t, p).ns, i) \in StrictPrefixes(p) \cup {p}
    BY <1>1, <2>1, GetOrCreateFacts
  <2> QED BY <2>2 DEF p
<1>3. u = [a EXCEPT ![id].c = d.c, ![id].subvol = d.subvol]
  BY DEF Read, set_counters
<1> HIDE DEF got, a, id, u
<1>4. /\ Arena(a) /\ DOMAIN t \subseteq DOMAIN a /\ id \in DOMAIN a
      /\ \A i \in DOMAIN t : a[i].c = t[i].c
      /\ \A i \in DOMAIN t : a[i].subvol <=> t[i].subvol
      /\ \A i \in DOMAIN a \ DOMAIN t : i \in Live(a)
  BY <1>2 DEF Grows, Live
<1>5. \A i \in DOMAIN a : a[i] \in NodeRec
  BY <1>4, ArenaFacts
<1>6. ASSUME NEW i \in DOMAIN a
      PROVE  /\ u[i] = IF i = id THEN [a[i] EXCEPT !.c = d.c, !.subvol = d.subvol] ELSE a[i]
             /\ u[i] \in NodeRec
             /\ u[i].name = a[i].name /\ u[i].parent = a[i].parent
             /\ u[i].children = a[i].children /\ u[i].removed = a[i].removed
             /\ i # id => u[i].c = a[i].c /\ u[i].subvol = a[i].subvol
             /\ i = id => u[i].c = d.c /\ u[i].subvol = d.subvol
  <2>1. u[i] = IF i = id THEN [a[i] EXCEPT !.c = d.c, !.subvol = d.subvol] ELSE a[i]
    BY <1>3, <1>4
  <2>2. a[i] \in NodeRec
    BY <1>5
  <2> QED BY <1>1, <2>1, <2>2 DEF NodeRec
<1>7. u \in [DOMAIN a -> NodeRec]
  <2>1. DOMAIN u = DOMAIN a /\ u = [i \in DOMAIN a |-> u[i]]
    BY <1>3
  <2> QED BY <1>6, <2>1
<1>8. /\ Arena(u) /\ Live(u) = Live(a) /\ DOMAIN u = DOMAIN a
      /\ \A i \in DOMAIN a : path_of(u, i) = path_of(a, i)
  <2>1. \A i \in DOMAIN a : /\ u[i].name = a[i].name /\ u[i].parent = a[i].parent
                             /\ u[i].children = a[i].children /\ u[i].removed = a[i].removed
    BY <1>6
  <2>2. Arena(a)
    BY <1>4
  <2> QED BY <1>7, <2>1, <2>2, SameLinks
<1>9. /\ \A i \in DOMAIN t : path_of(a, i) = path_of(t, i)
      /\ Live(t) \subseteq Live(a)
  BY <1>2, GrowsFacts
<1>10. Live(u) = DOMAIN u
  BY <1>1, <1>4, <1>8, <1>9 DEF Live
<1>11. ASSUME NEW e \in s \cup {d}
       PROVE  \E i \in DOMAIN u : path_of(u, i) = e.path /\ u[i].c = e.c /\ u[i].subvol = e.subvol
  <2>1. CASE e = d
    <3>1. id \in DOMAIN u /\ path_of(u, id) = d.path
      BY <1>2, <1>4, <1>8
    <3>2. u[id].c = d.c /\ u[id].subvol = d.subvol
      BY <1>4, <1>6
    <3> QED BY <2>1, <3>1, <3>2
  <2>2. CASE e # d
    <3>1. e \in s /\ e \in DocRec /\ e.path # d.path
      BY <1>11, <2>2
    <3>2. PICK i \in DOMAIN t : path_of(t, i) = e.path /\ t[i].c = e.c /\ t[i].subvol = e.subvol
      BY <3>1 DEF Holds
    <3>3. i \in DOMAIN a /\ i # id
      BY <1>2, <1>4, <1>9, <3>1, <3>2
    <3>4. a[i].subvol = t[i].subvol
      <4>1. a[i].subvol \in BOOLEAN /\ t[i].subvol \in BOOLEAN
        BY <1>1, <1>5, <3>3, ArenaFacts DEF NodeRec
      <4> QED BY <1>4, <4>1, Zenon
    <3>5. u[i].c = e.c /\ u[i].subvol = e.subvol /\ path_of(u, i) = e.path
      BY <1>4, <1>6, <1>8, <1>9, <3>2, <3>3, <3>4
    <3> QED BY <1>8, <3>3, <3>5
  <2> QED BY <2>1, <2>2
<1>12. ASSUME NEW i \in DOMAIN u
       PROVE  path_of(u, i) = <<>> \/ \E e \in s \cup {d} : path_of(u, i) \in StrictPrefixes(e.path) \cup {e.path}
  <2>1. CASE i \in DOMAIN t
    <3>1. path_of(u, i) = path_of(t, i)
      BY <1>4, <1>8, <1>9, <2>1
    <3>2. path_of(t, i) = <<>> \/ \E e \in s : path_of(t, i) \in StrictPrefixes(e.path) \cup {e.path}
      BY <2>1 DEF Holds
    <3> QED BY <3>1, <3>2
  <2>2. CASE i \notin DOMAIN t
    <3>1. i \in DOMAIN a \ DOMAIN t
      BY <1>8, <1>12, <2>2
    <3>2. path_of(u, i) \in StrictPrefixes(d.path) \cup {d.path}
      BY <1>2, <1>8, <3>1
    <3> QED BY <3>2
  <2> QED BY <2>1, <2>2
<1>13. Holds(u, s \cup {d})
  BY <1>8, <1>10, <1>11, <1>12 DEF Holds
<1> QED BY <1>13 DEF u

\* Reading a document of one record for each path gives an arena with all of them.
LEMMA FromJsonHolds ==
  ASSUME NEW doc \in SUBSET DocRec, IsFiniteSet(doc), \A d, e \in doc : d.path = e.path => d = e
  PROVE  Holds(from_json(doc), doc)
<1> DEFINE X == {y \in Arenas \X SUBSET doc : Holds(y[1], y[2])}
           g == [y \in DocRec \X Arenas |-> Read(y[1], y[2])]
           to == CHOOSE f : f = [s \in SUBSET doc |-> IF s = {} THEN New
                                                    ELSE Read(Pick(s), f[s \ {Pick(s)}])]
<1>1. <<New, {}>> \in X
  <2>1. Holds(New, {})
    BY NewFacts DEF Holds
  <2>2. New \in Arenas /\ {} \in SUBSET doc
    BY NewFacts, ArenaIn
  <2> QED BY <2>1, <2>2
<1>2. ASSUME NEW s \in SUBSET doc, s # {}, NEW x, <<x, s \ {Pick(s)}>> \in X
      PROVE  /\ <<Read(Pick(s), x), s>> \in X
             /\ g[<<Pick(s), x>>] = Read(Pick(s), x)
  <2> DEFINE d == Pick(s)
             r == s \ {Pick(s)}
  <2>1. d \in s /\ s = r \cup {d} /\ r \subseteq DocRec /\ d \in DocRec
    BY <1>2, PickFacts
  <2>2. x \in Arenas /\ Holds(x, r)
    BY <1>2
  <2>3. \A e \in r : e.path # d.path
    BY <2>1
  <2> HIDE DEF d, r
  <2>4. Holds(Read(d, x), s)
    <3>1. Holds(Read(d, x), r \cup {d})
      BY <2>1, <2>2, <2>3, ReadHolds
    <3> QED BY <2>1, <3>1
  <2>5. Read(d, x) \in Arenas
    BY <2>4, ArenaIn DEF Holds
  <2>6. g[<<d, x>>] = Read(d, x)
    BY <2>1, <2>2
  <2> HIDE DEF g
  <2> QED BY <2>4, <2>5, <2>6 DEF d
<1> HIDE DEF X, g
<1>3. \E f : f = [s \in SUBSET doc |-> IF s = {} THEN New ELSE Read(Pick(s), f[s \ {Pick(s)}])]
  <2>1. PICK f : IsFold(SUBSET doc, g, f)
    BY FoldExists
  <2>2. f[{}] = New /\ \A s \in SUBSET doc : s # {} => f[s] = g[<<Pick(s), f[s \ {Pick(s)}]>>]
    BY <2>1 DEF IsFold
  <2>3. ASSUME NEW s \in SUBSET doc PROVE <<f[s], s>> \in X
    <3>1. IsFiniteSet(s)
      BY FS_Subset
    <3>2. \A q \in SUBSET s : q # {} /\ <<f[q \ {Pick(q)}], q \ {Pick(q)}>> \in X => <<f[q], q>> \in X
      <4> SUFFICES ASSUME NEW q \in SUBSET s, q # {}, <<f[q \ {Pick(q)}], q \ {Pick(q)}>> \in X
                   PROVE  <<f[q], q>> \in X
        OBVIOUS
      <4>1. q \in SUBSET doc
        OBVIOUS
      <4>2. /\ <<Read(Pick(q), f[q \ {Pick(q)}]), q>> \in X
            /\ g[<<Pick(q), f[q \ {Pick(q)}]>>] = Read(Pick(q), f[q \ {Pick(q)}])
        BY <1>2, <4>1
      <4> QED BY <2>2, <4>1, <4>2
    <3> QED BY <1>1, <2>2, <3>1, <3>2, FoldInvariant
  <2>4. ASSUME NEW s \in SUBSET doc, s # {} PROVE f[s] = Read(Pick(s), f[s \ {Pick(s)}])
    <3>1. <<f[s \ {Pick(s)}], s \ {Pick(s)}>> \in X
      BY <2>3
    <3> QED BY <1>2, <2>2, <2>4, <3>1
  <2>5. f = [s \in SUBSET doc |-> f[s]]
    BY <2>1 DEF IsFold
  <2>6. \A s \in SUBSET doc : f[s] = IF s = {} THEN New ELSE Read(Pick(s), f[s \ {Pick(s)}])
    BY <2>2, <2>4
  <2> HIDE DEF to
  <2>7. f = [s \in SUBSET doc |-> IF s = {} THEN New ELSE Read(Pick(s), f[s \ {Pick(s)}])]
    BY <2>5, <2>6
  <2> QED BY <2>7
<1>4. to = [s \in SUBSET doc |-> IF s = {} THEN New ELSE Read(Pick(s), to[s \ {Pick(s)}])]
  BY <1>3
<1>5. from_json(doc) = to[doc]
  BY FromJson
<1> HIDE DEF to
<1>6. to[{}] = New /\ \A s \in SUBSET doc : s # {} => to[s] = Read(Pick(s), to[s \ {Pick(s)}])
  BY <1>4
<1>7. <<to[doc], doc>> \in X
  <2>1. \A s \in SUBSET doc :
          s # {} /\ <<to[s \ {Pick(s)}], s \ {Pick(s)}>> \in X => <<to[s], s>> \in X
    BY <1>2, <1>6
  <2> QED BY <1>1, <1>6, <2>1, FoldInvariant
<1> QED BY <1>5, <1>7 DEF X

\* An export that is imported shows the live entries, with their counters and marks,
\* whatever was sampled, marked and removed before it.
THEOREM RoundTripCorrect == Spec => []RoundTrip
<1>1. ASSUME IInv PROVE RoundTrip
  <2> DEFINE rec(i) == [path |-> path_of(nodes, i), subvol |-> nodes[i].subvol, c |-> nodes[i].c]
             doc == {rec(i) : i \in Live(nodes)}
             t == from_json(doc)
  <2>1. /\ Arena(nodes) /\ Rooted(nodes) /\ Named(nodes) /\ Live(nodes) \subseteq DOMAIN nodes
        /\ IsFiniteSet(DOMAIN nodes)
    <3>1. Arena(nodes)
      BY <1>1 DEF IInv
    <3>2. Rooted(nodes)
      BY <3>1, ArenaFacts
    <3>3. 0 \in Int /\ Size(nodes) - 1 \in Int /\ DOMAIN nodes = 0..(Size(nodes) - 1)
      BY <3>2 DEF Rooted
    <3>4. IsFiniteSet(DOMAIN nodes)
      BY <3>3, FS_Interval
    <3> QED BY <3>1, <3>4, ArenaFacts DEF Live
  <2>2. to_json(nodes) = doc
    BY <2>1, ToJson
  <2>3. \A i \in Live(nodes) : rec(i) \in DocRec
    <3> TAKE i \in Live(nodes)
    <3>1. nodes[i] \in NodeRec /\ path_of(nodes, i) \in Seq(Name)
      BY <2>1, ArenaFacts, PathFacts
    <3> QED BY <3>1 DEF DocRec, NodeRec
  <2>4. \A d, e \in doc : d.path = e.path => d = e
    <3>1. ASSUME NEW i \in Live(nodes), NEW k \in Live(nodes), path_of(nodes, i) = path_of(nodes, k)
          PROVE  i = k
      BY <2>1, <3>1, OneLive
    <3> QED BY <3>1
  <2>5. IsFiniteSet(doc)
    <3> DEFINE h == [i \in Live(nodes) |-> rec(i)]
    <3>1. h \in Surjection(Live(nodes), doc)
      BY DEF Surjection
    <3>2. IsFiniteSet(Live(nodes))
      BY <2>1, FS_Subset
    <3> HIDE DEF h, doc
    <3> QED BY <3>1, <3>2, FS_Surjection
  <2>6. Holds(t, doc)
    <3>1. doc \in SUBSET DocRec
      BY <2>3
    <3> HIDE DEF doc
    <3> QED BY <2>4, <2>5, <3>1, FromJsonHolds
  <2> HIDE DEF t
  <2>7. ASSUME NEW i \in Live(nodes)
        PROVE  \E j \in DOMAIN t : /\ path_of(t, j) = path_of(nodes, i)
                                   /\ t[j].c = nodes[i].c /\ t[j].subvol = nodes[i].subvol
    <3>1. rec(i) \in doc
      OBVIOUS
    <3>2. PICK j \in DOMAIN t : path_of(t, j) = rec(i).path /\ t[j].c = rec(i).c /\ t[j].subvol = rec(i).subvol
      BY <2>6, <3>1 DEF Holds
    <3> QED BY <3>2
  <2>8. ASSUME NEW j \in DOMAIN t
        PROVE  \E i \in Live(nodes) : /\ path_of(t, j) = path_of(nodes, i)
                                      /\ t[j].c = nodes[i].c /\ t[j].subvol = nodes[i].subvol
    <3>1. \E i \in Live(nodes) : path_of(t, j) = path_of(nodes, i)
      <4>1. CASE path_of(t, j) = <<>>
        BY <2>1, <4>1, LiveFacts, PathFacts
      <4>2. CASE \E d \in doc : path_of(t, j) \in StrictPrefixes(d.path) \cup {d.path}
        <5>1. PICK i \in Live(nodes) :
                path_of(t, j) \in StrictPrefixes(path_of(nodes, i)) \cup {path_of(nodes, i)}
          BY <4>2
        <5>2. CASE path_of(t, j) = path_of(nodes, i)
          BY <5>2
        <5>3. CASE path_of(t, j) \in StrictPrefixes(path_of(nodes, i))
          <6>1. path_of(t, j) \in {path_of(nodes, k) : k \in Chain(nodes, i) \ {i}}
            BY <2>1, <5>3, ArenaHangs
          <6>2. Chain(nodes, i) \subseteq Live(nodes)
            BY <2>1, LiveFacts
          <6> QED BY <6>1, <6>2
        <5> QED BY <5>1, <5>2, <5>3
      <4> QED BY <2>6, <4>1, <4>2 DEF Holds
    <3>2. PICK i \in Live(nodes) : path_of(t, j) = path_of(nodes, i)
      BY <3>1
    <3>3. PICK k \in DOMAIN t : /\ path_of(t, k) = path_of(nodes, i)
                                /\ t[k].c = nodes[i].c /\ t[k].subvol = nodes[i].subvol
      BY <2>7
    <3>4. k = j
      <4>1. Arena(t) /\ k \in Live(t) /\ j \in Live(t) /\ path_of(t, k) = path_of(t, j)
        BY <2>6, <3>2, <3>3 DEF Holds
      <4> QED BY <4>1, OneLive
    <3> QED BY <3>2, <3>3, <3>4
  <2> DEFINE Shown(a, ids) == {<<path_of(a, i), a[i].c, a[i].subvol>> : i \in ids}
  <2>9. Shown(t, DOMAIN t) = Shown(nodes, Live(nodes))
    BY <2>7, <2>8
  <2>10. LiveNodes = Live(nodes)
    BY DEF LiveNodes, Live
  <2> HIDE DEF doc
  <2> QED BY <2>2, <2>9, <2>10 DEF RoundTrip, t
<1> QED BY <1>1, Invariance, PTL
=============================================================================
