---------------------------- MODULE FsDeleteProofs ----------------------------
(***************************************************************************)
(* Proofs about FsDelete: what a deletion removes and what it leaves, for  *)
(* any filesystem, target and interference.                                *)
(***************************************************************************)
EXTENDS FsDelete, FiniteSetTheorems, SequenceTheorems, WellFoundedInduction, TLAPS

-----------------------------------------------------------------------------
(* Induction. *)

LEMMA NatLeast ==
  ASSUME NEW T, T \subseteq Nat, T # {}
  PROVE  \E x \in T : \A y \in T : x <= y
<1> DEFINE R == {ss \in Nat \X Nat : ss[1] < ss[2]}
<1>1. IsWellFoundedOn(R, Nat)
  BY NatLessThanWellFounded DEF OpToRel
<1> HIDE DEF R
<1>2. PICK x \in T : \A y \in T : ~(<<y, x>> \in R)
  BY <1>1, WFMin
<1>3. ASSUME NEW y \in T PROVE x <= y
  <2>1. y \in Nat /\ x \in Nat /\ ~(<<y, x>> \in R) /\ <<y, x>> \in Nat \X Nat
    BY <1>2
  <2> QED BY <2>1 DEF R
<1> QED BY <1>3

\* A set of numbers that has 0 and the successor of each of its members has all.
LEMMA AllNumbers ==
  ASSUME NEW T, 0 \in T, \A n \in Nat : n \in T => n + 1 \in T
  PROVE  Nat \subseteq T
<1> SUFFICES ASSUME Nat \ T # {} PROVE FALSE
  OBVIOUS
<1>1. PICK x \in Nat \ T : \A y \in Nat \ T : x <= y
  BY NatLeast
<1>2. x # 0 /\ x - 1 \in Nat /\ x - 1 < x /\ (x - 1) + 1 = x
  BY <1>1
<1>3. x - 1 \in T
  BY <1>1, <1>2
<1> QED BY <1>1, <1>2, <1>3

-----------------------------------------------------------------------------
(* Trees. *)

Grown(e, S) == S \cup ({e[x] : x \in S \X Name} \ {Nil})
Closed(e, S) == \A d \in S : \A n \in Name : e[<<d, n>>] # Nil => e[<<d, n>>] \in S

LEMMA GrownFacts ==
  ASSUME NEW e \in Map, NEW S \in SUBSET Obj
  PROVE  /\ S \subseteq Grown(e, S) /\ Grown(e, S) \subseteq Obj
         /\ Closed(e, S) <=> Grown(e, S) = S
         /\ \A R \in SUBSET Obj : S \subseteq R /\ Closed(e, R) => Grown(e, S) \subseteq R
<1>1. \A d \in S : \A n \in Name : e[<<d, n>>] # Nil => e[<<d, n>>] \in Grown(e, S)
  BY DEF Grown
<1>2. \A z \in Grown(e, S) : z \in S \/ \E d \in S : \E n \in Name : z = e[<<d, n>>] /\ z # Nil
  BY DEF Grown
<1>3. \A d \in S : \A n \in Name : e[<<d, n>>] \in Obj \cup {Nil}
  BY DEF Map
<1>4. S \subseteq Grown(e, S)
  BY DEF Grown
<1>5. Grown(e, S) \subseteq Obj
  BY <1>2, <1>3
<1>6. Closed(e, S) <=> Grown(e, S) = S
  BY <1>1, <1>2, <1>4 DEF Closed
<1>7. ASSUME NEW R \in SUBSET Obj, S \subseteq R, Closed(e, R) PROVE Grown(e, S) \subseteq R
  <2> SUFFICES ASSUME NEW z \in Grown(e, S) PROVE z \in R
    OBVIOUS
  <2> QED BY <1>2, <1>7 DEF Closed
<1> QED BY <1>4, <1>5, <1>6, <1>7

\* below[k]: what is at most k steps below o.
Layers(e, o, m, below) ==
  below = [k \in 0..m |-> IF k = 0 THEN {o} ELSE Grown(e, below[k - 1])]

LEMMA LayersExist ==
  ASSUME NEW e, NEW o, NEW m \in Nat
  PROVE  \E below : Layers(e, o, m, below)
<1> DEFINE T == {k \in Nat : \E below : Layers(e, o, k, below)}
<1>1. 0 \in T
  <2> DEFINE f == [k \in 0..0 |-> {o}]
  <2>1. Layers(e, o, 0, f)
    BY DEF Layers
  <2> QED BY <2>1
<1>2. ASSUME NEW j \in Nat, j \in T PROVE j + 1 \in T
  <2>1. PICK f : Layers(e, o, j, f)
    BY <1>2
  <2> DEFINE g == [k \in 0..(j + 1) |-> IF k = j + 1 THEN Grown(e, f[j]) ELSE f[k]]
  <2>2. \A k \in 0..(j + 1) : g[k] = IF k = 0 THEN {o} ELSE Grown(e, g[k - 1])
    <3> SUFFICES ASSUME NEW k \in 0..(j + 1)
                 PROVE  g[k] = IF k = 0 THEN {o} ELSE Grown(e, g[k - 1])
      OBVIOUS
    <3>1. CASE k = j + 1
      <4>1. k # 0 /\ k - 1 = j /\ g[j] = f[j] /\ g[k] = Grown(e, f[j])
        BY <3>1
      <4> QED BY <3>1, <4>1
    <3>2. CASE k # j + 1
      <4>1. k \in 0..j /\ g[k] = f[k] /\ (k # 0 => g[k - 1] = f[k - 1])
        BY <3>2
      <4>2. f[k] = IF k = 0 THEN {o} ELSE Grown(e, f[k - 1])
        BY <2>1, <4>1 DEF Layers
      <4> QED BY <4>1, <4>2
    <3> QED BY <3>1, <3>2
  <2>3. g = [k \in 0..(j + 1) |-> IF k = 0 THEN {o} ELSE Grown(e, g[k - 1])]
    BY <2>2
  <2> HIDE DEF g
  <2> QED BY <2>3 DEF Layers
<1> HIDE DEF T
<1>3. m \in T
  BY <1>1, <1>2, AllNumbers
<1> QED BY <1>3 DEF T

LEMMA ObjFacts == IsFiniteSet(Obj) /\ Cardinality(Obj) \in Nat /\ Nil \notin Obj
BY DeleteAssumption, FS_CardinalityType

LEMMA TreeLayers ==
  ASSUME NEW e, NEW o
  PROVE  \E below : /\ Layers(e, o, Cardinality(Obj), below)
                    /\ Tree(e, o) = below[Cardinality(Obj)]
<1> DEFINE N == Cardinality(Obj)
           f == CHOOSE below : below = [k \in 0..N |-> IF k = 0 THEN {o} ELSE Grown(e, below[k - 1])]
<1>0. N \in Nat
  BY ObjFacts
<1>1. \E below : below = [k \in 0..N |-> IF k = 0 THEN {o} ELSE Grown(e, below[k - 1])]
  <2>1. \E below : Layers(e, o, N, below)
    BY <1>0, LayersExist
  <2> QED BY <2>1 DEF Layers
<1>2. f = [k \in 0..N |-> IF k = 0 THEN {o} ELSE Grown(e, f[k - 1])]
  BY <1>1
<1>3. Tree(e, o) = f[N]
  BY DEF Tree, Grown
<1> HIDE DEF f
<1> QED BY <1>2, <1>3 DEF Layers

\* A tree is the least set that has its root and what is in its directories.
LEMMA TreeFacts ==
  ASSUME NEW e \in Map, NEW o \in Obj
  PROVE  /\ o \in Tree(e, o) /\ Tree(e, o) \subseteq Obj
         /\ Closed(e, Tree(e, o))
         /\ \A S \in SUBSET Obj : o \in S /\ Closed(e, S) => Tree(e, o) \subseteq S
<1> DEFINE N == Cardinality(Obj)
<1>1. PICK below : Layers(e, o, N, below) /\ Tree(e, o) = below[N]
  BY TreeLayers
<1>2. below[0] = {o} /\ \A k \in Nat : k + 1 <= N => below[k + 1] = Grown(e, below[k])
  <2>1. \A k \in 0..N : below[k] = IF k = 0 THEN {o} ELSE Grown(e, below[k - 1])
    BY <1>1 DEF Layers
  <2>2. ASSUME NEW k \in Nat, k + 1 <= N PROVE below[k + 1] = Grown(e, below[k])
    <3>1. k + 1 \in 0..N /\ k + 1 # 0 /\ (k + 1) - 1 = k
      BY <2>2, ObjFacts
    <3> QED BY <2>1, <3>1
  <2> QED BY <2>1, <2>2, ObjFacts
<1>6. ASSUME NEW S \in SUBSET Obj, o \in S, Closed(e, S) PROVE below[N] \subseteq S
  <2> DEFINE T == {k \in Nat : k <= N => below[k] \subseteq S}
  <2>1. 0 \in T
    BY <1>2, <1>6
  <2>2. ASSUME NEW k \in Nat, k \in T PROVE k + 1 \in T
    <3> SUFFICES ASSUME k + 1 <= N PROVE below[k + 1] \subseteq S
      OBVIOUS
    <3>1. below[k] \subseteq S /\ below[k + 1] = Grown(e, below[k])
      BY <1>2, <2>2, ObjFacts
    <3> QED BY <1>6, <3>1, GrownFacts
  <2> HIDE DEF T
  <2>3. N \in T
    BY <2>1, <2>2, AllNumbers, ObjFacts
  <2> QED BY <2>3, ObjFacts DEF T
<1>7. /\ o \in below[N] /\ below[N] \subseteq Obj
      /\ Closed(e, below[N])
  <2> DEFINE Good(k) == /\ o \in below[k] /\ below[k] \subseteq Obj
                        /\ Closed(e, below[k]) \/ Cardinality(below[k]) >= k + 1
             T == {k \in Nat : k <= N => Good(k)}
  <2>1. 0 \in T
    <3>1. Cardinality(below[0]) = 1
      BY <1>2, FS_Singleton
    <3> QED BY <1>2, <3>1
  <2>2. ASSUME NEW k \in Nat, k \in T PROVE k + 1 \in T
    <3> SUFFICES ASSUME k + 1 <= N PROVE Good(k + 1)
      OBVIOUS
    <3>1. Good(k) /\ below[k + 1] = Grown(e, below[k])
      BY <1>2, <2>2, ObjFacts
    <3>2. o \in below[k + 1] /\ below[k + 1] \subseteq Obj /\ below[k] \subseteq below[k + 1]
      BY <3>1, GrownFacts
    <3>3. CASE below[k + 1] = below[k]
      BY <3>1, <3>2, <3>3, GrownFacts
    <3>4. CASE below[k + 1] # below[k]
      <4>1. Cardinality(below[k]) >= k + 1
        BY <3>1, <3>4, GrownFacts
      <4>2. /\ IsFiniteSet(below[k + 1]) /\ Cardinality(below[k]) \in Nat /\ Cardinality(below[k + 1]) \in Nat
            /\ Cardinality(below[k]) <= Cardinality(below[k + 1])
            /\ Cardinality(below[k]) # Cardinality(below[k + 1])
        <5>1. IsFiniteSet(below[k + 1]) /\ IsFiniteSet(below[k])
          BY <3>2, ObjFacts, FS_Subset
        <5> QED BY <3>2, <3>4, <5>1, FS_Subset, FS_CardinalityType
      <4> QED BY <3>2, <4>1, <4>2
    <3> QED BY <3>3, <3>4
  <2> HIDE DEF T
  <2>3. N \in T
    BY <2>1, <2>2, AllNumbers, ObjFacts
  <2>4. Good(N)
    BY <2>3, ObjFacts DEF T
  <2>5. Cardinality(below[N]) \in Nat /\ Cardinality(below[N]) <= N
    BY <2>4, ObjFacts, FS_Subset, FS_CardinalityType
  <2> QED BY <2>4, <2>5, ObjFacts
<1> QED BY <1>1, <1>6, <1>7

\* What is in a tree, other than its root, is in a directory of the tree.
LEMMA TreeParent ==
  ASSUME NEW e \in Map, NEW o \in Obj, NEW z \in Tree(e, o), z # o
  PROVE  \E x \in Obj \X Name : x[1] \in Tree(e, o) /\ e[x] = z
<1> DEFINE S == {y \in Tree(e, o) : y = o \/ \E x \in Obj \X Name : x[1] \in Tree(e, o) /\ e[x] = y}
<1>1. o \in Tree(e, o) /\ Tree(e, o) \subseteq Obj /\ Closed(e, Tree(e, o))
  BY TreeFacts
<1>2. S \in SUBSET Obj /\ o \in S
  BY <1>1
<1>3. Closed(e, S)
  <2> SUFFICES ASSUME NEW d \in S, NEW n \in Name, e[<<d, n>>] # Nil PROVE e[<<d, n>>] \in S
    BY DEF Closed
  <2>1. d \in Tree(e, o) /\ <<d, n>> \in Obj \X Name /\ <<d, n>>[1] = d
    BY <1>1
  <2>2. e[<<d, n>>] \in Tree(e, o)
    BY <1>1, <2>1 DEF Closed
  <2> QED BY <2>1, <2>2
<1> HIDE DEF S
<1>4. Tree(e, o) \subseteq S
  BY <1>2, <1>3, TreeFacts
<1> QED BY <1>4 DEF S

\* A tree has the trees of what is in it.
LEMMA TreeInside ==
  ASSUME NEW e \in Map, NEW o \in Obj, NEW z \in Tree(e, o)
  PROVE  z \in Obj /\ Tree(e, z) \subseteq Tree(e, o)
BY TreeFacts

\* Only what is reached through the entries X can be lost by changing them.
LEMMA TreeCut ==
  ASSUME NEW e \in Map, NEW g \in Map, NEW o \in Obj, NEW X \in SUBSET (Obj \X Name),
         \A x \in (Obj \X Name) \ X : g[x] = e[x] \/ e[x] = Nil
  PROVE  \A z \in Tree(e, o) :
           z \in Tree(g, o) \/ \E x \in X : e[x] # Nil /\ z \in Tree(e, e[x])
<1> DEFINE Cut(z) == \E x \in X : e[x] # Nil /\ z \in Tree(e, e[x])
           S == {z \in Obj : z \in Tree(g, o) \/ Cut(z)}
<1>1. o \in Tree(g, o) /\ Closed(g, Tree(g, o)) /\ S \in SUBSET Obj
  BY TreeFacts
<1>2. Closed(e, S)
  <2> SUFFICES ASSUME NEW d \in S, NEW n \in Name, e[<<d, n>>] # Nil PROVE e[<<d, n>>] \in S
    BY DEF Closed
  <2> DEFINE y == <<d, n>>
             c == e[y]
  <2>1. y \in Obj \X Name /\ c \in Obj
    BY DEF Map
  <2>2. CASE Cut(d)
    <3>1. PICK x \in X : e[x] # Nil /\ d \in Tree(e, e[x])
      BY <2>2
    <3>2. e[x] \in Obj
      BY <3>1 DEF Map
    <3>3. c \in Tree(e, e[x])
      BY <3>1, <3>2, TreeFacts DEF Closed
    <3> QED BY <2>1, <3>1, <3>3
  <2>3. CASE d \in Tree(g, o) /\ y \notin X
    <3>1. g[y] = c
      BY <2>1, <2>3
    <3>2. c \in Tree(g, o)
      BY <1>1, <2>3, <3>1 DEF Closed
    <3> QED BY <2>1, <3>2
  <2>4. CASE y \in X
    <3>1. c \in Tree(e, c)
      BY <2>1, TreeFacts
    <3> QED BY <2>1, <2>4, <3>1
  <2> QED BY <2>2, <2>3, <2>4
<1> HIDE DEF S
<1>3. o \in S
  BY <1>1 DEF S
<1>4. Tree(e, o) \subseteq S
  BY <1>1, <1>2, <1>3, TreeFacts
<1> QED BY <1>4 DEF S

\* Nothing has two names, and the top level has none.
Tidy(e) ==
  /\ \A x \in Obj \X Name : e[x] # Top
  /\ \A x, y \in Obj \X Name : e[x] # Nil /\ e[x] = e[y] => x = y

\* Once an entry is taken out of a tidy filesystem, nothing at or below what it named
\* is linked.
LEMMA TreeApart ==
  ASSUME NEW e \in Map, Tidy(e), NEW x \in Obj \X Name, e[x] # Nil,
         NEW g \in Map, \A y \in Obj \X Name : g[y] = e[y] \/ g[y] = Nil, g[x] = Nil
  PROVE  Tree(g, Top) \cap Tree(e, e[x]) = {}
<1> DEFINE c == e[x]
           S == Tree(g, Top) \ Tree(e, c)
<1>0. c \in Obj /\ Top \in Obj
  BY DeleteAssumption DEF Map
<1>1. /\ Top \in Tree(g, Top) /\ Closed(g, Tree(g, Top)) /\ Tree(g, Top) \subseteq Obj
      /\ c \in Tree(e, c)
  BY <1>0, TreeFacts
<1>2. Top \notin Tree(e, c)
  BY <1>0, TreeParent DEF Tidy
<1>3. Closed(g, S)
  <2> SUFFICES ASSUME NEW d \in S, NEW n \in Name, g[<<d, n>>] # Nil PROVE g[<<d, n>>] \in S
    BY DEF Closed
  <2> DEFINE y == <<d, n>>
  <2>1. y \in Obj \X Name /\ y[1] = d /\ g[y] = e[y] /\ g[y] \in Tree(g, Top)
    BY <1>1 DEF Closed
  <2>2. ASSUME g[y] \in Tree(e, c) PROVE FALSE
    <3>1. CASE g[y] = c
      BY <2>1, <3>1 DEF Tidy
    <3>2. CASE g[y] # c
      <4>1. PICK w \in Obj \X Name : w[1] \in Tree(e, c) /\ e[w] = g[y]
        BY <1>0, <2>2, <3>2, TreeParent
      <4>2. w = y
        BY <2>1, <4>1 DEF Tidy
      <4> QED BY <2>1, <4>1, <4>2
    <3> QED BY <3>1, <3>2
  <2> QED BY <2>1, <2>2
<1> HIDE DEF S
<1>4. Top \in S /\ S \in SUBSET Obj
  BY <1>1, <1>2 DEF S
<1>5. Tree(g, Top) \subseteq S
  BY <1>0, <1>3, <1>4, TreeFacts
<1> QED BY <1>5 DEF S

-----------------------------------------------------------------------------
(* The way to the target. *)

K == Len(Target)

LEMMA TargetFacts == /\ K \in Nat /\ K # 0 /\ Target \in Seq(Name) /\ Steps = 0..K
                     /\ \A i \in 1..K : Target[i] \in Name
BY DeleteAssumption DEF K, Steps

\* What the i-th component leads to, from the objects S.
Onward(e, w, S, i) == w[i] \cup ({e[<<d, Target[i]>>] : d \in S} \ {Nil})

LEMMA OnwardFacts ==
  ASSUME NEW e, NEW w, NEW S, NEW i
  PROVE  /\ w[i] \subseteq Onward(e, w, S, i)
         /\ \A d \in S : e[<<d, Target[i]>>] \in Onward(e, w, S, i) \cup {Nil}
         /\ \A z \in Onward(e, w, S, i) :
              z \in w[i] \/ (z # Nil /\ \E d \in S : z = e[<<d, Target[i]>>])
BY DEF Onward

\* on[i]: what is or was at i components.
OnWay(e, w, m, on) ==
  on = [i \in 0..m |-> IF i = 0 THEN {Top} ELSE Onward(e, w, on[i - 1], i)]

LEMMA WayExists ==
  ASSUME NEW e, NEW w, NEW m \in Nat
  PROVE  \E on : OnWay(e, w, m, on)
<1> DEFINE T == {j \in Nat : \E on : OnWay(e, w, j, on)}
<1>1. 0 \in T
  <2> DEFINE f == [i \in 0..0 |-> {Top}]
  <2>1. OnWay(e, w, 0, f)
    BY DEF OnWay
  <2> QED BY <2>1
<1>2. ASSUME NEW j \in Nat, j \in T PROVE j + 1 \in T
  <2>1. PICK f : OnWay(e, w, j, f)
    BY <1>2
  <2> DEFINE g == [i \in 0..(j + 1) |-> IF i = j + 1 THEN Onward(e, w, f[j], j + 1) ELSE f[i]]
  <2>2. \A i \in 0..(j + 1) : g[i] = IF i = 0 THEN {Top} ELSE Onward(e, w, g[i - 1], i)
    <3> SUFFICES ASSUME NEW i \in 0..(j + 1)
                 PROVE  g[i] = IF i = 0 THEN {Top} ELSE Onward(e, w, g[i - 1], i)
      OBVIOUS
    <3>1. CASE i = j + 1
      <4>1. i # 0 /\ i - 1 = j /\ g[j] = f[j] /\ g[i] = Onward(e, w, f[j], j + 1)
        BY <3>1
      <4> QED BY <3>1, <4>1
    <3>2. CASE i # j + 1
      <4>1. i \in 0..j /\ g[i] = f[i] /\ (i # 0 => g[i - 1] = f[i - 1])
        BY <3>2
      <4>2. f[i] = IF i = 0 THEN {Top} ELSE Onward(e, w, f[i - 1], i)
        BY <2>1, <4>1 DEF OnWay
      <4> QED BY <4>1, <4>2
    <3> QED BY <3>1, <3>2
  <2>3. g = [i \in 0..(j + 1) |-> IF i = 0 THEN {Top} ELSE Onward(e, w, g[i - 1], i)]
    BY <2>2
  <2> HIDE DEF g
  <2> QED BY <2>3 DEF OnWay
<1> HIDE DEF T
<1>3. m \in T
  BY <1>1, <1>2, AllNumbers
<1> QED BY <1>3 DEF T

LEMMA WayDefined ==
  ASSUME NEW e, NEW w
  PROVE  OnWay(e, w, K, WayIn(e, w))
<1> DEFINE f == CHOOSE on : on = [i \in 0..K |-> IF i = 0 THEN {Top} ELSE Onward(e, w, on[i - 1], i)]
<1>1. \E on : on = [i \in 0..K |-> IF i = 0 THEN {Top} ELSE Onward(e, w, on[i - 1], i)]
  <2>1. \E on : OnWay(e, w, K, on)
    BY TargetFacts, WayExists
  <2> QED BY <2>1 DEF OnWay
<1>2. f = [i \in 0..K |-> IF i = 0 THEN {Top} ELSE Onward(e, w, f[i - 1], i)]
  BY <1>1
<1>3. WayIn(e, w) = f
  BY DEF WayIn, Steps, K, Onward
<1> HIDE DEF f
<1> QED BY <1>2, <1>3 DEF OnWay

\* What each component adds to the way.
LEMMA WayFacts ==
  ASSUME NEW e \in Map, NEW w
  PROVE  /\ WayIn(e, w) = [i \in Steps |-> WayIn(e, w)[i]] /\ WayIn(e, w)[0] = {Top}
         /\ \A i \in 1..K : w[i] \subseteq WayIn(e, w)[i]
         /\ \A i \in 1..K : \A d \in WayIn(e, w)[i - 1] :
              e[<<d, Target[i]>>] \in WayIn(e, w)[i] \cup {Nil}
         /\ \A i \in 1..K : \A z \in WayIn(e, w)[i] :
              z \in w[i] \/ (z # Nil /\ \E d \in WayIn(e, w)[i - 1] : z = e[<<d, Target[i]>>])
<1> DEFINE on == WayIn(e, w)
<1>1. on = [i \in 0..K |-> IF i = 0 THEN {Top} ELSE Onward(e, w, on[i - 1], i)]
  BY WayDefined DEF OnWay
<1> HIDE DEF on
<1>2. on[0] = {Top}
  BY <1>1, TargetFacts
<1>3. \A i \in 1..K : on[i] = Onward(e, w, on[i - 1], i)
  <2> SUFFICES ASSUME NEW i \in 1..K PROVE on[i] = Onward(e, w, on[i - 1], i)
    OBVIOUS
  <2>1. i \in 0..K /\ i # 0
    BY TargetFacts
  <2> QED BY <1>1, <2>1
<1>4. on = [i \in Steps |-> on[i]]
  <2>1. on = [i \in 0..K |-> on[i]]
    BY <1>1
  <2> QED BY <2>1, TargetFacts
<1>5. \A i \in 1..K : w[i] \subseteq on[i]
  BY <1>3, OnwardFacts
<1>6. \A i \in 1..K : \A d \in on[i - 1] : e[<<d, Target[i]>>] \in on[i] \cup {Nil}
  BY <1>3, OnwardFacts
<1>7. \A i \in 1..K : \A z \in on[i] :
        z \in w[i] \/ (z # Nil /\ \E d \in on[i - 1] : z = e[<<d, Target[i]>>])
  BY <1>3, OnwardFacts
<1> QED BY <1>2, <1>4, <1>5, <1>6, <1>7 DEF on

\* The way stays within a set that is closed under the entries.
LEMMA WayInside ==
  ASSUME NEW e \in Map, NEW w, NEW A \in SUBSET Obj, Top \in A, Closed(e, A),
         \A i \in Steps : w[i] \subseteq A
  PROVE  \A i \in Steps : WayIn(e, w)[i] \subseteq A
<1> DEFINE on == WayIn(e, w)
           T == {i \in Nat : i <= K => on[i] \subseteq A}
<1>1. 0 \in T
  BY WayFacts
<1>2. ASSUME NEW i \in Nat, i \in T PROVE i + 1 \in T
  <2> SUFFICES ASSUME i + 1 <= K, NEW z \in on[i + 1] PROVE z \in A
    OBVIOUS
  <2>1. i + 1 \in 1..K /\ i + 1 \in Steps /\ (i + 1) - 1 = i /\ on[i] \subseteq A
        /\ Target[i + 1] \in Name
    BY <1>2, TargetFacts
  <2>2. z \in w[i + 1] \/ (z # Nil /\ \E d \in on[i] : z = e[<<d, Target[i + 1]>>])
    BY <2>1, WayFacts
  <2> QED BY <2>1, <2>2 DEF Closed
<1> HIDE DEF T
<1>3. Nat \subseteq T
  BY <1>1, <1>2, AllNumbers
<1> QED BY <1>3, TargetFacts DEF T

-----------------------------------------------------------------------------
(* The calls under way. *)

\* What holds of the i-th frame of a stack, when w is the way to the target and S what is
\* or was in the tree of the target.
Good(fr, i, w, S) ==
  /\ IsDir(fr.dir)
  /\ fr.fn = "open_parent" =>
       /\ i = 1 /\ fr.pc = "start" /\ Len(fr.path) <= K - 1
       /\ fr.dir \in w[K - 1 - Len(fr.path)]
       /\ \A j \in 1..Len(fr.path) : fr.path[j] = Target[K - 1 - Len(fr.path) + j]
  /\ fr.fn = "delete_at" =>
       /\ fr.name \in Name
       /\ i = 1 => fr.dir \in w[K - 1] /\ fr.name = Target[K]
       /\ i # 1 => fr.dir \in S
       /\ fr.pc = "unlink" => fr.st # Nil /\ ~IsDir(fr.st)
       /\ fr.pc = "open" => IsDir(fr.st)
       /\ fr.pc \in {"list", "loop"} => fr.fd \in S /\ Kind[fr.fd] = "dir" /\ fr.fd = fr.st
  /\ fr.fn = "destroy_nested" =>
       /\ i # 1 /\ fr.dir \in S
       /\ fr.pc \in {"start", "loop", "open"} /\ (fr.pc = "open" => fr.name \in Name)

\* Frame c may have called frame f.
Calls(c, f) ==
  \/ c.fn = "destroy_nested" /\ (f.fn = "delete_at" => f.dir = c.dir) /\ f.fn # "open_parent"
  \/ c.fn = "delete_at" /\ c.pc = "destroy" /\ f.fn = "destroy_nested"
  \/ c.fn = "delete_at" /\ c.pc = "loop" /\ f.fn = "delete_at" /\ f.dir = c.fd

GoodStack(s, w, S) ==
  /\ s \in Seq(Frames)
  /\ \A i \in 1..Len(s) : Good(s[i], i, w, S)
  /\ \A i \in 2..Len(s) : Calls(s[i - 1], s[i])

LEMMA FrontFacts ==
  ASSUME NEW F, NEW s \in Seq(F), s # <<>>
  PROVE  /\ Front(s) \in Seq(F) /\ Len(s) \in Nat \ {0} /\ Len(Front(s)) = Len(s) - 1
         /\ \A i \in 1..(Len(s) - 1) : Front(s)[i] = s[i]
         /\ Last(s) = s[Len(s)] /\ Last(s) \in F
<1>1. Len(s) \in Nat \ {0} /\ Len(s) \in 1..Len(s)
  OBVIOUS
<1>2. Front(s) \in Seq(F) /\ Len(Front(s)) = Len(s) - 1
      /\ \A i \in 1..(Len(s) - 1) : Front(s)[i] = s[i]
  <2> DEFINE n == Len(s) - 1
  <2>1. n \in Nat /\ n < Len(s)
    BY <1>1
  <2>2. \A i \in 1..n : s[i] \in F
    BY <2>1
  <2> HIDE DEF n
  <2>3. SubSeq(s, 1, n) \in Seq(F) /\ Len(SubSeq(s, 1, n)) = n
    BY <2>1, <2>2, SubSeqProperties
  <2>4. \A i \in 1..n : SubSeq(s, 1, n)[i] = s[i]
    BY <2>1, <2>2, SubSeqProperties
  <2> QED BY <2>3, <2>4 DEF Front, n
<1>3. Last(s) = s[Len(s)] /\ s[Len(s)] \in F
  BY <1>1 DEF Last
<1> QED BY <1>1, <1>2, <1>3

LEMMA TopFrame ==
  ASSUME NEW s, NEW w, NEW S, GoodStack(s, w, S), s # <<>>
  PROVE  /\ Last(s) \in Frames /\ Len(s) \in Nat \ {0} /\ Good(Last(s), Len(s), w, S)
         /\ Last(s) = s[Len(s)]
         /\ Len(s) # 1 => Calls(s[Len(s) - 1], Last(s))
<1>1. Len(s) \in Nat \ {0} /\ Last(s) = s[Len(s)] /\ Last(s) \in Frames
  BY FrontFacts DEF GoodStack
<1>2. Len(s) \in 1..Len(s) /\ (Len(s) # 1 => Len(s) \in 2..Len(s))
  <2> DEFINE n == Len(s)
  <2>1. n \in Nat /\ n >= 1
    BY <1>1
  <2> HIDE DEF n
  <2>2. n \in 1..n /\ (n # 1 => n \in 2..n)
    BY <2>1
  <2> QED BY <2>2 DEF n
<1>3. Good(s[Len(s)], Len(s), w, S)
  BY <1>2 DEF GoodStack
<1>4. Len(s) # 1 => Calls(s[Len(s) - 1], s[Len(s)])
  BY <1>2 DEF GoodStack
<1> QED BY <1>1, <1>3, <1>4

LEMMA StackReturn ==
  ASSUME NEW s, NEW w, NEW S, GoodStack(s, w, S), s # <<>>
  PROVE  GoodStack(Front(s), w, S) /\ (Front(s) = <<>> <=> Len(s) = 1)
<1> DEFINE t == Front(s)
<1>1. t \in Seq(Frames) /\ Len(s) \in Nat \ {0} /\ Len(t) = Len(s) - 1
      /\ \A i \in 1..(Len(s) - 1) : t[i] = s[i]
  BY FrontFacts DEF GoodStack
<1> HIDE DEF t
<1>2. ASSUME NEW i \in 1..Len(t) PROVE Good(t[i], i, w, S)
  <2>1. i \in 1..Len(s) /\ t[i] = s[i]
    BY <1>1
  <2> QED BY <2>1 DEF GoodStack
<1>3. ASSUME NEW i \in 2..Len(t) PROVE Calls(t[i - 1], t[i])
  <2>1. i \in 2..Len(s) /\ t[i] = s[i] /\ t[i - 1] = s[i - 1]
    BY <1>1
  <2> QED BY <2>1 DEF GoodStack
<1>4. t = <<>> <=> Len(s) = 1
  BY <1>1
<1> QED BY <1>1, <1>2, <1>3, <1>4 DEF GoodStack, t

LEMMA StackPush ==
  ASSUME NEW s, NEW w, NEW S, GoodStack(s, w, S), NEW f \in Frames,
         Good(f, Len(s) + 1, w, S), Len(s) # 0 => Calls(s[Len(s)], f)
  PROVE  GoodStack(Append(s, f), w, S) /\ Append(s, f) # <<>>
         /\ Len(Append(s, f)) = Len(s) + 1 /\ Append(s, f)[Len(s) + 1] = f
<1> DEFINE t == Append(s, f)
           n == Len(s)
<1>1. t \in Seq(Frames) /\ n \in Nat /\ Len(t) = n + 1
      /\ (\A i \in 1..n : t[i] = s[i]) /\ t[n + 1] = f /\ t # <<>>
  <2>1. s \in Seq(Frames)
    BY DEF GoodStack
  <2> QED BY <2>1
<1> HIDE DEF t, n
<1>2. ASSUME NEW i \in 1..Len(t) PROVE Good(t[i], i, w, S)
  <2>1. CASE i = n + 1
    BY <1>1, <2>1 DEF n
  <2>2. CASE i # n + 1
    <3>1. i \in 1..Len(s) /\ t[i] = s[i]
      BY <1>1, <2>2 DEF n
    <3> QED BY <3>1 DEF GoodStack
  <2> QED BY <2>1, <2>2
<1>3. ASSUME NEW i \in 2..Len(t) PROVE Calls(t[i - 1], t[i])
  <2>1. CASE i = n + 1
    <3>1. n # 0 /\ i - 1 = n /\ t[i - 1] = s[n] /\ t[i] = f
      BY <1>1, <2>1
    <3> QED BY <3>1 DEF n
  <2>2. CASE i # n + 1
    <3>1. i \in 2..Len(s) /\ t[i] = s[i] /\ t[i - 1] = s[i - 1]
      BY <1>1, <2>2 DEF n
    <3> QED BY <3>1 DEF GoodStack
  <2> QED BY <2>1, <2>2
<1> QED BY <1>1, <1>2, <1>3 DEF GoodStack, t, n

\* The innermost frame becomes f: the function and the directory stay, or are those of a
\* sole frame.
LEMMA StackBecome ==
  ASSUME NEW s, NEW w, NEW S, GoodStack(s, w, S), s # <<>>, NEW f \in Frames,
         Good(f, Len(s), w, S),
         Len(s) = 1 \/ (f.fn = Last(s).fn /\ f.dir = Last(s).dir)
  PROVE  LET t == Append(Front(s), f) IN
         GoodStack(t, w, S) /\ t # <<>> /\ Len(t) = Len(s) /\ t[Len(s)] = f
<1>1. GoodStack(Front(s), w, S)
  BY StackReturn
<1>2. Len(s) \in Nat \ {0} /\ Len(Front(s)) = Len(s) - 1 /\ Last(s) = s[Len(s)]
      /\ \A i \in 1..(Len(s) - 1) : Front(s)[i] = s[i]
  BY FrontFacts DEF GoodStack
<1>3. Len(Front(s)) # 0 => Calls(Front(s)[Len(Front(s))], f)
  <2> SUFFICES ASSUME Len(s) # 1 PROVE Calls(s[Len(s) - 1], f)
    BY <1>2
  <2>1. Calls(s[Len(s) - 1], Last(s))
    BY TopFrame
  <2> QED BY <2>1 DEF Calls
<1>4. (Len(s) - 1) + 1 = Len(s)
  BY <1>2
<1> QED BY <1>1, <1>2, <1>3, <1>4, StackPush

\* The innermost frame becomes c and calls f.
LEMMA StackCall ==
  ASSUME NEW s, NEW w, NEW S, GoodStack(s, w, S), s # <<>>, NEW c \in Frames, NEW f \in Frames,
         Good(c, Len(s), w, S), c.fn = Last(s).fn, c.dir = Last(s).dir,
         Good(f, Len(s) + 1, w, S), Calls(c, f)
  PROVE  LET t == Front(s) \o <<c, f>> IN GoodStack(t, w, S) /\ t # <<>>
<1> DEFINE u == Append(Front(s), c)
<1>1. GoodStack(u, w, S) /\ u # <<>> /\ Len(u) = Len(s) /\ u[Len(s)] = c
  BY StackBecome
<1>2. Front(s) \o <<c, f>> = Append(u, f)
  BY FrontFacts DEF GoodStack
<1> HIDE DEF u
<1>3. GoodStack(Append(u, f), w, S) /\ Append(u, f) # <<>>
  BY <1>1, StackPush
<1> QED BY <1>2, <1>3

\* What was on the way, or in the tree of the target, once, stays.
LEMMA StackGrow ==
  ASSUME NEW s, NEW w, NEW S, GoodStack(s, w, S), NEW v, NEW R,
         \A i \in Steps : w[i] \subseteq v[i], S \subseteq R
  PROVE  GoodStack(s, v, R)
<1>1. K - 1 \in Steps
  BY TargetFacts
<1>2. ASSUME NEW i \in 1..Len(s) PROVE Good(s[i], i, v, R)
  <2>1. Good(s[i], i, w, S) /\ s[i] \in Frames
    BY DEF GoodStack
  <2>2. Len(s[i].path) <= K - 1 => K - 1 - Len(s[i].path) \in Steps
    BY <2>1, TargetFacts DEF Frames
  <2> QED BY <1>1, <2>1, <2>2 DEF Good
<1> QED BY <1>2 DEF GoodStack

-----------------------------------------------------------------------------
(* What the deletion may remove. *)

LEMMA SeenFacts ==
  ASSUME NEW e \in Map, NEW w \in [Steps -> SUBSET Obj], NEW S \in SUBSET Obj
  PROVE  /\ SeenIn(e, w, S) \in SUBSET Obj /\ S \subseteq SeenIn(e, w, S)
         /\ w[K] \subseteq SeenIn(e, w, S) /\ Closed(e, SeenIn(e, w, S))
         /\ \A z \in SeenIn(e, w, S) : \E o \in S \cup w[K] : z \in Tree(e, o)
<1> DEFINE R == SeenIn(e, w, S)
<1>1. w[K] \in SUBSET Obj
  BY TargetFacts
<1>2. \A z : z \in R <=> \E o \in S \cup w[K] : z \in Tree(e, o)
  BY DEF SeenIn, K
<1> HIDE DEF R
<1>3. \A o \in S \cup w[K] : o \in Tree(e, o) /\ Tree(e, o) \subseteq Obj /\ Closed(e, Tree(e, o))
  BY <1>1, TreeFacts
<1>4. R \in SUBSET Obj /\ S \subseteq R /\ w[K] \subseteq R
  BY <1>2, <1>3
<1>5. Closed(e, R)
  BY <1>2, <1>3 DEF Closed
<1> QED BY <1>2, <1>4, <1>5 DEF R

Typed ==
  /\ entry \in Map /\ owner \in [Obj -> Obj \cup {Nil}]
  /\ result = "running" <=> stack # <<>>
  /\ result \in {"running", "ok", "err"}
  /\ foreign \in 0..MaxForeign /\ moved \in BOOLEAN
  /\ way \in [Steps -> SUBSET Obj] /\ seen \in SUBSET Obj /\ lost \in SUBSET Obj

\* The histories hold all that can be reached, and nothing but what they hold is lost.
SeenInv ==
  /\ Closed(entry, seen) /\ way[K] \subseteq seen /\ lost \subseteq seen
  /\ way[0] = {Top}
  /\ \A i \in 1..K : \A d \in way[i - 1] : entry[<<d, Target[i]>>] \in way[i] \cup {Nil}

IInv == Typed /\ SeenInv /\ GoodStack(stack, way, seen)

LEMMA IInvTypes == IInv => TypeOK
<1> SUFFICES ASSUME IInv PROVE TypeOK
  OBVIOUS
<1>1. stack \in Seq(Frames) /\ \A i \in 1..Len(stack) : IsDir(stack[i].dir)
  BY DEF IInv, GoodStack, Good
<1>2. DOMAIN stack = 1..Len(stack)
  BY <1>1
<1> QED BY <1>1, <1>2 DEF TypeOK, IInv, Typed

LEMMA IInvInit == Init => IInv
<1> SUFFICES ASSUME Init PROVE IInv
  OBVIOUS
<1> DEFINE none == [i \in Steps |-> {}]
           f == [Frame("open_parent", Top, Nil) EXCEPT !.path = Front(Target)]
<1>1. entry \in Map /\ Top \in Obj /\ IsDir(Top)
  BY DeleteAssumption DEF Init, Filesystem, IsDir
<1>2. Linked(entry) \subseteq Obj
  BY <1>1, TreeFacts DEF Linked
<1>3. owner \in [Obj -> Obj \cup {Nil}]
  <2> DEFINE P(o, v) == Kind[v] = "subvol" /\ o \in Own(entry, v)
             home(o) == IF Kind[o] = "subvol" THEN o
                        ELSE IF \E v \in Linked(entry) : P(o, v)
                             THEN CHOOSE v \in Linked(entry) : P(o, v) ELSE Nil
  <2>1. owner = [o \in Obj |-> home(o)]
    BY DEF Init
  <2> HIDE DEF P
  <2>2. \A o \in Obj : home(o) \in Obj \cup {Nil}
    BY <1>2
  <2> HIDE DEF home
  <2> QED BY <2>1, <2>2
<1>4. way = WayIn(entry, none) /\ seen = SeenIn(entry, way, {})
  BY DEF Init
<1>5. \A i \in Steps : way[i] \subseteq Obj
  <2>1. Closed(entry, Obj)
    BY <1>1 DEF Closed, Map
  <2>2. \A i \in Steps : none[i] \subseteq Obj
    OBVIOUS
  <2> HIDE DEF none
  <2> QED BY <1>1, <1>4, <2>1, <2>2, WayInside
<1>6. way \in [Steps -> SUBSET Obj]
  <2> DEFINE v == WayIn(entry, none)
  <2>0. v = [i \in Steps |-> v[i]]
    BY <1>1, WayFacts
  <2> HIDE DEF v
  <2>1. way = [i \in Steps |-> way[i]]
    BY <1>4, <2>0 DEF v
  <2> QED BY <1>5, <2>1
<1>7. seen \in SUBSET Obj /\ way[K] \subseteq seen /\ Closed(entry, seen)
  <2>1. {} \in SUBSET Obj
    OBVIOUS
  <2> DEFINE R == SeenIn(entry, way, {})
  <2>2. R \in SUBSET Obj /\ way[K] \subseteq R /\ Closed(entry, R)
    BY <1>1, <1>6, <2>1, SeenFacts
  <2>3. seen = R
    BY <1>4
  <2> HIDE DEF R
  <2> QED BY <2>2, <2>3
<1>8. way[0] = {Top} /\ \A i \in 1..K : \A d \in way[i - 1] : entry[<<d, Target[i]>>] \in way[i] \cup {Nil}
  BY <1>1, <1>4, WayFacts
<1>9. GoodStack(stack, way, seen)
  <2>1. Front(Target) \in Seq(Name) /\ Len(Front(Target)) = K - 1
        /\ \A j \in 1..(K - 1) : Front(Target)[j] = Target[j]
    BY DeleteAssumption, FrontFacts DEF K
  <2>2. f = [fn |-> "open_parent", pc |-> "start", dir |-> Top, name |-> Nil, st |-> Nil,
             fd |-> Nil, todo |-> {}, path |-> Front(Target)]
    BY DEF Frame
  <2>3. f \in Frames
    BY <1>1, <2>1, <2>2 DEF Frames
  <2>4. Good(f, 1, way, seen)
    <3>1. K - 1 <= K - 1 /\ K - 1 - (K - 1) = 0 /\ \A j \in 1..(K - 1) : 0 + j = j
      BY TargetFacts
    <3> HIDE DEF f
    <3>2. /\ f.fn = "open_parent" /\ f.pc = "start" /\ f.dir = Top
          /\ f.path = Front(Target)
      BY <2>2
    <3> QED BY <1>1, <1>8, <2>1, <3>1, <3>2 DEF Good
  <2> HIDE DEF f
  <2>5. stack = <<f>>
    BY DEF Init, f
  <2> QED BY <2>3, <2>4, <2>5 DEF GoodStack
<1>10. stack # <<>> /\ result = "running" /\ foreign \in 0..MaxForeign /\ moved \in BOOLEAN /\ lost = {}
  <2>1. stack # <<>>
    <3>1. stack = <<f>>
      BY DEF Init
    <3> HIDE DEF f
    <3> QED BY <3>1
  <2>2. result = "running" /\ foreign = 0 /\ moved = FALSE /\ lost = {}
    BY DEF Init
  <2>3. MaxForeign \in Nat
    BY DeleteAssumption
  <2>4. foreign \in 0..MaxForeign
    BY <2>2, <2>3
  <2>5. moved \in BOOLEAN
    BY <2>2
  <2> QED BY <2>1, <2>2, <2>4, <2>5
<1>11. Typed
  BY <1>1, <1>3, <1>6, <1>7, <1>10 DEF Typed
<1>12. SeenInv
  BY <1>7, <1>8, <1>10 DEF SeenInv
<1> QED BY <1>9, <1>11, <1>12 DEF IInv

\* A step that only reads.
LEMMA ReadKeeps ==
  ASSUME IInv, Reads, result' \in {"running", "ok", "err"}, result' = "running" <=> stack' # <<>>,
         GoodStack(stack', way, seen)
  PROVE  IInv'
BY DEF IInv, Typed, SeenInv, Reads, fs

\* An error ends it all.
LEMMA FailKeeps == ASSUME IInv, Fail, Reads PROVE IInv'
<1>1. GoodStack(<<>>, way, seen)
  BY DEF GoodStack
<1> QED BY <1>1, ReadKeeps DEF Fail

LEMMA ReturnStack ==
  ASSUME IInv, stack # <<>>, Return
  PROVE  /\ GoodStack(stack', way, seen) /\ result' \in {"running", "ok", "err"}
         /\ result' = "running" <=> stack' # <<>>
BY StackReturn DEF IInv, Return

LEMMA BecomeKeeps ==
  ASSUME IInv, stack # <<>>, Reads, NEW f \in Frames, Become(f), Good(f, Len(stack), way, seen),
         Len(stack) = 1 \/ (f.fn = Now.fn /\ f.dir = Now.dir)
  PROVE  IInv'
<1>1. GoodStack(Append(Front(stack), f), way, seen) /\ Append(Front(stack), f) # <<>>
  BY StackBecome DEF IInv, Now
<1>2. stack' = Append(Front(stack), f) /\ result' = result /\ result = "running"
  BY DEF Become, IInv, Typed
<1> QED BY <1>1, <1>2, ReadKeeps

LEMMA CallKeeps ==
  ASSUME IInv, stack # <<>>, Reads, NEW c \in Frames, NEW f \in Frames, Call(c, f),
         Good(c, Len(stack), way, seen), c.fn = Now.fn, c.dir = Now.dir,
         Good(f, Len(stack) + 1, way, seen), Calls(c, f)
  PROVE  IInv'
<1>1. GoodStack(Front(stack) \o <<c, f>>, way, seen) /\ Front(stack) \o <<c, f>> # <<>>
  BY StackCall DEF IInv, Now
<1>2. stack' = Front(stack) \o <<c, f>> /\ result' = result /\ result = "running"
  BY DEF Call, IInv, Typed
<1> QED BY <1>1, <1>2, ReadKeeps

\* What the innermost frame is about to remove is or was in the tree of the target.
LEMMA ThereSeen ==
  ASSUME IInv, stack # <<>>, Now.fn = "delete_at"
  PROVE  /\ <<Now.dir, Now.name>> \in Obj \X Name /\ There \in seen \cup {Nil}
         /\ There # Nil => Tree(entry, There) \subseteq seen
<1>1. /\ Now \in Frames /\ Len(stack) \in Nat \ {0} /\ Good(Now, Len(stack), way, seen)
      /\ IsDir(Now.dir)
  BY TopFrame DEF IInv, Now, Good
<1>2. <<Now.dir, Now.name>> \in Obj \X Name
  BY <1>1 DEF Good, Frames
<1>3. There \in seen \cup {Nil}
  <2>1. CASE Len(stack) = 1
    <3>1. Now.dir \in way[K - 1] /\ Now.name = Target[K] /\ K \in 1..K
      BY <1>1, <2>1, TargetFacts DEF Good
    <3> QED BY <3>1 DEF There, IInv, SeenInv
  <2>2. CASE Len(stack) # 1
    <3>1. Now.dir \in seen /\ Now.name \in Name
      BY <1>1, <2>2 DEF Good
    <3> QED BY <3>1 DEF There, IInv, SeenInv, Closed
  <2> QED BY <2>1, <2>2
<1>4. There # Nil => Tree(entry, There) \subseteq seen
  BY <1>3, TreeFacts DEF IInv, Typed, SeenInv
<1> QED BY <1>2, <1>3, <1>4

LEMMA RemoveKeeps ==
  ASSUME IInv, stack # <<>>, Now.fn = "delete_at", There # Nil, Return, RemoveEntry
  PROVE  IInv'
<1> DEFINE x == <<Now.dir, Now.name>>
<1>1. x \in Obj \X Name /\ Tree(entry, There) \subseteq seen
  BY ThereSeen
<1> HIDE DEF x
<1>2. entry' = [entry EXCEPT ![x] = Nil]
  BY DEF RemoveEntry, x
<1>3. entry \in Map
  BY DEF IInv, Typed
<1>4. entry' \in Map /\ \A y \in Obj \X Name : entry'[y] = entry[y] \/ entry'[y] = Nil
  BY <1>1, <1>2, <1>3 DEF Map
<1>5. Typed'
  BY <1>1, <1>4, ReturnStack DEF IInv, Typed, RemoveEntry
<1>6. SeenInv'
  <2>1. Closed(entry', seen)
    <3> SUFFICES ASSUME NEW d \in seen, NEW n \in Name, entry'[<<d, n>>] # Nil
                 PROVE  entry'[<<d, n>>] \in seen
      BY DEF Closed
    <3>1. <<d, n>> \in Obj \X Name
      BY DEF IInv, Typed
    <3>2. entry'[<<d, n>>] = entry[<<d, n>>]
      BY <1>4, <3>1
    <3> QED BY <3>2 DEF IInv, SeenInv, Closed
  <2>2. ASSUME NEW i \in 1..K, NEW d \in way[i - 1]
        PROVE  entry'[<<d, Target[i]>>] \in way[i] \cup {Nil}
    <3>1. i - 1 \in Steps /\ Target[i] \in Name
      BY TargetFacts
    <3>2. <<d, Target[i]>> \in Obj \X Name
      BY <3>1 DEF IInv, Typed
    <3>3. entry[<<d, Target[i]>>] \in way[i] \cup {Nil}
      BY DEF IInv, SeenInv
    <3> QED BY <1>4, <3>2, <3>3
  <2> QED BY <1>1, <2>1, <2>2 DEF IInv, SeenInv, RemoveEntry
<1>7. GoodStack(stack', way', seen')
  BY ReturnStack DEF RemoveEntry
<1> QED BY <1>5, <1>6, <1>7 DEF IInv

LEMMA RemoveIfKeeps ==
  ASSUME IInv, stack # <<>>, Now.fn = "delete_at", NEW allowed, RemoveIf(allowed), allowed => There # Nil
  PROVE  IInv'
<1>1. CASE allowed
  BY <1>1, RemoveKeeps DEF RemoveIf
<1>2. CASE ~allowed
  BY <1>2, FailKeeps DEF RemoveIf
<1> QED BY <1>1, <1>2

LEMMA ForeignKeeps ==
  ASSUME IInv, NEW g \in Map, Foreign(g), owner' \in [Obj -> Obj \cup {Nil}], moved' \in BOOLEAN
  PROVE  IInv'
<1>1. way \in [Steps -> SUBSET Obj] /\ seen \in SUBSET Obj /\ way[0] = {Top} /\ Top \in Obj
  BY DeleteAssumption DEF IInv, Typed, SeenInv
<1>2. /\ entry' = g /\ way' = WayIn(g, way) /\ seen' = SeenIn(g, way', seen)
      /\ stack' = stack /\ result' = result /\ lost' = lost
  BY DEF Foreign
<1>3. /\ way' = [i \in Steps |-> way'[i]] /\ way'[0] = {Top}
      /\ \A i \in 1..K : way[i] \subseteq way'[i]
      /\ \A i \in 1..K : \A d \in way'[i - 1] : g[<<d, Target[i]>>] \in way'[i] \cup {Nil}
  <2> DEFINE v == WayIn(g, way)
  <2>0. /\ v = [i \in Steps |-> v[i]] /\ v[0] = {Top}
        /\ \A i \in 1..K : way[i] \subseteq v[i]
        /\ \A i \in 1..K : \A d \in v[i - 1] : g[<<d, Target[i]>>] \in v[i] \cup {Nil}
    BY WayFacts
  <2> HIDE DEF v
  <2> QED BY <1>2, <2>0 DEF v
<1>4. \A i \in Steps : way[i] \subseteq way'[i]
  BY <1>1, <1>3, TargetFacts
<1>5. way' \in [Steps -> SUBSET Obj]
  <2>1. Closed(g, Obj)
    BY DEF Closed, Map
  <2>2. \A i \in Steps : way'[i] \subseteq Obj
    BY <1>1, <1>2, <2>1, WayInside
  <2> QED BY <1>3, <2>2
<1>6. seen' \in SUBSET Obj /\ seen \subseteq seen' /\ way'[K] \subseteq seen' /\ Closed(g, seen')
  BY <1>1, <1>2, <1>5, SeenFacts
<1>7. GoodStack(stack', way', seen')
  BY <1>2, <1>4, <1>6, StackGrow DEF IInv
<1>8. foreign' \in 0..MaxForeign
  BY DeleteAssumption DEF Foreign, IInv, Typed
<1>9. Typed'
  BY <1>2, <1>5, <1>6, <1>8 DEF IInv, Typed
<1>10. SeenInv'
  BY <1>2, <1>3, <1>6 DEF IInv, SeenInv
<1> QED BY <1>7, <1>9, <1>10 DEF IInv

LEMMA MapAt ==
  ASSUME IInv, NEW d \in Obj, NEW n \in Name
  PROVE  entry[<<d, n>>] \in Obj \cup {Nil}
BY DEF IInv, Typed, Map

LEMMA DeleteAtKeeps == IInv /\ DeleteAt => IInv'
<1> SUFFICES ASSUME IInv, DeleteAt PROVE IInv'
  OBVIOUS
<1>0. stack # <<>> /\ Now.fn = "delete_at"
  BY DEF DeleteAt, StatTarget, Unlink, OpenTarget, ListTarget, DeleteEntry, Rmdir, SnapDestroy, At
<1>1. /\ Now \in Frames /\ Len(stack) \in Nat \ {0} /\ Good(Now, Len(stack), way, seen)
  BY <1>0, TopFrame DEF IInv, Now
<1>2. /\ <<Now.dir, Now.name>> \in Obj \X Name /\ There \in seen \cup {Nil}
      /\ seen \subseteq Obj
  BY <1>0, ThereSeen DEF IInv, Typed
<1>3. CASE StatTarget
  <2>1. CASE There = Nil
    BY <1>3, <2>1, FailKeeps DEF StatTarget
  <2>2. CASE There # Nil
    <3> DEFINE f == [Now EXCEPT !.st = There, !.pc = IF IsDir(There) THEN "open" ELSE "unlink"]
    <3>1. f \in Frames /\ f.fn = "delete_at" /\ f.dir = Now.dir /\ f.name = Now.name /\ f.st = There
          /\ f.pc = IF IsDir(There) THEN "open" ELSE "unlink"
      BY <1>0, <1>1, <1>2 DEF Frames
    <3>2. Become(f) /\ Reads
      BY <1>3, <2>2 DEF StatTarget
    <3> HIDE DEF f
    <3>3. Good(f, Len(stack), way, seen)
      BY <1>0, <1>1, <2>2, <3>1 DEF Good
    <3> QED BY <1>0, <3>1, <3>2, <3>3, BecomeKeeps
  <2> QED BY <2>1, <2>2
<1>4. CASE Unlink
  BY <1>0, <1>4, RemoveIfKeeps DEF Unlink
<1>5. CASE OpenTarget
  <2> DEFINE o == OpenDirAt(Now.dir, Now.name)
  <2>0. o = There
    BY DEF OpenDirAt, There
  <2>1. CASE ~IsDir(o) \/ ~SameDir(o)
    BY <1>5, <2>1, FailKeeps DEF OpenTarget
  <2>2. CASE IsDir(o) /\ SameDir(o) /\ Kind[Now.st] = "subvol"
    <3> DEFINE c == [Now EXCEPT !.fd = o, !.pc = "destroy"]
               f == Frame("destroy_nested", o, Nil)
    <3>1. o \in Obj /\ o \in seen
      BY <1>2, <2>0, <2>2 DEF IsDir
    <3>2. Call(c, f) /\ Reads
      BY <1>5, <2>2 DEF OpenTarget
    <3>3. /\ c \in Frames /\ c.fn = "delete_at" /\ c.dir = Now.dir /\ c.name = Now.name
          /\ c.pc = "destroy"
      BY <1>0, <1>1, <3>1 DEF Frames
    <3>4. f \in Frames /\ f.fn = "destroy_nested" /\ f.dir = o /\ f.pc = "start"
      BY <3>1 DEF Frames, Frame
    <3> HIDE DEF c, f, o
    <3>5. Good(c, Len(stack), way, seen)
      BY <1>0, <1>1, <3>3 DEF Good
    <3>6. Good(f, Len(stack) + 1, way, seen)
      <4>1. Len(stack) + 1 # 1
        BY <1>1
      <4> QED BY <2>2, <3>1, <3>4, <4>1 DEF Good
    <3>7. Calls(c, f)
      BY <3>3, <3>4 DEF Calls
    <3> QED BY <1>0, <3>2, <3>3, <3>4, <3>5, <3>6, <3>7, CallKeeps
  <2>3. CASE IsDir(o) /\ SameDir(o) /\ Kind[Now.st] # "subvol"
    <3> DEFINE f == [Now EXCEPT !.fd = o, !.pc = "list"]
    <3>1. o \in Obj /\ o \in seen /\ Now.st = o /\ Kind[o] = "dir"
      BY <1>2, <2>0, <2>3 DEF IsDir, SameDir
    <3>2. Become(f) /\ Reads
      BY <1>5, <2>3 DEF OpenTarget
    <3>3. /\ f \in Frames /\ f.fn = "delete_at" /\ f.dir = Now.dir /\ f.name = Now.name
          /\ f.pc = "list" /\ f.fd = o /\ f.st = Now.st
      BY <1>0, <1>1, <3>1 DEF Frames
    <3> HIDE DEF f, o
    <3>4. Good(f, Len(stack), way, seen)
      BY <1>0, <1>1, <3>1, <3>3 DEF Good
    <3> QED BY <1>0, <3>2, <3>3, <3>4, BecomeKeeps
  <2> QED BY <2>1, <2>2, <2>3
<1>6. CASE ListTarget
  <2> DEFINE f == [Now EXCEPT !.todo = Entries(Now.fd), !.pc = "loop"]
  <2>1. /\ f \in Frames /\ f.fn = "delete_at" /\ f.dir = Now.dir /\ f.name = Now.name
        /\ f.pc = "loop" /\ f.fd = Now.fd /\ f.st = Now.st
    BY <1>0, <1>1 DEF Frames, Entries
  <2>2. Become(f) /\ Reads /\ Now.pc = "list"
    BY <1>6 DEF ListTarget, At
  <2> HIDE DEF f
  <2>3. Good(f, Len(stack), way, seen)
    BY <1>0, <1>1, <2>1, <2>2 DEF Good
  <2> QED BY <1>0, <2>1, <2>2, <2>3, BecomeKeeps
<1>7. CASE DeleteEntry
  <2>1. PICK n \in Now.todo :
          Call([Now EXCEPT !.todo = @ \ {n}], Frame("delete_at", Now.fd, n))
    BY <1>7 DEF DeleteEntry
  <2> DEFINE c == [Now EXCEPT !.todo = @ \ {n}]
             f == Frame("delete_at", Now.fd, n)
  <2>2. Now.fd \in seen /\ Kind[Now.fd] = "dir" /\ n \in Name /\ Now.fd \in Obj /\ Now.pc = "loop"
    BY <1>0, <1>1, <1>2, <1>7 DEF DeleteEntry, At, Good, Frames
  <2>3. /\ c \in Frames /\ c.fn = "delete_at" /\ c.dir = Now.dir /\ c.name = Now.name
        /\ c.pc = "loop" /\ c.fd = Now.fd /\ c.st = Now.st
    BY <1>0, <1>1, <2>2 DEF Frames
  <2>4. f \in Frames /\ f.fn = "delete_at" /\ f.dir = Now.fd /\ f.name = n /\ f.pc = "start"
    BY <2>2 DEF Frames, Frame
  <2>5. Call(c, f) /\ Reads
    BY <1>7, <2>1 DEF DeleteEntry
  <2> HIDE DEF c, f
  <2>6. Good(c, Len(stack), way, seen)
    BY <1>0, <1>1, <2>2, <2>3 DEF Good
  <2>7. Good(f, Len(stack) + 1, way, seen)
    <3>1. Len(stack) + 1 # 1 /\ IsDir(Now.fd)
      BY <1>1, <2>2, ObjFacts DEF IsDir
    <3> QED BY <2>2, <2>4, <3>1 DEF Good
  <2>8. Calls(c, f)
    BY <2>3, <2>4 DEF Calls
  <2> QED BY <1>0, <2>3, <2>4, <2>5, <2>6, <2>7, <2>8, CallKeeps
<1>8. CASE Rmdir
  BY <1>0, <1>8, RemoveIfKeeps DEF Rmdir, IsDir
<1>9. CASE SnapDestroy
  BY <1>0, <1>9, RemoveIfKeeps DEF SnapDestroy
<1> QED BY <1>3, <1>4, <1>5, <1>6, <1>7, <1>8, <1>9 DEF DeleteAt

LEMMA DestroyNestedKeeps == IInv /\ DestroyNested => IInv'
<1> SUFFICES ASSUME IInv, DestroyNested PROVE IInv'
  OBVIOUS
<1>0. stack # <<>> /\ Now.fn = "destroy_nested"
  BY DEF DestroyNested, NestedList, NestedStat, NestedOpen, NestedDone, At
<1>1. /\ Now \in Frames /\ Len(stack) \in Nat \ {0} /\ Good(Now, Len(stack), way, seen)
      /\ Len(stack) # 1 /\ Now.dir \in seen
  BY <1>0, TopFrame DEF IInv, Now, Good
<1>2. Len(stack) + 1 # 1 /\ seen \subseteq Obj
  BY <1>1 DEF IInv, Typed
<1>3. ASSUME NEW f \in Frames, f.fn = "destroy_nested", f.dir = Now.dir,
             f.pc \in {"start", "loop"} \/ (f.pc = "open" /\ f.name \in Name)
      PROVE  Good(f, Len(stack), way, seen)
  BY <1>0, <1>1, <1>3 DEF Good
<1>4. CASE NestedList
  <2> DEFINE f == [Now EXCEPT !.todo = Entries(Now.dir), !.pc = "loop"]
  <2>1. f \in Frames /\ f.fn = "destroy_nested" /\ f.dir = Now.dir /\ f.pc = "loop"
    BY <1>0, <1>1 DEF Frames, Entries
  <2>2. Become(f) /\ Reads
    BY <1>4 DEF NestedList
  <2> HIDE DEF f
  <2> QED BY <1>0, <1>3, <2>1, <2>2, BecomeKeeps
<1>5. CASE NestedStat
  <2> DEFINE rest(n) == [Now EXCEPT !.todo = @ \ {n}]
             o(n)    == entry[<<Now.dir, n>>]
  <2>1. Reads /\ Now.pc = "loop"
    BY <1>5 DEF NestedStat, At
  <2>2. PICK n \in Now.todo :
          \/ o(n) = Nil /\ Fail
          \/ /\ o(n) # Nil /\ Kind[o(n)] = "subvol"
             /\ Call(rest(n), Frame("delete_at", Now.dir, n))
          \/ /\ o(n) # Nil /\ Kind[o(n)] = "dir"
             /\ Become([rest(n) EXCEPT !.name = n, !.pc = "open"])
          \/ /\ o(n) # Nil /\ ~IsDir(o(n))
             /\ Become(rest(n))
    BY <1>5 DEF NestedStat
  <2> HIDE DEF o
  <2> DEFINE c == rest(n)
  <2>3. /\ c \in Frames /\ c.fn = "destroy_nested" /\ c.dir = Now.dir /\ c.pc = "loop"
        /\ n \in Name
    BY <1>0, <1>1, <2>1 DEF Frames
  <2>4. CASE o(n) = Nil /\ Fail
    BY <2>1, <2>4, FailKeeps
  <2>5. CASE o(n) # Nil /\ Kind[o(n)] = "subvol" /\ Call(c, Frame("delete_at", Now.dir, n))
    <3> DEFINE f == Frame("delete_at", Now.dir, n)
    <3>1. f \in Frames /\ f.fn = "delete_at" /\ f.dir = Now.dir /\ f.name = n /\ f.pc = "start"
      BY <1>1, <2>3 DEF Frames, Frame
    <3>2. IsDir(Now.dir)
      BY <1>1 DEF Good
    <3> HIDE DEF f, c
    <3>3. Good(c, Len(stack), way, seen)
      BY <1>3, <2>3
    <3>4. Good(f, Len(stack) + 1, way, seen)
      BY <1>1, <1>2, <2>3, <3>1, <3>2 DEF Good
    <3>5. Calls(c, f)
      BY <2>3, <3>1 DEF Calls
    <3>6. Call(c, f)
      BY <2>5 DEF f
    <3> QED BY <1>0, <2>1, <2>3, <3>1, <3>3, <3>4, <3>5, <3>6, CallKeeps
  <2>6. CASE Become([c EXCEPT !.name = n, !.pc = "open"])
    <3> DEFINE f == [c EXCEPT !.name = n, !.pc = "open"]
    <3> HIDE DEF c
    <3>1. /\ f \in Frames /\ f.fn = "destroy_nested" /\ f.dir = Now.dir /\ f.pc = "open"
          /\ f.name = n
      BY <2>3 DEF Frames
    <3> HIDE DEF f
    <3>2. Become(f)
      BY <2>6 DEF f
    <3> QED BY <1>0, <1>3, <2>1, <2>3, <3>1, <3>2, BecomeKeeps
  <2>7. CASE Become(c)
    <3> HIDE DEF c
    <3> QED BY <1>0, <1>3, <2>1, <2>3, <2>7, BecomeKeeps
  <2> QED BY <2>2, <2>4, <2>5, <2>6, <2>7
<1>6. CASE NestedOpen
  <2> DEFINE o == OpenDirAt(Now.dir, Now.name)
             c == [Now EXCEPT !.pc = "loop"]
             f == Frame("destroy_nested", o, Nil)
  <2>1. CASE ~IsDir(o)
    BY <1>6, <2>1, FailKeeps DEF NestedOpen
  <2>2. CASE IsDir(o)
    <3>1. Call(c, f) /\ Reads /\ Now.name \in Name
      BY <1>0, <1>1, <1>6, <2>2 DEF NestedOpen, Good, At
    <3>2. o \in seen
      BY <1>1, <2>2, <3>1 DEF OpenDirAt, IsDir, IInv, SeenInv, Closed
    <3>3. /\ c \in Frames /\ c.fn = "destroy_nested" /\ c.dir = Now.dir /\ c.pc = "loop"
      BY <1>0, <1>1 DEF Frames
    <3>4. f \in Frames /\ f.fn = "destroy_nested" /\ f.dir = o /\ f.pc = "start"
      BY <1>2, <3>2 DEF Frames, Frame
    <3> HIDE DEF c, f, o
    <3>5. Good(c, Len(stack), way, seen)
      BY <1>3, <3>3
    <3>6. Good(f, Len(stack) + 1, way, seen)
      BY <1>2, <2>2, <3>2, <3>4 DEF Good
    <3>7. Calls(c, f)
      BY <3>3, <3>4 DEF Calls
    <3> QED BY <1>0, <3>1, <3>3, <3>4, <3>5, <3>6, <3>7, CallKeeps
  <2> QED BY <2>1, <2>2
<1>7. CASE NestedDone
  BY <1>0, <1>7, ReturnStack, ReadKeeps DEF NestedDone
<1> QED BY <1>4, <1>5, <1>6, <1>7 DEF DestroyNested

LEMMA TailFacts ==
  ASSUME NEW F, NEW s \in Seq(F), s # <<>>
  PROVE  /\ Tail(s) \in Seq(F) /\ Len(s) \in Nat \ {0} /\ Len(Tail(s)) = Len(s) - 1
         /\ Head(s) \in F /\ Head(s) = s[1]
         /\ \A i \in 1..Len(Tail(s)) : Tail(s)[i] = s[i + 1]
BY HeadTailProperties

LEMMA OpenParentKeeps == IInv /\ (OpenParent \/ CallDeleteAt) => IInv'
<1> SUFFICES ASSUME IInv, OpenParent \/ CallDeleteAt PROVE IInv'
  OBVIOUS
<1>0. stack # <<>> /\ Now.fn = "open_parent"
  BY DEF OpenParent, CallDeleteAt, At
<1>1. Now \in Frames /\ Good(Now, Len(stack), way, seen) /\ Len(stack) = 1
  BY <1>0, TopFrame DEF IInv, Now, Good
<1> DEFINE p == Now.path
           m == Len(p)
<1>2. /\ p \in Seq(Name) /\ m \in Nat /\ m <= K - 1 /\ Now.dir \in way[K - 1 - m]
      /\ \A j \in 1..m : p[j] = Target[K - 1 - m + j]
  BY <1>0, <1>1 DEF Good, Frames
<1>3. CASE OpenParent
  <2> DEFINE d == OpenDirAt(Now.dir, Head(p))
             f == [Now EXCEPT !.dir = d, !.path = Tail(@)]
  <2>1. CASE ~IsDir(d)
    BY <1>3, <2>1, FailKeeps DEF OpenParent
  <2>2. CASE IsDir(d)
    <3>0. Become(f) /\ Reads /\ p # <<>>
      BY <1>3, <2>2 DEF OpenParent
    <3>1. Tail(p) \in Seq(Name) /\ Len(Tail(p)) = m - 1 /\ Head(p) = p[1] /\ m # 0
          /\ \A i \in 1..(m - 1) : Tail(p)[i] = p[i + 1]
      BY <1>2, <3>0, TailFacts
    <3> HIDE DEF m
    <3>2. K - m \in 1..K /\ K - m - 1 = K - 1 - m /\ Head(p) = Target[K - m]
          /\ K - m \in Steps
      BY <1>2, <3>1, TargetFacts
    <3>3. d \in way[K - m]
      BY <1>2, <2>2, <3>2 DEF OpenDirAt, IInv, SeenInv, IsDir
    <3>4. d \in Obj
      BY <3>2, <3>3 DEF IInv, Typed
    <3>5. /\ f \in Frames /\ f.fn = "open_parent" /\ f.dir = d /\ f.pc = Now.pc /\ f.path = Tail(p)
      BY <1>0, <1>1, <3>1, <3>4 DEF Frames
    <3>6. \A i \in 1..(m - 1) : Tail(p)[i] = Target[K - 1 - (m - 1) + i]
      <4> SUFFICES ASSUME NEW i \in 1..(m - 1)
                   PROVE  Tail(p)[i] = Target[K - 1 - (m - 1) + i]
        OBVIOUS
      <4>1. i + 1 \in 1..m /\ K - 1 - m + (i + 1) = K - 1 - (m - 1) + i
        BY <1>2, TargetFacts
      <4> QED BY <1>2, <3>1, <4>1
    <3>7. m - 1 <= K - 1 /\ K - 1 - (m - 1) = K - m
      BY <1>2, TargetFacts
    <3> HIDE DEF f, d
    <3>8. Good(f, Len(stack), way, seen)
      BY <1>0, <1>1, <2>2, <3>1, <3>3, <3>5, <3>6, <3>7 DEF Good
    <3> QED BY <1>0, <1>1, <3>0, <3>5, <3>8, BecomeKeeps
  <2> QED BY <2>1, <2>2
<1>4. CASE CallDeleteAt
  <2> DEFINE f == Frame("delete_at", Now.dir, Last(Target))
  <2>1. Become(f) /\ Reads /\ m = 0
    BY <1>4 DEF CallDeleteAt
  <2>2. Last(Target) = Target[K] /\ K \in 1..K /\ Target[K] \in Name /\ K - 1 - 0 = K - 1
    BY TargetFacts DEF Last, K
  <2>3. f \in Frames /\ f.fn = "delete_at" /\ f.dir = Now.dir /\ f.name = Target[K] /\ f.pc = "start"
    BY <1>1, <2>2 DEF Frames, Frame
  <2> HIDE DEF f, m
  <2>4. Good(f, Len(stack), way, seen)
    BY <1>1, <1>2, <2>1, <2>2, <2>3 DEF Good
  <2> QED BY <1>0, <1>1, <2>1, <2>3, <2>4, BecomeKeeps
<1> QED BY <1>3, <1>4

\* The filesystem after an exchange of two entries.
Moved(y, w) == [entry EXCEPT ![y] = entry[w], ![w] = entry[y]]

LEMMA MoveStep ==
  ASSUME IInv, ForeignMove
  PROVE  \E d, x \in Linked(entry), n, m \in Name :
           LET y == <<d, n>>  w == <<x, m>> IN
           /\ y \in Obj \X Name /\ w \in Obj \X Name /\ y # w /\ entry[y] # Nil
           /\ IsDir(d) /\ IsDir(x) /\ MayMove(entry[y], d, x) /\ MayMove(entry[w], x, d)
           /\ Moved(y, w) \in Map /\ Foreign(Moved(y, w))
<1>1. PICK d \in Linked(entry), x \in Linked(entry), n \in Name, m \in Name :
        /\ IsDir(d) /\ IsDir(x) /\ entry[<<d, n>>] # Nil /\ <<d, n>> # <<x, m>>
        /\ MayMove(entry[<<d, n>>], d, x) /\ MayMove(entry[<<x, m>>], x, d)
        /\ Foreign(Moved(<<d, n>>, <<x, m>>))
  BY DEF ForeignMove, Moved
<1>2. entry \in Map /\ Linked(entry) \subseteq Obj
  BY DeleteAssumption, TreeFacts DEF IInv, Typed, Linked
<1> DEFINE y == <<d, n>>
           w == <<x, m>>
<1>3. y \in Obj \X Name /\ w \in Obj \X Name
  BY <1>1, <1>2
<1>4. \A a, b \in Obj \X Name : Moved(a, b) \in Map
  BY <1>2 DEF Map, Moved
<1>5. Moved(y, w) \in Map
  BY <1>3, <1>4
<1> QED BY <1>1, <1>3, <1>5

\* The filesystem after the creation of o.
Made(y, o) == [entry EXCEPT ![y] = o]

LEMMA CreateStep ==
  ASSUME IInv, ForeignCreate
  PROVE  \E o \in Obj \ (Linked(entry) \cup lost), d \in Linked(entry), n \in Name :
           LET y == <<d, n>> IN
           /\ y \in Obj \X Name /\ entry[y] = Nil /\ IsDir(d)
           /\ Made(y, o) \in Map /\ Foreign(Made(y, o))
           /\ owner' = [owner EXCEPT ![o] = IF Kind[o] = "subvol" THEN o ELSE owner[d]]
<1>1. PICK o \in Obj \ (Linked(entry) \cup lost), d \in Linked(entry), n \in Name :
        /\ IsDir(d) /\ entry[<<d, n>>] = Nil
        /\ Foreign(Made(<<d, n>>, o))
        /\ owner' = [owner EXCEPT ![o] = IF Kind[o] = "subvol" THEN o ELSE owner[d]]
  BY DEF ForeignCreate, Made
<1>2. entry \in Map /\ Linked(entry) \subseteq Obj
  BY DeleteAssumption, TreeFacts DEF IInv, Typed, Linked
<1> DEFINE y == <<d, n>>
<1>3. y \in Obj \X Name
  BY <1>1, <1>2
<1>4. \A a \in Obj \X Name : Made(a, o) \in Map
  BY <1>1, <1>2 DEF Map, Made
<1>5. Made(y, o) \in Map
  BY <1>3, <1>4
<1> QED BY <1>1, <1>3, <1>5

LEMMA IInvNext == IInv /\ [Next]_vars => IInv'
<1> SUFFICES ASSUME IInv, [Next]_vars PROVE IInv'
  OBVIOUS
<1>1. CASE DeleteAt
  BY <1>1, DeleteAtKeeps
<1>2. CASE DestroyNested
  BY <1>2, DestroyNestedKeeps
<1>3. CASE OpenParent \/ CallDeleteAt
  BY <1>3, OpenParentKeeps
<1>4. CASE CallFails
  BY <1>4, FailKeeps DEF CallFails
<1>5. CASE ForeignCreate
  <2>1. PICK o \in Obj, d \in Linked(entry), n \in Name :
          /\ Made(<<d, n>>, o) \in Map /\ Foreign(Made(<<d, n>>, o))
          /\ owner' = [owner EXCEPT ![o] = IF Kind[o] = "subvol" THEN o ELSE owner[d]]
    BY <1>5, CreateStep
  <2>2. d \in Obj
    BY DeleteAssumption, TreeFacts DEF IInv, Typed, Linked
  <2>3. owner' \in [Obj -> Obj \cup {Nil}]
    BY <2>1, <2>2 DEF IInv, Typed
  <2>4. moved' \in BOOLEAN
    BY <1>5 DEF ForeignCreate, IInv, Typed
  <2> QED BY <2>1, <2>3, <2>4, ForeignKeeps
<1>6. CASE ForeignMove
  <2>1. PICK y, w : Moved(y, w) \in Map /\ Foreign(Moved(y, w))
    BY <1>6, MoveStep
  <2>2. owner' \in [Obj -> Obj \cup {Nil}]
    BY <1>6 DEF ForeignMove, IInv, Typed
  <2>3. moved' \in BOOLEAN
    BY <1>6 DEF ForeignMove
  <2> QED BY <2>1, <2>2, <2>3, ForeignKeeps
<1>7. CASE UNCHANGED vars
  BY <1>7 DEF IInv, Typed, SeenInv, vars, fs
<1> QED BY <1>1, <1>2, <1>3, <1>4, <1>5, <1>6, <1>7 DEF Next, DeleteRel

LEMMA IInvAlways == Spec => []IInv
BY IInvInit, IInvNext, PTL DEF Spec

\* Every variable has its type: no call is ever made on something that is not an open
\* directory, and a deletion is running exactly as long as there is a call.
THEOREM TypeCorrect == Spec => []TypeOK
BY IInvAlways, IInvTypes, PTL

\* Whatever other programs move meanwhile, nothing is removed that never was in the tree
\* of what is or was at the target (fsat.rs, delete_at and destroy_nested).
THEOREM OnlyTargetAlways == Spec => []OnlyTarget
<1>1. IInv => OnlyTarget
  BY DEF IInv, SeenInv, OnlyTarget
<1> QED BY <1>1, IInvAlways, PTL

-----------------------------------------------------------------------------
(* The filesystem stays a tree, apart from what was removed. *)

\* No linked directory is below one of its entries.
LEMMA Acyclic ==
  ASSUME NEW e \in Map, Tidy(e), NEW d \in Linked(e), NEW n \in Name, e[<<d, n>>] # Nil
  PROVE  d \notin Tree(e, e[<<d, n>>])
<1> DEFINE x == <<d, n>>
           g == [e EXCEPT ![x] = Nil]
           L == Tree(g, Top)
<1>0. Top \in Obj /\ Linked(e) \subseteq Obj /\ x \in Obj \X Name
  BY DeleteAssumption, TreeFacts DEF Linked
<1>1. g \in Map /\ g[x] = Nil /\ \A y \in Obj \X Name : y # x => g[y] = e[y]
  BY <1>0 DEF Map
<1> HIDE DEF g
<1>2. L \cap Tree(e, e[x]) = {}
  BY <1>0, <1>1, TreeApart
<1>3. Top \in L /\ L \subseteq Obj /\ Closed(g, L)
  BY <1>0, <1>1, TreeFacts
<1> SUFFICES ASSUME d \in Tree(e, e[x]) PROVE FALSE
  OBVIOUS
<1>4. d \notin L
  BY <1>2
<1> HIDE DEF L
<1>5. Closed(e, L)
  <2> SUFFICES ASSUME NEW z \in L, NEW k \in Name, e[<<z, k>>] # Nil PROVE e[<<z, k>>] \in L
    BY DEF Closed
  <2>1. <<z, k>> \in Obj \X Name /\ <<z, k>> # x
    BY <1>3, <1>4
  <2> QED BY <1>1, <1>3, <2>1 DEF Closed
<1>6. Linked(e) \subseteq L
  BY <1>0, <1>3, <1>5, TreeFacts DEF Linked
<1> QED BY <1>4, <1>6

\* Entries that are taken out, and none put in.
LEMMA TreeLess ==
  ASSUME NEW e \in Map, NEW g \in Map, \A x \in Obj \X Name : g[x] = e[x] \/ g[x] = Nil, NEW o \in Obj
  PROVE  Tree(g, o) \subseteq Tree(e, o)
<1>1. o \in Tree(e, o) /\ Tree(e, o) \subseteq Obj /\ Closed(e, Tree(e, o))
  BY TreeFacts
<1>2. Closed(g, Tree(e, o))
  BY <1>1 DEF Closed
<1> QED BY <1>1, <1>2, TreeFacts

\* With one entry taken out, what is linked is what was and is not below that entry.
LEMMA RemoveTrees ==
  ASSUME NEW e \in Map, Tidy(e), NEW x \in Obj \X Name, e[x] # Nil, NEW g \in Map,
         g[x] = Nil, \A y \in Obj \X Name : y # x => g[y] = e[y]
  PROVE  /\ Tidy(g) /\ Linked(g) \subseteq Linked(e) /\ Linked(g) \cap Tree(e, e[x]) = {}
         /\ Linked(e) \subseteq Linked(g) \cup Tree(e, e[x])
         /\ Tree(e, e[x]) \in SUBSET Obj /\ Closed(e, Tree(e, e[x]))
         /\ \A y \in Obj \X Name : (y # x => g[y] = e[y]) /\ (g[y] = e[y] \/ g[y] = Nil)
<1>0. Top \in Obj /\ e[x] \in Obj
  BY DeleteAssumption DEF Map
<1>1. /\ g[x] = Nil
      /\ \A y \in Obj \X Name : (y # x => g[y] = e[y]) /\ (g[y] = e[y] \/ g[y] = Nil)
  OBVIOUS
<1>2. Linked(g) \subseteq Linked(e)
  BY <1>0, <1>1, TreeLess DEF Linked
<1>3. Linked(g) \cap Tree(e, e[x]) = {}
  BY <1>1, TreeApart DEF Linked
<1>4. Linked(e) \subseteq Linked(g) \cup Tree(e, e[x])
  <2> DEFINE X == {x}
  <2>1. X \in SUBSET (Obj \X Name)
    OBVIOUS
  <2>3. \A y \in (Obj \X Name) \ X : g[y] = e[y] \/ e[y] = Nil
    BY <1>1
  <2> HIDE DEF X
  <2>2. \A z \in Tree(e, Top) : z \in Tree(g, Top) \/ \E y \in X : e[y] # Nil /\ z \in Tree(e, e[y])
    BY <1>0, <2>1, <2>3, TreeCut
  <2> QED BY <2>2 DEF X, Linked
<1>5. Tidy(g)
  <2>1. \A y \in Obj \X Name : g[y] # Top
    BY <1>0, <1>1, ObjFacts DEF Tidy
  <2>2. \A y, z \in Obj \X Name : g[y] # Nil /\ g[y] = g[z] => y = z
    BY <1>1 DEF Tidy
  <2> QED BY <2>1, <2>2 DEF Tidy
<1> QED BY <1>0, <1>1, <1>2, <1>3, <1>4, <1>5, TreeFacts

\* With one entry put in, for an object that has neither a name nor entries.
LEMMA CreateTrees ==
  ASSUME NEW e \in Map, Tidy(e), NEW d \in Linked(e), NEW n \in Name, e[<<d, n>>] = Nil,
         NEW o \in Obj, o # Top, \A x \in Obj \X Name : e[x] # o /\ (x[1] = o => e[x] = Nil),
         NEW g \in Map, g = [e EXCEPT ![<<d, n>>] = o], o # d
  PROVE  /\ Tidy(g) /\ Linked(g) = Linked(e) \cup {o} /\ g[<<d, n>>] = o
         /\ \A y \in Obj \X Name : y # <<d, n>> => g[y] = e[y]
<1> DEFINE x == <<d, n>>
<1>0. Top \in Obj /\ Linked(e) \subseteq Obj /\ x \in Obj \X Name
      /\ Top \in Linked(e) /\ Closed(e, Linked(e))
  BY DeleteAssumption, TreeFacts DEF Linked
<1>1. g[x] = o /\ \A y \in Obj \X Name : y # x => g[y] = e[y]
  BY <1>0 DEF Map
<1>2. Closed(g, Linked(e) \cup {o})
  <2> SUFFICES ASSUME NEW z \in Linked(e) \cup {o}, NEW m \in Name, g[<<z, m>>] # Nil
               PROVE  g[<<z, m>>] \in Linked(e) \cup {o}
    BY DEF Closed
  <2>1. <<z, m>> \in Obj \X Name /\ <<z, m>>[1] = z
    BY <1>0
  <2>2. CASE z = o
    BY <1>1, <2>1, <2>2
  <2>3. CASE z # o /\ <<z, m>> # x
    BY <1>0, <1>1, <2>1, <2>3 DEF Closed
  <2>4. CASE <<z, m>> = x
    BY <1>1, <2>4
  <2> QED BY <2>2, <2>3, <2>4
<1>3. Linked(g) \subseteq Linked(e) \cup {o}
  BY <1>0, <1>2, TreeFacts DEF Linked
<1>4. Linked(e) \subseteq Linked(g)
  <2>1. \A y \in Obj \X Name : e[y] = g[y] \/ e[y] = Nil
    BY <1>1
  <2> QED BY <1>0, <2>1, TreeLess DEF Linked
<1>5. o \in Linked(g)
  <2>1. d \in Linked(g) /\ g[<<d, n>>] # Nil
    BY <1>1, <1>4, ObjFacts
  <2>2. Closed(g, Linked(g))
    BY <1>0, TreeFacts DEF Linked
  <2> QED BY <1>1, <2>1, <2>2 DEF Closed
<1>6. Tidy(g)
  <2>1. \A y \in Obj \X Name : g[y] # Top
    BY <1>1 DEF Tidy
  <2>2. \A y, z \in Obj \X Name : g[y] # Nil /\ g[y] = g[z] => y = z
    BY <1>0, <1>1 DEF Tidy
  <2> QED BY <2>1, <2>2 DEF Tidy
<1> QED BY <1>1, <1>3, <1>4, <1>5, <1>6

\* With two entries exchanged, neither moved below itself, the same is linked.
LEMMA MoveTrees ==
  ASSUME NEW e \in Map, Tidy(e), NEW y \in Obj \X Name, NEW w \in Obj \X Name,
         y[1] \in Linked(e), w[1] \in Linked(e), y # w, e[y] # Nil,
         w[1] \notin Tree(e, e[y]), e[w] # Nil => y[1] \notin Tree(e, e[w]),
         NEW g \in Map, g[y] = e[w], g[w] = e[y],
         \A z \in Obj \X Name : z # y /\ z # w => g[z] = e[z]
  PROVE  Tidy(g) /\ Linked(g) = Linked(e)
<1> DEFINE d == y[1]
           x == w[1]
<1>0. Top \in Obj /\ Linked(e) \subseteq Obj /\ y \in Obj \X Name /\ w \in Obj \X Name
      /\ Top \in Linked(e) /\ Closed(e, Linked(e))
  BY DeleteAssumption, TreeFacts DEF Linked
<1>1. g[y] = e[w] /\ g[w] = e[y] /\ \A z \in Obj \X Name : z # y /\ z # w => g[z] = e[z]
  OBVIOUS
<1> DEFINE h == [e EXCEPT ![y] = Nil, ![w] = Nil]
<1>2. h \in Map /\ h[y] = Nil /\ h[w] = Nil /\ \A z \in Obj \X Name : z # y /\ z # w => h[z] = e[z]
  BY <1>0 DEF Map
<1> HIDE DEF h
<1>3. \A z \in Linked(e) : z \in Linked(h) \/ z \in Tree(e, e[y]) \/ (e[w] # Nil /\ z \in Tree(e, e[w]))
  <2> DEFINE X == {y, w}
  <2>1. X \in SUBSET (Obj \X Name) /\ \A v \in (Obj \X Name) \ X : h[v] = e[v] \/ e[v] = Nil
    BY <1>0, <1>2
  <2> HIDE DEF X
  <2>2. \A z \in Tree(e, Top) : z \in Tree(h, Top) \/ \E v \in X : e[v] # Nil /\ z \in Tree(e, e[v])
    BY <1>0, <1>2, <2>1, TreeCut
  <2> QED BY <2>2 DEF X, Linked
<1>4. d \notin Tree(e, e[y]) /\ (e[w] # Nil => x \notin Tree(e, e[w]))
  <2>1. y = <<d, y[2]>> /\ y[2] \in Name /\ w = <<x, w[2]>> /\ w[2] \in Name
    OBVIOUS
  <2> QED BY <2>1, Acyclic
<1>5. d \in Linked(h) /\ x \in Linked(h)
  BY <1>3, <1>4
<1>6. Linked(h) \subseteq Linked(g)
  <2>1. \A z \in Obj \X Name : h[z] = g[z] \/ h[z] = Nil
    BY <1>1, <1>2
  <2> QED BY <1>0, <1>2, <2>1, TreeLess DEF Linked
<1>7. Top \in Linked(g) /\ Linked(g) \subseteq Obj /\ Closed(g, Linked(g))
  BY <1>0, TreeFacts DEF Linked
<1>8. e[y] \in Linked(g) /\ (e[w] # Nil => e[w] \in Linked(g))
  BY <1>1, <1>5, <1>6, <1>7 DEF Closed
<1>9. e[y] \in Linked(e) /\ (e[w] # Nil => e[w] \in Linked(e))
  BY <1>0 DEF Closed
<1>10. Closed(e, Linked(g))
  <2> SUFFICES ASSUME NEW c \in Linked(g), NEW k \in Name, e[<<c, k>>] # Nil PROVE e[<<c, k>>] \in Linked(g)
    BY DEF Closed
  <2>1. CASE <<c, k>> = y \/ <<c, k>> = w
    BY <1>8, <2>1
  <2>2. CASE <<c, k>> # y /\ <<c, k>> # w
    BY <1>1, <1>7, <2>2 DEF Closed
  <2> QED BY <2>1, <2>2
<1>11. Closed(g, Linked(e))
  <2> SUFFICES ASSUME NEW c \in Linked(e), NEW k \in Name, g[<<c, k>>] # Nil PROVE g[<<c, k>>] \in Linked(e)
    BY DEF Closed
  <2>1. CASE <<c, k>> = y \/ <<c, k>> = w
    BY <1>1, <1>9, <2>1
  <2>2. CASE <<c, k>> # y /\ <<c, k>> # w
    BY <1>0, <1>1, <2>2 DEF Closed
  <2> QED BY <2>1, <2>2
<1>12. Linked(g) = Linked(e)
  <2>1. Linked(g) \subseteq Linked(e)
    BY <1>0, <1>11, TreeFacts DEF Linked
  <2>2. Linked(e) \subseteq Linked(g)
    BY <1>0, <1>7, <1>10, TreeFacts DEF Linked
  <2> QED BY <2>1, <2>2
<1>13. Tidy(g)
  <2>1. \A z \in Obj \X Name : g[z] # Top
    BY <1>0, <1>1 DEF Tidy
  <2>2. ASSUME NEW z \in Obj \X Name, NEW v \in Obj \X Name, g[z] # Nil, g[z] = g[v] PROVE z = v
    <3> DEFINE was(u) == IF u = y THEN w ELSE IF u = w THEN y ELSE u
    <3>1. \A u \in Obj \X Name : was(u) \in Obj \X Name /\ g[u] = e[was(u)]
      BY <1>0, <1>1
    <3>2. was(z) = was(v)
      <4> HIDE DEF was
      <4> QED BY <2>2, <3>1 DEF Tidy
    <3> QED BY <3>2
  <2> QED BY <2>1, <2>2 DEF Tidy
<1> QED BY <1>12, <1>13

\* A step that takes an entry out of the filesystem.
Removing ==
  /\ stack # <<>> /\ Now.fn = "delete_at" /\ There # Nil /\ Return /\ RemoveEntry
  /\ Unlink \/ Rmdir \/ SnapDestroy

\* The steps, by what they do to the filesystem.
LEMMA StepKinds ==
  [Next]_vars => Removing \/ (Reads /\ (DeleteRel \/ CallFails)) \/ ForeignCreate \/ ForeignMove \/ UNCHANGED vars
<1> SUFFICES ASSUME [Next]_vars
             PROVE  Removing \/ (Reads /\ (DeleteRel \/ CallFails)) \/ ForeignCreate \/ ForeignMove \/ UNCHANGED vars
  OBVIOUS
<1>1. CASE DeleteAt
  <2>1. CASE StatTarget \/ OpenTarget \/ ListTarget \/ DeleteEntry
    BY <1>1, <2>1 DEF StatTarget, OpenTarget, ListTarget, DeleteEntry, DeleteRel
  <2>2. CASE Unlink \/ Rmdir \/ SnapDestroy
    <3>1. stack # <<>> /\ Now.fn = "delete_at"
      BY <2>2 DEF Unlink, Rmdir, SnapDestroy, At
    <3>2. Reads \/ (There # Nil /\ Return /\ RemoveEntry)
      BY <2>2 DEF Unlink, Rmdir, SnapDestroy, RemoveIf, IsDir
    <3> QED BY <1>1, <2>2, <3>1, <3>2 DEF Removing, DeleteRel
  <2> QED BY <1>1, <2>1, <2>2 DEF DeleteAt
<1>2. CASE DestroyNested
  <2>1. Reads
    BY <1>2 DEF DestroyNested, NestedList, NestedStat, NestedOpen, NestedDone
  <2> QED BY <1>2, <2>1 DEF DeleteRel
<1>3. CASE OpenParent \/ CallDeleteAt \/ CallFails
  BY <1>3 DEF OpenParent, CallDeleteAt, CallFails, DeleteRel
<1> QED BY <1>1, <1>2, <1>3 DEF Next, DeleteRel

\* Directories that are linked or removed have entries, and no others; what was removed
\* is not linked; the way to the target and its tree are, or were removed.
FsInv ==
  /\ Tidy(entry)
  /\ \A x \in Obj \X Name : entry[x] # Nil => IsDir(x[1]) /\ x[1] \in Linked(entry) \cup lost
  /\ Linked(entry) \cap lost = {} /\ Closed(entry, lost)
  /\ seen \subseteq Linked(entry) \cup lost
  /\ \A i \in Steps : way[i] \subseteq Linked(entry) \cup lost

LEMMA LinkedFacts ==
  ASSUME NEW e \in Map
  PROVE  Top \in Linked(e) /\ Linked(e) \in SUBSET Obj /\ Closed(e, Linked(e)) /\ Top \in Obj
BY DeleteAssumption, TreeFacts DEF Linked

\* All that is or was at the target or on the way stays within what is linked or removed.
LEMMA NearInside ==
  ASSUME NEW e \in Map, NEW A \in SUBSET Obj, Top \in A, Closed(e, A),
         NEW w, \A i \in Steps : w[i] \subseteq A, NEW S, S \subseteq A
  PROVE  /\ \A i \in Steps : WayIn(e, w)[i] \subseteq A
         /\ SeenIn(e, WayIn(e, w), S) \subseteq A
<1> DEFINE v == WayIn(e, w)
<1>1. \A i \in Steps : v[i] \subseteq A
  BY WayInside
<1>2. v \in [Steps -> SUBSET Obj]
  <2>1. v = [i \in Steps |-> v[i]]
    BY WayFacts
  <2> HIDE DEF v
  <2> QED BY <1>1, <2>1
<1> HIDE DEF v
<1>3. SeenIn(e, v, S) \subseteq A
  <2> SUFFICES ASSUME NEW z \in SeenIn(e, v, S) PROVE z \in A
    OBVIOUS
  <2>1. PICK o \in S \cup v[K] : z \in Tree(e, o)
    BY <1>2, SeenFacts
  <2>2. o \in A
    BY <1>1, TargetFacts
  <2> QED BY <2>1, <2>2, TreeFacts
<1> QED BY <1>1, <1>3 DEF v

LEMMA FsInvInit == Init => FsInv
<1> SUFFICES ASSUME Init PROVE FsInv
  OBVIOUS
<1>1. Filesystem(entry) /\ lost = {} /\ entry \in Map
  BY DeleteAssumption DEF Init, Filesystem
<1>2. Tidy(entry)
  <2>1. \A x \in Obj \X Name : entry[x] # Top
    BY <1>1, ObjFacts, LinkedFacts DEF Filesystem
  <2> QED BY <1>1, <2>1 DEF Filesystem, Tidy
<1>3. \A x \in Obj \X Name : entry[x] # Nil => IsDir(x[1]) /\ x[1] \in Linked(entry) \cup lost
  BY <1>1 DEF Filesystem
<1>4. seen \subseteq Linked(entry) /\ \A i \in Steps : way[i] \subseteq Linked(entry)
  <2> DEFINE none == [i \in Steps |-> {}]
  <2>1. way = WayIn(entry, none) /\ seen = SeenIn(entry, WayIn(entry, none), {})
    BY DEF Init
  <2>2. \A i \in Steps : none[i] \subseteq Linked(entry)
    OBVIOUS
  <2> HIDE DEF none
  <2> QED BY <1>1, <2>1, <2>2, LinkedFacts, NearInside
<1>5. Closed(entry, lost)
  BY <1>1 DEF Closed
<1> QED BY <1>1, <1>2, <1>3, <1>4, <1>5 DEF FsInv

\* What a removal does, when L is what is linked after it and T the tree it takes out.
RemoveFacts(L, T) ==
  /\ <<Now.dir, Now.name>> \in Obj \X Name /\ T = Tree(entry, There) /\ T \subseteq Obj
  /\ entry' \in Map /\ Tidy(entry') /\ L = Linked(entry')
  /\ L \subseteq Linked(entry) /\ L \cap T = {} /\ Linked(entry) \subseteq L \cup T
  /\ Closed(entry, T) /\ lost' = lost \cup T
  /\ entry'[<<Now.dir, Now.name>>] = Nil
  /\ \A y \in Obj \X Name : (y # <<Now.dir, Now.name>> => entry'[y] = entry[y])
                            /\ (entry'[y] = entry[y] \/ entry'[y] = Nil)

LEMMA RemoveStep ==
  ASSUME IInv, FsInv, Removing
  PROVE  RemoveFacts(Linked(entry'), Tree(entry, There))
<1> DEFINE x == <<Now.dir, Now.name>>
<1>1. x \in Obj \X Name /\ entry[x] = There
  BY ThereSeen DEF Removing, There
<1>2. entry' = [entry EXCEPT ![x] = Nil] /\ lost' = lost \cup Tree(entry, There)
  BY DEF Removing, RemoveEntry
<1> HIDE DEF x
<1>3. entry \in Map /\ Tidy(entry) /\ There # Nil
  BY DEF IInv, Typed, FsInv, Removing
<1>4. entry' \in Map /\ entry'[x] = Nil /\ \A y \in Obj \X Name : y # x => entry'[y] = entry[y]
  BY <1>1, <1>2, <1>3 DEF Map
<1>5. /\ Tidy(entry') /\ Linked(entry') \subseteq Linked(entry)
      /\ Linked(entry') \cap Tree(entry, entry[x]) = {}
      /\ Linked(entry) \subseteq Linked(entry') \cup Tree(entry, entry[x])
      /\ Tree(entry, entry[x]) \in SUBSET Obj /\ Closed(entry, Tree(entry, entry[x]))
      /\ \A y \in Obj \X Name : (y # x => entry'[y] = entry[y]) /\ (entry'[y] = entry[y] \/ entry'[y] = Nil)
  BY <1>1, <1>3, <1>4, RemoveTrees
<1> QED BY <1>1, <1>2, <1>4, <1>5 DEF RemoveFacts, x

LEMMA FsInvRemove == IInv /\ FsInv /\ Removing => FsInv'
<1> SUFFICES ASSUME IInv, FsInv, Removing PROVE FsInv'
  OBVIOUS
<1> DEFINE T == Tree(entry, There)
           L == Linked(entry')
<1>1. RemoveFacts(L, T)
  BY RemoveStep
<1>2. seen' = seen /\ way' = way
  BY DEF Removing, RemoveEntry
<1> HIDE DEF T, L
<1>3. Tidy(entry')
  BY <1>1 DEF RemoveFacts
<1>4. Linked(entry) \cup lost \subseteq Linked(entry') \cup lost'
  BY <1>1 DEF RemoveFacts
<1>5. ASSUME NEW x \in Obj \X Name, entry'[x] # Nil PROVE IsDir(x[1]) /\ x[1] \in Linked(entry') \cup lost'
  <2>1. entry[x] # Nil
    BY <1>1, <1>5 DEF RemoveFacts
  <2> QED BY <1>4, <2>1 DEF FsInv
<1>6. Linked(entry') \cap lost' = {}
  BY <1>1 DEF RemoveFacts, FsInv
<1>7. Closed(entry', lost')
  <2> SUFFICES ASSUME NEW d \in lost', NEW n \in Name, entry'[<<d, n>>] # Nil PROVE entry'[<<d, n>>] \in lost'
    BY DEF Closed
  <2>1. d \in Obj /\ lost' = lost \cup T
    BY <1>1 DEF RemoveFacts, IInv, Typed
  <2>2. <<d, n>> \in Obj \X Name
    BY <2>1
  <2>3. entry'[<<d, n>>] = entry[<<d, n>>]
    BY <1>1, <2>2 DEF RemoveFacts
  <2>4. Closed(entry, T) /\ Closed(entry, lost)
    BY <1>1 DEF RemoveFacts, FsInv
  <2> QED BY <2>1, <2>3, <2>4 DEF Closed
<1> QED BY <1>2, <1>3, <1>4, <1>5, <1>6, <1>7 DEF FsInv

LEMMA FsInvCreate == IInv /\ FsInv /\ ForeignCreate => FsInv'
<1> SUFFICES ASSUME IInv, FsInv, ForeignCreate PROVE FsInv'
  OBVIOUS
<1>1. PICK o \in Obj \ (Linked(entry) \cup lost), d \in Linked(entry), n \in Name :
        /\ <<d, n>> \in Obj \X Name /\ entry[<<d, n>>] = Nil /\ IsDir(d)
        /\ Made(<<d, n>>, o) \in Map /\ Foreign(Made(<<d, n>>, o))
  BY CreateStep
<1> DEFINE x == <<d, n>>
<1>2. entry' = Made(x, o) /\ entry' \in Map /\ entry' = [entry EXCEPT ![x] = o] /\ lost' = lost
      /\ way' = WayIn(entry', way) /\ seen' = SeenIn(entry', way', seen)
  BY <1>1 DEF Foreign, Made
<1>3. entry \in Map /\ Tidy(entry) /\ lost \subseteq Obj
  BY DEF IInv, Typed, FsInv
<1>4. \A y \in Obj \X Name : entry[y] # o /\ (y[1] = o => entry[y] = Nil)
  <2> SUFFICES ASSUME NEW y \in Obj \X Name PROVE entry[y] # o /\ (y[1] = o => entry[y] = Nil)
    OBVIOUS
  <2>1. y = <<y[1], y[2]>> /\ y[2] \in Name
    OBVIOUS
  <2>2. entry[y] # Nil => entry[y] \in Linked(entry) \cup lost
    BY <1>3, <2>1, LinkedFacts DEF FsInv, Closed
  <2>3. y[1] = o => entry[y] = Nil
    BY DEF FsInv
  <2> QED BY <2>2, <2>3, ObjFacts
<1>5. o # Top /\ o # d
  BY <1>3, LinkedFacts
<1>6. /\ Tidy(entry') /\ Linked(entry') = Linked(entry) \cup {o} /\ entry'[x] = o
      /\ \A y \in Obj \X Name : y # x => entry'[y] = entry[y]
  BY <1>1, <1>2, <1>3, <1>4, <1>5, CreateTrees
<1>7. ASSUME NEW y \in Obj \X Name, entry'[y] # Nil PROVE IsDir(y[1]) /\ y[1] \in Linked(entry') \cup lost'
  <2>1. CASE y = x
    BY <1>1, <1>6, <2>1
  <2>2. CASE y # x
    BY <1>2, <1>6, <1>7, <2>2 DEF FsInv
  <2> QED BY <2>1, <2>2
<1>8. Linked(entry') \cap lost' = {}
  BY <1>2, <1>6 DEF FsInv
<1>9. Closed(entry', lost')
  <2> SUFFICES ASSUME NEW c \in lost, NEW k \in Name, entry'[<<c, k>>] # Nil PROVE entry'[<<c, k>>] \in lost
    BY <1>2 DEF Closed
  <2>1. <<c, k>> \in Obj \X Name /\ <<c, k>> # x
    BY <1>3 DEF FsInv
  <2> QED BY <1>6, <2>1 DEF FsInv, Closed
<1>10. seen' \subseteq Linked(entry') \cup lost' /\ \A i \in Steps : way'[i] \subseteq Linked(entry') \cup lost'
  <2> DEFINE A == Linked(entry') \cup lost
  <2>1. A \in SUBSET Obj /\ Top \in A /\ Closed(entry', A)
    BY <1>2, <1>3, <1>9, LinkedFacts DEF Closed
  <2>2. seen \subseteq A /\ \A i \in Steps : way[i] \subseteq A
    BY <1>6 DEF FsInv
  <2> HIDE DEF A
  <2>3. /\ \A i \in Steps : WayIn(entry', way)[i] \subseteq A
        /\ SeenIn(entry', WayIn(entry', way), seen) \subseteq A
    BY <1>2, <2>1, <2>2, NearInside
  <2> QED BY <1>2, <2>3 DEF A
<1> QED BY <1>6, <1>7, <1>8, <1>9, <1>10 DEF FsInv

\* A move, seen from the filesystem: the entries y, of d, and w, of x, are exchanged.
MoveAt(d, x, y, w) ==
  /\ y \in Obj \X Name /\ w \in Obj \X Name /\ y[1] = d /\ w[1] = x /\ y # w /\ entry[y] # Nil
  /\ IsDir(d) /\ IsDir(x) /\ MayMove(entry[y], d, x) /\ MayMove(entry[w], x, d)
  /\ entry' \in Map /\ Foreign(entry')
  /\ Tidy(entry') /\ Linked(entry') = Linked(entry)
  /\ entry'[y] = entry[w] /\ entry'[w] = entry[y]
  /\ \A z \in Obj \X Name : z # y /\ z # w => entry'[z] = entry[z]

LEMMA MoveFacts ==
  ASSUME IInv, FsInv, ForeignMove
  PROVE  \E d, x \in Linked(entry) : \E y, w : MoveAt(d, x, y, w)
<1>1. PICK d \in Linked(entry), x \in Linked(entry), n \in Name, m \in Name :
        /\ <<d, n>> \in Obj \X Name /\ <<x, m>> \in Obj \X Name /\ <<d, n>> # <<x, m>>
        /\ entry[<<d, n>>] # Nil /\ IsDir(d) /\ IsDir(x)
        /\ MayMove(entry[<<d, n>>], d, x) /\ MayMove(entry[<<x, m>>], x, d)
        /\ Moved(<<d, n>>, <<x, m>>) \in Map /\ Foreign(Moved(<<d, n>>, <<x, m>>))
  BY MoveStep
<1> DEFINE y == <<d, n>>
           w == <<x, m>>
<1>2. entry' = Moved(y, w) /\ entry' \in Map /\ Foreign(entry')
  BY <1>1 DEF Foreign
<1>3. entry \in Map /\ Tidy(entry)
  BY DEF IInv, Typed, FsInv
<1>4. x \notin Tree(entry, entry[y]) /\ (entry[w] # Nil => d \notin Tree(entry, entry[w]))
  BY <1>1 DEF MayMove
<1>5. entry'[y] = entry[w] /\ entry'[w] = entry[y]
      /\ \A z \in Obj \X Name : z # y /\ z # w => entry'[z] = entry[z]
  BY <1>1, <1>2, <1>3 DEF Moved, Map
<1>6. Tidy(entry') /\ Linked(entry') = Linked(entry)
  <2>1. y \in Obj \X Name /\ w \in Obj \X Name /\ y[1] = d /\ w[1] = x /\ y # w /\ entry[y] # Nil
    BY <1>1
  <2> HIDE DEF y, w
  <2> QED BY <1>1, <1>2, <1>3, <1>4, <1>5, <2>1, MoveTrees
<1>7. MoveAt(d, x, y, w)
  BY <1>1, <1>2, <1>5, <1>6 DEF MoveAt
<1> QED BY <1>7

LEMMA FsInvMove == IInv /\ FsInv /\ ForeignMove => FsInv'
<1> SUFFICES ASSUME IInv, FsInv, ForeignMove PROVE FsInv'
  OBVIOUS
<1>0. PICK d \in Linked(entry), x \in Linked(entry) : \E y, w : MoveAt(d, x, y, w)
  BY MoveFacts
<1>4. PICK v, w : MoveAt(d, x, v, w)
  BY <1>0
<1>1. /\ v \in Obj \X Name /\ w \in Obj \X Name /\ v[1] = d /\ w[1] = x /\ IsDir(d) /\ IsDir(x)
      /\ entry' \in Map /\ Foreign(entry')
      /\ Tidy(entry') /\ Linked(entry') = Linked(entry)
      /\ \A z \in Obj \X Name : z # v /\ z # w => entry'[z] = entry[z]
  BY <1>4 DEF MoveAt
<1>2. lost' = lost /\ way' = WayIn(entry', way) /\ seen' = SeenIn(entry', way', seen)
  BY <1>1 DEF Foreign
<1>3. entry \in Map /\ lost \subseteq Obj
  BY DEF IInv, Typed
<1>7. ASSUME NEW y \in Obj \X Name, entry'[y] # Nil PROVE IsDir(y[1]) /\ y[1] \in Linked(entry') \cup lost'
  <2>1. CASE y = v \/ y = w
    BY <1>1, <2>1
  <2>2. CASE y # v /\ y # w
    BY <1>1, <1>2, <1>7, <2>2 DEF FsInv
  <2> QED BY <2>1, <2>2
<1>8. Linked(entry') \cap lost' = {}
  BY <1>1, <1>2 DEF FsInv
<1>9. Closed(entry', lost')
  <2> SUFFICES ASSUME NEW c \in lost, NEW k \in Name, entry'[<<c, k>>] # Nil PROVE entry'[<<c, k>>] \in lost
    BY <1>2 DEF Closed
  <2>1. <<c, k>> \in Obj \X Name /\ <<c, k>> # v /\ <<c, k>> # w
    BY <1>1, <1>3 DEF FsInv
  <2> QED BY <1>1, <2>1 DEF FsInv, Closed
<1>10. seen' \subseteq Linked(entry') \cup lost' /\ \A i \in Steps : way'[i] \subseteq Linked(entry') \cup lost'
  <2> DEFINE A == Linked(entry') \cup lost
  <2>1. A \in SUBSET Obj /\ Top \in A /\ Closed(entry', A)
    BY <1>1, <1>2, <1>3, <1>9, LinkedFacts DEF Closed
  <2>2. seen \subseteq A /\ \A i \in Steps : way[i] \subseteq A
    BY <1>1 DEF FsInv
  <2> HIDE DEF A
  <2>3. /\ \A i \in Steps : WayIn(entry', way)[i] \subseteq A
        /\ SeenIn(entry', WayIn(entry', way), seen) \subseteq A
    BY <1>1, <2>1, <2>2, NearInside
  <2> QED BY <1>2, <2>3 DEF A
<1> QED BY <1>1, <1>7, <1>8, <1>9, <1>10 DEF FsInv

LEMMA FsInvNext == IInv /\ FsInv /\ [Next]_vars => FsInv'
<1>1. Reads \/ UNCHANGED vars => UNCHANGED <<entry, way, seen, lost>>
  BY DEF Reads, vars, fs
<1>2. FsInv /\ UNCHANGED <<entry, way, seen, lost>> => FsInv'
  BY DEF FsInv
<1> QED BY <1>1, <1>2, StepKinds, FsInvRemove, FsInvCreate, FsInvMove

LEMMA FsInvAlways == Spec => []FsInv
BY IInvAlways, FsInvInit, FsInvNext, PTL DEF Spec

-----------------------------------------------------------------------------
(* The subvolume that an object belongs to. *)

Listing(fr) == fr.fn = "delete_at" /\ fr.pc \in {"list", "loop"}

\* An object belongs to the subvolume of its directory, unless it is the root of one, and a
\* directory that is emptied to the one of the directory its name is in.
Owned ==
  /\ \A o \in Obj : Kind[o] = "subvol" => owner[o] = o
  /\ \A x \in Obj \X Name : entry[x] # Nil => Kind[entry[x]] = "subvol" \/ owner[entry[x]] = owner[x[1]]
  /\ \A i \in 1..Len(stack) : Listing(stack[i]) => owner[stack[i].fd] = owner[stack[i].dir]

\* Within a subvolume an object is where its directory is.
LEMMA OwnFacts ==
  ASSUME NEW e \in Map, Tidy(e), NEW v \in Obj, Kind[v] = "subvol",
         NEW x \in Obj \X Name, e[x] # Nil, Kind[e[x]] # "subvol"
  PROVE  /\ e[x] \in Own(e, v) <=> x[1] \in Own(e, v)
         /\ Kind[x[1]] = "subvol" => (x[1] \in Own(e, v) <=> x[1] = v)
<1> DEFINE m == [y \in Obj \X Name |-> IF e[y] # Nil /\ Kind[e[y]] = "subvol" THEN Nil ELSE e[y]]
           T == Tree(m, v)
<1>1. /\ m \in Map /\ \A y \in Obj \X Name : m[y] = e[y] \/ m[y] = Nil
      /\ \A y \in Obj \X Name : m[y] # Nil => Kind[m[y]] # "subvol"
      /\ m[x] = e[x]
  BY DEF Map
<1>2. T = Own(e, v)
  BY DEF Own
<1> HIDE DEF m
<1>3. v \in T /\ T \subseteq Obj /\ Closed(m, T)
  BY <1>1, TreeFacts
<1>4. ASSUME NEW z \in T, z # v PROVE \E y \in Obj \X Name : y[1] \in T /\ e[y] = z /\ Kind[z] # "subvol"
  <2>1. PICK y \in Obj \X Name : y[1] \in T /\ m[y] = z
    BY <1>1, <1>4, TreeParent
  <2>2. z # Nil
    BY <1>3, ObjFacts
  <2> QED BY <1>1, <2>1, <2>2
<1> HIDE DEF T
<1>5. x = <<x[1], x[2]>> /\ x[1] \in Obj /\ x[2] \in Name
  OBVIOUS
<1>6. x[1] \in T => e[x] \in T
  BY <1>1, <1>3, <1>5 DEF Closed
<1>7. ASSUME e[x] \in T PROVE x[1] \in T
  <2>1. PICK y \in Obj \X Name : y[1] \in T /\ e[y] = e[x]
    BY <1>4, <1>7
  <2> QED BY <2>1 DEF Tidy
<1>8. Kind[x[1]] = "subvol" => (x[1] \in T <=> x[1] = v)
  BY <1>3, <1>4
<1> QED BY <1>2, <1>6, <1>7, <1>8

LEMMA OwnedInit == Init => Owned
<1> SUFFICES ASSUME Init PROVE Owned
  OBVIOUS
<1> DEFINE P(o, v) == Kind[v] = "subvol" /\ o \in Own(entry, v)
           home(o) == IF Kind[o] = "subvol" THEN o
                      ELSE IF \E v \in Linked(entry) : P(o, v)
                           THEN CHOOSE v \in Linked(entry) : P(o, v) ELSE Nil
<1>1. \A o \in Obj : owner[o] = home(o)
  BY DEF Init
<1>2. entry \in Map /\ Filesystem(entry) /\ Linked(entry) \subseteq Obj
  BY DeleteAssumption, LinkedFacts DEF Init, Filesystem
<1>3. Tidy(entry)
  BY FsInvInit DEF FsInv
<1>4. ASSUME NEW x \in Obj \X Name, entry[x] # Nil, Kind[entry[x]] # "subvol"
      PROVE  owner[entry[x]] = owner[x[1]]
  <2> DEFINE c == entry[x]
             d == x[1]
  <2>1. c \in Obj /\ d \in Obj /\ d \in Linked(entry)
    BY <1>2, <1>4 DEF Map, Filesystem
  <2>2. \A v \in Linked(entry) : Kind[v] = "subvol" =>
          /\ c \in Own(entry, v) <=> d \in Own(entry, v)
          /\ Kind[d] = "subvol" => (d \in Own(entry, v) <=> d = v)
    BY <1>2, <1>3, <1>4, OwnFacts
  <2>3. \A v \in Linked(entry) : P(c, v) <=> P(d, v)
    BY <2>2
  <2>4. Kind[d] = "subvol" => \A v \in Linked(entry) : P(d, v) <=> v = d
    BY <2>1, <2>2
  <2> HIDE DEF P, c, d
  <2>5. CASE Kind[d] = "subvol"
    <3>1. (CHOOSE v \in Linked(entry) : P(c, v)) = d /\ \E v \in Linked(entry) : P(c, v)
      BY <2>1, <2>3, <2>4, <2>5
    <3>2. home(c) = d /\ home(d) = d
      BY <1>4, <2>5, <3>1 DEF c
    <3> QED BY <1>1, <2>1, <3>2 DEF c, d
  <2>6. CASE Kind[d] # "subvol"
    <3>1. (CHOOSE v \in Linked(entry) : P(c, v)) = CHOOSE v \in Linked(entry) : P(d, v)
      BY <2>3
    <3>2. (\E v \in Linked(entry) : P(c, v)) <=> \E v \in Linked(entry) : P(d, v)
      BY <2>3
    <3>3. home(c) = home(d)
      BY <1>4, <2>6, <3>1, <3>2 DEF c
    <3> HIDE DEF home
    <3> QED BY <1>1, <2>1, <3>3 DEF c, d
  <2> QED BY <2>5, <2>6
<1>5. \A o \in Obj : Kind[o] = "subvol" => owner[o] = o
  BY <1>1
<1>6. \A i \in 1..Len(stack) : ~Listing(stack[i])
  <2> DEFINE f == [Frame("open_parent", Top, Nil) EXCEPT !.path = Front(Target)]
  <2>1. f.fn = "open_parent"
    BY DEF Frame
  <2> HIDE DEF f
  <2>2. stack = <<f>>
    BY DEF Init, f
  <2> QED BY <2>1, <2>2 DEF Listing
<1> QED BY <1>4, <1>5, <1>6 DEF Owned

\* The frames that a step leaves on the stack.
LEMMA FramesKept ==
  ASSUME IInv, stack # <<>>, NEW c, NEW f,
         stack' = Front(stack) \/ stack' = Append(Front(stack), f) \/ stack' = Front(stack) \o <<c, f>>,
         NEW i \in 1..Len(stack'), stack'[i] # c, stack'[i] # f
  PROVE  i \in 1..Len(stack) /\ stack'[i] = stack[i]
<1>1. stack \in Seq(Frames)
  BY DEF IInv, GoodStack
<1> DEFINE s == Front(stack)
           n == Len(stack)
<1>2. s \in Seq(Frames) /\ n \in Nat \ {0} /\ Len(s) = n - 1 /\ \A j \in 1..(n - 1) : s[j] = stack[j]
  BY <1>1, FrontFacts
<1> HIDE DEF s, n
<1>3. CASE stack' = s
  BY <1>2, <1>3 DEF n
<1>4. CASE stack' = Append(s, f)
  <2>1. Len(stack') = n /\ stack'[n] = f /\ \A j \in 1..(n - 1) : stack'[j] = s[j]
    BY <1>2, <1>4
  <2>2. i \in 1..(n - 1)
    BY <1>2, <2>1
  <2> QED BY <1>2, <2>1, <2>2 DEF n
<1>5. CASE stack' = s \o <<c, f>>
  <2>1. /\ Len(stack') = n + 1 /\ stack'[n] = c /\ stack'[n + 1] = f
        /\ \A j \in 1..(n - 1) : stack'[j] = s[j]
    <3> DEFINE G == Frames \cup {c, f}
               t == Append(s, c)
    <3>0. s \in Seq(G) /\ c \in G /\ f \in G
      BY <1>2
    <3> HIDE DEF G
    <3>1. t \in Seq(G) /\ Len(t) = n /\ t[n] = c /\ \A j \in 1..(n - 1) : t[j] = s[j]
      BY <1>2, <3>0
    <3>2. stack' = Append(t, f)
      BY <1>2, <1>5, <3>0
    <3> HIDE DEF t
    <3> QED BY <1>2, <3>0, <3>1, <3>2
  <2>2. i \in 1..(n - 1)
    BY <1>2, <2>1
  <2> QED BY <1>2, <2>1, <2>2 DEF n
<1> QED BY <1>3, <1>4, <1>5 DEF s

\* Every frame that lists a directory has been listing it before, or has just opened it.
Lists(fr) ==
  \/ \E j \in 1..Len(stack) : Listing(stack[j]) /\ stack[j].fd = fr.fd /\ stack[j].dir = fr.dir
  \/ /\ \E x \in Obj \X Name : x[1] = fr.dir /\ entry[x] = fr.fd
     /\ fr.fd # Nil /\ Kind[fr.fd] # "subvol"

LEMMA ListingKept ==
  ASSUME IInv, IInv', Reads, DeleteRel \/ CallFails, NEW i \in 1..Len(stack'), Listing(stack'[i])
  PROVE  Lists(stack'[i])
<1> DEFINE F == stack'[i]
<1>1. ASSUME Listing(Now), stack # <<>>
      PROVE  \E j \in 1..Len(stack) : Listing(stack[j]) /\ stack[j].fd = Now.fd /\ stack[j].dir = Now.dir
  <2>1. stack \in Seq(Frames)
    BY DEF IInv, GoodStack
  <2>2. Now = stack[Len(stack)] /\ Len(stack) \in Nat \ {0}
    BY <1>1, <2>1, FrontFacts DEF Now
  <2> QED BY <1>1, <2>2
<1>2. ASSUME NEW c, NEW f, stack # <<>>,
             Become(f) \/ Call(c, f) \/ Return,
             F = c => Lists(F), F = f => Lists(F)
      PROVE  Lists(F)
  BY <1>2, FramesKept DEF Lists, Become, Call, Return
<1>3. ~Fail
  <2>1. stack' # <<>>
    <3>1. stack' \in Seq(Frames)
      BY DEF IInv, GoodStack
    <3> QED BY <3>1
  <2> QED BY <2>1 DEF Fail
<1>4. stack # <<>>
  BY <1>3 DEF DeleteRel, DeleteAt, DestroyNested, OpenParent, CallDeleteAt, CallFails, StatTarget,
        Unlink, OpenTarget, ListTarget, DeleteEntry, Rmdir, SnapDestroy, NestedList, NestedStat,
        NestedOpen, NestedDone, At
<1>5. Now \in Frames
  BY <1>4, TopFrame DEF IInv, Now
<1>7. ASSUME Listing(Now), NEW fr, fr.fd = Now.fd, fr.dir = Now.dir PROVE Lists(fr)
  BY <1>1, <1>4, <1>7 DEF Lists
<1>8. ASSUME NEW fn, NEW dir, NEW name PROVE ~Listing(Frame(fn, dir, name))
  BY DEF Listing, Frame
<1>9. CASE OpenParent
  <2> DEFINE f == [Now EXCEPT !.dir = OpenDirAt(Now.dir, Head(Now.path)), !.path = Tail(@)]
  <2>1. Become(f) /\ f.fn # "delete_at"
    BY <1>3, <1>5, <1>9 DEF OpenParent, At, Frames
  <2> HIDE DEF f
  <2> QED BY <1>2, <1>4, <2>1 DEF Listing
<1>10. CASE CallDeleteAt
  BY <1>2, <1>4, <1>8, <1>10 DEF CallDeleteAt
<1>11. CASE StatTarget
  <2> DEFINE f == [Now EXCEPT !.st = There, !.pc = IF IsDir(There) THEN "open" ELSE "unlink"]
  <2>1. Become(f) /\ f.pc \in {"open", "unlink"}
    BY <1>3, <1>5, <1>11 DEF StatTarget, Frames
  <2> HIDE DEF f
  <2> QED BY <1>2, <1>4, <2>1 DEF Listing
<1>12. CASE Unlink \/ Rmdir \/ SnapDestroy
  <2> DEFINE z == Frame("delete_at", Nil, Nil)
  <2>1. Return
    BY <1>3, <1>12 DEF Unlink, Rmdir, SnapDestroy, RemoveIf
  <2>2. ~Listing(z)
    BY <1>8
  <2> QED BY <1>2, <1>4, <2>1, <2>2
<1>13. CASE OpenTarget
  <2> DEFINE o == OpenDirAt(Now.dir, Now.name)
             c == [Now EXCEPT !.fd = o, !.pc = "destroy"]
             f == [Now EXCEPT !.fd = o, !.pc = "list"]
  <2>1. CASE Kind[Now.st] = "subvol"
    <3>1. Call(c, Frame("destroy_nested", o, Nil)) /\ c.pc = "destroy"
      BY <1>3, <1>5, <1>13, <2>1 DEF OpenTarget, Frames
    <3> HIDE DEF c
    <3>2. ~Listing(c)
      BY <3>1 DEF Listing
    <3> QED BY <1>2, <1>4, <1>8, <3>1, <3>2
  <2>2. CASE Kind[Now.st] # "subvol"
    <3>1. Become(f) /\ IsDir(o) /\ o = Now.st
      BY <1>3, <1>13, <2>2 DEF OpenTarget, SameDir
    <3>2. f.fd = o /\ f.dir = Now.dir
      BY <1>5 DEF Frames
    <3>3. <<Now.dir, Now.name>> \in Obj \X Name /\ o = entry[<<Now.dir, Now.name>>]
      BY <1>4, <1>13, ThereSeen DEF OpenTarget, At, OpenDirAt
    <3> HIDE DEF f
    <3>4. Lists(f)
      BY <2>2, <3>1, <3>2, <3>3 DEF Lists, IsDir
    <3> QED BY <1>2, <1>4, <3>1, <3>4
  <2> QED BY <2>1, <2>2
<1>14. CASE ListTarget
  <2> DEFINE f == [Now EXCEPT !.todo = Entries(Now.fd), !.pc = "loop"]
  <2>1. Become(f) /\ Listing(Now) /\ f.fd = Now.fd /\ f.dir = Now.dir
    BY <1>3, <1>5, <1>14 DEF ListTarget, At, Listing, Frames
  <2> HIDE DEF f
  <2> QED BY <1>2, <1>4, <1>7, <2>1
<1>15. CASE DeleteEntry
  <2>1. PICK n : Call([Now EXCEPT !.todo = @ \ {n}], Frame("delete_at", Now.fd, n))
    BY <1>15 DEF DeleteEntry
  <2> DEFINE c == [Now EXCEPT !.todo = @ \ {n}]
  <2>2. Listing(Now) /\ c.fd = Now.fd /\ c.dir = Now.dir
    BY <1>5, <1>15 DEF DeleteEntry, At, Listing, Frames
  <2> HIDE DEF c
  <2>3. Call(c, Frame("delete_at", Now.fd, n))
    BY <2>1 DEF c
  <2> QED BY <1>2, <1>4, <1>7, <1>8, <2>2, <2>3
<1>16. CASE NestedList
  <2> DEFINE f == [Now EXCEPT !.todo = Entries(Now.dir), !.pc = "loop"]
  <2>1. Become(f) /\ f.fn # "delete_at"
    BY <1>3, <1>5, <1>16 DEF NestedList, At, Frames
  <2> HIDE DEF f
  <2> QED BY <1>2, <1>4, <2>1 DEF Listing
<1>17. CASE NestedStat
  <2> DEFINE rest(n) == [Now EXCEPT !.todo = @ \ {n}]
             next(n) == [rest(n) EXCEPT !.name = n, !.pc = "open"]
  <2>1. PICK n : \/ Call(rest(n), Frame("delete_at", Now.dir, n))
                 \/ Become(next(n)) \/ Become(rest(n))
    BY <1>3, <1>17 DEF NestedStat
  <2>2. rest(n).fn # "delete_at" /\ next(n).fn # "delete_at"
    BY <1>5, <1>17 DEF NestedStat, At, Frames
  <2> HIDE DEF rest, next
  <2>3. ~Listing(rest(n)) /\ ~Listing(next(n))
    BY <2>2 DEF Listing
  <2>4. CASE Call(rest(n), Frame("delete_at", Now.dir, n))
    BY <1>2, <1>4, <1>8, <2>3, <2>4
  <2>5. CASE Become(next(n))
    BY <1>2, <1>4, <2>3, <2>5
  <2>6. CASE Become(rest(n))
    BY <1>2, <1>4, <2>3, <2>6
  <2> QED BY <2>1, <2>4, <2>5, <2>6
<1>18. CASE NestedOpen
  <2> DEFINE c == [Now EXCEPT !.pc = "loop"]
  <2>1. c.fn # "delete_at" /\ Call(c, Frame("destroy_nested", OpenDirAt(Now.dir, Now.name), Nil))
    BY <1>3, <1>5, <1>18 DEF NestedOpen, At, Frames
  <2> HIDE DEF c
  <2>2. ~Listing(c)
    BY <2>1 DEF Listing
  <2> QED BY <1>2, <1>4, <1>8, <2>1, <2>2
<1>19. CASE NestedDone
  BY <1>2, <1>4, <1>19 DEF NestedDone
<1>20. ~CallFails
  BY <1>3 DEF CallFails
<1> QED BY <1>9, <1>10, <1>11, <1>12, <1>13, <1>14, <1>15, <1>16, <1>17, <1>18, <1>19, <1>20
        DEF DeleteRel, DeleteAt, DestroyNested

LEMMA OwnedCreate ==
  ASSUME IInv, FsInv, Owned, ForeignCreate
  PROVE  Owned'
<1>1. PICK o \in Obj \ (Linked(entry) \cup lost), d \in Linked(entry), n \in Name :
        /\ <<d, n>> \in Obj \X Name /\ IsDir(d)
        /\ Made(<<d, n>>, o) \in Map /\ Foreign(Made(<<d, n>>, o))
        /\ owner' = [owner EXCEPT ![o] = IF Kind[o] = "subvol" THEN o ELSE owner[d]]
  BY CreateStep
<1> DEFINE x == <<d, n>>
<1>2. entry' = [entry EXCEPT ![x] = o] /\ stack' = stack
  BY <1>1 DEF Foreign, Made
<1>3. entry \in Map /\ owner \in [Obj -> Obj \cup {Nil}] /\ stack \in Seq(Frames)
      /\ seen \subseteq Obj /\ way \in [Steps -> SUBSET Obj]
  BY DEF IInv, Typed, GoodStack
<1>4. owner'[o] = (IF Kind[o] = "subvol" THEN o ELSE owner[d]) /\ \A z \in Obj : z # o => owner'[z] = owner[z]
  BY <1>1, <1>3
<1>5. d \in Obj /\ o # d
  BY <1>1
<1>6. ASSUME NEW y \in Obj \X Name, entry'[y] # Nil
      PROVE  Kind[entry'[y]] = "subvol" \/ owner'[entry'[y]] = owner'[y[1]]
  <2>1. CASE y = x
    BY <1>1, <1>2, <1>3, <1>4, <1>5, <2>1 DEF Map
  <2>2. CASE y # x
    <3>1. entry'[y] = entry[y] /\ entry[y] \in Obj /\ y = <<y[1], y[2]>> /\ y[2] \in Name
      BY <1>2, <1>3, <1>6, <2>2 DEF Map
    <3>2. y[1] \in Linked(entry) \cup lost /\ y[1] \in Obj
      BY <1>6, <3>1 DEF FsInv
    <3>3. entry[y] \in Linked(entry) \cup lost
      BY <1>3, <1>6, <3>1, <3>2, LinkedFacts DEF FsInv, Closed
    <3>4. y[1] # o /\ entry[y] # o
      BY <3>2, <3>3
    <3> QED BY <1>4, <1>6, <3>1, <3>2, <3>4 DEF Owned
  <2> QED BY <2>1, <2>2
<1>7. ASSUME NEW i \in 1..Len(stack), Listing(stack[i]) PROVE owner'[stack[i].fd] = owner'[stack[i].dir]
  <2>1. Good(stack[i], i, way, seen) /\ stack[i] \in Frames
    BY DEF IInv, GoodStack
  <2>2. stack[i].fd \in seen /\ stack[i].dir \in seen \cup way[K - 1]
    BY <1>7, <2>1 DEF Good, Listing
  <2>3. K - 1 \in Steps
    BY TargetFacts
  <2>4. seen \cup way[K - 1] \subseteq Linked(entry) \cup lost /\ seen \cup way[K - 1] \subseteq Obj
    BY <1>3, <2>3 DEF FsInv
  <2>5. stack[i].fd # o /\ stack[i].dir # o /\ stack[i].fd \in Obj /\ stack[i].dir \in Obj
    BY <1>1, <2>2, <2>4
  <2> QED BY <1>4, <1>7, <2>5 DEF Owned
<1>8. \A z \in Obj : Kind[z] = "subvol" => owner'[z] = z
  BY <1>4 DEF Owned
<1> QED BY <1>2, <1>6, <1>7, <1>8 DEF Owned

LEMMA OwnedMove ==
  ASSUME IInv, FsInv, Owned, ForeignMove
  PROVE  Owned'
<1>0. PICK d \in Linked(entry), x \in Linked(entry) : \E y, w : MoveAt(d, x, y, w)
  BY MoveFacts
<1>1. PICK v, w : MoveAt(d, x, v, w)
  BY <1>0
<1>2. /\ v \in Obj \X Name /\ w \in Obj \X Name /\ v[1] = d /\ w[1] = x
      /\ MayMove(entry[v], d, x) /\ MayMove(entry[w], x, d) /\ Foreign(entry')
      /\ entry'[v] = entry[w] /\ entry'[w] = entry[v]
      /\ \A z \in Obj \X Name : z # v /\ z # w => entry'[z] = entry[z]
  BY <1>1 DEF MoveAt
<1>3. owner' = owner /\ stack' = stack
  BY <1>2 DEF ForeignMove, Foreign
<1>4. ASSUME NEW y \in Obj \X Name, entry'[y] # Nil
      PROVE  Kind[entry'[y]] = "subvol" \/ owner[entry'[y]] = owner[y[1]]
  <2>1. CASE y = v
    BY <1>2, <1>4, <2>1 DEF Owned, MayMove
  <2>2. CASE y = w
    BY <1>2, <1>4, <2>2 DEF Owned, MayMove
  <2>3. CASE y # v /\ y # w
    BY <1>2, <1>4, <2>3 DEF Owned
  <2> QED BY <2>1, <2>2, <2>3
<1> QED BY <1>3, <1>4 DEF Owned

LEMMA OwnedRemove ==
  ASSUME IInv, FsInv, Owned, Removing
  PROVE  Owned'
<1>1. \A y \in Obj \X Name : entry'[y] = entry[y] \/ entry'[y] = Nil
  BY RemoveStep DEF RemoveFacts
<1>2. owner' = owner /\ stack # <<>> /\ stack' = Front(stack)
  BY DEF Removing, RemoveEntry, Return
<1>3. \A i \in 1..Len(stack') : i \in 1..Len(stack) /\ stack'[i] = stack[i]
  <2>1. stack \in Seq(Frames)
    BY DEF IInv, GoodStack
  <2>2. Len(stack) \in Nat \ {0} /\ Len(stack') = Len(stack) - 1
        /\ \A i \in 1..(Len(stack) - 1) : stack'[i] = stack[i]
    BY <1>2, <2>1, FrontFacts
  <2> QED BY <2>2
<1> QED BY <1>1, <1>2, <1>3 DEF Owned

LEMMA OwnedNext == IInv /\ IInv' /\ FsInv /\ Owned /\ [Next]_vars => Owned'
<1> SUFFICES ASSUME IInv, IInv', FsInv, Owned, [Next]_vars PROVE Owned'
  OBVIOUS
<1>1. CASE Reads /\ (DeleteRel \/ CallFails)
  <2>1. entry' = entry /\ owner' = owner
    BY <1>1 DEF Reads, fs
  <2>2. ASSUME NEW i \in 1..Len(stack'), Listing(stack'[i])
        PROVE  owner[stack'[i].fd] = owner[stack'[i].dir]
    <3>1. Lists(stack'[i])
      BY <1>1, <2>2, ListingKept
    <3> QED BY <3>1 DEF Lists, Owned
  <2> QED BY <2>1, <2>2 DEF Owned
<1>2. CASE UNCHANGED vars
  BY <1>2 DEF Owned, vars, fs
<1> QED BY <1>1, <1>2, StepKinds, OwnedCreate, OwnedMove, OwnedRemove

LEMMA OwnedAlways == Spec => []Owned
BY IInvAlways, FsInvAlways, OwnedInit, OwnedNext, PTL DEF Spec

\* An object without entries is a tree of its own.
LEMMA LeafTree ==
  ASSUME NEW e \in Map, NEW o \in Obj, \A n \in Name : e[<<o, n>>] = Nil
  PROVE  Tree(e, o) = {o}
<1>1. Closed(e, {o})
  BY DEF Closed
<1> QED BY <1>1, TreeFacts

\* Unless delete_at was misled, the directory of a file or directory it removes belongs to
\* the subvolume that the target is an entry of: all calls below it empty directories.
LEMMA SameOwner ==
  ASSUME IInv, Owned, ~Mistaken, stack # <<>>, Now.fn = "delete_at", Kind[Now.st] # "subvol"
  PROVE  owner[Now.dir] = owner[stack[1].dir]
<1> DEFINE N == Len(stack)
           Same(i) == /\ stack[i].fn = "delete_at" /\ Kind[stack[i].st] # "subvol"
                      /\ owner[stack[i].dir] = owner[Now.dir]
           T == {k \in Nat : k < N => Same(N - k)}
<1>0. stack \in Seq(Frames) /\ N \in Nat \ {0} /\ Now = stack[N]
  <2>1. stack \in Seq(Frames)
    BY DEF IInv, GoodStack
  <2> QED BY <2>1, FrontFacts DEF Now
<1>1. 0 \in T
  BY <1>0
<1>2. ASSUME NEW k \in Nat, k \in T PROVE k + 1 \in T
  <2> SUFFICES ASSUME k + 1 < N PROVE Same(N - (k + 1))
    OBVIOUS
  <2> DEFINE i == N - k
  <2>1. i \in 2..N /\ i - 1 = N - (k + 1) /\ i - 1 \in 1..N /\ Same(i)
    BY <1>0, <1>2
  <2> HIDE DEF i
  <2>2. Calls(stack[i - 1], stack[i]) /\ Good(stack[i - 1], i - 1, way, seen)
    BY <2>1 DEF IInv, GoodStack
  <2>3. stack[i - 1].fn # "destroy_nested"
    BY <2>1 DEF Mistaken
  <2>4. /\ stack[i - 1].fn = "delete_at" /\ stack[i - 1].pc = "loop"
        /\ stack[i].dir = stack[i - 1].fd
    BY <2>1, <2>2, <2>3 DEF Calls
  <2>5. stack[i - 1].fd = stack[i - 1].st /\ Kind[stack[i - 1].fd] = "dir"
    BY <2>2, <2>4 DEF Good
  <2>6. owner[stack[i - 1].fd] = owner[stack[i - 1].dir]
    BY <2>1, <2>4 DEF Owned, Listing
  <2> QED BY <2>1, <2>4, <2>5, <2>6
<1> HIDE DEF T
<1>3. N - 1 \in Nat /\ N - 1 \in T
  BY <1>0, <1>1, <1>2, AllNumbers
<1>4. Same(1)
  BY <1>0, <1>3 DEF T
<1> QED BY <1>4

LEMMA RemovedOwners ==
  ASSUME IInv, FsInv, Owned, Removing, NEW o \in Tree(entry, There)
  PROVE  owner[o] \in lost' \/ owner[o] = owner[stack[1].dir] \/ Mistaken
<1> DEFINE x == <<Now.dir, Now.name>>
           c == There
           T == Tree(entry, c)
<1>1. /\ x \in Obj \X Name /\ entry[x] = c /\ c \in Obj /\ entry \in Map
      /\ c \in T /\ T \subseteq Obj /\ Closed(entry, T) /\ lost' = lost \cup T
  <2>1. x \in Obj \X Name /\ entry[x] = c /\ c # Nil
    BY ThereSeen DEF Removing, There
  <2>2. c \in Obj /\ entry \in Map
    BY <2>1 DEF IInv, Typed, Map
  <2>3. lost' = lost \cup T
    BY DEF Removing, RemoveEntry
  <2> QED BY <2>1, <2>2, <2>3, TreeFacts
<1>2. stack # <<>> /\ Now.fn = "delete_at" /\ Good(Now, Len(stack), way, seen)
  BY TopFrame DEF Removing, IInv, Now
<1> HIDE DEF c, T
<1>3. Kind[c] = "subvol" => owner[c] \in lost'
  BY <1>1 DEF Owned
<1>4. Kind[c] # "subvol" => owner[c] = owner[Now.dir]
  BY <1>1, ObjFacts DEF Owned
<1>5. ASSUME Kind[Now.st] # "subvol"
      PROVE  owner[c] \in lost' \/ owner[c] = owner[stack[1].dir] \/ Mistaken
  BY <1>2, <1>3, <1>4, <1>5, SameOwner
<1>6. ~Fail
  BY DEF Removing, Return, Fail
<1>7. ASSUME \A n \in Name : entry[<<c, n>>] = Nil PROVE o = c
  BY <1>1, <1>7, LeafTree DEF c
<1>8. CASE Unlink
  <2>1. ~IsDir(c) /\ Now.pc = "unlink"
    BY <1>6, <1>8 DEF Unlink, At, RemoveIf, c
  <2>2. Kind[Now.st] # "subvol"
    BY <1>2, <2>1 DEF Good, IsDir
  <2>3. \A n \in Name : entry[<<c, n>>] = Nil
    BY <1>1, <2>1 DEF FsInv
  <2> QED BY <1>5, <1>7, <2>2, <2>3
<1>9. CASE Rmdir
  <2>1. Entries(c) = {} /\ Now.pc = "loop"
    BY <1>6, <1>9 DEF Rmdir, At, RemoveIf, c
  <2>2. Kind[Now.st] # "subvol"
    BY <1>2, <2>1 DEF Good
  <2>3. \A n \in Name : entry[<<c, n>>] = Nil
    BY <2>1 DEF Entries
  <2> QED BY <1>5, <1>7, <2>2, <2>3
<1>10. CASE SnapDestroy
  <2>1. Kind[c] = "subvol" /\ \A z \in T \ {c} : Kind[z] # "subvol"
    BY <1>6, <1>10 DEF SnapDestroy, RemoveIf, c, T
  <2>2. owner[c] = c
    BY <1>1, <2>1 DEF Owned
  <2> DEFINE S == {z \in T : owner[z] = c}
  <2>3. c \in S /\ S \in SUBSET Obj
    BY <1>1, <2>2
  <2>4. Closed(entry, S)
    <3> SUFFICES ASSUME NEW z \in S, NEW n \in Name, entry[<<z, n>>] # Nil PROVE entry[<<z, n>>] \in S
      BY DEF Closed
    <3>1. <<z, n>> \in Obj \X Name /\ <<z, n>>[1] = z
      BY <2>3
    <3>2. entry[<<z, n>>] \in T
      BY <1>1 DEF Closed
    <3>3. Kind[entry[<<z, n>>]] = "subvol" \/ owner[entry[<<z, n>>]] = owner[z]
      BY <3>1 DEF Owned
    <3> QED BY <2>1, <2>2, <3>2, <3>3
  <2> HIDE DEF S
  <2>5. T \subseteq S
    BY <1>1, <2>3, <2>4, TreeFacts DEF T
  <2>6. owner[o] = c
    BY <2>5 DEF S, T, c
  <2> QED BY <1>1, <2>6
<1> QED BY <1>8, <1>9, <1>10 DEF Removing

LEMMA LostStep ==
  ASSUME IInv, FsInv, Owned, [Next]_vars, NEW o \in lost' \ lost
  PROVE  owner[o] \in lost' \/ owner[o] = owner[stack[1].dir] \/ Mistaken
<1>1. lost' # lost
  OBVIOUS
<1>3. Reads => lost' = lost
  BY DEF Reads
<1>4. ForeignCreate \/ ForeignMove => lost' = lost
  <2>1. \A g : Foreign(g) => lost' = lost
    BY DEF Foreign
  <2>2. (\E g : Foreign(g)) => lost' = lost
    BY <2>1
  <2>3. ForeignCreate => \E g : Foreign(g)
    BY CreateStep
  <2>4. ForeignMove => \E g : Foreign(g)
    BY MoveStep
  <2> QED BY <2>2, <2>3, <2>4
<1>5. UNCHANGED vars => lost' = lost
  BY DEF vars
<1>2. Removing
  BY <1>1, <1>3, <1>4, <1>5, StepKinds
<1>6. o \in Tree(entry, There)
  BY <1>2 DEF Removing, RemoveEntry
<1> QED BY <1>2, <1>6, RemovedOwners

\* The files of a subvolume go with the subvolume, and singly only those of the one that the
\* target is an entry of, except where delete_at was misled (destroy_nested: "leaving
\* other files").
THEOREM WholeSubvolumesAlways == Spec => WholeSubvolumes
<1>1. IInv /\ FsInv /\ Owned /\ [Next]_vars =>
        [\A o \in lost' \ lost :
           owner[o] \in lost' \/ owner[o] = owner[stack[1].dir] \/ Mistaken]_vars
  BY LostStep
<1> QED BY <1>1, IInvAlways, FsInvAlways, OwnedAlways, PTL DEF Spec, WholeSubvolumes

-----------------------------------------------------------------------------
(* Success. *)

\* Without moves there is one object at each component, and what is or was in the tree of
\* the target is still there or was removed.
OneWay == \A i \in 1..K : \A z \in way[i] : \E d \in way[i - 1] : entry[<<d, Target[i]>>] = z
StillBelow == \A z \in seen \ lost : \E r \in way[K] : z \in Tree(entry, r)
Unmoved == ~moved /\ result = "running" => OneWay /\ StillBelow

LEMMA WayMembers ==
  ASSUME IInv, NEW i \in 1..K
  PROVE  /\ i - 1 \in Steps /\ i \in Steps /\ Target[i] \in Name
         /\ \A d \in way[i - 1] : d \in Obj /\ <<d, Target[i]>> \in Obj \X Name
         /\ \A z \in way[i] : z \in Obj /\ z # Nil
<1>1. i - 1 \in Steps /\ i \in Steps /\ Target[i] \in Name
  BY TargetFacts
<1>2. way[i - 1] \subseteq Obj /\ way[i] \subseteq Obj
  BY <1>1 DEF IInv, Typed
<1> QED BY <1>1, <1>2, ObjFacts

LEMMA WaySingle ==
  ASSUME IInv, OneWay, NEW j \in Steps
  PROVE  \A y, z \in way[j] : y = z
<1> DEFINE T == {i \in Nat : i <= K => \A y, z \in way[i] : y = z}
<1>1. 0 \in T
  BY DEF IInv, SeenInv
<1>2. ASSUME NEW i \in Nat, i \in T PROVE i + 1 \in T
  <2> SUFFICES ASSUME i + 1 <= K, NEW y \in way[i + 1], NEW z \in way[i + 1] PROVE y = z
    OBVIOUS
  <2>1. i + 1 \in 1..K /\ (i + 1) - 1 = i /\ i <= K
    BY TargetFacts
  <2>2. PICK d \in way[i] : entry[<<d, Target[i + 1]>>] = y
    BY <2>1 DEF OneWay
  <2>3. PICK c \in way[i] : entry[<<c, Target[i + 1]>>] = z
    BY <2>1 DEF OneWay
  <2> QED BY <1>2, <2>1, <2>2, <2>3
<1> HIDE DEF T
<1>3. j \in Nat /\ j <= K /\ j \in T
  BY <1>1, <1>2, AllNumbers, TargetFacts
<1> QED BY <1>3 DEF T

\* The way is linked.
LEMMA WayLinked ==
  ASSUME IInv, OneWay, NEW j \in Steps
  PROVE  way[j] \subseteq Linked(entry)
<1> DEFINE T == {i \in Nat : i <= K => way[i] \subseteq Linked(entry)}
<1>0. entry \in Map /\ way[0] = {Top}
  BY DEF IInv, Typed, SeenInv
<1>1. 0 \in T
  BY <1>0, LinkedFacts
<1>2. ASSUME NEW i \in Nat, i \in T PROVE i + 1 \in T
  <2> SUFFICES ASSUME i + 1 <= K, NEW z \in way[i + 1] PROVE z \in Linked(entry)
    OBVIOUS
  <2>1. i + 1 \in 1..K /\ (i + 1) - 1 = i /\ way[i] \subseteq Linked(entry)
    BY <1>2, TargetFacts
  <2>2. PICK d \in way[i] : entry[<<d, Target[i + 1]>>] = z
    BY <2>1 DEF OneWay
  <2>3. Target[i + 1] \in Name /\ z # Nil
    BY <2>1, WayMembers
  <2> QED BY <1>0, <2>1, <2>2, <2>3, LinkedFacts DEF Closed
<1> HIDE DEF T
<1>3. j \in Nat /\ j <= K /\ j \in T
  BY <1>1, <1>2, AllNumbers, TargetFacts
<1> QED BY <1>3 DEF T

\* All that comes after a component is below the entry that it has for the next one.
LEMMA WayBelow ==
  ASSUME IInv, OneWay, NEW j \in 0..(K - 1), NEW d \in way[j], NEW r \in way[K]
  PROVE  LET c == entry[<<d, Target[j + 1]>>] IN c # Nil /\ c \in Obj /\ r \in Tree(entry, c)
<1> DEFINE c == entry[<<d, Target[j + 1]>>]
           B == Tree(entry, c)
           T == {k \in Nat : j + 1 + k <= K => \A z \in way[j + 1 + k] : c # Nil /\ c \in Obj /\ z \in B}
<1>0. entry \in Map /\ K \in Nat /\ j \in Nat /\ j + 1 <= K
  BY TargetFacts DEF IInv, Typed
<1>1. 0 \in T
  <2> SUFFICES ASSUME NEW z \in way[j + 1] PROVE c # Nil /\ c \in Obj /\ z \in B
    BY <1>0
  <2>1. j + 1 \in 1..K /\ (j + 1) - 1 = j /\ j \in Steps
    BY <1>0, TargetFacts
  <2>2. PICK e \in way[j] : entry[<<e, Target[j + 1]>>] = z
    BY <2>1 DEF OneWay
  <2>3. e = d
    BY <2>1, WaySingle
  <2>4. z \in Obj /\ z # Nil
    BY <2>1, WayMembers
  <2> QED BY <1>0, <2>2, <2>3, <2>4, TreeFacts
<1>2. ASSUME NEW k \in Nat, k \in T PROVE k + 1 \in T
  <2> DEFINE i == j + 1 + k
  <2> SUFFICES ASSUME i + 1 <= K, NEW z \in way[i + 1] PROVE c # Nil /\ c \in Obj /\ z \in B
    BY <1>0
  <2>1. i + 1 \in 1..K /\ (i + 1) - 1 = i /\ \A y \in way[i] : c # Nil /\ c \in Obj /\ y \in B
    BY <1>0, <1>2
  <2> HIDE DEF i
  <2>2. PICK e \in way[i] : entry[<<e, Target[i + 1]>>] = z
    BY <2>1 DEF OneWay
  <2>3. z # Nil /\ Target[i + 1] \in Name
    BY <2>1, WayMembers
  <2> QED BY <1>0, <2>1, <2>2, <2>3, TreeFacts DEF Closed
<1> HIDE DEF T
<1>3. K - (j + 1) \in T /\ j + 1 + (K - (j + 1)) = K
  BY <1>0, <1>1, <1>2, AllNumbers
<1> QED BY <1>0, <1>3 DEF T

\* No directory on the way to the target is or was in the tree of the target.
LEMMA WayOutside ==
  ASSUME IInv, FsInv, OneWay, StillBelow, NEW j \in 0..(K - 1), NEW d \in way[j]
  PROVE  d \notin seen
<1> SUFFICES ASSUME d \in seen PROVE FALSE
  OBVIOUS
<1>1. j \in Steps /\ j + 1 \in 1..K /\ entry \in Map /\ Target[j + 1] \in Name
  BY TargetFacts DEF IInv, Typed
<1>2. d \in Linked(entry) /\ d \notin lost
  BY <1>1, WayLinked DEF FsInv
<1>3. PICK r \in way[K] : d \in Tree(entry, r)
  BY <1>2 DEF StillBelow
<1> DEFINE c == entry[<<d, Target[j + 1]>>]
<1>4. c # Nil /\ c \in Obj /\ r \in Tree(entry, c)
  BY WayBelow
<1>5. d \in Tree(entry, c)
  BY <1>1, <1>3, <1>4, TreeInside
<1>6. d \notin Tree(entry, c)
  BY <1>1, <1>2, <1>4, Acyclic DEF FsInv
<1> QED BY <1>5, <1>6

LEMMA UnmovedInit == Init => Unmoved
<1> SUFFICES ASSUME Init PROVE OneWay /\ StillBelow
  BY DEF Unmoved
<1>0. IInv
  BY IInvInit
<1> DEFINE none == [i \in Steps |-> {}]
<1>1. way = WayIn(entry, none) /\ seen = SeenIn(entry, way, {})
  BY DEF Init
<1>2. \A i \in Steps : none[i] = {}
  OBVIOUS
<1> HIDE DEF none
<1>3. entry \in Map /\ way \in [Steps -> SUBSET Obj]
  BY <1>0 DEF IInv, Typed
<1>4. OneWay
  <2> SUFFICES ASSUME NEW i \in 1..K, NEW z \in way[i]
               PROVE  \E d \in way[i - 1] : entry[<<d, Target[i]>>] = z
    BY DEF OneWay
  <2>1. i \in Steps
    BY TargetFacts
  <2>2. z \in none[i] \/ (z # Nil /\ \E d \in way[i - 1] : z = entry[<<d, Target[i]>>])
    BY <1>1, <1>3, WayFacts
  <2> QED BY <1>2, <2>1, <2>2
<1>5. StillBelow
  BY <1>1, <1>3, SeenFacts DEF StillBelow
<1> QED BY <1>4, <1>5

\* A removal within the tree of the target leaves the way to it alone.
LEMMA UnmovedRemove ==
  ASSUME IInv, FsInv, OneWay, StillBelow, Removing, Len(stack) # 1
  PROVE  OneWay' /\ StillBelow'
<1> DEFINE x == <<Now.dir, Now.name>>
           T == Tree(entry, There)
<1>1. /\ x \in Obj \X Name /\ entry' \in Map /\ lost' = lost \cup T
      /\ \A y \in Obj \X Name : y # x => entry'[y] = entry[y]
      /\ entry[x] = There
  BY RemoveStep DEF RemoveFacts, There
<1>2. way' = way /\ seen' = seen /\ entry \in Map /\ way \in [Steps -> SUBSET Obj]
  BY DEF Removing, RemoveEntry, IInv, Typed
<1>3. Now.dir \in seen
  <2>1. stack # <<>> /\ Now.fn = "delete_at"
    BY DEF Removing
  <2> QED BY <2>1, TopFrame DEF IInv, Now, Good
<1>4. OneWay'
  <2> SUFFICES ASSUME NEW i \in 1..K, NEW z \in way[i]
               PROVE  \E d \in way[i - 1] : entry'[<<d, Target[i]>>] = z
    BY <1>2 DEF OneWay
  <2>1. PICK d \in way[i - 1] : entry[<<d, Target[i]>>] = z
    BY DEF OneWay
  <2>2. i - 1 \in 0..(K - 1)
    BY TargetFacts
  <2>3. d # Now.dir
    BY <1>3, <2>2, WayOutside
  <2>4. <<d, Target[i]>> \in Obj \X Name
    BY WayMembers
  <2> QED BY <1>1, <2>1, <2>3, <2>4
<1>5. StillBelow'
  <2> SUFFICES ASSUME NEW z \in seen \ lost, z \notin T PROVE \E r \in way[K] : z \in Tree(entry', r)
    BY <1>1, <1>2 DEF StillBelow
  <2>1. PICK r \in way[K] : z \in Tree(entry, r)
    BY DEF StillBelow
  <2>2. r \in Obj
    BY <1>2, <2>1, TargetFacts
  <2> DEFINE X == {x}
             g == entry'
  <2>3. X \in SUBSET (Obj \X Name) /\ g \in Map
    BY <1>1
  <2>4. \A y \in (Obj \X Name) \ X : g[y] = entry[y] \/ entry[y] = Nil
    BY <1>1
  <2> HIDE DEF X, g
  <2>5. z \in Tree(g, r) \/ \E y \in X : entry[y] # Nil /\ z \in Tree(entry, entry[y])
    BY <1>2, <2>1, <2>2, <2>3, <2>4, TreeCut
  <2>6. z \in Tree(g, r)
    BY <1>1, <2>5 DEF X
  <2> QED BY <2>1, <2>6 DEF g
<1> QED BY <1>4, <1>5

\* What is created adds to the way and to the tree.
LEMMA UnmovedCreate ==
  ASSUME IInv, IInv', FsInv, FsInv', OneWay, StillBelow, ForeignCreate
  PROVE  OneWay' /\ StillBelow'
<1>1. PICK o \in Obj, d \in Linked(entry), n \in Name :
        /\ <<d, n>> \in Obj \X Name /\ entry[<<d, n>>] = Nil
        /\ Made(<<d, n>>, o) \in Map /\ Foreign(Made(<<d, n>>, o))
  BY CreateStep
<1> DEFINE x == <<d, n>>
<1>2. /\ entry' \in Map /\ entry' = [entry EXCEPT ![x] = o] /\ lost' = lost
      /\ way' = WayIn(entry', way) /\ seen' = SeenIn(entry', way', seen)
  BY <1>1 DEF Foreign, Made
<1>3. /\ entry \in Map /\ way \in [Steps -> SUBSET Obj] /\ seen \in SUBSET Obj
      /\ way' \in [Steps -> SUBSET Obj] /\ way[0] = {Top} /\ way'[0] = {Top}
  BY DEF IInv, Typed, SeenInv
<1>4. \A y \in Obj \X Name : entry[y] = entry'[y] \/ entry[y] = Nil
  BY <1>1, <1>2, <1>3 DEF Map
<1>5. /\ \A i \in 1..K : way[i] \subseteq way'[i]
      /\ \A i \in 1..K : \A z \in way'[i] :
           z \in way[i] \/ (z # Nil /\ \E c \in way'[i - 1] : z = entry'[<<c, Target[i]>>])
  <2> DEFINE g == entry'
             v == WayIn(g, way)
  <2>0. g \in Map
    BY <1>2
  <2> HIDE DEF g
  <2>1. \A i \in 1..K : way[i] \subseteq v[i]
    BY <2>0, WayFacts
  <2>2. \A i \in 1..K : \A z \in v[i] :
          z \in way[i] \/ (z # Nil /\ \E c \in v[i - 1] : z = g[<<c, Target[i]>>])
    BY <2>0, WayFacts
  <2> HIDE DEF v
  <2>3. way' = v /\ entry' = g
    BY <1>2 DEF v, g
  <2> QED BY <2>1, <2>2, <2>3
<1>6. OneWay'
  <2> SUFFICES ASSUME NEW i \in 1..K, NEW z \in way'[i]
               PROVE  \E c \in way'[i - 1] : entry'[<<c, Target[i]>>] = z
    BY DEF OneWay
  <2>1. CASE z \in way[i]
    <3>1. PICK c \in way[i - 1] : entry[<<c, Target[i]>>] = z
      BY <2>1 DEF OneWay
    <3>2. <<c, Target[i]>> \in Obj \X Name /\ z # Nil
      BY <2>1, <3>1, WayMembers
    <3>3. entry'[<<c, Target[i]>>] = z
      BY <1>4, <3>1, <3>2
    <3>4. c \in way'[i - 1]
      <4>1. CASE i = 1
        BY <1>3, <3>1, <4>1
      <4>2. CASE i # 1
        <5>1. i - 1 \in 1..K
          BY <4>2, TargetFacts
        <5> QED BY <1>5, <3>1, <5>1
      <4> QED BY <4>1, <4>2
    <3> QED BY <3>3, <3>4
  <2>2. CASE z \notin way[i]
    BY <1>5, <2>2
  <2> QED BY <2>1, <2>2
<1>7. StillBelow'
  <2> SUFFICES ASSUME NEW z \in seen', z \notin lost PROVE \E r \in way'[K] : z \in Tree(entry', r)
    BY <1>2 DEF StillBelow
  <2>1. PICK b \in seen \cup way'[K] : z \in Tree(entry', b)
    BY <1>2, <1>3, SeenFacts
  <2>2. CASE b \in way'[K]
    BY <2>1, <2>2
  <2>3. CASE b \in lost
    <3>1. Closed(entry', lost) /\ lost \in SUBSET Obj
      BY <1>2 DEF FsInv, IInv, Typed
    <3> QED BY <1>2, <2>1, <2>3, <3>1, TreeFacts
  <2>4. CASE b \in seen \ lost
    <3>1. PICK r \in way[K] : b \in Tree(entry, r)
      BY <2>4 DEF StillBelow
    <3>2. K \in 1..K /\ K \in Steps
      BY TargetFacts
    <3>3. r \in Obj /\ r \in way'[K]
      BY <1>3, <1>5, <3>1, <3>2
    <3>4. b \in Tree(entry', r)
      BY <1>2, <1>3, <1>4, <3>1, <3>3, TreeLess
    <3>5. z \in Tree(entry', r)
      BY <1>2, <2>1, <3>3, <3>4, TreeInside
    <3> QED BY <3>3, <3>5
  <2> QED BY <2>1, <2>2, <2>3, <2>4
<1> QED BY <1>6, <1>7

\* While a step is taken, the deletion is running.
LEMMA StillRunning ==
  ASSUME IInv, [Next]_vars, ~UNCHANGED vars
  PROVE  result = "running"
<1>1. CASE stack # <<>>
  BY <1>1 DEF IInv, Typed
<1>2. CASE stack = <<>>
  <2>1. ~DeleteAt
    BY <1>2 DEF DeleteAt, StatTarget, Unlink, OpenTarget, ListTarget, DeleteEntry, Rmdir, SnapDestroy, At
  <2>2. ~DestroyNested
    BY <1>2 DEF DestroyNested, NestedList, NestedStat, NestedOpen, NestedDone, At
  <2>3. ~OpenParent /\ ~CallDeleteAt /\ ~CallFails
    BY <1>2 DEF OpenParent, CallDeleteAt, CallFails, At
  <2>4. ForeignCreate => result = "running"
    <3>1. \A g : Foreign(g) => result = "running"
      BY DEF Foreign
    <3> QED BY <3>1, CreateStep
  <2>5. ForeignMove => result = "running"
    <3>1. \A g : Foreign(g) => result = "running"
      BY DEF Foreign
    <3> QED BY <3>1, MoveStep
  <2> QED BY <2>1, <2>2, <2>3, <2>4, <2>5 DEF Next, DeleteRel
<1> QED BY <1>1, <1>2

LEMMA UnmovedNext == IInv /\ IInv' /\ FsInv /\ FsInv' /\ Unmoved /\ [Next]_vars => Unmoved'
<1> SUFFICES ASSUME IInv, IInv', FsInv, FsInv', Unmoved, [Next]_vars, ~moved', result' = "running"
             PROVE  OneWay' /\ StillBelow'
  BY DEF Unmoved
<1>1. CASE UNCHANGED vars
  BY <1>1 DEF Unmoved, OneWay, StillBelow, vars, fs
<1>2. CASE ~UNCHANGED vars
  <2>0. result = "running"
    BY <1>2, StillRunning
  <2>1. CASE Reads
    BY <2>0, <2>1 DEF Reads, fs, Unmoved, OneWay, StillBelow
  <2>2. CASE Removing
    <3>1. moved' = moved /\ Len(stack) # 1
      BY <2>2 DEF Removing, RemoveEntry, Return
    <3> QED BY <2>0, <2>2, <3>1, UnmovedRemove DEF Unmoved
  <2>3. CASE ForeignCreate
    <3>1. moved' = moved
      BY <2>3 DEF ForeignCreate
    <3> QED BY <2>0, <2>3, <3>1, UnmovedCreate DEF Unmoved
  <2>4. CASE ForeignMove
    BY <2>4 DEF ForeignMove
  <2> QED BY <1>2, <2>1, <2>2, <2>3, <2>4, StepKinds
<1> QED BY <1>1, <1>2

LEMMA UnmovedAlways == Spec => []Unmoved
BY IInvAlways, FsInvAlways, UnmovedInit, UnmovedNext, PTL DEF Spec

\* Only the removal of the target ends the deletion with success.
LEMMA OkStep ==
  ASSUME IInv, IInv', [Next]_vars, ~UNCHANGED vars, result' = "ok"
  PROVE  Removing /\ Len(stack) = 1
<1>1. result = "running"
  BY StillRunning
<1>2. Removing => Len(stack) = 1
  BY DEF Removing, Return
<1>3. ~ForeignCreate /\ ~ForeignMove
  <2>1. \A g : Foreign(g) => result' = result
    BY DEF Foreign
  <2>2. ~\E g : Foreign(g)
    BY <1>1, <2>1
  <2>3. ForeignCreate => \E g : Foreign(g)
    BY CreateStep
  <2>4. ForeignMove => \E g : Foreign(g)
    BY MoveStep
  <2> QED BY <2>2, <2>3, <2>4
<1>4. ~Fail /\ \A c, f : ~Become(f) /\ ~Call(c, f)
  BY <1>1 DEF Fail, Become, Call
<1>5. ~OpenParent /\ ~CallDeleteAt /\ ~CallFails /\ ~StatTarget /\ ~OpenTarget /\ ~ListTarget
      /\ ~DeleteEntry /\ ~NestedList /\ ~NestedStat /\ ~NestedOpen
  BY <1>4 DEF OpenParent, CallDeleteAt, CallFails, StatTarget, OpenTarget, ListTarget, DeleteEntry,
        NestedList, NestedStat, NestedOpen
<1>6. ~NestedDone
  <2> SUFFICES ASSUME NestedDone PROVE FALSE
    OBVIOUS
  <2>1. stack # <<>> /\ Now.fn = "destroy_nested" /\ Len(stack) = 1
    BY <1>1 DEF NestedDone, At, Return
  <2> QED BY <2>1, TopFrame DEF IInv, Now, Good
<1>7. Removing
  <2>1. Unlink \/ Rmdir \/ SnapDestroy
    BY <1>3, <1>5, <1>6 DEF Next, DeleteRel, DeleteAt, DestroyNested
  <2>2. stack # <<>> /\ Now.fn = "delete_at"
    BY <2>1 DEF Unlink, Rmdir, SnapDestroy, At
  <2>3. There # Nil /\ Return /\ RemoveEntry
    BY <1>4, <2>1 DEF Unlink, Rmdir, SnapDestroy, RemoveIf, IsDir
  <2> QED BY <2>1, <2>2, <2>3 DEF Removing
<1> QED BY <1>2, <1>7

\* The removal of the target leaves nothing of what is or was there.
LEMMA TargetGone ==
  ASSUME IInv, IInv', FsInv, FsInv', OneWay, StillBelow, Removing, Len(stack) = 1
  PROVE  (Gone /\ seen = lost /\ seen \cap Linked(entry) = {})'
<1> DEFINE x == <<Now.dir, Now.name>>
           T == Tree(entry, There)
<1>1. entry'[x] = Nil /\ lost' = lost \cup T
  BY RemoveStep DEF RemoveFacts
<1>2. way' = way /\ seen' = seen
  BY DEF Removing, RemoveEntry
<1>3. Now.dir \in way[K - 1] /\ Now.name = Target[K] /\ stack # <<>>
  <2>1. stack # <<>> /\ Now.fn = "delete_at"
    BY DEF Removing
  <2>2. Good(Now, Len(stack), way, seen)
    BY <2>1, TopFrame DEF IInv, Now
  <2> QED BY <2>1, <2>2 DEF Good
<1>4. K \in 1..K /\ K - 1 \in Steps /\ Last(Target) = Target[K] /\ Len(Target) = K
  BY TargetFacts DEF K, Last
<1>5. \A d \in way[K - 1] : d = Now.dir
  BY <1>3, <1>4, WaySingle
<1>6. Gone'
  BY <1>1, <1>2, <1>3, <1>4, <1>5 DEF Gone
<1>7. \A r \in way[K] : r = There
  <2> SUFFICES ASSUME NEW r \in way[K] PROVE r = There
    OBVIOUS
  <2>1. PICK d \in way[K - 1] : entry[<<d, Target[K]>>] = r
    BY <1>4 DEF OneWay
  <2> QED BY <1>3, <1>5, <2>1 DEF There
<1>8. seen \subseteq lost \cup T
  <2> SUFFICES ASSUME NEW z \in seen \ lost PROVE z \in T
    OBVIOUS
  <2>1. PICK r \in way[K] : z \in Tree(entry, r)
    BY DEF StillBelow
  <2> QED BY <1>7, <2>1
<1>9. lost' \subseteq seen' /\ Linked(entry') \cap lost' = {}
  BY DEF IInv, SeenInv, FsInv
<1>10. seen' = lost'
  BY <1>1, <1>2, <1>8, <1>9
<1> QED BY <1>6, <1>9, <1>10

LEMMA OkMeansGoneInit == Init => OkMeansGone
BY DEF Init, OkMeansGone

LEMMA OkMeansGoneNext ==
  IInv /\ IInv' /\ FsInv /\ FsInv' /\ Unmoved /\ OkMeansGone /\ [Next]_vars => OkMeansGone'
<1> SUFFICES ASSUME IInv, IInv', FsInv, FsInv', Unmoved, OkMeansGone, [Next]_vars,
                    result' = "ok", ~moved'
             PROVE  (Gone /\ seen = lost /\ seen \cap Linked(entry) = {})'
  BY DEF OkMeansGone
<1>1. CASE UNCHANGED vars
  BY <1>1 DEF OkMeansGone, Gone, vars, fs
<1>2. CASE ~UNCHANGED vars
  <2>1. Removing /\ Len(stack) = 1 /\ result = "running"
    BY <1>2, OkStep, StillRunning
  <2>2. ~moved
    BY <2>1 DEF Removing, RemoveEntry
  <2> QED BY <2>1, <2>2, TargetGone DEF Unmoved
<1> QED BY <1>1, <1>2

\* As long as nothing is moved, a deletion that reports success has removed the target and
\* all that was ever below it (delete_rel returns Ok).
THEOREM OkMeansGoneAlways == Spec => []OkMeansGone
BY IInvAlways, FsInvAlways, UnmovedAlways, OkMeansGoneInit, OkMeansGoneNext, PTL DEF Spec
=============================================================================
