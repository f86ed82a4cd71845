---------------------------- MODULE BrowseProofs -----------------------------
(***************************************************************************)
(* Proofs about Browse: its type invariant, that the cursor is on the      *)
(* entry a directory remembers as long as it exists, whatever order the    *)
(* list takes, and where leaving a directory puts it.                      *)
(***************************************************************************)
EXTENDS Browse, EntryTreeProofs

-----------------------------------------------------------------------------
(* The tree. *)

\* What is in a directory is below it and nowhere else.
LEMMA ChildFacts ==
  ASSUME TreeInv, NEW d \in LiveNodes, NEW n \in children(d)
  PROVE  /\ n \in LiveNodes /\ n \in known /\ n # ROOT
         /\ anc[n] = Chain(d) /\ d \in anc[n] /\ d # n /\ n \notin anc[d]
         /\ Up[path_of(n)] = Up[path_of(d)] \cup {path_of(d)}
<1>1. n \in known \ removed /\ d \in anc[n] /\ anc[n] = Chain(d) /\ d \in known
  BY DEF children, LiveNodes
<1>2. n \in LiveNodes
  BY <1>1 DEF LiveNodes, is_live, Chain
<1>3. n # ROOT
  BY <1>1, RootFacts
<1>4. /\ {path_of(m) : m \in anc[n]} = Up[path_of(n)]
      /\ {path_of(m) : m \in anc[d]} = Up[path_of(d)]
  BY <1>1 DEF TreeInv, Trie, Hangs
<1>5. path_of(d) \in Path /\ path_of(n) \in Path
  BY <1>1, NodeFacts DEF TreeInv, TreeTypeOK
<1>6. path_of(d) \in Up[path_of(n)] /\ path_of(n) \notin Up[path_of(n)]
  BY <1>1, <1>4, <1>5, PathFacts
<1>7. n \notin anc[d]
  <2>1. SUFFICES ASSUME n \in anc[d] PROVE FALSE
    OBVIOUS
  <2>2. n \in anc[n]
    BY <1>1, <2>1 DEF Chain
  <2> QED BY <2>2, <1>4, <1>6
<1>8. Up[path_of(n)] = Up[path_of(d)] \cup {path_of(d)}
  BY <1>1, <1>4 DEF Chain
<1> QED BY <1>1, <1>2, <1>3, <1>6, <1>7, <1>8

\* Two entries of a directory have different names.
LEMMA NamesDiffer ==
  ASSUME TreeInv, NEW d \in LiveNodes, NEW a \in children(d), NEW b \in children(d),
         Name[path_of(a)] = Name[path_of(b)]
  PROVE  a = b
<1>1. a \in LiveNodes /\ b \in LiveNodes /\ Up[path_of(a)] = Up[path_of(b)]
  BY ChildFacts
<1>2. path_of(a) \in Path /\ path_of(b) \in Path
  BY <1>1, NodeFacts DEF LiveNodes, TreeInv, TreeTypeOK
<1>3. path_of(a) = path_of(b)
  BY <1>1, <1>2, BrowseAssumption
<1> QED BY <1>1, <1>3 DEF TreeInv, Trie, OneLiveNode

\* A node other than the root is in the directory parent(n), and in no other.
LEMMA HomeFacts ==
  ASSUME TreeInv, NEW n \in LiveNodes
  PROVE  /\ n # ROOT => /\ parent(n) \in LiveNodes /\ parent(n) \in anc[n]
                        /\ n \in children(parent(n))
         /\ \A d \in LiveNodes : n \in children(d) => parent(n) = d
<1>1. ASSUME n # ROOT
      PROVE  /\ parent(n) \in anc[n] /\ anc[n] = Chain(parent(n))
             /\ parent(n) \in LiveNodes /\ n \in children(parent(n))
  <2>1. n \in known /\ path_of(n) # Top
    BY <1>1, RootFacts DEF LiveNodes
  <2>2. parent(n) \in anc[n] /\ anc[n] = Chain(parent(n))
    BY <2>1, ParentFacts
  <2>3. parent(n) \in LiveNodes
    BY <2>2, LiveAbove
  <2>4. n \notin removed
    BY DEF LiveNodes, is_live, Chain
  <2> QED BY <2>1, <2>2, <2>3, <2>4 DEF children
<1>2. ASSUME NEW d \in LiveNodes, n \in children(d) PROVE parent(n) = d
  <2>1. n # ROOT /\ anc[n] = Chain(d)
    BY <1>2, ChildFacts
  <2>2. anc[n] = Chain(parent(n)) /\ parent(n) \in LiveNodes
    BY <1>1, <2>1
  <2> SUFFICES ASSUME parent(n) # d PROVE FALSE
    OBVIOUS
  <2>3. parent(n) \in anc[d] /\ d \in anc[parent(n)]
    BY <2>1, <2>2 DEF Chain
  <2>4. /\ path_of(parent(n)) \in Up[path_of(d)]
        /\ path_of(d) \in Up[path_of(parent(n))]
    BY <2>2, <2>3, LiveAbove
  <2>5. path_of(d) \in Path
    BY NodeFacts DEF LiveNodes, TreeInv, TreeTypeOK
  <2>6. path_of(d) \in Up[path_of(d)]
    BY <2>4, <2>5, PathFacts
  <2> QED BY <2>5, <2>6, PathFacts
<1> QED BY <1>1, <1>2

-----------------------------------------------------------------------------
(* The order of a list. *)

LEMMA BeforeFacts ==
  ASSUME TypeOK, TreeInv, NEW d \in LiveNodes
  PROVE  /\ \A a \in children(d) : ~Before(a, a)
         /\ \A a, b \in children(d) : a = b \/ Before(a, b) \/ Before(b, a)
         /\ \A a, b, c \in children(d) : Before(a, b) /\ Before(b, c) => Before(a, c)
<1>1. \A a \in children(d) : a \in known /\ Value(a) \in Nat /\ Name[path_of(a)] \in Int
  <2> SUFFICES ASSUME NEW a \in children(d)
               PROVE  a \in known /\ Value(a) \in Nat /\ Name[path_of(a)] \in Int
    OBVIOUS
  <2>1. a \in known /\ path_of(a) \in Path
    BY NodeFacts DEF children, TreeInv, TreeTypeOK
  <2>2. (IF sort = "Count" THEN "represented" ELSE mode) \in Mode
    BY DEF TypeOK, Mode
  <2>3. count[a] \in [Mode -> Nat]
    BY <2>1 DEF TypeOK
  <2> QED BY <2>1, <2>2, <2>3, BrowseAssumption DEF Value
<1>2. \A a, b \in children(d) : Name[path_of(a)] = Name[path_of(b)] => a = b
  BY NamesDiffer
<1> QED BY <1>1, <1>2 DEF Before

LEMMA SortedHasAll ==
  ASSUME TypeOK, TreeInv, NEW d \in LiveNodes
  PROVE  LET v == Sorted(children(d)) IN
         /\ Cardinality(children(d)) \in Nat
         /\ v \in [1..Cardinality(children(d)) -> children(d)]
         /\ \A e \in children(d) : \E i \in DOMAIN v : v[i] = e
<1> DEFINE S == children(d)
           n == Cardinality(S)
           before(o) == {q \in S : Before(q, o)}
           f == [o \in S |-> Place(S, o)]
           s == Sorted(S)
<1>o. /\ \A a \in S : ~Before(a, a)
      /\ \A a, b \in S : a = b \/ Before(a, b) \/ Before(b, a)
      /\ \A a, b, c \in S : Before(a, b) /\ Before(b, c) => Before(a, c)
  BY BeforeFacts
<1>s. IsFiniteSet(S) /\ n \in Nat
  BY FiniteNodes DEF children, TreeInv, TreeTypeOK
<1> HIDE DEF S
<1>1. IsFiniteSet(0..(n - 1)) /\ Cardinality(0..(n - 1)) = n
  <2>2. /\ IsFiniteSet(0..(n - 1))
        /\ Cardinality(0..(n - 1)) = IF 0 > n - 1 THEN 0 ELSE (n - 1) - 0 + 1
    BY <1>s, FS_Interval
  <2> QED BY <1>s, <2>2
<1>2. ASSUME NEW o \in S
      PROVE  IsFiniteSet(before(o)) /\ Cardinality(before(o)) \in 0..(n - 1)
  <2>1. before(o) \subseteq S \ {o}
    BY <1>o
  <2>2. IsFiniteSet(S \ {o}) /\ Cardinality(S \ {o}) = n - 1
    BY <1>s, FS_RemoveElement
  <2>3. IsFiniteSet(before(o)) /\ Cardinality(before(o)) <= n - 1
    BY <2>1, <2>2, FS_Subset
  <2>4. Cardinality(before(o)) \in Nat
    BY <2>3, FS_CardinalityType
  <2> QED BY <2>3, <2>4, <1>s
<1>3. ASSUME NEW a \in S, NEW b \in S, Before(a, b)
      PROVE  Cardinality(before(a)) < Cardinality(before(b))
  <2>1. a \notin before(a)
    BY <1>o
  <2>2. before(a) \cup {a} \subseteq before(b)
    BY <1>3, <1>o
  <2>3. IsFiniteSet(before(a)) /\ Cardinality(before(a)) \in Nat
    BY <1>2
  <2>4. IsFiniteSet(before(b)) /\ Cardinality(before(b)) \in Nat
    BY <1>2
  <2> HIDE DEF before
  <2>5. Cardinality(before(a) \cup {a}) = Cardinality(before(a)) + 1
    BY <2>1, <2>3, FS_AddElement
  <2>6. Cardinality(before(a) \cup {a}) <= Cardinality(before(b))
    BY <2>2, <2>4, FS_Subset
  <2> QED BY <2>3, <2>4, <2>5, <2>6
<1>4. \A o \in S : f[o] \in 0..(n - 1)
  BY <1>2 DEF Place
<1>5. \A a, b \in S : Before(a, b) => f[a] < f[b]
  BY <1>3 DEF Place
<1>6. /\ s = [i \in 1..n |-> CHOOSE o \in S : Place(S, o) = i - 1]
      /\ \A o \in S : f[o] = Place(S, o)
  BY DEF Sorted
<1>7. f \in [S -> 0..(n - 1)]
  BY <1>4
<1> HIDE DEF n, f, s, before
<1>8. \A a, b \in S : f[a] = f[b] => a = b
  BY <1>o, <1>4, <1>5
<1>9. f \in Injection(S, 0..(n - 1))
  BY <1>7, <1>8 DEF Injection, IsInjective
<1>10. f \in Surjection(S, 0..(n - 1))
  BY <1>s, <1>1, <1>9, FS_Injection DEF n
<1>11. \A i \in 1..n : \E o \in S : f[o] = i - 1
  <2> SUFFICES ASSUME NEW i \in 1..n PROVE \E o \in S : f[o] = i - 1
    OBVIOUS
  <2>1. i - 1 \in 0..(n - 1)
    BY <1>s
  <2> QED BY <2>1, <1>10 DEF Surjection
<1>12. \A i \in 1..n : s[i] \in S /\ f[s[i]] = i - 1
  BY <1>6, <1>11
<1>13. s \in [1..n -> S]
  BY <1>6, <1>12
<1>14. \A o \in S : \E i \in 1..n : s[i] = o
  <2> SUFFICES ASSUME NEW o \in S PROVE \E i \in 1..n : s[i] = o
    OBVIOUS
  <2>1. f[o] + 1 \in 1..n /\ (f[o] + 1) - 1 = f[o]
    BY <1>s, <1>4
  <2> QED BY <2>1, <1>8, <1>12
<1> QED BY <1>s, <1>13, <1>14 DEF n, s, S

\* The list of a directory holds all that is in it and nothing else.
LEMMA ListFacts ==
  ASSUME TypeOK, TreeInv, NEW d \in LiveNodes
  PROVE  LET v == EntriesOf(d) IN
         /\ Len(v) \in Nat /\ Len(v) = Cardinality(children(d))
         /\ DOMAIN v = 1..Len(v)
         /\ \A i \in 1..Len(v) : v[i] \in children(d)
         /\ \A e \in children(d) : \E i \in 1..Len(v) : v[i] = e
         /\ v = <<>> => children(d) = {}
<1> DEFINE S == children(d)
           n == Cardinality(S)
           s == Sorted(S)
           v == EntriesOf(d)
<1>1. n \in Nat /\ s \in [1..n -> S] /\ \A e \in S : \E i \in 1..n : s[i] = e
  BY SortedHasAll
<1>2. Len(s) = n /\ s \in Seq(S)
  BY <1>1
<1>3. v = IF reverse THEN [i \in 1..n |-> s[(n - i) + 1]] ELSE s
  BY <1>2 DEF EntriesOf, Seqs!Reverse
<1> HIDE DEF S, n, s, v
<1>4. \A e \in S : \E i \in 1..n : v[i] = e
  <2> SUFFICES ASSUME NEW e \in S PROVE \E i \in 1..n : v[i] = e
    OBVIOUS
  <2>1. PICK i \in 1..n : s[i] = e
    BY <1>1
  <2>2. (n - i) + 1 \in 1..n /\ (n - ((n - i) + 1)) + 1 = i
    BY <1>1
  <2> QED BY <2>1, <2>2, <1>3
<1>5. v \in [1..n -> S]
  <2>1. \A i \in 1..n : (n - i) + 1 \in 1..n
    BY <1>1
  <2> QED BY <2>1, <1>1, <1>3
<1>6. Len(v) = n /\ DOMAIN v = 1..n
  BY <1>1, <1>5
<1>7. v = <<>> => S = {}
  BY <1>4, <1>6, <1>1
<1> QED BY <1>1, <1>4, <1>5, <1>6, <1>7 DEF S, n, v

-----------------------------------------------------------------------------
(* The cursor. *)

\* The entry remembered for a directory was in it.
Placed ==
  \A d \in DOMAIN selected :
    /\ selected[d] \in known \X (Nat \ {0})
    /\ d \in anc[selected[d][1]] /\ anc[selected[d][1]] = Chain(d)

LEMMA ParentIs ==
  ASSUME TreeInv, NEW n \in known, NEW d \in anc[n], anc[n] = Chain(d)
  PROVE  parent(n) = d
<1> DEFINE m == parent(n)
<1>1. m \in anc[n] /\ anc[n] = Chain(m)
  BY DEF parent
<1>2. m \in known /\ d \in known
  BY <1>1 DEF TreeInv, TreeTypeOK
<1> HIDE DEF m
<1> SUFFICES ASSUME m # d PROVE FALSE
  BY DEF m
<1>3. m \in anc[d] /\ d \in anc[m]
  BY <1>1 DEF Chain
<1>4. path_of(m) \in Up[path_of(d)] /\ path_of(d) \in Up[path_of(m)]
  BY <1>2, <1>3 DEF TreeInv, Trie, Hangs
<1>5. path_of(d) \in Path
  BY <1>2, NodeFacts DEF TreeInv, TreeTypeOK
<1> QED BY <1>4, <1>5, PathFacts

LEMMA NotNoEntry == \A n \in Node : n # NoEntry
<1> SUFFICES ASSUME NEW n \in Node PROVE n # NoEntry
  OBVIOUS
<1>1. n \in Path \X (0..MaxInc)
  BY DEF Node
<1>2. PICK p \in Path, k \in 0..MaxInc : n = <<p, k>>
  BY <1>1
<1>3. Len(<<p, k>>) = 2 /\ Len(<<>>) = 0
  OBVIOUS
<1> QED BY <1>2, <1>3 DEF NoEntry

LEMMA CursorFacts ==
  ASSUME TypeOK, TreeInv
  PROVE  /\ cursor(entries) \in Nat \ {0}
         /\ children(dir) # {} => Sel \in children(dir)
         /\ Sel # NoEntry => Sel \in children(dir) /\ Sel = entries[cursor(entries)]
                             /\ cursor(entries) \in 1..Len(entries)
<1> DEFINE v == entries
           c == cursor(v)
<1>0. dir \in LiveNodes /\ v = EntriesOf(dir)
  BY DEF TypeOK, entries
<1>1. /\ Len(v) \in Nat /\ DOMAIN v = 1..Len(v)
      /\ \A i \in 1..Len(v) : v[i] \in children(dir)
      /\ \A e \in children(dir) : \E i \in 1..Len(v) : v[i] = e
  BY <1>0, ListFacts
<1>2. dir \in DOMAIN selected => selected[dir][2] \in Nat \ {0}
  BY DEF TypeOK
<1>3. Sel = IF c \in DOMAIN v THEN v[c] ELSE NoEntry
  BY DEF Sel
<1> HIDE DEF v
<1>4. Seqs!Contains(v, selected[dir][1]) => position(v, selected[dir][1]) \in 1..Len(v)
  BY <1>1 DEF Seqs!Contains, position
<1>5. c \in Nat \ {0} /\ (Len(v) # 0 => c \in 1..Len(v))
  <2>1. CASE dir \notin DOMAIN selected
    BY <2>1, <1>1 DEF cursor
  <2>2. CASE dir \in DOMAIN selected /\ Seqs!Contains(v, selected[dir][1])
    <3>1. c = position(v, selected[dir][1])
      BY <2>2 DEF cursor
    <3> QED BY <3>1, <2>2, <1>1, <1>4
  <2>3. CASE dir \in DOMAIN selected /\ ~Seqs!Contains(v, selected[dir][1])
    <3>1. c = AtMost(selected[dir][2], AtLeast(Len(v), 1))
      BY <2>3 DEF cursor
    <3> QED BY <3>1, <2>3, <1>1, <1>2 DEF AtMost, AtLeast
  <2> QED BY <2>1, <2>2, <2>3
<1> HIDE DEF c
<1>6. children(dir) # {} => Len(v) # 0
  BY <1>1
<1>7. children(dir) # {} => Sel \in children(dir)
  BY <1>1, <1>3, <1>5, <1>6
<1>8. Sel # NoEntry => Sel \in children(dir) /\ Sel = v[c] /\ c \in 1..Len(v)
  BY <1>1, <1>3
<1> QED BY <1>5, <1>7, <1>8 DEF v, c

\* The cursor is on the entry remembered for the directory, wherever it is in the list.
LEMMA OnSelected ==
  ASSUME TypeOK, TreeInv, Placed, dir \in DOMAIN selected, is_live(selected[dir][1])
  PROVE  Sel = selected[dir][1]
<1> DEFINE v == entries
           e == selected[dir][1]
<1>0. dir \in LiveNodes /\ v = EntriesOf(dir)
  BY DEF TypeOK, entries
<1>1. e \in children(dir)
  BY DEF Placed, children, is_live, Chain
<1>2. DOMAIN v = 1..Len(v) /\ \E i \in 1..Len(v) : v[i] = e
  BY <1>0, <1>1, ListFacts
<1>3. Seqs!Contains(v, e) /\ cursor(v) = position(v, e)
  BY <1>2 DEF Seqs!Contains, cursor
<1>4. position(v, e) \in DOMAIN v /\ v[position(v, e)] = e
  BY <1>2 DEF position
<1> QED BY <1>3, <1>4 DEF Sel

\* What select remembers: the entry of that row, or of the last one.
LEMMA SelectingFacts ==
  ASSUME TypeOK, TreeInv, Placed, NEW d \in LiveNodes, NEW i \in Nat \ {0}
  PROVE  LET v == EntriesOf(d)
             s == Selecting(d, v, i)
         IN /\ \A x \in DOMAIN s : /\ s[x] \in known \X (Nat \ {0})
                                   /\ x \in anc[s[x][1]] /\ anc[s[x][1]] = Chain(x)
            /\ i \in 1..Len(v) => d \in DOMAIN s /\ s[d][1] = v[i]
<1> DEFINE v == EntriesOf(d)
           s == Selecting(d, v, i)
           k == AtMost(i, Len(v))
<1>1. /\ Len(v) \in Nat /\ DOMAIN v = 1..Len(v)
      /\ \A j \in 1..Len(v) : v[j] \in children(d)
  BY ListFacts
<1>2. CASE v = <<>>
  BY <1>2 DEF Placed, Selecting
<1>3. CASE v # <<>>
  <2>1. Len(v) # 0
    <3>1. v = <<>> <=> Len(v) = 0
      BY <1>1, ListFacts, SortedHasAll DEF EntriesOf, Seqs!Reverse
    <3> QED BY <3>1, <1>3
  <2>2. k \in 1..Len(v) /\ (i \in 1..Len(v) => k = i)
    <3>1. \A l \in Nat \ {0} : AtMost(i, l) \in 1..l /\ (i \in 1..l => AtMost(i, l) = i)
      BY DEF AtMost
    <3>2. Len(v) \in Nat \ {0}
      BY <2>1, <1>1
    <3> QED BY <3>1, <3>2
  <2>3. v[k] \in known /\ d \in anc[v[k]] /\ anc[v[k]] = Chain(d)
    BY <2>2, <1>1 DEF children
  <2>4. s = [x \in DOMAIN selected \cup {d} |-> IF x = d THEN <<v[k], k>> ELSE selected[x]]
    BY <1>3 DEF Selecting, Remembering
  <2> HIDE DEF v, s, k
  <2>5. ASSUME NEW x \in DOMAIN s
        PROVE  /\ s[x] \in known \X (Nat \ {0})
               /\ x \in anc[s[x][1]] /\ anc[s[x][1]] = Chain(x)
    <3>1. CASE x = d
      <4>1. s[x] = <<v[k], k>>
        BY <3>1, <2>4, <2>5
      <4> QED BY <4>1, <3>1, <2>2, <2>3, <1>1
    <3>2. CASE x # d
      BY <3>2, <2>4, <2>5 DEF Placed
    <3> QED BY <3>1, <3>2
  <2>6. i \in 1..Len(v) => d \in DOMAIN s /\ s[d][1] = v[i]
    BY <2>2, <2>4
  <2> QED BY <2>5, <2>6 DEF v, s
<1> QED BY <1>2, <1>3

-----------------------------------------------------------------------------
(* What a step does. *)

LEMMA TreeCases ==
  ASSUME [Next]_vars
  PROVE  \/ UNCHANGED data
         \/ Sample /\ \E O \in SUBSET Path : \E p \in O : Sampled(O, p)
         \/ apply_bg
<1>1. CASE draw \/ NoKey
  BY <1>1 DEF draw, NoKey, LoopBack
<1>2. CASE key_browse
  BY <1>2 DEF key_browse, Move, Enter, Leave, set_sort, ToggleReverse, NextMode, LoopBack
<1>3. CASE Sample
  BY <1>3, BatchAssumption DEF Sample
<1>4. CASE UNCHANGED vars
  BY <1>4 DEF vars
<1> QED BY <1>1, <1>2, <1>3, <1>4 DEF Next

\* The trie survives, and nodes stay where they are.  Only a Deleted event takes entries away.
LEMMA TreeStays ==
  ASSUME TreeInv, [Next]_vars
  PROVE  /\ TreeInv' /\ known \subseteq known'
         /\ \A n \in known : anc'[n] = anc[n]
         /\ apply_bg \/ \A n \in known : is_live(n)' <=> is_live(n)
<1>1. CASE UNCHANGED data
  BY <1>1 DEF data, tree, TreeInv, TreeTypeOK, Trie, Numbered, OneLiveNode, LiveNodes, Hangs,
              RootLive, is_live, Chain, path_of
<1>2. CASE \E O \in SUBSET Path : \E p \in O : Sampled(O, p)
  BY <1>2, AddSampleFacts DEF Sampled
<1>3. CASE apply_bg
  <2>1. \E n \in known : Remove(n)
    BY <1>3 DEF apply_bg
  <2> QED BY <1>3, <2>1, RemoveFacts
<1> QED BY <1>1, <1>2, <1>3, TreeCases

\* The counters of all nodes of the arena, and of no others.
LEMMA CountStep ==
  ASSUME TypeOK, TreeInv, [Next]_vars
  PROVE  count' \in [known' -> [Mode -> Nat]]
<1>0. count \in [known -> [Mode -> Nat]]
  BY DEF TypeOK
<1>1. CASE UNCHANGED data
  BY <1>0, <1>1 DEF data, tree
<1>2. CASE \E O \in SUBSET Path : \E p \in O : Sampled(O, p)
  <2>0. PICK O \in SUBSET Path : \E first \in O : Sampled(O, first)
    BY <1>2
  <2>1. PICK first \in O : Sampled(O, first)
    BY <2>0
  <2>2. PICK C : count' = [k \in known' |-> [m \in Mode |->
                   (IF k \in known THEN count[k][m] ELSE 0) + (IF k \in C[m] THEN 1 ELSE 0)]]
    <3> DEFINE leaf(p) == CHOOSE n \in known' :
                             path_of(n) = p /\ (anc'[n] \cup {n}) \cap removed = {}
               on(p) == anc'[leaf(p)] \cup {leaf(p)}
               credited(m) == IF m = "represented" THEN on(first)
                              ELSE {k \in known' : \A p \in O : k \in on(p)}
    <3>1. count' = [k \in known' |-> [m \in Mode |->
            (IF k \in known THEN count[k][m] ELSE 0) + (IF k \in credited(m) THEN 1 ELSE 0)]]
      BY <2>1 DEF Sampled
    <3> HIDE DEF credited
    <3> WITNESS [m \in Mode |-> credited(m)]
    <3> QED BY <3>1
  <2>3. ASSUME NEW k \in known', NEW m \in Mode
        PROVE  (IF k \in known THEN count[k][m] ELSE 0) + (IF k \in C[m] THEN 1 ELSE 0) \in Nat
    <3>1. (IF k \in known THEN count[k][m] ELSE 0) \in Nat
      BY <1>0
    <3> QED BY <3>1
  <2> QED BY <2>2, <2>3
<1>3. CASE apply_bg
  <2>1. PICK n \in known :
          /\ Remove(n)
          /\ count' = IF removed' = removed THEN count
                      ELSE [k \in known |->
                              IF k \notin anc[n] THEN count[k]
                              ELSE [m \in Mode |-> AtLeast(count[k][m] - count[n][m], 0)]]
    BY <1>3 DEF apply_bg
  <2>2. known' = known
    BY <2>1 DEF Remove
  <2>3. ASSUME NEW k \in known, NEW m \in Mode
        PROVE  AtLeast(count[k][m] - count[n][m], 0) \in Nat
    <3>1. count[k][m] \in Nat /\ count[n][m] \in Nat
      BY <1>0
    <3> QED BY <3>1 DEF AtLeast
  <2> QED BY <1>0, <2>1, <2>2, <2>3
<1> QED BY <1>1, <1>2, <1>3, TreeCases

\* The loop of apply_bg that moves up finds a live directory.
LEMMA NearestLiveFacts ==
  ASSUME TreeInv, dir \in LiveNodes, NEW n \in known, Remove(n)
  PROVE  NearestLive \in LiveNodes'
<1>1. /\ known' = known /\ anc' = anc /\ removed' \subseteq removed \cup {n}
      /\ removed \subseteq removed'
  BY RemoveFacts
<1> DEFINE Best(m) == /\ Chain(m) \cap removed' = {}
                      /\ \A k \in Chain(dir) : Chain(k) \cap removed' = {} => k \in Chain(m)
<1>2. \E m \in Chain(dir) : Best(m)
  <2>1. CASE Chain(dir) \cap removed' = {}
    BY <2>1 DEF Chain
  <2>2. CASE Chain(dir) \cap removed' # {}
    <3>1. n \in Chain(dir) /\ n \in removed' /\ n \notin removed /\ is_live(n)
      BY <2>2, <1>1 DEF LiveNodes, is_live, Remove
    <3>2. n # ROOT /\ n \in LiveNodes
      BY <3>1 DEF Remove, LiveNodes
    <3> DEFINE m == parent(n)
    <3>3. m \in LiveNodes /\ m \in anc[n] /\ n \in children(m)
      BY <3>2, HomeFacts
    <3>4. anc[n] = Chain(m) /\ n \notin anc[n]
      BY <3>3, ChildFacts DEF Chain
    <3>5. Chain(m) \cap removed' = {}
      BY <3>2, <3>4, <1>1 DEF LiveNodes, is_live, Chain
    <3>6. m \in Chain(dir)
      BY <3>1, <3>3 DEF Chain, LiveNodes, TreeInv, Trie, Hangs
    <3>7. ASSUME NEW k \in Chain(dir), Chain(k) \cap removed' = {} PROVE k \in Chain(m)
      <4>1. n \notin Chain(k)
        BY <3>1, <3>7
      <4>2. k \in Chain(n) /\ k # n
        BY <4>1, <3>1, ChainsAreLinear DEF LiveNodes, Chain
      <4> QED BY <4>2, <3>4 DEF Chain
    <3> QED BY <3>5, <3>6, <3>7
  <2> QED BY <2>1, <2>2
<1>3. NearestLive \in Chain(dir) /\ Best(NearestLive)
  BY <1>2 DEF NearestLive
<1>4. Chain(dir) \subseteq known
  BY DEF Chain, LiveNodes, TreeInv, TreeTypeOK
<1> QED BY <1>1, <1>3, <1>4 DEF LiveNodes, is_live, Chain

\* A key goes up, down or nowhere.
LEMMA DirCases ==
  ASSUME [Next]_vars
  PROVE  \/ dir' = dir /\ ~apply_bg
         \/ apply_bg
         \/ Enter \/ Leave
<1>1. CASE draw \/ NoKey
  BY <1>1 DEF draw, NoKey, LoopBack, app, apply_bg
<1>2. CASE Move \/ set_sort \/ ToggleReverse \/ NextMode
  BY <1>2 DEF Move, set_sort, ToggleReverse, NextMode, LoopBack, apply_bg
<1>3. CASE Sample
  <2>1. dir' = dir /\ taken'.deletes = taken.deletes
    BY <1>3 DEF Sample, app
  <2> QED BY <2>1
<1>4. CASE UNCHANGED vars
  BY <1>4 DEF vars, app
<1> QED BY <1>1, <1>2, <1>3, <1>4 DEF Next, key_browse

LEMMA DirStep ==
  ASSUME TypeOK, TreeInv, [Next]_vars
  PROVE  dir' \in LiveNodes'
<1>1. /\ known \subseteq known'
      /\ ~apply_bg => \A n \in LiveNodes : n \in LiveNodes'
  BY TreeStays DEF LiveNodes
<1>2. CASE dir' = dir /\ ~apply_bg
  BY <1>1, <1>2 DEF TypeOK
<1>3. CASE apply_bg
  BY <1>3, NearestLiveFacts DEF apply_bg, TypeOK
<1>4. CASE Enter
  <2>1. ~apply_bg
    BY <1>4 DEF Enter, LoopBack, apply_bg
  <2>2. Sel \in LiveNodes
    BY <1>4, CursorFacts, ChildFacts DEF Enter, TypeOK
  <2> QED BY <1>1, <1>4, <2>1, <2>2 DEF Enter
<1>5. CASE Leave
  <2>1. ~apply_bg
    BY <1>5 DEF Leave, LoopBack, apply_bg
  <2>2. parent(dir) \in LiveNodes
    BY <1>5, HomeFacts DEF Leave, TypeOK
  <2> QED BY <1>1, <1>5, <2>1, <2>2 DEF Leave
<1> QED BY <1>2, <1>3, <1>4, <1>5, DirCases

\* The row of d in the list v, if it is there.
LEMMA ReturnFacts ==
  ASSUME TypeOK, TreeInv, dir # ROOT
  PROVE  LET v == EntriesOf(parent(dir)) IN
         /\ parent(dir) \in LiveNodes
         /\ position(v, dir) \in 1..Len(v) /\ v[position(v, dir)] = dir
         /\ position(v, dir) \in Nat \ {0}
         /\ ReturnTo(v, dir) = Selecting(parent(dir), v, position(v, dir))
<1> DEFINE v == EntriesOf(parent(dir))
<1>1. dir \in LiveNodes
  BY DEF TypeOK
<1>2. parent(dir) \in LiveNodes /\ dir \in children(parent(dir))
  BY <1>1, HomeFacts
<1>3. /\ Len(v) \in Nat /\ DOMAIN v = 1..Len(v)
      /\ \E i \in 1..Len(v) : v[i] = dir
  BY <1>2, ListFacts
<1> HIDE DEF v
<1>4. position(v, dir) \in 1..Len(v) /\ v[position(v, dir)] = dir
  BY <1>3 DEF position
<1>5. ReturnTo(v, dir) = Selecting(parent(dir), v, position(v, dir))
  BY <1>3 DEF ReturnTo, Seqs!Contains
<1> QED BY <1>2, <1>3, <1>4, <1>5 DEF v

\* Whatever select remembers was in the directory it is remembered for.
LEMMA SelectedStep ==
  ASSUME TypeOK, TreeInv, Placed, [Next]_vars
  PROVE  \A d \in DOMAIN selected' :
           /\ selected'[d] \in known \X (Nat \ {0})
           /\ d \in anc[selected'[d][1]] /\ anc[selected'[d][1]] = Chain(d)
<1>1. CASE selected' = selected
  BY <1>1 DEF Placed
<1>2. CASE Move
  <2> DEFINE v == entries
             cur == cursor(v)
             page == AtLeast(Page, 1)
  <2>1. PICK to \in {AtLeast(cur - 1, 1), cur + 1, AtLeast(cur - page, 1), cur + page, 1,
                     AtLeast(Len(v), 1)} : selected' = Selecting(dir, v, to)
    BY <1>2 DEF Move
  <2>2. cur \in Nat \ {0} /\ dir \in LiveNodes /\ v = EntriesOf(dir)
    BY CursorFacts DEF TypeOK, entries
  <2>3. Len(v) \in Nat
    BY <2>2, ListFacts
  <2>4. page \in Nat \ {0}
    BY BrowseAssumption DEF AtLeast
  <2> HIDE DEF v, cur, page
  <2>5. to \in Nat \ {0}
    BY <2>1, <2>2, <2>3, <2>4 DEF AtLeast
  <2> QED BY <2>1, <2>2, <2>5, SelectingFacts
<1>3. CASE Enter
  <2>1. selected' = Selecting(dir, EntriesOf(dir), cursor(entries)) /\ dir \in LiveNodes
    BY <1>3 DEF Enter, entries, TypeOK
  <2>2. cursor(entries) \in Nat \ {0}
    BY CursorFacts
  <2> QED BY <2>1, <2>2, SelectingFacts
<1>4. CASE Leave
  <2>1. dir # ROOT /\ selected' = ReturnTo(EntriesOf(parent(dir)), dir)
    BY <1>4 DEF Leave
  <2> QED BY <2>1, ReturnFacts, SelectingFacts
<1>5. CASE apply_bg \/ draw \/ NoKey \/ set_sort \/ ToggleReverse \/ NextMode \/ Sample
           \/ UNCHANGED vars
  BY <1>1, <1>5 DEF apply_bg, draw, NoKey, set_sort, ToggleReverse, NextMode, Sample, LoopBack,
                    app, vars
<1> QED BY <1>2, <1>3, <1>4, <1>5 DEF Next, key_browse

LEMMA OrderStep ==
  ASSUME TypeOK, [Next]_vars
  PROVE  mode' \in Mode /\ sort' \in SortBy /\ reverse' \in BOOLEAN /\ ui' \in {"drain", "key"}
<1>0. mode \in Mode /\ sort \in SortBy /\ reverse \in BOOLEAN /\ ui \in {"drain", "key"}
  BY DEF TypeOK
<1>1. CASE NextMode
  <2>1. \E m \in Mode : m # mode
    BY DEF Mode
  <2> QED BY <1>0, <1>1, <2>1 DEF NextMode, LoopBack
<1>2. CASE set_sort
  <2>1. reverse' \in BOOLEAN
    BY <1>2 DEF set_sort
  <2> QED BY <1>0, <1>2, <2>1 DEF set_sort, LoopBack
<1>3. CASE ToggleReverse
  BY <1>0, <1>3 DEF ToggleReverse, LoopBack
<1>4. CASE apply_bg \/ draw \/ NoKey \/ Move \/ Enter \/ Leave \/ Sample \/ UNCHANGED vars
  BY <1>0, <1>4 DEF apply_bg, draw, NoKey, Move, Enter, Leave, Sample, LoopBack, app, vars
<1> QED BY <1>1, <1>2, <1>3, <1>4 DEF Next, key_browse

-----------------------------------------------------------------------------
(* The inductive invariant. *)

\* From the draw to the key, the entry on the screen is the one remembered.
DrawnIsSelected ==
  ui = "key" /\ dir \in DOMAIN selected /\ is_live(selected[dir][1]) => drawn = selected[dir][1]

IInv == TypeOK /\ TreeInv /\ Placed /\ DrawnIsSelected

LEMMA IInvInit == Init => IInv
<1> SUFFICES ASSUME Init PROVE IInv
  OBVIOUS
<1>1. TreeInv
  BY TreeInvInit DEF Init
<1>2. dir \in LiveNodes
  BY <1>1, RootFacts DEF Init
<1>3. selected = <<>> /\ DOMAIN selected = {}
  BY DEF Init
<1>4. count \in [known -> [Mode -> Nat]]
  BY DEF Init, TreeInit
<1>5. mode \in Mode /\ sort \in SortBy /\ reverse \in BOOLEAN /\ ui = "drain"
  BY DEF Init, Mode, SortBy
<1> QED BY <1>1, <1>2, <1>3, <1>4, <1>5 DEF IInv, TypeOK, TreeInv, Placed, DrawnIsSelected

Homes == \A d \in DOMAIN selected : parent(selected[d][1]) = d

LEMMA PlacedHomes == TreeInv /\ Placed => Homes
<1> SUFFICES ASSUME TreeInv, Placed, NEW d \in DOMAIN selected PROVE parent(selected[d][1]) = d
  BY DEF Homes
<1>1. /\ selected[d][1] \in known /\ d \in anc[selected[d][1]]
      /\ anc[selected[d][1]] = Chain(d)
  BY DEF Placed
<1> QED BY <1>1, ParentIs

LEMMA PlacedHomesNext == TreeInv' /\ Placed' => Homes'
BY PlacedHomes, PTL

LEMMA TypeOKStep ==
  ASSUME IInv, [Next]_vars
  PROVE  TypeOK' /\ TreeInv' /\ Placed'
<1>0. TypeOK /\ TreeInv /\ Placed
  BY DEF IInv
<1>1. /\ TreeInv' /\ known \subseteq known'
      /\ \A n \in known : anc'[n] = anc[n]
  BY <1>0, TreeStays
<1>2. count' \in [known' -> [Mode -> Nat]] /\ dir' \in LiveNodes'
  BY <1>0, CountStep, DirStep
<1>3. mode' \in Mode /\ sort' \in SortBy /\ reverse' \in BOOLEAN /\ ui' \in {"drain", "key"}
  BY <1>0, OrderStep
<1>4. ASSUME NEW d \in DOMAIN selected'
      PROVE  /\ selected'[d] \in known' \X (Nat \ {0})
             /\ d \in anc'[selected'[d][1]] /\ anc'[selected'[d][1]] = Chain(d)'
  <2> DEFINE e == selected'[d][1]
  <2>1. selected'[d] \in known \X (Nat \ {0}) /\ d \in anc[e] /\ anc[e] = Chain(d)
    BY <1>0, SelectedStep
  <2>2. e \in known /\ d \in known
    BY <2>1, <1>0 DEF TreeInv, TreeTypeOK
  <2>3. Chain(d)' = Chain(d)
    BY <2>2, <1>1 DEF Chain
  <2> QED BY <2>1, <2>2, <2>3, <1>1
<1>5. Placed'
  BY <1>4 DEF Placed
<1>6. Homes'
  BY <1>1, <1>5, PlacedHomesNext
<1>7. TreeTypeOK'
  BY <1>1 DEF TreeInv
<1>8. TypeOK'
  BY <1>2, <1>3, <1>4, <1>6, <1>7 DEF TypeOK, Homes
<1> QED BY <1>1, <1>5, <1>8

LEMMA DrawnStep ==
  ASSUME IInv, [Next]_vars
  PROVE  DrawnIsSelected'
<1>0. TypeOK /\ TreeInv /\ Placed /\ DrawnIsSelected
  BY DEF IInv
<1> SUFFICES ASSUME ui' = "key", dir' \in DOMAIN selected', is_live(selected[dir][1])'
             PROVE  drawn' = selected'[dir'][1]
  BY DEF DrawnIsSelected
<1>1. CASE draw
  <2>1. UNCHANGED <<tree, dir, selected>> /\ drawn' = Sel
    BY <1>1 DEF draw, data, app
  <2>2. dir \in DOMAIN selected /\ is_live(selected[dir][1])
    BY <2>1 DEF tree, is_live, Chain
  <2> QED BY <1>0, <2>1, <2>2, OnSelected
<1>2. CASE Sample
  <2>1. UNCHANGED <<dir, selected, ui, drawn>>
    BY <1>2 DEF Sample, app
  <2>2. selected[dir][1] \in known /\ ~apply_bg
    BY <1>0, <1>2, <2>1 DEF Placed, Sample, apply_bg
  <2>3. is_live(selected[dir][1])
    BY <1>0, <2>1, <2>2, TreeStays
  <2> QED BY <1>0, <2>1, <2>3 DEF DrawnIsSelected
<1>3. CASE apply_bg
  BY <1>3 DEF apply_bg
<1>4. CASE NoKey \/ key_browse
  BY <1>4 DEF NoKey, key_browse, Move, Enter, Leave, set_sort, ToggleReverse, NextMode, LoopBack
<1>5. CASE UNCHANGED vars
  <2>1. UNCHANGED <<tree, dir, selected, ui, drawn>>
    BY <1>5 DEF vars, data, app
  <2>2. is_live(selected[dir][1])
    BY <2>1 DEF tree, is_live, Chain
  <2> QED BY <1>0, <2>1, <2>2 DEF DrawnIsSelected
<1> QED BY <1>1, <1>2, <1>3, <1>4, <1>5 DEF Next

LEMMA Invariant == Spec => []IInv
<1>1. Init => IInv
  BY IInvInit
<1>2. IInv /\ [Next]_vars => IInv'
  BY TypeOKStep, DrawnStep DEF IInv
<1> QED BY <1>1, <1>2, PTL DEF Spec

-----------------------------------------------------------------------------
(* The theorems. *)

\* The fields of App that the list depends on are well typed: the directory is one that
\* exists, and what is remembered for a directory is an entry that was in it.
THEOREM TypeCorrect == Spec => []TypeOK
<1>1. IInv => TypeOK
  BY DEF IInv
<1> QED BY <1>1, Invariant, PTL

\* In a directory where an entry was selected that still exists, a key acts on the entry
\* that is highlighted, whatever was sampled since it was drawn; in any directory it acts
\* on some entry while there are any.
THEOREM KeyHitsDrawnAlways == Spec => []KeyHitsDrawn
<1>1. IInv => KeyHitsDrawn
  <2> SUFFICES ASSUME IInv PROVE KeyHitsDrawn
    OBVIOUS
  <2>0. TypeOK /\ TreeInv /\ Placed /\ DrawnIsSelected
    BY DEF IInv
  <2>1. ui = "key" /\ dir \in DOMAIN selected /\ is_live(selected[dir][1]) => Sel = drawn
    BY <2>0, OnSelected DEF DrawnIsSelected
  <2>2. children(dir) # {} => Sel # NoEntry
    <3>1. children(dir) # {} => Sel \in children(dir)
      BY <2>0, CursorFacts
    <3>2. children(dir) \subseteq Node
      BY <2>0 DEF children, TreeInv, TreeTypeOK
    <3> QED BY <3>1, <3>2, NotNoEntry
  <2> QED BY <2>1, <2>2 DEF KeyHitsDrawn
<1> QED BY <1>1, Invariant, PTL

OnSelectedAlways ==
  dir \in DOMAIN selected /\ is_live(selected[dir][1]) => Sel = selected[dir][1]

LEMMA OnSelectedNext == IInv' => OnSelectedAlways'
<1>1. IInv => OnSelectedAlways
  BY OnSelected DEF IInv, OnSelectedAlways
<1> QED BY <1>1, PTL

\* Leaving a directory puts the cursor on it, in whatever order the list is now.
THEOREM LeaveReturnsAlways == Spec => LeaveReturns
<1>1. IInv /\ IInv' /\ [Next]_vars => [ui = "key" /\ dir' \in anc[dir] => Sel' = dir]_vars
  <2> SUFFICES ASSUME IInv, IInv', Next, ui = "key", dir' \in anc[dir] PROVE Sel' = dir
    OBVIOUS
  <2>0. TypeOK /\ TreeInv /\ Placed /\ dir \in LiveNodes /\ [Next]_vars
    BY DEF IInv, TypeOK
  <2>1. dir \notin anc[dir]
    <3>1. path_of(dir) \in Path
      BY <2>0, NodeFacts DEF LiveNodes, TreeInv, TreeTypeOK
    <3> QED BY <3>1, <2>0, LiveAbove, PathFacts
  <2>2. ~Enter
    <3> SUFFICES ASSUME Enter PROVE FALSE
      OBVIOUS
    <3>1. dir' \in children(dir)
      BY <2>0, CursorFacts DEF Enter
    <3> QED BY <3>1, <2>0, ChildFacts
  <2>3. Leave
    <3>1. ~apply_bg
      BY DEF apply_bg
    <3> QED BY <2>0, <2>1, <2>2, <3>1, DirCases
  <2> DEFINE p == parent(dir)
             v == EntriesOf(p)
             i == position(v, dir)
  <2>4. dir # ROOT /\ dir' = p /\ selected' = ReturnTo(v, dir) /\ UNCHANGED tree
    BY <2>3 DEF Leave, LoopBack, data
  <2>5. /\ p \in LiveNodes /\ i \in 1..Len(v) /\ v[i] = dir /\ i \in Nat \ {0}
        /\ ReturnTo(v, dir) = Selecting(p, v, i)
    BY <2>0, <2>4, ReturnFacts
  <2>6. p \in DOMAIN selected' /\ selected'[p][1] = dir
    BY <2>0, <2>4, <2>5, SelectingFacts
  <2>7. is_live(selected[dir][1])'
    <3>1. Chain(dir) \cap removed = {}
      BY <2>0 DEF LiveNodes, is_live
    <3> QED BY <3>1, <2>4, <2>6 DEF tree, is_live, Chain
  <2>8. OnSelectedAlways'
    BY OnSelectedNext
  <2>9. dir' \in DOMAIN selected' /\ selected'[dir'][1] = dir
    BY <2>4, <2>6
  <2> QED BY <2>7, <2>8, <2>9 DEF OnSelectedAlways
<1> QED BY <1>1, Invariant, PTL DEF Spec, LeaveReturns
=============================================================================
