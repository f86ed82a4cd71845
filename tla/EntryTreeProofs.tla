--------------------------- MODULE EntryTreeProofs ---------------------------
(***************************************************************************)
(* Proofs about EntryTree: its type invariant and the trie it keeps, and   *)
(* the facts about one step of it that the proofs of Session and Browse    *)
(* rest on.                                                                *)
(***************************************************************************)
EXTENDS EntryTree, FiniteSetTheorems, TLAPS

\* The inductive invariant: node numbers already given out are below made.
Numbered == \A n \in known : n[2] < made[n[1]]
TreeInv == TreeTypeOK /\ Trie /\ Numbered

\* Prefixes are paths, no path is its own, and they are closed under Up.
LEMMA PathFacts ==
  /\ Top \in Path
  /\ \A p \in Path : Up[p] \subseteq Path /\ p \notin Up[p]
  /\ \A p \in Path : \A q \in Up[p] : Up[q] \subseteq Up[p]
BY PathAssumption

\* There are finitely many nodes.
LEMMA FiniteNodes == \A S : S \subseteq Node => IsFiniteSet(S) /\ Cardinality(S) \in Nat
<1>1. IsFiniteSet(0..MaxInc)
  BY FS_Interval, IncAssumption
<1>2. IsFiniteSet(Node)
  BY <1>1, FS_Product, PathAssumption DEF Node
<1> QED BY <1>2, FS_Subset, FS_CardinalityType

LEMMA NodeFacts ==
  /\ ROOT \in Node /\ path_of(ROOT) = Top
  /\ \A n \in Node : path_of(n) \in Path
  /\ \A p \in Path : \A k \in 0..MaxInc : <<p, k>> \in Node /\ path_of(<<p, k>>) = p
BY PathAssumption, IncAssumption DEF Node, ROOT, path_of

\* A live node has only live nodes above it.
LEMMA LiveAbove ==
  ASSUME TreeInv, NEW n \in LiveNodes, NEW m \in anc[n]
  PROVE  m \in LiveNodes /\ path_of(m) \in Up[path_of(n)]
<1>1. n \in known /\ m \in known /\ anc[n] \subseteq known
  BY DEF TreeInv, TreeTypeOK, LiveNodes
<1>2. Chain(m) \subseteq Chain(n)
  BY <1>1 DEF TreeInv, Trie, Hangs, Chain
<1>3. path_of(m) \in Up[path_of(n)]
  BY <1>1 DEF TreeInv, Trie, Hangs
<1> QED BY <1>1, <1>2, <1>3 DEF LiveNodes, is_live

\* What get_or_create returns for p: the live node bound to it, or a new one.
LEMMA NodeAtFacts ==
  ASSUME TreeInv, NEW p \in Path
  PROVE  /\ Bound(p) => NodeAt(p) \in LiveNodes /\ path_of(NodeAt(p)) = p
         /\ ~Bound(p) /\ HasRoom(p) => NodeAt(p) \in Node \ known /\ path_of(NodeAt(p)) = p
         /\ \A n \in LiveNodes : path_of(n) = p => Bound(p) /\ n = NodeAt(p)
<1>1. ASSUME Bound(p) PROVE NodeAt(p) \in LiveNodes /\ path_of(NodeAt(p)) = p
  BY <1>1 DEF Bound, NodeAt
<1>2. ASSUME ~Bound(p), HasRoom(p)
      PROVE  NodeAt(p) \in Node \ known /\ path_of(NodeAt(p)) = p
  <2>1. made[p] \in 0..MaxInc
    BY <1>2, IncAssumption DEF TreeInv, TreeTypeOK, HasRoom
  <2>2. NodeAt(p) = <<p, made[p]>>
    BY <1>2 DEF NodeAt
  <2>3. <<p, made[p]>> \notin known
    BY <2>1 DEF TreeInv, Numbered
  <2> QED BY <2>1, <2>2, <2>3, NodeFacts
<1>3. ASSUME NEW n \in LiveNodes, path_of(n) = p PROVE Bound(p) /\ n = NodeAt(p)
  <2>1. Bound(p) BY <1>3 DEF Bound
  <2> QED BY <2>1, <1>1, <1>3 DEF TreeInv, Trie, OneLiveNode
<1> QED BY <1>1, <1>2, <1>3

\* Everything above the node bound to p is bound to a prefix of p.
LEMMA AboveBound ==
  ASSUME TreeInv, NEW p \in Path, Bound(p)
  PROVE  anc[NodeAt(p)] = {NodeAt(q) : q \in Up[p]}
<1> DEFINE n == NodeAt(p)
<1>1. n \in LiveNodes /\ n \in known /\ path_of(n) = p
  BY NodeAtFacts DEF LiveNodes
<1>2. ASSUME NEW m \in anc[n] PROVE path_of(m) \in Up[p] /\ m = NodeAt(path_of(m))
  <2>1. m \in LiveNodes /\ path_of(m) \in Up[p]
    BY <1>1, LiveAbove
  <2>2. path_of(m) \in Path
    BY <2>1, PathFacts
  <2> QED BY <2>1, <2>2, NodeAtFacts
<1>3. ASSUME NEW q \in Up[p] PROVE NodeAt(q) \in anc[n]
  <2>1. PICK m \in anc[n] : path_of(m) = q
    BY <1>1 DEF TreeInv, Trie, Hangs
  <2> QED BY <2>1, <1>2
<1> HIDE DEF n
<1>4. anc[n] = {NodeAt(q) : q \in Up[p]}
  BY <1>2, <1>3
<1> QED BY <1>4 DEF n

-----------------------------------------------------------------------------
(* get_or_create under one write lock. *)

\* Paths with their prefixes are closed under Up.
LEMMA PrefixesClosed ==
  ASSUME NEW P \in SUBSET Path
  PROVE  /\ P \subseteq WithPrefixes(P) /\ WithPrefixes(P) \subseteq Path
         /\ \A p \in WithPrefixes(P) : Up[p] \subseteq WithPrefixes(P)
<1>1. P \subseteq WithPrefixes(P) /\ WithPrefixes(P) \subseteq Path
  BY PathFacts DEF WithPrefixes
<1>2. ASSUME NEW p \in WithPrefixes(P) PROVE Up[p] \subseteq WithPrefixes(P)
  <2>1. CASE p \in P BY <2>1 DEF WithPrefixes
  <2>2. CASE \E q \in P : p \in Up[q] BY <2>2, PathFacts DEF WithPrefixes
  <2> QED BY <2>1, <2>2 DEF WithPrefixes
<1> QED BY <1>1, <1>2

\* What the arena looks like afterwards: old nodes are where they were, a new one
\* hangs below the nodes NodeAt gives for its prefixes, and those are all live.
LEMMA GrowFacts ==
  ASSUME TreeInv, NEW P \in SUBSET Path, GetOrCreate(P)
  PROVE  /\ known \subseteq known'
         /\ \A n \in known : anc'[n] = anc[n]
         /\ \A n \in known' \ known : /\ path_of(n) \in WithPrefixes(P)
                                      /\ ~Bound(path_of(n))
                                      /\ n = NodeAt(path_of(n))
         /\ \A p \in WithPrefixes(P) : /\ NodeAt(p) \in known'
                                       /\ path_of(NodeAt(p)) = p
                                       /\ NodeAt(p) \in known => NodeAt(p) \in LiveNodes
                                       /\ anc'[NodeAt(p)] = {NodeAt(q) : q \in Up[p]}
         /\ anc' \in [known' -> SUBSET known']
         /\ known' \subseteq Node
<1> DEFINE W == WithPrefixes(P)
           new == {p \in W : ~Bound(p)}
           fresh == {NodeAt(p) : p \in new}
<1>1. /\ \A p \in new : HasRoom(p)
      /\ known' = known \cup fresh
      /\ anc' = [n \in known \cup fresh |->
                   IF n \in known THEN anc[n] ELSE {NodeAt(q) : q \in Up[path_of(n)]}]
  BY DEF GetOrCreate
<1>2. \A p \in W : p \in Path /\ Up[p] \subseteq W
  BY PrefixesClosed
<1>3. ASSUME NEW p \in new PROVE NodeAt(p) \in Node \ known /\ path_of(NodeAt(p)) = p
  BY <1>1, <1>2, NodeAtFacts
<1>4. ASSUME NEW p \in W, Bound(p)
      PROVE  NodeAt(p) \in LiveNodes /\ NodeAt(p) \in known /\ path_of(NodeAt(p)) = p
  BY <1>2, <1>4, NodeAtFacts DEF LiveNodes
<1>5. ASSUME NEW p \in W
      PROVE  /\ NodeAt(p) \in known'
             /\ path_of(NodeAt(p)) = p
             /\ NodeAt(p) \in known => NodeAt(p) \in LiveNodes
             /\ anc'[NodeAt(p)] = {NodeAt(q) : q \in Up[p]}
  <2>1. CASE Bound(p)
    <3>1. NodeAt(p) \in LiveNodes /\ NodeAt(p) \in known /\ path_of(NodeAt(p)) = p
      BY <2>1, <1>4
    <3>2. anc[NodeAt(p)] = {NodeAt(q) : q \in Up[p]}
      BY <2>1, <1>2, AboveBound
    <3> QED BY <1>1, <3>1, <3>2
  <2>2. CASE ~Bound(p)
    <3>1. p \in new BY <2>2
    <3>2. NodeAt(p) \in Node \ known /\ path_of(NodeAt(p)) = p /\ NodeAt(p) \in fresh
      BY <3>1, <1>3
    <3> QED BY <1>1, <3>2
  <2> QED BY <2>1, <2>2
<1>6. \A n \in known' \ known : path_of(n) \in W /\ ~Bound(path_of(n)) /\ n = NodeAt(path_of(n))
  BY <1>1, <1>3
<1>7. \A n \in known : anc'[n] = anc[n]
  BY <1>1
<1>8. anc' \in [known' -> SUBSET known']
  <2>1. ASSUME NEW n \in known' PROVE anc'[n] \subseteq known'
    <3>1. CASE n \in known
      BY <3>1, <1>1, <1>7 DEF TreeInv, TreeTypeOK
    <3>2. CASE n \notin known
      BY <3>2, <1>5, <1>6, <1>2
    <3> QED BY <3>1, <3>2
  <2> QED BY <2>1, <1>1
<1>9. known' \subseteq Node
  BY <1>1, <1>3 DEF TreeInv, TreeTypeOK
<1> QED BY <1>1, <1>5, <1>6, <1>7, <1>8, <1>9

\* Growing keeps the trie.
LEMMA GrowTrie ==
  ASSUME TreeInv, NEW P \in SUBSET Path, GetOrCreate(P), removed' = removed
  PROVE  /\ Trie' /\ Numbered'
         /\ \A n \in known : is_live(n)' <=> is_live(n)
         /\ \A p \in WithPrefixes(P) : NodeAt(p) \in LiveNodes'
<1> DEFINE W == WithPrefixes(P)
<1>g. /\ known \subseteq known' /\ known' \subseteq Node
      /\ \A n \in known : anc'[n] = anc[n]
      /\ \A n \in known' \ known : path_of(n) \in W /\ ~Bound(path_of(n)) /\ n = NodeAt(path_of(n))
      /\ anc' \in [known' -> SUBSET known']
  BY GrowFacts
<1>w. \A p \in W : /\ p \in Path /\ Up[p] \subseteq W
                   /\ NodeAt(p) \in known' /\ path_of(NodeAt(p)) = p
                   /\ NodeAt(p) \in known => NodeAt(p) \in LiveNodes
                   /\ anc'[NodeAt(p)] = {NodeAt(q) : q \in Up[p]}
  BY GrowFacts, PrefixesClosed
<1>t. removed \subseteq known /\ ROOT \in known /\ known \subseteq Node
  BY DEF TreeInv, TreeTypeOK
<1>1. ASSUME NEW n \in known PROVE is_live(n)' <=> is_live(n)
  BY <1>g DEF is_live, Chain
<1>2. ASSUME NEW p \in W PROVE NodeAt(p) \in LiveNodes'
  <2>1. ASSUME NEW q \in W PROVE NodeAt(q) \notin removed
    <3>1. CASE NodeAt(q) \in known
      BY <3>1, <1>w DEF LiveNodes, is_live, Chain
    <3>2. CASE NodeAt(q) \notin known
      BY <3>2, <1>t
    <3> QED BY <3>1, <3>2
  <2>2. anc'[NodeAt(p)] \cap removed = {}
    BY <1>w, <2>1
  <2> QED BY <1>w, <2>1, <2>2 DEF LiveNodes, is_live, Chain
<1>3. OneLiveNode'
  <2> SUFFICES ASSUME NEW n \in LiveNodes', NEW m \in LiveNodes', path_of(n) = path_of(m)
               PROVE  n = m
    BY DEF OneLiveNode, path_of
  <2>1. n \in known' /\ m \in known' /\ is_live(n)' /\ is_live(m)'
    BY DEF LiveNodes
  <2>2. CASE n \in known /\ m \in known
    BY <2>1, <2>2, <1>1 DEF LiveNodes, TreeInv, Trie, OneLiveNode
  <2>3. CASE n \notin known /\ m \notin known
    BY <2>1, <2>3, <1>g
  <2>4. CASE n \in known /\ m \notin known
    BY <2>1, <2>4, <1>1, <1>g DEF LiveNodes, Bound
  <2>5. CASE n \notin known /\ m \in known
    BY <2>1, <2>5, <1>1, <1>g DEF LiveNodes, Bound
  <2> QED BY <2>2, <2>3, <2>4, <2>5
<1>4. Hangs'
  <2> SUFFICES ASSUME NEW n \in known'
               PROVE  /\ {path_of(m) : m \in anc'[n]} = Up[path_of(n)]
                      /\ \A m \in anc'[n] : anc'[m] \subseteq anc'[n]
                      /\ \A m, k \in anc'[n] : path_of(m) = path_of(k) => m = k
    BY DEF Hangs, path_of
  <2>1. CASE n \in known
    <3>1. anc'[n] = anc[n] /\ anc[n] \subseteq known
      BY <2>1, <1>g DEF TreeInv, TreeTypeOK
    <3>2. \A m \in anc[n] : anc'[m] = anc[m]
      BY <3>1, <1>g
    <3> QED BY <2>1, <3>1, <3>2 DEF TreeInv, Trie, Hangs
  <2>2. CASE n \notin known
    <3> DEFINE p == path_of(n)
    <3>1. p \in W /\ n = NodeAt(p)
      BY <2>2, <1>g
    <3>2. anc'[n] = {NodeAt(q) : q \in Up[p]}
      BY <3>1, <1>w
    <3>3. \A q \in Up[p] : path_of(NodeAt(q)) = q /\ Up[q] \subseteq Up[p]
                           /\ anc'[NodeAt(q)] = {NodeAt(r) : r \in Up[q]}
      BY <3>1, <1>w, PathFacts
    <3> HIDE DEF p
    <3>4. {path_of(m) : m \in anc'[n]} = Up[p]
      BY <3>2, <3>3
    <3>5. \A m \in anc'[n] : anc'[m] \subseteq anc'[n]
      BY <3>2, <3>3
    <3>6. \A m, k \in anc'[n] : path_of(m) = path_of(k) => m = k
      BY <3>2, <3>3
    <3> QED BY <3>4, <3>5, <3>6 DEF p
  <2> QED BY <2>1, <2>2
<1>5. RootLive'
  BY <1>1, <1>t DEF RootLive, TreeInv, Trie
<1>6. Numbered'
  <2> SUFFICES ASSUME NEW n \in known' PROVE n[2] < made'[n[1]]
    BY DEF Numbered
  <2>1. n[1] \in Path /\ n[2] \in Nat
    BY <1>g, IncAssumption DEF Node
  <2>2. made[n[1]] \in Nat /\ made'[n[1]] \in {made[n[1]], made[n[1]] + 1}
    BY <2>1 DEF GetOrCreate, TreeInv, TreeTypeOK
  <2>3. CASE n \in known
    BY <2>1, <2>2, <2>3 DEF TreeInv, Numbered
  <2>4. CASE n \notin known
    <3>1. n[1] \in W /\ ~Bound(n[1]) /\ n = NodeAt(n[1])
      BY <2>4, <1>g DEF path_of
    <3>2. n[2] = made[n[1]]
      BY <3>1 DEF NodeAt
    <3>3. made'[n[1]] = made[n[1]] + 1
      BY <2>1, <3>1 DEF GetOrCreate
    <3> QED BY <3>2, <3>3, <2>2
  <2> QED BY <2>3, <2>4
<1> QED BY <1>1, <1>2, <1>3, <1>4, <1>5, <1>6 DEF Trie

\* add_sample keeps the invariant, moves no node, brings none back, and leaves a
\* live, flagged node at every subvolume root it was given.
LEMMA AddSampleFacts ==
  ASSUME TreeInv, NEW O \in SUBSET Path, NEW S \in SUBSET Path, AddSample(O, S)
  PROVE  /\ TreeInv'
         /\ known \subseteq known' /\ removed' = removed /\ subvol \subseteq subvol'
         /\ \A n \in known : anc'[n] = anc[n] /\ (is_live(n)' <=> is_live(n))
         /\ \A p \in S : \E m \in LiveNodes' : path_of(m) = p /\ m \in subvol'
<1>1. O \cup S \in SUBSET Path /\ GetOrCreate(O \cup S) /\ removed' = removed
  BY DEF AddSample, Touched
<1>2. S \subseteq WithPrefixes(O \cup S) /\ WithPrefixes(O \cup S) \subseteq Path
  BY <1>1, PrefixesClosed
<1>3. /\ known \subseteq known' /\ known' \subseteq Node
      /\ \A n \in known : anc'[n] = anc[n]
      /\ \A p \in WithPrefixes(O \cup S) : NodeAt(p) \in known' /\ path_of(NodeAt(p)) = p
      /\ anc' \in [known' -> SUBSET known']
  BY <1>1, GrowFacts
<1>4. /\ Trie' /\ Numbered'
      /\ \A n \in known : is_live(n)' <=> is_live(n)
      /\ \A p \in WithPrefixes(O \cup S) : NodeAt(p) \in LiveNodes'
  BY <1>1, GrowTrie
<1>5. subvol' = subvol \cup {NodeAt(p) : p \in S}
  BY DEF AddSample
<1>6. made' \in [Path -> 0..(MaxInc + 1)]
  <2> DEFINE new == {p \in WithPrefixes(O \cup S) : ~Bound(p)}
  <2>1. /\ \A p \in new : HasRoom(p)
        /\ made' = [p \in Path |-> IF p \in new THEN made[p] + 1 ELSE made[p]]
    BY <1>1 DEF GetOrCreate
  <2> HIDE DEF new
  <2>2. \A p \in Path : made[p] \in 0..(MaxInc + 1) /\ (p \in new => made[p] <= MaxInc)
    BY <2>1 DEF TreeInv, TreeTypeOK, HasRoom
  <2>3. \A p \in Path : (IF p \in new THEN made[p] + 1 ELSE made[p]) \in 0..(MaxInc + 1)
    BY <2>2, IncAssumption
  <2> QED BY <2>1, <2>3
<1>7. TreeTypeOK'
  BY <1>1, <1>2, <1>3, <1>5, <1>6 DEF TreeInv, TreeTypeOK
<1>8. ASSUME NEW p \in S PROVE \E m \in LiveNodes' : path_of(m) = p /\ m \in subvol'
  BY <1>2, <1>3, <1>4, <1>5
<1> QED BY <1>1, <1>3, <1>4, <1>5, <1>7, <1>8 DEF TreeInv

\* remove keeps the invariant and takes away what is at or below its node only.
LEMMA RemoveFacts ==
  ASSUME TreeInv, NEW n \in known, Remove(n)
  PROVE  /\ TreeInv'
         /\ known' = known /\ anc' = anc /\ subvol' = subvol
         /\ removed \subseteq removed' /\ removed' \subseteq removed \cup {n}
         /\ \A m \in LiveNodes : n \notin Chain(m) => m \in LiveNodes'
         /\ ROOT \notin removed'
<1>1. known' = known /\ made' = made /\ anc' = anc /\ subvol' = subvol
  BY DEF Remove
<1>2. removed \subseteq removed' /\ removed' \subseteq removed \cup {n}
  BY DEF Remove
<1>3. ROOT \notin removed'
  BY DEF Remove, TreeInv, Trie, RootLive, is_live, Chain
<1>4. ASSUME NEW m \in LiveNodes, n \notin Chain(m) PROVE m \in LiveNodes'
  BY <1>1, <1>2, <1>4 DEF LiveNodes, is_live, Chain
<1>5. TreeTypeOK'
  BY <1>1, <1>2 DEF TreeInv, TreeTypeOK
<1>6. Hangs' /\ Numbered'
  BY <1>1 DEF TreeInv, Trie, Hangs, Numbered, path_of
<1>7. LiveNodes' \subseteq LiveNodes
  BY <1>1, <1>2 DEF LiveNodes, is_live, Chain
<1>8. OneLiveNode'
  BY <1>7 DEF TreeInv, Trie, OneLiveNode, path_of
<1>9. RootLive'
  <2>1. anc[ROOT] = {}
    <3>1. ROOT \in known BY DEF TreeInv, TreeTypeOK
    <3>2. {path_of(m) : m \in anc[ROOT]} = {}
      BY <3>1, NodeFacts, PathAssumption DEF TreeInv, Trie, Hangs
    <3> QED BY <3>2
  <2> QED BY <2>1, <1>1, <1>3 DEF RootLive, is_live, Chain
<1> QED BY <1>1, <1>2, <1>3, <1>4, <1>5, <1>6, <1>8, <1>9 DEF TreeInv, Trie

-----------------------------------------------------------------------------
(* Where a node is among the others. *)

LEMMA RootFacts ==
  ASSUME TreeInv
  PROVE  /\ anc[ROOT] = {} /\ ROOT \in LiveNodes
         /\ \A n \in known : path_of(n) = Top <=> anc[n] = {}
         /\ \A n \in LiveNodes : n # ROOT => path_of(n) # Top
<1>1. ROOT \in known /\ path_of(ROOT) = Top
  BY NodeFacts DEF TreeInv, TreeTypeOK
<1>2. \A n \in known : {path_of(m) : m \in anc[n]} = Up[path_of(n)] /\ path_of(n) \in Path
  BY NodeFacts DEF TreeInv, TreeTypeOK, Trie, Hangs
<1>3. \A n \in known : path_of(n) = Top <=> anc[n] = {}
  BY <1>2, PathAssumption
<1>4. ROOT \in LiveNodes
  BY <1>1 DEF TreeInv, Trie, RootLive, LiveNodes
<1>5. \A n \in LiveNodes : n # ROOT => path_of(n) # Top
  BY <1>1, <1>4 DEF TreeInv, Trie, OneLiveNode
<1> QED BY <1>1, <1>3, <1>4, <1>5

\* A node that is not at the top has a parent, below which it hangs directly.
LEMMA ParentFacts ==
  ASSUME TreeInv, NEW n \in known, path_of(n) # Top
  PROVE  parent(n) \in anc[n] /\ anc[n] = Chain(parent(n))
<1> DEFINE p == path_of(n)
<1>1. /\ anc[n] \subseteq known /\ p \in Path
      /\ {path_of(m) : m \in anc[n]} = Up[p]
      /\ \A m \in anc[n] : anc[m] \subseteq anc[n] /\ {path_of(k) : k \in anc[m]} = Up[path_of(m)]
      /\ \A m, k \in anc[n] : path_of(m) = path_of(k) => m = k
  BY NodeFacts DEF TreeInv, TreeTypeOK, Trie, Hangs
<1>2. PICK q \in Up[p] : Up[p] = Up[q] \cup {q}
  BY <1>1, PathAssumption
<1>3. PICK m \in anc[n] : path_of(m) = q
  BY <1>1
<1>4. ASSUME NEW k \in anc[n] PROVE k \in Chain(m)
  <2>1. path_of(k) \in Up[q] \cup {q}
    BY <1>1, <1>2
  <2>2. CASE path_of(k) = q
    BY <2>2, <1>1, <1>3 DEF Chain
  <2>3. CASE path_of(k) \in Up[q]
    <3>1. PICK j \in anc[m] : path_of(j) = path_of(k)
      BY <2>3, <1>1, <1>3
    <3> QED BY <3>1, <1>1, <1>3 DEF Chain
  <2> QED BY <2>1, <2>2, <2>3
<1>5. anc[n] = Chain(m)
  BY <1>1, <1>3, <1>4 DEF Chain
<1> QED BY <1>3, <1>5 DEF parent

\* Of two nodes above or at the same one, one is above or at the other.
LEMMA ChainsAreLinear ==
  ASSUME TreeInv, NEW n \in known, NEW m \in Chain(n), NEW k \in Chain(n)
  PROVE  m \in Chain(k) \/ k \in Chain(m)
<1> DEFINE p == path_of(n)
<1>1. /\ anc[n] \subseteq known /\ p \in Path
      /\ {path_of(j) : j \in anc[n]} = Up[p]
      /\ \A j \in anc[n] : anc[j] \subseteq anc[n] /\ {path_of(i) : i \in anc[j]} = Up[path_of(j)]
      /\ \A i, j \in anc[n] : path_of(i) = path_of(j) => i = j
  BY NodeFacts DEF TreeInv, TreeTypeOK, Trie, Hangs
<1>2. CASE m = n \/ k = n
  BY <1>2 DEF Chain
<1>3. CASE m \in anc[n] /\ k \in anc[n]
  <2>1. path_of(m) \in Up[p] /\ path_of(k) \in Up[p]
    BY <1>1, <1>3
  <2>2. path_of(m) = path_of(k) \/ path_of(m) \in Up[path_of(k)] \/ path_of(k) \in Up[path_of(m)]
    BY <1>1, <2>1, PathAssumption
  <2>3. CASE path_of(m) = path_of(k)
    BY <2>3, <1>1, <1>3 DEF Chain
  <2>4. CASE path_of(m) \in Up[path_of(k)]
    <3>1. PICK j \in anc[k] : path_of(j) = path_of(m)
      BY <2>4, <1>1, <1>3
    <3> QED BY <3>1, <1>1, <1>3 DEF Chain
  <2>5. CASE path_of(k) \in Up[path_of(m)]
    <3>1. PICK j \in anc[m] : path_of(j) = path_of(k)
      BY <2>5, <1>1, <1>3
    <3> QED BY <3>1, <1>1, <1>3 DEF Chain
  <2> QED BY <2>2, <2>3, <2>4, <2>5
<1> QED BY <1>2, <1>3 DEF Chain

-----------------------------------------------------------------------------
(* The theorems. *)

LEMMA TreeInvInit == TreeInit => TreeInv
<1> SUFFICES ASSUME TreeInit PROVE TreeInv
  OBVIOUS
<1>1. known = {ROOT} /\ removed = {} /\ subvol = {} /\ anc = [n \in {ROOT} |-> {}]
      /\ made = [p \in Path |-> IF p = Top THEN 1 ELSE 0]
  BY DEF TreeInit
<1>2. TreeTypeOK
  BY <1>1, NodeFacts, IncAssumption DEF TreeTypeOK
<1>3. anc[ROOT] = {} /\ Up[path_of(ROOT)] = {}
  BY <1>1, NodeFacts, PathAssumption
<1>4. OneLiveNode /\ RootLive
  BY <1>1, <1>3 DEF OneLiveNode, LiveNodes, RootLive, is_live, Chain
<1>5. Hangs
  BY <1>1, <1>3 DEF Hangs
<1>6. Numbered
  BY <1>1, PathAssumption DEF Numbered, ROOT
<1> QED BY <1>2, <1>4, <1>5, <1>6 DEF TreeInv, Trie

LEMMA TreeInvStep == TreeInv /\ [TreeNext]_tree => TreeInv'
<1> SUFFICES ASSUME TreeInv, [TreeNext]_tree PROVE TreeInv'
  OBVIOUS
<1>1. CASE \E b \in Batch : AddSample(b[1], b[2])
  BY <1>1, BatchAssumption, AddSampleFacts
<1>2. CASE \E n \in known : Remove(n)
  BY <1>2, RemoveFacts
<1>3. CASE UNCHANGED tree
  BY <1>3 DEF tree, TreeInv, TreeTypeOK, Trie, Numbered, OneLiveNode, LiveNodes, Hangs,
              RootLive, is_live, Chain, path_of
<1> QED BY <1>1, <1>2, <1>3 DEF TreeNext

LEMMA TreeInvariant == TreeSpec => []TreeInv
<1>1. TreeInit => TreeInv BY TreeInvInit
<1>2. TreeInv /\ [TreeNext]_tree => TreeInv' BY TreeInvStep
<1> QED BY <1>1, <1>2, PTL DEF TreeSpec

\* The arena stays well typed: parents and flags are about nodes it has.
THEOREM TreeTypeCorrect == TreeSpec => []TreeTypeOK
<1>1. TreeInv => TreeTypeOK BY DEF TreeInv
<1> QED BY <1>1, TreeInvariant, PTL

\* Entries form a trie after any samples, marks and removals.
THEOREM TrieAlways == TreeSpec => []Trie
<1>1. TreeInv => Trie BY DEF TreeInv
<1> QED BY <1>1, TreeInvariant, PTL
=============================================================================
