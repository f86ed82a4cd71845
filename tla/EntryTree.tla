------------------------------ MODULE EntryTree ------------------------------
(***************************************************************************)
(* What src/src/tree.rs promises its users about entries: a trie of paths  *)
(* whose nodes are never reused.  A NodeId keeps denoting the same entry   *)
(* after the entry was removed, and a path sampled again after that gets a *)
(* new node.  Counters are not part of this view; PathTree, the arena with *)
(* its counters, implements it, and Session builds on it.                  *)
(*                                                                         *)
(* A path is an abstract value; Up gives the strict prefixes of each.      *)
(* A node is a path and the number that tells its incarnations apart.      *)
(***************************************************************************)
EXTENDS Integers, FiniteSets

CONSTANTS Path,   \* entry paths, "" (the top level) included
          Top,    \* ""
          Up,     \* Up[p]: the strict prefixes of p
          Batch,  \* <<O, S>>: what one write-locked section brings, owners and
                  \* subvolume roots
          MaxInc  \* bound: a path gets at most MaxInc + 1 nodes

ASSUME PathAssumption ==
  /\ IsFiniteSet(Path)
  /\ Top \in Path
  /\ Up \in [Path -> SUBSET Path]
  /\ Up[Top] = {}
  /\ \A p \in Path : p \notin Up[p]
  /\ \A p \in Path : \A q \in Up[p] : Up[q] \subseteq Up[p]
  /\ \A p \in Path \ {Top} : Top \in Up[p] /\ \E q \in Up[p] : Up[p] = Up[q] \cup {q}
  /\ \A p \in Path : \A q, r \in Up[p] : q = r \/ q \in Up[r] \/ r \in Up[q]

ASSUME BatchAssumption == Batch \subseteq (SUBSET Path) \X (SUBSET Path)

ASSUME IncAssumption == MaxInc \in Nat

Node == Path \X (0..MaxInc)
ROOT == <<Top, 0>>

VARIABLES known,   \* the arena
          made,    \* how many nodes each path has had
          anc,     \* the nodes a walk along Node.parent meets, from each node
          removed, \* Node.removed
          subvol   \* Node.subvol

tree == <<known, made, anc, removed, subvol>>

TreeTypeOK ==
  /\ known \in SUBSET Node
  /\ ROOT \in known
  /\ made \in [Path -> 0..(MaxInc + 1)]
  /\ anc \in [known -> SUBSET known]
  /\ removed \in SUBSET known
  /\ subvol \in SUBSET known

TreeInit ==
  /\ known = {ROOT}
  /\ made = [p \in Path |-> IF p = Top THEN 1 ELSE 0]
  /\ anc = [n \in {ROOT} |-> {}]
  /\ removed = {}
  /\ subvol = {}

-----------------------------------------------------------------------------
(* Reading the tree. *)

path_of(n) == n[1]
Chain(n) == anc[n] \cup {n}
is_live(n) == Chain(n) \cap removed = {}
is_ancestor(a, n) == a \in anc[n]
LiveNodes == {n \in known : is_live(n)}
parent(n) == CHOOSE m \in anc[n] : anc[n] = Chain(m)

\* The children maps hold the nodes that were not removed from their parent.
children(n) == {m \in known \ removed : n \in anc[m] /\ anc[m] = Chain(n)}

\* Nodes reached from n through the children maps; n itself may be removed.
Below(n) == {m \in known : n \in anc[m] /\ (Chain(m) \ Chain(n)) \cap removed = {}}

has_subvol(n) == n \in subvol \/ \E m \in Below(n) : m \in subvol

-----------------------------------------------------------------------------
(* Changing the tree. *)

\* Following the children maps from the root, p is found.
Bound(p) == \E n \in LiveNodes : path_of(n) = p
HasRoom(p) == made[p] <= MaxInc

\* The node get_or_create returns for p.
NodeAt(p) == IF Bound(p) THEN CHOOSE n \in LiveNodes : path_of(n) = p ELSE <<p, made[p]>>

WithPrefixes(P) == P \cup UNION {Up[p] : p \in P}

\* get_or_create for every path of P, under one write lock.
GetOrCreate(P) ==
  LET new == {p \in WithPrefixes(P) : ~Bound(p)}
      fresh == {NodeAt(p) : p \in new}
  IN /\ \A p \in new : HasRoom(p)
     /\ known' = known \cup fresh
     /\ made' = [p \in Path |-> IF p \in new THEN made[p] + 1 ELSE made[p]]
     /\ anc' = [n \in known \cup fresh |->
                  IF n \in known THEN anc[n] ELSE {NodeAt(q) : q \in Up[path_of(n)]}]

\* mark_subvol creates the nodes of subvolume roots S, as owners O have theirs.
MutantTouched(O, S) == O
Touched(O, S) == O \cup S

\* add_sample, without the counters.
AddSample(O, S) ==
  /\ GetOrCreate(Touched(O, S))
  /\ subvol' = subvol \cup {NodeAt(p) : p \in S}
  /\ UNCHANGED removed

\* mark_subvol for every path of S, under one write lock (refresh_subvols).
MarkSubvols(S) == AddSample({}, S)

\* remove: nothing happens to the root or to a node that is already gone.
Remove(n) ==
  /\ removed' = IF n = ROOT \/ ~is_live(n) THEN removed ELSE removed \cup {n}
  /\ UNCHANGED <<known, made, anc, subvol>>

TreeNext ==
  \/ \E b \in Batch : AddSample(b[1], b[2])
  \/ \E n \in known : Remove(n)

TreeSpec == TreeInit /\ [][TreeNext]_tree

-----------------------------------------------------------------------------
(* Properties *)

\* Entries form a trie however samples, marks and removals interleave: a path
\* has one live node; every node hangs below one node for each prefix of its
\* path, and those hang below each other; the root cannot go away.
OneLiveNode == \A n, m \in LiveNodes : path_of(n) = path_of(m) => n = m
Hangs ==
  \A n \in known :
    /\ {path_of(m) : m \in anc[n]} = Up[path_of(n)]
    /\ \A m \in anc[n] : anc[m] \subseteq anc[n]
    /\ \A m, k \in anc[n] : path_of(m) = path_of(k) => m = k
RootLive == is_live(ROOT)
Trie == OneLiveNode /\ Hangs /\ RootLive
=============================================================================
