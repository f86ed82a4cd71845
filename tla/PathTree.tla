------------------------------ MODULE PathTree -------------------------------
(***************************************************************************)
(* The sample tree of src/src/tree.rs: an arena of nodes linked by parent  *)
(* indices and children maps, each with the counters of the samples below  *)
(* it.  Every operation runs under the tree's write lock, so each is one   *)
(* step: the aggregator adds samples, the UI thread marks subvolumes and   *)
(* removes deleted entries.                                                *)
(*                                                                         *)
(* A path is a sequence of names.  The f64 share 1/m of a sample with m    *)
(* owners is kept exactly, in units of 1/Unit; rounding is not modelled.   *)
(***************************************************************************)
EXTENDS Integers, FiniteSets, FiniteSetsExt, SequencesExt

CONSTANTS Sample,     \* [owners: Seq(path), subvols: Seq(path), ratio: Nat or NoRatio]
          SubvolList, \* what subvolume_paths may return: sequences of paths
          NoRatio,    \* Sample.ratio = None
          MAX_SHARERS,
          Unit,       \* divisible by the number of owners of every sample
          MaxSamples, \* bound on the samples added
          MaxNodes,   \* bound: nothing is added to an arena of this size
          Path,       \* all entry paths
          Batch, MaxInc  \* of EntryTree

\* Every directory above an entry is one.
ASSUME PathAssumption ==
  /\ IsFiniteSet(Path) /\ <<>> \in Path
  /\ \A p \in Path : p \in Seq(STRING) /\ \A k \in 0..Len(p) : SubSeq(p, 1, k) \in Path

\* The resolver may list an owner twice (Resolve!Canonical).
ASSUME SampleAssumption ==
  /\ Unit \in Nat /\ MAX_SHARERS \in Nat \ {0} /\ NoRatio \notin Nat
  /\ \A s \in Sample :
       /\ s.owners \in Seq(Path) /\ s.subvols \in Seq(Path) /\ s.ratio \in Nat \cup {NoRatio}
       /\ s.owners # <<>> /\ Unit % Len(s.owners) = 0
  /\ \A l \in SubvolList : l \in Seq(Path)

\* The bounds leave EntryTree a number for every node the arena may get.
ASSUME BoundAssumption ==
  /\ MaxSamples \in Nat /\ MaxInc \in Nat /\ MaxNodes \in 0..(MaxInc + 1)
  /\ Batch \subseteq (SUBSET Path) \X (SUBSET Path)
  /\ \A s \in Sample : <<Range(s.owners), Range(s.subvols)>> \in Batch
  /\ \A l \in SubvolList : <<{}, Range(l)>> \in Batch

ROOT == 0
NoParent == -1

VARIABLES nodes,         \* the arena, a function on 0..nodes.len() - 1
          total_samples,
          log,           \* history: the leaves and the ratio of each sample added
          entries        \* auxiliary: the entries the arena stands for, Entries(nodes)

vars == <<nodes, total_samples, log, entries>>

Zero == [represented |-> 0, distributed |-> 0, exclusive |-> 0, shared |-> 0,
         comp_samples |-> 0, uncompressed |-> 0]

NewNode(nm, par) ==
  [name |-> nm, parent |-> par, children |-> <<>>, subvol |-> FALSE, removed |-> FALSE,
   c |-> Zero, sharers |-> <<>>]

\* Tree::new
New == [i \in {ROOT} |-> NewNode("", NoParent)]

-----------------------------------------------------------------------------
(* Reading an arena ns. *)

\* A node and everything a walk along parent meets.
Chain(ns, i) ==
  LET up[k \in DOMAIN ns] == {k} \cup IF ns[k].parent = NoParent THEN {} ELSE up[ns[k].parent]
  IN up[i]

path_of(ns, i) ==
  LET names[k \in DOMAIN ns] ==
        IF ns[k].parent = NoParent THEN <<>> ELSE Append(names[ns[k].parent], ns[k].name)
  IN names[i]

is_live(ns, i) == \A k \in Chain(ns, i) : ~ns[k].removed

\* The entries of an arena, without their counters.  An entry is a path and how
\* many nodes had that path before it.
Entries(ns) ==
  LET path == [i \in DOMAIN ns |-> path_of(ns, i)]
      id == [i \in DOMAIN ns |-> <<path[i], Cardinality({k \in 0..(i - 1) : path[k] = path[i]})>>]
      above == [i \in DOMAIN ns |-> {id[k] : k \in Chain(ns, i) \ {i}}]
      all == Range(id)
  IN [known |-> all,
      made |-> [p \in Path |-> Cardinality({i \in DOMAIN ns : path[i] = p})],
      anc |-> [n \in all |-> above[CHOOSE i \in DOMAIN ns : id[i] = n]],
      removed |-> {id[i] : i \in {k \in DOMAIN ns : ns[k].removed}},
      subvol |-> {id[i] : i \in {k \in DOMAIN ns : ns[k].subvol}}]

Init ==
  /\ nodes = New
  /\ total_samples = 0
  /\ log = <<>>
  /\ entries = Entries(nodes)

-----------------------------------------------------------------------------
(* Building it. *)

With(f, x, y) == [z \in DOMAIN f \cup {x} |-> IF z = x THEN y ELSE f[z]]

add_child(ns, par, nm) ==
  IF nm \in DOMAIN ns[par].children THEN ns
  ELSE LET id == Cardinality(DOMAIN ns)
       IN With([ns EXCEPT ![par].children = With(@, nm, id)], id, NewNode(nm, par))

\* One component further: the arena, and the node of that name.
Descend(st, nm) ==
  LET grown == add_child(st.ns, st.id, nm)
  IN [ns |-> grown, id |-> grown[st.id].children[nm]]

\* The arena afterwards, and the node of the path.
get_or_create(ns, path) ==
  LET to[k \in 0..Len(path)] ==
        IF k = 0 THEN [ns |-> ns, id |-> ROOT] ELSE Descend(to[k - 1], path[k])
  IN to[Len(path)]

\* The same for each path in turn.
CreateNext(st, path) ==
  LET got == get_or_create(st.ns, path) IN [ns |-> got.ns, ids |-> Append(st.ids, got.id)]
Created(ns, paths) ==
  LET to[k \in 0..Len(paths)] ==
        IF k = 0 THEN [ns |-> ns, ids |-> <<>>] ELSE CreateNext(to[k - 1], paths[k])
  IN to[Len(paths)]

\* mark_subvol for each path.  Creating a node does not look at the marks.
mark_subvols(ns, paths) ==
  LET got == Created(ns, paths)
  IN [k \in DOMAIN got.ns |-> [got.ns[k] EXCEPT !.subvol = @ \/ k \in Range(got.ids)]]

\* One other owner remembered in a sharers list: known ones are skipped, a full
\* list loses its first element.
MutantRememberUnbounded(sh, p) == IF Contains(sh, p) THEN sh ELSE Append(sh, p)
Remember(sh, p) ==
  IF Contains(sh, p) THEN sh
  ELSE Append(IF Len(sh) = MAX_SHARERS THEN Tail(sh) ELSE sh, p)

\* The first MAX_SHARERS owners other than the i-th.
MutantOthers(owners, i) ==
  SubSeq(owners, 1, IF Len(owners) < MAX_SHARERS THEN Len(owners) ELSE MAX_SHARERS)
Others(owners, i) ==
  LET others == RemoveAt(owners, i)
  IN SubSeq(others, 1, IF Len(others) < MAX_SHARERS THEN Len(others) ELSE MAX_SHARERS)

\* The sharers sh of the i-th owner after the loop over the others.
Shared(sh, owners, i) ==
  LET ps == Others(owners, i)
      to[k \in 0..Len(ps)] == IF k = 0 THEN sh ELSE Remember(to[k - 1], ps[k])
  IN to[Len(ps)]

\* The sharers sh of node id after the loop over the leaves of a sample.
SharersAfter(sh, id, leaves, owners) ==
  LET to[i \in 0..Len(leaves)] ==
        IF i = 0 THEN sh
        ELSE IF leaves[i] = id THEN Shared(to[i - 1], owners, i) ELSE to[i - 1]
  IN to[Len(leaves)]

\* How often the walks up from the leaves meet node id.
MutantMet(ns, id, leaves) == Cardinality({leaf \in Range(leaves) : id \in Chain(ns, leaf)})
Met(ns, id, leaves) == Cardinality({i \in 1..Len(leaves) : id \in Chain(ns, leaves[i])})

\* The counters c of node id with one more sample.
Credit(ns, id, leaves, ratio, c) ==
  LET m == Len(leaves)
      hits == Met(ns, id, leaves)
      canonical == id \in Chain(ns, leaves[1])
  IN [c EXCEPT !.distributed = @ + hits * (Unit \div m),
               !.represented = @ + (IF canonical THEN 1 ELSE 0),
               !.comp_samples = @ + (IF canonical /\ ratio # NoRatio THEN 1 ELSE 0),
               !.uncompressed = @ + (IF canonical /\ ratio # NoRatio THEN ratio ELSE 0),
               !.exclusive = @ + (IF hits = m THEN 1 ELSE 0),
               !.shared = @ + (IF hits \in 1..(m - 1) THEN 1 ELSE 0)]

-----------------------------------------------------------------------------
(* The operations. *)

add_sample(s) ==
  LET got    == Created(mark_subvols(nodes, s.subvols), s.owners)
      ns     == got.ns
      leaves == got.ids
  IN /\ nodes' = [k \in DOMAIN ns |->
                    [ns[k] EXCEPT !.c = Credit(ns, k, leaves, s.ratio, @),
                                  !.sharers = SharersAfter(@, k, leaves, s.owners)]]
     /\ total_samples' = total_samples + 1
     /\ log' = Append(log, [leaves |-> leaves, ratio |-> s.ratio])
     /\ entries' = Entries(nodes')

\* refresh_subvols: mark_subvol for every listed path, under one write lock.
refresh_subvols(paths) ==
  /\ nodes' = mark_subvols(nodes, paths)
  /\ entries' = Entries(nodes')
  /\ UNCHANGED <<total_samples, log>>

\* Counters::subtract, saturating in every field.
Minus(a, b) == IF a < b THEN 0 ELSE a - b
subtract(c, o) == [f \in DOMAIN c |-> Minus(c[f], o[f])]

\* The nodes remove subtracts from.
MutantSubtractedFrom(id) == {nodes[id].parent}
SubtractedFrom(id) == Chain(nodes, id) \ {id}

\* The parent's children map after remove.
MutantWithoutChild(children, nm) == children
WithoutChild(children, nm) == Restrict(children, DOMAIN children \ {nm})

MutantRemovable(id) == id # ROOT /\ ~nodes[id].removed
Removable(id) == id # ROOT /\ is_live(nodes, id)

remove(id) ==
  /\ IF Removable(id)
     THEN LET nd == nodes[id]
          IN nodes' = [k \in DOMAIN nodes |->
               IF k = id THEN [nd EXCEPT !.removed = TRUE]
               ELSE IF k \notin SubtractedFrom(id) THEN nodes[k]
               ELSE [nodes[k] EXCEPT
                       !.c = subtract(@, nd.c),
                       !.children = IF k = nd.parent THEN WithoutChild(@, nd.name) ELSE @]]
     ELSE UNCHANGED nodes
  /\ entries' = Entries(nodes')
  /\ UNCHANGED <<total_samples, log>>

-----------------------------------------------------------------------------
(* Export and import, with the path in place of the nesting of JSON objects. *)

to_json(ns) ==
  LET below[k \in DOMAIN ns] == {k} \cup UNION {below[j] : j \in Range(ns[k].children)}
  IN {[path |-> path_of(ns, i), subvol |-> ns[i].subvol, c |-> ns[i].c] : i \in below[ROOT]}

MutantSetCounters(ns, id, c, subvol) == [ns EXCEPT ![id].c = c]
set_counters(ns, id, c, subvol) == [ns EXCEPT ![id].c = c, ![id].subvol = subvol]

from_json(doc) ==
  FoldSet(LAMBDA j, ns : LET st == get_or_create(ns, j.path)
                         IN set_counters(st.ns, st.id, j.c, j.subvol),
          New, doc)

-----------------------------------------------------------------------------
Roomy == Cardinality(DOMAIN nodes) < MaxNodes

Next ==
  \/ /\ Len(log) < MaxSamples /\ Roomy
     /\ \E s \in Sample : add_sample(s)
  \/ /\ Roomy
     /\ \E paths \in SubvolList : refresh_subvols(paths)
  \/ \E id \in DOMAIN nodes : remove(id)

Spec == Init /\ [][Next]_vars

-----------------------------------------------------------------------------
(* Properties *)

\* The two ways nodes are linked agree: a children map holds exactly the nodes
\* below it that were not removed, under their names, and parents come first,
\* so that no walk along parent can loop.
Linked ==
  \A i \in DOMAIN nodes :
    /\ i # ROOT => nodes[i].parent \in 0..(i - 1)
    /\ i = ROOT => nodes[i].parent = NoParent /\ ~nodes[i].removed
    /\ \A k \in DOMAIN nodes :
         (nodes[k].parent = i /\ ~nodes[k].removed)
         <=> \E nm \in DOMAIN nodes[i].children :
               nodes[i].children[nm] = k /\ nodes[k].name = nm

TypeOK ==
  /\ DOMAIN nodes = 0..(Cardinality(DOMAIN nodes) - 1)
  /\ \A i \in DOMAIN nodes :
       LET nd == nodes[i] IN
       /\ nd.parent \in (DOMAIN nodes \cup {NoParent})
       /\ \A nm \in DOMAIN nd.children : nd.children[nm] \in DOMAIN nodes
       /\ nd.subvol \in BOOLEAN /\ nd.removed \in BOOLEAN
       /\ \A f \in DOMAIN Zero : nd.c[f] \in Nat
       /\ Len(nd.sharers) <= MAX_SHARERS
  /\ total_samples = Len(log)
  /\ Linked

LiveNodes == {n \in DOMAIN nodes : is_live(nodes, n)}
AllUnder(e, n) == \A i \in DOMAIN e.leaves : n \in Chain(nodes, e.leaves[i])
Samples == DOMAIN log

\* The sum of a sequence of numbers.
Total(f) ==
  LET upto[k \in 0..Len(f)] == IF k = 0 THEN 0 ELSE upto[k - 1] + f[k]
  IN upto[Len(f)]

\* Of a live node, the samples whose owners are still in the tree at or below it.
LiveLeaf(n, e, i) == log[e].leaves[i] \in LiveNodes /\ n \in Chain(nodes, log[e].leaves[i])
Canonical(n) == {e \in Samples : LiveLeaf(n, e, 1)}
Rated(n) == {e \in Canonical(n) : log[e].ratio # NoRatio}
Share(n, e) == Cardinality({i \in DOMAIN log[e].leaves : LiveLeaf(n, e, i)})
                 * (Unit \div Len(log[e].leaves))
CreditExact ==
  \A n \in LiveNodes :
    LET c == nodes[n].c IN
    /\ c.represented = Cardinality(Canonical(n))
    /\ c.distributed = Total([e \in Samples |-> Share(n, e)])
    /\ c.comp_samples = Cardinality(Rated(n))
    /\ c.uncompressed = Total([e \in Samples |-> IF e \in Rated(n) THEN log[e].ratio ELSE 0])

\* The samples wholly inside a live node, less those that were wholly inside an
\* entry removed below it.
ExclusiveExact ==
  \A n \in LiveNodes :
    nodes[n].c.exclusive =
      Cardinality({e \in Samples :
        /\ AllUnder(log[e], n)
        /\ ~\E r \in DOMAIN nodes :
             nodes[r].removed /\ n \in Chain(nodes, r) /\ AllUnder(log[e], r)})

\* The samples a live node shares with entries outside it, while nothing below it was
\* removed; afterwards no more than those.
SomeUnder(e, n) == \E i \in DOMAIN e.leaves : n \in Chain(nodes, e.leaves[i])
SharedExact ==
  \A n \in LiveNodes :
    LET within == {e \in Samples : SomeUnder(log[e], n) /\ ~AllUnder(log[e], n)} IN
    /\ nodes[n].c.shared <= Cardinality(within)
    /\ (\A r \in DOMAIN nodes : nodes[r].removed => n \notin Chain(nodes, r)) =>
         nodes[n].c.shared = Cardinality(within)

\* Counters of a live node hold what they should through any order of samples,
\* removals and re-creations: nothing is subtracted twice.  All but one are exact, as
\* subtracting never saturates in them.  It does in shared, since a removed entry may
\* share a sample that is wholly inside the nodes above it: that one is exact while
\* nothing below the node was removed, and never too large afterwards.
CountersExact == CreditExact /\ ExclusiveExact /\ SharedExact

\* Every sharer listed for a node is another owner of a sample that node had (of its
\* own path only if the sample lists that twice), and is listed once.
SharersSound ==
  \A n \in DOMAIN nodes : \A j \in DOMAIN nodes[n].sharers :
    LET p == nodes[n].sharers[j] IN
    /\ \E e \in Samples : \E i, k \in DOMAIN log[e].leaves :
         i # k /\ log[e].leaves[i] = n /\ path_of(nodes, log[e].leaves[k]) = p
    /\ \A l \in DOMAIN nodes[n].sharers : nodes[n].sharers[l] = p => l = j

\* An export that is imported shows the entries that were live, each with its
\* counters and its mark, and nothing of those removed.
RoundTrip ==
  LET t == from_json(to_json(nodes))
      Shown(ns, ids) == {<<path_of(ns, i), ns[i].c, ns[i].subvol>> : i \in ids}
  IN Shown(t, DOMAIN t) = Shown(nodes, LiveNodes)

\* What README.md says of the Excl column: the samples freed if the entry were
\* deleted, those whose remaining owners are all inside it.
ExclIsFreed ==
  \A n \in LiveNodes :
    nodes[n].c.exclusive =
      Cardinality({e \in Samples :
        LET left == {i \in DOMAIN log[e].leaves : log[e].leaves[i] \in LiveNodes}
        IN left # {} /\ \A i \in left : n \in Chain(nodes, log[e].leaves[i])})

-----------------------------------------------------------------------------
(* The entries, without counters: the detailed arena implements EntryTree.  *)

Entry == INSTANCE EntryTree WITH
  Top <- <<>>,
  Up <- [p \in Path |-> {SubSeq(p, 1, k) : k \in 0..(Len(p) - 1)}],
  known <- entries.known, made <- entries.made, anc <- entries.anc,
  removed <- entries.removed, subvol <- entries.subvol

\* The arena implements the trie of entries Session relies on.
ImplementsEntryTree == Entry!TreeSpec
=============================================================================
