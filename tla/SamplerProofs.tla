---------------------------- MODULE SamplerProofs ----------------------------
(***************************************************************************)
(* Proofs about the three modules of sampler.rs.  Of SubvolCache: that no  *)
(* lookup brings back a subvolume that was destroyed.  Of Resolve: the     *)
(* growing buffer, what sorting and removing duplicates keeps of the       *)
(* owners, and when a sample may credit one path alone.  Of Sampler: the   *)
(* pause, the lock of the tree and the export.                             *)
(***************************************************************************)
EXTENDS SubvolCache, Resolve, Sampler,
        FiniteSetTheorems, SequenceTheorems, WellFoundedInduction, TLAPS

-----------------------------------------------------------------------------
(* The cache of subvolumes: SubvolCache. *)

\* Every variable keeps its type: the invariant every other proof starts from.
THEOREM CacheTypeCorrect == CacheSpec => []CacheTypeOK
<1>1. CacheInit => CacheTypeOK
  BY DEF CacheInit, CacheTypeOK
<1>2. CacheTypeOK /\ [CacheNext]_cache_vars => CacheTypeOK'
  <2> SUFFICES ASSUME CacheTypeOK, [CacheNext]_cache_vars PROVE CacheTypeOK'
    OBVIOUS
  <2>1. ASSUME NEW w \in Caller, NEW r \in Root, Lookup(w, r) PROVE CacheTypeOK'
    BY <2>1 DEF CacheTypeOK, Lookup, CacheHit, kernel, cache, deletion
  <2>2. ASSUME NEW w \in Caller, ReadPath(w) PROVE CacheTypeOK'
    BY <2>2 DEF CacheTypeOK, ReadPath, GiveUp, kernel, cache, deletion
  <2>3. ASSUME NEW w \in Caller, OpenDir(w) PROVE CacheTypeOK'
    <3>1. CASE GiveUp(w)
      BY <3>1 DEF CacheTypeOK, GiveUp, kernel, cache, deletion
    <3>2. CASE ~GiveUp(w)
      <4>1. PICK r \in Root :
              /\ res' = [res EXCEPT ![w] = Opened(w, r)]
              /\ stage' = [stage EXCEPT ![w] = "insert"]
              /\ UNCHANGED <<key, gen, path, begun, kernel, cache, deletion>>
        BY <2>3, <3>2 DEF OpenDir
      <4>2. [path |-> path[w], fd |-> r] \in Subvol
        BY DEF CacheTypeOK, Subvol
      <4>3. res' \in [Caller -> Subvol \cup {None}]
        BY <4>1, <4>2 DEF CacheTypeOK, Opened
      <4> QED
        BY <4>1, <4>3 DEF CacheTypeOK, kernel, cache, deletion
    <3> QED
      BY <3>1, <3>2
  <2>4. ASSUME NEW w \in Caller, Insert(w) PROVE CacheTypeOK'
    BY <2>4 DEF CacheTypeOK, Insert, InsertAccepted, kernel, deletion
  <2>5. ASSUME NEW d \in Deleter, DeleterStep(d) PROVE CacheTypeOK'
    BY <2>5 DEF CacheTypeOK, DeleterStep, BeginDelete, Destroy, Invalidate, NextGeneration, kernel, cache, lookup
  <2>6. CASE Others
    BY <2>6 DEF CacheTypeOK, Others, Rename, ForeignDelete, cache, lookup, deletion
  <2>7. CASE UNCHANGED cache_vars
    BY <2>7 DEF CacheTypeOK, cache_vars, kernel, cache, lookup, deletion
  <2> QED
    BY <2>1, <2>2, <2>3, <2>4, <2>5, <2>6, <2>7 DEF CacheNext, CallerStep
<1> QED
  BY <1>1, <1>2, PTL DEF CacheSpec

-----------------------------------------------------------------------------
(* The inductive invariant.  Three facts beyond the properties carry the    *)
(* induction: no remembered generation is from the future, every destroyed  *)
(* root is accounted to exactly one of settled and the victims of a running *)
(* job, and a found subvolume whose insert would still be accepted is as    *)
(* fresh as a cached one.                                                   *)

GenFromPast == \A w \in Caller : gen[w] \leq generation

Accounting ==
  /\ \A d \in Deleter : \A r \in victims[d] : fate[r] = "destroyed" /\ r \notin settled
  /\ \A d, e \in Deleter : d # e => victims[d] \cap victims[e] = {}
  /\ \A r \in settled : fate[r] = "destroyed"
  /\ \A w \in Caller : begun[w] \subseteq settled

PendingInsertFresh ==
  \A w \in Caller :
    /\ stage[w] = "insert"
    /\ gen[w] = generation
    /\ res[w] \in Subvol
    /\ fate[key[w]] = "destroyed"
    => \E d \in Deleter : key[w] \in victims[d]

CacheIInv == CacheTypeOK /\ GenFromPast /\ Accounting /\ PendingInsertFresh
          /\ NoDeadEntry /\ FreshLookup /\ RightSubvol

\* The inductive invariant holds initially: nothing is cached or destroyed.
LEMMA CacheIInvInit == CacheInit => CacheIInv
BY ValuesAssumption
   DEF CacheInit, CacheIInv, CacheTypeOK, GenFromPast, Accounting, PendingInsertFresh, NoDeadEntry,
       FreshLookup, RightSubvol

\* A cached subvolume is not one that was settled: NoDeadEntry and Accounting.
LEMMA CachedNotSettled ==
  ASSUME CacheIInv, NEW r \in Root, map[r] \in Subvol
  PROVE  r \notin settled
BY DEF CacheIInv, NoDeadEntry, Accounting

\* The first critical section of subvol: a hit hands out what is cached.
LEMMA LookupPreserves ==
  ASSUME CacheIInv, NEW w \in Caller, NEW r \in Root, Lookup(w, r), CacheTypeOK'
  PROVE  CacheIInv'
<1> USE DEF CacheIInv, Lookup, CacheHit, kernel, cache, deletion
<1>1. GenFromPast' /\ Accounting' /\ NoDeadEntry'
  BY DEF CacheTypeOK, GenFromPast, Accounting, NoDeadEntry
<1>2. PendingInsertFresh'
  BY DEF CacheTypeOK, PendingInsertFresh
<1>3. FreshLookup'
  BY CachedNotSettled, ValuesAssumption DEF CacheTypeOK, FreshLookup
<1>4. RightSubvol'
  BY ValuesAssumption DEF CacheTypeOK, RightSubvol
<1> QED
  BY <1>1, <1>2, <1>3, <1>4

\* An early return of open_subvol finds None, which no property restricts.
LEMMA GiveUpPreserves ==
  ASSUME CacheIInv, NEW w \in Caller, GiveUp(w), CacheTypeOK'
  PROVE  CacheIInv'
BY ValuesAssumption
   DEF CacheIInv, GiveUp, kernel, cache, deletion, CacheTypeOK, GenFromPast, Accounting,
       PendingInsertFresh, NoDeadEntry, FreshLookup, RightSubvol

\* What open_subvol finds is linked at this moment, and in the root asked for.
LEMMA OpenDirPreserves ==
  ASSUME CacheIInv, NEW w \in Caller, OpenDir(w), CacheTypeOK'
  PROVE  CacheIInv'
<1>1. CASE GiveUp(w)
  BY <1>1, GiveUpPreserves
<1>2. CASE ~GiveUp(w)
  <2>1. PICK r \in Root :
          /\ Linked(r)
          /\ res' = [res EXCEPT ![w] = Opened(w, r)]
          /\ stage' = [stage EXCEPT ![w] = "insert"]
          /\ UNCHANGED <<key, gen, path, begun, kernel, cache, deletion>>
    BY <1>2 DEF OpenDir
  <2>2. res'[w] \in Subvol => r = key[w] /\ res'[w].fd = key[w]
    BY <2>1, ValuesAssumption DEF CacheIInv, CacheTypeOK, Opened
  <2>3. GenFromPast' /\ Accounting' /\ NoDeadEntry'
    BY <2>1 DEF CacheIInv, CacheTypeOK, GenFromPast, Accounting, NoDeadEntry, kernel, cache, deletion
  <2>4. PendingInsertFresh'
    BY <2>1, <2>2 DEF CacheIInv, CacheTypeOK, PendingInsertFresh, kernel, cache, deletion, Linked
  <2>5. FreshLookup'
    BY <2>1, <2>2 DEF CacheIInv, CacheTypeOK, FreshLookup, Accounting, deletion, Linked
  <2>6. RightSubvol'
    BY <2>1, <2>2 DEF CacheIInv, CacheTypeOK, RightSubvol, cache
  <2> QED
    BY <2>3, <2>4, <2>5, <2>6 DEF CacheIInv
<1> QED
  BY <1>1, <1>2

\* The generation test: an insert accepted now stores something fresh.
LEMMA InsertPreserves ==
  ASSUME CacheIInv, NEW w \in Caller, Insert(w), CacheTypeOK'
  PROVE  CacheIInv'
<1> USE DEF CacheIInv, Insert, InsertAccepted, kernel, deletion
<1>1. GenFromPast' /\ Accounting' /\ PendingInsertFresh' /\ FreshLookup'
  BY DEF CacheTypeOK, GenFromPast, Accounting, PendingInsertFresh, FreshLookup
<1>2. NoDeadEntry'
  BY DEF CacheTypeOK, PendingInsertFresh, NoDeadEntry
<1>3. RightSubvol'
  BY DEF CacheTypeOK, RightSubvol
<1> QED
  BY <1>1, <1>2, <1>3

\* A destroyed subvolume becomes a victim of the job that is still running.
LEMMA DestroyPreserves ==
  ASSUME CacheIInv, NEW d \in Deleter, NEW r \in Root, Destroy(d, r), CacheTypeOK'
  PROVE  CacheIInv'
<1> USE DEF CacheIInv, Destroy, cache, lookup
<1>1. Accounting'
  BY DEF CacheTypeOK, Accounting, Linked
<1>2. \A s \in Root : (\E e \in Deleter : s \in victims[e]) => \E e \in Deleter : s \in victims'[e]
  BY DEF CacheTypeOK
<1>3. r \in victims'[d] /\ \A s \in Root \ {r} : fate'[s] = fate[s]
  BY DEF CacheTypeOK
<1>4. NoDeadEntry'
  BY <1>2, <1>3 DEF CacheTypeOK, NoDeadEntry
<1>5. PendingInsertFresh'
  BY <1>2, <1>3 DEF CacheTypeOK, PendingInsertFresh
<1>6. GenFromPast' /\ FreshLookup' /\ RightSubvol'
  BY DEF GenFromPast, FreshLookup, RightSubvol
<1> QED
  BY <1>1, <1>4, <1>5, <1>6

\* Invalidation empties the map and outdates every remembered generation.
LEMMA InvalidatePreserves ==
  ASSUME CacheIInv, NEW d \in Deleter, Invalidate(d), CacheTypeOK'
  PROVE  CacheIInv'
<1> USE DEF CacheIInv, Invalidate, NextGeneration, kernel, lookup
<1>1. GenFromPast' /\ PendingInsertFresh'
  BY DEF CacheTypeOK, GenFromPast, PendingInsertFresh
<1>2. Accounting'
  <2>1. ASSUME NEW e \in Deleter, NEW r \in victims'[e]
        PROVE  fate'[r] = "destroyed" /\ r \notin settled'
    <3>1. e # d /\ r \in victims[e]
      BY <2>1 DEF CacheTypeOK
    <3>2. r \notin victims[d]
      BY <3>1 DEF Accounting
    <3> QED
      BY <3>1, <3>2 DEF Accounting
  <2> QED
    BY <2>1 DEF Accounting, CacheTypeOK
<1>3. NoDeadEntry' /\ FreshLookup' /\ RightSubvol'
  BY ValuesAssumption DEF CacheTypeOK, NoDeadEntry, FreshLookup, RightSubvol
<1> QED
  BY <1>1, <1>2, <1>3

\* CacheIInv is preserved by every step of the specification.
LEMMA CacheIInvStep ==
  ASSUME CacheIInv, [CacheNext]_cache_vars, CacheTypeOK'
  PROVE  CacheIInv'
<1>1. ASSUME NEW w \in Caller, ReadPath(w) PROVE CacheIInv'
  <2>1. CASE GiveUp(w)
    BY <2>1, GiveUpPreserves
  <2>2. CASE ~GiveUp(w)
    BY <1>1, <2>2
       DEF CacheIInv, ReadPath, kernel, cache, deletion, CacheTypeOK, GenFromPast, Accounting,
           PendingInsertFresh, NoDeadEntry, FreshLookup, RightSubvol
  <2> QED
    BY <2>1, <2>2
<1>2. ASSUME NEW d \in Deleter, BeginDelete(d) PROVE CacheIInv'
  BY <1>2
     DEF CacheIInv, BeginDelete, kernel, cache, lookup, CacheTypeOK, GenFromPast, Accounting,
         PendingInsertFresh, NoDeadEntry, FreshLookup, RightSubvol
<1>3. ASSUME Others PROVE CacheIInv'
  <2>1. \A r \in Root : fate'[r] = "destroyed" <=> fate[r] = "destroyed"
    BY <1>3 DEF CacheIInv, CacheTypeOK, Others, Rename, ForeignDelete, Linked
  <2>2. UNCHANGED <<cache, lookup, deletion>>
    BY <1>3 DEF Others, Rename, ForeignDelete
  <2> QED
    BY <2>1, <2>2
       DEF CacheIInv, cache, lookup, deletion, CacheTypeOK, GenFromPast, Accounting,
           PendingInsertFresh, NoDeadEntry, FreshLookup, RightSubvol
<1>4. CASE UNCHANGED cache_vars
  BY <1>4
     DEF cache_vars, kernel, cache, lookup, deletion, CacheIInv, CacheTypeOK, GenFromPast, Accounting,
         PendingInsertFresh, NoDeadEntry, FreshLookup, RightSubvol
<1> QED
  BY <1>1, <1>2, <1>3, <1>4, LookupPreserves, OpenDirPreserves, InsertPreserves,
     DestroyPreserves, InvalidatePreserves
     DEF CacheNext, CallerStep, DeleterStep

\* The inductive invariant holds in every reachable state.
THEOREM CacheInvariant == CacheSpec => []CacheIInv
<1>1. CacheInit => CacheIInv
  BY CacheIInvInit
<1>2. CacheIInv /\ CacheTypeOK' /\ [CacheNext]_cache_vars => CacheIInv'
  BY CacheIInvStep
<1> QED
  BY <1>1, <1>2, CacheTypeCorrect, PTL DEF CacheSpec

\* Whatever the interleaving of lookups and delete threads, a subvolume btdua
\* destroyed is cached only while the delete_rel that destroyed it still runs.
THEOREM NoDeadEntryAlways == CacheSpec => []NoDeadEntry
<1>1. CacheIInv => NoDeadEntry
  BY DEF CacheIInv
<1> QED
  BY <1>1, CacheInvariant, PTL

\* A lookup begun after the invalidation never answers with the dead subvolume.
THEOREM FreshLookupAlways == CacheSpec => []FreshLookup
<1>1. CacheIInv => FreshLookup
  BY DEF CacheIInv
<1> QED
  BY <1>1, CacheInvariant, PTL

\* The directory kept for a root is in that root, whatever is renamed meanwhile.
THEOREM RightSubvolAlways == CacheSpec => []RightSubvol
<1>1. CacheIInv => RightSubvol
  BY DEF CacheIInv
<1> QED
  BY <1>1, CacheInvariant, PTL

-----------------------------------------------------------------------------
(* One sample: Resolve. *)

LEMMA NatLeast ==
  ASSUME NEW T, T \subseteq Nat, T # {}
  PROVE  \E x \in T : \A y \in T : x <= y
<1> DEFINE R == {ss \in Nat \X Nat : ss[1] < ss[2]}
<1>1. IsWellFoundedOn(R, Nat)
  BY NatLessThanWellFounded DEF OpToRel
<1> HIDE DEF R
<1>2. PICK x \in T : \A y \in T : ~(<<y, x>> \in R)
  BY <1>1, WFMin
<1>3. ASSUME NEW y \in T PROVE x <= y
  <2>1. y \in Nat /\ x \in Nat /\ ~(<<y, x>> \in R) /\ <<y, x>> \in Nat \X Nat
    BY <1>2
  <2> QED BY <2>1 DEF R
<1> QED BY <1>3

-----------------------------------------------------------------------------
(* The order of owners is a total order. *)

Text == Seq(Int)
OwnerRec == [root : Nat \cup {-1}, path : Text, idx : Nat]

LEMMA TextTotal ==
  ASSUME NEW p \in Text, NEW q \in Text, Len(p) = Len(q), p # q
  PROVE  TextBefore(p, q) \/ TextBefore(q, p)
<1> DEFINE T == {k \in DOMAIN p : p[k] # q[k]}
<1>1. DOMAIN p = 1..Len(p) /\ DOMAIN q = 1..Len(p) /\ Len(p) \in Nat
  BY DEF Text
<1>2. T # {} /\ T \subseteq Nat
  BY <1>1 DEF Text
<1>3. PICK k \in T : \A j \in T : k <= j
  BY <1>2, NatLeast
<1>4. ASSUME NEW j \in 1..(k - 1) PROVE p[j] = q[j]
  BY <1>1, <1>3
<1>5. p[k] \in Int /\ q[k] \in Int /\ p[k] # q[k] /\ k \in DOMAIN p /\ k \in DOMAIN q
  BY <1>1, <1>3 DEF Text
<1> QED BY <1>4, <1>5 DEF TextBefore

LEMMA TextStrict ==
  ASSUME NEW p \in Text
  PROVE  ~TextBefore(p, p)
BY DEF TextBefore, Text

LEMMA TextTransitive ==
  ASSUME NEW p \in Text, NEW q \in Text, NEW r \in Text, Len(p) = Len(q), Len(q) = Len(r),
         TextBefore(p, q), TextBefore(q, r)
  PROVE  TextBefore(p, r)
<1>1. PICK k \in DOMAIN p : p[k] < q[k] /\ \A j \in 1..(k - 1) : p[j] = q[j]
  BY DEF TextBefore
<1>2. PICK l \in DOMAIN q : q[l] < r[l] /\ \A j \in 1..(l - 1) : q[j] = r[j]
  BY DEF TextBefore
<1>3. k \in 1..Len(p) /\ l \in 1..Len(p) /\ DOMAIN p = 1..Len(p) /\ Len(p) \in Nat
  BY DEF Text
<1>4. \A j \in 1..Len(p) : p[j] \in Int /\ q[j] \in Int /\ r[j] \in Int
  BY DEF Text
<1>5. CASE k <= l
  <2>1. p[k] < r[k]
    <3>1. CASE k = l
      BY <3>1, <1>1, <1>2, <1>3, <1>4
    <3>2. CASE k < l
      <4>1. k \in 1..(l - 1)
        BY <3>2, <1>3
      <4>2. q[k] = r[k]
        BY <4>1, <1>2
      <4> QED BY <4>2, <1>1
    <3> QED BY <3>1, <3>2, <1>3, <1>5
  <2>2. \A j \in 1..(k - 1) : p[j] = r[j]
    BY <1>1, <1>2, <1>3, <1>5
  <2> QED BY <2>1, <2>2, <1>3 DEF TextBefore
<1>6. CASE l < k
  <2>1. p[l] < r[l]
    BY <1>1, <1>2, <1>3, <1>4, <1>6
  <2>2. \A j \in 1..(l - 1) : p[j] = r[j]
    BY <1>1, <1>2, <1>3, <1>6
  <2> QED BY <2>1, <2>2, <1>3 DEF TextBefore
<1> QED BY <1>3, <1>5, <1>6

LEMMA BeforeStrict ==
  ASSUME NEW a \in OwnerRec
  PROVE  ~Before(a, a)
<1>1. a.root \in Int /\ Len(a.path) \in Int /\ a.idx \in Int /\ a.path \in Text
  BY DEF OwnerRec, Text
<1> QED BY <1>1, TextStrict DEF Before

LEMMA BeforeTotal ==
  ASSUME NEW a \in OwnerRec, NEW b \in OwnerRec, a # b
  PROVE  Before(a, b) \/ Before(b, a)
<1>1. /\ a.root \in Int /\ Len(a.path) \in Int /\ a.idx \in Int /\ a.path \in Text
      /\ b.root \in Int /\ Len(b.path) \in Int /\ b.idx \in Int /\ b.path \in Text
  BY DEF OwnerRec, Text
<1>2. a.root # b.root \/ a.path # b.path \/ a.idx # b.idx
  BY DEF OwnerRec
<1>3. CASE a.root # b.root
  BY <1>1, <1>3 DEF Before
<1>4. CASE a.root = b.root /\ a.path # b.path
  <2>1. CASE Len(a.path) = Len(b.path)
    BY <2>1, <1>1, <1>4, TextTotal DEF Before
  <2>2. CASE Len(a.path) # Len(b.path)
    BY <2>2, <1>1, <1>4 DEF Before
  <2> QED BY <2>1, <2>2
<1>5. CASE a.root = b.root /\ a.path = b.path /\ a.idx # b.idx
  BY <1>1, <1>5 DEF Before
<1> QED BY <1>2, <1>3, <1>4, <1>5

\* The parts of the order, from the first to the last.
RootBefore(a, b) == a.root # b.root /\ (b.root = -1 \/ (a.root # -1 /\ a.root < b.root))
PathBefore(a, b) ==
  \/ Len(a.path) < Len(b.path)
  \/ Len(a.path) = Len(b.path) /\ TextBefore(a.path, b.path)

LEMMA BeforeParts ==
  ASSUME NEW a, NEW b
  PROVE  Before(a, b) <=> \/ RootBefore(a, b)
                          \/ a.root = b.root /\ PathBefore(a, b)
                          \/ a.root = b.root /\ a.path = b.path /\ a.idx < b.idx
BY DEF Before, RootBefore, PathBefore

LEMMA BeforeTransitive ==
  ASSUME NEW a \in OwnerRec, NEW b \in OwnerRec, NEW c \in OwnerRec, Before(a, b), Before(b, c)
  PROVE  Before(a, c)
<1>1. /\ a.root \in Nat \cup {-1} /\ Len(a.path) \in Int /\ a.idx \in Int /\ a.path \in Text
      /\ b.root \in Nat \cup {-1} /\ Len(b.path) \in Int /\ b.idx \in Int /\ b.path \in Text
      /\ c.root \in Nat \cup {-1} /\ Len(c.path) \in Int /\ c.idx \in Int /\ c.path \in Text
  BY DEF OwnerRec, Text
<1>2. CASE RootBefore(a, b) \/ RootBefore(b, c)
  <2>1. a.root = b.root \/ RootBefore(a, b)
    BY BeforeParts
  <2>2. b.root = c.root \/ RootBefore(b, c)
    BY BeforeParts
  <2>3. RootBefore(a, c)
    BY <1>1, <1>2, <2>1, <2>2 DEF RootBefore
  <2> QED BY <2>3, BeforeParts
<1>3. CASE ~RootBefore(a, b) /\ ~RootBefore(b, c)
  <2>1. a.root = b.root /\ (PathBefore(a, b) \/ (a.path = b.path /\ a.idx < b.idx))
    BY <1>3, BeforeParts
  <2>2. b.root = c.root /\ (PathBefore(b, c) \/ (b.path = c.path /\ b.idx < c.idx))
    BY <1>3, BeforeParts
  <2>3. CASE a.path = b.path /\ a.idx < b.idx /\ b.path = c.path /\ b.idx < c.idx
    BY <2>1, <2>2, <2>3, <1>1, BeforeParts
  <2>4. CASE PathBefore(a, b) /\ b.path = c.path
    BY <2>1, <2>2, <2>4, BeforeParts DEF PathBefore
  <2>5. CASE a.path = b.path /\ PathBefore(b, c)
    BY <2>1, <2>2, <2>5, BeforeParts DEF PathBefore
  <2>6. CASE PathBefore(a, b) /\ PathBefore(b, c)
    <3>1. CASE Len(a.path) = Len(b.path) /\ Len(b.path) = Len(c.path)
      <4>1. TextBefore(a.path, b.path) /\ TextBefore(b.path, c.path)
        BY <3>1, <2>6, <1>1 DEF PathBefore
      <4>2. TextBefore(a.path, c.path)
        BY <4>1, <3>1, <1>1, TextTransitive
      <4> QED BY <4>2, <3>1, <2>1, <2>2, BeforeParts DEF PathBefore
    <3>2. CASE Len(a.path) < Len(b.path) \/ Len(b.path) < Len(c.path)
      <4>1. Len(a.path) < Len(c.path)
        BY <3>2, <2>6, <1>1 DEF PathBefore
      <4> QED BY <4>1, <2>1, <2>2, BeforeParts DEF PathBefore
    <3> QED BY <3>1, <3>2, <2>6, <1>1 DEF PathBefore
  <2> QED BY <2>1, <2>2, <2>3, <2>4, <2>5, <2>6
<1> QED BY <1>2, <1>3

\* What stands between two owners of one subvolume that have one path has both too.
LEMMA BeforeBetween ==
  ASSUME NEW a \in OwnerRec, NEW b \in OwnerRec, NEW c \in OwnerRec,
         Before(a, b), Before(b, c), a.root = c.root, a.path = c.path
  PROVE  b.path = a.path
<1>1. /\ a.root \in Nat \cup {-1} /\ Len(a.path) \in Int /\ a.path \in Text
      /\ b.root \in Nat \cup {-1} /\ Len(b.path) \in Int /\ b.path \in Text
      /\ c.root \in Nat \cup {-1} /\ Len(c.path) \in Int /\ c.path \in Text
  BY DEF OwnerRec, Text
<1>2. a.root = b.root
  BY <1>1, BeforeParts DEF RootBefore
<1>3. ~RootBefore(a, b) /\ ~RootBefore(b, c)
  BY <1>2 DEF RootBefore
<1> SUFFICES ASSUME b.path # a.path PROVE FALSE
  OBVIOUS
<1>4. PathBefore(a, b) /\ PathBefore(b, c)
  BY <1>3, BeforeParts
<1>5. Len(a.path) = Len(b.path) /\ TextBefore(a.path, b.path) /\ TextBefore(b.path, a.path)
  BY <1>1, <1>4 DEF PathBefore
<1>6. TextBefore(a.path, a.path)
  BY <1>1, <1>5, TextTransitive
<1> QED BY <1>1, <1>6, TextStrict

-----------------------------------------------------------------------------
(* Sorting, and removing duplicates. *)

\* s is S in order.
InOrder(s, S) ==
  /\ s \in [1..Cardinality(S) -> S]
  /\ \A o \in S : \E i \in DOMAIN s : s[i] = o
  /\ \A i, j \in DOMAIN s : i < j => Before(s[i], s[j])

LEMMA SortedInOrder ==
  ASSUME NEW S, S \subseteq OwnerRec, IsFiniteSet(S)
  PROVE  InOrder(Sorted(S), S)
<1> DEFINE n == Cardinality(S)
           before(o) == {q \in S : Before(q, o)}
           f == [o \in S |-> Place(S, o)]
           s == Sorted(S)
<1>1. n \in Nat /\ IsFiniteSet(0..(n - 1)) /\ Cardinality(0..(n - 1)) = n
  <2>1. n \in Nat
    BY FS_CardinalityType
  <2>2. IsFiniteSet(0..(n - 1)) /\ Cardinality(0..(n - 1)) = IF 0 > n - 1 THEN 0 ELSE (n - 1) - 0 + 1
    BY <2>1, FS_Interval
  <2> QED BY <2>1, <2>2
<1>2. ASSUME NEW o \in S
      PROVE  IsFiniteSet(before(o)) /\ Cardinality(before(o)) \in 0..(n - 1)
  <2>1. before(o) \subseteq S \ {o}
    BY BeforeStrict
  <2>2. IsFiniteSet(S \ {o}) /\ Cardinality(S \ {o}) = n - 1
    BY FS_RemoveElement
  <2>3. IsFiniteSet(before(o)) /\ Cardinality(before(o)) <= n - 1
    BY <2>1, <2>2, FS_Subset
  <2>4. Cardinality(before(o)) \in Nat
    BY <2>3, FS_CardinalityType
  <2> QED BY <2>3, <2>4, <1>1
<1>3. ASSUME NEW a \in S, NEW b \in S, Before(a, b)
      PROVE  Cardinality(before(a)) < Cardinality(before(b))
  <2>1. a \notin before(a)
    BY BeforeStrict
  <2>2. before(a) \cup {a} \subseteq before(b)
    <3> SUFFICES ASSUME NEW q \in S, Before(q, a) PROVE Before(q, b)
      BY <1>3
    <3> QED BY <1>3, BeforeTransitive
  <2>3. IsFiniteSet(before(a)) /\ Cardinality(before(a)) \in Nat
    BY <1>2
  <2>4. IsFiniteSet(before(b)) /\ Cardinality(before(b)) \in Nat
    BY <1>2
  <2> HIDE DEF before
  <2>5. Cardinality(before(a) \cup {a}) = Cardinality(before(a)) + 1
    BY <2>1, <2>3, FS_AddElement
  <2>6. Cardinality(before(a) \cup {a}) <= Cardinality(before(b))
    BY <2>2, <2>4, FS_Subset
  <2> QED BY <2>3, <2>4, <2>5, <2>6
<1>4. \A o \in S : f[o] \in 0..(n - 1)
  BY <1>2 DEF Place
<1>5. \A a, b \in S : Before(a, b) => f[a] < f[b]
  BY <1>3 DEF Place
<1>6. /\ s = [i \in 1..n |-> CHOOSE o \in S : Place(S, o) = i - 1]
      /\ \A o \in S : f[o] = Place(S, o)
  BY DEF Sorted
<1>7. f \in [S -> 0..(n - 1)]
  BY <1>4
<1> HIDE DEF n, f, s, before
<1>8. \A a, b \in S : f[a] = f[b] => a = b
  <2> SUFFICES ASSUME NEW a \in S, NEW b \in S, f[a] = f[b], a # b PROVE FALSE
    OBVIOUS
  <2>1. Before(a, b) \/ Before(b, a)
    BY BeforeTotal
  <2> QED BY <2>1, <1>4, <1>5
<1>9. f \in Injection(S, 0..(n - 1))
  BY <1>7, <1>8 DEF Injection, IsInjective
<1>10. f \in Surjection(S, 0..(n - 1))
  BY <1>1, <1>9, FS_Injection DEF n
<1>11. \A i \in 1..n : \E o \in S : f[o] = i - 1
  <2> SUFFICES ASSUME NEW i \in 1..n PROVE \E o \in S : f[o] = i - 1
    OBVIOUS
  <2>1. i - 1 \in 0..(n - 1)
    BY <1>1
  <2> QED BY <2>1, <1>10 DEF Surjection
<1>12. \A i \in 1..n : s[i] \in S /\ f[s[i]] = i - 1
  BY <1>6, <1>11
<1>13. s \in [1..n -> S]
  BY <1>6, <1>12
<1>14. \A o \in S : \E i \in 1..n : s[i] = o
  <2> SUFFICES ASSUME NEW o \in S PROVE \E i \in 1..n : s[i] = o
    OBVIOUS
  <2>1. f[o] + 1 \in 1..n /\ (f[o] + 1) - 1 = f[o]
    BY <1>1, <1>4
  <2> QED BY <2>1, <1>8, <1>12
<1>15. \A i, j \in 1..n : i < j => Before(s[i], s[j])
  <2> SUFFICES ASSUME NEW i \in 1..n, NEW j \in 1..n, i < j PROVE Before(s[i], s[j])
    OBVIOUS
  <2>1. s[i] \in S /\ s[j] \in S /\ f[s[i]] = i - 1 /\ f[s[j]] = j - 1
    BY <1>12
  <2>2. s[i] # s[j] /\ ~(f[s[j]] < f[s[i]])
    BY <2>1, <1>1
  <2>3. ~Before(s[j], s[i])
    BY <2>1, <2>2, <1>5
  <2> QED BY <2>1, <2>2, <2>3, BeforeTotal
<1> QED BY <1>13, <1>14, <1>15 DEF InOrder, n, s

\* What dedup_by of the sorted owners S gives: all paths, in order; and each once, if
\* owners of one path are of one subvolume, so that they stand together.
LEMMA DedupFacts ==
  ASSUME NEW S, S \subseteq OwnerRec, IsFiniteSet(S), S # {}
  PROVE  LET d == Dedup(Sorted(S)) IN
         /\ \E n \in Nat \ {0} : d \in [1..n -> S]
         /\ \A o \in S : \E k \in DOMAIN d : d[k].path = o.path
         /\ \A i, j \in DOMAIN d : i < j => Before(d[i], d[j])
         /\ \A i, j \in DOMAIN d : d[i].path = d[j].path /\ d[i].root = d[j].root => i = j
<1> DEFINE s == Sorted(S)
           Kept == {s[i] : i \in {k \in DOMAIN s : ~Repeats(s, k)}}
           d == Dedup(s)
<1>1. InOrder(s, S)
  BY SortedInOrder
<1>2. d = Sorted(Kept)
  BY DEF Dedup
<1> HIDE DEF s, d
<1>3. Cardinality(S) \in Nat /\ DOMAIN s = 1..Cardinality(S) /\ \A i \in DOMAIN s : s[i] \in S
  BY <1>1, FS_CardinalityType DEF InOrder
<1>4. Kept \subseteq S
  BY <1>3
<1>5. IsFiniteSet(Kept)
  BY <1>4, FS_Subset
<1>6. ASSUME NEW o \in S PROVE \E x \in Kept : x.path = o.path
  <2> DEFINE T == {j \in DOMAIN s : s[j].path = o.path}
  <2>1. T \subseteq Nat /\ T # {}
    BY <1>1, <1>3 DEF InOrder
  <2>2. PICK j \in T : \A k \in T : j <= k
    BY <2>1, NatLeast
  <2>3. ~Repeats(s, j)
    <3> SUFFICES ASSUME j # 1, s[j].path = s[j - 1].path PROVE FALSE
      BY DEF Repeats
    <3>1. j - 1 \in DOMAIN s /\ j \in Nat
      BY <1>3
    <3>2. j - 1 \in T
      BY <3>1
    <3> QED BY <2>2, <3>1, <3>2
  <2> QED BY <2>3
<1>7. ASSUME NEW x \in Kept, NEW y \in Kept, Before(x, y), x.path = y.path, x.root = y.root
      PROVE  FALSE
  <2>1. PICK i \in DOMAIN s : s[i] = x
    OBVIOUS
  <2>2. PICK j \in DOMAIN s : s[j] = y /\ ~Repeats(s, j)
    OBVIOUS
  <2>3. i \in Nat /\ j \in Nat /\ i # j
    BY <1>3, <1>7, <2>1, <2>2, <1>4, BeforeStrict
  <2>4. ~(j < i)
    <3> SUFFICES ASSUME j < i PROVE FALSE
      OBVIOUS
    <3>1. Before(y, x)
      BY <1>1, <2>1, <2>2 DEF InOrder
    <3>2. x \in OwnerRec /\ y \in OwnerRec
      BY <1>4
    <3>3. Before(x, x)
      BY <1>7, <3>1, <3>2, BeforeTransitive
    <3> QED BY <3>2, <3>3, BeforeStrict
  <2>5. i < j /\ j - 1 \in DOMAIN s /\ j # 1 /\ (i = j - 1 \/ i < j - 1) /\ j - 1 < j
    BY <2>3, <2>4, <1>3
  <2>6. s[j - 1].path = x.path
    <3>1. CASE i = j - 1
      BY <3>1, <2>1
    <3>2. CASE i < j - 1
      <4>1. Before(x, s[j - 1]) /\ Before(s[j - 1], y)
        BY <3>2, <2>1, <2>2, <2>5, <1>1 DEF InOrder
      <4>2. x.root = y.root /\ x.path = y.path /\ x \in OwnerRec /\ y \in OwnerRec /\ s[j - 1] \in OwnerRec
        BY <1>3, <1>4, <1>7, <2>5
      <4> QED BY <4>1, <4>2, BeforeBetween
    <3> QED BY <3>1, <3>2, <2>5
  <2> QED BY <1>7, <2>2, <2>5, <2>6 DEF Repeats
<1> HIDE DEF Kept
<1>8. InOrder(d, Kept)
  BY <1>2, <1>4, <1>5, SortedInOrder
<1> DEFINE n == Cardinality(Kept)
<1>9. n \in Nat \ {0}
  <2>1. Kept # {}
    BY <1>6
  <2> QED BY <2>1, <1>5, FS_CardinalityType, FS_EmptySet
<1>10. d \in [1..n -> S] /\ DOMAIN d = 1..n
  BY <1>4, <1>8 DEF InOrder
<1>11. \A o \in S : \E k \in DOMAIN d : d[k].path = o.path
  <2> SUFFICES ASSUME NEW o \in S PROVE \E k \in DOMAIN d : d[k].path = o.path
    OBVIOUS
  <2>1. PICK x \in Kept : x.path = o.path
    BY <1>6
  <2>2. PICK k \in DOMAIN d : d[k] = x
    BY <1>8 DEF InOrder
  <2> QED BY <2>1, <2>2
<1>12. \A i, j \in DOMAIN d : i < j => Before(d[i], d[j])
  BY <1>8 DEF InOrder
<1>13. ASSUME NEW i \in DOMAIN d, NEW j \in DOMAIN d, d[i].path = d[j].path,
              d[i].root = d[j].root, i # j
       PROVE  FALSE
  <2>1. i \in Nat /\ j \in Nat /\ d[i] \in Kept /\ d[j] \in Kept
    BY <1>8, <1>9, <1>10 DEF InOrder
  <2>2. Before(d[i], d[j]) \/ Before(d[j], d[i])
    BY <2>1, <1>12, <1>13
  <2> QED BY <2>1, <2>2, <1>7, <1>13
<1> QED BY <1>9, <1>10, <1>11, <1>12, <1>13 DEF d, s

-----------------------------------------------------------------------------
(* Powers of two. *)

LEMMA AllNumbers ==
  ASSUME NEW T, 0 \in T, \A n \in Nat : n \in T => n + 1 \in T
  PROVE  Nat \subseteq T
<1> SUFFICES ASSUME Nat \ T # {} PROVE FALSE
  OBVIOUS
<1>1. PICK x \in Nat \ T : \A y \in Nat \ T : x <= y
  BY NatLeast
<1>2. x # 0 /\ x - 1 \in Nat /\ x - 1 < x /\ (x - 1) + 1 = x
  BY <1>1
<1>3. x - 1 \in T
  BY <1>1, <1>2
<1> QED BY <1>1, <1>2, <1>3

\* g begins as pow2 does, up to n.
Begins(g, n) ==
  /\ g \in [0..n -> Nat] /\ g[0] = 1
  /\ \A k \in 1..n : g[k] = 2 * g[k - 1]

LEMMA BeginsExists == \A n \in Nat : \E g : Begins(g, n)
<1> DEFINE T == {n \in Nat : \E g : Begins(g, n)}
<1>1. 0 \in T
  <2>1. Begins([k \in 0..0 |-> 1], 0)
    BY DEF Begins
  <2> QED BY <2>1
<1>2. ASSUME NEW n \in Nat, n \in T PROVE n + 1 \in T
  <2>1. PICK g : Begins(g, n)
    BY <1>2
  <2> DEFINE h == [k \in 0..(n + 1) |-> IF k = n + 1 THEN 2 * g[n] ELSE g[k]]
  <2>2. h \in [0..(n + 1) -> Nat] /\ h[0] = 1
    BY <2>1 DEF Begins
  <2>3. ASSUME NEW k \in 1..(n + 1) PROVE h[k] = 2 * h[k - 1]
    <3>1. CASE k = n + 1
      <4>1. k - 1 = n /\ n \in 0..(n + 1) /\ n # n + 1 /\ k \in 0..(n + 1)
        BY <3>1
      <4> QED BY <3>1, <4>1
    <3>2. CASE k # n + 1
      <4>1. k \in 1..n /\ k - 1 \in 0..(n + 1) /\ k - 1 # n + 1 /\ k \in 0..(n + 1)
        BY <3>2
      <4> QED BY <3>2, <4>1, <2>1 DEF Begins
    <3> QED BY <3>1, <3>2
  <2>4. Begins(h, n + 1)
    BY <2>2, <2>3 DEF Begins
  <2> QED BY <2>4
<1> HIDE DEF T
<1>3. Nat \subseteq T
  BY <1>1, <1>2, AllNumbers
<1> QED BY <1>3 DEF T

\* Up to n there is one such function.
LEMMA BeginsUnique ==
  ASSUME NEW m \in Nat, NEW n \in Nat, NEW g, NEW h, Begins(g, m), Begins(h, n), m <= n
  PROVE  \A k \in 0..m : g[k] = h[k]
<1> DEFINE T == {k \in Nat : k <= m => g[k] = h[k]}
<1>1. 0 \in T
  BY DEF Begins
<1>2. ASSUME NEW k \in Nat, k \in T PROVE k + 1 \in T
  <2> SUFFICES ASSUME k + 1 <= m PROVE g[k + 1] = h[k + 1]
    OBVIOUS
  <2>1. k + 1 \in 1..m /\ k + 1 \in 1..n /\ (k + 1) - 1 = k /\ k <= m
    OBVIOUS
  <2>2. g[k + 1] = 2 * g[k] /\ h[k + 1] = 2 * h[k]
    BY <2>1 DEF Begins
  <2> QED BY <1>2, <2>1, <2>2
<1> HIDE DEF T
<1>3. Nat \subseteq T
  BY <1>1, <1>2, AllNumbers
<1> QED BY <1>3 DEF T

LEMMA PowerDefined == pow2 = [k \in Nat |-> IF k = 0 THEN 1 ELSE 2 * pow2[k - 1]]
<1> DEFINE first(n) == CHOOSE g : Begins(g, n)
           f == [k \in Nat |-> first(k)[k]]
<1>1. \A n \in Nat : Begins(first(n), n)
  BY BeginsExists
<1> HIDE DEF first
<1>2. ASSUME NEW k \in Nat PROVE f[k] = IF k = 0 THEN 1 ELSE 2 * f[k - 1]
  <2>1. CASE k = 0
    BY <2>1, <1>1 DEF Begins
  <2>2. CASE k # 0
    <3>1. k - 1 \in Nat /\ k - 1 <= k /\ k \in 1..k /\ k - 1 \in 0..(k - 1)
      BY <2>2
    <3>2. first(k)[k] = 2 * first(k)[k - 1]
      BY <1>1, <3>1 DEF Begins
    <3>3. first(k - 1)[k - 1] = first(k)[k - 1]
      BY <1>1, <3>1, BeginsUnique
    <3> QED BY <2>2, <3>1, <3>2, <3>3
  <2> QED BY <2>1, <2>2
<1>3. \E e : e = [k \in Nat |-> IF k = 0 THEN 1 ELSE 2 * e[k - 1]]
  <2>1. f = [k \in Nat |-> IF k = 0 THEN 1 ELSE 2 * f[k - 1]]
    BY <1>2
  <2> HIDE DEF f
  <2> QED BY <2>1
<1> QED BY <1>3 DEF pow2

LEMMA PowerFacts ==
  /\ pow2[0] = 1
  /\ \A k \in Nat : pow2[k] \in Nat \ {0} /\ pow2[k + 1] = 2 * pow2[k] /\ k < pow2[k]
<1>1. pow2[0] = 1
  BY PowerDefined
<1>2. \A k \in Nat : pow2[k + 1] = 2 * pow2[k]
  <2> SUFFICES ASSUME NEW k \in Nat PROVE pow2[k + 1] = 2 * pow2[k]
    OBVIOUS
  <2>1. k + 1 \in Nat /\ k + 1 # 0 /\ (k + 1) - 1 = k
    OBVIOUS
  <2> QED BY <2>1, PowerDefined
<1> DEFINE T == {k \in Nat : pow2[k] \in Nat \ {0} /\ k < pow2[k]}
<1>3. 0 \in T
  BY <1>1
<1>4. \A k \in Nat : k \in T => k + 1 \in T
  BY <1>2
<1> HIDE DEF T
<1>5. Nat \subseteq T
  BY <1>3, <1>4, AllNumbers
<1> QED BY <1>1, <1>2, <1>5 DEF T

LEMMA PowersApart ==
  \A i, j \in Nat : i < j => 2 * pow2[i] <= pow2[j]
<1> SUFFICES ASSUME NEW i \in Nat PROVE \A j \in Nat : i < j => 2 * pow2[i] <= pow2[j]
  OBVIOUS
<1> DEFINE T == {j \in Nat : i < j => 2 * pow2[i] <= pow2[j]}
<1>1. 0 \in T
  OBVIOUS
<1>2. ASSUME NEW j \in Nat, j \in T PROVE j + 1 \in T
  <2>1. pow2[i] \in Nat /\ pow2[j] \in Nat /\ pow2[j + 1] = 2 * pow2[j]
    BY PowerFacts
  <2>2. i < j + 1 => i = j \/ i < j
    OBVIOUS
  <2> QED BY <1>2, <2>1, <2>2
<1> HIDE DEF T
<1>3. Nat \subseteq T
  BY <1>1, <1>2, AllNumbers
<1> QED BY <1>3 DEF T

\* Of two powers of two the larger is at least twice the smaller.
LEMMA PowerDoubles ==
  ASSUME NEW a \in Nat, NEW b \in Nat, IsPow2(a), IsPow2(b), a < b
  PROVE  2 * a <= b
<1>1. PICK i \in 0..a : a = pow2[i]
  BY DEF IsPow2
<1>2. PICK j \in 0..b : b = pow2[j]
  BY DEF IsPow2
<1>3. i < j
  <2> SUFFICES ASSUME j <= i PROVE FALSE
    OBVIOUS
  <2>1. CASE j = i
    BY <1>1, <1>2, <2>1
  <2>2. CASE j < i
    BY <1>1, <1>2, <2>2, PowersApart, PowerFacts
  <2> QED BY <2>1, <2>2
<1> QED BY <1>1, <1>2, <1>3, PowersApart

LEMMA NextPower ==
  ASSUME NEW n \in Nat
  PROVE  /\ next_power_of_two(n) \in Nat
         /\ n <= next_power_of_two(n)
         /\ IsPow2(next_power_of_two(n))
<1> DEFINE T == {k \in 0..n : n <= pow2[k]}
           P == {pow2[k] : k \in 0..n}
           Least(p) == n <= p /\ \A k \in 0..n : n <= pow2[k] => p <= pow2[k]
<1>1. T # {} /\ T \subseteq Nat
  BY PowerFacts
<1>2. PICK k \in T : \A j \in T : k <= j
  BY <1>1, NatLeast
<1>3. pow2[k] \in P /\ Least(pow2[k])
  <2>1. ASSUME NEW j \in 0..n, n <= pow2[j] PROVE pow2[k] <= pow2[j]
    <3>1. k <= j
      BY <1>2, <2>1
    <3>2. CASE k = j
      BY <3>2, PowerFacts
    <3>3. CASE k < j
      BY <3>3, PowersApart, PowerFacts
    <3> QED BY <3>1, <3>2, <3>3
  <2> QED BY <2>1
<1>4. next_power_of_two(n) = CHOOSE p \in P : Least(p)
  BY DEF next_power_of_two
<1>5. next_power_of_two(n) \in P /\ Least(next_power_of_two(n))
  BY <1>3, <1>4
<1>6. PICK j \in 0..n : next_power_of_two(n) = pow2[j]
  BY <1>5
<1>7. pow2[j] \in Nat /\ j \in 0..pow2[j]
  BY PowerFacts
<1> QED BY <1>5, <1>6, <1>7 DEF IsPow2

-----------------------------------------------------------------------------
(* The type invariant, and what holds of the owners found so far. *)

Buckets(r) == {UnreachableSubvol(r.root), Unlinked, InoPathsError}

\* An owner is the bucket of a reference, or a path of the reference it points to where
\* the subvolume of that was found.
OwnerFits(o) ==
  \/ \E i \in 1..(at - 1) : \E b \in Buckets(refs[i]) : o = Special(b)
  \/ \E l \in looked : l[1] = o.idx /\ o.root = refs[l[1]].root /\ o.path \in PathsAt(l)

\* What was looked up is one of the references before the current one, and marked.
LookedUp(l) == l[1] \in 1..(at - 1) /\ (l[2] # <<>> => l[2] \in subvols)

Found ==
  /\ pc = "ioctl" => refs = <<>> /\ owners = {} /\ looked = {} /\ at = 1
  /\ pc = "owners" => refs # <<>>
  /\ IsFiniteSet(owners) /\ owners \subseteq OwnerRec
  /\ \A o \in owners : OwnerFits(o)
  /\ \A l \in looked : LookedUp(l)

\* No reference already looked at is without an owner.
OwnerOf(o, i) == o.path \in Buckets(refs[i]) \/ \E l \in looked : l[1] = i /\ o.path \in PathsAt(l)
Looked == \A i \in 1..(at - 1) : \E o \in owners : OwnerOf(o, i)

TInv == TypeOK /\ Found /\ Looked

LEMMA RefFacts ==
  ASSUME NEW r \in Ref
  PROVE  /\ r.root \in Nat /\ r.inum \in Nat /\ <<r.root, r.inum>> \in Inode
         /\ SvPath[r.root] \subseteq Seq(Nat)
         /\ LinkPath[<<r.root, r.inum>>] \subseteq Seq(Nat)
         /\ IsFiniteSet(LinkPath[<<r.root, r.inum>>])
<1>1. r.root \in Nat /\ r.inum \in Nat /\ <<r.root, r.inum>> \in Inode
  BY ResolveAssumption DEF Inode
<1> DEFINE i == <<r.root, r.inum>>
<1>2. i[1] = r.root /\ i \in Inode
  BY <1>1
<1> HIDE DEF i
<1>3. SvPath[r.root] \subseteq Seq(Nat) /\ LinkPath[i] \subseteq Seq(Nat) /\ IsFiniteSet(LinkPath[i])
  BY <1>2, ResolveAssumption
<1> QED BY <1>1, <1>3 DEF i

LEMMA NoNegative ==
  ASSUME NEW p \in Seq(Nat)
  PROVE  p \in Text /\ ~IsBucket(p)
<1>1. p \in Text
  BY DEF Text
<1>2. p # <<>> => p[1] \in Nat
  OBVIOUS
<1> QED BY <1>1, <1>2 DEF IsBucket

LEMMA PathsFacts ==
  ASSUME TypeOK, NEW l \in looked, NEW q \in PathsAt(l)
  PROVE  q \in Seq(Nat) /\ q \in Text /\ ~IsBucket(q)
<1> DEFINE r == refs[l[1]]
<1>1. r \in Ref /\ l[2] \in SvPath[r.root]
  BY DEF TypeOK
<1>2. PICK p \in LinkPath[<<r.root, r.inum>>] : q = l[2] \o p
  BY DEF PathsAt, join_path
<1>3. p \in Seq(Nat) /\ l[2] \in Seq(Nat)
  BY <1>1, RefFacts
<1>4. q \in Seq(Nat)
  BY <1>2, <1>3
<1> QED BY <1>4, NoNegative

BucketPath(b) == b \in Text /\ b # <<>> /\ b[1] < 0

LEMMA BucketFacts ==
  ASSUME NEW r \in Ref, NEW b \in Buckets(r) \cup {TooManyOwners}
  PROVE  /\ BucketPath(b) /\ IsBucket(b)
         /\ Special(b) \in OwnerRec
         /\ Special(b).root = -1 /\ Special(b).path = b /\ Special(b).idx = 0
<1>1. r.root \in Nat
  BY RefFacts
<1>2. b \in Text /\ b # <<>> /\ b[1] < 0
  <2>1. CASE b = UnreachableSubvol(r.root)
    BY <1>1, <2>1 DEF UnreachableSubvol, Text
  <2>2. CASE b = Unlinked
    BY <2>2 DEF Unlinked, Text
  <2>3. CASE b = InoPathsError
    BY <2>3 DEF InoPathsError, Text
  <2>4. CASE b = TooManyOwners
    BY <2>4 DEF TooManyOwners, Text
  <2> QED BY <2>1, <2>2, <2>3, <2>4 DEF Buckets
<1> QED BY <1>2 DEF BucketPath, IsBucket, Special, OwnerRec, NoIdx

LEMMA RefsTyped ==
  ASSUME TypeOK, NEW i \in 1..Len(refs)
  PROVE  refs[i] \in Ref
BY DEF TypeOK

\* An owner in hand is a bucket, or a path with its reference.
BucketOwner(o) == o.root = -1 /\ o.idx = NoIdx /\ BucketPath(o.path) /\ IsBucket(o.path)
PathOwner(o) ==
  /\ o.idx \in 1..(at - 1) /\ refs[o.idx] \in Ref
  /\ o.root = refs[o.idx].root /\ o.root \in Nat
  /\ o.path \in Seq(Nat) /\ ~IsBucket(o.path)
  /\ \E l \in looked : l[1] = o.idx /\ o.path \in PathsAt(l)

LEMMA OwnerKinds ==
  ASSUME TInv, pc = "owners", NEW o \in owners \cup Rest
  PROVE  o \in OwnerRec /\ (BucketOwner(o) \/ (o \in owners /\ PathOwner(o)))
<1>1. \A i \in 1..(at - 1) : i \in 1..Len(refs) /\ refs[i] \in Ref
  <2> SUFFICES ASSUME NEW i \in 1..(at - 1) PROVE i \in 1..Len(refs) /\ refs[i] \in Ref
    OBVIOUS
  <2>1. Len(refs) \in Nat /\ at \in 1..(Len(refs) + 1)
    BY DEF TInv, TypeOK
  <2> QED BY <2>1, RefsTyped DEF TInv
<1>2. PICK r \in Ref : TRUE
  <2>1. 1 \in 1..Len(refs)
    BY DEF TInv, TypeOK, Found
  <2> QED BY <2>1, RefsTyped DEF TInv
<1>3. CASE o \in Rest
  <2>1. o = Special(TooManyOwners)
    BY <1>3 DEF Rest
  <2> QED BY <2>1, <1>2, BucketFacts DEF BucketOwner, NoIdx
<1>4. ASSUME NEW i \in 1..(at - 1), NEW b \in Buckets(refs[i]), o = Special(b)
      PROVE  o \in OwnerRec /\ BucketOwner(o)
  BY <1>1, <1>4, BucketFacts DEF BucketOwner, NoIdx
<1>5. ASSUME o \in owners, NEW l \in looked,
             l[1] = o.idx, o.root = refs[l[1]].root, o.path \in PathsAt(l)
      PROVE  o \in OwnerRec /\ PathOwner(o)
  <2>1. o.idx \in 1..(at - 1) /\ o \in OwnerRec /\ TypeOK
    BY <1>5 DEF TInv, Found, LookedUp
  <2>2. refs[o.idx] \in Ref /\ o.root = refs[o.idx].root
    BY <1>1, <1>5, <2>1
  <2>3. o.root \in Nat
    BY <2>2, RefFacts
  <2>4. o.path \in Seq(Nat) /\ ~IsBucket(o.path)
    BY <1>5, <2>1, PathsFacts
  <2> QED BY <1>5, <2>1, <2>2, <2>3, <2>4 DEF PathOwner
<1>6. o \in owners => OwnerFits(o)
  BY DEF TInv, Found
<1> QED BY <1>3, <1>4, <1>5, <1>6 DEF OwnerFits

LEMMA BucketNoPath ==
  ASSUME NEW b, BucketPath(b), NEW p \in Seq(Nat)
  PROVE  b # p
<1>1. p # <<>> => p[1] \in Nat
  OBVIOUS
<1> QED BY <1>1 DEF BucketPath

\* What Finish sorts.
LEMMA AllOwners ==
  ASSUME TInv, pc = "owners", at > Len(refs)
  PROVE  /\ owners \cup Rest \subseteq OwnerRec /\ IsFiniteSet(owners \cup Rest)
         /\ owners # {} /\ at - 1 = Len(refs)
         /\ \A a, b \in owners \cup Rest :
              a.path = b.path /\ a.root # b.root => PathOwner(a) /\ PathOwner(b)
<1>1. at - 1 = Len(refs) /\ Len(refs) \in Nat \ {0} /\ 1 \in 1..(at - 1)
  BY DEF TInv, TypeOK, Found
<1>2. owners # {}
  BY <1>1 DEF TInv, Looked
<1>3. owners \cup Rest \subseteq OwnerRec
  BY OwnerKinds
<1>4. IsFiniteSet(owners \cup Rest)
  <2>1. IsFiniteSet(Rest)
    BY FS_Singleton, FS_EmptySet DEF Rest
  <2>2. IsFiniteSet(owners)
    BY DEF TInv, Found
  <2> QED BY <2>1, <2>2, FS_Union
<1>5. ASSUME NEW a \in owners \cup Rest, NEW b \in owners \cup Rest, a.path = b.path,
             a.root # b.root
      PROVE  PathOwner(a) /\ PathOwner(b)
  <2>1. CASE BucketOwner(a) /\ BucketOwner(b)
    BY <2>1, <1>5 DEF BucketOwner
  <2>2. CASE PathOwner(a) /\ PathOwner(b)
    BY <2>2
  <2>3. CASE BucketOwner(a) /\ PathOwner(b)
    BY <2>3, <1>5, BucketNoPath DEF BucketOwner, PathOwner
  <2>4. CASE PathOwner(a) /\ BucketOwner(b)
    BY <2>4, <1>5, BucketNoPath DEF BucketOwner, PathOwner
  <2> QED BY <2>1, <2>2, <2>3, <2>4, OwnerKinds
<1> QED BY <1>1, <1>2, <1>3, <1>4, <1>5

\* The answer of Finish: the paths of the owners found, sorted and without duplicates.
Finished(d, found) ==
  /\ d = Dedup(Sorted(owners \cup Rest))
  /\ found \in ratio(RatioRef(d[1]))
  /\ sample' = [owners |-> [i \in DOMAIN d |-> d[i].path], subvols |-> subvols, ratio |-> found]

LEMMA FinishFacts ==
  ASSUME TInv, Finish
  PROVE  \E d, found : \E n \in Nat \ {0} :
           /\ Finished(d, found)
           /\ d \in [1..n -> owners \cup Rest]
           /\ sample'.owners \in Seq(Text) /\ Len(sample'.owners) = n
           /\ \A i \in 1..n : sample'.owners[i] = d[i].path
           /\ \A o \in owners \cup Rest : \E k \in 1..n : d[k].path = o.path
           /\ \A i, j \in 1..n : i < j => Before(d[i], d[j])
           /\ \A i, j \in 1..n : d[i].path = d[j].path /\ d[i].root = d[j].root => i = j
           /\ found = NoRef \/ found = RatioRef(d[1])
<1> DEFINE S == owners \cup Rest
           d == Dedup(Sorted(S))
<1>1. pc = "owners" /\ at > Len(refs)
  BY DEF Finish
<1>2. PICK found \in ratio(RatioRef(d[1])) :
        sample' = [owners |-> [i \in DOMAIN d |-> d[i].path], subvols |-> subvols, ratio |-> found]
  BY DEF Finish, Answer
<1>3. S \subseteq OwnerRec /\ IsFiniteSet(S) /\ S # {}
  BY <1>1, AllOwners
<1>4. Finished(d, found)
  BY <1>2 DEF Finished
<1> HIDE DEF S
<1>5. /\ \E n \in Nat \ {0} : d \in [1..n -> S]
      /\ \A o \in S : \E k \in DOMAIN d : d[k].path = o.path
      /\ \A i, j \in DOMAIN d : i < j => Before(d[i], d[j])
      /\ \A i, j \in DOMAIN d : d[i].path = d[j].path /\ d[i].root = d[j].root => i = j
  BY <1>3, DedupFacts
<1> HIDE DEF d
<1>6. PICK n \in Nat \ {0} : d \in [1..n -> S]
  BY <1>5
<1>7. DOMAIN d = 1..n
  BY <1>6
<1>8. sample'.owners = [i \in 1..n |-> d[i].path]
  BY <1>2, <1>7
<1>9. \A i \in 1..n : d[i].path \in Text
  BY <1>3, <1>6 DEF OwnerRec
<1>10. sample'.owners \in Seq(Text) /\ Len(sample'.owners) = n
  BY <1>8, <1>9
<1>11. found = NoRef \/ found = RatioRef(d[1])
  BY <1>2 DEF ratio
<1> QED BY <1>4, <1>5, <1>6, <1>7, <1>8, <1>10, <1>11 DEF S

LEMMA TInvInit == Init => TInv
<1> SUFFICES ASSUME Init PROVE TInv
  OBVIOUS
<1>1. buf \in MinBuf..MaxBuf /\ Len(refs) = 0 /\ refs \in Seq(Ref)
  BY ResolveAssumption DEF Init
<1>2. sample.owners # <<>> /\ sample.ratio = NoRef
  BY DEF Init, Bucket
<1>3. at \in 1..(Len(refs) + 1)
  BY <1>1 DEF Init
<1>4. pc \in {"idle", "ioctl", "owners"} /\ owners = {} /\ looked = {} /\ truncated = FALSE
      /\ unlisted = FALSE /\ retries \in Nat
  BY DEF Init
<1>5. TypeOK
  BY <1>1, <1>2, <1>3, <1>4 DEF TypeOK
<1>6. Found /\ Looked
  BY FS_EmptySet DEF Init, Found, Looked
<1> QED BY <1>5, <1>6 DEF TInv

LEMMA FreshFacts ==
  ASSUME Fresh, pc' \in {"idle", "ioctl"}
  PROVE  /\ Len(refs') = 0 /\ refs' \in Seq(Ref) /\ truncated' = FALSE /\ at' = 1
         /\ owners' = {} /\ looked' = {} /\ unlisted' = FALSE /\ retries' = 0
         /\ Found' /\ Looked'
BY FS_EmptySet DEF Fresh, Found, Looked

\* A sample of one bucket.
LEMMA BucketTyped ==
  ASSUME NEW b
  PROVE  Bucket(b).owners # <<>> /\ Bucket(b).ratio = NoRef
BY DEF Bucket

\* The references there are, and how many of them do not fit.
LEMMA SharedFacts ==
  ASSUME TypeOK, NEW shared \in SUBSET Ref
  PROVE  /\ IsFiniteSet(shared) /\ Cardinality(shared) \in Nat
         /\ Missing(shared) \in Nat
         /\ buf \in Nat /\ MaxBuf \in Nat /\ buf <= MaxBuf /\ MinBuf <= buf /\ MinBuf \in Nat
<1>1. IsFiniteSet(shared) /\ Cardinality(shared) \in Nat
  BY ResolveAssumption, FS_Subset, FS_CardinalityType
<1>2. buf \in Nat /\ MaxBuf \in Nat /\ buf <= MaxBuf /\ MinBuf <= buf /\ MinBuf \in Nat
  BY ResolveAssumption DEF TypeOK
<1> QED BY <1>1, <1>2 DEF Missing

\* A repetition has a larger buffer.
LEMMA WantFacts ==
  ASSUME TypeOK, NEW shared \in SUBSET Ref, Retry(shared)
  PROVE  /\ Want(shared) \in Nat /\ buf < Want(shared) /\ Want(shared) <= MaxBuf
         /\ IsPow2(Want(shared))
<1> DEFINE n == buf + Missing(shared)
<1>1. n \in Nat /\ buf < n /\ buf < MaxBuf /\ buf \in Nat /\ MaxBuf \in Nat
  BY SharedFacts DEF Retry
<1> HIDE DEF n
<1>2. next_power_of_two(n) \in Nat /\ n <= next_power_of_two(n) /\ IsPow2(next_power_of_two(n))
  BY <1>1, NextPower
<1>3. Want(shared) = IF next_power_of_two(n) < MaxBuf THEN next_power_of_two(n) ELSE MaxBuf
  BY DEF Want, AtMost, n
<1>4. IsPow2(MaxBuf)
  BY ResolveAssumption
<1> QED BY <1>1, <1>2, <1>3, <1>4

\* What the kernel puts into the buffer.
LEMMA DecodedRefs ==
  ASSUME TypeOK, NEW shared \in SUBSET Ref, NEW n, NEW S \in kSubset(n, shared),
         NEW s \in SetToSeqs(S)
  PROVE  s \in Seq(Ref) /\ Len(s) = n
<1>1. S \in SUBSET shared /\ Cardinality(S) = n
  BY DEF kSubset
<1>2. n \in Nat
  BY <1>1, SharedFacts, FS_Subset, FS_CardinalityType
<1>3. s \in [1..n -> S]
  BY <1>1 DEF SetToSeqs
<1> QED BY <1>1, <1>2, <1>3

\* The paths of a lookup depend on the references only.
LEMMA PathsKept ==
  ASSUME UNCHANGED refs
  PROVE  \A l : PathsAt(l)' = PathsAt(l)
BY DEF PathsAt

\* While the references are looked at no more, what was found stays.
LEMMA FoundKept ==
  ASSUME Found, Looked, UNCHANGED <<refs, owners, looked, subvols, at>>, pc' \in {pc, "idle"}
  PROVE  Found' /\ Looked'
<1>1. \A l : PathsAt(l)' = PathsAt(l)
  BY PathsKept
<1>2. \A o : OwnerFits(o) => OwnerFits(o)'
  BY <1>1 DEF OwnerFits
<1>3. \A l : LookedUp(l) => LookedUp(l)'
  BY DEF LookedUp
<1>4. \A o, i : OwnerOf(o, i) => OwnerOf(o, i)'
  BY <1>1 DEF OwnerOf
<1>5. Found'
  BY <1>2, <1>3 DEF Found
<1>6. Looked'
  BY <1>4 DEF Looked
<1> QED BY <1>5, <1>6

\* Owners that are added for the reference at hand.
LEMMA AddedOwners ==
  ASSUME TInv, Owner, NEW New, owners' = owners \cup New, New # {}, IsFiniteSet(New),
         subvols \subseteq subvols', looked \subseteq looked',
         \A l \in looked' : l \in looked \/ (l[1] = at /\ (l[2] # <<>> => l[2] \in subvols')),
         \A o \in New :
           /\ o \in OwnerRec
           /\ \/ \E b \in Buckets(refs[at]) : o = Special(b) /\ o.path = b
              \/ \E l \in looked' : l[1] = at /\ o.idx = at /\ o.root = refs[at].root
                                    /\ o.path \in PathsAt(l)
  PROVE  Found' /\ Looked'
<1>1. /\ pc = "owners" /\ at \in 1..Len(refs) /\ at' = at + 1 /\ Len(refs) \in Nat
      /\ UNCHANGED <<pc, refs>>
  BY DEF Owner, TInv, TypeOK
<1>t. \A l : PathsAt(l)' = PathsAt(l)
  BY <1>1 DEF PathsAt
<1>2. IsFiniteSet(owners') /\ owners' \subseteq OwnerRec
  BY FS_Union DEF TInv, Found
<1>3. at' - 1 = at /\ (at - 1) + 1 = at /\ at \in 1..(at' - 1) /\ at - 1 \in Nat
      /\ \A i \in 1..(at - 1) : i \in 1..(at' - 1)
  BY <1>1
<1>4. ASSUME NEW o \in owners PROVE OwnerFits(o)'
  <2>1. CASE \E i \in 1..(at - 1) : \E b \in Buckets(refs[i]) : o = Special(b)
    BY <2>1, <1>1, <1>3 DEF OwnerFits
  <2>2. CASE \E l \in looked : l[1] = o.idx /\ o.root = refs[l[1]].root /\ o.path \in PathsAt(l)
    BY <2>2, <1>1, <1>t DEF OwnerFits
  <2> QED BY <2>1, <2>2 DEF OwnerFits, TInv, Found
<1>5. ASSUME NEW o \in New PROVE OwnerFits(o)'
  <2>1. CASE \E b \in Buckets(refs[at]) : o = Special(b)
    BY <2>1, <1>1, <1>3 DEF OwnerFits
  <2>2. CASE \E l \in looked' : l[1] = at /\ o.idx = at /\ o.root = refs[at].root
                                /\ o.path \in PathsAt(l)
    BY <2>2, <1>1, <1>t DEF OwnerFits
  <2> QED BY <2>1, <2>2
<1>6. ASSUME NEW l \in looked' PROVE LookedUp(l)'
  <2>1. CASE l \in looked
    BY <2>1, <1>3 DEF LookedUp, TInv, Found
  <2>2. CASE l[1] = at /\ (l[2] # <<>> => l[2] \in subvols')
    BY <2>2, <1>3 DEF LookedUp
  <2> QED BY <1>6, <2>1, <2>2
<1>7. Found'
  BY <1>1, <1>2, <1>4, <1>5, <1>6 DEF Found, TInv
<1>8. ASSUME NEW i \in 1..(at' - 1) PROVE \E o \in owners' : OwnerOf(o, i)'
  <2>1. CASE i = at
    <3>1. PICK o \in New : TRUE
      OBVIOUS
    <3>2. OwnerOf(o, i)'
      BY <1>1, <1>t, <2>1 DEF OwnerOf
    <3> QED BY <1>1, <3>1, <3>2
  <2>2. CASE i # at
    <3>1. i \in 1..(at - 1)
      BY <2>2, <1>1
    <3>2. PICK o \in owners : OwnerOf(o, i)
      BY <3>1 DEF TInv, Looked
    <3>3. OwnerOf(o, i)'
      BY <1>1, <1>t, <3>2 DEF OwnerOf
    <3> QED BY <3>3
  <2> QED BY <2>1, <2>2
<1>9. Looked'
  BY <1>8 DEF Looked
<1> QED BY <1>7, <1>9

\* The owners of one listed reference, from the paths that fit the buffer.
OwnersOf(r, sv, paths) ==
  {[root |-> r.root, path |-> join_path(sv, p), idx |-> at] : p \in paths}

LEMMA ListedFacts ==
  ASSUME TInv, Owner, NEW sv, Listed(refs[at], sv)
  PROVE  \E here, paths :
           /\ here \in SUBSET LinkPath[<<refs[at].root, refs[at].inum>>] /\ paths \in SUBSET here
           /\ paths # {} /\ IsFiniteSet(here) /\ IsFiniteSet(paths)
           /\ paths # here => Cardinality(paths) = PathSlots
           /\ owners' = owners \cup OwnersOf(refs[at], sv, paths)
           /\ unlisted' = (unlisted \/ paths # here)
           /\ IsFiniteSet(OwnersOf(refs[at], sv, paths))
<1> DEFINE r == refs[at]
<1>1. r \in Ref
  BY DEF TInv, TypeOK, Owner
<1>2. PICK here \in (SUBSET LinkPath[<<r.root, r.inum>>]) \ {{}} : \E paths \in ino_paths(here) :
        /\ owners' = owners \cup {[root |-> r.root, path |-> join_path(sv, p), idx |-> at] :
                                   p \in paths}
        /\ unlisted' = (unlisted \/ paths # here)
  BY DEF Listed
<1>3. PICK paths \in ino_paths(here) :
        /\ owners' = owners \cup {[root |-> r.root, path |-> join_path(sv, p), idx |-> at] :
                                   p \in paths}
        /\ unlisted' = (unlisted \/ paths # here)
  BY <1>2
<1>4. IsFiniteSet(here) /\ here # {}
  <2> DEFINE links == LinkPath[<<r.root, r.inum>>]
  <2>1. IsFiniteSet(links)
    BY <1>1, RefFacts
  <2>2. here \in SUBSET links /\ here # {}
    BY <1>2
  <2> HIDE DEF links
  <2> QED BY <2>1, <2>2, FS_Subset
<1>5. Cardinality(here) \in Nat \ {0} /\ PathSlots \in Nat \ {0}
  BY <1>4, FS_CardinalityType, FS_EmptySet, ResolveAssumption
<1>6. paths \in SUBSET here /\ Cardinality(paths) = AtMost(Cardinality(here), PathSlots)
  BY <1>3 DEF ino_paths, kSubset
<1>7. IsFiniteSet(paths) /\ (Cardinality(paths) = Cardinality(here) => paths = here)
  BY <1>4, <1>6, FS_Subset
<1>8. Cardinality(paths) # 0 /\ (paths # here => Cardinality(paths) = PathSlots)
  BY <1>5, <1>6, <1>7 DEF AtMost
<1>9. paths # {}
  BY <1>8, FS_EmptySet
<1>10. IsFiniteSet(OwnersOf(r, sv, paths))
  <2> DEFINE g == [p \in paths |-> [root |-> r.root, path |-> join_path(sv, p), idx |-> at]]
  <2>1. g \in Surjection(paths, OwnersOf(r, sv, paths))
    BY DEF Surjection, OwnersOf
  <2> HIDE DEF g
  <2> QED BY <2>1, <1>7, FS_Surjection
<1> QED BY <1>2, <1>3, <1>4, <1>6, <1>7, <1>8, <1>9, <1>10 DEF OwnersOf

LEMMA OwnerStep ==
  ASSUME TInv, Owner
  PROVE  TInv'
<1> DEFINE r == refs[at]
<1>1. /\ r \in Ref /\ at \in 1..Len(refs) /\ Len(refs) \in Nat /\ at' = at + 1
      /\ UNCHANGED <<pc, buf, refs, truncated, sample, retries>>
  BY DEF TInv, TypeOK, Owner
<1>t. \A l \in looked : l[1] \in DOMAIN refs /\ l[2] \in SvPath[refs[l[1]].root]
  BY DEF TInv, TypeOK
<1>2. /\ Found' /\ Looked' /\ unlisted' \in BOOLEAN
      /\ \A l \in looked' : l[1] \in DOMAIN refs /\ l[2] \in SvPath[refs[l[1]].root]
  <2>1. CASE Unresolved(r) /\ UNCHANGED <<subvols, looked, unlisted>>
    <3>1. PICK b \in Buckets(r) : owners' = owners \cup {Special(b)}
      BY <2>1 DEF Unresolved, Buckets
    <3>2. Special(b) \in OwnerRec /\ Special(b).path = b
      BY <1>1, BucketFacts
    <3> DEFINE New == {Special(b)}
    <3>3. /\ New # {} /\ IsFiniteSet(New) /\ owners' = owners \cup New
          /\ \A o \in New : o = Special(b)
      BY <3>1, FS_Singleton
    <3> HIDE DEF New
    <3>4. Found' /\ Looked'
      BY <2>1, <3>1, <3>2, <3>3, AddedOwners
    <3>5. unlisted' \in BOOLEAN
      BY <2>1 DEF TInv, TypeOK
    <3> QED BY <2>1, <1>t, <3>4, <3>5
  <2>2. ASSUME NEW sv \in SvPath[r.root], Listed(r, sv)
        PROVE  /\ Found' /\ Looked' /\ unlisted' \in BOOLEAN
               /\ \A l \in looked' : l[1] \in DOMAIN refs /\ l[2] \in SvPath[refs[l[1]].root]
    <3>1. PICK here, paths :
             /\ here \in SUBSET LinkPath[<<r.root, r.inum>>] /\ paths \in SUBSET here
             /\ paths # {}
             /\ owners' = owners \cup OwnersOf(r, sv, paths)
             /\ unlisted' = (unlisted \/ paths # here)
             /\ IsFiniteSet(OwnersOf(r, sv, paths))
      BY <2>2, ListedFacts
    <3> DEFINE New == OwnersOf(r, sv, paths)
               now == <<at, sv>>
    <3>2. subvols' = Flagged(sv) /\ looked' = looked \cup {now} /\ now[1] = at /\ now[2] = sv
      BY <2>2 DEF Listed
    <3>3. subvols \subseteq subvols' /\ (sv # <<>> => sv \in subvols')
      BY <3>2 DEF Flagged
    <3>4. ASSUME NEW o \in New
          PROVE  o \in OwnerRec /\ o.idx = at /\ o.root = r.root /\ o.path \in PathsAt(now)
      <4>1. PICK p \in paths : o = [root |-> r.root, path |-> join_path(sv, p), idx |-> at]
        BY <3>4 DEF OwnersOf
      <4>2. join_path(sv, p) \in PathsAt(now)
        BY <3>1, <3>2 DEF PathsAt
      <4>3. join_path(sv, p) \in Text /\ r.root \in Nat
        <5>1. p \in Seq(Nat) /\ sv \in Seq(Nat) /\ r.root \in Nat
          BY <1>1, <2>2, <3>1, RefFacts
        <5>2. join_path(sv, p) \in Seq(Nat)
          BY <5>1 DEF join_path
        <5> QED BY <5>1, <5>2, NoNegative
      <4> QED BY <1>1, <4>1, <4>2, <4>3 DEF OwnerRec
    <3>5. New # {} /\ now \in looked' /\ looked \subseteq looked'
      BY <3>1, <3>2 DEF OwnersOf
    <3>6. unlisted' \in BOOLEAN
      BY <3>1
    <3>7. \A l \in looked' : l[1] \in DOMAIN refs /\ l[2] \in SvPath[refs[l[1]].root]
      BY <1>1, <1>t, <2>2, <3>2
    <3> HIDE DEF New, now
    <3>8. Found' /\ Looked'
      BY <3>1, <3>2, <3>3, <3>4, <3>5, AddedOwners DEF New
    <3> QED BY <3>6, <3>7, <3>8
  <2> QED BY <2>1, <2>2 DEF Owner
<1>3. ASSUME NEW o \in owners' PROVE o.idx \in 0..Len(refs')
  <2>1. OwnerFits(o)' /\ \A l \in looked' : LookedUp(l)'
    BY <1>2, <1>3 DEF Found
  <2>2. ASSUME NEW b, o = Special(b) PROVE o.idx = 0
    BY <2>2 DEF Special, NoIdx
  <2>3. at' - 1 = at
    BY <1>1
  <2>4. \A l \in looked' : l[1] \in 1..at
    BY <2>1, <2>3 DEF LookedUp
  <2> QED BY <1>1, <2>1, <2>2, <2>4 DEF OwnerFits
<1>4. at' \in 1..(Len(refs') + 1)
  BY <1>1
<1>5. TypeOK'
  BY <1>1, <1>2, <1>3, <1>4 DEF TInv, TypeOK
<1> QED BY <1>2, <1>5 DEF TInv

LEMMA TInvStep == TInv /\ [Next]_vars => TInv'
<1> SUFFICES ASSUME TInv, [Next]_vars PROVE TInv'
  OBVIOUS
<1> USE DEF TInv
<1>1. ASSUME Start PROVE TInv'
  <2>1. pc' \in {"idle", "ioctl"} /\ buf' = buf
    BY <1>1 DEF Start
  <2>2. Found' /\ Looked'
    BY <1>1, <2>1, FreshFacts DEF Start
  <2>3. sample'.owners # <<>> /\ sample'.ratio \in Ref \cup {NoRef}
    <3>1. CASE UNCHANGED sample
      BY <3>1 DEF TypeOK
    <3>2. CASE sample' \in {Bucket(SYSTEM), Bucket(METADATA)}
      BY <3>2, BucketTyped
    <3> QED BY <1>1, <3>1, <3>2 DEF Start
  <2>4. Len(refs') = 0 /\ refs' \in Seq(Ref) /\ truncated' = FALSE /\ at' = 1
        /\ owners' = {} /\ looked' = {} /\ unlisted' = FALSE /\ retries' = 0
    BY <1>1, <2>1, FreshFacts DEF Start
  <2>5. at' \in 1..(Len(refs') + 1)
    BY <2>4
  <2>6. TypeOK'
    BY <2>1, <2>3, <2>4, <2>5 DEF TypeOK
  <2> QED BY <2>2, <2>6
<1>2. ASSUME LogicalInoFails PROVE TInv'
  <2>1. pc' = "idle" /\ UNCHANGED <<buf, refs, truncated, at, owners, subvols, looked, unlisted, retries>>
    BY <1>2 DEF LogicalInoFails, Answer, locals
  <2>2. sample'.owners # <<>> /\ sample'.ratio = NoRef
    BY <1>2, BucketTyped DEF LogicalInoFails, Answer
  <2>3. TypeOK'
    BY <2>1, <2>2 DEF TypeOK
  <2>4. Found' /\ Looked'
    BY <2>1, FoundKept
  <2> QED BY <2>3, <2>4
<1>3. ASSUME Grow PROVE TInv'
  <2>1. UNCHANGED <<pc, refs, truncated, at, owners, subvols, looked, unlisted, sample>>
        /\ retries' = retries + 1
    BY <1>3 DEF Grow, locals
  <2>2. PICK shared \in SUBSET Ref : Retry(shared) /\ buf' = Want(shared)
    BY <1>3 DEF Grow
  <2>3. buf' \in MinBuf..MaxBuf
    BY <2>2, WantFacts, SharedFacts
  <2>4. TypeOK'
    BY <2>1, <2>3 DEF TypeOK
  <2>5. Found' /\ Looked'
    BY <2>1, FoundKept
  <2> QED BY <2>4, <2>5
<1>4. ASSUME Decode PROVE TInv'
  <2>1. /\ UNCHANGED <<buf, at, owners, subvols, looked, retries>>
        /\ refs = <<>> /\ owners = {} /\ looked = {} /\ at = 1
    BY <1>4 DEF Decode, Found
  <2>2. PICK shared \in SUBSET Ref :
          /\ ~Retry(shared)
          /\ \E S \in kSubset(AtMost(Cardinality(shared), buf), shared) : refs' \in SetToSeqs(S)
          /\ truncated' = (Missing(shared) > 0)
          /\ unlisted' = (Missing(shared) > 0)
    BY <1>4 DEF Decode
  <2>3. refs' \in Seq(Ref)
    BY <2>2, DecodedRefs
  <2>4. at' \in 1..(Len(refs') + 1)
    BY <2>1, <2>3
  <2>5. pc' \in {"idle", "owners"} /\ (pc' = "owners" => refs' # <<>>)
    BY <1>4 DEF Decode, Answer
  <2>6. sample'.owners # <<>> /\ sample'.ratio \in Ref \cup {NoRef}
    <3>1. CASE UNCHANGED sample
      BY <3>1 DEF TypeOK
    <3>2. CASE sample' = Bucket(UNREACHABLE)
      BY <3>2, BucketTyped
    <3> QED BY <1>4, <3>1, <3>2 DEF Decode, Answer
  <2>7. truncated' \in BOOLEAN /\ unlisted' \in BOOLEAN
    BY <2>2
  <2>8. TypeOK'
    BY <2>1, <2>3, <2>4, <2>5, <2>6, <2>7 DEF TypeOK
  <2>9. Found' /\ Looked'
    BY <2>1, <2>5, FS_EmptySet DEF Found, Looked
  <2> QED BY <2>8, <2>9
<1>5. ASSUME Owner PROVE TInv'
  BY <1>5, OwnerStep
<1>6. ASSUME Finish PROVE TInv'
  <2>1. pc' = "idle" /\ UNCHANGED <<buf, refs, truncated, at, owners, subvols, looked, unlisted, retries>>
    BY <1>6 DEF Finish, Answer, locals
  <2>2. pc = "owners" /\ at > Len(refs)
    BY <1>6 DEF Finish
  <2>3. PICK d, found : \E n \in Nat \ {0} :
          /\ Finished(d, found) /\ d \in [1..n -> owners \cup Rest]
          /\ Len(sample'.owners) = n
          /\ found = NoRef \/ found = RatioRef(d[1])
    BY <1>6, FinishFacts
  <2>4. sample'.owners # <<>>
    BY <2>3
  <2>5. d[1] \in owners \cup Rest
    BY <2>3
  <2>6. RatioRef(d[1]) \in Ref \cup {NoRef}
    <3>1. CASE BucketOwner(d[1])
      BY <3>1 DEF BucketOwner, RatioRef
    <3>2. CASE PathOwner(d[1])
      BY <3>2 DEF PathOwner, RatioRef
    <3> QED BY <2>2, <2>5, <3>1, <3>2, OwnerKinds
  <2>7. sample'.ratio \in Ref \cup {NoRef}
    BY <2>3, <2>6 DEF Finished
  <2>8. TypeOK'
    BY <2>1, <2>4, <2>7 DEF TypeOK
  <2>9. Found' /\ Looked'
    BY <2>1, FoundKept
  <2> QED BY <2>8, <2>9
<1>7. CASE UNCHANGED vars
  <2>1. UNCHANGED <<pc, buf, refs, truncated, at, owners, subvols, looked, unlisted, sample, retries>>
    BY <1>7 DEF vars, locals
  <2>2. TypeOK'
    BY <2>1 DEF TypeOK
  <2>3. Found' /\ Looked'
    BY <2>1, FoundKept
  <2> QED BY <2>2, <2>3
<1> QED BY <1>1, <1>2, <1>3, <1>4, <1>5, <1>6, <1>7 DEF Next, resolve

LEMMA TInvAlways == Spec => []TInv
BY TInvInit, TInvStep, PTL DEF Spec

\* The type invariant: references are references, the place among them is one of
\* them or the end, and every sample that resolve returns has an owner, so that
\* the read of owners[0] never fails.
THEOREM TypeCorrect == Spec => []TypeOK
<1>1. TInv => TypeOK
  BY DEF TInv
<1> QED BY <1>1, TInvAlways, PTL

-----------------------------------------------------------------------------
(* The growing buffer. *)

BufInv == GivesUpLate /\ IsPow2(buf)

LEMMA BufStep == TInv /\ BufInv /\ [Next]_vars => BufInv'
<1> SUFFICES ASSUME TInv, BufInv, [Next]_vars PROVE BufInv'
  OBVIOUS
<1>1. /\ buf \in Nat /\ MinBuf \in Nat /\ MaxBuf \in Nat /\ MinBuf <= buf /\ buf <= MaxBuf
      /\ retries \in Nat /\ TypeOK
  BY ResolveAssumption DEF TInv, TypeOK
<1>2. CASE Start
  <2>1. truncated' = FALSE /\ retries' = 0 /\ buf' = buf
    BY <1>2 DEF Start, Fresh
  <2>2. MinBuf * pow2[0] <= buf
    BY <1>1, PowerFacts
  <2> QED BY <2>1, <2>2 DEF BufInv, GivesUpLate
<1>3. CASE Grow
  <2>1. PICK shared \in SUBSET Ref : Retry(shared) /\ buf' = Want(shared)
    BY <1>3 DEF Grow
  <2>2. /\ buf' \in Nat /\ buf < buf' /\ buf' <= MaxBuf /\ IsPow2(buf')
        /\ truncated' = truncated /\ retries' = retries + 1 /\ truncated = FALSE
    <3>1. truncated' = truncated /\ retries' = retries + 1
      BY <1>3 DEF Grow, locals
    <3>2. truncated = FALSE
      BY <1>1, <2>1 DEF Retry, BufInv, GivesUpLate, TypeOK
    <3> QED BY <1>1, <2>1, <3>1, <3>2, WantFacts
  <2>3. 2 * buf <= buf'
    BY <1>1, <2>2, PowerDoubles DEF BufInv
  <2> DEFINE x == pow2[retries]
  <2>4. x \in Nat /\ pow2[retries + 1] = 2 * x /\ MinBuf * x <= buf
    BY <1>1, PowerFacts DEF BufInv, GivesUpLate
  <2> HIDE DEF x
  <2>5. MinBuf * (2 * x) = 2 * (MinBuf * x) /\ MinBuf * x \in Nat
    BY <1>1, <2>4
  <2>6. MinBuf * (2 * x) <= buf'
    BY <1>1, <2>2, <2>3, <2>4, <2>5
  <2>7. MinBuf * pow2[retries'] <= buf'
    BY <2>2, <2>4, <2>6
  <2>8. IsPow2(buf)'
    BY <2>2 DEF IsPow2
  <2> QED BY <2>2, <2>7, <2>8 DEF BufInv, GivesUpLate
<1>4. CASE Decode
  <2>1. PICK shared \in SUBSET Ref : ~Retry(shared) /\ truncated' = (Missing(shared) > 0)
    BY <1>4 DEF Decode
  <2>2. UNCHANGED <<buf, retries>>
    BY <1>4 DEF Decode
  <2>3. ASSUME truncated' PROVE buf = MaxBuf
    <3>1. Missing(shared) > 0
      BY <2>1, <2>3, Zenon
    <3> QED BY <1>1, <2>1, <3>1 DEF Retry
  <2> QED BY <2>2, <2>3 DEF BufInv, GivesUpLate
<1>5. CASE LogicalInoFails \/ Owner \/ Finish \/ UNCHANGED vars
  <2>1. UNCHANGED <<buf, truncated, retries>>
    BY <1>5 DEF LogicalInoFails, Owner, Finish, vars, locals
  <2> QED BY <2>1 DEF BufInv, GivesUpLate
<1> QED BY <1>2, <1>3, <1>4, <1>5 DEF Next, resolve

\* Owners are given up as too many only with the largest buffer, and LOGICAL_INO is
\* repeated at most as often as the smallest buffer doubles to the largest,
\* whatever other programs share between the calls.
THEOREM GivesUpLateAlways == Spec => []GivesUpLate
<1>1. Init => BufInv
  BY ResolveAssumption, PowerFacts DEF Init, BufInv, GivesUpLate
<1>2. BufInv => GivesUpLate
  BY DEF BufInv
<1> QED BY <1>1, <1>2, BufStep, TInvAlways, PTL DEF Spec

-----------------------------------------------------------------------------
(* The owners of a sample. *)

\* The last result does not change before the next call.
LEMMA ResolvedBy ==
  ASSUME TInv, [Next]_vars, Resolved'
  PROVE  Finish \/ (Resolved /\ UNCHANGED <<pc, refs, sample, looked, unlisted>>)
<1>1. CASE Start
  BY <1>1 DEF Start, Fresh, Resolved
<1>2. CASE LogicalInoFails
  BY <1>2 DEF LogicalInoFails, TInv, Found, Resolved, locals
<1>3. CASE Grow
  BY <1>3 DEF Grow, Resolved
<1>4. CASE Decode
  BY <1>4 DEF Decode, Resolved
<1>5. CASE Owner
  BY <1>5 DEF Owner, Resolved
<1>6. CASE UNCHANGED vars
  BY <1>6 DEF vars, locals, Resolved
<1> QED BY <1>1, <1>2, <1>3, <1>4, <1>5, <1>6 DEF Next, resolve

\* A bucket sorts behind every path.
LEMMA BucketsLast ==
  ASSUME NEW a, NEW b, Before(a, b), a.root = -1
  PROVE  b.root = -1
BY DEF Before

LEMMA FinishRight ==
  ASSUME TInv, Finish
  PROVE  OwnersRight'
<1>1. pc = "owners" /\ at > Len(refs) /\ UNCHANGED <<refs, subvols, looked>> /\ TypeOK
  BY DEF Finish, locals, TInv
<1>2. PICK d, found : \E m \in Nat \ {0} :
        /\ Finished(d, found)
        /\ d \in [1..m -> owners \cup Rest]
        /\ sample'.owners \in Seq(Text) /\ Len(sample'.owners) = m
        /\ \A i \in 1..m : sample'.owners[i] = d[i].path
        /\ \A o \in owners \cup Rest : \E k \in 1..m : d[k].path = o.path
        /\ \A i, j \in 1..m : i < j => Before(d[i], d[j])
        /\ \A i, j \in 1..m : d[i].path = d[j].path /\ d[i].root = d[j].root => i = j
        /\ found = NoRef \/ found = RatioRef(d[1])
  BY FinishFacts
<1>3. PICK m \in Nat \ {0} :
        /\ Finished(d, found)
        /\ d \in [1..m -> owners \cup Rest]
        /\ sample'.owners \in Seq(Text) /\ Len(sample'.owners) = m
        /\ \A i \in 1..m : sample'.owners[i] = d[i].path
        /\ \A o \in owners \cup Rest : \E k \in 1..m : d[k].path = o.path
        /\ \A i, j \in 1..m : i < j => Before(d[i], d[j])
        /\ \A i, j \in 1..m : d[i].path = d[j].path /\ d[i].root = d[j].root => i = j
        /\ found = NoRef \/ found = RatioRef(d[1])
  BY <1>2
<1> DEFINE out == sample'.owners
<1>4. DOMAIN out = 1..m /\ 1 \in 1..m
  BY <1>3
<1>5. sample'.subvols = subvols /\ sample'.ratio = found
  BY <1>3 DEF Finished
<1>6. \A k \in 1..m : d[k] \in owners \cup Rest
  BY <1>3
<1>7. at - 1 = Len(refs) /\ DOMAIN refs = 1..Len(refs)
  BY <1>1, AllOwners DEF TypeOK
<1>t. \A l : PathsAt(l)' = PathsAt(l)
  BY <1>1 DEF PathsAt
<1>8. Accounted'
  <2> SUFFICES ASSUME NEW i \in DOMAIN refs
               PROVE  \E k \in DOMAIN out :
                        \/ out[k] \in Buckets(refs[i])
                        \/ \E l \in looked : l[1] = i /\ out[k] \in PathsAt(l)
    BY <1>1, <1>t DEF Accounted, Buckets
  <2>1. PICK o \in owners : OwnerOf(o, i)
    BY <1>7 DEF TInv, Looked
  <2>2. PICK k \in 1..m : d[k].path = o.path
    BY <1>3
  <2>3. out[k] = o.path /\ k \in DOMAIN out
    BY <1>3, <1>4, <2>2
  <2> QED BY <2>1, <2>3 DEF OwnerOf
<1>9. Canonical'
  <2>1. ASSUME IsBucket(out[1]), NEW k \in DOMAIN out PROVE IsBucket(out[k])
    <3>1. d[1].root = -1
      <4>1. ~PathOwner(d[1])
        BY <1>3, <1>4, <2>1 DEF PathOwner
      <4> QED BY <4>1, <1>1, <1>4, <1>6, OwnerKinds DEF BucketOwner
    <3>2. d[k].root = -1
      <4>1. CASE k = 1
        BY <4>1, <3>1
      <4>2. CASE k # 1
        <5>1. 1 < k /\ k \in 1..m
          BY <4>2, <1>4
        <5>2. Before(d[1], d[k])
          BY <5>1, <1>3, <1>4
        <5> QED BY <5>2, <3>1, BucketsLast
      <4> QED BY <4>1, <4>2
    <3>3. ~PathOwner(d[k])
      BY <3>2 DEF PathOwner
    <3>4. IsBucket(d[k].path)
      BY <3>3, <1>1, <1>4, <1>6, OwnerKinds DEF BucketOwner
    <3> QED BY <3>4, <1>3, <1>4
  <2>2. ASSUME NEW i \in DOMAIN out, NEW k \in DOMAIN out, i # k, out[i] = out[k]
        PROVE  \E a, b \in looked : /\ refs[a[1]].root # refs[b[1]].root
                                    /\ out[i] \in PathsAt(a) \cap PathsAt(b)
    <3>1. d[i].path = out[i] /\ d[k].path = out[i] /\ d[i].root # d[k].root
      BY <1>3, <1>4, <2>2
    <3>2. PathOwner(d[i]) /\ PathOwner(d[k])
      BY <1>1, <1>4, <1>6, <3>1, AllOwners
    <3>3. PICK a \in looked : a[1] = d[i].idx /\ out[i] \in PathsAt(a)
      BY <3>1, <3>2 DEF PathOwner
    <3>4. PICK b \in looked : b[1] = d[k].idx /\ out[i] \in PathsAt(b)
      BY <3>1, <3>2 DEF PathOwner
    <3>5. refs[a[1]].root = d[i].root /\ refs[b[1]].root = d[k].root
      BY <3>2, <3>3, <3>4 DEF PathOwner
    <3> QED BY <3>1, <3>3, <3>4, <3>5
  <2>3. (IsBucket(out[1]) => \A k \in DOMAIN out : IsBucket(out[k]))
    BY <2>1
  <2> QED BY <1>1, <1>t, <2>2, <2>3 DEF Canonical, IsBucket
<1>10. RatioFits'
  <2> SUFFICES ASSUME found # NoRef
               PROVE  \E l \in looked : refs[l[1]] = found /\ out[1] \in PathsAt(l)
    BY <1>1, <1>5, <1>t DEF RatioFits
  <2>1. found = RatioRef(d[1])
    BY <1>3
  <2>2. d[1].idx # NoIdx /\ found = refs[d[1].idx]
    BY <2>1 DEF RatioRef
  <2>3. PathOwner(d[1])
    BY <2>2, <1>1, <1>4, <1>6, OwnerKinds DEF BucketOwner
  <2>4. d[1].path = out[1]
    BY <1>3, <1>4
  <2> QED BY <2>2, <2>3, <2>4 DEF PathOwner
<1>11. SubvolsMarked'
  BY <1>1, <1>5 DEF SubvolsMarked, TInv, Found, LookedUp
<1> QED BY <1>8, <1>9, <1>10, <1>11 DEF OwnersRight

\* A finished sample accounts for every reference the kernel listed, has a path first if
\* there is any, takes the ratio from that path's extent, and marks the subvolume of every
\* path in it, wherever the subvolumes were found; only two of them found where they have
\* a path in common can give an owner twice.
THEOREM OwnersRightAlways == Spec => []OwnersRight
<1>1. Init => OwnersRight
  BY DEF Init, OwnersRight, Resolved
<1>2. TInv /\ OwnersRight /\ [Next]_vars => OwnersRight'
  <2> SUFFICES ASSUME TInv, OwnersRight, [Next]_vars, Resolved' PROVE OwnersRight'
    BY DEF OwnersRight
  <2>1. CASE Finish
    BY <2>1, FinishRight
  <2>2. CASE Resolved /\ UNCHANGED <<pc, refs, sample, looked, unlisted>>
    <3>1. \A l : PathsAt(l)' = PathsAt(l)
      BY <2>2, PathsKept
    <3>2. UNCHANGED <<refs, sample, looked>> /\ Resolved
      BY <2>2
    <3>3. Accounted' = Accounted
      BY <3>1, <3>2 DEF Accounted
    <3>4. Canonical' = Canonical
      BY <3>1, <3>2 DEF Canonical
    <3>5. RatioFits' = RatioFits
      BY <3>1, <3>2 DEF RatioFits
    <3>6. SubvolsMarked' = SubvolsMarked
      BY <3>1, <3>2 DEF SubvolsMarked
    <3> QED BY <3>2, <3>3, <3>4, <3>5, <3>6 DEF OwnersRight
  <2> QED BY <2>1, <2>2, ResolvedBy
<1> QED BY <1>1, <1>2, TInvAlways, PTL DEF Spec

-----------------------------------------------------------------------------
(* Exclusive samples. *)

\* When owners were left out, two paths are in hand, or a bucket will be.
AllTold ==
  (pc = "owners" /\ unlisted) => truncated \/ \E o, q \in owners : o.path # q.path

LEMMA JoinsApart ==
  ASSUME NEW a \in Seq(Nat), NEW p \in Seq(Nat), NEW q \in Seq(Nat), p # q
  PROVE  join_path(a, p) # join_path(a, q)
BY ConcatSimplifications DEF join_path

\* Of two or more elements two are different.
LEMMA TwoElements ==
  ASSUME NEW S, IsFiniteSet(S), Cardinality(S) \in Nat, Cardinality(S) >= 2
  PROVE  \E x, y \in S : x # y
<1> SUFFICES ASSUME \A x, y \in S : x = y PROVE FALSE
  OBVIOUS
<1>1. S # {}
  BY FS_EmptySet
<1>2. PICK x \in S : S = {x}
  BY <1>1
<1>3. Cardinality(S) = 1
  BY <1>2, FS_Singleton
<1> QED BY <1>3

LEMMA AllToldStep == PathSlots >= 2 /\ TInv /\ AllTold /\ [Next]_vars => AllTold'
<1> SUFFICES ASSUME PathSlots >= 2, TInv, AllTold, [Next]_vars PROVE AllTold'
  OBVIOUS
<1>1. CASE Start
  BY <1>1 DEF Start, AllTold, TInv, TypeOK
<1>2. CASE LogicalInoFails \/ Finish
  BY <1>2 DEF LogicalInoFails, Finish, Answer, AllTold
<1>3. CASE Grow
  BY <1>3 DEF Grow, locals, AllTold
<1>4. CASE Decode
  BY <1>4 DEF Decode, AllTold
<1>5. CASE Owner
  <2> DEFINE r == refs[at]
  <2>1. r \in Ref /\ pc = "owners" /\ truncated' = truncated
    BY <1>5 DEF TInv, TypeOK, Owner
  <2>2. CASE Unresolved(r) /\ UNCHANGED <<subvols, looked, unlisted>>
    <3>1. owners \subseteq owners'
      BY <2>2 DEF Unresolved
    <3> QED BY <2>1, <2>2, <3>1 DEF AllTold
  <2>3. ASSUME NEW sv \in SvPath[r.root], Listed(r, sv) PROVE AllTold'
    <3>1. PICK here, paths :
             /\ here \in SUBSET LinkPath[<<r.root, r.inum>>] /\ paths \in SUBSET here
             /\ IsFiniteSet(paths)
             /\ paths # here => Cardinality(paths) = PathSlots
             /\ owners' = owners \cup OwnersOf(r, sv, paths)
             /\ unlisted' = (unlisted \/ paths # here)
      BY <1>5, <2>3, ListedFacts
    <3>2. CASE paths # here
      <4>1. PathSlots \in Nat
        BY ResolveAssumption
      <4>2. PICK p, q \in paths : p # q
        BY <3>1, <3>2, <4>1, TwoElements
      <4>3. p \in Seq(Nat) /\ q \in Seq(Nat) /\ sv \in Seq(Nat)
        BY <2>1, <2>3, <3>1, <4>2, RefFacts
      <4>4. join_path(sv, p) # join_path(sv, q)
        BY <4>2, <4>3, JoinsApart
      <4> DEFINE o(x) == [root |-> r.root, path |-> join_path(sv, x), idx |-> at]
      <4>5. o(p) \in owners' /\ o(q) \in owners'
        BY <3>1, <4>2 DEF OwnersOf
      <4>6. o(p).path # o(q).path
        BY <4>4
      <4> QED BY <4>5, <4>6 DEF AllTold
    <3>3. CASE paths = here
      <4>1. owners \subseteq owners' /\ unlisted' = unlisted
        BY <3>1, <3>3 DEF TInv, TypeOK
      <4> QED BY <2>1, <4>1 DEF AllTold
    <3> QED BY <3>2, <3>3
  <2> QED BY <1>5, <2>2, <2>3 DEF Owner
<1>6. CASE UNCHANGED vars
  BY <1>6 DEF vars, locals, AllTold
<1> QED BY <1>1, <1>2, <1>3, <1>4, <1>5, <1>6 DEF Next, resolve

LEMMA FinishSound ==
  ASSUME TInv, AllTold, Finish
  PROVE  ExclusiveSound'
<1> SUFFICES ASSUME Len(sample'.owners) = 1, ~IsBucket(sample'.owners[1]), unlisted' PROVE FALSE
  BY DEF ExclusiveSound, IsBucket
<1>1. pc = "owners" /\ unlisted
  BY DEF Finish, locals
<1>2. PICK d, found : \E m \in Nat \ {0} :
        /\ Len(sample'.owners) = m
        /\ \A i \in 1..m : sample'.owners[i] = d[i].path
        /\ \A o \in owners \cup Rest : \E k \in 1..m : d[k].path = o.path
  BY FinishFacts
<1>3. /\ sample'.owners[1] = d[1].path
      /\ \A o \in owners \cup Rest : d[1].path = o.path
  BY <1>2
<1>4. CASE truncated
  <2>1. Special(TooManyOwners) \in Rest
    BY <1>4 DEF Rest
  <2>2. sample'.owners[1] = TooManyOwners
    BY <2>1, <1>3 DEF Special
  <2> QED BY <2>2 DEF IsBucket, TooManyOwners
<1>5. CASE \E o, q \in owners : o.path # q.path
  BY <1>3, <1>5
<1> QED BY <1>1, <1>4, <1>5 DEF AllTold

\* A sample with one path, which its counters take for exclusive, was made from all
\* owners the kernel had.  It rests on two links of one file fitting the buffer of
\* INO_PATHS, as nothing tells the code how many did not.
THEOREM ExclusiveSoundAlways ==
  ASSUME PathSlots >= 2
  PROVE  Spec => []ExclusiveSound
<1>1. Init => AllTold /\ ExclusiveSound
  BY DEF Init, AllTold, ExclusiveSound, Resolved
<1>2. TInv /\ AllTold /\ ExclusiveSound /\ [Next]_vars => ExclusiveSound'
  <2> SUFFICES ASSUME TInv, AllTold, ExclusiveSound, [Next]_vars, Resolved' PROVE ExclusiveSound'
    BY DEF ExclusiveSound
  <2>1. CASE Finish
    BY <2>1, FinishSound
  <2>2. CASE Resolved /\ UNCHANGED <<pc, refs, sample, looked, unlisted>>
    BY <2>2 DEF ExclusiveSound
  <2> QED BY <2>1, <2>2, ResolvedBy
<1>3. TInv /\ AllTold /\ [Next]_vars => AllTold'
  BY AllToldStep
<1> QED BY <1>1, <1>2, <1>3, TInvAlways, PTL DEF Spec

-----------------------------------------------------------------------------
(* The threads: Sampler. *)

\* What a step of a worker does.
LEMMA WorkerFacts ==
  ASSUME SamplerTypeOK, NEW w \in Worker, WorkerStep(w)
  PROVE  /\ UNCHANGED <<agg, taken, total, lock, flags, client>>
         /\ worker' \in [Worker -> {"top", "check", "sleep", "resolve", "send", "done"}]
         /\ late' \in [Worker -> 0..2] /\ chan' \in 0..Capacity
         /\ \A v \in Worker \ {w} : worker'[v] = worker[v] /\ late'[v] = late[v]
         /\ worker[w] = "send" => worker'[w] = "top" /\ late'[w] <= late[w] + 1
         /\ worker[w] # "send" => late' = late
         /\ worker[w] = "check" => worker'[w] = AfterCheck
         /\ worker[w] \notin {"check", "resolve"} => worker'[w] \notin {"resolve", "send"}
<1>1. CASE CheckStop(w)
  BY <1>1 DEF CheckStop, Step, SamplerTypeOK
<1>2. CASE CheckPause(w)
  BY <1>2 DEF CheckPause, AfterCheck, Step, SamplerTypeOK
<1>3. CASE Wake(w)
  BY <1>3 DEF Wake, Step, SamplerTypeOK
<1>4. CASE Resolve(w)
  BY <1>4 DEF Resolve, Step, SamplerTypeOK
<1>5. CASE Send(w)
  <2>1. chan' \in 0..Capacity
    BY <1>5, SamplerAssumption DEF Send, HasRoom, SamplerTypeOK
  <2>2. /\ late' \in [Worker -> 0..2] /\ late'[w] <= late[w] + 1
        /\ \A v \in Worker \ {w} : late'[v] = late[v]
    <3>1. late[w] \in 0..2 /\ late \in [Worker -> 0..2]
      BY DEF SamplerTypeOK
    <3>2. CASE paused /\ late[w] < 2
      BY <1>5, <3>1, <3>2 DEF Send
    <3>3. CASE ~(paused /\ late[w] < 2)
      BY <1>5, <3>1, <3>3 DEF Send
    <3> QED BY <3>2, <3>3
  <2>3. /\ worker[w] = "send" /\ worker'[w] = "top"
        /\ worker' \in [Worker -> {"top", "check", "sleep", "resolve", "send", "done"}]
        /\ \A v \in Worker \ {w} : worker'[v] = worker[v]
    BY <1>5 DEF Send, Step, SamplerTypeOK
  <2> QED BY <1>5, <2>1, <2>2, <2>3 DEF Send
<1> QED BY <1>1, <1>2, <1>3, <1>4, <1>5 DEF WorkerStep

-----------------------------------------------------------------------------
(* Types. *)

LEMMA SamplerTypeStep == SamplerTypeOK /\ [SamplerNext]_sampler_vars => SamplerTypeOK'
<1> SUFFICES ASSUME SamplerTypeOK, [SamplerNext]_sampler_vars PROVE SamplerTypeOK'
  OBVIOUS
<1>1. ASSUME NEW w \in Worker, WorkerStep(w) PROVE SamplerTypeOK'
  BY <1>1, WorkerFacts DEF SamplerTypeOK, flags, client
<1>2. CASE Aggregate \/ Lock
  <2>1. total' \in 0..MaxTotal
    BY <1>2, SamplerAssumption DEF Aggregate, Recv, Disconnected, Take, Unlock, Lock, Counted, SamplerTypeOK
  <2>2. taken' \in 0..BatchMax
    BY <1>2, SamplerAssumption DEF Aggregate, Recv, Disconnected, Take, Unlock, Lock, SamplerTypeOK
  <2>3. chan' \in 0..Capacity
    BY <1>2, SamplerAssumption
       DEF Aggregate, Recv, Disconnected, Take, Unlock, Lock, BatchOver, SamplerTypeOK
  <2> QED BY <1>2, <2>1, <2>2, <2>3
          DEF Aggregate, Recv, Disconnected, Take, Unlock, Lock, SamplerTypeOK, flags, client
<1>3. CASE Common
  BY <1>3 DEF Common, WantTree, Acquire, ExportMeta, Join, Main, ExportLock, SamplerTypeOK, flags, pipeline
<1>4. CASE Release \/ Export \/ Exported \/ Quit \/ Counting \/ FinishExport \/ Deadline
  <2>1. CASE Release \/ Export \/ Quit
    BY <2>1 DEF Release, Export, Quit, Main, SamplerTypeOK, flags, pipeline
  <2>2. CASE Exported \/ FinishExport
    BY <2>2 DEF Exported, FinishExport, ExportNodes, Main, LockAfterExport, SamplerTypeOK, flags, pipeline
  <2>3. CASE Counting
    BY <2>3 DEF Counting, Main, SamplerTypeOK, flags, pipeline
  <2>4. CASE Deadline
    BY <2>4 DEF Deadline, SamplerTypeOK, flags, pipeline
  <2> QED BY <1>4, <2>1, <2>2, <2>3, <2>4
<1>5. CASE TogglePause
  BY <1>5 DEF TogglePause, SamplerTypeOK, client, pipeline
<1>6. CASE UNCHANGED sampler_vars
  BY <1>6 DEF sampler_vars, SamplerTypeOK, flags, client, pipeline
<1> QED BY <1>1, <1>2, <1>3, <1>4, <1>5, <1>6 DEF SamplerNext, Threads, Browser, Headless

LEMMA SamplerInitTypes == SamplerInit => SamplerTypeOK
<1> SUFFICES ASSUME SamplerInit PROVE SamplerTypeOK
  OBVIOUS
<1>1. 0 \in 0..Capacity /\ 0 \in 0..BatchMax /\ 0 \in 0..MaxTotal
  BY SamplerAssumption
<1>2. worker \in [Worker -> {"top", "check", "sleep", "resolve", "send", "done"}]
      /\ late \in [Worker -> 0..2]
  BY DEF SamplerInit
<1> QED BY <1>1, <1>2 DEF SamplerInit, SamplerTypeOK

\* Every variable keeps its type: the channel never overflows.
THEOREM SamplerTypeCorrect == SamplerSpec => []SamplerTypeOK
<1>1. SamplerInit => SamplerTypeOK
  BY SamplerInitTypes
<1> QED BY <1>1, SamplerTypeStep, PTL DEF SamplerSpec

-----------------------------------------------------------------------------
(* Pausing. *)

\* A worker that passed the test of paused still has its one sample to send; one
\* that sent it since the pause has to pass the test again.
Spent == \A w \in Worker : paused =>
           late[w] = 0 \/ (late[w] = 1 /\ worker[w] \notin {"resolve", "send"})

LEMMA SpentStep == SamplerTypeOK /\ Spent /\ [SamplerNext]_sampler_vars => Spent'
<1> SUFFICES ASSUME SamplerTypeOK, Spent, [SamplerNext]_sampler_vars PROVE Spent'
  OBVIOUS
<1>1. ASSUME NEW w \in Worker, WorkerStep(w) PROVE Spent'
  <2>1. paused' = paused
    BY <1>1, WorkerFacts DEF flags
  <2>2. ASSUME NEW v \in Worker \ {w} PROVE worker'[v] = worker[v] /\ late'[v] = late[v]
    BY <1>1, WorkerFacts
  <2>3. ASSUME paused PROVE late'[w] = 0 \/ (late'[w] = 1 /\ worker'[w] \notin {"resolve", "send"})
    <3>1. late[w] \in 0..2 /\ late'[w] \in 0..2
      BY <1>1, WorkerFacts DEF SamplerTypeOK
    <3>2. CASE worker[w] = "send"
      BY <1>1, <2>3, <3>1, <3>2, WorkerFacts DEF Spent
    <3>3. CASE worker[w] = "check"
      BY <1>1, <2>3, <3>3, WorkerFacts DEF Spent, AfterCheck
    <3>4. CASE worker[w] \notin {"send", "check"}
      BY <1>1, <2>3, <3>4, WorkerFacts DEF Spent
    <3> QED BY <3>2, <3>3, <3>4
  <2> QED BY <2>1, <2>2, <2>3 DEF Spent
<1>2. CASE Aggregate \/ Lock
  BY <1>2 DEF Aggregate, Recv, Disconnected, Take, Unlock, Lock, Spent, flags
<1>3. CASE Common
  BY <1>3 DEF Common, WantTree, Acquire, ExportMeta, Join, Spent, flags, pipeline
<1>4. CASE Release \/ Export \/ Exported \/ Quit \/ Counting \/ FinishExport \/ Deadline
  BY <1>4 DEF Release, Export, Exported, Quit, Counting, FinishExport, Deadline, ExportNodes,
              Spent, flags, pipeline
<1>5. CASE TogglePause
  BY <1>5 DEF TogglePause, SamplerTypeOK, Spent, pipeline
<1>6. CASE UNCHANGED sampler_vars
  BY <1>6 DEF sampler_vars, Spent, flags, pipeline
<1> QED BY <1>1, <1>2, <1>3, <1>4, <1>5, <1>6 DEF SamplerNext, Threads, Browser, Headless

\* Once sampling is paused, each worker sends at most the sample it was on.
THEOREM PauseHoldsAlways == SamplerSpec => []PauseHolds
<1>1. SamplerInit => Spent
  BY DEF SamplerInit, Spent
<1>2. Spent => PauseHolds
  BY DEF Spent, PauseHolds
<1> QED BY <1>1, <1>2, SpentStep, SamplerTypeCorrect, PTL DEF SamplerSpec

-----------------------------------------------------------------------------
(* The lock and the export. *)

\* The lock is held by who says so.
Held ==
  /\ lock = "agg" <=> agg = "batch"
  /\ lock = "main" <=> main \in {"hold", "export_meta", "export_nodes"}

\* Between the two reads of an export the aggregator adds nothing.
Frozen ==
  /\ main = "export_nodes" => meta = total
  /\ main \notin {"export_nodes"} => meta = written

\* From the moment the headless loop has counted enough, there is enough.
Quota ==
  /\ seen <= total
  /\ cli.export /\ cli.samples # NoSamples =>
       /\ main \in {"wait_export", "export_meta", "export_nodes"} => total >= cli.samples \/ expired
       /\ main \in {"join", "exited"} => written >= cli.samples \/ expired

SamplerIInv == SamplerTypeOK /\ Held /\ Frozen /\ Quota

LEMMA CountGrows == SamplerTypeOK => Counted \in 0..MaxTotal /\ Counted >= total
BY SamplerAssumption DEF SamplerTypeOK, Counted

LEMMA QuotaStep == SamplerIInv /\ [SamplerNext]_sampler_vars => Quota'
<1> SUFFICES ASSUME SamplerIInv, [SamplerNext]_sampler_vars PROVE Quota'
  OBVIOUS
<1>t. /\ total \in 0..MaxTotal /\ seen \in 0..MaxTotal /\ written \in 0..MaxTotal
      /\ cli.samples # NoSamples => cli.samples \in 0..MaxTotal
  BY SamplerAssumption DEF SamplerIInv, SamplerTypeOK
<1>1. ASSUME NEW w \in Worker, WorkerStep(w) PROVE Quota'
  BY <1>1, WorkerFacts DEF SamplerIInv, Quota, client
<1>2. CASE Aggregate \/ Lock
  <2>1. UNCHANGED client /\ (total' = total \/ total' = Counted)
    BY <1>2 DEF Aggregate, Recv, Disconnected, Take, Unlock, Lock
  <2>2. total' \in 0..MaxTotal /\ total' >= total
    BY <1>t, <2>1, CountGrows DEF SamplerIInv
  <2> QED BY <1>t, <2>1, <2>2 DEF SamplerIInv, Quota, client
<1>3. CASE Common
  BY <1>t, <1>3 DEF Common, WantTree, Acquire, ExportMeta, Join, Main, SamplerIInv, Quota, pipeline
<1>4. CASE Release \/ Export \/ Quit \/ Deadline
  BY <1>t, <1>4 DEF Release, Export, Quit, Deadline, Main, SamplerIInv, Quota, pipeline
<1>5. CASE Counting
  BY <1>t, <1>5 DEF Counting, Enough, Main, SamplerIInv, Quota, pipeline
<1>6. CASE Exported \/ FinishExport
  BY <1>t, <1>6 DEF Exported, FinishExport, ExportNodes, Main, SamplerIInv, Quota, pipeline
<1>7. CASE TogglePause
  BY <1>7 DEF TogglePause, SamplerIInv, Quota, client, pipeline
<1>8. CASE UNCHANGED sampler_vars
  BY <1>8 DEF sampler_vars, SamplerIInv, Quota, client, pipeline
<1> QED BY <1>1, <1>2, <1>3, <1>4, <1>5, <1>6, <1>7, <1>8 DEF SamplerNext, Threads, Browser, Headless

LEMMA SamplerIInvStep == SamplerIInv /\ [SamplerNext]_sampler_vars => SamplerIInv'
<1> SUFFICES ASSUME SamplerIInv, [SamplerNext]_sampler_vars PROVE Held' /\ Frozen'
  BY SamplerTypeStep, QuotaStep DEF SamplerIInv
<1> USE DEF SamplerIInv
<1>1. ASSUME NEW w \in Worker, WorkerStep(w) PROVE Held' /\ Frozen'
  BY <1>1, WorkerFacts DEF Held, Frozen, client
<1>2. CASE Aggregate \/ Lock
  BY <1>2 DEF Aggregate, Recv, Disconnected, Take, Unlock, Lock, Held, Frozen, client
<1>3. CASE Common
  BY <1>3 DEF Common, WantTree, Acquire, ExportMeta, Join, Main, ExportLock, Held, Frozen, pipeline
<1>4. CASE Release \/ Export \/ Quit \/ Counting \/ Deadline
  BY <1>4 DEF Release, Export, Quit, Counting, Deadline, Main, Held, Frozen, pipeline
<1>5. CASE Exported \/ FinishExport
  BY <1>5 DEF Exported, FinishExport, ExportNodes, LockAfterExport, Main, Held, Frozen, pipeline
<1>6. CASE TogglePause
  BY <1>6 DEF TogglePause, Held, Frozen, client, pipeline
<1>7. CASE UNCHANGED sampler_vars
  BY <1>7 DEF sampler_vars, Held, Frozen, client, pipeline
<1> QED BY <1>1, <1>2, <1>3, <1>4, <1>5, <1>6, <1>7 DEF SamplerNext, Threads, Browser, Headless

\* The sample count of an exported file is that of the tree in it, and is no less
\* than what was asked for unless the deadline came first.
THEOREM ExportExactAlways == SamplerSpec => []ExportExact
<1>1. SamplerInit => SamplerIInv
  BY SamplerInitTypes DEF SamplerInit, SamplerIInv, Held, Frozen, Quota
<1>2. SamplerIInv => ExportExact
  BY DEF SamplerIInv, Frozen, Quota, ExportExact
<1> QED BY <1>1, <1>2, SamplerIInvStep, PTL DEF SamplerSpec
=============================================================================
