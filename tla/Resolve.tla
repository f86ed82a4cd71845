------------------------------- MODULE Resolve -------------------------------
(***************************************************************************)
(* Resolver::resolve of src/src/sampler.rs: from a disk address to the     *)
(* paths that own it, with logical_ino and ino_paths of                    *)
(* src/src/btrfs/ops.rs.  A worker asks the kernel which inodes refer to   *)
(* the address, in a buffer that grows, then for the paths of each.  Other *)
(* programs share, unshare, link and unlink between any two calls, so a     *)
(* call finds any set of references, or of paths of an inode.              *)
(*                                                                         *)
(* A path is a sequence of names, its length that of the sequence; special *)
(* buckets begin with a negative name.  Buffers are measured in entries.   *)
(* A lookup of a subvolume may give any place it ever had: the cache of    *)
(* SubvolCache keeps the old one when another program moves it, and a      *)
(* subvolume or directory made there since has the same paths below it.    *)
(***************************************************************************)
EXTENDS Integers, FiniteSets, SequencesExt

CONSTANTS Ref,       \* InodeRef: [root, inum, offset]
          SvPath,    \* the paths each subvolume may have or have had; {<<>>}: top level
          LinkPath,  \* <<root, inum>> to the paths below its subvolume it may have
          MinBuf,    \* buffer of LOGICAL_INO at first (64 KiB), and at most
          MaxBuf,    \* (16 MiB)
          PathSlots, \* paths that fit the buffer of INO_PATHS (4 KiB)
          NoRef

Inode == {<<r.root, r.inum>> : r \in Ref}

join_path(a, b) == a \o b

pow2[k \in Nat] == IF k = 0 THEN 1 ELSE 2 * pow2[k - 1]
IsPow2(n) == \E k \in 0..n : n = pow2[k]

ASSUME ResolveAssumption ==
  /\ IsFiniteSet(Ref)
  /\ Ref \subseteq [root : Nat, inum : Nat, offset : Nat]
  /\ \A i \in Inode : /\ SvPath[i[1]] \subseteq Seq(Nat)
                      /\ LinkPath[i] \subseteq Seq(Nat) /\ IsFiniteSet(LinkPath[i])
  /\ MinBuf \in Nat /\ MaxBuf \in Nat /\ MinBuf <= MaxBuf /\ IsPow2(MinBuf) /\ IsPow2(MaxBuf)
  /\ PathSlots \in Nat \ {0}
  /\ NoRef \notin Ref

SYSTEM == <<-1>>
METADATA == <<-2>>
UNUSED == <<-3>>
UNREACHABLE == <<-4>>
UnreachableSubvol(root) == <<-4, root>>
Unlinked == <<-4, 0>>
LogicalInoError == <<-5, 1>>
InoPathsError == <<-5, 2>>
TooManyOwners == <<-5, 3>>
IsBucket(path) == path # <<>> /\ path[1] < 0

VARIABLES
  pc,        \* "idle", "ioctl", "owners"
  buf,       \* length of the worker's buffer, which it keeps
  refs, truncated,
  at,        \* the reference being looked at
  owners,    \* a set, as they are sorted in the end: [root, path, idx]
  subvols,
  sample,    \* the last result
  looked,    \* history: <<reference, place its subvolume was found at>>
  unlisted,  \* history: the kernel left out owners of it
  retries    \* history: how often LOGICAL_INO was repeated for it

locals == <<refs, truncated, at, owners, subvols, looked, unlisted>>
vars   == <<pc, buf, locals, sample, retries>>

Bucket(path) == [owners |-> <<path>>, subvols |-> {}, ratio |-> NoRef]

TypeOK ==
  /\ pc \in {"idle", "ioctl", "owners"}
  /\ buf \in MinBuf..MaxBuf
  /\ refs \in Seq(Ref)
  /\ truncated \in BOOLEAN
  /\ at \in 1..(Len(refs) + 1)
  /\ \A o \in owners : o.idx \in 0..Len(refs)
  /\ sample.owners # <<>> /\ sample.ratio \in Ref \cup {NoRef}
  /\ \A l \in looked : l[1] \in DOMAIN refs /\ l[2] \in SvPath[refs[l[1]].root]
  /\ unlisted \in BOOLEAN
  /\ retries \in Nat

Init ==
  /\ pc = "idle" /\ buf = MinBuf
  /\ refs = <<>> /\ truncated = FALSE /\ at = 1 /\ owners = {} /\ subvols = {}
  /\ sample = Bucket(UNUSED)
  /\ looked = {} /\ unlisted = FALSE /\ retries = 0

-----------------------------------------------------------------------------
(* logical_ino *)

Fresh == /\ refs' = <<>> /\ truncated' = FALSE /\ at' = 1
         /\ owners' = {} /\ subvols' = {}
         /\ looked' = {} /\ unlisted' = FALSE /\ retries' = 0

\* The address is in a data chunk, or the chunk's kind is the answer.
Start ==
  /\ pc = "idle"
  /\ Fresh
  /\ \/ pc' = "ioctl" /\ UNCHANGED sample
     \/ sample' \in {Bucket(SYSTEM), Bucket(METADATA)} /\ UNCHANGED pc
  /\ UNCHANGED buf

Answer(s) == pc' = "idle" /\ sample' = s

\* No extent there, or another error.
LogicalInoFails ==
  /\ pc = "ioctl"
  /\ Answer(Bucket(UNUSED)) \/ Answer(Bucket(LogicalInoError))
  /\ UNCHANGED <<buf, locals, retries>>

\* How many references of those there are do not fit.
Missing(shared) == IF Cardinality(shared) > buf THEN Cardinality(shared) - buf ELSE 0

MutantRetry(shared) == Missing(shared) > 0 /\ buf + Missing(shared) <= MaxBuf
Retry(shared) == Missing(shared) > 0 /\ buf < MaxBuf

AtMost(a, b) == IF a < b THEN a ELSE b
next_power_of_two(n) ==
  CHOOSE p \in {pow2[k] : k \in 0..n} : n <= p /\ \A k \in 0..n : n <= pow2[k] => p <= pow2[k]

\* The size to try next.
MutantWantUncapped(shared) == next_power_of_two(buf + Missing(shared))
MutantWant(shared) == AtMost(next_power_of_two(buf), MaxBuf)
Want(shared) == AtMost(next_power_of_two(buf + Missing(shared)), MaxBuf)

Grow ==
  /\ pc = "ioctl"
  /\ \E shared \in SUBSET Ref : Retry(shared) /\ buf' = Want(shared)
  /\ retries' = retries + 1
  /\ UNCHANGED <<pc, locals, sample>>

\* The kernel fills the buffer with as many references as fit, in an order of its own.
Decode ==
  /\ pc = "ioctl"
  /\ \E shared \in SUBSET Ref :
       /\ ~Retry(shared)
       /\ \E S \in kSubset(AtMost(Cardinality(shared), buf), shared) : refs' \in SetToSeqs(S)
       /\ truncated' = (Missing(shared) > 0)
       /\ unlisted' = (Missing(shared) > 0)
  /\ IF refs' = <<>> THEN Answer(Bucket(UNREACHABLE)) ELSE pc' = "owners" /\ UNCHANGED sample
  /\ UNCHANGED <<buf, at, owners, subvols, looked, retries>>

-----------------------------------------------------------------------------
(* The owners, one reference after the other. *)

NoIdx == 0
Special(path) == [root |-> -1, path |-> path, idx |-> NoIdx]   \* -1: u64::MAX, sorts last

\* One reference that cannot be turned into paths: its subvolume is not found, or
\* INO_PATHS fails or finds no path.
Unresolved(r) ==
  \/ owners' = owners \cup {Special(UnreachableSubvol(r.root))}
  \/ owners' = owners \cup {Special(InoPathsError)}
  \/ owners' = owners \cup {Special(Unlinked)}

\* The subvolumes of the sample with one more, unless it is the top level.
MutantFlagged(sv) == subvols
Flagged(sv) == IF sv = <<>> THEN subvols ELSE subvols \cup {sv}

\* What may come back of the paths an inode has: as many as fit.
ino_paths(here) == kSubset(AtMost(Cardinality(here), PathSlots), here)

\* Its subvolume is found at sv, and some of its paths below that are read.
Listed(r, sv) ==
  /\ \E here \in (SUBSET LinkPath[<<r.root, r.inum>>]) \ {{}} : \E paths \in ino_paths(here) :
       /\ owners' = owners \cup {[root |-> r.root, path |-> join_path(sv, p), idx |-> at] :
                                   p \in paths}
       /\ unlisted' = (unlisted \/ paths # here)
  /\ subvols' = Flagged(sv)
  /\ looked' = looked \cup {<<at, sv>>}

Owner ==
  /\ pc = "owners" /\ at <= Len(refs)
  /\ \/ Unresolved(refs[at]) /\ UNCHANGED <<subvols, looked, unlisted>>
     \/ \E sv \in SvPath[refs[at].root] : Listed(refs[at], sv)
  /\ at' = at + 1
  /\ UNCHANGED <<pc, buf, refs, truncated, sample, retries>>

\* Order of the owners: by root, length, text; the sort is stable.
TextBefore(p, q) ==
  \E k \in DOMAIN p : p[k] < q[k] /\ \A j \in 1..(k - 1) : p[j] = q[j]
Before(a, b) ==
  \/ a.root # b.root /\ (b.root = -1 \/ (a.root # -1 /\ a.root < b.root))
  \/ a.root = b.root /\ Len(a.path) < Len(b.path)
  \/ a.root = b.root /\ Len(a.path) = Len(b.path) /\ TextBefore(a.path, b.path)
  \/ a.root = b.root /\ a.path = b.path /\ a.idx < b.idx

\* The place of an owner is the number of those before it.
Place(S, o) == Cardinality({q \in S : Before(q, o)})
Sorted(S) == [i \in 1..Cardinality(S) |-> CHOOSE o \in S : Place(S, o) = i - 1]

\* Whether the i-th goes, as the one before it has its path.
MutantRepeats(s, i) == i # 1 /\ s[i].root = s[i - 1].root
Repeats(s, i) == i # 1 /\ s[i].path = s[i - 1].path

\* sort_by and dedup_by; what stays keeps its order.
Dedup(s) == Sorted({s[i] : i \in {k \in DOMAIN s : ~Repeats(s, k)}})

\* The owner that stands for those the kernel could not list.
MutantRest == {}
Rest == IF truncated THEN {Special(TooManyOwners)} ELSE {}

\* Whose extent the ratio is read from.
MutantRatioRef(canonical) == IF canonical.idx = NoIdx THEN NoRef ELSE refs[1]
RatioRef(canonical) == IF canonical.idx = NoIdx THEN NoRef ELSE refs[canonical.idx]

\* That of the extent the reference is to, or none when the search for it fails.
ratio(r) == {NoRef, r}

Finish ==
  /\ pc = "owners" /\ at > Len(refs)
  /\ LET sorted == Dedup(Sorted(owners \cup Rest)) IN
     \E found \in ratio(RatioRef(sorted[1])) :
       Answer([owners |-> [i \in DOMAIN sorted |-> sorted[i].path], subvols |-> subvols,
               ratio |-> found])
  /\ UNCHANGED <<buf, locals, retries>>

-----------------------------------------------------------------------------
resolve == LogicalInoFails \/ Grow \/ Decode \/ Owner \/ Finish

Next == Start \/ resolve

Spec == Init /\ [][Next]_vars

-----------------------------------------------------------------------------
(* Properties *)

\* The result of the last call that had references to look at.
Resolved == pc = "idle" /\ refs # <<>>

\* The paths that the files of reference i may have where its subvolume was found.
PathsAt(l) ==
  LET r == refs[l[1]] IN {join_path(l[2], p) : p \in LinkPath[<<r.root, r.inum>>]}

\* A sample credits one path alone only if no owner the kernel had was left out, as
\* its exclusive size would be too large.  (Two files with one path, one of them found
\* at an old place, are one owner all the same.)
ExclusiveSound ==
  Resolved /\ Len(sample.owners) = 1 /\ ~IsBucket(sample.owners[1]) => ~unlisted

\* Every reference is accounted for by a path of its inode's subvolume or by a
\* bucket that says why not.
Accounted ==
  \A i \in DOMAIN refs : \E k \in DOMAIN sample.owners :
    LET o == sample.owners[k] IN
    \/ o \in {InoPathsError, Unlinked, UnreachableSubvol(refs[i].root)}
    \/ \E l \in looked : l[1] = i /\ o \in PathsAt(l)

\* The owner a sample represents is a path if any is.  An owner comes twice, and then
\* counts twice in the tree, only if two subvolumes were found where they have a path
\* in common.
Canonical ==
  /\ IsBucket(sample.owners[1]) => \A k \in DOMAIN sample.owners : IsBucket(sample.owners[k])
  /\ \A i, k \in DOMAIN sample.owners : i # k /\ sample.owners[i] = sample.owners[k] =>
       \E a, b \in looked : /\ refs[a[1]].root # refs[b[1]].root
                            /\ sample.owners[i] \in PathsAt(a) \cap PathsAt(b)

\* The ratio is that of the extent the represented owner has there.
RatioFits ==
  sample.ratio # NoRef =>
    \E l \in looked : refs[l[1]] = sample.ratio /\ sample.owners[1] \in PathsAt(l)

\* A path below a subvolume never reaches the tree without the subvolume's mark,
\* on which the second question before a deletion rests.
SubvolsMarked ==
  \A l \in looked :
    l[2] # <<>> /\ Range(sample.owners) \cap PathsAt(l) # {} => l[2] \in sample.subvols

\* Sorting and removing duplicates between the references and the sample keeps all
\* owners, the first of them a path with its own ratio, and the marks of subvolumes,
\* with files that share the extent with themselves, references that fail and
\* subvolumes found where they no longer are.
OwnersRight == Resolved => Accounted /\ Canonical /\ RatioFits /\ SubvolsMarked

\* Owners are given up only when the largest buffer was too small, whatever was
\* shared between the calls; and every repetition has at least twice the buffer, so
\* there are only few of them however many references appear meanwhile.
GivesUpLate ==
  /\ truncated => buf = MaxBuf
  /\ MinBuf * pow2[retries] <= buf
=============================================================================
