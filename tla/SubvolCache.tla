----------------------------- MODULE SubvolCache -----------------------------
(***************************************************************************)
(* The resolver's cache of open subvolumes (src/src/sampler.rs), the       *)
(* sampler workers that fill it, and the delete threads that destroy       *)
(* subvolumes and then invalidate it (src/src/main.rs).                    *)
(*                                                                         *)
(* A lookup drops the mutex while it asks the kernel for the subvolume's   *)
(* path and opens it; only the generation counter tells the insert that    *)
(* the cache was invalidated meanwhile.  The kernel's subvolumes are       *)
(* external state: which roots are linked, and where.                      *)
(***************************************************************************)
EXTENDS Integers, FiniteSets

CONSTANTS Caller,    \* sampler threads
          Deleter,   \* delete threads started by start_delete
          Root,      \* subvolume ids other than the top level
          Loc,       \* paths a subvolume can be linked at
          NotCached, \* "the map has no such key"
          None,      \* the cached or returned Option::None
          MaxGen     \* bound on the number of invalidations

Subvol == [path : Loc, fd : Root]     \* fd: the root the open directory is in

ASSUME ValuesAssumption ==
  /\ NotCached \notin Subvol
  /\ None \notin Subvol
  /\ NotCached # None

ASSUME BoundAssumption == MaxGen \in Nat

VARIABLES
  fate,       \* kernel: "linked", "destroyed" (by btdua) or "foreign" (by others)
  loc,        \* kernel: where a linked root is
  generation, \* Cache.generation
  map,        \* Cache.map
  stage,      \* per caller: "idle", "path", "open", "insert"
  key,        \* the root being looked up
  gen,        \* the generation read under the first lock
  path,       \* what subvol_path returned
  res,        \* the Option<Subvol> found, kept after the return
  job,        \* per delete thread: "idle", "deleting"
  victims,    \* roots the running delete_rel has destroyed so far
  settled,    \* history: destroyed roots whose job has invalidated the cache
  begun       \* history: the value of settled when the lookup began

kernel == <<fate, loc>>
cache == <<generation, map>>
lookup == <<stage, key, gen, path, res, begun>>
deletion == <<job, victims, settled>>
cache_vars == <<kernel, cache, lookup, deletion>>

CacheTypeOK ==
  /\ fate \in [Root -> {"linked", "destroyed", "foreign"}]
  /\ loc \in [Root -> Loc]
  /\ generation \in Nat
  /\ map \in [Root -> Subvol \cup {None, NotCached}]
  /\ stage \in [Caller -> {"idle", "path", "open", "insert"}]
  /\ key \in [Caller -> Root]
  /\ gen \in [Caller -> Nat]
  /\ path \in [Caller -> Loc]
  /\ res \in [Caller -> Subvol \cup {None}]
  /\ job \in [Deleter -> {"idle", "deleting"}]
  /\ victims \in [Deleter -> SUBSET Root]
  /\ settled \in SUBSET Root
  /\ begun \in [Caller -> SUBSET Root]

Linked(r) == fate[r] = "linked"
Free(l) == \A r \in Root : Linked(r) => loc[r] # l

CacheInit ==
  /\ fate = [r \in Root |-> "linked"]
  /\ loc \in {f \in [Root -> Loc] : \A r, s \in Root : f[r] = f[s] => r = s}
  /\ generation = 0
  /\ map = [r \in Root |-> NotCached]
  /\ stage = [w \in Caller |-> "idle"]
  /\ key \in [Caller -> Root]
  /\ gen = [w \in Caller |-> 0]
  /\ path \in [Caller -> Loc]
  /\ res = [w \in Caller |-> None]
  /\ job = [d \in Deleter |-> "idle"]
  /\ victims = [d \in Deleter |-> {}]
  /\ settled = {}
  /\ begun = [w \in Caller |-> {}]

-----------------------------------------------------------------------------
(* Resolver::subvol, one action per critical section or kernel call. *)

\* Cache::get finds the key.
MutantAlwaysHit(r) == TRUE
CacheHit(r) == map[r] # NotCached

\* First lock of subvol(root): a hit returns the cached Option at once, a miss
\* remembers the generation and unlocks.
Lookup(w, r) ==
  /\ stage[w] = "idle"
  /\ key' = [key EXCEPT ![w] = r]
  /\ begun' = [begun EXCEPT ![w] = settled]
  /\ IF CacheHit(r)
     THEN res' = [res EXCEPT ![w] = map[r]] /\ UNCHANGED <<stage, gen>>
     ELSE /\ res' = [res EXCEPT ![w] = None]
          /\ gen' = [gen EXCEPT ![w] = generation]
          /\ stage' = [stage EXCEPT ![w] = "path"]
  /\ UNCHANGED <<path, kernel, cache, deletion>>

\* open_subvol returns early with None: no backref, or a failed system call.
GiveUp(w) ==
  /\ stage' = [stage EXCEPT ![w] = "insert"]
  /\ res' = [res EXCEPT ![w] = None]
  /\ UNCHANGED <<key, gen, path, begun, kernel, cache, deletion>>

\* subvol_path: where the kernel says the root is linked at this moment.
ReadPath(w) ==
  /\ stage[w] = "path"
  /\ \/ /\ Linked(key[w])
        /\ path' = [path EXCEPT ![w] = loc[key[w]]]
        /\ stage' = [stage EXCEPT ![w] = "open"]
        /\ UNCHANGED <<key, gen, res, begun, kernel, cache, deletion>>
     \/ GiveUp(w)

\* The last line of open_subvol: the opened directory must be in the root asked for.
MutantOpenedUnchecked(w, r) == [path |-> path[w], fd |-> r]
Opened(w, r) == IF r = key[w] THEN [path |-> path[w], fd |-> r] ELSE None

\* open_dir_beneath and the ino_lookup of what was opened: the directory now
\* at that path may belong to another root, and then the answer is None.
OpenDir(w) ==
  /\ stage[w] = "open"
  /\ \/ \E r \in Root :
          /\ Linked(r) /\ loc[r] = path[w]
          /\ res' = [res EXCEPT ![w] = Opened(w, r)]
          /\ stage' = [stage EXCEPT ![w] = "insert"]
          /\ UNCHANGED <<key, gen, path, begun, kernel, cache, deletion>>
     \/ GiveUp(w)

\* The test in Cache::insert.
MutantInsertAlways(w) == TRUE
InsertAccepted(w) == gen[w] = generation

\* Cache::insert under the second lock; subvol returns what it found either way.
Insert(w) ==
  /\ stage[w] = "insert"
  /\ map' = IF InsertAccepted(w) THEN [map EXCEPT ![key[w]] = res[w]] ELSE map
  /\ stage' = [stage EXCEPT ![w] = "idle"]
  /\ UNCHANGED <<key, gen, path, res, begun, generation, kernel, deletion>>

-----------------------------------------------------------------------------
(* The loop of a delete thread: delete_rel, then resolver.invalidate(). *)

BeginDelete(d) ==
  /\ job[d] = "idle"
  /\ generation < MaxGen
  /\ job' = [job EXCEPT ![d] = "deleting"]
  /\ UNCHANGED <<victims, settled, kernel, cache, lookup>>

\* One snap_destroy of the running delete_rel.
Destroy(d, r) ==
  /\ job[d] = "deleting"
  /\ Linked(r)
  /\ fate' = [fate EXCEPT ![r] = "destroyed"]
  /\ victims' = [victims EXCEPT ![d] = @ \cup {r}]
  /\ UNCHANGED <<loc, job, settled, cache, lookup>>

\* The generation after Cache::invalidate.
MutantGenerationKept == generation
NextGeneration == generation + 1

\* Cache::invalidate, called whether delete_rel succeeded or failed.
Invalidate(d) ==
  /\ job[d] = "deleting"
  /\ generation' = NextGeneration
  /\ map' = [r \in Root |-> NotCached]
  /\ settled' = settled \cup victims[d]
  /\ victims' = [victims EXCEPT ![d] = {}]
  /\ job' = [job EXCEPT ![d] = "idle"]
  /\ UNCHANGED <<kernel, lookup>>

-----------------------------------------------------------------------------
(* Other programs using the filesystem. *)

Rename(r, l) ==
  /\ Linked(r) /\ Free(l)
  /\ loc' = [loc EXCEPT ![r] = l]
  /\ UNCHANGED <<fate, cache, lookup, deletion>>

ForeignDelete(r) ==
  /\ Linked(r)
  /\ fate' = [fate EXCEPT ![r] = "foreign"]
  /\ UNCHANGED <<loc, cache, lookup, deletion>>

-----------------------------------------------------------------------------
CallerStep(w) == (\E r \in Root : Lookup(w, r)) \/ ReadPath(w) \/ OpenDir(w) \/ Insert(w)
DeleterStep(d) == BeginDelete(d) \/ (\E r \in Root : Destroy(d, r)) \/ Invalidate(d)
Others == \E r \in Root : ForeignDelete(r) \/ \E l \in Loc : Rename(r, l)

CacheNext ==
  \/ \E w \in Caller : CallerStep(w)
  \/ \E d \in Deleter : DeleterStep(d)
  \/ Others

CacheSpec == CacheInit /\ [][CacheNext]_cache_vars

-----------------------------------------------------------------------------
(* Properties *)

\* A subvolume btdua destroyed stays in the cache only until the delete_rel
\* that destroyed it has returned: no insert that raced the invalidation can
\* put it back, whatever other delete threads do (main.rs: "cached fds would
\* keep resolving into them").
NoDeadEntry ==
  \A r \in Root : map[r] \in Subvol /\ fate[r] = "destroyed" =>
    \E d \in Deleter : r \in victims[d]

\* A lookup that begins after the invalidation for a destroyed subvolume never
\* answers with that subvolume, from the cache or from the kernel.
FreshLookup ==
  \A w \in Caller : res[w] \in Subvol => key[w] \notin begun[w]

\* The directory handed out and cached for a root is in that root, however
\* subvolumes are renamed between reading the path and opening it.
RightSubvol ==
  /\ \A w \in Caller : res[w] \in Subvol => res[w].fd = key[w]
  /\ \A r \in Root : map[r] \in Subvol => map[r].fd = r
=============================================================================
