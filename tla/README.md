# A TLA+ model of btdua

btdua estimates what uses the space of a btrfs filesystem: threads pick random disk
addresses, ask the kernel which files own them, and count the owners in a tree that a
terminal browser shows while sampling goes on.  The browser also deletes files,
directories and subvolumes, in background threads.

This directory models the parts in which threads, other programs and failing system
calls can get in each other's way, checks them with TLC on small instances, and proves
the main safety properties with TLAPS for every value of the constants.  Paths such as
`src/src/tree.rs:248` are relative to the repository root's parent, as in PROJECT.json.

## Inventory

| part | code | state | operations | hard about it |
|---|---|---|---|---|
| sample tree | tree.rs | arena of nodes (parent index, children map, counters, sharers, `subvol`, `removed`) | `add_sample`, `mark_subvol`, `remove`, reads by id | ids outlive removals; a removed path is sampled again; counters are subtracted from ancestors |
| resolver | sampler.rs | cache of open subvolumes with a generation | `subvol`, `invalidate`, `resolve`, `subvolume_paths` | the lookup runs without the lock while subvolumes are renamed and destroyed |
| sampling pipeline | sampler.rs, main.rs | worker threads, bounded channel, `stop`, `paused`, the RwLock of the tree | worker loop, aggregator loop, `stop`, headless loop, export | batches under the write lock, blocking sends, joins |
| browser session | app.rs, main.rs | `App`: directory, cursors, order, marks, dialog, running jobs, errors, protected paths | keys, `apply_bg`, `refresh_subvols`, `start_delete` | ids of entries that background deletions remove; results of several threads in any order; a list that is re-ordered between drawing and the key |
| delete threads | main.rs | a list of jobs, the channel `Bg` | `delete_rel` per job, `invalidate`, results | several at once on overlapping targets; quit ends them midway |
| recursive deletion | fsat.rs, btrfs/ops.rs | open directories on the call stack | `open_parent`, `delete_at`, `destroy_nested`, `snap_destroy` | names change between stat, open and unlink; a failure in the middle |
| export, import | export.rs | a JSON file | `write`, `read` | taken while sampling goes on; nodes of the arena that are no longer in the tree |
| exact size | actions.rs, main.rs | per entry: running, done, failed | `exact_size` in a thread | results out of order, threads that outlive the browser |
| btrfs ioctls | btrfs/*.rs | buffers, the cursor of a search | `tree_search`, `logical_ino`, `ino_paths`, ... | cursor at the largest key, items of other types, growing buffer, truncated answers, a tree that changes between batches |
| opening | fsopen.rs | private mount and its directory, list of mounted paths, the `Arc` of the handle | `FsHandle::open`, `drop` | mounts over mounts; cleaning up after a failure; who drops the handle last; the list of mounts grows old |
| display | ui.rs, stats.rs | scroll position | drawing, error estimates | - |

How they interact: workers call `resolve`, which uses the cache, and send samples over
a bounded channel to the aggregator, the only thread besides the UI that writes the
tree.  The UI thread owns `App`; each turn of `tui_loop` drains the results of background
threads, refreshes the subvolume marks every five seconds, draws, and handles one key.  A
confirmed delete starts a thread that works through its jobs, invalidates the cache after
each and sends the result.  The kernel's filesystem is shared by all of them and by
other programs.

What makes each part correct is what the properties below say; what can go wrong, with
its line, is listed under "hazards" in PROJECT.json.

## Modules

```
EntryTree <--- implemented by --- PathTree      SubvolCache    Resolve    TreeSearch
    ^                                           Sampler        FsDelete   FsHandle
    | EXTENDS
 Session, Browse
```

Each module `X` has an `MCX` that gives the sets of its instances (EntryTree's are those of
the modules that use it), `.cfg` files that name the runs, and an `XProofs`.  SamplerProofs
is about the three modules of sampler.rs at once, SubvolCache, Resolve and Sampler;
what each of the three must have under a name of its own is called `CacheInit`,
`SamplerInit` and so on.  Definitions called `Mutant...`
stand before the definition of the code that they are a plausible mistake in; no
specification uses them.

**SubvolCache** (sampler.rs 43-140, main.rs 230-249).  `map` and `generation` are `Cache`;
`stage`, `key`, `gen`, `path`, `res` the locals of one `Resolver::subvol` per `Caller`.  The
actions are its critical sections and kernel calls: `Lookup` (first lock), `ReadPath`
(`subvol_path`), `OpenDir` (open and `ino_lookup`), `Insert` (second lock).  A delete thread
does `BeginDelete`, any number of `Destroy`, `Invalidate`.  Other programs rename and delete
subvolumes at any time.  `settled` and `begun` are history variables.

**Resolve** (sampler.rs 155-207, btrfs/ops.rs 71-120).  One worker turns an address into a
sample: `logical_ino` with its growing buffer, then for each reference the subvolume and
`ino_paths`.  Other programs share, unshare, link and unlink between any two calls, so each
call may find any references, and any links of an inode.  The kernel calls and the cache may
fail, and a lookup may answer with any place the subvolume ever had (`SvPath`), since the
cache of SubvolCache keeps the old one after a foreign rename; something else may have been
made there meanwhile, with paths of the same names.  `looked` is a history variable, where
each reference's subvolume was found.  Sorting, removing duplicates, the ratio and the list of subvolumes are the code's:
`Sorted` gives each owner the place that the number of those `Before` it makes, `Dedup`
drops what repeats the path of the one in front.  Buffers are counted in entries.

**TreeSearch** (btrfs/search.rs, and its callers in btrfs/ops.rs).  A key is a triple; `Copy`
is the kernel copying the next item, `Return` the end of the ioctl, `Visit` the callback,
`Advance` the next key with its carries.  `Insert` and `Delete` are other programs.
`Wanted` and `PushId` are the callbacks of the callers; `stayed` is a history variable, the
items that were in the tree ever since the search began.

**EntryTree** is the abstract specification of tree.rs: nodes are pairs of a path and the
number of the incarnation, `anc` what a walk along `parent` meets.  `AddSample`,
`MarkSubvols` and `Remove` are one step each, since each runs under the write lock.

**PathTree** is tree.rs itself: `nodes` is the arena; `add_child`, `get_or_create`,
`add_sample`, `remove`, `subtract` are the functions of the same names, `mark_subvols` is
`mark_subvol` for each path of a list.  A loop is a function of the number of turns it
has taken: `Created` calls `get_or_create` for each path, `SharersAfter` is the loop over the
leaves and `Shared` the one over the other owners.  A sample may list an owner twice, as the
resolver may (`Met` counts the walks that meet a node).  `log` is a history variable, against which the counters are compared; `entries` an
auxiliary one, what EntryTree sees of the arena.  The floating-point share 1/m of a sample is kept exactly, in units of `1/Unit`: rounding is not
modelled.  `ImplementsEntryTree` is the refinement.  `to_json`, `from_json` and
`set_counters` are those of export.rs and tree.rs, with the path of a JSON object in place of
its nesting.

**Session** (app.rs, main.rs 150-280) extends EntryTree.  `dir`, `marks`, `dialog`,
`deleting`, `delete_errors`, `protected` are fields of `App`; `pc` is the place in `tui_loop`.
`apply_bg` handles one event, `Drained` ends the drain, `Frame` is the refresh and the draw,
then one of `NoKey`, `PressD` followed by `begin_delete` or `DialogKey`, and the other keys.
`d` is two steps because `tui_loop` refreshes the subvolumes under one lock and hands the key
to `on_key` under another.  Delete threads are `BeginJob`, `DestroyNested`, `FinishJob` (with
either result), `EndThread`.  `Sampled` is the aggregator; its samples may be older than the
last deletion, so entries come back.  Any child of the directory can be the current one.
`subvolume_paths` is exact, or (with `ListingFails`) any part of the truth, as its
`unwrap_or_default` and `filter_map` make of errors.

**Browse** (app.rs 128-255) extends EntryTree too, with the counters that order the list:
`entries`, `cursor`, `selected`, `mode`, `sort`, `reverse`.  The list gives each entry the
place that the number of those before it makes.  A turn of the loop is `draw`
under one read lock and a key under another; `Sample` is the aggregator and comes between
them, `apply_bg` a deletion reported before the next draw.  `drawn` is a history variable, the
entry highlighted on the screen.

**Sampler** (sampler.rs 216-259, main.rs 108-141 and 187-201).  Workers go `top`, `check`,
`resolve`, `send`, as in their loop; the aggregator `recv`, `lock`, `batch`; the main thread is
either the `Browser` or the `Headless` loop, as the command line `cli` says.  Samples are
only counted.

**FsDelete** (fsat.rs 23-140).  The recursion is a stack of frames; every system call is a
step, and may fail.  Other programs create and move (rename or exchange) things between any
two calls; the kernel keeps ordinary files inside their subvolume.  The filesystem maps a
directory and a name to an object; only linked directories have entries and no object has
two names, so hard links are left out (`Filesystem`, an assumption on the first state that
the proofs keep for all later ones).  `Tree` is an object and all below it, as many
layers as there are objects.  `way`, `seen`, `lost` are
history variables.  In Session a whole `delete_rel` is BeginJob ... FinishJob: that it only
removes what is below its target, and that Ok means it is gone, is what this module checks.

**FsHandle** (fsopen.rs, and main.rs and sampler.rs where they hold the handle).  `Check`,
`make_mount_dir`, `private_mount`, `OpenTop` are the steps of `FsHandle::open`, each of which
may fail; `Prepare` the rest of start-up.  `holders` says who has an `Arc` of the handle:
the main thread, the workers, and each thread the browser has started.  The last one to let go
runs `Drop`: `Umount`, `RemoveDir`.  `Exit` ends the process whatever other threads are
doing.  `PressX`, `Answer`, `apply_bg` are an exact size asked for and answered.  `others`,
`there` and `busy` are history variables.

## Runs

All runs are exhaustive within their bounds.  Deadlock is checked where nothing bounds the
model's steps (resolve, browse, fs_handle); elsewhere sessions exit, searches and deletions
end, and the bounds stop the rest.

| run | shows | bounds |
|---|---|---|
| subvol_cache | `NoDeadEntry`, `FreshLookup`, `RightSubvol` | 2 workers, 2 delete threads, 2 roots, 3 places, 2 invalidations: a lookup can be overtaken by two |
| path_tree | `CountersExact`, `SharersSound`, `RoundTrip`, `ImplementsEntryTree` | 3 samples of one to three owners, one of which lists an owner twice; 6 nodes, so removed paths come back; lists of two sharers, which a sample with a known and a new owner finds full |
| session | `DirLive`, `TargetsAllowed` | 1 delete of one target, of two beside each other, or of an ancestor two levels above the directory shown; nothing or d/s mounted; a bucket; another program creates d/s once |
| session_two | `DeletingExact`, `TargetsAllowed`, `AskTwice`, `FailureShown`, `DeletesReported` | 2 deletes of d, of d/s in it, or of one and the other; d/s a subvolume or not; every path re-created once, so what the first delete removed is back when the second asks, and the first one's events come before, between and after its questions |
| sampler | `PauseHolds`, `ExportExact`, `Progress` | 2 workers, a channel of 1 that is always full or empty, batches of 1 more, the count up to 2; the browser, and exports with and without `--seconds`, after 0, 2 or any number of samples |
| fs_delete | `OnlyTarget`, `OkMeansGone`, `WholeSubvolumes` | a directory with a subvolume, or subvolumes nested through a directory; 2 foreign changes: one exchange and one back, or a link put in the way |
| tree_search | `Complete`, `IdsExact`, `Ends` | two values of each part of a key, so every carry happens and the largest key is met; 6 items, batches of up to 2, and the five shapes of range the callers use |
| resolve | `ExclusiveSound`, `OwnersRight`, `GivesUpLate` | 3 references, two of one inode; an inode with up to three links of which two fit, and one in a subvolume that was moved, with one of those links now at its old path; buffers of 1 and 2 entries, so 2 of 3 references may be cut off |
| browse | `KeyHitsDrawn`, `LeaveReturns` | 3 samples and 2 deletions, two levels, a bucket; every order and mode; a removed entry comes back once |
| fs_handle | `HandleRight`, `Tidy`, `ExactAnswered` | all tables of up to 3 mounts at 4 places, of 3 sources; 2 directories, one or both taken; 3 threads and 2 entries, so answers cross |

Two workers, threads or deletions are enough for one to overtake the other; more only
repeat the same pairs, and the proofs cover any number where there are proofs.
`session_two` has no more than three paths, as it checks liveness; what needs more of them,
a bucket, or a subvolume made by another program is in `session`, where one delete is
enough.  That `DeletingExact` holds for threads of several jobs is proved.  In `resolve` three
references and a buffer that can hold two show both a list that is cut off and one that fits
after the repetition; sorting and the removal of duplicates are comparisons of pairs.

Some limits of the properties are part of what they say.  `KeyHitsDrawn` is about a
directory in which an entry was once selected and still exists (below, why not in others).
`CountersExact` says of `shared` only that it is never too large once something below the
node was removed (below).  `OwnersRight` lets an owner come twice when two subvolumes
were found where they have that path in common; the two are adjacent, and one of them goes,
only if no other owner sorts between them.  Such a sample counts twice in what it
distributes to that path, which PathTree covers.  `HandleRight` excepts mounts
that hide others: `mount_source` takes the longest mount point, of equals the first, also
when a later mount hides it.  `Tidy` excepts a failure of `File::open(&dir)` and threads
that still run when main returns: the mount directory then stays behind in /run.
`ExclusiveSound` takes for granted that two links of one inode fit the buffer of `ino_paths`:
nothing tells the code that links did not fit (only for `logical_ino` is a truncated list
seen, sampler.rs:194), and what saves it is that a file with two or more paths in
hand is not credited to one.  In 4096 bytes two paths fit unless one is longer than half.

### Where documents and code disagree

Two runs end in a violation; PROJECT.json quotes the lines.

- `v_excl`: Excl is not the space freed once a co-owner has been deleted: what was shared
  stays shared.  `CountersExact` states what it is instead.
- `v_unlisted`: a listing that fails is taken for complete, so that a target with a
  subvolume no sample has shown is deleted after one question.  Sampled subvolumes are
  marked by their own samples, which is why `AskTwice` holds otherwise.

Others that came up while modelling, without a run of their own.  For the first three,
properties of the passing runs say what does hold:

- Shared of a directory loses samples that it does share (README.md:38 says "space the entry
  shares with paths outside it").  Say d/x and d/y have one extent, d/y and e another: the
  first is exclusive to d but shared for d/x (tree.rs:172), so removing d/x takes 1 from
  `shared` of d, which was there for the second (tree.rs:255); without the second, the
  subtraction saturates at 0 (tree.rs:49).  `SharedExact`, in `CountersExact`.
- After another program's `mv sub old`, with a file f made at sub/f, the cache still calls
  the subvolume sub (sampler.rs:105).  Its own f and the new one get the same path and, if
  nothing sorts between them, become one owner (sampler.rs:199), to which the extent is
  credited exclusively although two files hold it; else the owner comes twice.
  `OwnersRight` is checked and proved with such lookups.
- Until the cursor is moved in a directory nothing is selected in it, and the cursor is the
  first row (once the selected entry is gone, the row it had; app.rs:159): a sample between
  the draw and the key puts another entry under it.  The design says that "re-sorting never
  moves the cursor to a different entry"
  (src/docs/superpowers/specs/2026-09-23-btdua-design.md:117).  `KeyHitsDrawn` is about all
  other cases.
- What is mounted after the start is not protected (main.rs:155; README.md:70 makes no such
  exception).
- An event of an earlier deletion, applied after the refresh that `d` makes, takes the
  subvolume mark of a path that was re-created meanwhile (main.rs:255, main.rs:179).
  `AskTwice` excepts it, as only another program can re-create the subvolume.
- `destroy_nested` decides on its own stat, `delete_at` stats again; an entry exchanged in
  between is deleted as whatever it is (fsat.rs:129-134).  `WholeSubvolumes` states that this
  is the only way a file of a nested subvolume goes without it.
- `Cache::insert` keeps a lookup that failed for a passing reason as `None` until something
  is deleted, and its samples count as `<UNREACHABLE>`.
- A sharer that is seen again keeps its place in the list and is dropped first.
- When every mark is of an entry that is gone, `d` takes the cursor entry although the
  header still counts marks.

## Fairness

Session: weak fairness of the UI loop, which never waits longer than a poll of 250 ms, and
of each delete thread, whose system calls return.  Nothing is assumed of the user, of the
samples or of other programs.  `DeletesReported` rests on `MaxRequests`: a user who starts
deletions forever can keep `deleting` above 0, so the claim is that errors are shown
once no new deletion is started.

Sampler: weak fairness of every thread's own steps.  Taking the lock is strongly fair, for
the aggregator and the main thread: parking_lot hands a lock over eventually even if
others keep taking it.  The deadline passes; the user need never press a key.

TreeSearch: weak fairness of the search itself, as the kernel's calls return; nothing is
assumed of the programs that change the tree, which may add items in front of it for ever.

FsHandle: weak fairness of `apply_bg`, as the loop goes round every 250 ms, and of each
thread's `Answer`, as a walk over a finite tree ends.  The user need never quit.

SubvolCache, EntryTree, PathTree, Resolve, Browse and FsDelete state safety only.

## Proofs

The theorems hold for every value of the constants under the ASSUMEs of the modules, which
TLC evaluates in each run.  Every safety property of every passing run is the conclusion of
one; `AskTwice` and `ExclusiveSound` have a condition, given below.

- EntryTreeProofs: `TreeTypeCorrect`, `TrieAlways`.  The invariant adds that `made` bounds
  the incarnations, so that a new node is new, and that the node of a live path has its
  chain alive.
- PathTreeProofs: `TypeCorrect`, `Refinement`, `CountersCorrect`, `SharersCorrect`,
  `RoundTripCorrect`, for any samples, owners listed twice included, any lists of subvolumes
  and any order of removals.
  `Arena` says that parents come first, that a children map leads to exactly the nodes
  below that were not removed, and so that a path has one live node; `LogOK` and `ListsOK`
  give the history and the sharers their types, `Tracked` ties `entries` to the
  arena.  Together they are `IInv`.  What the loops do is stated once (`Loop`: what holds at
  the start and is kept by every turn holds at the end) and used for `get_or_create`,
  `Created`, `Shared` and `SharersAfter`.
  *Counters.*  `Counted` is inductive with `IInv`: at a live node, each counter but `shared` is the
  number, or the sum, of the samples that `CountersExact` names.  A sample adds the same to
  both sides; a removal takes from every node above exactly what it counts of the removed
  one (`LessPart`), which is why their saturation in `subtract` never happens and nothing is
  taken twice.  `shared` is the exception: a removed entry may have more of it than the node
  above it, so `AllShared` says that it is at most the number of samples with owners on both
  sides, and equal to it while nothing below was removed.
  *Refinement.*  A step of the arena grows the set of entries by the nodes it creates,
  each with its path, the number of its predecessors there and the chain above it
  (`EntryGrows`), or marks one removed (`EntryRemoves`); both are steps of EntryTree or
  stutter.
  *Round trip.*  What `to_json` reaches through the children maps from the root is the
  live nodes (`ReachedLive`), each with a path of its own; `from_json` keeps, in whatever
  order it takes the objects, that those it has read have their counters and marks
  (`ReadHolds`), and as prefixes of what is exported are exported, no node is left
  without.
- SessionProofs: `TypeCorrect`, `DirLiveAlways`, `TargetsAllowedAlways`.  They use the
  trie: moving up from a removed directory ends at a live ancestor because the root is
  live and chains are linearly ordered; and the nodes of threads, dialogs, marks and
  events stay in `known` because nodes are never reused.
  `DeletingExactAlways` and `FailureShownAlways`: a job is not begun, begun, or answered
  in the channel, and never in two of these places, so that each event that is applied
  takes one job off the count; behind every answer comes a `DeleteDone`, and only the last
  one, when the count is 0, shows the errors, which leave `delete_errors` in no other way.
  `AskTwiceAlways`, for a listing that does not fail, as long as no other program created
  a subvolume: a first confirmation is open only if every subvolume on disk at or below a
  target has a marked node below that target, which no `Deleted` event still in the
  channel can take away, since a job whose event is there has destroyed what it removes.
- BrowseProofs: `TypeCorrect`, `KeyHitsDrawnAlways`, `LeaveReturnsAlways`, for any names
  that differ within a directory, any page and any samples and removals.  Siblings differ
  in name, so `Before` is a total order on the entries of a directory and the list has
  each of them once, in every order and either direction (`ListFacts`).  `Placed` says that
  what a directory remembers was an entry of it: as long as that entry is live the cursor
  is on it (`OnSelected`), wherever it stands by now.  `DrawnIsSelected` says that a frame
  highlighted it; no sample between the draw and the key removes an entry, which is what
  the rest of `KeyHitsDrawn` needs.  Where nothing is remembered, or it is gone, only that
  some entry is under the cursor is proved, and more does not hold.
- SamplerProofs, of SubvolCache: `CacheTypeCorrect`, `NoDeadEntryAlways`,
  `FreshLookupAlways`, `RightSubvolAlways`.  `NoDeadEntry` is not inductive: a lookup under
  way may hold a subvolume that has just been destroyed.  The invariant adds that such a
  lookup has an older generation, or the deletion is not finished; and that a root found
  by a lookup with the current generation was not destroyed by a finished deletion.
- SamplerProofs, of Resolve: `TypeCorrect`, `GivesUpLateAlways`, `OwnersRightAlways`,
  `ExclusiveSoundAlways` (for `PathSlots >= 2`, see above), for any references, links,
  failures and buffers whose smallest and largest sizes are powers of two.  `Before` is a
  total order, so `Sorted` of a finite set is that set in order; owners of one path and one
  subvolume stand together, and `Dedup` leaves one of them (`DedupFacts`), so that an owner
  that is left twice was reached through two subvolumes.  Nothing is assumed of where
  subvolumes are found.  The
  invariant says of each owner in hand which reference it is of, that its subvolume is
  marked, and that no reference already looked at is without one.
- SamplerProofs, of Sampler: `SamplerTypeCorrect`, `PauseHoldsAlways`,
  `ExportExactAlways`, for the browser and the headless run alike.  The invariant relates
  each worker's place to the samples it has sent since the pause, the holder of the lock
  to the places of aggregator and main thread, and the number of samples to the answer
  `Enough` gave.
- TreeSearchProofs: `TypeCorrect`, `AscendingAlways`, `CompleteAlways`,
  `FirstFoundAlways`, for any widths of the parts of a key, any tree and any size of the
  buffer.  They rest on one lemma about the carry (`NextKeyIsLeast`: the next key is the
  least above the last, and there is none only at the largest).  The invariant says that
  what was visited and what is in the buffer is ascending, and that an item that has been
  there throughout is among it unless it lies beyond.  `IdsExactAlways` goes by induction
  on the number of items that `subvolume_ids` was given.
- FsDeleteProofs: `TypeCorrect`, `OnlyTargetAlways`, `WholeSubvolumesAlways`,
  `OkMeansGoneAlways`, for any filesystem, any target, any failures and any number of
  changes by other programs.  First what a removal, a new entry and a move do to `Tree`
  (`RemoveTrees`, `CreateTrees`, `MoveTrees`).  `IInv` describes the stack: which frame may
  call which, and that every directory a frame holds was reached through what is or was at
  the target.  `FsInv` says that the filesystem stays one and that what was removed is
  apart from what is linked; `Owned`, that the objects of a directory belong to its
  subvolume, from which whole subvolumes follow; `Unmoved`, that without moves a directory
  being emptied has lost all of its entries when its loop is through.
- FsHandleProofs: `TypeCorrect`, `HandleRightAlways`, `TidyAlways`, for any path, mount
  table, directories and threads.  The invariant says who may hold the handle at each place
  of the main thread, that there is no holder once `Drop` has begun, and which directories
  there are.  That the longest mount point is the right one rests on two lemmas: of two
  prefixes of a path the longer starts with the other, and in a table whose root is
  mounted some mount on the way is the last.

Definitions that recurse over numbers (`Tree`, `pow2`, `subvolume_ids`, the walks and loops of
PathTree) are recursive functions, and what the proofs say of them is proved by induction,
stated with sets: a set of numbers that has 0 and the successor of each member has all, or
one that has each number with all below it (`AllNumbers`).  The fold in `from_json` goes by the
number of objects it reads.

Only model-checked is liveness: `DeletesReported`, `Progress`, `Ends` and `ExactAnswered` are
under fairness, which TLAPS does not reach.

## Not modelled

Rendering and statistics (display only, floating point) and argument parsing.  The text
formats: mountinfo, ioctl buffers, JSON files and dialogs; the write of an export and its
errors.  The walk of `exact_size`, a read-only sum over extents, and `ChunkMap::pick`, an
offset from a random number, are arithmetic without state that others rely on.  In PathTree
the rounding of f64; in Session the order of a thread's jobs, left open.  A rename of
an ancestor between two steps of one `subvol_path` is not modelled: SubvolCache reads a path
at once.

## Plan

1. Done: the modules and theorems above.
2. Compositions: a Session whose FinishJob is FsDelete's promise, as an abstract
   specification that FsDelete implements; SubvolCache with `subvol_path` level by level, and
   `subvolume_paths` over it.
