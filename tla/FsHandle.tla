------------------------------ MODULE FsHandle -------------------------------
(***************************************************************************)
(* The life of FsHandle (src/src/fsopen.rs): opening the filesystem at its *)
(* top level in a mount of the program's own, the threads that hold the    *)
(* handle, and its release when the last of them lets go.  The threads are *)
(* the sampler's workers and those of src/src/main.rs, of which the ones   *)
(* measuring an exact size are followed to their answer; deleting threads  *)
(* hold the handle alike, and Session has their results.                   *)
(*                                                                         *)
(* The mount table is the one of the moment it is read.  Two mounts of one *)
(* filesystem show the same source, so a source stands for a filesystem.   *)
(***************************************************************************)
EXTENDS Naturals, Sequences

CONSTANTS Path,   \* PATH of the command line, a sequence of names
          Tables, \* mount tables, in the order of mounting: [at, root, fstype, source]
          Dir,    \* names make_mount_dir may draw
          Thread, \* threads the browser may start
          Node,   \* entries whose exact size may be asked for
          Nothing \* no device, directory, thread or entry

Mount == [at : Seq(STRING), root : STRING, fstype : STRING, source : STRING]

ASSUME HandleAssumption ==
  /\ Path \in Seq(STRING)
  /\ Tables \subseteq Seq(Mount)
  /\ \A t \in Tables : \E i \in DOMAIN t : t[i].at = <<>>   \* the root is mounted
  /\ Nothing \notin STRING \cup Dir \cup Thread \cup Node
  /\ Thread \cap {"main", "workers"} = {}

VARIABLES
  pc,        \* of the main thread
  info,      \* /proc/self/mountinfo
  dirs, attached,           \* kernel: the directories in /run, our mount
  device, mounted, mount,   \* fields of FsHandle
  holders,   \* who has an Arc of the handle
  drop, dropper,            \* where Drop is, and in which thread
  walk,      \* the entry each thread is measuring
  bg, exact, \* answers on their way, and those App has
  started,   \* history: the threads used up
  others,    \* history: directories of other programs
  there,     \* history: the mount PATH was in
  busy       \* history: threads were running when main returned

opened  == <<device, mounted, mount>>
handle  == <<holders, drop, dropper>>
sizes   == <<walk, bg, exact, started>>
history == <<others, there, busy>>
vars    == <<pc, info, dirs, attached, opened, handle, sizes, history>>

Init ==
  /\ pc = "check" /\ info \in Tables
  /\ dirs \in SUBSET Dir /\ attached = FALSE
  /\ device = Nothing /\ mounted = {} /\ mount = Nothing
  /\ holders = {} /\ drop = "no" /\ dropper = Nothing
  /\ walk = [t \in Thread |-> Nothing] /\ started = {}
  /\ bg = <<>> /\ exact = [n \in Node |-> "unknown"]
  /\ others = dirs /\ there = [source |-> Nothing, covered |-> FALSE] /\ busy = FALSE

-----------------------------------------------------------------------------
(* Reading the mount table. *)

StartsWith(p, q) == Len(q) <= Len(p) /\ SubSeq(p, 1, Len(q)) = q
Candidates == {i \in DOMAIN info : info[i].fstype = "btrfs" /\ StartsWith(Path, info[i].at)}

\* The longest mount point, the first of several.
MutantBetter(i, k) == Len(info[i].at) < Len(info[k].at) \/ i < k
Better(i, k) ==
  \/ Len(info[i].at) > Len(info[k].at)
  \/ Len(info[i].at) = Len(info[k].at) /\ i < k
mount_source ==
  IF Candidates = {} THEN Nothing
  ELSE info[CHOOSE i \in Candidates : \A k \in Candidates \ {i} : Better(i, k)].source

mounted_subvols(dev) ==
  {info[i].root : i \in {k \in DOMAIN info : info[k].fstype = "btrfs" /\ info[k].source = dev}}

\* The mount PATH is in: the last one on its way, as a mount hides what is below.
Governing ==
  CHOOSE i \in DOMAIN info :
    /\ StartsWith(Path, info[i].at)
    /\ \A k \in DOMAIN info : k > i => ~StartsWith(Path, info[k].at)
Covered ==
  \E i, k \in DOMAIN info : i < k /\ StartsWith(info[i].at, info[k].at)

-----------------------------------------------------------------------------
(* FsHandle::open and the rest of start-up.  Any call may fail. *)

Fail == pc' = "exit"

Check ==
  /\ pc = "check"
  /\ \/ Fail /\ UNCHANGED <<opened, there>>
     \/ /\ info[Governing].fstype = "btrfs" /\ mount_source # Nothing
        /\ device' = mount_source
        /\ mounted' = mounted_subvols(mount_source)
        /\ there' = [source |-> info[Governing].source, covered |-> Covered]
        /\ pc' = "dir" /\ UNCHANGED mount
  /\ info' = <<>>
  /\ UNCHANGED <<dirs, attached, handle, sizes, others, busy>>

\* A directory is created, never one that is there reused.
MutantFresh(d) == TRUE
Fresh(d) == d \notin dirs

make_mount_dir ==
  /\ pc = "dir"
  /\ \/ Fail /\ UNCHANGED <<dirs, mount>>
     \/ \E d \in Dir : Fresh(d) /\ dirs' = dirs \cup {d} /\ mount' = d /\ pc' = "mount"
  /\ UNCHANGED <<info, attached, device, mounted, handle, sizes, history>>

\* The directories after a failed mount.
Cleared == dirs \ {mount}

private_mount ==
  /\ pc = "mount"
  /\ \/ Fail /\ dirs' = Cleared /\ UNCHANGED attached
     \/ pc' = "top" /\ attached' = TRUE /\ UNCHANGED dirs
  /\ UNCHANGED <<info, opened, handle, sizes, history>>

\* When the top level cannot be opened there is no handle yet, so no Drop.
OpenTop ==
  /\ pc = "top"
  /\ \/ Fail /\ UNCHANGED holders
     \/ pc' = "prepare" /\ holders' = {"main"}
  /\ UNCHANGED <<info, dirs, attached, opened, drop, dropper, sizes, history>>

\* The chunk tree, the fsid and the size are read, then the workers start.
Prepare ==
  /\ pc = "prepare"
  /\ \/ pc' = "return" /\ UNCHANGED holders
     \/ pc' = "run" /\ holders' = holders \cup {"workers"}
  /\ UNCHANGED <<info, dirs, attached, opened, drop, dropper, sizes, history>>

-----------------------------------------------------------------------------
(* The browser and its threads. *)

\* A thread starts, with an Arc of its own.
MutantSpawn(t) == t \notin started /\ started' = started \cup {t} /\ UNCHANGED holders
Spawn(t) == t \notin started /\ started' = started \cup {t} /\ holders' = holders \cup {t}

\* Action::Exact of an entry.
PressX ==
  /\ pc = "run"
  /\ \E t \in Thread, n \in Node :
       Spawn(t) /\ walk' = [walk EXCEPT ![t] = n] /\ exact' = [exact EXCEPT ![n] = "Running"]
  /\ UNCHANGED <<pc, info, dirs, attached, opened, drop, dropper, bg, history>>

\* Action::Delete.
start_delete ==
  /\ pc = "run"
  /\ \E t \in Thread : Spawn(t)
  /\ UNCHANGED <<pc, info, dirs, attached, opened, drop, dropper, walk, bg, exact, history>>

Running == pc # "exit"

\* exact_size returns; the answer is sent.
MutantAnswered(t) == bg
Answered(t) == Append(bg, walk[t])

Answer(t) ==
  /\ Running /\ walk[t] # Nothing
  /\ bg' = Answered(t)
  /\ walk' = [walk EXCEPT ![t] = Nothing]
  /\ UNCHANGED <<pc, info, dirs, attached, opened, handle, exact, started, history>>

\* Bg::Exact.
apply_bg ==
  /\ pc = "run" /\ bg # <<>>
  /\ bg' = Tail(bg) /\ exact' = [exact EXCEPT ![Head(bg)] = "Answered"]
  /\ UNCHANGED <<pc, info, dirs, attached, opened, handle, walk, started, history>>

\* An Arc goes, and Drop runs where the last one goes.
MutantLast(h) == h = "main"
Last(h) == holders = {h}

Release(h) ==
  /\ holders' = holders \ {h}
  /\ IF Last(h) THEN drop' = "umount" /\ dropper' = h ELSE UNCHANGED <<drop, dropper>>

\* A thread returns and gives up what it has captured.
EndThread(t) ==
  /\ Running /\ t \in holders /\ walk[t] = Nothing
  /\ Release(t)
  /\ UNCHANGED <<pc, info, dirs, attached, opened, sizes, history>>

-----------------------------------------------------------------------------
(* The end. *)

\* Quit or the end of headless, then Sampler::stop, which joins the workers.
MutantJoined == UNCHANGED handle
Joined == Release("workers")

Stop ==
  /\ pc = "run" /\ pc' = "return"
  /\ Joined
  /\ UNCHANGED <<info, dirs, attached, opened, sizes, history>>

\* main gives up its own.
Return ==
  /\ pc = "return" /\ pc' = "leave"
  /\ Release("main")
  /\ busy' = (holders \cap Thread # {})
  /\ UNCHANGED <<info, dirs, attached, opened, sizes, others, there>>

Umount ==
  /\ Running /\ drop = "umount"
  /\ drop' = "rmdir" /\ attached' = FALSE
  /\ UNCHANGED <<pc, info, dirs, opened, holders, dropper, sizes, history>>

RemoveDir ==
  /\ Running /\ drop = "rmdir"
  /\ drop' = "done" /\ dirs' = dirs \ {mount}
  /\ UNCHANGED <<pc, info, attached, opened, holders, dropper, sizes, history>>

\* The process ends with main, whatever its other threads are doing.
Exit ==
  /\ pc = "leave" /\ (dropper = "main" => drop = "done")
  /\ pc' = "exit"
  /\ UNCHANGED <<info, dirs, attached, opened, handle, sizes, history>>

-----------------------------------------------------------------------------
Open == Check \/ make_mount_dir \/ private_mount \/ OpenTop \/ Prepare
UI == PressX \/ start_delete \/ apply_bg \/ Stop
Drop == Umount \/ RemoveDir
Ended == pc = "exit" /\ UNCHANGED vars

Next == Open \/ UI \/ (\E t \in Thread : Answer(t) \/ EndThread(t)) \/ Return \/ Drop \/ Exit \/ Ended

Spec == Init /\ [][Next]_vars

\* Walks over files end, and the loop of the browser goes round.
FairSpec == Spec /\ WF_vars(apply_bg) /\ \A t \in Thread : WF_vars(Answer(t))

-----------------------------------------------------------------------------
(* Properties *)

TypeOK ==
  /\ pc \in {"check", "dir", "mount", "top", "prepare", "run", "return", "leave", "exit"}
  /\ dirs \subseteq Dir /\ attached \in BOOLEAN
  /\ device \in STRING \cup {Nothing} /\ mount \in Dir \cup {Nothing}
  /\ holders \subseteq {"main", "workers"} \cup Thread
  /\ drop \in {"no", "umount", "rmdir", "done"}
  /\ walk \in [Thread -> Node \cup {Nothing}] /\ started \subseteq Thread
  /\ \A t \in Thread : walk[t] # Nothing => t \in holders
  /\ exact \in [Node -> {"unknown", "Running", "Answered"}]
  /\ bg \in Seq(Node)

\* Whoever can use the handle, a thread that deletes or measures while the browser
\* ends included, has the top level of a filesystem that is still mounted; and that
\* filesystem is the one PATH is on, as long as no mount hides another.
HandleRight ==
  /\ holders # {} => attached /\ drop = "no"
  /\ device # Nothing /\ ~there.covered => device = there.source

\* No directory of another program is ever removed, and the program's own is gone
\* when it has ended, unless the top level could not be opened after it was
\* mounted or threads were still running when main returned.
Tidy ==
  /\ others \subseteq dirs
  /\ pc = "exit" => dirs = others \/ busy \/ (attached /\ drop = "no" /\ holders = {})

\* An exact size that was asked for arrives, also when it is asked for again and
\* the answers come in another order.
ExactAnswered ==
  \A n \in Node : LET Waiting == exact[n] = "Running"
                  IN Waiting ~> (~Waiting \/ pc # "run")
=============================================================================
