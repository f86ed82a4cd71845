------------------------------- MODULE Session -------------------------------
(***************************************************************************)
(* A live session: the browser state App (src/src/app.rs), the loop that   *)
(* drives it (tui_loop in src/src/main.rs), the delete threads it starts   *)
(* and the channel their results come back on.                             *)
(*                                                                         *)
(* Only the UI thread writes App and removes entries; the aggregator adds  *)
(* entries at any time (AddSample of EntryTree); delete threads and other  *)
(* programs change the filesystem.  Which child the cursor is on is left   *)
(* open: any child of the directory can be the current entry.              *)
(***************************************************************************)
EXTENDS EntryTree, Sequences

CONSTANTS Special,     \* paths at or below a <BUCKET>
          Mounts,      \* sets of paths that may be mounted when the filesystem is opened
          SubvolPath,  \* paths where there can be a subvolume
          ListingFails,\* whether the kernel may refuse to list some of them
          NoNode,      \* a delete thread between two jobs
          MaxRequests, \* bound: confirmed deletes, and so delete threads
          MaxCreates   \* bound: subvolumes other programs create

ASSUME SessionAssumption ==
  /\ Special \subseteq Path \ {Top}
  /\ \A p \in Path : Up[p] \cap Special # {} => p \in Special
  /\ Mounts \subseteq SUBSET Path
  /\ SubvolPath \subseteq Path
  /\ ListingFails \in BOOLEAN
  /\ NoNode \notin Node
  /\ MaxRequests \in Nat
  /\ MaxCreates \in Nat

Thread == 1..MaxRequests   \* a delete thread is the request that started it

VARIABLES
  pc,            \* the UI loop: "drain", "frame", "poll", "d", "exited"
  checked,       \* subvols_checked is Some
  dir, marks, dialog, deleting, delete_errors, protected,   \* App
  requests,      \* how many delete threads were started
  running,       \* those that have not sent DeleteDone
  todo,          \* per thread: jobs not begun
  cur,           \* per thread: the job delete_rel is working on
  bg,            \* the unbounded channel of Bg events
  svol,          \* disk: paths that are subvolumes
  creates        \* bound counter

app     == <<dir, marks, dialog, deleting, delete_errors, protected>>
loop    == <<pc, checked>>
threads == <<requests, running, todo, cur>>
disk    == <<svol, creates>>
vars    == <<tree, app, loop, threads, bg, disk>>

None == [kind |-> "None"]
Help == [kind |-> "Help"]
Export == [kind |-> "Export"]
Info(n) == [kind |-> "Info", node |-> n]
Confirm(ids, stage) == [kind |-> "Confirm", targets |-> ids, stage |-> stage]
Message(failed) == [kind |-> "Message", failed |-> failed]   \* failed: jobs it reports

Dialog ==
  {None, Help, Export} \cup [kind : {"Info"}, node : known]
  \cup [kind : {"Confirm"}, targets : SUBSET known, stage : {1, 2}]
  \cup [kind : {"Message"}, failed : SUBSET known]

Event == [type : {"Deleted", "DeleteFailed"}, by : Thread, node : known]
         \cup [type : {"DeleteDone"}, by : Thread]

TypeOK ==
  /\ TreeTypeOK
  /\ pc \in {"drain", "frame", "poll", "d", "exited"}
  /\ checked \in BOOLEAN
  /\ dir \in known
  /\ marks \in SUBSET known
  /\ dialog \in Dialog
  /\ deleting \in Nat
  /\ delete_errors \in SUBSET known
  /\ protected \in SUBSET Path
  /\ requests \in 0..MaxRequests
  /\ running \in SUBSET (1..requests)
  /\ todo \in [Thread -> SUBSET known]
  /\ cur \in [Thread -> known \cup {NoNode}]
  /\ bg \in Seq(Event)
  /\ svol \in SUBSET SubvolPath
  /\ creates \in 0..MaxCreates

Init ==
  /\ TreeInit
  /\ pc = "drain"
  /\ checked = FALSE
  /\ dir = ROOT
  /\ marks = {}
  /\ dialog = None
  /\ deleting = 0
  /\ delete_errors = {}
  /\ protected \in Mounts     \* FsHandle.mounted, read once when it is opened
  /\ requests = 0
  /\ running = {}
  /\ todo = [r \in Thread |-> {}]
  /\ cur = [r \in Thread |-> NoNode]
  /\ bg = <<>>
  /\ svol \in SUBSET SubvolPath
  /\ creates = 0

Covers(p, q) == p = q \/ p \in Up[q]

-----------------------------------------------------------------------------
(* The loop: drain the channel, refresh and draw, wait for a key.            *)

\* What subvolume_paths returns.  An error is no error to it: the list is empty, or
\* lacks the subvolumes whose path could not be read.
subvolume_paths == IF ListingFails THEN SUBSET svol ELSE {svol}

\* refresh_subvols: read the list, then mark its paths under the write lock.  A
\* subvolume that appears or goes away between is as if it did so after.
refresh_subvols(S) == MarkSubvols(S)

\* How far the directory on display moves up once `gone` are removed.
MutantNearestLive(n, gone) ==
  IF Chain(n) \cap gone = {} THEN n ELSE parent(n)
NearestLive(n, gone) ==
  CHOOSE m \in Chain(n) : /\ Chain(m) \cap gone = {}
                          /\ \A k \in Chain(n) : Chain(k) \cap gone = {} => k \in Chain(m)

\* deleting after a failed job.
MutantAfterFailure == deleting
AfterFailure == IF deleting = 0 THEN 0 ELSE deleting - 1

ApplyDeleted(id) ==
  /\ Remove(id)
  /\ marks' = marks \ {id}
  /\ deleting' = IF deleting = 0 THEN 0 ELSE deleting - 1
  /\ dir' = NearestLive(dir, removed')
  /\ UNCHANGED <<dialog, delete_errors, protected>>

MutantApplyDeleteFailed(id) ==
  /\ Remove(id)
  /\ delete_errors' = delete_errors \cup {id}
  /\ deleting' = AfterFailure
  /\ dir' = NearestLive(dir, removed')
  /\ UNCHANGED <<marks, dialog, protected>>
ApplyDeleteFailed(id) ==
  /\ delete_errors' = delete_errors \cup {id}
  /\ deleting' = AfterFailure
  /\ UNCHANGED <<tree, dir, marks, dialog, protected>>

\* The test before the errors are shown.
MutantErrorsDue == deleting = 0
ErrorsDue == deleting = 0 /\ delete_errors # {}

MutantApplyDeleteDone ==
  /\ dialog' = IF ErrorsDue THEN Message(delete_errors) ELSE dialog
  /\ delete_errors' = {}
  /\ UNCHANGED <<tree, dir, marks, deleting, protected>>
ApplyDeleteDone ==
  /\ IF ErrorsDue
     THEN dialog' = Message(delete_errors) /\ delete_errors' = {}
     ELSE UNCHANGED <<dialog, delete_errors>>
  /\ UNCHANGED <<tree, dir, marks, deleting, protected>>

\* apply_bg for the next event of the channel.
apply_bg ==
  /\ pc = "drain" /\ bg # <<>>
  /\ bg' = Tail(bg)
  /\ LET ev == Head(bg) IN
     \/ ev.type = "Deleted" /\ ApplyDeleted(ev.node)
     \/ ev.type = "DeleteFailed" /\ ApplyDeleteFailed(ev.node)
     \/ ev.type = "DeleteDone" /\ ApplyDeleteDone
  /\ UNCHANGED <<loop, threads, disk>>

Drained ==
  /\ pc = "drain" /\ bg = <<>>
  /\ pc' = "frame"
  /\ UNCHANGED <<tree, app, checked, threads, bg, disk>>

\* The refresh every five seconds, the first time at once; then the frame is drawn.
Frame ==
  /\ pc = "frame"
  /\ pc' = "poll"
  /\ \/ \E S \in subvolume_paths : refresh_subvols(S) /\ checked' = TRUE
     \/ checked /\ UNCHANGED <<tree, checked>>
  /\ UNCHANGED <<app, threads, bg, disk>>

\* poll times out, or the event is not a key press, or the key only changes what is
\* not modelled: cursor, order, mode, columns, pause.
NoKey ==
  /\ pc = "poll"
  /\ pc' = "drain"
  /\ UNCHANGED <<tree, app, checked, threads, bg, disk>>

-----------------------------------------------------------------------------
(* Keys.  'd' is first answered by the loop itself, which refreshes the       *)
(* subvolumes before it hands the key to on_key.                              *)

PressD ==
  /\ pc = "poll"
  /\ \E S \in subvolume_paths : refresh_subvols(S)
  /\ pc' = "d"
  /\ UNCHANGED <<app, checked, threads, bg, disk>>

OnKey(at) == pc = at /\ pc' = "drain" /\ UNCHANGED <<checked, tree, bg, disk>>
Browsing == dialog = None
is_special(n) == path_of(n) \in Special

Enter ==
  /\ OnKey("poll") /\ Browsing
  /\ \E sel \in children(dir) : children(sel) # {} /\ dir' = sel
  /\ UNCHANGED <<marks, dialog, deleting, delete_errors, protected, threads>>

Leave ==
  /\ OnKey("poll") /\ Browsing
  /\ dir # ROOT
  /\ dir' = parent(dir)
  /\ UNCHANGED <<marks, dialog, deleting, delete_errors, protected, threads>>

Mark ==
  /\ OnKey("poll") /\ Browsing
  /\ \E sel \in children(dir) :
       /\ ~is_special(sel)
       /\ marks' = IF sel \in marks THEN marks \ {sel} ELSE marks \cup {sel}
  /\ UNCHANGED <<dir, dialog, deleting, delete_errors, protected, threads>>

ClearMarks ==
  /\ OnKey("poll") /\ Browsing
  /\ marks' = {}
  /\ UNCHANGED <<dir, dialog, deleting, delete_errors, protected, threads>>

\* 'i', 'e' and '?'.
OpenDialog ==
  /\ OnKey("poll") /\ Browsing
  /\ \/ \E sel \in children(dir) : dialog' = Info(sel)
     \/ dialog' \in {Export, Help}
  /\ UNCHANGED <<dir, marks, deleting, delete_errors, protected, threads>>

\* Return from tui_loop: the process ends, whatever the delete threads are doing.
Quit ==
  /\ pc = "poll" /\ Browsing
  /\ pc' = "exited"
  /\ UNCHANGED <<tree, app, checked, threads, bg, disk>>

\* The current entry, none in an empty directory.
Selections == IF children(dir) = {} THEN {{}} ELSE {{n} : n \in children(dir)}

\* What 'd' is about: the live marks, or else the current entry.
MutantCandidates(sel) ==
  LET marked == {n \in marks : is_live(n)} IN IF marked # {} THEN marked ELSE sel
Candidates(sel) ==
  LET marked == {n \in marks : is_live(n)}
  IN IF marked # {} THEN marked ELSE {n \in sel : ~is_special(n)}

\* Entries inside other candidates are left out.
MutantTargets(sel) == Candidates(sel)
Targets(sel) == {n \in Candidates(sel) : ~\E a \in Candidates(sel) : is_ancestor(a, n)}

MutantBlocked(ids) == \E n \in ids : path_of(n) \in protected
Blocked(ids) == \E n \in ids : \E m \in protected : Covers(path_of(n), m)

begin_delete ==
  /\ OnKey("d") /\ Browsing
  /\ \E sel \in Selections :
       LET ids == Targets(sel)
       IN dialog' = IF Blocked(ids) THEN Message({})
                    ELSE IF ids = {} THEN None ELSE Confirm(ids, 1)
  /\ UNCHANGED <<dir, marks, deleting, delete_errors, protected, threads>>

\* key_dialog, except for 'y' in a confirmation.  'd' is no key of any dialog.
DialogKey ==
  /\ \E at \in {"poll", "d"} :
       /\ OnKey(at)
       /\ \/ dialog.kind \in {"Help", "Message", "Confirm"} /\ dialog' = None
          \/ dialog.kind \in {"Info", "Export"} /\ dialog' = dialog
          \/ dialog.kind \in {"Info", "Export"} /\ at = "poll" /\ dialog' = None
          \/ dialog.kind = "Info" /\ at = "poll" /\ is_special(dialog.node) /\ dialog' = Message({})
          \/ dialog.kind = "Export" /\ at = "poll" /\ dialog' = Message({})
  /\ UNCHANGED <<dir, marks, deleting, delete_errors, protected, threads>>

\* How many jobs a new delete thread adds to deleting.
Jobs(ids) == Cardinality(ids)

\* start_delete for the confirmed targets.
start_delete(ids) ==
  /\ requests < MaxRequests
  /\ requests' = requests + 1
  /\ running' = running \cup {requests + 1}
  /\ todo' = [todo EXCEPT ![requests + 1] = ids]
  /\ deleting' = deleting + Jobs(ids)
  /\ UNCHANGED cur

MutantAskAgain(ids, stage) == FALSE
AskAgain(ids, stage) == stage = 1 /\ \E n \in ids : has_subvol(n)

\* 'y' in a confirmation.
ConfirmYes ==
  /\ OnKey("poll")
  /\ dialog.kind = "Confirm"
  /\ IF AskAgain(dialog.targets, dialog.stage)
     THEN dialog' = Confirm(dialog.targets, 2) /\ UNCHANGED <<marks, deleting, threads>>
     ELSE /\ dialog' = None
          /\ marks' = marks \ dialog.targets
          /\ start_delete(dialog.targets)
  /\ UNCHANGED <<dir, delete_errors, protected>>

-----------------------------------------------------------------------------
(* Delete threads.  The order of a thread's jobs is left open.               *)

Alive(r) == r \in running /\ pc # "exited"

BeginJob(r) ==
  /\ Alive(r) /\ cur[r] = NoNode
  /\ \E n \in todo[r] :
       /\ cur' = [cur EXCEPT ![r] = n]
       /\ todo' = [todo EXCEPT ![r] = @ \ {n}]
  /\ UNCHANGED <<tree, app, loop, requests, running, bg, disk>>

\* A subvolume without others below it is gone.
Destroyed(p) ==
  /\ \A q \in svol : p \notin Up[q]
  /\ svol' = svol \ {p}

\* delete_rel destroys a subvolume nested in its target.
DestroyNested(r) ==
  /\ Alive(r) /\ cur[r] # NoNode
  /\ \E p \in svol : path_of(cur[r]) \in Up[p] /\ Destroyed(p)
  /\ UNCHANGED <<tree, app, loop, threads, bg, creates>>

Send(ev) == bg' = Append(bg, ev)

\* delete_rel returns, with everything at or below its target gone, or an error.
FinishJob(r) ==
  /\ Alive(r) /\ cur[r] # NoNode
  /\ cur' = [cur EXCEPT ![r] = NoNode]
  /\ \/ /\ Destroyed(path_of(cur[r]))
        /\ Send([type |-> "Deleted", by |-> r, node |-> cur[r]])
     \/ /\ Send([type |-> "DeleteFailed", by |-> r, node |-> cur[r]])
        /\ UNCHANGED svol
  /\ UNCHANGED <<tree, app, loop, requests, running, todo, creates>>

EndThread(r) ==
  /\ Alive(r) /\ cur[r] = NoNode /\ todo[r] = {}
  /\ Send([type |-> "DeleteDone", by |-> r])
  /\ running' = running \ {r}
  /\ UNCHANGED <<tree, app, loop, requests, todo, cur, disk>>

-----------------------------------------------------------------------------
(* The aggregator, and other programs. *)

\* A resolved sample; it may be older than the deletions that happened since.
Sampled ==
  /\ pc # "exited"
  /\ \E b \in Batch : AddSample(b[1], b[2])
  /\ UNCHANGED <<app, loop, threads, bg, disk>>

ForeignCreate ==
  /\ pc # "exited"
  /\ creates < MaxCreates
  /\ creates' = creates + 1
  /\ \E p \in SubvolPath \ svol : svol' = svol \cup {p}
  /\ UNCHANGED <<tree, app, loop, threads, bg>>

-----------------------------------------------------------------------------
Browse == Enter \/ Leave \/ Mark \/ ClearMarks \/ OpenDialog \/ Quit
UI == apply_bg \/ Drained \/ Frame \/ NoKey \/ PressD \/ Browse \/ begin_delete
      \/ DialogKey \/ ConfirmYes
DeleteThread(r) == BeginJob(r) \/ DestroyNested(r) \/ FinishJob(r) \/ EndThread(r)

Next ==
  \/ UI
  \/ \E r \in Thread : DeleteThread(r)
  \/ Sampled
  \/ ForeignCreate

Spec == Init /\ [][Next]_vars

\* The loop never blocks for longer than a poll, and delete_rel returns.
FairSpec == Spec /\ WF_vars(UI) /\ \A r \in Thread : WF_vars(DeleteThread(r))

-----------------------------------------------------------------------------
(* Properties *)

\* The jobs whose result the UI thread has not applied.
Outstanding ==
  {job \in Thread \X known : job[2] \in todo[job[1]] \/ job[2] = cur[job[1]]}
  \cup {<<bg[i].by, bg[i].node>> : i \in {j \in DOMAIN bg : bg[j].type # "DeleteDone"}}

\* The "deleting N" of the header is exact, so its saturating decrement never
\* saturates and 0 means that no job is left, of any delete thread.  Errors wait
\* for that 0 and never strand: a delete thread that will look at them again is
\* running, or its DeleteDone is still in the channel.
DeletingExact ==
  /\ deleting = Cardinality(Outstanding)
  /\ delete_errors # {} =>
       running # {} \/ \E i \in DOMAIN bg : bg[i].type = "DeleteDone"

\* The directory on display exists, whatever was removed around it.
DirLive == is_live(dir)

\* What a confirmation offers and what a delete thread works on: never the top
\* level, a bucket, or a path that is or contains one of the protected mounts,
\* and no two targets of which one contains the other.
Allowed(ids) ==
  /\ \A n \in ids : n # ROOT /\ ~is_special(n)
  /\ \A n \in ids : \A m \in protected : ~Covers(path_of(n), m)
  /\ \A n, m \in ids : ~is_ancestor(m, n)
TargetsAllowed ==
  /\ dialog.kind = "Confirm" => dialog.targets # {} /\ Allowed(dialog.targets)
  /\ \A r \in Thread : Allowed(todo[r] \cup ({cur[r]} \ {NoNode}))

\* A report of failed deletions is replaced by nothing but a key press, which
\* comes after it was drawn; and no collected error is dropped but into such a report.
FailureShown ==
  [][/\ dialog.kind = "Message" /\ dialog.failed # {} /\ dialog' # dialog
          => pc \in {"poll", "d"}
     /\ delete_errors \subseteq delete_errors' \/ dialog' = Message(delete_errors)]_vars

\* A delete starts without the second question only if no target is or contains
\* a subvolume on disk, whatever was removed from the tree or resurrected by
\* late samples since the first, as long as no other program created subvolumes.
AskTwice ==
  [][requests' # requests /\ dialog.stage = 1 /\ creates = 0
       => \A n \in dialog.targets : \A p \in svol : ~Covers(path_of(n), p)]_vars

\* Every job is answered and the collected errors are put before the user, all of them
\* (FailureShown), whatever order the delete threads end in, unless the user quits.
DeletesReported ==
  /\ deleting > 0 ~> (deleting = 0 \/ pc = "exited")
  /\ delete_errors # {} ~>
       (pc = "exited" \/ (dialog.kind = "Message" /\ dialog.failed # {} /\ delete_errors = {}))
=============================================================================
