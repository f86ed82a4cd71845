---------------------------- MODULE SessionProofs ----------------------------
(***************************************************************************)
(* Proofs about Session: its type invariant, the directory on display, the *)
(* targets of deletes, the count of jobs that are left, the report of      *)
(* those that failed, and the second question.                             *)
(***************************************************************************)
EXTENDS Session, EntryTreeProofs

-----------------------------------------------------------------------------
(* Facts about states. *)

\* What a dialog that asks for confirmation holds.
LEMMA DialogFacts ==
  ASSUME dialog \in Dialog
  PROVE  /\ dialog.kind \in {"None", "Help", "Export", "Info", "Confirm", "Message"}
         /\ dialog.kind = "Confirm" => /\ dialog.targets \subseteq known
                                       /\ dialog.stage \in {1, 2}
         /\ dialog = None => dialog.kind = "None"
         /\ dialog.kind = "Info" => dialog.node \in known
BY DEF Dialog, None, Help, Export

\* The next event of a non-empty channel, and what stays in it.
LEMMA ChannelFacts ==
  ASSUME TypeOK, bg # <<>>
  PROVE  /\ Head(bg) \in Event /\ Head(bg) = bg[1] /\ 1 \in DOMAIN bg
         /\ Tail(bg) \in Seq(Event)
         /\ \A i \in DOMAIN Tail(bg) : i + 1 \in DOMAIN bg /\ Tail(bg)[i] = bg[i + 1]
BY DEF TypeOK

LEMMA EventFacts ==
  ASSUME NEW ev \in Event
  PROVE  /\ ev.type \in {"Deleted", "DeleteFailed", "DeleteDone"}
         /\ ev.type # "DeleteDone" => ev.node \in known
BY DEF Event

\* Everything typed by the arena stays typed when it grows.
LEMMA TypesGrow ==
  ASSUME known \subseteq known'
  PROVE  Dialog \subseteq Dialog' /\ Event \subseteq Event' /\ Seq(Event) \subseteq Seq(Event')
<1>1. Dialog \subseteq Dialog'
  BY DEF Dialog, None, Help, Export
<1>2. Event \subseteq Event'
  BY DEF Event
<1> QED BY <1>1, <1>2

\* Allowed speaks of places in the tree, which do not change.
LEMMA AllowedStays ==
  ASSUME NEW ids \in SUBSET known, Allowed(ids),
         \A n \in known : anc'[n] = anc[n], protected' = protected
  PROVE  Allowed(ids)'
BY DEF Allowed, is_special, is_ancestor, path_of

-----------------------------------------------------------------------------
(* What a step may do to the tree. *)

\* It applies a Deleted event for n.
Removes(n) == pc = "drain" /\ bg # <<>> /\ Head(bg).type = "Deleted" /\ Head(bg).node = n
              /\ bg' = Tail(bg) /\ ApplyDeleted(n) /\ UNCHANGED <<loop, threads, disk>>

LEMMA TreeCases ==
  ASSUME TypeOK, [Next]_vars
  PROVE  \/ UNCHANGED tree
         \/ \E O, S \in SUBSET Path : AddSample(O, S)
         \/ \E n \in known : Removes(n)
<1>1. CASE apply_bg
  <2>1. CASE Head(bg).type = "Deleted" /\ ApplyDeleted(Head(bg).node)
    <3>1. Head(bg).node \in known
      BY <1>1, <2>1, ChannelFacts, EventFacts DEF apply_bg
    <3> QED BY <1>1, <2>1, <3>1 DEF apply_bg, Removes
  <2>2. CASE ApplyDeleteFailed(Head(bg).node) \/ ApplyDeleteDone
    BY <2>2 DEF ApplyDeleteFailed, ApplyDeleteDone
  <2> QED BY <1>1, <2>1, <2>2 DEF apply_bg
<1>2. CASE Frame \/ PressD
  <2>1. subvolume_paths \subseteq SUBSET Path
    BY SessionAssumption DEF TypeOK, subvolume_paths
  <2> QED BY <1>2, <2>1 DEF Frame, PressD, refresh_subvols, MarkSubvols
<1>3. CASE Sampled
  BY <1>3, BatchAssumption DEF Sampled
<1>4. CASE Browse
  BY <1>4 DEF Browse, Enter, Leave, Mark, ClearMarks, OpenDialog, Quit, OnKey
<1>5. CASE Drained \/ NoKey \/ begin_delete \/ DialogKey \/ ConfirmYes
  BY <1>5 DEF Drained, NoKey, begin_delete, DialogKey, ConfirmYes, OnKey
<1>6. CASE \E r \in Thread : DeleteThread(r)
  BY <1>6 DEF DeleteThread, BeginJob, DestroyNested, FinishJob, EndThread
<1>7. CASE ForeignCreate
  BY <1>7 DEF ForeignCreate
<1>8. CASE UNCHANGED vars
  BY <1>8 DEF vars
<1> QED BY <1>1, <1>2, <1>3, <1>4, <1>5, <1>6, <1>7, <1>8 DEF Next, UI

\* The trie survives, and every node stays where it is.
LEMMA TreeStays ==
  ASSUME TypeOK, TreeInv, [Next]_vars
  PROVE  /\ TreeInv' /\ known \subseteq known'
         /\ \A n \in known : anc'[n] = anc[n]
<1>1. CASE UNCHANGED tree
  BY <1>1 DEF tree, TreeInv, TreeTypeOK, Trie, Numbered, OneLiveNode, LiveNodes, Hangs,
              RootLive, is_live, Chain, path_of
<1>2. CASE \E O, S \in SUBSET Path : AddSample(O, S)
  BY <1>2, AddSampleFacts
<1>3. CASE \E n \in known : Removes(n)
  BY <1>3, RemoveFacts DEF Removes, ApplyDeleted
<1> QED BY <1>1, <1>2, <1>3, TreeCases

-----------------------------------------------------------------------------
(* The directory on display. *)

\* The loop of apply_bg that moves up finds a live directory.
LEMMA NearestLiveFacts ==
  ASSUME TreeInv, dir \in LiveNodes, NEW n \in known, Remove(n)
  PROVE  NearestLive(dir, removed') \in LiveNodes'
<1>1. /\ known' = known /\ anc' = anc /\ removed' \subseteq removed \cup {n}
      /\ removed \subseteq removed'
  BY RemoveFacts
<1> DEFINE Best(m) == /\ Chain(m) \cap removed' = {}
                      /\ \A k \in Chain(dir) : Chain(k) \cap removed' = {} => k \in Chain(m)
<1>2. \E m \in Chain(dir) : Best(m)
  <2>1. CASE Chain(dir) \cap removed' = {}
    BY <2>1 DEF Chain
  <2>2. CASE Chain(dir) \cap removed' # {}
    <3>1. n \in Chain(dir) /\ n \in removed' /\ n \notin removed /\ is_live(n)
      BY <2>2, <1>1 DEF LiveNodes, is_live, Remove
    <3>2. n # ROOT
      BY <3>1 DEF Remove
    <3>3. path_of(n) # Top /\ n \in LiveNodes
      BY <3>1, <3>2, RootFacts DEF LiveNodes
    <3> DEFINE m == parent(n)
    <3>4. m \in anc[n] /\ anc[n] = Chain(m) /\ n \notin anc[n]
      <4>1. path_of(n) \notin Up[path_of(n)]
        BY <3>3, PathFacts, NodeFacts DEF LiveNodes, TreeInv, TreeTypeOK
      <4> QED BY <3>3, <4>1, ParentFacts, LiveAbove
    <3>5. Chain(m) \cap removed' = {}
      BY <3>3, <3>4, <1>1 DEF LiveNodes, is_live, Chain
    <3>6. m \in Chain(dir)
      BY <3>1, <3>4 DEF Chain, LiveNodes, TreeInv, Trie, Hangs
    <3>7. ASSUME NEW k \in Chain(dir), Chain(k) \cap removed' = {} PROVE k \in Chain(m)
      <4>1. n \notin Chain(k)
        BY <3>1, <3>7
      <4>2. k \in Chain(n) /\ k # n
        BY <4>1, <3>1, ChainsAreLinear DEF LiveNodes, Chain
      <4> QED BY <4>2, <3>4 DEF Chain
    <3> QED BY <3>5, <3>6, <3>7
  <2> QED BY <2>1, <2>2
<1>3. NearestLive(dir, removed') \in Chain(dir) /\ Best(NearestLive(dir, removed'))
  BY <1>2 DEF NearestLive
<1>4. Chain(dir) \subseteq known
  BY DEF Chain, LiveNodes, TreeInv, TreeTypeOK
<1> QED BY <1>1, <1>3, <1>4 DEF LiveNodes, is_live, Chain

\* Three things move it: a removal, and the keys that open and leave a directory.
LEMMA DirCases ==
  ASSUME TypeOK, [Next]_vars
  PROVE  \/ dir' = dir
         \/ \E n \in known : Removes(n)
         \/ UNCHANGED tree /\ (dir' \in children(dir) \/ (dir # ROOT /\ dir' = parent(dir)))
<1>1. CASE apply_bg
  <2>1. CASE Head(bg).type = "Deleted" /\ ApplyDeleted(Head(bg).node)
    <3>1. Head(bg).node \in known
      BY <1>1, <2>1, ChannelFacts, EventFacts DEF apply_bg
    <3> QED BY <1>1, <2>1, <3>1 DEF apply_bg, Removes
  <2>2. CASE ApplyDeleteFailed(Head(bg).node) \/ ApplyDeleteDone
    BY <2>2 DEF ApplyDeleteFailed, ApplyDeleteDone
  <2> QED BY <1>1, <2>1, <2>2 DEF apply_bg
<1>2. CASE Frame \/ PressD \/ Sampled
  BY <1>2 DEF Frame, PressD, Sampled, app
<1>3. CASE Enter \/ Leave
  BY <1>3 DEF Enter, Leave, OnKey
<1>4. CASE Mark \/ ClearMarks \/ OpenDialog \/ Quit
  BY <1>4 DEF Mark, ClearMarks, OpenDialog, Quit, app
<1>5. CASE Drained \/ NoKey \/ begin_delete \/ DialogKey \/ ConfirmYes
  BY <1>5 DEF Drained, NoKey, begin_delete, DialogKey, ConfirmYes, app
<1>6. CASE \E r \in Thread : DeleteThread(r)
  BY <1>6 DEF DeleteThread, BeginJob, DestroyNested, FinishJob, EndThread, app
<1>7. CASE ForeignCreate
  BY <1>7 DEF ForeignCreate, app
<1>8. CASE UNCHANGED vars
  BY <1>8 DEF vars, app
<1> QED BY <1>1, <1>2, <1>3, <1>4, <1>5, <1>6, <1>7, <1>8 DEF Next, UI, Browse

\* The directory on display stays live.
LEMMA DirLiveStep ==
  ASSUME TypeOK, TreeInv, dir \in LiveNodes, [Next]_vars
  PROVE  dir' \in LiveNodes'
<1>1. CASE \E n \in known : Removes(n)
  BY <1>1, NearestLiveFacts DEF Removes, ApplyDeleted
<1>2. CASE dir' = dir /\ ~\E n \in known : Removes(n)
  <2>1. CASE UNCHANGED tree
    BY <1>2, <2>1 DEF tree, LiveNodes, is_live, Chain
  <2>2. CASE \E O, S \in SUBSET Path : AddSample(O, S)
    BY <1>2, <2>2, AddSampleFacts DEF LiveNodes
  <2> QED BY <1>2, <2>1, <2>2, TreeCases
<1>3. CASE UNCHANGED tree /\ dir' \in children(dir)
  BY <1>3 DEF tree, LiveNodes, is_live, children, Chain
<1>4. CASE UNCHANGED tree /\ dir # ROOT /\ dir' = parent(dir)
  <2>1. path_of(dir) # Top /\ dir \in known
    BY <1>4, RootFacts DEF LiveNodes
  <2>2. parent(dir) \in LiveNodes
    BY <2>1, ParentFacts, LiveAbove
  <2> QED BY <1>4, <2>2 DEF tree, LiveNodes, is_live, Chain
<1> QED BY <1>1, <1>2, <1>3, <1>4, DirCases

-----------------------------------------------------------------------------
(* Types. *)

\* The part of TypeOK that is not about the tree or the directory.
RestOK ==
  /\ pc \in {"drain", "frame", "poll", "d", "exited"}
  /\ checked \in BOOLEAN
  /\ marks \in SUBSET known
  /\ dialog \in Dialog
  /\ deleting \in Nat
  /\ delete_errors \in SUBSET known
  /\ protected \in SUBSET Path
  /\ requests \in 0..MaxRequests
  /\ running \in SUBSET (1..requests)
  /\ todo \in [Thread -> SUBSET known]
  /\ cur \in [Thread -> known \cup {NoNode}]
  /\ bg \in Seq(Event)
  /\ svol \in SUBSET SubvolPath
  /\ creates \in 0..MaxCreates

\* What a key or a background event leaves alone stays typed when the tree grows.
LEMMA RestGrows ==
  ASSUME RestOK, known \subseteq known'
  PROVE  /\ marks \in SUBSET known'
         /\ dialog \in Dialog'
         /\ delete_errors \in SUBSET known'
         /\ todo \in [Thread -> SUBSET known']
         /\ cur \in [Thread -> known' \cup {NoNode}]
         /\ bg \in Seq(Event)'
BY TypesGrow DEF RestOK

LEMMA TypeOKSplit == TypeOK <=> TreeTypeOK /\ dir \in known /\ RestOK
BY DEF TypeOK, RestOK

LEMMA RestStep ==
  ASSUME TypeOK, TreeInv, known \subseteq known', [Next]_vars
  PROVE  RestOK'
<1>r. RestOK
  BY TypeOKSplit
<1>g. /\ marks \in SUBSET known'
      /\ dialog \in Dialog'
      /\ delete_errors \in SUBSET known'
      /\ todo \in [Thread -> SUBSET known']
      /\ cur \in [Thread -> known' \cup {NoNode}]
      /\ bg \in Seq(Event)'
  BY <1>r, RestGrows
<1>1. CASE apply_bg
  <2>1. bg # <<>> /\ bg' = Tail(bg) /\ UNCHANGED <<loop, threads, disk>>
    BY <1>1 DEF apply_bg
  <2>2. bg' \in Seq(Event)'
    BY <2>1, ChannelFacts, TypesGrow
  <2>3. deleting' \in Nat /\ protected' = protected /\ marks' \in SUBSET known'
        /\ dialog' \in Dialog' /\ delete_errors' \in SUBSET known'
    <3> DEFINE ev == Head(bg)
    <3>1. ev \in Event
      BY <2>1, ChannelFacts
    <3>2. CASE ev.type = "Deleted" /\ ApplyDeleted(ev.node)
      BY <3>2, <1>r, <1>g DEF ApplyDeleted, RestOK
    <3>3. CASE ev.type = "DeleteFailed" /\ ApplyDeleteFailed(ev.node)
      <4>1. ev.node \in known
        BY <3>1, <3>3, EventFacts
      <4> QED BY <3>3, <4>1, <1>r, <1>g DEF ApplyDeleteFailed, AfterFailure, RestOK
    <3>4. CASE ApplyDeleteDone
      <4>1. Message(delete_errors) \in Dialog'
        BY <1>g DEF Message, Dialog
      <4> QED BY <3>4, <4>1, <1>r, <1>g DEF ApplyDeleteDone, RestOK
    <3> QED BY <1>1, <3>2, <3>3, <3>4 DEF apply_bg
  <2> QED BY <2>1, <2>2, <2>3, <1>r, <1>g DEF loop, threads, disk, RestOK
<1>2. CASE Drained \/ Frame \/ NoKey \/ PressD \/ Quit
  BY <1>2, <1>r, <1>g
     DEF Drained, Frame, NoKey, PressD, Quit, subvolume_paths, app, threads, disk, RestOK
<1>3. CASE Enter \/ Leave \/ ClearMarks
  BY <1>3, <1>r, <1>g DEF Enter, Leave, ClearMarks, OnKey, threads, disk, RestOK
<1>4. CASE Mark
  <2>1. children(dir) \subseteq known
    BY DEF children
  <2> QED BY <1>4, <2>1, <1>r, <1>g DEF Mark, OnKey, threads, disk, RestOK
<1>5. CASE OpenDialog
  <2>1. dialog' \in Dialog'
    BY <1>5, TypesGrow DEF OpenDialog, Dialog, Info, Help, Export, children
  <2> QED BY <1>5, <2>1, <1>r, <1>g DEF OpenDialog, OnKey, threads, disk, RestOK
<1>6. CASE begin_delete
  <2>1. ASSUME NEW sel \in Selections PROVE Targets(sel) \subseteq known
    BY <1>r DEF Selections, Targets, Candidates, children, RestOK
  <2>2. dialog' \in Dialog'
    <3>1. \A ids \in SUBSET known : Confirm(ids, 1) \in Dialog
      BY DEF Confirm, Dialog
    <3>2. Message({}) \in Dialog /\ None \in Dialog
      BY DEF Message, Dialog
    <3>3. dialog' \in Dialog
      BY <1>6, <2>1, <3>1, <3>2 DEF begin_delete
    <3> QED BY <3>3, TypesGrow
  <2> QED BY <1>6, <2>2, <1>r, <1>g DEF begin_delete, OnKey, threads, disk, RestOK
<1>7. CASE DialogKey
  <2>1. Message({}) \in Dialog' /\ None \in Dialog'
    BY DEF Message, Dialog
  <2>2. dialog' \in Dialog'
    BY <1>7, <2>1, <1>g DEF DialogKey
  <2> QED BY <1>7, <2>2, <1>r, <1>g DEF DialogKey, OnKey, threads, disk, RestOK
<1>8. CASE ConfirmYes
  <2> DEFINE ids == dialog.targets
  <2>1. ids \subseteq known /\ dialog.kind = "Confirm"
    BY <1>8, <1>r, DialogFacts DEF ConfirmYes, RestOK
  <2>2. Confirm(ids, 2) \in Dialog' /\ None \in Dialog'
    BY <2>1 DEF Confirm, Dialog
  <2>3. Jobs(ids) \in Nat
    BY <2>1, FiniteNodes DEF Jobs, TypeOK, TreeTypeOK
  <2>4. CASE AskAgain(ids, dialog.stage)
    BY <1>8, <2>2, <2>4, <1>r, <1>g DEF ConfirmYes, OnKey, threads, disk, RestOK
  <2>5. CASE ~AskAgain(ids, dialog.stage)
    <3>1. start_delete(ids) /\ dialog' = None /\ marks' = marks \ ids /\ UNCHANGED <<delete_errors, protected>>
      BY <1>8, <2>5 DEF ConfirmYes
    <3>2. /\ deleting' \in Nat /\ requests' \in 0..MaxRequests /\ running' \in SUBSET (1..requests')
          /\ todo' \in [Thread -> SUBSET known'] /\ cur' = cur
      BY <2>1, <2>3, <3>1, <1>r, <1>g, SessionAssumption DEF start_delete, Thread, RestOK
    <3> QED BY <1>8, <2>2, <3>1, <3>2, <1>r, <1>g DEF ConfirmYes, OnKey, disk, RestOK
  <2> QED BY <2>4, <2>5
<1>9. ASSUME NEW r \in Thread, DeleteThread(r) PROVE RestOK'
  <2>1. CASE BeginJob(r)
    BY <2>1, <1>r, <1>g DEF BeginJob, app, loop, disk, RestOK
  <2>2. CASE DestroyNested(r)
    BY <2>2, <1>r, <1>g DEF DestroyNested, Destroyed, app, loop, threads, RestOK
  <2>3. CASE FinishJob(r)
    <3>1. cur[r] \in known
      BY <2>3, <1>r DEF FinishJob, RestOK
    <3>2. /\ [type |-> "Deleted", by |-> r, node |-> cur[r]] \in Event'
          /\ [type |-> "DeleteFailed", by |-> r, node |-> cur[r]] \in Event'
      BY <3>1 DEF Event
    <3>3. bg' \in Seq(Event)'
      <4>1. \A ev \in Event' : Append(bg, ev) \in Seq(Event)'
        BY <1>g
      <4>2. \/ bg' = Append(bg, [type |-> "Deleted", by |-> r, node |-> cur[r]])
            \/ bg' = Append(bg, [type |-> "DeleteFailed", by |-> r, node |-> cur[r]])
        BY <2>3 DEF FinishJob, Send
      <4> QED BY <4>1, <4>2, <3>2
    <3>4. svol' \in SUBSET SubvolPath
      BY <2>3, <1>r DEF FinishJob, Destroyed, RestOK
    <3>5. cur' \in [Thread -> known' \cup {NoNode}]
      BY <2>3, <1>g DEF FinishJob
    <3>6. UNCHANGED <<app, loop, requests, running, todo, creates>>
      BY <2>3 DEF FinishJob
    <3> QED BY <3>3, <3>4, <3>5, <3>6, <1>r, <1>g DEF app, loop, RestOK
  <2>4. CASE EndThread(r)
    <3>1. [type |-> "DeleteDone", by |-> r] \in Event'
      BY DEF Event
    <3>2. bg' \in Seq(Event)'
      BY <2>4, <3>1, <1>g DEF EndThread, Send
    <3> QED BY <2>4, <3>2, <1>r, <1>g DEF EndThread, app, loop, disk, RestOK
  <2> QED BY <1>9, <2>1, <2>2, <2>3, <2>4 DEF DeleteThread
<1>10. CASE Sampled
  BY <1>10, <1>r, <1>g DEF Sampled, app, loop, threads, disk, RestOK
<1>11. CASE ForeignCreate
  BY <1>11, <1>r, <1>g, SessionAssumption DEF ForeignCreate, app, loop, threads, RestOK
<1>12. CASE UNCHANGED vars
  BY <1>12, <1>r, <1>g DEF vars, app, loop, threads, disk, RestOK
<1> QED BY <1>1, <1>2, <1>3, <1>4, <1>5, <1>6, <1>7, <1>8, <1>9, <1>10, <1>11, <1>12
       DEF Next, UI, Browse

-----------------------------------------------------------------------------
(* Targets. *)

\* Marks are entries the user was on: never the top level or a bucket.
MarksAllowed == \A n \in marks : n # ROOT /\ ~is_special(n)

\* Threads that were not started have no jobs.
Waiting == \A r \in Thread : r > requests => todo[r] = {} /\ cur[r] = NoNode

\* No key is read before the first refresh.
Checked == pc \in {"poll", "d"} => checked

IInv == TypeOK /\ TreeInv /\ DirLive /\ MarksAllowed /\ TargetsAllowed /\ Waiting /\ Checked

LEMMA ChildFacts ==
  ASSUME TreeInv, NEW n \in known, NEW m \in children(n)
  PROVE  m \in known /\ m # ROOT
BY RootFacts DEF children

LEMMA MarksStep ==
  ASSUME TypeOK, TreeInv, MarksAllowed, [Next]_vars
  PROVE  MarksAllowed'
<1>1. \/ marks' \subseteq marks
      \/ \E sel \in children(dir) : ~is_special(sel) /\ marks' \subseteq marks \cup {sel}
  <2>1. CASE apply_bg
    BY <2>1 DEF apply_bg, ApplyDeleted, ApplyDeleteFailed, ApplyDeleteDone
  <2>2. CASE Browse
    BY <2>2 DEF Browse, Enter, Leave, Mark, ClearMarks, OpenDialog, Quit, app
  <2>3. CASE Drained \/ Frame \/ NoKey \/ PressD \/ begin_delete \/ DialogKey \/ ConfirmYes
    BY <2>3 DEF Drained, Frame, NoKey, PressD, begin_delete, DialogKey, ConfirmYes, app
  <2>4. CASE \E r \in Thread : DeleteThread(r)
    BY <2>4 DEF DeleteThread, BeginJob, DestroyNested, FinishJob, EndThread, app
  <2>5. CASE Sampled \/ ForeignCreate \/ UNCHANGED vars
    BY <2>5 DEF Sampled, ForeignCreate, vars, app
  <2> QED BY <2>1, <2>2, <2>3, <2>4, <2>5 DEF Next, UI
<1>2. \A sel \in children(dir) : sel # ROOT
  BY ChildFacts DEF TypeOK
<1> QED BY <1>1, <1>2 DEF MarksAllowed, is_special, path_of

\* Part of an allowed set is allowed.
LEMMA AllowedSubset ==
  ASSUME NEW S, NEW T \in SUBSET S, Allowed(S)
  PROVE  Allowed(T)
BY DEF Allowed

\* What 'd' offers is allowed.
LEMMA BeginDeleteAllowed ==
  ASSUME TypeOK, TreeInv, MarksAllowed, NEW sel \in Selections, ~Blocked(Targets(sel))
  PROVE  Allowed(Targets(sel)) /\ Targets(sel) \subseteq known
<1>1. sel \subseteq children(dir)
  BY DEF Selections
<1>2. \A n \in children(dir) : n \in known /\ n # ROOT
  BY ChildFacts DEF TypeOK
<1>3. \A n \in Candidates(sel) : n \in known /\ n # ROOT /\ ~is_special(n)
  BY <1>1, <1>2 DEF Candidates, MarksAllowed, TypeOK
<1> QED BY <1>3 DEF Targets, Allowed, Blocked

\* Where the dialog of the next state comes from, if it asks for confirmation.
LEMMA ConfirmCases ==
  ASSUME TypeOK, [Next]_vars, dialog'.kind = "Confirm"
  PROVE  \/ dialog' = dialog
         \/ dialog.kind = "Confirm" /\ dialog'.targets = dialog.targets
         \/ /\ begin_delete
            /\ \E sel \in Selections : /\ Targets(sel) # {} /\ ~Blocked(Targets(sel))
                                       /\ dialog'.targets = Targets(sel)
<1>1. CASE apply_bg
  BY <1>1 DEF apply_bg, ApplyDeleted, ApplyDeleteFailed, ApplyDeleteDone, Message
<1>2. CASE Browse
  BY <1>2 DEF Browse, Enter, Leave, Mark, ClearMarks, OpenDialog, Quit, app, Info, Export, Help
<1>3. CASE Drained \/ Frame \/ NoKey \/ PressD
  BY <1>3 DEF Drained, Frame, NoKey, PressD, app
<1>4. CASE begin_delete
  BY <1>4 DEF begin_delete, Confirm, Message, None
<1>5. CASE DialogKey
  BY <1>5 DEF DialogKey, Message, None
<1>6. CASE ConfirmYes
  BY <1>6 DEF ConfirmYes, Confirm, None
<1>7. CASE \E r \in Thread : DeleteThread(r)
  BY <1>7 DEF DeleteThread, BeginJob, DestroyNested, FinishJob, EndThread, app
<1>8. CASE Sampled \/ ForeignCreate \/ UNCHANGED vars
  BY <1>8 DEF Sampled, ForeignCreate, vars, app
<1> QED BY <1>1, <1>2, <1>3, <1>4, <1>5, <1>6, <1>7, <1>8 DEF Next, UI

\* The jobs a thread has left, the one it is on included.
Left(r) == todo[r] \cup ({cur[r]} \ {NoNode})

LEMMA JobCases ==
  ASSUME TypeOK, Waiting, [Next]_vars, NEW r \in Thread
  PROVE  \/ Left(r)' \subseteq Left(r)
         \/ dialog.kind = "Confirm" /\ Left(r)' = dialog.targets
<1>1. CASE ConfirmYes
  <2>1. CASE AskAgain(dialog.targets, dialog.stage)
    BY <1>1, <2>1 DEF ConfirmYes, threads, Left
  <2>2. CASE ~AskAgain(dialog.targets, dialog.stage)
    <3>1. start_delete(dialog.targets) /\ dialog.kind = "Confirm"
      BY <1>1, <2>2 DEF ConfirmYes
    <3>2. requests \in Nat /\ requests + 1 \in Thread /\ requests + 1 > requests
      BY <3>1, SessionAssumption DEF start_delete, TypeOK, Thread
    <3>3. CASE r = requests + 1
      BY <3>1, <3>2, <3>3 DEF start_delete, Waiting, TypeOK, Left
    <3>4. CASE r # requests + 1
      BY <3>1, <3>4 DEF start_delete, TypeOK, Left
    <3> QED BY <3>3, <3>4
  <2> QED BY <2>1, <2>2
<1>2. ASSUME NEW t \in Thread, DeleteThread(t) PROVE Left(r)' \subseteq Left(r)
  <2>1. CASE BeginJob(t)
    BY <2>1 DEF BeginJob, Left, TypeOK
  <2>2. CASE DestroyNested(t) \/ EndThread(t)
    BY <2>2 DEF DestroyNested, EndThread, Left, threads
  <2>3. CASE FinishJob(t)
    BY <2>3 DEF FinishJob, Left, TypeOK
  <2> QED BY <1>2, <2>1, <2>2, <2>3 DEF DeleteThread
<1>3. CASE apply_bg \/ Drained \/ Frame \/ NoKey \/ PressD \/ Browse \/ begin_delete \/ DialogKey
  BY <1>3 DEF apply_bg, Drained, Frame, NoKey, PressD, Browse, Enter, Leave, Mark, ClearMarks,
              OpenDialog, Quit, begin_delete, DialogKey, threads, Left
<1>4. CASE Sampled \/ ForeignCreate \/ UNCHANGED vars
  BY <1>4 DEF Sampled, ForeignCreate, vars, threads, Left
<1> QED BY <1>1, <1>2, <1>3, <1>4 DEF Next, UI

LEMMA ProtectedStays == ASSUME [Next]_vars PROVE protected' = protected
BY DEF Next, UI, vars, app, apply_bg, ApplyDeleted, ApplyDeleteFailed, ApplyDeleteDone,
       Drained, Frame, NoKey, PressD, Browse, Enter, Leave, Mark, ClearMarks, OpenDialog, Quit,
       begin_delete, DialogKey, ConfirmYes, DeleteThread, BeginJob, DestroyNested, FinishJob,
       EndThread, Sampled, ForeignCreate

LEMMA TargetsStep ==
  ASSUME IInv, [Next]_vars
  PROVE  TargetsAllowed'
<1>1. TypeOK /\ TreeInv /\ MarksAllowed /\ Waiting /\ TargetsAllowed
  BY DEF IInv
<1>2. /\ \A n \in known : anc'[n] = anc[n]
      /\ protected' = protected
  BY <1>1, TreeStays, ProtectedStays
<1>3. dialog.kind = "Confirm" =>
        dialog.targets \subseteq known /\ dialog.targets # {} /\ Allowed(dialog.targets)
  BY <1>1, DialogFacts DEF TargetsAllowed, TypeOK
<1>4. (dialog.kind = "Confirm" => dialog.targets # {} /\ Allowed(dialog.targets))'
  <2> SUFFICES ASSUME dialog'.kind = "Confirm"
               PROVE  (dialog.targets # {} /\ Allowed(dialog.targets))'
    OBVIOUS
  <2>1. dialog'.targets \subseteq known /\ dialog'.targets # {} /\ Allowed(dialog'.targets)
    BY <1>1, <1>3, ConfirmCases, BeginDeleteAllowed
  <2>2. PICK ids \in SUBSET known : ids = dialog'.targets
    BY <2>1
  <2>3. Allowed(ids)'
    BY <1>2, <2>1, <2>2, AllowedStays
  <2> QED BY <2>1, <2>2, <2>3 DEF Allowed, is_ancestor, is_special
<1>5. ASSUME NEW r \in Thread PROVE Allowed(Left(r))'
  <2>1. Left(r) \subseteq known /\ Allowed(Left(r))
    BY <1>1 DEF TargetsAllowed, TypeOK, Left
  <2>2. Left(r)' \subseteq known /\ Allowed(Left(r)')
    BY <1>1, <1>3, <2>1, JobCases, AllowedSubset
  <2>3. PICK ids \in SUBSET known : ids = Left(r)'
    BY <2>2
  <2>4. Allowed(ids)'
    BY <1>2, <2>2, <2>3, AllowedStays
  <2> QED BY <2>3, <2>4 DEF Allowed, is_ancestor, is_special
<1>6. (\A r \in Thread : Allowed(Left(r)))'
  BY <1>5
<1> QED BY <1>4, <1>6 DEF TargetsAllowed, Left

LEMMA WaitingStep ==
  ASSUME TypeOK, Waiting, [Next]_vars
  PROVE  Waiting'
<1>1. CASE ConfirmYes
  <2>1. CASE AskAgain(dialog.targets, dialog.stage)
    BY <1>1, <2>1 DEF ConfirmYes, threads, Waiting
  <2>2. CASE ~AskAgain(dialog.targets, dialog.stage)
    <3>1. start_delete(dialog.targets)
      BY <1>1, <2>2 DEF ConfirmYes
    <3>2. requests \in Nat /\ requests' = requests + 1 /\ Thread \subseteq Nat
      BY <3>1, SessionAssumption DEF start_delete, TypeOK, Thread
    <3> QED BY <3>1, <3>2 DEF start_delete, Waiting, TypeOK
  <2> QED BY <2>1, <2>2
<1>2. ASSUME NEW t \in Thread, DeleteThread(t) PROVE Waiting'
  <2>1. CASE BeginJob(t)
    BY <2>1 DEF BeginJob, Waiting, TypeOK
  <2>2. CASE DestroyNested(t) \/ EndThread(t)
    BY <2>2 DEF DestroyNested, EndThread, Waiting, threads
  <2>3. CASE FinishJob(t)
    BY <2>3 DEF FinishJob, Waiting, TypeOK
  <2> QED BY <1>2, <2>1, <2>2, <2>3 DEF DeleteThread
<1>3. CASE apply_bg \/ Drained \/ Frame \/ NoKey \/ PressD \/ Browse \/ begin_delete \/ DialogKey
  BY <1>3 DEF apply_bg, Drained, Frame, NoKey, PressD, Browse, Enter, Leave, Mark, ClearMarks,
              OpenDialog, Quit, begin_delete, DialogKey, threads, Waiting
<1>4. CASE Sampled \/ ForeignCreate \/ UNCHANGED vars
  BY <1>4 DEF Sampled, ForeignCreate, vars, threads, Waiting
<1> QED BY <1>1, <1>2, <1>3, <1>4 DEF Next, UI

LEMMA CheckedStep ==
  ASSUME Checked, [Next]_vars
  PROVE  Checked'
<1>1. CASE apply_bg \/ Drained \/ NoKey \/ PressD
  BY <1>1 DEF apply_bg, Drained, NoKey, PressD, loop, Checked
<1>2. CASE Frame
  BY <1>2 DEF Frame, Checked
<1>3. CASE Browse \/ begin_delete \/ DialogKey \/ ConfirmYes
  BY <1>3 DEF Browse, Enter, Leave, Mark, ClearMarks, OpenDialog, Quit, begin_delete,
              DialogKey, ConfirmYes, OnKey, Checked
<1>4. CASE \E r \in Thread : DeleteThread(r)
  BY <1>4 DEF DeleteThread, BeginJob, DestroyNested, FinishJob, EndThread, loop, Checked
<1>5. CASE Sampled \/ ForeignCreate \/ UNCHANGED vars
  BY <1>5 DEF Sampled, ForeignCreate, vars, loop, Checked
<1> QED BY <1>1, <1>2, <1>3, <1>4, <1>5 DEF Next, UI

-----------------------------------------------------------------------------
(* The invariant. *)

LEMMA DirLiveIsLive == ASSUME TypeOK PROVE DirLive <=> dir \in LiveNodes
BY DEF TypeOK, DirLive, LiveNodes

LEMMA IInvInit == Init => IInv
<1> SUFFICES ASSUME Init PROVE IInv
  OBVIOUS
<1>1. TreeInv
  BY TreeInvInit DEF Init
<1>2. TreeTypeOK /\ ROOT \in LiveNodes /\ ROOT \in known
  BY <1>1, RootFacts DEF TreeInv, LiveNodes
<1>3. RestOK
  <2>1. dialog \in Dialog /\ bg \in Seq(Event)
    BY DEF Init, Dialog
  <2>2. protected \in SUBSET Path
    BY SessionAssumption DEF Init
  <2>3. /\ todo \in [Thread -> SUBSET known] /\ cur \in [Thread -> known \cup {NoNode}]
        /\ running \in SUBSET (1..requests)
    BY DEF Init
  <2>4. requests \in 0..MaxRequests /\ creates \in 0..MaxCreates
    BY SessionAssumption DEF Init
  <2> QED BY <2>1, <2>2, <2>3, <2>4 DEF Init, RestOK
<1>4. TypeOK /\ DirLive
  BY <1>2, <1>3, TypeOKSplit DEF Init, DirLive, LiveNodes
<1>5. MarksAllowed /\ TargetsAllowed /\ Waiting /\ Checked
  BY DEF Init, MarksAllowed, TargetsAllowed, Allowed, Waiting, Checked, None
<1> QED BY <1>1, <1>4, <1>5 DEF IInv

LEMMA IInvStep == IInv /\ [Next]_vars => IInv'
<1> SUFFICES ASSUME IInv, [Next]_vars PROVE IInv'
  OBVIOUS
<1>1. TypeOK /\ TreeInv /\ DirLive /\ MarksAllowed /\ Waiting /\ Checked
  BY DEF IInv
<1>2. TreeInv' /\ known \subseteq known'
  BY <1>1, TreeStays
<1>3. dir' \in LiveNodes'
  BY <1>1, DirLiveIsLive, DirLiveStep
<1>4. TypeOK' /\ DirLive'
  <2>1. RestOK'
    BY <1>1, <1>2, RestStep
  <2>2. TreeTypeOK' /\ dir' \in known' /\ DirLive'
    BY <1>2, <1>3 DEF TreeInv, LiveNodes, DirLive
  <2> QED BY <2>1, <2>2 DEF TypeOK, RestOK
<1>5. MarksAllowed' /\ TargetsAllowed' /\ Waiting' /\ Checked'
  BY <1>1, MarksStep, TargetsStep, WaitingStep, CheckedStep
<1> QED BY <1>2, <1>4, <1>5 DEF IInv

LEMMA Invariant == Spec => []IInv
BY IInvInit, IInvStep, PTL DEF Spec

\* Every variable keeps its type: nothing ever names a node the arena lacks, the
\* count of running deletes stays a natural number, and threads, jobs and events
\* are those of requests that were made.
THEOREM TypeCorrect == Spec => []TypeOK
<1>1. IInv => TypeOK
  BY DEF IInv
<1> QED BY <1>1, Invariant, PTL

\* The directory on display is never inside something that was removed.
THEOREM DirLiveAlways == Spec => []DirLive
<1>1. IInv => DirLive
  BY DEF IInv
<1> QED BY <1>1, Invariant, PTL

\* No confirmation offers and no delete thread works on the top level, a bucket, a
\* protected mount or an entry that contains one, and no target contains another.
THEOREM TargetsAllowedAlways == Spec => []TargetsAllowed
<1>1. IInv => TargetsAllowed
  BY DEF IInv
<1> QED BY <1>1, Invariant, PTL

-----------------------------------------------------------------------------
(* The jobs that are left. *)

\* The events that answer a job.
Answers == {i \in DOMAIN bg : bg[i].type # "DeleteDone"}

\* Job n of thread r is not begun, begun, or answered but not applied.
HasJob(r, n) ==
  \/ n \in todo[r] \/ n = cur[r]
  \/ \E i \in Answers : bg[i].by = r /\ bg[i].node = n

\* No job is in two of these places, or in one of them twice.
JobsOnce ==
  /\ \A r \in Thread : cur[r] \notin todo[r]
  /\ \A i \in Answers : bg[i].node \notin todo[bg[i].by] /\ bg[i].node # cur[bg[i].by]
  /\ \A i, j \in Answers : bg[i].by = bg[j].by /\ bg[i].node = bg[j].node => i = j

\* Events come from threads that were started, and only a running one has jobs.
NoStrays ==
  /\ \A i \in DOMAIN bg : bg[i].by \in 1..requests
  /\ \A r \in Thread \ running : todo[r] = {} /\ cur[r] = NoNode

\* Behind every answer comes the DeleteDone of some thread.
DoneFollows ==
  \A i \in Answers :
    running # {} \/ \E j \in DOMAIN bg : i < j /\ bg[j].type = "DeleteDone"

LEMMA EventShape ==
  ASSUME TypeOK, NEW i \in DOMAIN bg
  PROVE  /\ bg[i].type \in {"Deleted", "DeleteFailed", "DeleteDone"}
         /\ bg[i].by \in Thread
         /\ i \in Answers => bg[i].node \in known
BY DEF TypeOK, Event, Answers

\* What Outstanding counts.
JobsCounted ==
  /\ Outstanding = {job \in Thread \X known : HasJob(job[1], job[2])}
  /\ IsFiniteSet(Outstanding) /\ Cardinality(Outstanding) \in Nat

LEMMA OutstandingJobs == TypeOK => JobsCounted
<1> SUFFICES ASSUME TypeOK PROVE JobsCounted
  OBVIOUS
<1>1. Outstanding = {job \in Thread \X known : HasJob(job[1], job[2])}
  <2>1. ASSUME NEW job \in Outstanding
        PROVE  job \in Thread \X known /\ HasJob(job[1], job[2])
    <3>1. CASE job \in Thread \X known /\ (job[2] \in todo[job[1]] \/ job[2] = cur[job[1]])
      BY <3>1 DEF HasJob
    <3>2. ASSUME NEW i \in Answers, job = <<bg[i].by, bg[i].node>>
          PROVE  job \in Thread \X known /\ HasJob(job[1], job[2])
      BY <3>2, EventShape DEF HasJob, Answers
    <3> QED BY <2>1, <3>1, <3>2 DEF Outstanding, Answers
  <2>2. ASSUME NEW job \in Thread \X known, HasJob(job[1], job[2])
        PROVE  job \in Outstanding
    BY <2>2 DEF HasJob, Outstanding, Answers
  <2> QED BY <2>1, <2>2
<1>2. IsFiniteSet(Thread)
  BY FS_Interval, SessionAssumption DEF Thread
<1>3. IsFiniteSet(known)
  BY FiniteNodes DEF TypeOK, TreeTypeOK
<1>4. IsFiniteSet(Thread \X known)
  BY <1>2, <1>3, FS_Product
<1> QED BY <1>1, <1>4, FS_Subset, FS_CardinalityType DEF JobsCounted

LEMMA OutstandingNext == TypeOK' => JobsCounted'
BY OutstandingJobs, PTL

\* The same jobs, the same count.
LEMMA JobsStay ==
  ASSUME TypeOK, TypeOK', known \subseteq known',
         \A r \in Thread : \A n \in known' : HasJob(r, n)' <=> n \in known /\ HasJob(r, n)
  PROVE  Outstanding' = Outstanding
<1>1. Outstanding' = {job \in Thread \X known' : HasJob(job[1], job[2])'}
  BY OutstandingNext DEF JobsCounted
<1> QED BY <1>1, OutstandingJobs DEF JobsCounted

-----------------------------------------------------------------------------
(* What a step may do to the jobs. *)

\* The result of a job is applied.
Answered ==
  /\ bg # <<>> /\ bg' = Tail(bg)
  /\ Head(bg).type # "DeleteDone"
  /\ deleting' = IF deleting = 0 THEN 0 ELSE deleting - 1
  /\ delete_errors \subseteq delete_errors'
  /\ UNCHANGED <<known, threads, dialog>>

\* The end of a delete thread is applied.
Ended ==
  /\ bg # <<>> /\ bg' = Tail(bg)
  /\ Head(bg).type = "DeleteDone"
  /\ ApplyDeleteDone
  /\ UNCHANGED threads

Started == dialog.kind = "Confirm" /\ start_delete(dialog.targets)
           /\ dialog' = None /\ UNCHANGED <<known, bg, delete_errors>>

\* A delete thread takes a step.
Worked(r) == BeginJob(r) \/ FinishJob(r) \/ EndThread(r)

\* Nothing that the count is about changes; a key may change the dialog, to none that
\* reports a failed deletion.
Quiet ==
  /\ UNCHANGED <<threads, bg, deleting, delete_errors>>
  /\ \/ dialog' = dialog
     \/ pc \in {"poll", "d"} /\ (dialog'.kind = "Message" => dialog'.failed = {})

LEMMA CountCases ==
  ASSUME [Next]_vars
  PROVE  Answered \/ Ended \/ Started \/ (\E r \in Thread : Worked(r)) \/ Quiet
<1>1. CASE apply_bg
  BY <1>1 DEF apply_bg, ApplyDeleted, Remove, ApplyDeleteFailed, AfterFailure, Answered, Ended, tree
<1>2. CASE Drained \/ Frame \/ NoKey \/ PressD
  BY <1>2 DEF Drained, Frame, NoKey, PressD, app, Quiet
<1>3. CASE Browse \/ begin_delete \/ DialogKey
  BY <1>3 DEF Browse, Enter, Leave, Mark, ClearMarks, OpenDialog, Quit, begin_delete,
              DialogKey, OnKey, app, Quiet, None, Help, Export, Info, Confirm, Message
<1>4. CASE ConfirmYes
  BY <1>4 DEF ConfirmYes, OnKey, Started, Quiet, Confirm, tree
<1>5. ASSUME NEW r \in Thread, DeleteThread(r) PROVE Worked(r) \/ Quiet
  BY <1>5 DEF DeleteThread, DestroyNested, Worked, Quiet, app, threads
<1>6. CASE Sampled \/ ForeignCreate \/ UNCHANGED vars
  BY <1>6 DEF Sampled, ForeignCreate, vars, app, Quiet
<1> QED BY <1>1, <1>2, <1>3, <1>4, <1>5, <1>6 DEF Next, UI

\* What each step leaves in the channel.
LEMMA TailFacts ==
  ASSUME TypeOK, bg # <<>>, bg' = Tail(bg)
  PROVE  /\ Head(bg) = bg[1] /\ 1 \in DOMAIN bg
         /\ \A i \in DOMAIN bg' : i \in Nat /\ i + 1 \in DOMAIN bg /\ bg'[i] = bg[i + 1]
         /\ \A i \in DOMAIN bg : i = 1 \/ (i - 1 \in DOMAIN bg' /\ bg'[i - 1] = bg[i])
<1>1. Head(bg) = bg[1] /\ 1 \in DOMAIN bg
  BY DEF TypeOK
<1>2. /\ Len(bg) \in Nat /\ DOMAIN bg = 1..Len(bg) /\ DOMAIN bg' = 1..(Len(bg) - 1)
      /\ \A i \in 1..(Len(bg) - 1) : bg'[i] = bg[i + 1]
  BY DEF TypeOK
<1>3. \A i \in 1..Len(bg) : i = 1 \/ (i - 1 \in 1..(Len(bg) - 1) /\ bg'[i - 1] = bg[(i - 1) + 1])
  BY <1>2
<1>4. \A i \in 1..Len(bg) : (i - 1) + 1 = i
  BY <1>2
<1> QED BY <1>1, <1>2, <1>3, <1>4

LEMMA AppendFacts ==
  ASSUME TypeOK, NEW ev, bg' = Append(bg, ev)
  PROVE  LET k == Len(bg) + 1
         IN  /\ DOMAIN bg' = DOMAIN bg \cup {k} /\ bg'[k] = ev
             /\ \A i \in DOMAIN bg : i < k /\ bg'[i] = bg[i]
BY DEF TypeOK

LEMMA JobsOnceStep ==
  ASSUME TypeOK, Waiting, JobsOnce, NoStrays, [Next]_vars
  PROVE  JobsOnce'
<1>1. CASE Answered \/ Ended
  <2>1. \A i \in Answers' : i + 1 \in Answers /\ bg'[i] = bg[i + 1] /\ i \in Nat
    BY <1>1, TailFacts DEF Answered, Ended, Answers
  <2>2. todo' = todo /\ cur' = cur
    BY <1>1 DEF Answered, Ended, threads
  <2> QED BY <2>1, <2>2 DEF JobsOnce
<1>2. CASE Started
  <2>1. requests \in Nat /\ requests + 1 \in Thread /\ cur' = cur /\ bg' = bg
        /\ todo' = [todo EXCEPT ![requests + 1] = dialog.targets]
    BY <1>2, SessionAssumption DEF Started, start_delete, TypeOK, Thread
  <2>2. cur[requests + 1] = NoNode /\ NoNode \notin dialog.targets
    <3>1. requests + 1 > requests
      BY <2>1
    <3>2. dialog.targets \subseteq Node
      BY <1>2, DialogFacts DEF Started, TypeOK, TreeTypeOK
    <3> QED BY <2>1, <3>1, <3>2, SessionAssumption DEF Waiting
  <2>3. \A i \in Answers : bg[i].by # requests + 1 /\ bg[i].by \in Thread
    BY <2>1, EventShape DEF NoStrays, Answers
  <2>4. todo \in [Thread -> SUBSET known]
    BY DEF TypeOK
  <2>5. Answers' = Answers
    BY <2>1 DEF Answers
  <2> QED BY <2>1, <2>2, <2>3, <2>4, <2>5 DEF JobsOnce
<1>3. ASSUME NEW r \in Thread, Worked(r) PROVE JobsOnce'
  <2>0. todo \in [Thread -> SUBSET known] /\ cur \in [Thread -> known \cup {NoNode}]
        /\ NoNode \notin known
    BY SessionAssumption DEF TypeOK, TreeTypeOK
  <2>1. CASE BeginJob(r)
    <3>1. PICK n \in todo[r] : cur' = [cur EXCEPT ![r] = n] /\ todo' = [todo EXCEPT ![r] = @ \ {n}]
      BY <2>1 DEF BeginJob
    <3>2. bg' = bg /\ Answers' = Answers /\ \A i \in Answers : bg[i].by \in Thread
      BY <2>1, EventShape DEF BeginJob, Answers
    <3> QED BY <2>0, <3>1, <3>2 DEF JobsOnce
  <2>2. CASE FinishJob(r)
    <3>1. PICK ev : /\ bg' = Append(bg, ev) /\ ev.type # "DeleteDone"
                    /\ ev.by = r /\ ev.node = cur[r]
      BY <2>2 DEF FinishJob, Send
    <3> DEFINE k == Len(bg) + 1
    <3>2. /\ Answers' = Answers \cup {k} /\ bg'[k] = ev /\ k \notin Answers
          /\ \A i \in Answers : bg'[i] = bg[i] /\ bg[i].by \in Thread
      BY <3>1, AppendFacts, EventShape DEF Answers
    <3>3. cur[r] # NoNode /\ cur' = [cur EXCEPT ![r] = NoNode] /\ todo' = todo
      BY <2>2 DEF FinishJob
    <3>4. \A i \in Answers : bg[i].node \in known
      BY EventShape DEF Answers
    <3> HIDE DEF k
    <3>5. \A i \in Answers : bg'[i].by = r => bg'[i].node # cur[r]
      BY <3>2 DEF JobsOnce
    <3>6. \A t \in Thread : cur'[t] \notin todo'[t]
      BY <2>0, <3>3 DEF JobsOnce
    <3>7. \A i \in Answers' : bg'[i].node \notin todo'[bg'[i].by] /\ bg'[i].node # cur'[bg'[i].by]
      <4>1. ASSUME NEW i \in Answers
            PROVE  bg'[i].node \notin todo'[bg'[i].by] /\ bg'[i].node # cur'[bg'[i].by]
        <5>1. bg[i].node \notin todo[bg[i].by] /\ bg[i].node # cur[bg[i].by] /\ bg[i].node # NoNode
          BY <2>0, <3>4 DEF JobsOnce
        <5> QED BY <2>0, <3>2, <3>3, <5>1
      <4>2. bg'[k].node \notin todo'[bg'[k].by] /\ bg'[k].node # cur'[bg'[k].by]
        BY <2>0, <3>1, <3>2, <3>3 DEF JobsOnce
      <4> QED BY <3>2, <4>1, <4>2
    <3>8. \A i, j \in Answers' : bg'[i].by = bg'[j].by /\ bg'[i].node = bg'[j].node => i = j
      <4>1. \A i, j \in Answers : bg'[i].by = bg'[j].by /\ bg'[i].node = bg'[j].node => i = j
        BY <3>2 DEF JobsOnce
      <4>2. \A i \in Answers : ~(bg'[i].by = bg'[k].by /\ bg'[i].node = bg'[k].node)
        BY <3>1, <3>2, <3>5
      <4> QED BY <3>2, <4>1, <4>2
    <3> QED BY <3>6, <3>7, <3>8 DEF JobsOnce
  <2>3. CASE EndThread(r)
    <3>1. PICK ev : bg' = Append(bg, ev) /\ ev.type = "DeleteDone"
      BY <2>3 DEF EndThread, Send
    <3>2. /\ Answers' = Answers
          /\ \A i \in Answers : bg'[i] = bg[i]
      BY <3>1, AppendFacts DEF Answers
    <3>3. UNCHANGED <<todo, cur>>
      BY <2>3 DEF EndThread
    <3> QED BY <3>2, <3>3 DEF JobsOnce
  <2> QED BY <1>3, <2>1, <2>2, <2>3 DEF Worked
<1>4. CASE Quiet
  BY <1>4 DEF Quiet, threads, JobsOnce, Answers
<1> QED BY <1>1, <1>2, <1>3, <1>4, CountCases

LEMMA NoStraysStep ==
  ASSUME TypeOK, NoStrays, [Next]_vars
  PROVE  NoStrays'
<1>0. requests \in Nat /\ running \subseteq 1..requests
  BY DEF TypeOK
<1>1. CASE Answered \/ Ended
  BY <1>1, TailFacts DEF Answered, Ended, threads, NoStrays
<1>2. CASE Started
  <2>1. requests' = requests + 1 /\ running' = running \cup {requests + 1} /\ UNCHANGED <<bg, cur>>
        /\ todo' = [todo EXCEPT ![requests + 1] = dialog.targets]
    BY <1>2 DEF Started, start_delete
  <2>2. \A r \in Thread \ running' : todo'[r] = todo[r]
    BY <2>1 DEF TypeOK
  <2> QED BY <1>0, <2>1, <2>2 DEF NoStrays
<1>3. ASSUME NEW r \in Thread, Worked(r) PROVE NoStrays'
  <2>1. r \in running /\ requests' = requests
    BY <1>3 DEF Worked, BeginJob, FinishJob, EndThread, Alive
  <2>2. CASE BeginJob(r)
    BY <2>1, <2>2 DEF BeginJob, NoStrays, TypeOK
  <2>3. CASE FinishJob(r)
    <3>1. PICK ev : bg' = Append(bg, ev) /\ ev.by = r
      BY <2>3 DEF FinishJob, Send
    <3>2. \A i \in DOMAIN bg' : bg'[i].by \in 1..requests
      BY <1>0, <2>1, <3>1, AppendFacts DEF NoStrays
    <3> QED BY <2>1, <2>3, <3>2 DEF FinishJob, NoStrays, TypeOK
  <2>4. CASE EndThread(r)
    <3>1. PICK ev : bg' = Append(bg, ev) /\ ev.by = r
      BY <2>4 DEF EndThread, Send
    <3>2. \A i \in DOMAIN bg' : bg'[i].by \in 1..requests
      BY <1>0, <2>1, <3>1, AppendFacts DEF NoStrays
    <3> QED BY <2>1, <2>4, <3>2 DEF EndThread, NoStrays
  <2> QED BY <1>3, <2>2, <2>3, <2>4 DEF Worked
<1>4. CASE Quiet
  BY <1>4 DEF Quiet, threads, NoStrays
<1> QED BY <1>1, <1>2, <1>3, <1>4, CountCases

LEMMA DoneFollowsStep ==
  ASSUME TypeOK, DoneFollows, [Next]_vars
  PROVE  DoneFollows'
<1>1. CASE Answered \/ Ended
  <2>0. running' = running
    BY <1>1 DEF Answered, Ended, threads
  <2>1. ASSUME NEW i \in Answers', running = {}
        PROVE  \E j \in DOMAIN bg' : i < j /\ bg'[j].type = "DeleteDone"
    <3>1. i + 1 \in Answers /\ i \in Nat
      BY <1>1, TailFacts DEF Answered, Ended, Answers
    <3>2. PICK j \in DOMAIN bg : i + 1 < j /\ bg[j].type = "DeleteDone"
      BY <2>1, <3>1 DEF DoneFollows
    <3>3. j \in Nat /\ j # 1 /\ i < j - 1
      BY <3>1, <3>2 DEF TypeOK
    <3>4. j - 1 \in DOMAIN bg' /\ bg'[j - 1] = bg[j]
      BY <1>1, <3>3, TailFacts DEF Answered, Ended
    <3> QED BY <3>2, <3>3, <3>4
  <2> QED BY <2>0, <2>1 DEF DoneFollows
<1>2. CASE Started
  BY <1>2 DEF Started, start_delete, DoneFollows
<1>3. ASSUME NEW r \in Thread, Worked(r) PROVE DoneFollows'
  <2>1. CASE BeginJob(r)
    BY <2>1 DEF BeginJob, DoneFollows, Answers
  <2>2. CASE FinishJob(r)
    BY <2>2 DEF FinishJob, Alive, DoneFollows
  <2>3. CASE EndThread(r)
    <3>1. PICK ev : bg' = Append(bg, ev) /\ ev.type = "DeleteDone"
      BY <2>3 DEF EndThread, Send
    <3> DEFINE k == Len(bg) + 1
    <3>2. k \in DOMAIN bg' /\ bg'[k].type = "DeleteDone" /\ \A i \in Answers' : i < k
      BY <3>1, AppendFacts DEF Answers
    <3> QED BY <3>2 DEF DoneFollows
  <2> QED BY <1>3, <2>1, <2>2, <2>3 DEF Worked
<1>4. CASE Quiet
  BY <1>4 DEF Quiet, threads, DoneFollows, Answers
<1> QED BY <1>1, <1>2, <1>3, <1>4, CountCases

-----------------------------------------------------------------------------
(* The count. *)

\* Applying a result takes one job off.
LEMMA AnsweredCount ==
  ASSUME TypeOK, TypeOK', JobsOnce, Answered, deleting = Cardinality(Outstanding)
  PROVE  deleting # 0 /\ deleting' = Cardinality(Outstanding')
<1>0. bg # <<>> /\ bg' = Tail(bg) /\ bg[1].type # "DeleteDone" /\ 1 \in Answers /\ known' = known
  BY TailFacts DEF Answered, Answers
<1> DEFINE b == bg[1].by
           n == bg[1].node
<1>1. b \in Thread /\ n \in known /\ HasJob(b, n)
  BY <1>0, EventShape DEF HasJob, Answers
<1>2. ASSUME NEW r \in Thread, NEW m \in known
      PROVE  HasJob(r, m)' <=> HasJob(r, m) /\ ~(r = b /\ m = n)
  <2>1. todo' = todo /\ cur' = cur
    BY DEF Answered, threads
  <2>2. ASSUME NEW i \in Answers', bg'[i].by = r, bg'[i].node = m
        PROVE  HasJob(r, m) /\ ~(r = b /\ m = n)
    <3>1. i \in Nat /\ i + 1 \in Answers /\ bg'[i] = bg[i + 1] /\ i # 0
      BY <1>0, TailFacts DEF Answers, TypeOK
    <3>2. i + 1 # 1
      BY <3>1
    <3> QED BY <1>0, <2>2, <3>1, <3>2 DEF JobsOnce, HasJob
  <2>3. ASSUME NEW i \in Answers, i # 1
        PROVE  i - 1 \in Answers' /\ bg'[i - 1] = bg[i]
    BY <1>0, <2>3, TailFacts DEF Answers
  <2>4. ASSUME m \in todo[r] \/ m = cur[r] PROVE ~(r = b /\ m = n)
    BY <1>0, <2>4 DEF JobsOnce
  <2> HIDE DEF b, n
  <2>5. ASSUME HasJob(r, m), ~(r = b /\ m = n) PROVE HasJob(r, m)'
    BY <2>1, <2>3, <2>5 DEF HasJob, b, n
  <2> QED BY <2>1, <2>2, <2>4, <2>5 DEF HasJob
<1> HIDE DEF b, n
<1>3. Outstanding' = Outstanding \ {<<b, n>>}
  <2>1. Outstanding' = {job \in Thread \X known' : HasJob(job[1], job[2])'}
    BY OutstandingNext DEF JobsCounted
  <2> QED BY <1>0, <1>2, <2>1, OutstandingJobs DEF JobsCounted
<1>4. <<b, n>> \in Outstanding
  BY <1>1, OutstandingJobs DEF JobsCounted
<1>5. IsFiniteSet(Outstanding)
  BY OutstandingJobs DEF JobsCounted
<1>6. Cardinality(Outstanding') = Cardinality(Outstanding) - 1
  BY <1>3, <1>4, <1>5, FS_RemoveElement
<1>7. Cardinality(Outstanding) # 0
  BY <1>4, <1>5, FS_EmptySet
<1> QED BY <1>6, <1>7 DEF Answered

\* A new delete thread adds as many as it has targets.
LEMMA StartedCount ==
  ASSUME TypeOK, TypeOK', Waiting, NoStrays, Started, deleting = Cardinality(Outstanding)
  PROVE  deleting' = Cardinality(Outstanding')
<1> DEFINE ids == dialog.targets
           new == requests + 1
           jobs == {new} \X ids
<1>1. ids \subseteq known /\ NoNode \notin known /\ known' = known
  BY DialogFacts, SessionAssumption DEF Started, TypeOK, TreeTypeOK
<1>2. /\ requests \in Nat /\ new \in Thread /\ new > requests
      /\ bg' = bg /\ cur' = cur /\ todo' = [todo EXCEPT ![new] = ids]
      /\ deleting' = deleting + Cardinality(ids)
  BY SessionAssumption DEF Started, start_delete, Jobs, TypeOK, Thread
<1>3. todo \in [Thread -> SUBSET known]
  BY DEF TypeOK
<1>4. todo[new] = {} /\ cur[new] = NoNode /\ \A i \in Answers : bg[i].by # new
  BY <1>2 DEF Waiting, NoStrays, Answers
<1> HIDE DEF new
<1>5. \A n \in known : ~HasJob(new, n)
  BY <1>1, <1>4 DEF HasJob
<1>6. \A r \in Thread : \A n \in known : HasJob(r, n)' <=> HasJob(r, n) \/ (r = new /\ n \in ids)
  BY <1>1, <1>2, <1>3, <1>4 DEF HasJob, Answers
<1>7. Outstanding' = Outstanding \cup jobs /\ Outstanding \cap jobs = {}
  <2>1. Outstanding' = {job \in Thread \X known' : HasJob(job[1], job[2])'}
    BY OutstandingNext DEF JobsCounted
  <2>2. Outstanding = {job \in Thread \X known : HasJob(job[1], job[2])}
    BY OutstandingJobs DEF JobsCounted
  <2> HIDE DEF ids
  <2> QED BY <1>1, <1>2, <1>5, <1>6, <2>1, <2>2 DEF ids
<1>8. IsFiniteSet(ids) /\ IsFiniteSet({new}) /\ Cardinality({new}) = 1 /\ Cardinality(ids) \in Nat
  BY <1>1, FiniteNodes, FS_Singleton DEF TypeOK, TreeTypeOK
<1>9. IsFiniteSet(jobs) /\ Cardinality(jobs) = Cardinality(ids)
  BY <1>8, FS_Product
<1>10. IsFiniteSet(Outstanding) /\ Cardinality(Outstanding) \in Nat
  BY OutstandingJobs DEF JobsCounted
<1>11. Cardinality(Outstanding') = Cardinality(Outstanding) + Cardinality(jobs)
  <2>1. Cardinality(Outstanding \cup jobs)
          = Cardinality(Outstanding) + Cardinality(jobs) - Cardinality(Outstanding \cap jobs)
    BY <1>9, <1>10, FS_Union
  <2>2. Cardinality(Outstanding \cap jobs) = 0
    BY <1>7, FS_EmptySet
  <2>3. Cardinality(jobs) \in Nat
    BY <1>8, <1>9
  <2> QED BY <1>7, <1>10, <2>1, <2>2, <2>3
<1> QED BY <1>2, <1>9, <1>11

\* A delete thread only moves its jobs on.
LEMMA WorkedCount ==
  ASSUME TypeOK, TypeOK', NEW r \in Thread, Worked(r), deleting = Cardinality(Outstanding)
  PROVE  deleting' = Cardinality(Outstanding')
<1>0. todo \in [Thread -> SUBSET known] /\ cur \in [Thread -> known \cup {NoNode}]
      /\ NoNode \notin known
  BY SessionAssumption DEF TypeOK, TreeTypeOK
<1>1. known' = known /\ deleting' = deleting
  BY DEF Worked, BeginJob, FinishJob, EndThread, tree, app
<1>2. \A t \in Thread : \A n \in known : HasJob(t, n)' <=> HasJob(t, n)
  <2>1. CASE BeginJob(r)
    <3>1. PICK n \in todo[r] : cur' = [cur EXCEPT ![r] = n] /\ todo' = [todo EXCEPT ![r] = @ \ {n}]
      BY <2>1 DEF BeginJob
    <3>2. cur[r] = NoNode /\ bg' = bg
      BY <2>1 DEF BeginJob
    <3> QED BY <1>0, <3>1, <3>2 DEF HasJob, Answers
  <2>2. CASE FinishJob(r)
    <3>1. PICK ev : /\ bg' = Append(bg, ev) /\ ev.type # "DeleteDone"
                    /\ ev.by = r /\ ev.node = cur[r]
      BY <2>2 DEF FinishJob, Send
    <3> DEFINE k == Len(bg) + 1
    <3>2. /\ Answers' = Answers \cup {k} /\ bg'[k] = ev
          /\ \A i \in Answers : bg'[i] = bg[i]
      BY <3>1, AppendFacts DEF Answers
    <3>3. cur[r] # NoNode /\ cur' = [cur EXCEPT ![r] = NoNode] /\ todo' = todo
      BY <2>2 DEF FinishJob
    <3> HIDE DEF k
    <3> QED BY <1>0, <3>1, <3>2, <3>3 DEF HasJob
  <2>3. CASE EndThread(r)
    <3>1. PICK ev : bg' = Append(bg, ev) /\ ev.type = "DeleteDone"
      BY <2>3 DEF EndThread, Send
    <3>2. Answers' = Answers /\ \A i \in Answers : bg'[i] = bg[i]
      BY <3>1, AppendFacts DEF Answers
    <3>3. UNCHANGED <<todo, cur>>
      BY <2>3 DEF EndThread
    <3> QED BY <3>2, <3>3 DEF HasJob
  <2> QED BY <2>1, <2>2, <2>3 DEF Worked
<1> QED BY <1>1, <1>2, JobsStay

\* The end of a thread is no job.
LEMMA EndedCount ==
  ASSUME TypeOK, TypeOK', Ended, deleting = Cardinality(Outstanding)
  PROVE  deleting' = Cardinality(Outstanding')
<1>1. bg # <<>> /\ bg' = Tail(bg) /\ bg[1].type = "DeleteDone"
  BY TailFacts DEF Ended
<1>2. known' = known /\ todo' = todo /\ cur' = cur /\ deleting' = deleting
  BY DEF Ended, ApplyDeleteDone, tree, threads
<1>3. \A i \in Answers' : i + 1 \in Answers /\ bg'[i] = bg[i + 1]
  BY <1>1, TailFacts DEF Answers
<1>4. \A i \in Answers : i - 1 \in Answers' /\ bg'[i - 1] = bg[i]
  BY <1>1, TailFacts DEF Answers
<1>5. \A r \in Thread : \A n \in known' : HasJob(r, n)' <=> HasJob(r, n)
  BY <1>2, <1>3, <1>4 DEF HasJob
<1> QED BY <1>2, <1>5, JobsStay

LEMMA QuietCount ==
  ASSUME TypeOK, TypeOK', known \subseteq known', Quiet, deleting = Cardinality(Outstanding)
  PROVE  deleting' = Cardinality(Outstanding')
<1>1. todo' = todo /\ cur' = cur /\ bg' = bg /\ deleting' = deleting /\ Answers' = Answers
  BY DEF Quiet, threads, Answers
<1>2. \A r \in Thread : \A n \in known' : HasJob(r, n) => n \in known
  BY EventShape, SessionAssumption DEF HasJob, TypeOK, TreeTypeOK, Answers
<1>3. \A r \in Thread : \A n \in known' : HasJob(r, n)' <=> HasJob(r, n)
  BY <1>1 DEF HasJob
<1> QED BY <1>1, <1>2, <1>3, JobsStay

\* The count follows the jobs, whatever the step.
LEMMA CountStep ==
  ASSUME IInv, TypeOK', JobsOnce, NoStrays, deleting = Cardinality(Outstanding), [Next]_vars
  PROVE  deleting' = Cardinality(Outstanding')
<1>1. TypeOK /\ TreeInv /\ Waiting /\ known \subseteq known'
  BY TreeStays DEF IInv
<1> QED BY <1>1, CountCases, AnsweredCount, StartedCount, WorkedCount, EndedCount, QuietCount

-----------------------------------------------------------------------------
(* The errors that wait for the last job. *)

ErrorsWatched ==
  delete_errors # {} =>
    running # {} \/ \E i \in DOMAIN bg : bg[i].type = "DeleteDone"

\* As long as a job is left, some thread runs or its end is still in the channel
\* behind the next event.
LEMMA StillWatched ==
  ASSUME TypeOK, NoStrays, DoneFollows, deleting = Cardinality(Outstanding), deleting # 0,
         bg # <<>>, Head(bg).type = "DeleteDone"
  PROVE  running # {} \/ \E i \in DOMAIN bg : i # 1 /\ bg[i].type = "DeleteDone"
<1>1. PICK job \in Outstanding : TRUE
  <2>1. Outstanding # {}
    BY FS_EmptySet
  <2> QED BY <2>1
<1>2. job \in Thread \X known /\ HasJob(job[1], job[2])
  BY OutstandingJobs DEF JobsCounted
<1>3. CASE job[2] \in todo[job[1]] \/ job[2] = cur[job[1]]
  BY <1>2, <1>3, SessionAssumption DEF NoStrays, TypeOK, TreeTypeOK
<1>4. ASSUME NEW i \in Answers
      PROVE  running # {} \/ \E j \in DOMAIN bg : j # 1 /\ bg[j].type = "DeleteDone"
  <2>1. i \in 1..Len(bg) /\ Len(bg) \in Nat
    BY DEF Answers, TypeOK
  <2>2. \A j \in DOMAIN bg : i < j => j # 1
    BY <2>1 DEF TypeOK
  <2> QED BY <2>2 DEF DoneFollows
<1> QED BY <1>2, <1>3, <1>4 DEF HasJob

LEMMA ErrorsWatchedStep ==
  ASSUME TypeOK, NoStrays, DoneFollows, ErrorsWatched, deleting = Cardinality(Outstanding),
         [Next]_vars
  PROVE  ErrorsWatched'
<1>1. CASE Answered
  <2>1. 1 \in Answers /\ running' = running /\ bg # <<>> /\ bg' = Tail(bg)
    BY <1>1, TailFacts DEF Answered, Answers, threads
  <2>2. running # {} \/ \E j \in DOMAIN bg : 1 < j /\ bg[j].type = "DeleteDone"
    BY <2>1 DEF DoneFollows
  <2>3. \A j \in DOMAIN bg : 1 < j => j - 1 \in DOMAIN bg' /\ bg'[j - 1] = bg[j]
    BY <2>1, TailFacts
  <2> QED BY <2>1, <2>2, <2>3 DEF ErrorsWatched
<1>2. CASE Ended
  <2>1. running' = running /\ bg # <<>> /\ bg' = Tail(bg) /\ Head(bg).type = "DeleteDone"
    BY <1>2 DEF Ended, threads
  <2>2. CASE delete_errors' # {}
    <3>1. deleting # 0
      BY <1>2, <2>2 DEF Ended, ApplyDeleteDone, ErrorsDue
    <3>2. running # {} \/ \E j \in DOMAIN bg : j # 1 /\ bg[j].type = "DeleteDone"
      BY <2>1, <3>1, StillWatched
    <3>3. \A j \in DOMAIN bg : j # 1 => j - 1 \in DOMAIN bg' /\ bg'[j - 1] = bg[j]
      BY <2>1, TailFacts
    <3> QED BY <2>1, <3>2, <3>3 DEF ErrorsWatched
  <2> QED BY <2>2 DEF ErrorsWatched
<1>3. CASE Started
  BY <1>3 DEF Started, start_delete, ErrorsWatched
<1>4. ASSUME NEW r \in Thread, Worked(r) PROVE ErrorsWatched'
  <2>1. CASE BeginJob(r) \/ FinishJob(r)
    BY <2>1 DEF BeginJob, FinishJob, Alive, ErrorsWatched
  <2>2. CASE EndThread(r)
    <3>1. PICK ev : bg' = Append(bg, ev) /\ ev.type = "DeleteDone"
      BY <2>2 DEF EndThread, Send
    <3> QED BY <3>1, AppendFacts DEF ErrorsWatched
  <2> QED BY <1>4, <2>1, <2>2 DEF Worked
<1>5. CASE Quiet
  BY <1>5 DEF Quiet, threads, ErrorsWatched
<1> QED BY <1>1, <1>2, <1>3, <1>4, <1>5, CountCases

-----------------------------------------------------------------------------
(* The invariant, and the number in the header. *)

Counted == deleting = Cardinality(Outstanding)

CountInv == JobsOnce /\ NoStrays /\ DoneFollows /\ Counted /\ ErrorsWatched

LEMMA CountInvInit == Init => CountInv
<1> SUFFICES ASSUME Init PROVE CountInv
  OBVIOUS
<1>1. TypeOK
  BY IInvInit DEF IInv
<1>2. JobsOnce /\ NoStrays /\ DoneFollows /\ ErrorsWatched
  BY DEF Init, JobsOnce, NoStrays, DoneFollows, ErrorsWatched, Answers
<1>3. Outstanding = {}
  <2>1. \A r \in Thread : \A n \in known : ~HasJob(r, n)
    BY <1>1, SessionAssumption DEF Init, HasJob, Answers, TypeOK, TreeTypeOK
  <2> QED BY <1>1, <2>1, OutstandingJobs DEF JobsCounted
<1>4. Counted
  BY <1>3, FS_EmptySet DEF Init, Counted
<1> QED BY <1>2, <1>4 DEF CountInv

LEMMA CountInvariant == Spec => []CountInv
<1>1. IInv /\ IInv' /\ CountInv /\ [Next]_vars => CountInv'
  <2> SUFFICES ASSUME IInv, IInv', CountInv, [Next]_vars PROVE CountInv'
    OBVIOUS
  <2>1. TypeOK /\ TypeOK' /\ Waiting
    BY DEF IInv
  <2>2. JobsOnce' /\ NoStrays' /\ DoneFollows'
    BY <2>1, JobsOnceStep, NoStraysStep, DoneFollowsStep DEF CountInv
  <2>3. Counted' /\ ErrorsWatched'
    BY <2>1, CountStep, ErrorsWatchedStep DEF CountInv, Counted
  <2> QED BY <2>2, <2>3 DEF CountInv
<1> QED BY <1>1, CountInvInit, Invariant, PTL DEF Spec

\* The "deleting N" of the header is the number of jobs without an applied result, of
\* all delete threads, whatever order they work, end and are heard in; and as long as
\* errors are held back, a DeleteDone that looks at them is still to come.
THEOREM DeletingExactAlways == Spec => []DeletingExact
<1>1. CountInv => DeletingExact
  BY DEF CountInv, Counted, ErrorsWatched, DeletingExact
<1> QED BY <1>1, CountInvariant, PTL

-----------------------------------------------------------------------------
(* The report of failed deletions. *)

\* While one is on display, no job is left that could replace it.
ReportStands ==
  dialog.kind = "Message" /\ dialog.failed # {} => deleting = 0 /\ delete_errors = {}

LEMMA ReportStandsInit == Init => ReportStands
BY DEF Init, ReportStands, None

LEMMA ReportStandsStep ==
  ASSUME IInv, IInv', CountInv, ReportStands, [Next]_vars
  PROVE  /\ ReportStands'
         /\ dialog.kind = "Message" /\ dialog.failed # {} /\ dialog' # dialog
              => pc \in {"poll", "d"}
         /\ delete_errors \subseteq delete_errors' \/ dialog' = Message(delete_errors)
<1>1. CASE Answered
  <2>1. deleting # 0
    BY <1>1, AnsweredCount DEF IInv, CountInv, Counted
  <2> QED BY <1>1, <2>1 DEF Answered, ReportStands
<1>2. CASE Ended
  BY <1>2 DEF Ended, ApplyDeleteDone, ErrorsDue, ReportStands, Message
<1>3. CASE Started
  BY <1>3 DEF Started, ReportStands, None
<1>4. ASSUME NEW r \in Thread, Worked(r) PROVE UNCHANGED <<dialog, deleting, delete_errors>>
  BY <1>4 DEF Worked, BeginJob, FinishJob, EndThread, app
<1>5. CASE Quiet
  BY <1>5 DEF Quiet, ReportStands
<1> QED BY <1>1, <1>2, <1>3, <1>4, <1>5, CountCases DEF ReportStands

\* A report of failed deletions stays on display until a key is pressed: no later
\* result or end of a delete thread takes its place; and collected errors go away only
\* into a report.
THEOREM FailureShownAlways == Spec => FailureShown
<1>1. IInv /\ IInv' /\ CountInv /\ ReportStands /\ [Next]_vars => ReportStands'
  BY ReportStandsStep
<1>2. IInv /\ IInv' /\ CountInv /\ ReportStands /\ [Next]_vars
        => [/\ dialog.kind = "Message" /\ dialog.failed # {} /\ dialog' # dialog
                 => pc \in {"poll", "d"}
            /\ delete_errors \subseteq delete_errors' \/ dialog' = Message(delete_errors)]_vars
  BY ReportStandsStep
<1> QED BY <1>1, <1>2, ReportStandsInit, Invariant, CountInvariant, PTL DEF Spec, FailureShown

-----------------------------------------------------------------------------
(* The disk and the tree. *)

\* Once the list was read, each subvolume on disk has a live, flagged node.
Flagged == checked => \A p \in svol : \E m \in LiveNodes : path_of(m) = p /\ m \in subvol

\* What was removed from the tree, and what the channel says was deleted, is gone
\* from disk with all the subvolumes below it.
RemovedGone == \A n \in removed : \A p \in svol : ~Covers(path_of(n), p)
DeletedGone ==
  \A i \in DOMAIN bg : bg[i].type = "Deleted" =>
    \A p \in svol : ~Covers(path_of(bg[i].node), p)

OnDisk == Flagged /\ RemovedGone /\ DeletedGone

-----------------------------------------------------------------------------
(* What a step may do to the disk and to the channel. *)

LEMMA SvolShrinks == 
  ASSUME creates' = 0, TypeOK, [Next]_vars
  PROVE  svol' \subseteq svol /\ creates = 0
<1>1. CASE \E r \in Thread : DeleteThread(r)
  BY <1>1 DEF DeleteThread, BeginJob, DestroyNested, FinishJob, EndThread, Destroyed, disk
<1>2. CASE ForeignCreate
  BY <1>2 DEF ForeignCreate, TypeOK
<1>3. CASE apply_bg \/ Drained \/ Frame \/ NoKey \/ PressD
  BY <1>3 DEF apply_bg, Drained, Frame, NoKey, PressD, disk
<1>4. CASE Browse \/ begin_delete \/ DialogKey \/ ConfirmYes
  BY <1>4 DEF Browse, Enter, Leave, Mark, ClearMarks, OpenDialog, Quit, begin_delete,
              DialogKey, ConfirmYes, OnKey, disk
<1>5. CASE Sampled \/ UNCHANGED vars
  BY <1>5 DEF Sampled, vars, disk
<1> QED BY <1>1, <1>2, <1>3, <1>4, <1>5 DEF Next, UI

\* Some thread finishes the job it is on, with everything below the target gone.
Deletes(r) ==
  /\ r \in Thread /\ cur[r] \in known
  /\ Destroyed(path_of(cur[r]))
  /\ bg' = Append(bg, [type |-> "Deleted", by |-> r, node |-> cur[r]])

LEMMA ChannelCases ==
  ASSUME TypeOK, [Next]_vars
  PROVE  \/ bg' = bg
         \/ bg # <<>> /\ bg' = Tail(bg)
         \/ \E r \in Thread : Deletes(r)
         \/ \E ev \in Event : ev.type # "Deleted" /\ bg' = Append(bg, ev)
<1>1. ASSUME NEW r \in Thread, DeleteThread(r)
      PROVE  \/ bg' = bg
             \/ Deletes(r)
             \/ \E ev \in Event : ev.type # "Deleted" /\ bg' = Append(bg, ev)
  <2>1. CASE BeginJob(r) \/ DestroyNested(r)
    BY <2>1 DEF BeginJob, DestroyNested
  <2>2. CASE FinishJob(r)
    <3>1. cur[r] \in known
      BY <2>2 DEF FinishJob, TypeOK
    <3>2. [type |-> "DeleteFailed", by |-> r, node |-> cur[r]] \in Event
      BY <3>1 DEF Event
    <3> QED BY <2>2, <3>1, <3>2 DEF FinishJob, Send, Deletes
  <2>3. CASE EndThread(r)
    <3>1. [type |-> "DeleteDone", by |-> r] \in Event
      BY DEF Event
    <3> QED BY <2>3, <3>1 DEF EndThread, Send
  <2> QED BY <1>1, <2>1, <2>2, <2>3 DEF DeleteThread
<1>2. CASE apply_bg
  BY <1>2 DEF apply_bg
<1>3. CASE Drained \/ Frame \/ NoKey \/ PressD
  BY <1>3 DEF Drained, Frame, NoKey, PressD
<1>4. CASE Browse \/ begin_delete \/ DialogKey \/ ConfirmYes
  BY <1>4 DEF Browse, Enter, Leave, Mark, ClearMarks, OpenDialog, Quit, begin_delete,
              DialogKey, ConfirmYes, OnKey
<1>5. CASE Sampled \/ ForeignCreate \/ UNCHANGED vars
  BY <1>5 DEF Sampled, ForeignCreate, vars
<1> QED BY <1>1, <1>2, <1>3, <1>4, <1>5 DEF Next, UI

\* The list is read, for the first time too, by marking every subvolume on disk.
LEMMA CheckedCases ==
  ASSUME ~ListingFails, TypeOK, [Next]_vars, checked', ~checked
  PROVE  AddSample({}, svol) /\ svol' = svol
<1>1. CASE Frame
  BY <1>1 DEF Frame, subvolume_paths, refresh_subvols, MarkSubvols, disk
<1>2. CASE apply_bg \/ Drained \/ NoKey \/ PressD
  BY <1>2 DEF apply_bg, Drained, NoKey, PressD, loop
<1>3. CASE Browse \/ begin_delete \/ DialogKey \/ ConfirmYes
  BY <1>3 DEF Browse, Enter, Leave, Mark, ClearMarks, OpenDialog, Quit, begin_delete,
              DialogKey, ConfirmYes, OnKey
<1>4. CASE \E r \in Thread : DeleteThread(r)
  BY <1>4 DEF DeleteThread, BeginJob, DestroyNested, FinishJob, EndThread, loop
<1>5. CASE Sampled \/ ForeignCreate \/ UNCHANGED vars
  BY <1>5 DEF Sampled, ForeignCreate, vars, loop
<1> QED BY <1>1, <1>2, <1>3, <1>4, <1>5 DEF Next, UI

-----------------------------------------------------------------------------
(* The invariant. *)

\* A node that is removed was not above any subvolume on disk.
LEMMA RemovesGone ==
  ASSUME TypeOK, DeletedGone, NEW n \in known, Removes(n), NEW p \in svol
  PROVE  ~Covers(path_of(n), p)
BY ChannelFacts DEF Removes, DeletedGone

LEMMA FlaggedStep ==
  ASSUME creates' = 0, ~ListingFails, TypeOK, TreeInv, OnDisk, [Next]_vars
  PROVE  Flagged'
<1>1. svol' \subseteq svol /\ svol \subseteq Path
  BY SvolShrinks, SessionAssumption DEF TypeOK
<1>2. CASE checked' /\ ~checked
  <2>1. AddSample({}, svol) /\ svol' = svol
    BY <1>2, CheckedCases
  <2> QED BY <1>1, <2>1, AddSampleFacts DEF Flagged
<1>3. CASE checked
  <2>1. ASSUME NEW p \in svol, NEW m \in LiveNodes, path_of(m) = p, m \in subvol
        PROVE  m \in LiveNodes' /\ m \in subvol'
    <3>1. CASE UNCHANGED tree
      BY <2>1, <3>1 DEF tree, LiveNodes, is_live, Chain
    <3>2. CASE \E O, S \in SUBSET Path : AddSample(O, S)
      BY <2>1, <3>2, AddSampleFacts DEF LiveNodes
    <3>3. ASSUME NEW n \in known, Removes(n) PROVE m \in LiveNodes' /\ m \in subvol'
      <4>1. ~Covers(path_of(n), p)
        BY <3>3, RemovesGone DEF OnDisk
      <4>2. n \notin Chain(m)
        BY <2>1, <4>1, LiveAbove DEF Chain, Covers
      <4>3. Remove(n)
        BY <3>3 DEF Removes, ApplyDeleted
      <4> QED BY <2>1, <4>2, <4>3, RemoveFacts
    <3> QED BY <3>1, <3>2, <3>3, TreeCases
  <2> QED BY <1>1, <1>3, <2>1 DEF Flagged, OnDisk, path_of
<1> QED BY <1>2, <1>3 DEF Flagged

LEMMA RemovedGoneStep ==
  ASSUME creates' = 0, TypeOK, TreeInv, OnDisk, [Next]_vars
  PROVE  RemovedGone'
<1>1. svol' \subseteq svol
  BY SvolShrinks
<1>2. \A n \in removed' : n \in removed \/ \E m \in known : Removes(m) /\ n = m
  <2>1. CASE UNCHANGED tree
    BY <2>1 DEF tree
  <2>2. CASE \E O, S \in SUBSET Path : AddSample(O, S)
    BY <2>2, AddSampleFacts
  <2>3. CASE \E m \in known : Removes(m)
    BY <2>3, RemoveFacts DEF Removes, ApplyDeleted
  <2> QED BY <2>1, <2>2, <2>3, TreeCases
<1>3. \A n \in removed' : \A p \in svol : ~Covers(path_of(n), p)
  BY <1>2, RemovesGone DEF OnDisk, RemovedGone
<1> QED BY <1>1, <1>3 DEF RemovedGone, Covers, path_of

LEMMA DeletedGoneStep ==
  ASSUME creates' = 0, TypeOK, OnDisk, [Next]_vars
  PROVE  DeletedGone'
<1>1. svol' \subseteq svol /\ bg \in Seq(Event)
  BY SvolShrinks DEF TypeOK
<1>2. CASE bg' = bg
  BY <1>1, <1>2 DEF OnDisk, DeletedGone, Covers, path_of
<1>3. CASE bg # <<>> /\ bg' = Tail(bg)
  BY <1>1, <1>3, ChannelFacts DEF OnDisk, DeletedGone, Covers, path_of
<1>4. ASSUME NEW r \in Thread, Deletes(r) PROVE DeletedGone'
  <2> DEFINE new == [type |-> "Deleted", by |-> r, node |-> cur[r]]
  <2>1. \A i \in DOMAIN bg' : (i \in DOMAIN bg /\ bg'[i] = bg[i]) \/ bg'[i] = new
    BY <1>1, <1>4 DEF Deletes
  <2>2. \A p \in svol' : ~Covers(path_of(new.node), p)
    BY <1>4 DEF Deletes, Destroyed, Covers
  <2> QED BY <1>1, <2>1, <2>2 DEF OnDisk, DeletedGone, Covers, path_of
<1>5. ASSUME NEW ev \in Event, ev.type # "Deleted", bg' = Append(bg, ev) PROVE DeletedGone'
  <2>1. \A i \in DOMAIN bg' : (i \in DOMAIN bg /\ bg'[i] = bg[i]) \/ bg'[i] = ev
    BY <1>1, <1>5
  <2> QED BY <1>1, <1>5, <2>1 DEF OnDisk, DeletedGone, Covers, path_of
<1> QED BY <1>2, <1>3, <1>4, <1>5, ChannelCases

OnDiskInv == creates = 0 => OnDisk

LEMMA OnDiskInvariant == ASSUME ~ListingFails PROVE Spec => []OnDiskInv
<1>1. Init => OnDiskInv
  BY DEF Init, TreeInit, OnDiskInv, OnDisk, Flagged, RemovedGone, DeletedGone
<1>2. ASSUME IInv, OnDiskInv, [Next]_vars PROVE OnDiskInv'
  <2> SUFFICES ASSUME creates' = 0 PROVE OnDisk'
    BY DEF OnDiskInv
  <2>1. OnDisk
    BY <1>2, SvolShrinks DEF IInv, OnDiskInv
  <2> QED BY <1>2, <2>1, FlaggedStep, RemovedGoneStep, DeletedGoneStep DEF IInv, OnDisk
<1> QED BY <1>1, <1>2, Invariant, PTL DEF Spec

-----------------------------------------------------------------------------
(* The second question. *)

\* A target without a flagged node at or below it has no subvolume there.
LEMMA NoneBelow ==
  ASSUME TypeOK, TreeInv, OnDisk, checked, NEW n \in known, ~has_subvol(n), NEW p \in svol
  PROVE  ~Covers(path_of(n), p)
<1> SUFFICES ASSUME Covers(path_of(n), p) PROVE FALSE
  OBVIOUS
<1>1. PICK m \in LiveNodes : path_of(m) = p /\ m \in subvol
  BY DEF OnDisk, Flagged
<1>2. CASE n \in LiveNodes
  <2>1. CASE path_of(n) = p
    BY <1>1, <1>2, <2>1 DEF TreeInv, Trie, OneLiveNode, has_subvol
  <2>2. CASE path_of(n) \in Up[p]
    <3>1. PICK k \in anc[m] : path_of(k) = path_of(n)
      BY <1>1, <2>2 DEF TreeInv, Trie, Hangs, LiveNodes
    <3>2. k = n
      BY <1>1, <1>2, <3>1, LiveAbove DEF TreeInv, Trie, OneLiveNode
    <3>3. m \in Below(n)
      BY <1>1, <3>1, <3>2 DEF Below, LiveNodes, is_live
    <3> QED BY <1>1, <3>3 DEF has_subvol
  <2> QED BY <2>1, <2>2 DEF Covers
<1>3. CASE n \notin LiveNodes
  <2>1. PICK k \in Chain(n) : k \in removed
    BY <1>3 DEF LiveNodes, is_live
  <2>2. path_of(k) = path_of(n) \/ path_of(k) \in Up[path_of(n)]
    BY <2>1 DEF Chain, TreeInv, Trie, Hangs
  <2>3. p \in Path
    BY SessionAssumption DEF TypeOK
  <2>4. Covers(path_of(k), p)
    BY <2>2, <2>3, PathFacts DEF Covers
  <2> QED BY <2>1, <2>4 DEF OnDisk, RemovedGone
<1> QED BY <1>2, <1>3

\* Only 'y' in a confirmation starts a delete.
LEMMA RequestCases ==
  ASSUME [Next]_vars, requests' # requests
  PROVE  ConfirmYes /\ ~AskAgain(dialog.targets, dialog.stage)
<1>1. CASE ConfirmYes
  BY <1>1 DEF ConfirmYes, threads
<1>2. CASE apply_bg \/ Drained \/ Frame \/ NoKey \/ PressD \/ Browse \/ begin_delete \/ DialogKey
  BY <1>2 DEF apply_bg, Drained, Frame, NoKey, PressD, Browse, Enter, Leave, Mark, ClearMarks,
              OpenDialog, Quit, begin_delete, DialogKey, threads
<1>3. CASE \E r \in Thread : DeleteThread(r)
  BY <1>3 DEF DeleteThread, BeginJob, DestroyNested, FinishJob, EndThread, threads
<1>4. CASE Sampled \/ ForeignCreate \/ UNCHANGED vars
  BY <1>4 DEF Sampled, ForeignCreate, vars, threads
<1> QED BY <1>1, <1>2, <1>3, <1>4 DEF Next, UI

\* As long as other programs created no subvolume, and if the listing does not fail,
\* the first 'y' starts a delete only when no target is or contains a subvolume on disk.
THEOREM AskTwiceAlways == ASSUME ~ListingFails PROVE Spec => AskTwice
<1>1. ASSUME IInv, OnDiskInv, [Next]_vars, requests' # requests /\ dialog.stage = 1 /\ creates = 0
      PROVE  \A n \in dialog.targets : \A p \in svol : ~Covers(path_of(n), p)
  <2>1. ConfirmYes /\ ~AskAgain(dialog.targets, dialog.stage)
    BY <1>1, RequestCases
  <2>2. checked /\ dialog.targets \subseteq known
    BY <1>1, <2>1, DialogFacts DEF IInv, Checked, ConfirmYes, OnKey, TypeOK
  <2>3. \A n \in dialog.targets : ~has_subvol(n)
    BY <1>1, <2>1 DEF AskAgain
  <2> QED BY <1>1, <2>2, <2>3, NoneBelow DEF IInv, OnDiskInv
<1>2. IInv /\ OnDiskInv /\ [Next]_vars
        => [requests' # requests /\ dialog.stage = 1 /\ creates = 0
              => \A n \in dialog.targets : \A p \in svol : ~Covers(path_of(n), p)]_vars
  BY <1>1
<1> QED BY <1>2, Invariant, OnDiskInvariant, PTL DEF Spec, AskTwice
=============================================================================
