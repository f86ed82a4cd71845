------------------------------- MODULE Browse --------------------------------
(***************************************************************************)
(* The list of entries of src/src/app.rs: which entry the cursor is on     *)
(* while samples, deletions and the user change the tree, the order and    *)
(* the directory.                                                          *)
(*                                                                         *)
(* The UI thread draws under one read lock and handles the next key under  *)
(* another; samples come between the two.  Marks, dialogs and the threads  *)
(* that delete are in Session, exact sizes in FsHandle; here any entry may *)
(* be reported as deleted whenever the UI thread looks for events.         *)
(***************************************************************************)
EXTENDS EntryTree, Sequences

Seqs == INSTANCE SequencesExt

CONSTANTS Name,       \* Name[p]: the rank of p's name in the order of strings
          Page,       \* rows of a page
          MaxSamples, \* bounds: samples taken,
          MaxDeletes  \* and deletions reported

\* A children map holds a name once.
ASSUME BrowseAssumption ==
  /\ Name \in [Path -> Int]
  /\ \A p, q \in Path : Up[p] = Up[q] /\ Name[p] = Name[q] => p = q
  /\ Page \in Nat /\ MaxSamples \in Nat /\ MaxDeletes \in Nat

Mode == {"represented", "exclusive"}
SortBy == {"Size", "Name", "Count"}
NoEntry == <<>>

VARIABLES
  count,     \* the counters of each node, one for each mode
  dir, selected, mode, sort, reverse,  \* fields of App
  ui,        \* "drain": applying events; "key": waiting for a key
  drawn,     \* history: the entry highlighted on the screen
  taken      \* history: samples and deletions so far

data   == <<tree, count>>
app    == <<dir, selected, mode, sort, reverse>>
vars   == <<data, app, ui, drawn, taken>>

Init ==
  /\ TreeInit
  /\ count = [n \in {ROOT} |-> [m \in Mode |-> 0]]
  /\ dir = ROOT /\ selected = <<>>
  /\ mode = "represented" /\ sort = "Size" /\ reverse = FALSE
  /\ ui = "drain"
  /\ drawn = NoEntry
  /\ taken = [samples |-> 0, deletes |-> 0]

-----------------------------------------------------------------------------
(* The list. *)

Value(n) == count[n][IF sort = "Count" THEN "represented" ELSE mode]
Before(a, b) ==
  \/ sort # "Name" /\ Value(a) > Value(b)
  \/ (sort = "Name" \/ Value(a) = Value(b)) /\ Name[path_of(a)] < Name[path_of(b)]

\* The place of an entry is the number of those before it.
Place(S, e) == Cardinality({q \in S : Before(q, e)})
Sorted(S) == [i \in 1..Cardinality(S) |-> CHOOSE e \in S : Place(S, e) = i - 1]

EntriesOf(d) == LET v == Sorted(children(d)) IN IF reverse THEN Seqs!Reverse(v) ELSE v
entries == EntriesOf(dir)

AtMost(a, b) == IF a < b THEN a ELSE b
AtLeast(a, b) == IF a > b THEN a ELSE b
position(v, e) == CHOOSE i \in DOMAIN v : v[i] = e

\* A position from 1.  The one remembered counts once the entry itself is gone.
MutantCursorByRow(v) ==
  IF dir \in DOMAIN selected THEN AtMost(selected[dir][2], AtLeast(Len(v), 1)) ELSE 1
cursor(v) ==
  IF dir \notin DOMAIN selected THEN 1
  ELSE IF Seqs!Contains(v, selected[dir][1]) THEN position(v, selected[dir][1])
  ELSE AtMost(selected[dir][2], AtLeast(Len(v), 1))

\* The entry under the cursor, which Enter, i, d and Space are about.
Sel == LET v == entries IN IF cursor(v) \in DOMAIN v THEN v[cursor(v)] ELSE NoEntry

Remembering(d, v, i) ==
  [x \in DOMAIN selected \cup {d} |-> IF x = d THEN <<v[i], i>> ELSE selected[x]]

\* select(v, i), in directory d.
MutantSelecting(d, v, i) == IF v = <<>> THEN selected ELSE Remembering(dir, v, AtMost(i, Len(v)))
Selecting(d, v, i) == IF v = <<>> THEN selected ELSE Remembering(d, v, AtMost(i, Len(v)))

-----------------------------------------------------------------------------
(* The UI thread. *)

\* The nearest directory that still exists (after a removal).
NearestLive ==
  CHOOSE d \in Chain(dir) :
    /\ Chain(d) \cap removed' = {}
    /\ \A e \in Chain(dir) : Chain(e) \cap removed' = {} => e \in Chain(d)

\* A Deleted event.
apply_bg ==
  /\ ui = "drain" /\ taken.deletes < MaxDeletes
  /\ \E n \in known \ {ROOT} :
       /\ Remove(n)
       /\ count' = IF removed' = removed THEN count
                   ELSE [k \in known |->
                           IF k \notin anc[n] THEN count[k]
                           ELSE [m \in Mode |-> AtLeast(count[k][m] - count[n][m], 0)]]
  /\ dir' = NearestLive
  /\ taken' = [taken EXCEPT !.deletes = @ + 1]
  /\ UNCHANGED <<selected, mode, sort, reverse, ui, drawn>>

draw ==
  /\ ui = "drain"
  /\ ui' = "key" /\ drawn' = Sel
  /\ UNCHANGED <<data, app, taken>>

\* Back to the head of the loop; the screen is drawn again before the next key.
LoopBack == ui = "key" /\ ui' = "drain" /\ drawn' = NoEntry /\ UNCHANGED <<data, taken>>

\* poll times out, or the key is none of those below.
NoKey == LoopBack /\ UNCHANGED app

\* Up, Down, PageUp, PageDown, Home, End; Space, which marks, also moves down.
Move ==
  /\ LoopBack
  /\ LET v == entries
         cur == cursor(v)
     IN \E to \in {AtLeast(cur - 1, 1), cur + 1, AtLeast(cur - AtLeast(Page, 1), 1),
                   cur + AtLeast(Page, 1), 1, AtLeast(Len(v), 1)} :
          selected' = Selecting(dir, v, to)
  /\ UNCHANGED <<dir, mode, sort, reverse>>

Enter ==
  /\ LoopBack
  /\ Sel # NoEntry /\ children(Sel) # {}
  /\ selected' = Selecting(dir, entries, cursor(entries))
  /\ dir' = Sel
  /\ UNCHANGED <<mode, sort, reverse>>

\* The selection once directory d of the list v is left.
MutantReturnTo(v, d) ==
  IF Seqs!Contains(v, d) THEN Selecting(parent(d), v, position(v, d) + 1) ELSE selected
ReturnTo(v, d) ==
  IF Seqs!Contains(v, d) THEN Selecting(parent(d), v, position(v, d)) ELSE selected

Leave ==
  /\ LoopBack /\ dir # ROOT
  /\ dir' = parent(dir)
  /\ selected' = ReturnTo(EntriesOf(parent(dir)), dir)
  /\ UNCHANGED <<mode, sort, reverse>>

set_sort ==
  /\ LoopBack
  /\ \E s \in SortBy : sort' = s /\ reverse' = (s = sort /\ ~reverse)
  /\ UNCHANGED <<dir, selected, mode>>

ToggleReverse ==
  /\ LoopBack
  /\ reverse' = ~reverse
  /\ UNCHANGED <<dir, selected, mode, sort>>

NextMode ==
  /\ LoopBack
  /\ mode' = CHOOSE m \in Mode : m # mode
  /\ UNCHANGED <<dir, selected, sort, reverse>>

-----------------------------------------------------------------------------
(* The sampler. *)

\* A sample with owners O that represents one of them.
Sampled(O, first) ==
  /\ AddSample(O, {})
  /\ LET leaf(p) == CHOOSE n \in known' : path_of(n) = p /\ (anc'[n] \cup {n}) \cap removed = {}
         on(p) == anc'[leaf(p)] \cup {leaf(p)}
         credited(m) == IF m = "represented" THEN on(first)
                        ELSE {k \in known' : \A p \in O : k \in on(p)}
     IN count' = [k \in known' |-> [m \in Mode |->
          (IF k \in known THEN count[k][m] ELSE 0) + (IF k \in credited(m) THEN 1 ELSE 0)]]

Sample ==
  /\ taken.samples < MaxSamples
  /\ \E b \in Batch : \E p \in b[1] : Sampled(b[1], p)
  /\ taken' = [taken EXCEPT !.samples = @ + 1]
  /\ UNCHANGED <<app, ui, drawn>>

-----------------------------------------------------------------------------
key_browse == Move \/ Enter \/ Leave \/ set_sort \/ ToggleReverse \/ NextMode

Next == apply_bg \/ draw \/ NoKey \/ key_browse \/ Sample

Spec == Init /\ [][Next]_vars

-----------------------------------------------------------------------------
(* Properties *)

TypeOK ==
  /\ TreeTypeOK
  /\ count \in [known -> [Mode -> Nat]]
  /\ dir \in LiveNodes
  /\ \A d \in DOMAIN selected : /\ selected[d] \in known \X (Nat \ {0})
                                /\ parent(selected[d][1]) = d
  /\ mode \in Mode /\ sort \in SortBy /\ reverse \in BOOLEAN
  /\ ui \in {"drain", "key"}

\* In a directory where an entry was selected that still exists, a key acts on the
\* entry that is highlighted on the screen, whatever was sampled since it was drawn; and
\* while there are entries one of them is under the cursor.  In any other directory
\* the cursor is on a row, and a sample may put another entry there.
KeyHitsDrawn ==
  /\ ui = "key" /\ dir \in DOMAIN selected /\ is_live(selected[dir][1]) => Sel = drawn
  /\ children(dir) # {} => Sel # NoEntry

\* Leaving a directory puts the cursor on it, in whatever order the list is now.
LeaveReturns == [][ui = "key" /\ dir' \in anc[dir] => Sel' = dir]_vars
=============================================================================
