------------------------------- MODULE FsDelete -------------------------------
(***************************************************************************)
(* delete_rel of src/src/fsat.rs: one deletion, system call by system      *)
(* call, on a filesystem that other programs change meanwhile and where    *)
(* any call may fail.  The two recursive functions delete_at and           *)
(* destroy_nested are frames of one call stack.                            *)
(*                                                                         *)
(* A directory maps names to objects.  The order in which a directory is   *)
(* listed is left open; an open directory stays the same object wherever   *)
(* it is moved.  What a system call does is external.                      *)
(***************************************************************************)
EXTENDS Integers, SequencesExt

CONSTANTS Obj,        \* files, links, directories, subvolume roots; Top included
          Top,        \* the directory the handle is open on
          Kind,       \* [Obj -> {"file", "link", "dir", "subvol"}]
          LinkTo,     \* where links lead: [links -> Obj]
          Name,       \* names of entries
          Nil,        \* no object
          Start,      \* what the filesystem may be at first
          Target,     \* rel: a non-empty sequence of names
          MaxForeign  \* bound on what other programs do

IsDir(o) == o # Nil /\ Kind[o] \in {"dir", "subvol"}
Map == [Obj \X Name -> Obj \cup {Nil}]

\* An object and all below it, in filesystem e; within a subvolume, Own.
Tree(e, o) ==
  LET below[k \in 0..Cardinality(Obj)] ==
        IF k = 0 THEN {o}
        ELSE LET S == below[k - 1] IN S \cup ({e[x] : x \in S \X Name} \ {Nil})
  IN below[Cardinality(Obj)]
Own(e, o) ==
  Tree([x \in Obj \X Name |-> IF e[x] # Nil /\ Kind[e[x]] = "subvol" THEN Nil ELSE e[x]], o)

Linked(e) == Tree(e, Top)

\* Only directories have entries, nothing has two names (hard links are left out), and
\* what is not linked has no entries.
Filesystem(e) ==
  /\ e \in Map
  /\ \A x \in Obj \X Name : e[x] # Nil => IsDir(x[1]) /\ x[1] \in Linked(e) /\ e[x] # Top
  /\ \A x, y \in Obj \X Name : e[x] # Nil /\ e[x] = e[y] => x = y

ASSUME DeleteAssumption ==
  /\ IsFiniteSet(Obj) /\ Nil \notin Obj
  /\ Kind \in [Obj -> {"file", "link", "dir", "subvol"}]
  /\ Top \in Obj /\ Kind[Top] = "subvol"
  /\ \A e \in Start : Filesystem(e)
  /\ Target \in Seq(Name) \ {<<>>}
  /\ MaxForeign \in Nat

VARIABLES entry,   \* the filesystem: what a name in a directory is
          owner,   \* the subvolume an object belongs to, for as long as it exists
          stack,   \* delete_rel and the calls it is in, the innermost last
          result,  \* "running", "ok", "err"
          foreign, \* bound counter
          moved,   \* history: another program has moved something
          way,     \* history: way[i], what is or was at the first i components of the target
          seen,    \* history: what is or was at the target, or in a directory of these
          lost     \* history: objects the deletion removed

fs   == <<entry, owner, way, seen>>
vars == <<fs, stack, result, foreign, moved, lost>>

\* The objects the names of the target lead to in e, added to those of w.
Steps == 0..Len(Target)
WayIn(e, w) ==
  LET on[i \in Steps] ==
        IF i = 0 THEN {Top}
        ELSE w[i] \cup ({e[<<d, Target[i]>>] : d \in on[i - 1]} \ {Nil})
  IN on

SeenIn(e, w, S) == UNION {Tree(e, o) : o \in S \cup w[Len(Target)]}
Gone == \A d \in way[Len(Target) - 1] : entry[<<d, Last(Target)>>] = Nil

\* A call of delete_at(dir, name), of destroy_nested(dir), or the walk of open_parent
\* with the components `path` before it.  todo: the entries a loop has yet to take.
Frame(fn, dir, name) ==
  [fn |-> fn, pc |-> "start", dir |-> dir, name |-> name, st |-> Nil, fd |-> Nil,
   todo |-> {}, path |-> <<>>]

Init ==
  /\ entry \in Start
  /\ owner = [o \in Obj |->
       IF Kind[o] = "subvol" THEN o
       ELSE IF \E v \in Linked(entry) : Kind[v] = "subvol" /\ o \in Own(entry, v)
            THEN CHOOSE v \in Linked(entry) : Kind[v] = "subvol" /\ o \in Own(entry, v)
            ELSE Nil]
  /\ stack = <<[Frame("open_parent", Top, Nil) EXCEPT !.path = Front(Target)]>>
  /\ result = "running"
  /\ foreign = 0 /\ moved = FALSE
  /\ way = WayIn(entry, [i \in Steps |-> {}])
  /\ seen = SeenIn(entry, way, {})
  /\ lost = {}

-----------------------------------------------------------------------------
(* The machine. *)

Now == Last(stack)
At(fn, pc) == stack # <<>> /\ Now.fn = fn /\ Now.pc = pc
There == entry[<<Now.dir, Now.name>>]

Become(frame) == stack' = Append(Front(stack), frame) /\ UNCHANGED result
Call(caller, callee) == stack' = Front(stack) \o <<caller, callee>> /\ UNCHANGED result

\* The innermost call returns Ok; every error goes all the way up.
MutantReturn == stack' = Front(stack) /\ result' = "running"
Return ==
  /\ stack' = Front(stack)
  /\ result' = IF Len(stack) = 1 THEN "ok" ELSE "running"
MutantFail == Return
Fail == stack' = <<>> /\ result' = "err"

Reads == UNCHANGED <<fs, foreign, moved, lost>>

\* open_dir_at: the directory under that name, never what a link leads to.
MutantOpenDirAt(d, n) ==
  LET o == entry[<<d, n>>] IN IF o # Nil /\ Kind[o] = "link" THEN LinkTo[o] ELSE o
OpenDirAt(d, n) == entry[<<d, n>>]

\* One component of open_parent; then the call of delete_at.
OpenParent ==
  /\ At("open_parent", "start") /\ Now.path # <<>>
  /\ LET d == OpenDirAt(Now.dir, Head(Now.path)) IN
     IF IsDir(d) THEN Become([Now EXCEPT !.dir = d, !.path = Tail(@)]) ELSE Fail
  /\ Reads

CallDeleteAt ==
  /\ At("open_parent", "start") /\ Now.path = <<>>
  /\ Become(Frame("delete_at", Now.dir, Last(Target)))
  /\ Reads

-----------------------------------------------------------------------------
(* delete_at. *)

StatTarget ==
  /\ At("delete_at", "start")
  /\ IF There = Nil THEN Fail
     ELSE Become([Now EXCEPT !.st = There, !.pc = IF IsDir(There) THEN "open" ELSE "unlink"])
  /\ Reads

\* What a call that removes the entry does.
RemoveEntry ==
  /\ entry' = [entry EXCEPT ![<<Now.dir, Now.name>>] = Nil]
  /\ lost' = lost \cup Tree(entry, There)
  /\ UNCHANGED <<owner, way, seen, foreign, moved>>

RemoveIf(allowed) == IF allowed THEN Return /\ RemoveEntry ELSE Fail /\ Reads

\* unlinkat without flags: not for directories.
Unlink ==
  /\ At("delete_at", "unlink")
  /\ RemoveIf(There # Nil /\ ~IsDir(There))

\* Open the directory, and compare it with what stat saw.
MutantSameDir(o) == TRUE
SameDir(o) == o = Now.st

OpenTarget ==
  /\ At("delete_at", "open")
  /\ LET o == OpenDirAt(Now.dir, Now.name) IN
     IF ~IsDir(o) \/ ~SameDir(o) THEN Fail
     ELSE IF Kind[Now.st] = "subvol"
          THEN Call([Now EXCEPT !.fd = o, !.pc = "destroy"], Frame("destroy_nested", o, Nil))
          ELSE Become([Now EXCEPT !.fd = o, !.pc = "list"])
  /\ Reads

Entries(d) == {n \in Name : entry[<<d, n>>] # Nil}

ListTarget ==
  /\ At("delete_at", "list")
  /\ Become([Now EXCEPT !.todo = Entries(Now.fd), !.pc = "loop"])
  /\ Reads

DeleteEntry ==
  /\ At("delete_at", "loop")
  /\ \E n \in Now.todo :
       Call([Now EXCEPT !.todo = @ \ {n}], Frame("delete_at", Now.fd, n))
  /\ Reads

\* unlinkat with AT_REMOVEDIR: an empty directory, a subvolume root too (Linux 4.18).
Rmdir ==
  /\ At("delete_at", "loop") /\ Now.todo = {}
  /\ RemoveIf(IsDir(There) /\ Entries(There) = {})

\* BTRFS_IOC_SNAP_DESTROY: a subvolume that contains no other goes as a whole.
SnapDestroy ==
  /\ At("delete_at", "destroy")
  /\ RemoveIf(/\ There # Nil /\ Kind[There] = "subvol"
              /\ \A o \in Tree(entry, There) \ {There} : Kind[o] # "subvol")

-----------------------------------------------------------------------------
(* destroy_nested. *)

NestedList ==
  /\ At("destroy_nested", "start")
  /\ Become([Now EXCEPT !.todo = Entries(Now.dir), !.pc = "loop"])
  /\ Reads

\* The stat of the next entry; other files stay.
NestedStat ==
  /\ At("destroy_nested", "loop")
  /\ \E n \in Now.todo :
       LET o    == entry[<<Now.dir, n>>]
           rest == [Now EXCEPT !.todo = @ \ {n}]
       IN \/ o = Nil /\ Fail
          \/ /\ o # Nil /\ Kind[o] = "subvol"
             /\ Call(rest, Frame("delete_at", Now.dir, n))
          \/ /\ o # Nil /\ Kind[o] = "dir"
             /\ Become([rest EXCEPT !.name = n, !.pc = "open"])
          \/ /\ o # Nil /\ ~IsDir(o)
             /\ Become(rest)
  /\ Reads

\* The directory opened is not compared with the one seen.
NestedOpen ==
  /\ At("destroy_nested", "open")
  /\ LET o == OpenDirAt(Now.dir, Now.name) IN
     IF IsDir(o) THEN Call([Now EXCEPT !.pc = "loop"], Frame("destroy_nested", o, Nil)) ELSE Fail
  /\ Reads

NestedDone ==
  /\ At("destroy_nested", "loop") /\ Now.todo = {}
  /\ Return
  /\ Reads

\* Whatever the next system call is, it may fail; CallDeleteAt and NestedDone make none.
CallFails ==
  /\ stack # <<>>
  /\ ~(At("open_parent", "start") /\ Now.path = <<>>)
  /\ ~(At("destroy_nested", "loop") /\ Now.todo = {})
  /\ Fail
  /\ Reads

-----------------------------------------------------------------------------
(* Other programs. *)

Foreign(e) ==
  /\ result = "running" /\ foreign < MaxForeign
  /\ foreign' = foreign + 1
  /\ entry' = e
  /\ way' = WayIn(e, way)
  /\ seen' = SeenIn(e, way', seen)
  /\ UNCHANGED <<stack, result, lost>>

\* Something new appears in a directory.
ForeignCreate ==
  \E o \in Obj \ (Linked(entry) \cup lost), d \in Linked(entry), n \in Name :
    /\ IsDir(d) /\ entry[<<d, n>>] = Nil
    /\ Foreign([entry EXCEPT ![<<d, n>>] = o])
    /\ owner' = [owner EXCEPT ![o] = IF Kind[o] = "subvol" THEN o ELSE owner[d]]
    /\ UNCHANGED moved

\* rename, or an exchange of two entries.  Only a subvolume root leaves a subvolume.
MayMove(o, d, x) ==
  o # Nil => (Kind[o] = "subvol" \/ owner[d] = owner[x]) /\ x \notin Tree(entry, o)

ForeignMove ==
  \E d, x \in Linked(entry), n, m \in Name :
    /\ IsDir(d) /\ IsDir(x) /\ entry[<<d, n>>] # Nil /\ <<d, n>> # <<x, m>>
    /\ MayMove(entry[<<d, n>>], d, x) /\ MayMove(entry[<<x, m>>], x, d)
    /\ Foreign([entry EXCEPT ![<<d, n>>] = entry[<<x, m>>], ![<<x, m>>] = entry[<<d, n>>]])
    /\ moved' = TRUE
    /\ UNCHANGED owner

-----------------------------------------------------------------------------
DeleteAt == StatTarget \/ Unlink \/ OpenTarget \/ ListTarget \/ DeleteEntry \/ Rmdir \/ SnapDestroy
DestroyNested == NestedList \/ NestedStat \/ NestedOpen \/ NestedDone
DeleteRel == OpenParent \/ CallDeleteAt \/ DeleteAt \/ DestroyNested

Next == DeleteRel \/ CallFails \/ ForeignCreate \/ ForeignMove

Spec == Init /\ [][Next]_vars

-----------------------------------------------------------------------------
(* Properties *)

Frames ==
  [fn : {"open_parent", "delete_at", "destroy_nested"},
   pc : {"start", "unlink", "open", "list", "loop", "destroy"},
   dir : Obj, name : Name \cup {Nil}, st : Obj \cup {Nil}, fd : Obj \cup {Nil},
   todo : SUBSET Name, path : Seq(Name)]

TypeOK ==
  /\ entry \in Map /\ owner \in [Obj -> Obj \cup {Nil}]
  /\ stack \in Seq(Frames) /\ \A i \in DOMAIN stack : IsDir(stack[i].dir)
  /\ result = "running" <=> stack # <<>>
  /\ result \in {"running", "ok", "err"}
  /\ foreign \in 0..MaxForeign /\ moved \in BOOLEAN
  /\ way \in [Steps -> SUBSET Obj] /\ seen \subseteq Obj /\ lost \subseteq Obj

\* Whatever other programs move, and whatever links they put in the way, nothing is
\* removed that never was in the tree of what is or was at the target (the header of
\* fsat.rs: no symlink redirects an operation).
OnlyTarget == lost \subseteq seen

\* destroy_nested leaves other files (its comment): the files of a subvolume go with the
\* subvolume, and singly only those of the one that the target itself is an entry of.
\* A deletion that fails on the way then leaves complete every subvolume it does not
\* destroy.  A directory that becomes a subvolume between stat and open (the comparison in
\* delete_at), or between stat and open of destroy_nested, does not have its files removed.
\* The one exception: between the stat of destroy_nested and that of delete_at, a subvolume
\* can be exchanged with a file or directory, which delete_at then takes for what it is.
Mistaken ==
  \E i \in 2..Len(stack) :
    stack[i - 1].fn = "destroy_nested" /\ stack[i].fn = "delete_at" /\ Kind[stack[i].st] # "subvol"
WholeSubvolumes ==
  [][\A o \in lost' \ lost :
       owner[o] \in lost' \/ owner[o] = owner[stack[1].dir] \/ Mistaken]_vars

\* As long as nothing is moved, success means that the target is gone and that all that
\* was ever below it is gone with it, what other programs added meanwhile included.
OkMeansGone ==
  result = "ok" /\ ~moved => Gone /\ seen = lost /\ seen \cap Linked(entry) = {}
=============================================================================
