--------------------------- MODULE FsHandleProofs ----------------------------
(***************************************************************************)
(* Proofs about FsHandle: which mount is opened, who may use it, and what  *)
(* is left behind, for any mount table, path and number of threads.        *)
(***************************************************************************)
EXTENDS FsHandle, SequenceTheorems, WellFoundedInduction, TLAPS

-----------------------------------------------------------------------------
(* Numbers and prefixes. *)

LEMMA NatLeast ==
  ASSUME NEW T, T \subseteq Nat, T # {}
  PROVE  \E x \in T : \A y \in T : x <= y
<1> DEFINE R == {ss \in Nat \X Nat : ss[1] < ss[2]}
<1>1. IsWellFoundedOn(R, Nat)
  BY NatLessThanWellFounded DEF OpToRel
<1> HIDE DEF R
<1>2. PICK x \in T : \A y \in T : ~(<<y, x>> \in R)
  BY <1>1, WFMin
<1>3. ASSUME NEW y \in T PROVE x <= y
  <2>1. y \in Nat /\ x \in Nat
    OBVIOUS
  <2>2. ~(<<y, x>> \in R)
    BY <1>2
  <2>3. <<y, x>> \in Nat \X Nat
    BY <2>1
  <2> QED BY <2>1, <2>2, <2>3 DEF R
<1> QED BY <1>3

\* Of two prefixes of a path the longer starts with the other.
LEMMA PrefixesCompare ==
  ASSUME NEW p \in Seq(STRING), NEW a \in Seq(STRING), NEW b \in Seq(STRING),
         StartsWith(p, a), StartsWith(p, b), Len(a) <= Len(b)
  PROVE  StartsWith(b, a)
<1> Len(a) \in Nat /\ Len(b) \in Nat /\ Len(p) \in Nat
  BY LenProperties
<1>1. Len(b) <= Len(p) /\ SubSeq(p, 1, Len(b)) = b /\ SubSeq(p, 1, Len(a)) = a
  BY DEF StartsWith
<1>2. CASE Len(a) = 0
  BY <1>2, SubSeqEmpty, <1>1 DEF StartsWith
<1>3. CASE Len(a) # 0
  <2>1. SubSeq(SubSeq(p, 1, Len(b)), 1, Len(a)) = SubSeq(p, 1 + 1 - 1, 1 + Len(a) - 1)
    BY <1>1, <1>3, SubSeqOfSubSeq
  <2> QED BY <1>1, <2>1 DEF StartsWith
<1> QED BY <1>2, <1>3

LEMMA TableEntries ==
  ASSUME info \in Tables
  PROVE  /\ DOMAIN info = 1..Len(info) /\ Len(info) \in Nat
         /\ \A i \in DOMAIN info : /\ info[i] \in Mount /\ info[i].at \in Seq(STRING)
                                   /\ Len(info[i].at) \in Nat /\ info[i].source \in STRING
<1>1. info \in Seq(Mount)
  BY HandleAssumption
<1>2. DOMAIN info = 1..Len(info) /\ Len(info) \in Nat
  BY <1>1, LenProperties
<1>3. ASSUME NEW i \in DOMAIN info
      PROVE  /\ info[i] \in Mount /\ info[i].at \in Seq(STRING)
             /\ Len(info[i].at) \in Nat /\ info[i].source \in STRING
  <2>1. info[i] \in Mount
    BY <1>1, <1>2, ElementOfSeq
  <2>2. info[i].at \in Seq(STRING) /\ info[i].source \in STRING
    BY <2>1 DEF Mount
  <2> QED BY <2>1, <2>2, LenProperties
<1> QED BY <1>2, <1>3

-----------------------------------------------------------------------------
(* The mount table. *)

\* mount_source finds a mount whenever one on the way is a btrfs: one is better than
\* all the others.
LEMMA BestExists ==
  ASSUME info \in Tables, Candidates # {}
  PROVE  \E i \in Candidates : \A k \in Candidates \ {i} : Better(i, k)
<1> DEFINE Lens == {Len(Path) - Len(info[i].at) : i \in Candidates}
<1> Len(Path) \in Nat
  BY HandleAssumption, LenProperties
<1>1. \A i \in Candidates : i \in Nat /\ Len(info[i].at) \in Nat /\ Len(info[i].at) <= Len(Path)
  BY TableEntries DEF Candidates, StartsWith
<1>2. Lens \subseteq Nat /\ Lens # {}
  BY <1>1
<1> HIDE DEF Candidates
<1>3. PICK m \in Candidates : \A k \in Candidates : Len(info[k].at) <= Len(info[m].at)
  <2>1. PICK x \in Lens : \A y \in Lens : x <= y
    BY <1>2, NatLeast
  <2>2. PICK m \in Candidates : x = Len(Path) - Len(info[m].at)
    OBVIOUS
  <2>3. \A k \in Candidates : x <= Len(Path) - Len(info[k].at)
    BY <2>1
  <2> QED BY <1>1, <2>2, <2>3
<1> DEFINE Longest == {i \in Candidates : Len(info[i].at) = Len(info[m].at)}
<1>4. Longest \subseteq Nat /\ m \in Longest
  BY <1>1
<1>5. PICK i \in Longest : \A k \in Longest : i <= k
  BY <1>4, NatLeast
<1>6. ASSUME NEW k \in Candidates \ {i} PROVE Better(i, k)
  <2>1. Len(info[k].at) <= Len(info[i].at)
    BY <1>3, <1>5
  <2>2. i \in Nat /\ k \in Nat /\ Len(info[k].at) \in Nat /\ Len(info[i].at) \in Nat
    BY <1>1, <1>5
  <2>3. Len(info[k].at) = Len(info[i].at) => i < k
    BY <1>5, <2>2
  <2> QED BY <2>1, <2>2, <2>3 DEF Better
<1> QED BY <1>5, <1>6

LEMMA SourceType ==
  ASSUME info \in Tables
  PROVE  mount_source \in STRING \cup {Nothing}
<1>1. CASE Candidates = {}
  BY <1>1 DEF mount_source
<1>2. CASE Candidates # {}
  <2> DEFINE best == CHOOSE i \in Candidates : \A k \in Candidates \ {i} : Better(i, k)
  <2>1. best \in Candidates
    BY <1>2, BestExists
  <2>2. best \in DOMAIN info
    BY <2>1 DEF Candidates
  <2> QED BY <1>2, <2>2, TableEntries DEF mount_source
<1> QED BY <1>1, <1>2

\* Some mount is the last on the way to PATH.
LEMMA GoverningExists ==
  ASSUME info \in Tables
  PROVE  /\ Governing \in DOMAIN info /\ StartsWith(Path, info[Governing].at)
         /\ \A k \in DOMAIN info : k > Governing => ~StartsWith(Path, info[k].at)
<1> DEFINE On == {i \in DOMAIN info : StartsWith(Path, info[i].at)}
           Back == {Len(info) - i : i \in On}
<1>1. DOMAIN info = 1..Len(info) /\ Len(info) \in Nat
  BY TableEntries
<1>2. On # {}
  <2>1. PICK i \in DOMAIN info : info[i].at = <<>>
    BY HandleAssumption
  <2>2. StartsWith(Path, <<>>)
    <3>1. Len(<<>>) = 0 /\ Len(Path) \in Nat
      BY HandleAssumption, LenProperties, EmptySeq
    <3> QED BY <3>1, SubSeqEmpty DEF StartsWith
  <2> QED BY <2>1, <2>2
<1>3. Back \subseteq Nat /\ Back # {}
  BY <1>1, <1>2
<1>4. PICK x \in Back : \A y \in Back : x <= y
  BY <1>3, NatLeast
<1>5. PICK g \in On : x = Len(info) - g
  OBVIOUS
<1>6. \A k \in On : Len(info) - g <= Len(info) - k
  BY <1>4, <1>5
<1>7. \A k \in DOMAIN info : k > g => k \notin On
  BY <1>1, <1>5, <1>6
<1> QED BY <1>5, <1>7 DEF Governing

\* The longest mount point is the one that PATH is in, unless a mount hides another.
LEMMA SourceRight ==
  ASSUME info \in Tables, info[Governing].fstype = "btrfs", ~Covered
  PROVE  mount_source = info[Governing].source
<1> DEFINE g == Governing
<1>1. g \in DOMAIN info /\ StartsWith(Path, info[g].at)
      /\ \A k \in DOMAIN info : k > g => ~StartsWith(Path, info[k].at)
  BY GoverningExists
<1> HIDE DEF g
<1>2. g \in Candidates
  BY <1>1 DEF Candidates, g
<1>3. ASSUME NEW k \in Candidates, k # g
      PROVE  Len(info[g].at) > Len(info[k].at)
  <2>1. k \in DOMAIN info /\ StartsWith(Path, info[k].at)
    BY DEF Candidates
  <2>2. k < g
    BY <1>1, <1>3, <2>1, TableEntries
  <2>3. info[k].at \in Seq(STRING) /\ info[g].at \in Seq(STRING)
        /\ Len(info[k].at) \in Nat /\ Len(info[g].at) \in Nat
    BY <1>1, <2>1, TableEntries
  <2>4. ASSUME Len(info[g].at) <= Len(info[k].at) PROVE FALSE
    <3>1. StartsWith(info[k].at, info[g].at)
      BY <1>1, <2>1, <2>3, <2>4, PrefixesCompare, HandleAssumption
    <3> QED BY <1>1, <2>1, <2>2, <3>1 DEF Covered
  <2> QED BY <2>3, <2>4
<1>4. \A i \in Candidates : (\A k \in Candidates \ {i} : Better(i, k)) <=> i = g
  <2>1. ASSUME NEW i \in Candidates, i # g PROVE ~Better(i, g) /\ Better(g, i)
    <3>1. Len(info[g].at) > Len(info[i].at)
      BY <1>3, <2>1
    <3>2. Len(info[i].at) \in Nat /\ Len(info[g].at) \in Nat
      BY <1>2, TableEntries DEF Candidates
    <3> QED BY <3>1, <3>2 DEF Better
  <2> QED BY <1>2, <2>1
<1>5. (CHOOSE i \in Candidates : \A k \in Candidates \ {i} : Better(i, k)) = g
  BY <1>2, <1>4
<1> QED BY <1>2, <1>5 DEF mount_source, g

-----------------------------------------------------------------------------
(* The inductive invariant. *)

Opening == {"check", "dir", "mount", "top"}

\* Who has the handle is told by where the main thread is, and nobody has it once
\* Drop has begun.
Holding ==
  /\ pc = "check" => info \in Tables
  /\ pc \in Opening => holders = {} /\ drop = "no"
  /\ pc = "top" => attached
  /\ pc \in {"prepare", "run", "return"} => "main" \in holders
  /\ pc \in {"leave", "exit"} => "main" \notin holders
  /\ "workers" \in holders => pc = "run"

\* The directories are those of others and, until Drop has removed it, the mount's.
Dirs ==
  /\ others \subseteq Dir
  /\ pc \in {"check", "dir"} => dirs = others
  /\ pc \notin {"check", "dir", "exit"} =>
       mount \notin others /\ dirs = IF drop = "done" THEN others ELSE others \cup {mount}

\* When main has returned with no thread running, it is main that drops the handle.
Leaving ==
  /\ pc = "leave" /\ ~busy => holders = {} /\ drop # "no" /\ dropper = "main"

IInv == TypeOK /\ Holding /\ Dirs /\ Leaving /\ HandleRight /\ Tidy

\* The invariant holds at the start.
LEMMA InitInv == Init => IInv
<1> SUFFICES ASSUME Init PROVE IInv
  OBVIOUS
<1> USE DEF Init
<1>1. TypeOK
  BY HandleAssumption, EmptySeq DEF TypeOK
<1>2. Holding /\ Dirs /\ Leaving
  BY DEF Holding, Dirs, Leaving, Opening
<1>3. HandleRight /\ Tidy
  BY DEF HandleRight, Tidy
<1> QED BY <1>1, <1>2, <1>3 DEF IInv

\* Giving up an Arc keeps what is said about holders and Drop.
LEMMA ReleaseKeeps ==
  ASSUME IInv, NEW h \in holders, Release(h)
  PROVE  /\ holders' = holders \ {h}
         /\ drop = "no" /\ drop' = IF holders = {h} THEN "umount" ELSE "no"
         /\ dropper' = IF holders = {h} THEN h ELSE dropper
         /\ holders' # {} => drop' = "no"
BY DEF IInv, HandleRight, Release, Last

LEMMA NextInv == IInv /\ [Next]_vars => IInv'
<1> SUFFICES ASSUME IInv, [Next]_vars PROVE IInv'
  OBVIOUS
<1> USE DEF opened, handle, sizes, history
<1>1. CASE Check
  <2> USE <1>1 DEF Check
  <2>1. info \in Tables /\ pc = "check" /\ holders = {} /\ drop = "no" /\ dirs = others
    BY DEF IInv, Holding, Dirs, Opening
  <2>2. TypeOK'
    BY <2>1, SourceType DEF IInv, TypeOK, Fail
  <2>3. Holding' /\ Dirs' /\ Leaving'
    BY <2>1 DEF IInv, Holding, Dirs, Leaving, Opening, Fail
  <2>4. HandleRight'
    <3>1. CASE Fail /\ UNCHANGED <<opened, there>>
      BY <2>1, <3>1 DEF IInv, HandleRight
    <3>2. CASE pc' = "dir"
      <4>1. device' = mount_source /\ there'.source = info[Governing].source
            /\ there'.covered = Covered /\ info[Governing].fstype = "btrfs"
        BY <3>2 DEF Fail
      <4> QED BY <2>1, <4>1, SourceRight DEF IInv, HandleRight
    <3> QED BY <3>1, <3>2
  <2>5. Tidy'
    BY <2>1 DEF IInv, Tidy, Fail
  <2> QED BY <2>2, <2>3, <2>4, <2>5 DEF IInv
<1>2. CASE make_mount_dir
  <2> USE <1>2 DEF make_mount_dir
  <2>1. TypeOK'
    BY DEF IInv, TypeOK, Fail
  <2>2. Holding' /\ Dirs' /\ Leaving'
    BY DEF IInv, Holding, Dirs, Leaving, Opening, Fail, Fresh
  <2>3. HandleRight' /\ Tidy'
    BY DEF IInv, Holding, HandleRight, Tidy, Dirs, Opening, Fail
  <2> QED BY <2>1, <2>2, <2>3 DEF IInv
<1>3. CASE private_mount
  <2> USE <1>3 DEF private_mount
  <2>1. TypeOK'
    BY DEF IInv, TypeOK, Fail, Cleared
  <2>2. Holding' /\ Dirs' /\ Leaving'
    BY DEF IInv, Holding, Dirs, Leaving, Opening, Fail
  <2>3. HandleRight' /\ Tidy'
    BY DEF IInv, Holding, HandleRight, Tidy, Dirs, Opening, Fail, Cleared
  <2> QED BY <2>1, <2>2, <2>3 DEF IInv
<1>4. CASE OpenTop
  <2> USE <1>4 DEF OpenTop
  <2>1. TypeOK'
    BY HandleAssumption DEF IInv, TypeOK, Fail, Holding, Opening
  <2>2. Holding' /\ Dirs' /\ Leaving'
    BY DEF IInv, Holding, Dirs, Leaving, Opening, Fail
  <2>3. HandleRight' /\ Tidy'
    BY DEF IInv, Holding, HandleRight, Tidy, Dirs, Opening, Fail
  <2> QED BY <2>1, <2>2, <2>3 DEF IInv
<1>5. CASE Prepare
  <2> USE <1>5 DEF Prepare
  <2>1. TypeOK'
    BY DEF IInv, TypeOK
  <2>2. Holding' /\ Dirs' /\ Leaving'
    BY DEF IInv, Holding, Dirs, Leaving, Opening
  <2>3. HandleRight' /\ Tidy'
    BY DEF IInv, Holding, HandleRight, Tidy
  <2> QED BY <2>1, <2>2, <2>3 DEF IInv
<1>6. CASE PressX \/ start_delete
  <2>1. PICK t \in Thread : Spawn(t)
    BY <1>6 DEF PressX, start_delete
  <2>2. pc = "run" /\ pc' = "run" /\ holders' = holders \cup {t} /\ t \notin {"main", "workers"}
        /\ UNCHANGED <<info, dirs, attached, opened, drop, dropper, history>>
    BY <1>6, <2>1, HandleAssumption DEF PressX, start_delete, Spawn
  <2>3. TypeOK'
    <3>1. CASE PressX
      <4>1. PICK u \in Thread, n \in Node :
              /\ Spawn(u) /\ walk' = [walk EXCEPT ![u] = n]
              /\ exact' = [exact EXCEPT ![n] = "Running"]
        BY <3>1 DEF PressX
      <4>2. bg' = bg
        BY <3>1 DEF PressX
      <4> QED BY <2>2, <4>1, <4>2 DEF Spawn, IInv, TypeOK
    <3>2. CASE start_delete
      BY <3>2, <2>1, <2>2 DEF start_delete, Spawn, IInv, TypeOK
    <3> QED BY <1>6, <3>1, <3>2
  <2>4. Holding' /\ Dirs' /\ Leaving'
    BY <2>2 DEF IInv, Holding, Dirs, Leaving, Opening
  <2>5. HandleRight' /\ Tidy'
    BY <2>2 DEF IInv, Holding, HandleRight, Tidy
  <2> QED BY <2>3, <2>4, <2>5 DEF IInv
<1>7. CASE apply_bg
  <2> USE <1>7 DEF apply_bg
  <2>1. TypeOK'
    BY HeadTailProperties DEF IInv, TypeOK
  <2>2. Holding' /\ Dirs' /\ Leaving'
    BY DEF IInv, Holding, Dirs, Leaving
  <2>3. HandleRight' /\ Tidy'
    BY DEF IInv, HandleRight, Tidy
  <2> QED BY <2>1, <2>2, <2>3 DEF IInv
<1>8. ASSUME NEW t \in Thread, Answer(t) PROVE IInv'
  <2> USE <1>8 DEF Answer
  <2>1. TypeOK'
    <3>1. walk[t] \in Node
      BY DEF IInv, TypeOK
    <3>2. bg' \in Seq(Node)
      BY <3>1, AppendProperties DEF IInv, TypeOK, Answered
    <3> QED BY <3>2 DEF IInv, TypeOK
  <2>2. Holding' /\ Dirs' /\ Leaving'
    BY DEF IInv, Holding, Dirs, Leaving
  <2>3. HandleRight' /\ Tidy'
    BY DEF IInv, HandleRight, Tidy
  <2> QED BY <2>1, <2>2, <2>3 DEF IInv
<1>9. ASSUME NEW t \in Thread, EndThread(t) PROVE IInv'
  <2> USE <1>9 DEF EndThread
  <2>1. /\ holders' = holders \ {t} /\ t \notin {"main", "workers"}
        /\ drop = "no" /\ drop' = IF holders = {t} THEN "umount" ELSE "no"
        /\ dropper' = IF holders = {t} THEN t ELSE dropper
        /\ holders' # {} => drop' = "no"
    BY ReleaseKeeps, HandleAssumption
  <2>2. TypeOK'
    BY <2>1 DEF IInv, TypeOK
  <2>3. Holding' /\ Dirs' /\ Leaving'
    BY <2>1 DEF IInv, Holding, Dirs, Leaving, Opening
  <2>4. HandleRight' /\ Tidy'
    BY <2>1 DEF IInv, HandleRight, Tidy, Running
  <2> QED BY <2>2, <2>3, <2>4 DEF IInv
<1>10. CASE Stop
  <2> USE <1>10 DEF Stop, Joined
  <2>0. pc = "run" /\ "main" \in holders /\ drop = "no"
    BY DEF IInv, Holding, HandleRight
  <2>1. /\ holders' = holders \ {"workers"} /\ drop' = "no" /\ UNCHANGED dropper
    BY <2>0 DEF Release, Last
  <2>2. TypeOK'
    BY <2>1, HandleAssumption DEF IInv, TypeOK
  <2>3. Holding' /\ Dirs' /\ Leaving'
    BY <2>0, <2>1 DEF IInv, Holding, Dirs, Leaving, Opening
  <2>4. HandleRight' /\ Tidy'
    BY <2>0, <2>1 DEF IInv, HandleRight, Tidy
  <2> QED BY <2>2, <2>3, <2>4 DEF IInv
<1>11. CASE Return
  <2> USE <1>11 DEF Return
  <2>0. pc = "return" /\ "main" \in holders /\ "workers" \notin holders
    BY DEF IInv, Holding
  <2>1. /\ holders' = holders \ {"main"}
        /\ drop = "no" /\ drop' = IF holders = {"main"} THEN "umount" ELSE "no"
        /\ dropper' = IF holders = {"main"} THEN "main" ELSE dropper
        /\ holders' # {} => drop' = "no"
    BY <2>0, ReleaseKeeps
  <2>2. TypeOK'
    BY <2>1, HandleAssumption DEF IInv, TypeOK
  <2>3. Holding' /\ Dirs'
    BY <2>0, <2>1 DEF IInv, Holding, Dirs, Opening
  <2>4. Leaving'
    <3>1. ~busy' => holders \cap Thread = {}
      BY Zenon
    <3>2. holders \subseteq {"main", "workers"} \cup Thread
      BY DEF IInv, TypeOK
    <3>3. holders \cap Thread = {} => holders = {"main"}
      BY <2>0, <3>2
    <3>4. ~busy' => holders = {"main"}
      BY <3>1, <3>3, Zenon
    <3> QED BY <2>1, <3>4 DEF Leaving
  <2>5. HandleRight' /\ Tidy'
    BY <2>0, <2>1 DEF IInv, HandleRight, Tidy
  <2> QED BY <2>2, <2>3, <2>4, <2>5 DEF IInv
<1>12. CASE Umount
  <2> USE <1>12 DEF Umount
  <2>1. holders = {} /\ pc \notin Opening
    BY DEF IInv, HandleRight, Holding
  <2>2. TypeOK'
    BY DEF IInv, TypeOK
  <2>3. Holding' /\ Dirs' /\ Leaving'
    BY <2>1 DEF IInv, Holding, Dirs, Leaving, Opening
  <2>4. HandleRight' /\ Tidy'
    BY <2>1 DEF IInv, HandleRight, Tidy, Running
  <2> QED BY <2>2, <2>3, <2>4 DEF IInv
<1>13. CASE RemoveDir
  <2> USE <1>13 DEF RemoveDir
  <2>1. holders = {} /\ pc \notin Opening
    BY DEF IInv, HandleRight, Holding
  <2>2. TypeOK'
    BY DEF IInv, TypeOK
  <2>3. Holding' /\ Dirs' /\ Leaving'
    BY <2>1 DEF IInv, Holding, Dirs, Leaving, Opening, Running
  <2>4. HandleRight' /\ Tidy'
    BY <2>1 DEF IInv, HandleRight, Dirs, Tidy, Running, Opening
  <2> QED BY <2>2, <2>3, <2>4 DEF IInv
<1>14. CASE Exit
  <2> USE <1>14 DEF Exit
  <2>1. TypeOK' /\ Holding' /\ Dirs' /\ Leaving'
    BY DEF IInv, TypeOK, Holding, Dirs, Leaving, Opening
  <2>2. HandleRight'
    BY DEF IInv, HandleRight
  <2>3. Tidy'
    BY DEF IInv, Tidy, Leaving, Dirs
  <2> QED BY <2>1, <2>2, <2>3 DEF IInv
<1>15. CASE UNCHANGED vars
  BY <1>15 DEF vars, IInv, TypeOK, Holding, Dirs, Leaving, HandleRight, Tidy
<1> QED
  BY <1>1, <1>2, <1>3, <1>4, <1>5, <1>6, <1>7, <1>8, <1>9, <1>10, <1>11, <1>12, <1>13, <1>14, <1>15
  DEF Next, Open, UI, Drop, Ended

THEOREM InvAlways == Spec => []IInv
<1> QED BY InitInv, NextInv, PTL DEF Spec

\* The state of the handle, its holders and the answers is well typed.
THEOREM TypeCorrect == Spec => []TypeOK
<1> QED BY InvAlways, PTL DEF IInv

\* FsHandle (fsopen.rs:29): who holds the handle has a mounted filesystem, the one
\* PATH is on unless a mount hides another.
THEOREM HandleRightAlways == Spec => []HandleRight
<1> QED BY InvAlways, PTL DEF IInv

\* make_mount_dir and Drop (fsopen.rs:155, 74): the directories of others stay, and
\* the program's own goes when the program ends in the ordinary way.
THEOREM TidyAlways == Spec => []Tidy
<1> QED BY InvAlways, PTL DEF IInv
=============================================================================
