-------------------------- MODULE TreeSearchProofs ---------------------------
(***************************************************************************)
(* Proofs about TreeSearch: the order and the completeness of a search, for *)
(* any widths of the keys, any tree and any size of the buffer.            *)
(***************************************************************************)
EXTENDS TreeSearch, WellFoundedInduction, TLAPS

-----------------------------------------------------------------------------
(* Keys. *)

LEMMA KeyParts ==
  ASSUME NEW k \in Key
  PROVE  k[1] \in 0..MaxObj /\ k[2] \in 0..MaxType /\ k[3] \in 0..MaxOff /\ k = <<k[1], k[2], k[3]>>
BY DEF Key

LEMMA LessTransitive ==
  ASSUME NEW a \in Key, NEW b \in Key, NEW c \in Key
  PROVE  /\ Less(a, b) /\ Less(b, c) => Less(a, c)
         /\ ~Less(b, a) /\ Less(b, c) => Less(a, c)
         /\ Less(a, b) /\ ~Less(c, b) => Less(a, c)
         /\ ~Less(b, a) /\ ~Less(c, b) => ~Less(c, a)
<1> a[1] \in Int /\ a[2] \in Int /\ a[3] \in Int /\ b[1] \in Int /\ b[2] \in Int /\ b[3] \in Int
    /\ c[1] \in Int /\ c[2] \in Int /\ c[3] \in Int
  BY KeyParts, SearchAssumption
<1> QED BY DEF Less

LEMMA LessTotal ==
  ASSUME NEW a \in Key, NEW b \in Key
  PROVE  /\ ~Less(a, a)
         /\ Less(a, b) => ~Less(b, a)
         /\ ~Less(a, b) /\ ~Less(b, a) => a = b
<1> a[1] \in Int /\ a[2] \in Int /\ a[3] \in Int /\ b[1] \in Int /\ b[2] \in Int /\ b[3] \in Int
  BY KeyParts, SearchAssumption
<1>1. ~Less(a, a) /\ (Less(a, b) => ~Less(b, a))
  BY DEF Less
<1>2. ~Less(a, b) /\ ~Less(b, a) => a[1] = b[1] /\ a[2] = b[2] /\ a[3] = b[3]
  BY DEF Less
<1> QED BY <1>1, <1>2, KeyParts

\* The carry is right (search.rs): the next key is the least above k, and there is
\* none only at the largest.
LEMMA NextKeyIsLeast ==
  ASSUME NEW k \in Key
  PROVE  /\ NextKey(k) \in Key \cup {End}
         /\ \A j \in Key : Less(k, j) <=> (NextKey(k) # End /\ ~Less(j, NextKey(k)))
<1> k[1] \in 0..MaxObj /\ k[2] \in 0..MaxType /\ k[3] \in 0..MaxOff
  BY KeyParts
<1> MaxObj \in Nat /\ MaxType \in Nat /\ MaxOff \in Nat /\ End \notin Key
  BY SearchAssumption
<1> SUFFICES ASSUME NEW j \in Key
             PROVE  /\ NextKey(k) \in Key \cup {End}
                    /\ Less(k, j) <=> (NextKey(k) # End /\ ~Less(j, NextKey(k)))
  OBVIOUS
<1> j[1] \in 0..MaxObj /\ j[2] \in 0..MaxType /\ j[3] \in 0..MaxOff
  BY KeyParts
<1>1. CASE k[3] < MaxOff
  <2>1. NextKey(k) = <<k[1], k[2], k[3] + 1>> /\ NextKey(k) \in Key
    BY <1>1 DEF NextKey, Key
  <2> QED BY <2>1 DEF Less
<1>2. CASE k[3] = MaxOff /\ k[2] < MaxType
  <2>1. NextKey(k) = <<k[1], k[2] + 1, 0>> /\ NextKey(k) \in Key
    BY <1>2 DEF NextKey, Key
  <2> QED BY <1>2, <2>1 DEF Less
<1>3. CASE k[3] = MaxOff /\ k[2] = MaxType /\ k[1] < MaxObj
  <2>1. NextKey(k) = <<k[1] + 1, 0, 0>> /\ NextKey(k) \in Key
    BY <1>3 DEF NextKey, Key
  <2> QED BY <1>3, <2>1 DEF Less
<1>4. CASE k[3] = MaxOff /\ k[2] = MaxType /\ k[1] = MaxObj
  <2>1. NextKey(k) = End
    BY <1>4 DEF NextKey
  <2> QED BY <1>4, <2>1 DEF Less
<1> QED BY <1>1, <1>2, <1>3, <1>4

-----------------------------------------------------------------------------
(* Types. *)

LEMMA SearchFacts ==
  ASSUME TypeOK
  PROVE  /\ key.min \in Key /\ key.max \in Key
         /\ cursor \in Key
         /\ \A k \in Item : k \in Key
BY SearchAssumption DEF TypeOK

\* The loop over a batch has items, or had one.
TypeInv == TypeOK /\ (pc = "visit" => visited # <<>> \/ batch # <<>>)

LEMMA TypeInit == Init => TypeInv
<1> SUFFICES ASSUME Init PROVE TypeInv
  OBVIOUS
<1>1. key.min \in Key
  BY SearchAssumption DEF Init
<1> QED BY <1>1 DEF Init, TypeInv, TypeOK, Final

LEMMA TypeStep == TypeInv /\ [Next]_vars => TypeInv'
<1> SUFFICES ASSUME TypeInv, [Next]_vars PROVE TypeInv'
  OBVIOUS
<1> USE DEF TypeInv, TypeOK, Final
<1>1. CASE Copy
  <2>1. PICK k \in Left : batch' = Append(batch, k)
    BY <1>1 DEF Copy
  <2>2. k \in Item
    BY <2>1 DEF Left
  <2> QED BY <1>1, <2>1, <2>2 DEF Copy
<1>2. CASE Return
  BY <1>2 DEF Return, OnEmpty
<1>3. CASE Visit
  <2>1. Head(batch) \in Item /\ Tail(batch) \in Seq(Item)
    BY <1>3 DEF Visit
  <2>2. visited' # <<>>
    BY <1>3, <2>1 DEF Visit
  <2> QED BY <1>3, <2>1, <2>2 DEF Visit
<1>4. CASE Advance
  <2>1. LastOf(visited) \in Key
    BY <1>4, SearchFacts DEF Advance, LastOf
  <2>2. cursor' \in Key
    BY <1>4, <2>1, NextKeyIsLeast DEF Advance
  <2> QED BY <1>4, <2>2 DEF Advance
<1>5. CASE Fail
  BY <1>5 DEF Fail
<1>6. CASE Insert
  BY <1>6 DEF Insert, search
<1>7. CASE Delete
  BY <1>7 DEF Delete, search
<1>8. CASE UNCHANGED vars
  BY <1>8 DEF vars, search
<1> QED BY <1>1, <1>2, <1>3, <1>4, <1>5, <1>6, <1>7, <1>8 DEF Next, tree_search

\* Every variable of the search keeps its type, the cursor that of a key (search.rs:39).
THEOREM TypeCorrect == Spec => []TypeOK
<1>1. Spec => []TypeInv
  BY TypeInit, TypeStep, PTL DEF Spec
<1>2. TypeInv => TypeOK
  BY DEF TypeInv
<1> QED BY <1>1, <1>2, PTL

-----------------------------------------------------------------------------
(* Order and completeness, of the items visited and those in the buffer as   *)
(* one sequence: a call of the callback does not change it.                  *)

Trail == visited \o batch
Fresh == pc = "ioctl" /\ batch = <<>>   \* the kernel has copied nothing yet

Ordered ==
  /\ \A i \in DOMAIN Trail : InRange(Trail[i])
  /\ \A i, j \in DOMAIN Trail : i < j => Less(Trail[i], Trail[j])
  /\ Fresh => ~Less(cursor, key.min) /\ \A i \in DOMAIN Trail : Less(Trail[i], cursor)

\* What was there throughout, at or below the last item of the trail or below the
\* cursor of a new call, is on the trail.
Covered ==
  pc \in {"ioctl", "visit", "done"} =>
    \A k \in stayed :
      /\ InRange(k)
      /\ pc # "done" =>
           IF Fresh THEN Less(k, cursor) ELSE Trail # <<>> /\ ~Less(LastOf(Trail), k)
      => \E i \in DOMAIN Trail : Trail[i] = k

IInv == TypeInv /\ Ordered /\ Covered /\ (pc = "done" => batch = <<>>)

LEMMA TrailType ==
  ASSUME TypeOK
  PROVE  /\ Trail \in Seq(Item)
         /\ batch = <<>> => Trail = visited
         /\ batch # <<>> => Trail # <<>> /\ LastOf(Trail) = LastOf(batch)
BY DEF Trail, TypeOK, LastOf

LEMMA TrailAfterVisit ==
  ASSUME TypeOK, Visit
  PROVE  Trail' = Trail
<1> visited \in Seq(Item) /\ batch \in Seq(Item) /\ batch # <<>>
  BY DEF TypeOK, Visit
<1>1. Trail' = Append(visited, Head(batch)) \o Tail(batch)
  BY DEF Trail, Visit
<1> QED BY <1>1 DEF Trail

LEMMA TrailAfterCopy ==
  ASSUME TypeOK, Copy
  PROVE  \E k \in Left : /\ \A j \in Left : ~Less(j, k)
                         /\ Trail' = Append(Trail, k)
<1> visited \in Seq(Item) /\ batch \in Seq(Item)
  BY DEF TypeOK
<1>1. PICK k \in Left : (\A j \in Left : ~Less(j, k)) /\ batch' = Append(batch, k)
  BY DEF Copy
<1>2. k \in Item
  BY DEF Left, TypeOK
<1>3. Trail' = visited \o Append(batch, k)
  BY <1>1 DEF Copy, Trail
<1>4. visited \o Append(batch, k) = Append(visited \o batch, k)
  BY <1>2
<1> QED BY <1>1, <1>3, <1>4 DEF Trail

\* Appending a key that is above all others keeps the order.
LEMMA OrderedAppend ==
  ASSUME NEW s \in Seq(Key), NEW k \in Key,
         \A i, j \in DOMAIN s : i < j => Less(s[i], s[j]),
         s # <<>> => Less(LastOf(s), k)
  PROVE  \A i, j \in DOMAIN Append(s, k) : i < j => Less(Append(s, k)[i], Append(s, k)[j])
<1> SUFFICES ASSUME NEW i \in DOMAIN Append(s, k), NEW j \in DOMAIN Append(s, k), i < j
             PROVE  Less(Append(s, k)[i], Append(s, k)[j])
  OBVIOUS
<1>1. i \in 1..Len(s) /\ Append(s, k)[i] = s[i] /\ j \in 1..(Len(s) + 1)
  OBVIOUS
<1>2. CASE j = Len(s) + 1
  <2>1. Append(s, k)[j] = k /\ s # <<>> /\ LastOf(s) \in Key /\ s[i] \in Key
    BY <1>1, <1>2 DEF LastOf
  <2>2. i = Len(s) \/ Less(s[i], LastOf(s))
    BY <1>1 DEF LastOf
  <2> QED BY <1>1, <2>1, <2>2, LessTransitive DEF LastOf
<1>3. CASE j # Len(s) + 1
  BY <1>1, <1>3
<1> QED BY <1>2, <1>3

LEMMA OrderInit == Init => IInv
<1> SUFFICES ASSUME Init PROVE IInv
  OBVIOUS
<1>1. TypeInv
  BY TypeInit
<1>2. Trail = <<>> /\ Fresh /\ cursor = key.min
  BY DEF Init, Trail, Fresh
<1>3. ~Less(cursor, key.min)
  BY <1>1, <1>2, SearchFacts, LessTotal DEF TypeInv
<1>4. Ordered
  BY <1>2, <1>3 DEF Ordered
<1>5. Covered
  BY <1>2 DEF Covered, InRange, Init
<1> QED BY <1>1, <1>4, <1>5 DEF IInv, Init

LEMMA CopyStep == IInv /\ Copy => IInv'
<1> SUFFICES ASSUME IInv, Copy PROVE IInv'
  OBVIOUS
<1> TypeOK /\ TypeInv /\ TypeInv'
  BY TypeStep DEF IInv, TypeInv, Next, tree_search
<1> DEFINE T == Trail
<1>1. PICK k \in Left : (\A j \in Left : ~Less(j, k)) /\ Trail' = Append(T, k)
  BY TrailAfterCopy
<1>2. T \in Seq(Item) /\ T \in Seq(Key) /\ k \in items /\ k \in Key
  BY TrailType, SearchFacts DEF Left, TypeOK
<1>3. T # <<>> => Less(LastOf(T), k)
  <2>1. CASE batch = <<>>
    <3>1. Fresh /\ ~Less(k, cursor)
      BY <1>1, <2>1 DEF Left, Copy, Fresh
    <3>2. T # <<>> => Less(LastOf(T), cursor) /\ LastOf(T) \in Key
      BY <3>1, <1>2 DEF IInv, Ordered, LastOf
    <3> QED BY <3>1, <3>2, <1>2, SearchFacts, LessTransitive
  <2>2. CASE batch # <<>>
    BY <2>2, <1>1, TrailType DEF Left
  <2> QED BY <2>1, <2>2
<1>4. InRange(k)
  <2>1. ~Less(key.max, k)
    BY <1>1 DEF Left
  <2>2. ~Less(k, key.min)
    <3>1. CASE batch = <<>>
      <4>1. ~Less(k, cursor) /\ ~Less(cursor, key.min)
        BY <1>1, <3>1 DEF Left, Copy, Fresh, IInv, Ordered
      <4> QED BY <4>1, <1>2, SearchFacts, LessTransitive
    <3>2. CASE batch # <<>>
      <4>1. T # <<>> /\ ~Less(LastOf(T), key.min) /\ LastOf(T) \in Key
        BY <3>2, <1>2, TrailType DEF IInv, Ordered, InRange, LastOf
      <4> QED BY <4>1, <1>2, <1>3, SearchFacts, LessTransitive, LessTotal
    <3> QED BY <3>1, <3>2
  <2> QED BY <2>1, <2>2 DEF InRange
<1>5. ~Fresh' /\ key' = key /\ cursor' = cursor /\ pc' = pc /\ pc = "ioctl" /\ stayed' = stayed
      /\ batch' # <<>>
  BY DEF Copy, Fresh, TypeOK
<1>6. Ordered'
  <2>1. \A i \in DOMAIN Trail' : InRange(Trail'[i])
    BY <1>1, <1>2, <1>4 DEF IInv, Ordered
  <2>2. \A i, j \in DOMAIN Trail' : i < j => Less(Trail'[i], Trail'[j])
    BY <1>1, <1>2, <1>3, OrderedAppend DEF IInv, Ordered
  <2> QED BY <2>1, <2>2, <1>5 DEF Ordered, InRange
<1>7. Covered'
  <2> SUFFICES ASSUME NEW j \in stayed, InRange(j), ~Less(k, j)
               PROVE  \E i \in DOMAIN Trail' : Trail'[i] = j
    <3>1. LastOf(Trail') = k
      BY <1>1, <1>2 DEF LastOf
    <3> QED BY <1>5, <3>1 DEF Covered, InRange
  <2>1. j \in items /\ j \in Key
    BY SearchFacts DEF TypeOK
  <2>2. CASE j \in Left
    <3>1. j = k
      BY <1>1, <1>2, <2>1, <2>2, LessTotal
    <3> QED BY <3>1, <1>1, <1>2
  <2>3. CASE j \notin Left
    <3>1. \E i \in DOMAIN T : T[i] = j
      <4>1. CASE batch = <<>>
        <5>1. Fresh /\ Less(j, cursor)
          BY <2>1, <2>3, <4>1 DEF Left, InRange, Copy, Fresh
        <5> QED BY <5>1, <1>5 DEF IInv, Covered
      <4>2. CASE batch # <<>>
        <5>1. ~Fresh /\ T # <<>> /\ ~Less(LastOf(T), j)
          BY <2>1, <2>3, <4>2, TrailType DEF Left, InRange, Fresh
        <5> QED BY <5>1, <1>5 DEF IInv, Covered
      <4> QED BY <4>1, <4>2
    <3> QED BY <3>1, <1>1, <1>2
  <2> QED BY <2>2, <2>3
<1> QED BY <1>5, <1>6, <1>7 DEF IInv

LEMMA ReturnStep == IInv /\ Return => IInv'
<1> SUFFICES ASSUME IInv, Return PROVE IInv'
  OBVIOUS
<1> TypeOK /\ TypeInv /\ TypeInv'
  BY TypeStep DEF IInv, TypeInv, Next, tree_search
<1>1. /\ Trail' = Trail /\ key' = key /\ cursor' = cursor /\ stayed' = stayed /\ ~Fresh'
      /\ pc = "ioctl" /\ batch' = batch
  BY DEF Return, OnEmpty, Trail, Fresh
<1>2. Ordered'
  BY <1>1 DEF IInv, Ordered, InRange
<1>3. CASE batch # <<>>
  <2>1. pc' = "visit" /\ ~Fresh
    BY <1>3 DEF Return, OnEmpty, Fresh
  <2>2. Covered'
    BY <1>1, <2>1 DEF IInv, Covered, InRange
  <2> QED BY <1>2, <2>1, <2>2 DEF IInv
<1>4. CASE batch = <<>>
  <2>1. pc' = "done" /\ Fresh /\ Left = {}
    BY <1>4 DEF Return, OnEmpty, Fresh
  <2>2. \A k \in stayed : InRange(k) => Less(k, cursor)
    BY <1>4, <2>1 DEF Left, InRange, TypeOK
  <2>3. Covered'
    BY <1>1, <2>1, <2>2 DEF IInv, Covered, InRange
  <2> QED BY <1>1, <1>2, <1>4, <2>1, <2>3 DEF IInv
<1> QED BY <1>3, <1>4

LEMMA VisitStep == IInv /\ Visit => IInv'
<1> SUFFICES ASSUME IInv, Visit PROVE IInv'
  OBVIOUS
<1> TypeOK /\ TypeInv /\ TypeInv'
  BY TypeStep DEF IInv, TypeInv, Next, tree_search
<1>1. /\ Trail' = Trail /\ key' = key /\ cursor' = cursor /\ stayed' = stayed /\ ~Fresh' /\ ~Fresh
      /\ pc = "visit" /\ pc' \in {"visit", "stopped"}
  BY TrailAfterVisit DEF Visit, Fresh
<1>2. Ordered'
  BY <1>1 DEF IInv, Ordered, InRange
<1>3. Covered'
  BY <1>1 DEF IInv, Covered, InRange
<1> QED BY <1>1, <1>2, <1>3 DEF IInv

LEMMA AdvanceStep == IInv /\ Advance => IInv'
<1> SUFFICES ASSUME IInv, Advance PROVE IInv'
  OBVIOUS
<1> TypeOK /\ TypeInv /\ TypeInv'
  BY TypeStep DEF IInv, TypeInv, Next, tree_search
<1> DEFINE last == LastOf(visited)
           next == NextKey(last)
<1>1. /\ Trail = visited /\ Trail' = Trail /\ visited # <<>> /\ visited \in Seq(Item) /\ batch' = <<>>
      /\ key' = key /\ stayed' = stayed /\ pc = "visit" /\ ~Fresh /\ last \in Key /\ Len(visited) > 0
  BY TrailType, SearchFacts DEF Advance, Trail, Fresh, TypeInv, TypeOK, LastOf
<1>2. \A j \in Key : Less(last, j) <=> (next # End /\ ~Less(j, next))
  BY <1>1, NextKeyIsLeast
<1>3. \A k \in stayed : InRange(k) /\ ~Less(last, k) => \E i \in DOMAIN Trail : Trail[i] = k
  BY <1>1 DEF IInv, Covered
<1>4. \A k \in stayed : k \in Key
  BY SearchFacts DEF TypeOK
<1>5. CASE next = End \/ Less(key.max, next)
  <2>1. pc' = "done"
    BY <1>5 DEF Advance
  <2>2. \A k \in stayed : InRange(k) => ~Less(last, k)
    <3> SUFFICES ASSUME NEW k \in stayed, InRange(k), Less(last, k) PROVE FALSE
      OBVIOUS
    <3>1. next # End /\ next \in Key /\ ~Less(k, next)
      BY <1>1, <1>2, <1>4, NextKeyIsLeast
    <3>2. Less(key.max, k)
      BY <1>4, <1>5, <3>1, SearchFacts, LessTransitive
    <3> QED BY <3>2 DEF InRange
  <2>3. Covered'
    BY <1>1, <1>3, <2>1, <2>2 DEF Covered, InRange
  <2>4. Ordered'
    BY <1>1, <2>1 DEF IInv, Ordered, InRange, Fresh
  <2> QED BY <1>1, <2>3, <2>4 DEF IInv
<1>6. CASE next # End /\ ~Less(key.max, next)
  <2>1. pc' = "ioctl" /\ cursor' = next /\ Fresh' /\ next \in Key
    BY <1>1, <1>6, NextKeyIsLeast DEF Advance, Fresh
  <2>2. \A k \in Key : Less(k, next) => ~Less(last, k)
    BY <1>1, <1>2, <1>6
  <2>3. Less(last, next)
    BY <1>1, <1>2, <1>6, <2>1, LessTotal
  <2>4. ~Less(next, key.min)
    <3>1. ~Less(last, key.min)
      BY <1>1 DEF IInv, Ordered, InRange, LastOf
    <3> QED BY <1>1, <2>1, <2>3, <3>1, SearchFacts, LessTransitive, LessTotal
  <2>5. \A i \in DOMAIN Trail : Less(Trail[i], next)
    <3> SUFFICES ASSUME NEW i \in DOMAIN Trail PROVE Less(Trail[i], next)
      OBVIOUS
    <3>1. Trail[i] \in Key /\ i \in 1..Len(visited)
      BY <1>1, SearchFacts
    <3>2. i = Len(visited) \/ Less(Trail[i], last)
      BY <1>1, <3>1 DEF IInv, Ordered, LastOf
    <3> QED BY <1>1, <2>1, <2>3, <3>1, <3>2, LessTransitive DEF LastOf
  <2>6. Ordered'
    BY <1>1, <2>1, <2>4, <2>5 DEF IInv, Ordered, InRange
  <2>7. Covered'
    BY <1>1, <1>3, <1>4, <2>1, <2>2 DEF Covered, InRange
  <2> QED BY <2>1, <2>6, <2>7 DEF IInv
<1> QED BY <1>5, <1>6

LEMMA OtherStep == IInv /\ (Fail \/ Insert \/ Delete \/ UNCHANGED vars) => IInv'
<1> SUFFICES ASSUME IInv, Fail \/ Insert \/ Delete \/ UNCHANGED vars PROVE IInv'
  OBVIOUS
<1> TypeInv'
  BY TypeStep DEF IInv, Next
<1>1. Trail' = Trail /\ key' = key /\ cursor' = cursor /\ batch' = batch /\ stayed' \subseteq stayed
  BY DEF Fail, Insert, Delete, search, vars, Trail
<1>2. pc' = pc \/ pc' = "failed"
  BY DEF Fail, Insert, Delete, search, vars
<1>3. Fresh' => Fresh
  BY <1>1, <1>2 DEF Fresh
<1>4. pc' = pc => Fresh' = Fresh
  BY <1>1 DEF Fresh
<1>5. Ordered'
  BY <1>1, <1>3 DEF IInv, Ordered, InRange
<1>6. CASE pc' = pc
  <2>1. Covered'
    BY <1>1, <1>4, <1>6 DEF IInv, Covered, InRange
  <2> QED BY <1>1, <1>5, <1>6, <2>1 DEF IInv
<1>7. CASE pc' = "failed"
  BY <1>5, <1>7 DEF IInv, Covered
<1> QED BY <1>2, <1>6, <1>7

LEMMA Invariant == Spec => []IInv
<1>1. IInv /\ [Next]_vars => IInv'
  BY CopyStep, ReturnStep, VisitStep, AdvanceStep, OtherStep DEF Next, tree_search
<1> QED BY OrderInit, <1>1, PTL DEF Spec

\* Items come in order, each once, and only those of the range (search.rs:65-76).
THEOREM AscendingAlways == Spec => []Ascending
<1>1. IInv => Ascending
  <2> SUFFICES ASSUME IInv PROVE Ascending
    OBVIOUS
  <2>1. /\ visited \in Seq(Item) /\ batch \in Seq(Item) /\ Trail = visited \o batch
        /\ \A i \in DOMAIN visited : i \in DOMAIN Trail /\ Trail[i] = visited[i]
    BY DEF IInv, TypeInv, TypeOK, Trail
  <2> QED BY <2>1 DEF IInv, Ordered, Ascending
<1> QED BY <1>1, Invariant, PTL

\* No item that is there throughout is missed (search.rs:78-91).
THEOREM CompleteAlways == Spec => []Complete
<1>1. IInv => Complete
  <2> SUFFICES ASSUME IInv, pc = "done" PROVE Complete
    BY DEF Complete
  <2>1. Trail = visited
    BY TrailType DEF IInv, TypeInv
  <2> QED BY <2>1 DEF IInv, Covered, Complete
<1> QED BY <1>1, Invariant, PTL

\* A callback that looks for one item stopped the search at it.
StoppedAt == key.first => \A i \in DOMAIN visited : visited[i][2] = key.ty => pc = "stopped"

LEMMA StoppedAtStep == TypeOK /\ StoppedAt /\ [Next]_vars => StoppedAt'
<1> SUFFICES ASSUME TypeOK, StoppedAt, [Next]_vars PROVE StoppedAt'
  OBVIOUS
<1>1. CASE Visit
  <2>1. visited \in Seq(Item) /\ visited' = Append(visited, Head(batch)) /\ key' = key
        /\ pc = "visit"
    BY <1>1 DEF Visit, TypeOK
  <2>2. pc' # "stopped" => ~(key.first /\ Head(batch)[2] = key.ty)
    BY <1>1 DEF Visit, Stops
  <2>3. key.first => \A i \in DOMAIN visited : visited[i][2] # key.ty
    BY <2>1 DEF StoppedAt
  <2> QED BY <2>1, <2>2, <2>3 DEF StoppedAt
<1>2. CASE ~Visit
  <2>1. visited' = visited /\ key' = key /\ (pc = "stopped" => pc' = "stopped")
    BY <1>2 DEF Next, tree_search, Copy, Return, OnEmpty, Advance, Fail, Insert, Delete, search, vars
  <2> QED BY <2>1 DEF StoppedAt
<1> QED BY <1>1, <1>2

\* root_backref finds no answer only if none was there throughout (ops.rs:143-152).
THEOREM FirstFoundAlways == Spec => []FirstFound
<1>1. Init => StoppedAt
  BY DEF Init, StoppedAt
<1>2. Spec => []StoppedAt
  BY <1>1, StoppedAtStep, TypeCorrect, PTL DEF Spec
<1>3. Complete /\ StoppedAt => FirstFound
  BY DEF Complete, StoppedAt, FirstFound
<1> QED BY <1>2, <1>3, CompleteAlways, PTL

-----------------------------------------------------------------------------
(* What subvolume_ids makes of the items, by induction on their number.      *)

LEMMA NatLeast ==
  ASSUME NEW T, T \subseteq Nat, T # {}
  PROVE  \E x \in T : \A y \in T : x <= y
<1> DEFINE R == {ss \in Nat \X Nat : ss[1] < ss[2]}
<1>1. IsWellFoundedOn(R, Nat)
  BY NatLessThanWellFounded DEF OpToRel
<1> HIDE DEF R
<1>2. PICK x \in T : \A y \in T : ~(<<y, x>> \in R)
  BY <1>1, WFMin
<1>3. ASSUME NEW y \in T PROVE x <= y
  <2>1. y \in Nat /\ x \in Nat /\ ~(<<y, x>> \in R) /\ <<y, x>> \in Nat \X Nat
    BY <1>2
  <2> QED BY <2>1 DEF R
<1> QED BY <1>3

\* A set of numbers that has 0 and the successor of each of its members has all.
LEMMA AllNumbers ==
  ASSUME NEW T, 0 \in T, \A n \in Nat : n \in T => n + 1 \in T
  PROVE  Nat \subseteq T
<1> SUFFICES ASSUME Nat \ T # {} PROVE FALSE
  OBVIOUS
<1>1. PICK x \in Nat \ T : \A y \in Nat \ T : x <= y
  BY NatLeast
<1>2. x # 0 /\ x - 1 \in Nat /\ x - 1 < x /\ (x - 1) + 1 = x
  BY <1>1
<1>3. x - 1 \in T
  BY <1>1, <1>2
<1> QED BY <1>1, <1>2, <1>3

\* ids[n]: the list after n of the items v.
IdsOf(v, m, ids) ==
  ids = [n \in 0..m |-> IF n = 0 THEN <<>> ELSE PushId(ids[n - 1], v[n])]

LEMMA IdsExist ==
  ASSUME NEW v, NEW m \in Nat
  PROVE  \E ids : IdsOf(v, m, ids)
<1> DEFINE T == {k \in Nat : \E ids : IdsOf(v, k, ids)}
<1>1. 0 \in T
  <2> DEFINE f == [n \in 0..0 |-> <<>>]
  <2>1. IdsOf(v, 0, f)
    BY DEF IdsOf
  <2> QED BY <2>1
<1>2. ASSUME NEW k \in Nat, k \in T PROVE k + 1 \in T
  <2>1. PICK f : IdsOf(v, k, f)
    BY <1>2
  <2> DEFINE g == [n \in 0..(k + 1) |-> IF n = k + 1 THEN PushId(f[k], v[k + 1]) ELSE f[n]]
  <2>2. \A n \in 0..(k + 1) : g[n] = IF n = 0 THEN <<>> ELSE PushId(g[n - 1], v[n])
    <3> SUFFICES ASSUME NEW n \in 0..(k + 1)
                 PROVE  g[n] = IF n = 0 THEN <<>> ELSE PushId(g[n - 1], v[n])
      OBVIOUS
    <3>1. CASE n = k + 1
      <4>1. n # 0 /\ n - 1 = k /\ g[k] = f[k] /\ g[n] = PushId(f[k], v[k + 1])
        BY <3>1
      <4> QED BY <3>1, <4>1
    <3>2. CASE n # k + 1
      <4>1. n \in 0..k /\ g[n] = f[n] /\ (n # 0 => g[n - 1] = f[n - 1])
        BY <3>2
      <4>2. f[n] = IF n = 0 THEN <<>> ELSE PushId(f[n - 1], v[n])
        BY <2>1, <4>1 DEF IdsOf
      <4> QED BY <4>1, <4>2
    <3> QED BY <3>1, <3>2
  <2>3. g = [n \in 0..(k + 1) |-> IF n = 0 THEN <<>> ELSE PushId(g[n - 1], v[n])]
    BY <2>2
  <2> HIDE DEF g
  <2> QED BY <2>3 DEF IdsOf
<1> HIDE DEF T
<1>3. m \in T
  BY <1>1, <1>2, AllNumbers
<1> QED BY <1>3 DEF T

LEMMA IdsDefined ==
  ASSUME TypeOK
  PROVE  \E ids : IdsOf(visited, Len(visited), ids) /\ subvolume_ids = ids[Len(visited)]
<1> DEFINE L == Len(visited)
<1>1. L \in Nat
  BY DEF TypeOK
<1>2. \E ids : ids = [n \in 0..L |-> IF n = 0 THEN <<>> ELSE PushId(ids[n - 1], visited[n])]
  BY <1>1, IdsExist DEF IdsOf
<1> DEFINE f == CHOOSE ids : ids = [n \in 0..L |-> IF n = 0 THEN <<>> ELSE PushId(ids[n - 1], visited[n])]
<1>3. f = [n \in 0..L |-> IF n = 0 THEN <<>> ELSE PushId(f[n - 1], visited[n])]
  BY <1>2
<1>4. subvolume_ids = f[L]
  BY DEF subvolume_ids
<1> HIDE DEF f
<1> QED BY <1>3, <1>4 DEF IdsOf

LEMMA SeqFacts ==
  ASSUME NEW S, NEW s \in Seq(S)
  PROVE  \A i \in DOMAIN s : s[i] \in S /\ i \in Nat /\ 1 <= i /\ i <= Len(s)
OBVIOUS

\* What the list s is after n items.
ListOf(s, n) ==
  /\ s \in Seq(0..MaxObj)
  /\ \A i, j \in DOMAIN s : i < j => s[i] < s[j]
  /\ \A i \in DOMAIN s : \E j \in 1..n : Wanted(visited[j]) /\ visited[j][1] = s[i]
  /\ \A j \in 1..n : Wanted(visited[j]) => \E i \in DOMAIN s : s[i] = visited[j][1]

\* One more item.
LEMMA PushIdKeeps ==
  ASSUME TypeOK, Ascending, NEW s, NEW n \in Nat, n + 1 \in DOMAIN visited, ListOf(s, n)
  PROVE  ListOf(PushId(s, visited[n + 1]), n + 1)
<1> DEFINE k == visited[n + 1]
           t == PushId(s, k)
<1>1. /\ s \in Seq(0..MaxObj) /\ Len(s) \in Nat /\ DOMAIN s = 1..Len(s)
      /\ \A i, j \in DOMAIN s : i < j => s[i] < s[j]
      /\ \A i \in DOMAIN s : \E j \in 1..n : Wanted(visited[j]) /\ visited[j][1] = s[i]
      /\ \A j \in 1..n : Wanted(visited[j]) => \E i \in DOMAIN s : s[i] = visited[j][1]
  BY DEF ListOf
<1>2. /\ \A j \in 1..(n + 1) : visited[j] \in Key /\ visited[j][1] \in 0..MaxObj
      /\ MaxObj \in Nat /\ 1..(n + 1) = (1..n) \cup {n + 1}
  <2>1. \A j \in 1..(n + 1) : j \in DOMAIN visited
    BY DEF TypeOK
  <2>2. \A j \in 1..(n + 1) : visited[j] \in Key
    BY <2>1, SearchFacts DEF TypeOK
  <2>3. \A j \in 1..(n + 1) : visited[j][1] \in 0..MaxObj
    BY <2>2, KeyParts
  <2> QED BY <2>2, <2>3, SearchAssumption
<1>s. \A i \in DOMAIN s : s[i] \in 0..MaxObj /\ i \in Nat /\ 1 <= i /\ i <= Len(s)
  BY <1>1, SeqFacts
<1>3. \A j \in 1..n : visited[j][1] <= k[1]
  <2> SUFFICES ASSUME NEW j \in 1..n PROVE visited[j][1] <= k[1]
    OBVIOUS
  <2>1. j \in DOMAIN visited /\ j < n + 1
    BY DEF TypeOK
  <2>2. Less(visited[j], k)
    BY <2>1 DEF Ascending
  <2> QED BY <1>2, <2>2 DEF Less
<1> HIDE DEF k
<1>4. CASE ~Wanted(k)
  <2>1. t = s
    BY <1>4 DEF PushId
  <2> QED BY <1>1, <1>2, <1>4, <2>1 DEF ListOf, k
<1>5. CASE Wanted(k) /\ s # <<>> /\ LastOf(s) = k[1]
  <2>1. t = s /\ Len(s) \in DOMAIN s /\ s[Len(s)] = k[1]
    BY <1>1, <1>5 DEF PushId, LastOf
  <2> QED BY <1>1, <1>2, <2>1 DEF ListOf, k
<1>6. CASE Wanted(k) /\ (s = <<>> \/ LastOf(s) # k[1])
  <2>1. t = Append(s, k[1]) /\ k[1] \in 0..MaxObj
    BY <1>2, <1>6 DEF PushId, k
  <2> DEFINE e == Len(s) + 1
  <2>2. /\ DOMAIN t = DOMAIN s \cup {e} /\ t[e] = k[1]
        /\ \A i \in DOMAIN s : t[i] = s[i] /\ i < e
    BY <1>1, <2>1
  <2>3. t \in Seq(0..MaxObj)
    BY <1>1, <2>1
  <2>4. \A i \in DOMAIN s : s[i] < k[1]
    <3> SUFFICES ASSUME NEW i \in DOMAIN s PROVE s[i] < k[1]
      OBVIOUS
    <3>1. s # <<>> /\ Len(s) \in DOMAIN s /\ i <= Len(s)
      BY <1>1, <1>s
    <3>2. s[i] \in 0..MaxObj /\ s[Len(s)] \in 0..MaxObj /\ k[1] \in 0..MaxObj
      BY <1>s, <2>1, <3>1
    <3>3. s[Len(s)] <= k[1] /\ s[Len(s)] # k[1]
      BY <1>1, <1>3, <1>6, <3>1 DEF LastOf
    <3>4. i = Len(s) \/ s[i] < s[Len(s)]
      <4>1. i = Len(s) \/ i < Len(s)
        BY <1>1, <1>s
      <4> QED BY <1>1, <3>1, <4>1
    <3> QED BY <1>2, <3>2, <3>3, <3>4
  <2> HIDE DEF e, t
  <2>5. \A i, j \in DOMAIN t : i < j => t[i] < t[j]
    <3>1. \A i \in DOMAIN s : i \in Nat /\ e \in Nat /\ ~(e < i)
      BY <1>1, <1>s DEF e
    <3> SUFFICES ASSUME NEW i \in DOMAIN t, NEW j \in DOMAIN t, i < j PROVE t[i] < t[j]
      OBVIOUS
    <3>2. i \in DOMAIN s
      <4> SUFFICES ASSUME i = e PROVE FALSE
        BY <2>2
      <4>1. j = e \/ j \in DOMAIN s
        BY <2>2
      <4> QED BY <1>1, <3>1, <4>1 DEF e
    <3>3. CASE j \in DOMAIN s
      BY <1>1, <2>2, <3>2, <3>3
    <3>4. CASE j = e
      BY <2>2, <2>4, <3>2, <3>4
    <3> QED BY <2>2, <3>3, <3>4
  <2>6. \A i \in DOMAIN t : \E j \in 1..(n + 1) : Wanted(visited[j]) /\ visited[j][1] = t[i]
    BY <1>1, <1>2, <1>6, <2>2 DEF k
  <2>7. \A j \in 1..(n + 1) : Wanted(visited[j]) => \E i \in DOMAIN t : t[i] = visited[j][1]
    BY <1>1, <1>2, <2>2 DEF k
  <2> QED BY <2>3, <2>5, <2>6, <2>7 DEF ListOf, t, k
<1> QED BY <1>4, <1>5, <1>6 DEF k

LEMMA ListOfAll ==
  ASSUME TypeOK, Ascending
  PROVE  ListOf(subvolume_ids, Len(visited))
<1>1. PICK ids : IdsOf(visited, Len(visited), ids) /\ subvolume_ids = ids[Len(visited)]
  BY IdsDefined
<1> DEFINE L == Len(visited)
           T == {n \in Nat : n <= L => ListOf(ids[n], n)}
<1>2. L \in Nat /\ DOMAIN visited = 1..L
  BY DEF TypeOK
<1>3. \A n \in 0..L : ids[n] = IF n = 0 THEN <<>> ELSE PushId(ids[n - 1], visited[n])
  BY <1>1 DEF IdsOf
<1>4. 0 \in T
  <2>1. ids[0] = <<>>
    BY <1>2, <1>3
  <2>2. ListOf(<<>>, 0)
    BY DEF ListOf
  <2> QED BY <2>1, <2>2
<1>5. ASSUME NEW n \in Nat, n \in T PROVE n + 1 \in T
  <2> SUFFICES ASSUME n + 1 <= L PROVE ListOf(ids[n + 1], n + 1)
    BY <1>5
  <2>1. ListOf(ids[n], n) /\ n + 1 \in DOMAIN visited
    BY <1>2, <1>5
  <2>2. ids[n + 1] = PushId(ids[n], visited[n + 1])
    <3>1. n + 1 \in 0..L /\ n + 1 # 0 /\ (n + 1) - 1 = n
      BY <1>2
    <3> QED BY <1>3, <3>1
  <2> QED BY <2>1, <2>2, PushIdKeeps
<1> HIDE DEF T
<1>6. L \in T
  BY <1>2, <1>4, <1>5, AllNumbers
<1>7. ListOf(ids[L], L)
  BY <1>2, <1>6 DEF T
<1> QED BY <1>1, <1>7

\* subvolume_ids lists in ascending order the subvolumes among the items, each once,
\* and all that are linked throughout the search (ops.rs:149-167).
THEOREM IdsExactAlways == Spec => []IdsExact
<1>1. TypeOK /\ Ascending /\ Complete => IdsExact
  <2> SUFFICES ASSUME TypeOK, Ascending, Complete PROVE IdsExact
    OBVIOUS
  <2>1. ListOf(subvolume_ids, Len(visited)) /\ DOMAIN visited = 1..Len(visited)
    BY ListOfAll DEF TypeOK
  <2>2. \A k \in Item : k[2] = key.ty <=> Wanted(k)
    BY DEF Wanted
  <2> DEFINE ids == subvolume_ids
  <2> HIDE DEF ids
  <2>3. ListOf(ids, Len(visited))
    BY <2>1 DEF ids
  <2>4. \A i, j \in DOMAIN ids : i < j => ids[i] < ids[j]
    BY <2>3 DEF ListOf
  <2>5. \A i \in DOMAIN ids : \E j \in DOMAIN visited : visited[j][1] = ids[i] /\ visited[j][2] = key.ty
    BY <2>1, <2>3 DEF ListOf, Wanted
  <2>6. ASSUME pc = "done", NEW k \in stayed, InRange(k), k[2] = key.ty
        PROVE  \E i \in DOMAIN ids : ids[i] = k[1]
    <3>1. PICK j \in DOMAIN visited : visited[j] = k
      BY <2>6 DEF Complete
    <3> QED BY <2>1, <2>3, <2>6, <3>1 DEF ListOf, Wanted
  <2> QED BY <2>4, <2>5, <2>6 DEF IdsExact, ids
<1> QED BY <1>1, TypeCorrect, AscendingAlways, CompleteAlways, PTL
=============================================================================
