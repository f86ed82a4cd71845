------------------------------ MODULE TreeSearch ------------------------------
(***************************************************************************)
(* tree_search of src/src/btrfs/search.rs: the items of a btrfs tree in a  *)
(* range of keys, read in batches with BTRFS_IOC_TREE_SEARCH_V2, while the *)
(* filesystem goes on changing; and what its callers in ops.rs make of the *)
(* items.                                                                  *)
(*                                                                         *)
(* A key is (objectid, type, offset), compared in this order.  The largest *)
(* value of each component is a constant: u64, u8 and u64 in the code.     *)
(***************************************************************************)
EXTENDS Integers, Sequences

CONSTANTS MaxObj, MaxType, MaxOff,
          Item,     \* keys of the items there can be
          Search,   \* calls: [min, max: Key, ty: the type the caller looks for,
                    \*         first: whether its callback stops at one]
          MaxBatch, \* items that fit the buffer, at most
          End       \* there is no next key

Key == (0..MaxObj) \X (0..MaxType) \X (0..MaxOff)

ASSUME SearchAssumption ==
  /\ MaxObj \in Nat /\ MaxType \in Nat /\ MaxOff \in Nat
  /\ Item \subseteq Key
  /\ Search \subseteq [min : Key, max : Key, ty : 0..MaxType, first : BOOLEAN]
  /\ MaxBatch \in Nat \ {0}
  /\ End \notin Key

VARIABLES
  key,      \* the call
  pc,       \* "ioctl", "visit", then "done", "stopped" or "failed"
  cursor,   \* obj, ty, off
  batch,    \* items in the buffer that the callback has not been given
  visited,  \* items it has been given
  items,    \* the tree
  stayed    \* history: items that were in it ever since the search began

search == <<key, pc, cursor, batch, visited>>
vars   == <<search, items, stayed>>

\* Tuple comparison, of the kernel as of Rust.
Less(a, b) ==
  \/ a[1] < b[1]
  \/ a[1] = b[1] /\ a[2] < b[2]
  \/ a[1] = b[1] /\ a[2] = b[2] /\ a[3] < b[3]

InRange(k) == ~Less(k, key.min) /\ ~Less(key.max, k)
Final == {"done", "stopped", "failed"}

TypeOK ==
  /\ key \in Search
  /\ pc \in {"ioctl", "visit"} \cup Final
  /\ cursor \in Key
  /\ batch \in Seq(Item)
  /\ visited \in Seq(Item)
  /\ items \in SUBSET Item
  /\ stayed \in SUBSET items

Init ==
  /\ key \in Search
  /\ pc = "ioctl"
  /\ cursor = key.min
  /\ batch = <<>>
  /\ visited = <<>>
  /\ items \in SUBSET Item
  /\ stayed = items

-----------------------------------------------------------------------------
(* The kernel copies items in order of their keys into the buffer, one leaf  *)
(* of the tree after the other, and returns when the next one does not fit   *)
(* or there is none.                                                         *)

LastOf(s) == s[Len(s)]

Left == {k \in items : /\ ~Less(key.max, k)
                       /\ IF batch = <<>> THEN ~Less(k, cursor) ELSE Less(LastOf(batch), k)}

Copy ==
  /\ pc = "ioctl" /\ Len(batch) < MaxBatch
  /\ \E k \in Left : /\ \A j \in Left : ~Less(j, k)
                     /\ batch' = Append(batch, k)
  /\ UNCHANGED <<key, pc, cursor, visited, items, stayed>>

\* What follows a call that returned no items.
MutantOnEmpty == "ioctl"
OnEmpty == "done"

Return ==
  /\ pc = "ioctl" /\ (batch # <<>> \/ Left = {})
  /\ pc' = IF batch = <<>> THEN OnEmpty ELSE "visit"
  /\ UNCHANGED <<key, cursor, batch, visited, items, stayed>>

Fail ==
  /\ pc = "ioctl"
  /\ pc' = "failed"
  /\ UNCHANGED <<key, cursor, batch, visited, items, stayed>>

-----------------------------------------------------------------------------
(* The loop over a batch. *)

\* Whether the callback returns false: root_backref does at the item it looks for,
\* the others never do.
Stops(k) == key.first /\ k[2] = key.ty

Visit ==
  /\ pc = "visit" /\ batch # <<>>
  /\ visited' = Append(visited, Head(batch))
  /\ batch' = Tail(batch)
  /\ pc' = IF Stops(Head(batch)) THEN "stopped" ELSE pc
  /\ UNCHANGED <<key, cursor, items, stayed>>

\* The key after that of the last item.
MutantSkipTypes(k) ==
  IF k[3] < MaxOff THEN <<k[1], k[2], k[3] + 1>>
  ELSE IF k[1] < MaxObj THEN <<k[1] + 1, 0, 0>> ELSE End
MutantNoCarry(k) == <<k[1], k[2], k[3] + 1>>
NextKey(k) ==
  IF k[3] < MaxOff THEN <<k[1], k[2], k[3] + 1>>
  ELSE IF k[2] < MaxType THEN <<k[1], k[2] + 1, 0>>
  ELSE IF k[1] < MaxObj THEN <<k[1] + 1, 0, 0>>
  ELSE End

Advance ==
  /\ pc = "visit" /\ batch = <<>>
  /\ LET next == NextKey(LastOf(visited)) IN
     IF next = End \/ Less(key.max, next)
     THEN pc' = "done" /\ UNCHANGED cursor
     ELSE pc' = "ioctl" /\ cursor' = next
  /\ UNCHANGED <<key, batch, visited, items, stayed>>

-----------------------------------------------------------------------------
(* Other programs, and the filesystem itself. *)

Insert ==
  /\ \E k \in Item \ items : items' = items \cup {k}
  /\ UNCHANGED <<search, stayed>>

Delete ==
  /\ \E k \in items : items' = items \ {k} /\ stayed' = stayed \ {k}
  /\ UNCHANGED search

-----------------------------------------------------------------------------
tree_search == Copy \/ Return \/ Visit \/ Advance

Next == tree_search \/ Fail \/ Insert \/ Delete

Spec == Init /\ [][Next]_vars

\* The calls of the kernel return.
FairSpec == Spec /\ WF_vars(tree_search)

-----------------------------------------------------------------------------
(* The callers. *)

\* Items of the type looked for: chunks and file_extents keep these.
MutantWanted(k) == TRUE
Wanted(k) == k[2] = key.ty

\* ids after one more item.
MutantPushId(ids, k) == IF Wanted(k) THEN Append(ids, k[1]) ELSE ids
PushId(ids, k) ==
  IF Wanted(k) /\ (ids = <<>> \/ LastOf(ids) # k[1]) THEN Append(ids, k[1]) ELSE ids

\* subvolume_ids: the objectids, each once.
subvolume_ids ==
  LET ids[n \in 0..Len(visited)] == IF n = 0 THEN <<>> ELSE PushId(ids[n - 1], visited[n])
  IN ids[Len(visited)]

-----------------------------------------------------------------------------
(* Properties *)

\* The callback gets items of the range only, each once and in order, however the
\* tree changes between and during the calls.
Ascending ==
  /\ \A i \in DOMAIN visited : InRange(visited[i])
  /\ \A i, j \in DOMAIN visited : i < j => Less(visited[i], visited[j])

\* No item that is there throughout is missed, at whatever key one call ended and
\* the next began.
Complete ==
  pc = "done" => \A k \in stayed : InRange(k) => \E i \in DOMAIN visited : visited[i] = k

\* root_backref has no answer only if the subvolume is not linked, or was not for a
\* moment.
FirstFound == pc = "done" /\ key.first => \A k \in stayed : InRange(k) => k[2] # key.ty

\* subvolume_ids lists each subvolume once and no other objects, although the kernel
\* returns items of other types too, and misses none that is linked throughout.
IdsExact ==
  LET ids == subvolume_ids
      linked == {k \in stayed : InRange(k) /\ k[2] = key.ty}
  IN /\ \A i, j \in DOMAIN ids : i < j => ids[i] < ids[j]
     /\ \A i \in DOMAIN ids : \E j \in DOMAIN visited : visited[j][1] = ids[i] /\ visited[j][2] = key.ty
     /\ pc = "done" => \A k \in linked : \E i \in DOMAIN ids : ids[i] = k[1]

\* A search ends, also when items keep being added in front of it.
Ends == <>(pc \in Final)
=============================================================================
