---------------------------- MODULE MCTreeSearch -----------------------------
(***************************************************************************)
(* TreeSearch with two values of each component, the largest included, so  *)
(* that every carry happens.                                               *)
(***************************************************************************)
EXTENDS TreeSearch

\* Two of each object's keys end in the largest offset, one in the largest type too.
MCItem == {<<0, 0, 0>>, <<0, 0, 1>>, <<0, 1, 0>>, <<0, 1, 1>>, <<1, 0, 1>>, <<1, 1, 1>>}

Call(lo, hi, ty, first) == [min |-> lo, max |-> hi, ty |-> ty, first |-> first]

\* subvolume_ids, chunks or file_extents of one object, root_backref, file_extents
\* from an offset on, and everything there is.
MCSearch == {Call(<<0, 0, 0>>, <<1, 0, 1>>, 0, FALSE),
             Call(<<0, 1, 0>>, <<0, 1, 1>>, 1, FALSE),
             Call(<<0, 0, 0>>, <<0, 0, 1>>, 0, TRUE),
             Call(<<1, 0, 1>>, <<1, 0, 1>>, 0, FALSE),
             Call(<<0, 0, 0>>, <<1, 1, 1>>, 1, FALSE)}
=============================================================================
