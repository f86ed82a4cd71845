----------------------------- MODULE MCPathTree ------------------------------
(***************************************************************************)
(* PathTree with a directory or subvolume d of two files, and a file e      *)
(* beside it.                                                              *)
(***************************************************************************)
EXTENDS PathTree

MCPath == {<<>>, <<"d">>, <<"d", "x">>, <<"d", "y">>, <<"e">>}

One(o) == [owners |-> o, subvols |-> <<>>, ratio |-> NoRatio]

\* A compressed file, two owners sharing a directory, two in different ones,
\* resolved through a subvolume d, and an owner found in two subvolumes.
MCSample == {[owners |-> <<<<"d", "x">>>>, subvols |-> <<>>, ratio |-> 3],
             One(<<<<"d", "x">>, <<"d", "y">>>>),
             [owners |-> <<<<"d", "x">>, <<"e">>>>, subvols |-> <<<<"d">>>>, ratio |-> 2],
             One(<<<<"d", "x">>, <<"d", "y">>, <<"d", "x">>>>)}
MCSubvolList == {<<<<"d">>>>}

ToBatch(s) == <<{s.owners[i] : i \in DOMAIN s.owners}, {s.subvols[i] : i \in DOMAIN s.subvols}>>
MCBatch == {ToBatch(s) : s \in Sample} \cup {ToBatch([owners |-> <<>>, subvols |-> l]) : l \in SubvolList}
=============================================================================
