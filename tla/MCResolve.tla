------------------------------ MODULE MCResolve ------------------------------
(***************************************************************************)
(* Resolve with an extent that a file at the top level refers to twice and  *)
(* a file of a subvolume once.                                             *)
(***************************************************************************)
EXTENDS Resolve

MCRef == {[root |-> 5, inum |-> 257, offset |-> 0], [root |-> 5, inum |-> 257, offset |-> 1],
          [root |-> 256, inum |-> 257, offset |-> 0]}

\* The subvolume was at 3 and is at 4.  The first file can have two names, one of them
\* in a directory that was made at 3 since.
MCSvPath == [r \in {5, 256} |-> IF r = 5 THEN {<<>>} ELSE {<<3>>, <<4>>}]
MCLinkPath == [i \in {<<5, 257>>, <<256, 257>>} |->
                 IF i[1] = 5 THEN {<<1>>, <<3, 1>>, <<3, 2>>} ELSE {<<1>>}]
=============================================================================
