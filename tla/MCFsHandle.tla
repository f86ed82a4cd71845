----------------------------- MODULE MCFsHandle ------------------------------
(***************************************************************************)
(* FsHandle for the path /m/n, with up to two mounts on top of the root, of *)
(* two btrfs filesystems and another one.                                  *)
(***************************************************************************)
EXTENDS FsHandle

MCPath == <<"m", "n">>
MCAt == {<<>>, <<"m">>, <<"m", "n">>, <<"h">>}
MCMount == {[at |-> a, root |-> r, fstype |-> IF s = "X" THEN "ext4" ELSE "btrfs", source |-> s] :
            a \in MCAt, r \in {"@", "@home"}, s \in {"A", "B", "X"}}
MCRooted == {t \in UNION {[1..n -> MCMount] : n \in 1..3} : t[1].at = <<>> /\ t[1].root = "@"}
=============================================================================
