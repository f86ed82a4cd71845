------------------------------ MODULE MCSession ------------------------------
(***************************************************************************)
(* Session on small filesystems.                                           *)
(***************************************************************************)
EXTENDS Session

\* A directory or subvolume d, a subvolume d/s with a file in it, a file d/e and a bucket:
\* targets beside and inside each other, and a directory two levels below one that goes.
MCPath == {"", "d", "d/s", "d/s/f", "d/e", "<UNREACHABLE>"}
MCUp == [p \in MCPath |-> CASE p = ""      -> {}
                            [] p \in {"d/s", "d/e"} -> {"", "d"}
                            [] p = "d/s/f" -> {"", "d", "d/s"}
                            [] OTHER       -> {""}]
MCSpecial == {"<UNREACHABLE>"}
MCBatch == {<<{"d/s/f", "d/e", "<UNREACHABLE>"}, {"d/s"}>>}

\* A directory d, and in it d/s, a subvolume or not, that a late sample may bring back.
NestedPath == {"", "d", "d/s"}
NestedUp == [p \in NestedPath |-> CASE p = "" -> {} [] p = "d" -> {""} [] p = "d/s" -> {"", "d"}]
NestedBatch == {<<{"d/s"}, {}>>}

\* The subvolume d/s, which no sample shows, beside the file d/e.
BesidePath == {"", "d", "d/s", "d/e"}
BesideUp == [p \in BesidePath |->
              IF p = "" THEN {} ELSE IF p = "d" THEN {""} ELSE {"", "d"}]
BesideBatch == {<<{"d/e"}, {}>>}
=============================================================================
