------------------------------ MODULE MCBrowse -------------------------------
(***************************************************************************)
(* Browse with a directory a, which holds x, beside an entry b and a bucket. *)
(***************************************************************************)
EXTENDS Browse

MCPath == {"", "a", "a/x", "b", "<M>"}
MCUp == [p \in MCPath |-> CASE p = "" -> {} [] p = "a/x" -> {"", "a"} [] OTHER -> {""}]
MCName == [p \in MCPath |-> CASE p = "<M>" -> 1 [] p = "a" -> 2 [] p = "b" -> 3 [] OTHER -> 0]
MCBatch == {<<{"a/x"}, {}>>, <<{"<M>"}, {}>>, <<{"a/x", "b"}, {}>>}
=============================================================================
