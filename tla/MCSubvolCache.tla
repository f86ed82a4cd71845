---------------------------- MODULE MCSubvolCache ----------------------------
(***************************************************************************)
(* SubvolCache on small instances.  Threads, roots and paths are           *)
(* interchangeable: no action or property names a particular one.          *)
(***************************************************************************)
EXTENDS SubvolCache, TLC

CacheSymmetry ==
  Permutations(Caller) \cup Permutations(Deleter) \cup Permutations(Root) \cup Permutations(Loc)
=============================================================================
