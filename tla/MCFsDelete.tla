----------------------------- MODULE MCFsDelete -----------------------------
(* A target two levels down that is a directory with a subvolume in it, or a  *)
(* subvolume with one nested in an ordinary directory; beside it a directory  *)
(* with a file and a link to that directory.                                  *)
EXTENDS FsDelete

CONSTANTS top, p, t, s, v, f, g, out, h, l, n, a, b, none

MCObj    == {top, p, t, s, v, f, g, out, h, l, n}
MCKind   == [x \in MCObj |->
               CASE x \in {top, s, v}    -> "subvol"
                 [] x \in {p, t, out}    -> "dir"
                 [] x \in {f, g, h, n}      -> "file"
                 [] x = l                -> "link"]
MCLinkTo == [x \in {l} |-> out]

Around == (<<top, a>> :> p) @@ (<<top, b>> :> out) @@ (<<out, a>> :> h) @@ (<<out, b>> :> l)
Plain  == (<<p, a>> :> t) @@ (<<t, a>> :> s) @@ (<<t, b>> :> f) @@ (<<s, a>> :> g)
Nested == (<<p, a>> :> s) @@ (<<s, a>> :> t) @@ (<<s, b>> :> f) @@ (<<t, a>> :> v)
            @@ (<<v, a>> :> g)
Place(tree) ==
  [e \in MCObj \X {a, b} |-> IF e \in DOMAIN tree THEN tree[e] ELSE none]

MCStart  == {Place(Around @@ Plain), Place(Around @@ Nested)}
MCTarget == <<a, a>>
=============================================================================
