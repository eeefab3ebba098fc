---------------------------- MODULE MCCopyEngine -----------------------------
(* Small source trees for CopyEngine.                                        *)
EXTENDS CopyEngine, TLC

CONSTANTS root, sub, f, g, l, s, k

(* root/ has the link l, the device s, and sub/, which has f.                *)
SmallIn == (l :> root) @@ (s :> root) @@ (sub :> root) @@ (f :> sub)
SmallUp == (root :> {root}) @@ (l :> {root, l}) @@ (s :> {root, s})
           @@ (sub :> {root, sub}) @@ (f :> {root, sub, f})
SmallSelected == {f, l, s, sub, root}
SmallSize == f :> 1

(* root/ has the link l, the device s, the link k to a directory and sub/;   *)
(* sub/ has g.  Neither a directory nor the device is selected, the others   *)
(* are by overrides of their own.                                            *)
SparseIn == (l :> root) @@ (s :> root) @@ (k :> root) @@ (sub :> root) @@ (g :> sub)
SparseUp == (root :> {root}) @@ (l :> {root, l}) @@ (s :> {root, s}) @@ (k :> {root, k})
            @@ (sub :> {root, sub}) @@ (g :> {root, sub, g})
SparseSelected == {l, k, g}
SparseSize == g :> 1

(* root/ has sub/, sub/ has f.                                               *)
PlainIn == (sub :> root) @@ (f :> sub)
PlainUp == (root :> {root}) @@ (sub :> {root, sub}) @@ (f :> {root, sub, f})
PlainSelected == {f, sub, root}
PlainSize == f :> 1
==============================================================================
