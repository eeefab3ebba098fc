------------------------------ MODULE MCSelection ------------------------------
(* A small source tree for Selection.                                          *)
EXTENDS Selection, TLC

CONSTANTS root, a, b, f, g

(* root/ has a/, a/ has b/ and the file g, b/ has the file f.                  *)
TreeIn == (a :> root) @@ (b :> a) @@ (g :> a) @@ (f :> b)
TreeUp == (root :> {root}) @@ (a :> {root, a}) @@ (b :> {root, a, b})
          @@ (g :> {root, a, g}) @@ (f :> {root, a, b, f})
TreeLike == (root :> {root, a, b, f, g}) @@ (a :> {b, f, g}) @@ (b :> {f})
===============================================================================
