--------------------------- MODULE MCCopySupervisor ---------------------------
EXTENDS CopySupervisor, TLC

CONSTANTS f1, f2

(* An empty file is copied too: its worker reads the end of the file at    *)
(* once and no progress message is ever sent.                              *)
MCSize == (f1 :> 2) @@ (f2 :> 0)
MCSizeOne == (f1 :> 1)

Symmetry == Permutations(Workers)

(* There is something else at the destination of f1, and nothing at that   *)
(* of f2: no step looks at what it finds there.                            *)
MCInit == Init /\ dest = (f1 :> Foreign) @@ (f2 :> NoFile) /\ cfile = f1
MCSpec == MCInit /\ [][Next]_vars
===============================================================================
