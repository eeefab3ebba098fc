------------------------------ MODULE MCTempFile ------------------------------
(* A small instance of TempFile.                                               *)
EXTENDS TempFile, FiniteSets, TLC

CONSTANTS x, nameX, tmpX, w1, w2, w3, i1, i2, i3, i4

(* One file of two chunks.                                                     *)
OneSize == x :> 2
OneDest == x :> nameX
OneTmp == x :> tmpX

Interchangeable == Permutations(Workers) \cup Permutations(Inodes)
===============================================================================
