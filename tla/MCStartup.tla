------------------------------- MODULE MCStartup -------------------------------
(* Four starts on one state file.                                              *)
EXTENDS Startup, TLC

CONSTANTS p1, p2, p3, p4, disk, copy, other

(* Two with the same roots, one with another destination, one that would copy  *)
(* into itself.                                                                *)
FourRoots == (p1 :> <<disk, copy>>) @@ (p2 :> <<disk, copy>>)
             @@ (p3 :> <<disk, other>>) @@ (p4 :> <<disk, disk>>)
===============================================================================
