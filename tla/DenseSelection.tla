---------------------------- MODULE DenseSelection ----------------------------
(***************************************************************************)
(* What src/salvage/selection.py promises whoever toggles, without         *)
(* overrides, commits or patterns: a flag for every path ("too expensive   *)
(* to maintain", selection.py:3-5).  A toggle flips the flag of a path and *)
(* gives everything below the same flag.  The program may die in the       *)
(* middle of a toggle: what is below is then levelled to the flag that the *)
(* path still has.  Selection refines this module.                         *)
(***************************************************************************)
CONSTANTS
  Paths,   \* files and directories of the source tree
  Up       \* Up[p]: p and the directories above it

VARIABLE selected   \* the selected paths

Under(p) == {q \in Paths : p \in Up[q]}

Init == selected = {}

(* The flag of everything at or below p becomes on.                        *)
Level(p, on) ==
  selected' = IF on THEN selected \cup Under(p) ELSE selected \ Under(p)

Toggle(p) == Level(p, p \notin selected)

Interrupt(p) == Level(p, p \in selected)

Next == \E p \in Paths : Toggle(p) \/ Interrupt(p)

Spec == Init /\ [][Next]_selected
===============================================================================
