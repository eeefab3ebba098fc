----------------------------- MODULE MCStatusTree -----------------------------
(* A small source tree for StatusTree.                                         *)
EXTENDS StatusTree, TLC

CONSTANTS root, d, f, g

(* root/ has d/ and the file g, d/ has the file f.                             *)
TreeAbove == (root :> {}) @@ (d :> {root}) @@ (g :> {root}) @@ (f :> {root, d})

(* What a pass leaves that was stopped before it came to f.                    *)
EarlierRows == {(f :> "none") @@ (g :> "success")}

(* Where a first pass may lead: "r" was pressed, and "q", which stopped it at  *)
(* once; it is over, and the thread of that "q" is still at work.  Without     *)
(* this start two passes would be needed to begin one in that state.           *)
Quitting == Mounted /\ stop = TRUE /\ qpc = "killing" /\ retries = MaxRetries

MCSpec == (Init \/ Quitting) /\ [][Next]_vars /\ Fairness
===============================================================================
