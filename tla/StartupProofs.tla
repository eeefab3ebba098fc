----------------------------- MODULE StartupProofs -----------------------------
(***************************************************************************)
(* Theorems about Startup, for every set of programs and all their roots.  *)
(*                                                                         *)
(* That a running program has the recorded roots is not inductive: it      *)
(* needs that nobody overwrites a row.  Who commits holds the lock, so     *)
(* there is one such program, and the table is as empty as when it asked.  *)
(***************************************************************************)
EXTENDS Startup, TLAPS

Committing == \A p \in Programs : pc[p] = "commit" => writer = {p} /\ meta = Fresh

Comparing == \A p \in Programs : pc[p] = "compare" => meta # Fresh

IInv == TypeOK /\ Committing /\ Comparing /\ RunsOnItsRoots

(* The inductive invariant holds at the start: the table is empty and      *)
(* nobody has asked it anything.                                           *)
LEMMA InitIInv == Init => IInv
  BY DEF Init, IInv, TypeOK, Committing, Comparing, RunsOnItsRoots

(* It is kept by every step of every program, a death included.            *)
LEMMA NextIInv == IInv /\ [Next]_vars => IInv'
<1> SUFFICES ASSUME IInv, [Next]_vars PROVE IInv'
  OBVIOUS
<1> USE DEF IInv, TypeOK, Committing, Comparing, RunsOnItsRoots
<1>1. ASSUME NEW p \in Programs,
             \/ Start(p) \/ Open(p) \/ Select(p) \/ Raises(p)
             \/ Close(p) \/ Leave(p)
      PROVE  IInv'
  BY <1>1 DEF Start, Open, Select, Raises, Close, Leave, Go
<1>2. ASSUME NEW p \in Programs, Insert(p)
      PROVE  IInv'
  BY <1>2 DEF Insert, Go, NoRowYet
<1>3. ASSUME NEW p \in Programs, Commit(p)
      PROVE  IInv'
  <2>1. meta = Fresh /\ writer = {p} /\ \A q \in Programs : pc[q] = "commit" => q = p
    BY <1>3 DEF Commit, Go
  <2>2. \A q \in Programs : pc[q] # "running"
    BY <2>1, ProgramsAssumption
  <2>3. meta' = Roots[p] /\ meta' # Fresh
    BY <1>3, ProgramsAssumption DEF Commit, Recorded
  <2>4. TypeOK'
    BY <1>3, <2>3 DEF Commit, Go, RootsInUse
  <2> QED
    BY <1>3, <2>1, <2>2, <2>3, <2>4 DEF Commit, Go
<1>4. ASSUME NEW p \in Programs, Compare(p)
      PROVE  IInv'
  BY <1>4 DEF Compare, Go, SameRoots
<1>5. ASSUME NEW p \in Programs, Die(p)
      PROVE  IInv'
  BY <1>5 DEF Die
<1>6. CASE UNCHANGED vars
  BY <1>6 DEF vars
<1> QED
  BY <1>1, <1>2, <1>3, <1>4, <1>5, <1>6 DEF Next

LEMMA Invariance == Spec => []IInv
  BY InitIInv, NextIInv, PTL DEF Spec

(* The variables of the starts keep their types.                           *)
THEOREM TypeCorrect == Spec => []TypeOK
<1>1. IInv => TypeOK
  BY DEF IInv
<1> QED
  BY <1>1, Invariance, PTL

(* Whatever the number of programs and however their starts overlap, who   *)
(* runs on the table has the roots recorded in it.                         *)
THEOREM RootsTheorem == Spec => []RunsOnItsRoots
<1>1. IInv => RunsOnItsRoots
  BY DEF IInv
<1> QED
  BY <1>1, Invariance, PTL

(* Roots that are recorded stay.                                           *)
THEOREM RecordedTheorem == Spec => RecordedOnce
<1>1. IInv /\ [Next]_vars => [meta # Fresh => meta' = meta]_vars
  <2> SUFFICES ASSUME IInv, Next, meta # Fresh PROVE meta' = meta
    BY DEF vars
  <2>1. ASSUME NEW p \in Programs, Commit(p) PROVE FALSE
    BY <2>1 DEF IInv, Committing, Commit, Go
  <2> QED
    BY <2>1 DEF Next, Start, Open, Select, Insert, Raises, Compare, Close, Leave, Die
<1> QED
  BY <1>1, Invariance, PTL DEF Spec, RecordedOnce
===============================================================================
