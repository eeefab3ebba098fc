-------------------------------- MODULE Startup --------------------------------
(***************************************************************************)
(* Programs that open the same state file: main of                         *)
(* src/salvage/__main__.py and the roots check of src/salvage/state_db.py. *)
(*                                                                         *)
(* A state file belongs to the first pair of source and destination that   *)
(* is recorded in it.  The check is a query, and then either another       *)
(* query and a comparison, or an insert and a commit; nothing keeps        *)
(* another program from doing the same in between but the primary key of   *)
(* the table and the lock that an insert holds until the commit.           *)
(***************************************************************************)
CONSTANTS
  Programs,  \* processes, each started any number of times
  Roots,     \* Roots[p]: the source and the destination it is started with
  Nested,    \* programs whose source and destination lie in one another
  Fresh      \* a state file in which no roots are recorded

ASSUME ProgramsAssumption ==
  /\ Nested \subseteq Programs
  /\ \A p \in Programs : Roots[p] # Fresh

VARIABLES
  meta,    \* the roots in the table, or Fresh
  writer,  \* the programs that hold the lock for writing, at most one
  pc       \* pc[p]: where p is in main

vars == <<meta, writer, pc>>

RootsInUse == {Roots[p] : p \in Programs}

TypeOK ==
  /\ meta \in RootsInUse \cup {Fresh}
  /\ writer \subseteq Programs
  /\ pc \in [Programs -> {"off", "open", "select", "insert", "commit", "compare",
                          "running", "refused", "raised"}]

Init == meta = Fresh /\ writer = {} /\ pc = [p \in Programs |-> "off"]

Go(p, from, to) == pc[p] = from /\ pc' = [pc EXCEPT ![p] = to]

-------------------------------------------------------------------------------
(* parser.error before anything is opened                                  *)
Start(p) ==
  /\ Go(p, "off", IF p \in Nested THEN "refused" ELSE "open")
  /\ UNCHANGED <<meta, writer>>

(* The schema is created where it is missing.                              *)
Open(p) == Go(p, "open", "select") /\ UNCHANGED <<meta, writer>>

Select(p) ==
  /\ Go(p, "select", IF meta = Fresh THEN "insert" ELSE "compare")
  /\ UNCHANGED <<meta, writer>>

(* A mutant: INSERT OR REPLACE.                                            *)
Replaces(p) == TRUE

(* The primary key                                                         *)
NoRowYet(p) == meta = Fresh

Insert(p) ==
  /\ writer = {} /\ NoRowYet(p)
  /\ Go(p, "insert", "commit")
  /\ writer' = {p}
  /\ UNCHANGED meta

(* Another holds the lock for too long, or the key is there by now: an     *)
(* exception that main does not catch.                                     *)
Raises(p) ==
  /\ \/ writer # {} /\ Go(p, "open", "raised")
     \/ (writer # {} \/ ~NoRowYet(p)) /\ Go(p, "insert", "raised")
  /\ UNCHANGED <<meta, writer>>

(* A mutant: the source alone is recorded.                                 *)
SourceAlone(p) == Roots[p][1]

Recorded(p) == Roots[p]

Commit(p) ==
  /\ Go(p, "commit", "running")
  /\ meta' = Recorded(p) /\ writer' = {}

(* A mutant: only one half of the pair is compared.                        *)
SameSource(p) == meta[1] = Roots[p][1]

SameRoots(p) == meta = Roots[p]

Compare(p) ==
  /\ Go(p, "compare", IF SameRoots(p) THEN "running" ELSE "refused")
  /\ UNCHANGED <<meta, writer>>

(* The application or the report is done and closes the file.              *)
Close(p) == Go(p, "running", "off") /\ UNCHANGED <<meta, writer>>

(* A program that has been turned away is started again.                   *)
Leave(p) ==
  /\ Go(p, "refused", "off") \/ Go(p, "raised", "off")
  /\ UNCHANGED <<meta, writer>>

(* A death before the commit leaves nothing in the table.                  *)
Die(p) ==
  /\ pc[p] # "off" /\ pc' = [pc EXCEPT ![p] = "off"]
  /\ writer' = writer \ {p}
  /\ UNCHANGED meta

Next ==
  \E p \in Programs :
    \/ Start(p) \/ Open(p) \/ Select(p) \/ Insert(p) \/ Raises(p)
    \/ Commit(p) \/ Compare(p) \/ Close(p) \/ Leave(p) \/ Die(p)

Spec == Init /\ [][Next]_vars

-------------------------------------------------------------------------------
(* Properties                                                              *)

(* However starts overlap, a program that runs on the table is one of the  *)
(* roots recorded there (state_db.py:88-113): nobody's successes are       *)
(* taken for those of another pair.                                        *)
RunsOnItsRoots == \A p \in Programs : pc[p] = "running" => meta = Roots[p]

(* Roots are recorded once.                                                *)
RecordedOnce == [][meta # Fresh => meta' = meta]_vars
===============================================================================
