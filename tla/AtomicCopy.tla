------------------------------ MODULE AtomicCopy ------------------------------
(***************************************************************************)
(* What CopySupervisor.copy_file (worker.py) promises the copy engine,     *)
(* with no processes, queues or temporary files: a call publishes either   *)
(* the whole source file at its destination or nothing, it does so before  *)
(* it returns, and it answers "success" only when the destination is       *)
(* whole.  CopySupervisor refines this module.                             *)
(***************************************************************************)
EXTENDS Naturals

CONSTANTS
  Files,    \* the regular files of the source tree
  Size,     \* Size[f] is the number of chunks of f
  NoFile,   \* there is no file at the path
  Foreign,  \* a file is there whose bytes are not those of the source
  None      \* no call is running

Outcome == {"success", "failed", "aborted", "raised"}

VARIABLES
  call,     \* the file whose copy is running, or None
  last,     \* the file of the latest call
  dest,     \* dest[f]: what is at the destination path of f
  outcome   \* how the last call ended, "none" while one runs

vars == <<call, last, dest, outcome>>

Init ==
  /\ call = None
  /\ last \in Files
  /\ dest \in [Files -> {NoFile, Foreign}]
  /\ outcome = "none"

(* The engine calls copy_file(f).  A pass that died in an exception is the *)
(* last thing the program does.                                            *)
Begin(f) ==
  /\ call = None
  /\ outcome # "raised"
  /\ call' = f
  /\ last' = f
  /\ outcome' = "none"
  /\ UNCHANGED dest

(* The whole file appears at its destination, in one step.  A call that    *)
(* raised may leave its worker running until the program has exited: it    *)
(* can still publish, but never anything but the whole file.               *)
Publish ==
  /\ call # None \/ outcome = "raised"
  /\ dest' = [dest EXCEPT ![last] = Size[last]]
  /\ UNCHANGED <<call, last, outcome>>

(* The call returns (or raises); "success" needs the whole file.           *)
Return(o) ==
  /\ call # None
  /\ o = "success" => dest[call] = Size[call]
  /\ call' = None
  /\ outcome' = o
  /\ UNCHANGED <<last, dest>>

Next ==
  \/ \E f \in Files : Begin(f)
  \/ Publish
  \/ \E o \in Outcome : Return(o)

Spec == Init /\ [][Next]_vars
===============================================================================
