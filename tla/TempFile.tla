------------------------------- MODULE TempFile -------------------------------
(***************************************************************************)
(* The temporary file of src/salvage/worker.py at the level of names and   *)
(* inodes: opening it for writing truncates the file that has the name,    *)
(* whoever else has it open, and a rename moves the name to whatever file  *)
(* is behind it by then.                                                   *)
(*                                                                         *)
(* A worker outlives a parent that is killed: it holds both ends of its    *)
(* queues, so it goes on with its file, and then waits for a task for      *)
(* ever.  The next start of the program works on the same names with a     *)
(* worker of its own.  Tasks, results and the ways a call is given up are  *)
(* in CopySupervisor; here a call is begun, answered or given up.          *)
(***************************************************************************)
EXTENDS Naturals, Sequences

CONSTANTS
  Files,    \* the regular files of the source
  Size,     \* Size[f]: its chunks
  Names,    \* names at the destination
  Dest,     \* Dest[f]: the name of the copy
  Tmp,      \* Tmp[f]: that name with ".salvage-tmp" appended
  Workers,  \* worker processes, one or more for each start of the program
  Inodes,   \* files at the destination, used again when nobody has them
  None,     \* no file, no worker, no inode
  Hole      \* bytes that nobody has written

ASSUME FilesAssumption ==
  /\ Size \in [Files -> Nat]
  /\ Dest \in [Files -> Names] /\ Tmp \in [Files -> Names]
  /\ \A f \in Files : Dest[f] # Tmp[f]
  /\ \A f, g \in Files : f # g => Dest[f] # Dest[g] /\ Tmp[f] # Tmp[g]
ASSUME NoneAssumption == None \notin Files \cup Workers \cup Inodes /\ Hole \notin Files

VARIABLES
  row,      \* copy_state: "none", "in_progress", "success", "failed"
  call,     \* the file of the running copy_file, or None
  current,  \* the worker of the running program, or None
  wpc,      \* wpc[w]: "unborn", "idle", "open", "copy", "done", "error", "dead"
  job,      \* job[w]: the file w copies, or None
  fd,       \* fd[w]: the inode it writes to, or None
  off,      \* off[w]: the chunks it has written
  names,    \* names[n]: the inode with that name, or None
  data,     \* data[i]: for each chunk of i the file it comes from, or Hole
  late      \* history: files that an orphan opened when another had them open

parent == <<row, call, current>>
worker == <<wpc, job, fd, off>>
disk == <<names, data>>
vars == <<parent, worker, disk, late>>

-------------------------------------------------------------------------------
Live(w) == wpc[w] \notin {"unborn", "dead"}

Held == {names[n] : n \in Names} \cup {fd[w] : w \in Workers}

Whole(f) == [k \in 1..Size[f] |-> f]

Copied(f) == names[Dest[f]] # None /\ data[names[Dest[f]]] = Whole(f)

(* The content after chunk k of f has been written to its place.           *)
Written(s, k, f) ==
  [n \in 1..(IF k < Len(s) THEN Len(s) ELSE k + 1) |->
     IF n = k + 1 THEN f ELSE IF n <= Len(s) THEN s[n] ELSE Hole]

TypeOK ==
  /\ row \in [Files -> {"none", "in_progress", "success", "failed"}]
  /\ call \in Files \cup {None} /\ current \in Workers \cup {None}
  /\ wpc \in [Workers -> {"unborn", "idle", "open", "copy", "done", "error", "dead"}]
  /\ job \in [Workers -> Files \cup {None}] /\ fd \in [Workers -> Inodes \cup {None}]
  /\ off \in [Workers -> Nat]
  /\ names \in [Names -> Inodes \cup {None}]
  /\ data \in [Inodes -> Seq(Files \cup {Hole})]
  /\ late \subseteq Files

Init ==
  /\ row = [f \in Files |-> "none"] /\ call = None /\ current = None
  /\ wpc = [w \in Workers |-> "unborn"] /\ job = [w \in Workers |-> None]
  /\ fd = [w \in Workers |-> None] /\ off = [w \in Workers |-> 0]
  /\ names = [n \in Names |-> None] /\ data = [i \in Inodes |-> <<>>]
  /\ late = {}

-------------------------------------------------------------------------------
(* The program                                                             *)

(* _spawn: when the program starts, and behind a worker given up.          *)
Spawn(w) ==
  /\ current = None /\ wpc[w] = "unborn"
  /\ current' = w /\ wpc' = [wpc EXCEPT ![w] = "idle"]
  /\ UNCHANGED <<row, call, job, fd, off, disk, late>>

(* _copy_one, unless the row is a success and a copy of the size is there. *)
Begin(f) ==
  /\ call = None /\ current # None /\ wpc[current] = "idle"
  /\ ~(row[f] = "success" /\ names[Dest[f]] # None /\ Len(data[names[Dest[f]]]) = Size[f])
  /\ call' = f /\ row' = [row EXCEPT ![f] = "in_progress"]
  /\ wpc' = [wpc EXCEPT ![current] = "open"] /\ job' = [job EXCEPT ![current] = f]
  /\ UNCHANGED <<current, fd, off, disk, late>>

(* A mutant: the kind of the message is taken for the status.              *)
RowVerbatim(kind) == kind

RowOf(kind) == IF kind = "done" THEN "success" ELSE "failed"

(* A "done" or an "error" is received.                                     *)
Answer ==
  /\ call # None /\ current # None /\ wpc[current] \in {"done", "error"}
  /\ row' = [row EXCEPT ![call] = RowOf(wpc[current])]
  /\ call' = None
  /\ wpc' = [wpc EXCEPT ![current] = "idle"]
  /\ UNCHANGED <<current, job, fd, off, disk, late>>

Remove(name) == names' = [names EXCEPT ![name] = None] /\ UNCHANGED data

Ended(w, pc) ==
  /\ wpc' = [wpc EXCEPT ![w] = pc] /\ job' = [job EXCEPT ![w] = None]
  /\ fd' = [fd EXCEPT ![w] = None] /\ off' = [off EXCEPT ![w] = 0]

(* A stall or an abort: _kill_and_respawn, up to the fork.                 *)
GiveUp ==
  /\ call # None /\ current # None
  /\ Ended(current, "dead")
  /\ Remove(Tmp[call])
  /\ row' = [row EXCEPT ![call] = "failed"] /\ call' = None /\ current' = None
  /\ UNCHANGED late

(* The program is killed; its worker, if it is at work, stays.             *)
Killed ==
  /\ current # None
  /\ current' = None /\ call' = None
  /\ UNCHANGED <<row, worker, disk, late>>

-------------------------------------------------------------------------------
(* A worker, of this program or of an earlier one                          *)

(* open(tmp, "wb")                                                         *)
Open(w) ==
  /\ wpc[w] = "open"
  /\ LET name == Tmp[job[w]]
         here == names[name]
     IN \E i \in Inodes :
          /\ IF here # None THEN i = here ELSE i \notin Held
          /\ names' = [names EXCEPT ![name] = i]
          /\ data' = [data EXCEPT ![i] = <<>>]
          /\ fd' = [fd EXCEPT ![w] = i]
          /\ late' = IF w # current /\ \E v \in Workers \ {w} : fd[v] # None /\ job[v] = job[w]
                     THEN late \cup {job[w]} ELSE late
  /\ wpc' = [wpc EXCEPT ![w] = "copy"]
  /\ UNCHANGED <<parent, job, off>>

(* A mutant: a short read is taken for the end of the file.                *)
AtEofAlways(w) == TRUE

(* An empty read                                                           *)
AtEof(w) == off[w] = Size[job[w]]

Chunk(w) ==
  /\ wpc[w] = "copy" /\ ~AtEof(w)
  /\ data' = [data EXCEPT ![fd[w]] = Written(@, off[w], job[w])]
  /\ off' = [off EXCEPT ![w] = @ + 1]
  /\ UNCHANGED <<parent, wpc, job, fd, names, late>>

(* os.replace, of the file that has the name now                           *)
Replace(w) ==
  /\ wpc[w] = "copy" /\ AtEof(w) /\ names[Tmp[job[w]]] # None
  /\ names' = [names EXCEPT ![Dest[job[w]]] = names[Tmp[job[w]]], ![Tmp[job[w]]] = None]
  /\ Ended(w, "done")
  /\ UNCHANGED <<parent, data, late>>

(* Any exception, a rename of a name that is gone among them               *)
Fails(w) ==
  /\ wpc[w] \in {"open", "copy"}
  /\ Remove(Tmp[job[w]])
  /\ Ended(w, "error")
  /\ UNCHANGED <<parent, late>>

(* An orphan dies in the middle of a copy.                                 *)
Dies(w) ==
  /\ wpc[w] \in {"open", "copy"} /\ w # current
  /\ Ended(w, "dead")
  /\ UNCHANGED <<parent, disk, late>>

-------------------------------------------------------------------------------
Next ==
  \/ \E w \in Workers : Spawn(w) \/ Open(w) \/ Chunk(w) \/ Replace(w) \/ Fails(w) \/ Dies(w)
  \/ \E f \in Files : Begin(f)
  \/ Answer \/ GiveUp \/ Killed

Spec == Init /\ [][Next]_vars

-------------------------------------------------------------------------------
(* Properties                                                              *)

(* A success is whole whatever orphans do with the same names, as long as  *)
(* none of them opens the temporary file while another worker has it open: *)
(* an orphan that opened it earlier writes the same bytes to the same      *)
(* places, and when it has renamed or removed the name the rename of the   *)
(* other fails (worker.py:46-62).                                          *)
SuccessIsWholeUnlessLate == \A f \in Files \ late : row[f] = "success" => Copied(f)

-------------------------------------------------------------------------------
(* What the repository says and the code does not do                       *)

(* state_db.py:3-5, "so a run can be killed [...] and resumed later without *)
(* [...] losing track of failures", and README.md:21, "The destination     *)
(* tree is rebuilt with the same structure": what the table calls a        *)
(* success is there, whole.                                                *)
SuccessIsWhole == \A f \in Files : row[f] = "success" => Copied(f)
===============================================================================
