------------------------------ MODULE CopyEngine ------------------------------
(***************************************************************************)
(* A copy pass: CopyEngine of src/salvage/copier.py, the copy_state table  *)
(* of src/salvage/state_db.py it keeps, and the keys of src/salvage/app.py *)
(* that reach it: start, pause, retry failed, quit.                        *)
(*                                                                         *)
(* The pass runs on the copy thread; the commits to the table, the changes *)
(* of the destination and the calls of the supervisor are steps of their   *)
(* own, so that keys, and the death of the whole program, fall between     *)
(* them (a directory's two commits in a row, and a change of the           *)
(* destination with the commit right behind it where no property tells the *)
(* two orders apart, are one step).  The table and the destination survive *)
(* the program.  CopySupervisor.copy_file is its promise, AtomicCopy.      *)
(*                                                                         *)
(* os.walk and the sorted file names are sets here: the next directory and *)
(* the next file are any that remain, whatever the names.  The selection   *)
(* does not change.  Any stat, listing, readlink or utime may fail.  Those *)
(* on the source may also never return: the copy thread makes them itself, *)
(* with no worker process to kill and no timeout.                          *)
(***************************************************************************)
EXTENDS Naturals

CONSTANTS
  Files,       \* regular files of the source tree
  Links,       \* symbolic links os.walk reports among the files
  Specials,    \* devices, sockets, fifos
  Dirs,        \* directories
  DirLinks,    \* symbolic links to directories: os.walk has them among the
               \* directories, and does not follow them
  Root,        \* the root of the source tree
  In,          \* In[x]: the directory that x # Root is in
  Up,          \* Up[x]: x and the directories above it
  Selected,    \* the paths selection.effective() is true of
  Size,        \* Size[f]: the length of file f
  NoFile, Foreign, None,   \* as in AtomicCopy
  DestFaults,  \* may mkdir or stat on the destination raise?
  SourceHangs, \* may a system call of the copy thread on the source hang?
  MaxPasses,   \* bound: passes started
  MaxCrashes,  \* bound: deaths of the program
  MaxRetries,  \* bound: presses of "r"
  MaxLosses    \* bound: copies that vanish from the destination

Entries == Files \cup Links \cup Specials
Paths == Entries \cup Dirs \cup DirLinks

ASSUME TreeAssumption ==
  /\ Root \in Dirs
  /\ In \in [Paths \ {Root} -> Dirs]
  /\ Selected \subseteq Paths
  /\ None \notin Paths
(* lstat gives a path one kind.                                            *)
ASSUME KindsAssumption ==
  /\ Files \cap Links = {} /\ (Files \cup Links) \cap Specials = {}
  /\ Entries \cap (Dirs \cup DirLinks) = {}
ASSUME UpAssumption ==
  /\ Up \in [Paths -> SUBSET Paths]
  /\ Up[Root] = {Root}
  /\ \A x \in Paths \ {Root} : x \notin Up[In[x]] /\ Up[x] = Up[In[x]] \cup {x}
  /\ \A x \in Paths : \A y \in Up[x] :
       Root \in Up[y] /\ Up[y] \subseteq Up[x] /\ (y = x \/ y \in Dirs)
(* Names are finite, so of the directories above a path one is highest.    *)
ASSUME HighestAssumption ==
  \A x \in Paths : \A some \in SUBSET Up[x] :
    some # {} => \E y \in some : \A z \in some : y \in Up[z]

VARIABLES
  status,   \* copy_state.status, "none" if there is no row
  timed,    \* timed[d]: the mtime column of d's row is not NULL
  call, last, dest, outcome,   \* copy_file and the copied files: AtomicCopy
  link,     \* link[x]: the destination of x is a symbolic link
  dirTime,  \* mtime of a destination directory: "absent", "touched", "source"
  epc,      \* where the copy thread is
  cur,      \* the file in hand
  dirsLeft, \* directories os.walk has still to list
  entries,  \* file names of the current directory still to do
  fixes,    \* rows _fix_directory_timestamps has still to visit
  whole,    \* history: the walk of the latest pass came to its end
  dying,    \* an exception is on its way out of the pass
  stop, pause,                        \* stop_event, pause_event
  quitting, \* the thread that "q" started under a pass is in shutdown
  passes, crashes, retries, losses,   \* counts against the bounds
  event,    \* history: the FileEvent of x in this pass
  unlisted, \* history: directories whose listing failed in this pass
  requeued, \* history: rows "r" has reset since the pass began
  late,     \* history: files begun since pause_event was set
  copied    \* history: files recorded as copied, and not lost since

copyCall == <<call, last, dest, outcome>>
table == <<status, timed>>
disk == <<link, dirTime>>
walk == <<dirsLeft, entries, fixes, whole>>
flags == <<stop, pause, quitting>>
counts == <<passes, crashes, retries, losses>>
history == <<event, unlisted, requeued, late, copied>>
vars == <<table, copyCall, disk, epc, cur, walk, dying, flags, counts, history>>

Copy == INSTANCE AtomicCopy

Status == {"none", "pending", "in_progress", "success", "failed", "skipped"}
Event == {"none", "success", "failed", "aborted", "already_done", "skipped"}
EnginePc == {"off", "list", "files", "start", "statfailed", "special", "unlink",
             "symlink", "begin", "mkdir", "copying", "record", "fix", "fixing",
             "hung"}

TypeOK ==
  /\ status \in [Paths -> Status]
  /\ timed \in [Dirs -> BOOLEAN]
  /\ call \in Files \cup {None} /\ last \in Files
  /\ dest \in [Files -> {NoFile, Foreign} \cup {Size[f] : f \in Files}]
  /\ outcome \in Copy!Outcome \cup {"none"}
  /\ link \in [Links -> BOOLEAN]
  /\ dirTime \in [Dirs -> {"absent", "touched", "source"}]
  /\ epc \in EnginePc
  /\ cur \in Entries \cup {None}
  /\ dirsLeft \subseteq Dirs /\ entries \subseteq Entries /\ fixes \subseteq Dirs
  /\ {whole, dying, stop, pause, quitting} \subseteq BOOLEAN
  /\ event \in [Entries -> Event]
  /\ unlisted \subseteq Dirs /\ requeued \subseteq Paths /\ copied \subseteq Entries
  /\ late \in Nat

Init ==
  /\ Copy!Init
  /\ status = [x \in Paths |-> "none"]
  /\ timed = [d \in Dirs |-> FALSE]
  /\ link = [x \in Links |-> FALSE]
  /\ dirTime = [d \in Dirs |-> IF d = Root THEN "touched" ELSE "absent"]
  /\ epc = "off" /\ cur = None /\ dying = FALSE
  /\ dirsLeft = {} /\ entries = {} /\ fixes = {} /\ whole = FALSE
  /\ stop = FALSE /\ pause = FALSE /\ quitting = FALSE
  /\ passes = 0 /\ crashes = 0 /\ retries = 0 /\ losses = 0
  /\ event = [x \in Entries |-> "none"]
  /\ unlisted = {} /\ requeued = {} /\ late = 0 /\ copied = {}

-------------------------------------------------------------------------------
(* The copy_state table                                                    *)

(* upsert_pending: a new row is pending; the status of an old one stays.   *)
Upserted(x) == IF status[x] = "none" THEN "pending" ELSE status[x]

Upsert(x) == status' = [status EXCEPT ![x] = Upserted(x)]

(* upsert_pending of a directory also stores mtime, not over a success.    *)
UpsertDir(d, known) ==
  timed' = [timed EXCEPT ![d] = IF status[d] = "success" THEN @ ELSE known]

(* mark_success, mark_failed, mark_skipped, mark_in_progress: one UPDATE.  *)
Mark(x, s) == status' = [status EXCEPT ![x] = s]

(* on_file_done, after the row and the stub are written.                   *)
Report(x, e) == event' = [event EXCEPT ![x] = e]

-------------------------------------------------------------------------------
(* The walk                                                                *)

(* d is at x or above it.                                                  *)
Contains(d, x) == d \in Up[x]

(* A mutant: an excluded directory is pruned whatever is included below.   *)
KeptIfSelected(d) == d \in Selected

(* effective(d) or any_include_below(d)                                    *)
Kept(d) == d \in Selected \/ \E x \in Selected : Contains(d, x)

Children(d, S) == {x \in S \ {Root} : In[x] = d}

(* A step of the pass that only moves on.                                  *)
Move(to) ==
  /\ epc' = to
  /\ UNCHANGED <<table, copyCall, disk, cur, walk, dying, flags, counts, history>>

(* "c" while no pass runs: CopyEngine.run.  The program may be one that    *)
(* has been started again, or still the one that is quitting.              *)
StartPass ==
  /\ epc = "off" /\ passes < MaxPasses
  /\ passes' = passes + 1
  /\ stop' = FALSE /\ pause' = FALSE /\ quitting' \in {FALSE, quitting}
  /\ epc' = "list" /\ dirsLeft' = {Root} /\ entries' = {} /\ whole' = FALSE
  /\ cur' = None /\ late' = 0
  /\ event' = [x \in Entries |-> "none"] /\ unlisted' = {} /\ requeued' = {}
  /\ UNCHANGED <<table, copyCall, disk, fixes, dying, crashes, retries, losses,
                 copied>>

(* os.walk cannot list d: onerror upserts the row and marks it failed.     *)
ListFails(d) ==
  /\ epc = "list" /\ d \in dirsLeft
  /\ dirsLeft' = dirsLeft \ {d}
  /\ UpsertDir(d, FALSE)
  /\ Mark(d, "failed")
  /\ unlisted' = unlisted \cup {d}
  /\ UNCHANGED <<copyCall, disk, epc, cur, entries, fixes, whole, dying, flags,
                 counts, event, requeued, late, copied>>

(* os.walk has listed d and stop_event is set: return, then the finally.   *)
ListStopped(d) == epc = "list" /\ d \in dirsLeft /\ stop /\ Move("fix")

(* A mutant: the timestamp is set, and recorded, when the directory is     *)
(* made, before its files are written.                                     *)
EnsureFixesTime(d) ==
  /\ dirTime' = [dirTime EXCEPT ![d] = "source"]
  /\ UpsertDir(d, TRUE)
  /\ Mark(d, "success")

(* _ensure_dest_dir: d is made at the destination and, unless it is a      *)
(* success already, its row stored, with an mtime if stat gives one.       *)
EnsureDestDir(d) ==
  /\ dirTime' = IF dirTime[d] = "absent"
                THEN [dirTime EXCEPT ![d] = "touched", ![In[d]] = "touched"]
                ELSE dirTime
  /\ IF status[d] = "success"
     THEN UNCHANGED table
     ELSE \E known \in BOOLEAN : UpsertDir(d, known) /\ Upsert(d)

(* d is listed and its children are pruned.                                *)
List(d) ==
  /\ epc = "list" /\ d \in dirsLeft
  /\ ~stop
  /\ dirsLeft' = (dirsLeft \ {d}) \cup {c \in Children(d, Dirs) : Kept(c)}
  /\ entries' = Children(d, Entries)
  /\ epc' = "files"
  /\ IF d = Root THEN UNCHANGED <<table, dirTime>> ELSE EnsureDestDir(d)
  /\ UNCHANGED <<copyCall, link, cur, fixes, whole, dying, flags, counts,
                 history>>

(* A mutant: nothing catches the exception, the thread is gone.            *)
RaisesThrough ==
  /\ epc' = "gone" /\ dying' = TRUE
  /\ UNCHANGED <<table, copyCall, disk, cur, walk, flags, counts, history>>

(* An exception that nothing catches short of the finally of run.          *)
Raises ==
  /\ epc' = "fix" /\ dying' = TRUE
  /\ UNCHANGED <<table, copyCall, disk, cur, walk, flags, counts, history>>

(* mkdir(parents=True, exist_ok=True), or dest_abs.exists() of a file that *)
(* has been copied, raises.                                                *)
DestRaises ==
  /\ DestFaults
  /\ \/ epc = "list" /\ ~stop /\ dirsLeft \ {Root} # {}
     \/ epc = "start" /\ (cur \in Links \/ (cur \in Files /\ status[cur] = "success"))
     \/ epc = "mkdir"
  /\ Raises

(* A mutant: _wait_while_paused does not look at stop_event.               *)
FilesStoppedUnpaused ==
  epc = "files" /\ entries # {} /\ stop /\ ~pause /\ Move("fix")

(* Both stop checks around _wait_while_paused.                             *)
FilesStopped == epc = "files" /\ entries # {} /\ stop /\ Move("fix")

Take(x) ==
  /\ epc = "files" /\ x \in entries
  /\ ~stop
  /\ entries' = entries \ {x}
  /\ IF x \in Selected THEN epc' = "start" /\ cur' = x ELSE UNCHANGED <<epc, cur>>
  /\ UNCHANGED <<table, copyCall, disk, dirsLeft, fixes, whole, dying, flags,
                 counts, history>>

(* A mutant: the loop over the files forgets to wait for the pause.        *)
NextFilePaused(x) == Take(x)

(* The next file, once no pause is on; an unselected one is passed over.   *)
NextFile(x) == ~pause /\ Take(x)

DirDone == epc = "files" /\ entries = {} /\ Move("list")

WalkDone ==
  /\ epc = "list" /\ dirsLeft = {}
  /\ epc' = "fix"
  /\ whole' = TRUE
  /\ UNCHANGED <<table, copyCall, disk, cur, dirsLeft, entries, fixes, dying, flags,
                 counts, history>>

-------------------------------------------------------------------------------
(* _copy_one and _copy_symlink                                             *)

oneLeaves == <<timed, walk, dying, flags, counts, unlisted, requeued>>

(* upsert_pending(cur), the first commit of every branch but already_done. *)
Enter(pc) ==
  /\ epc = "start"
  /\ epc' = pc
  /\ Upsert(cur)
  /\ late' = IF pause THEN late + 1 ELSE late
  /\ UNCHANGED <<oneLeaves, copyCall, disk, cur, event, copied>>

EnterSymlink == cur \in Links /\ Enter("unlink")
EnterSpecial == cur \in Specials /\ Enter("special")
StatFails == Enter("statfailed")

(* A mutant: the row alone decides.                                        *)
DoneByRow(f) == status[f] = "success"

(* existing.status == "success", dest_abs.exists(), and its size is that   *)
(* of the source, as that of other content may be.                         *)
Done(f) == status[f] = "success" /\ dest[f] # NoFile

NeedsCopy ==
  /\ cur \in Files
  /\ ~Done(cur) \/ dest[cur] = Foreign \/ DestFaults
  /\ Enter("begin")

AlreadyDone ==
  /\ epc = "start" /\ cur \in Files
  /\ Done(cur)
  /\ Report(cur, "already_done")
  /\ epc' = "files"
  /\ UNCHANGED <<oneLeaves, status, copyCall, disk, cur, late, copied>>

(* The last commit of a branch, then on_file_done.                         *)
Finish(s, e) ==
  /\ Mark(cur, s)
  /\ Report(cur, e)
  /\ epc' = "files"
  /\ copied' = IF s = "success" THEN copied \cup {cur} ELSE copied
  /\ UNCHANGED <<oneLeaves, copyCall, cur, late>>

MarkStatFailed == epc = "statfailed" /\ Finish("failed", "failed") /\ UNCHANGED disk
MarkSpecial == epc = "special" /\ Finish("skipped", "skipped") /\ UNCHANGED disk

Touch(x) == dirTime' = [dirTime EXCEPT ![In[x]] = "touched"]

(* readlink, then unlink what is at the destination.                       *)
Unlink ==
  /\ epc = "unlink"
  /\ epc' = "symlink"
  /\ link' = [link EXCEPT ![cur] = FALSE]
  /\ \/ Touch(cur)
     \/ ~link[cur] /\ UNCHANGED dirTime
  /\ UNCHANGED <<oneLeaves, status, copyCall, cur, event, late, copied>>

(* os.symlink, then mark_success.                                          *)
Symlink ==
  /\ epc = "symlink"
  /\ link' = [link EXCEPT ![cur] = TRUE]
  /\ Touch(cur)
  /\ Finish("success", "success")

SymlinkFails ==
  /\ epc \in {"unlink", "symlink"}
  /\ Finish("failed", "failed")
  /\ UNCHANGED disk

(* mark_in_progress, then on_file_start.                                   *)
MarkInProgress ==
  /\ epc = "begin"
  /\ Mark(cur, "in_progress")
  /\ epc' = "mkdir"
  /\ UNCHANGED <<oneLeaves, copyCall, disk, cur, event, late, copied>>

(* copy_file is called; its worker may make the temporary file.            *)
BeginCopy ==
  /\ epc = "mkdir"
  /\ Copy!Begin(cur)
  /\ Touch(cur) \/ UNCHANGED dirTime
  /\ epc' = "copying"
  /\ UNCHANGED <<oneLeaves, status, link, cur, event, late, copied>>

(* While copy_file runs, or after it has raised, its worker renames the    *)
(* finished copy into place.                                               *)
Publish ==
  /\ epc # "off"
  /\ Copy!Publish
  /\ Touch(last)
  /\ UNCHANGED <<table, link, epc, cur, walk, dying, flags, counts, history>>

(* copy_file answers; "aborted" needs stop_event.                          *)
CopyReturns(o) ==
  /\ epc = "copying"
  /\ o = "aborted" => stop
  /\ o # "raised"
  /\ Copy!Return(o)
  /\ epc' = "record"
  /\ UNCHANGED <<oneLeaves, status, disk, cur, event, late, copied>>

(* A queue that shutdown has closed, perhaps under a pass that was begun   *)
(* after "q" and has cleared stop_event: ValueError out of copy_file.      *)
CopyRaises ==
  /\ epc = "copying" /\ quitting
  /\ Copy!Return("raised")
  /\ epc' = "fix" /\ dying' = TRUE
  /\ UNCHANGED <<table, disk, cur, walk, flags, counts, history>>

(* A mutant: whatever did not fail is recorded as a success.               *)
RecordUnlessFailed ==
  /\ epc = "record"
  /\ IF outcome = "failed" THEN Finish("failed", "failed")
                           ELSE Finish("success", outcome)
  /\ UNCHANGED disk

(* A mutant: the outcome of copy_file is stored as the status.             *)
RecordVerbatim ==
  /\ epc = "record"
  /\ Finish(outcome, outcome)
  /\ UNCHANGED disk

Record ==
  /\ epc = "record"
  /\ CASE outcome = "success" -> Finish("success", "success")
       [] outcome = "aborted" -> Finish("skipped", "aborted")
       [] outcome = "failed"  -> Finish("failed", "failed")
  /\ UNCHANGED disk

-------------------------------------------------------------------------------
(* The finally of run: _fix_directory_timestamps                           *)

fixLeaves == <<copyCall, link, cur, dirsLeft, entries, whole, flags, counts, history>>

(* records_under("") is read once, before the first utime.                 *)
FixStart ==
  /\ epc = "fix"
  /\ epc' = "fixing"
  /\ fixes' = {d \in Dirs : status[d] \notin {"none", "success"} /\ timed[d]}
  /\ UNCHANGED <<fixLeaves, table, dirTime, dying>>

(* Not a directory at the destination: continue.  Else utime, one commit.  *)
FixDir(d) ==
  /\ epc = "fixing" /\ d \in fixes
  /\ fixes' = fixes \ {d}
  /\ \/ dirTime[d] = "absent" /\ UNCHANGED <<status, dirTime>>
     \/ /\ dirTime[d] # "absent"
        /\ dirTime' = [dirTime EXCEPT ![d] = "source"]
        /\ Mark(d, "success")
     \/ dirTime[d] # "absent" /\ Mark(d, "failed") /\ UNCHANGED dirTime
  /\ UNCHANGED <<fixLeaves, timed, epc, dying>>

(* dest_dir.is_dir() raises: what is left to visit is not visited.         *)
FixRaises ==
  /\ DestFaults
  /\ epc = "fixing" /\ fixes # {}
  /\ fixes' = {}
  /\ dying' = TRUE
  /\ UNCHANGED <<fixLeaves, table, dirTime, epc>>

(* The pass is over; an exception takes the program down, and what was in  *)
(* memory with it.                                                         *)
PassEnds ==
  /\ epc = "fixing" /\ fixes = {}
  /\ epc' = "off" /\ cur' = None /\ dying' = FALSE
  /\ outcome' = IF dying THEN "none" ELSE outcome
  /\ quitting' = (quitting /\ ~dying)
  /\ UNCHANGED <<call, last, dest, table, disk, walk, stop, pause, counts, history>>

-------------------------------------------------------------------------------
(* Keys, and the world                                                     *)

keyLeaves == <<copyCall, disk, epc, cur, walk, dying, passes, crashes, losses,
               event, unlisted, copied>>

(* "p" while a pass runs.                                                  *)
TogglePause ==
  /\ epc # "off"
  /\ pause' = ~pause
  /\ late' = 0
  /\ UNCHANGED <<keyLeaves, table, stop, quitting, retries, requeued>>

(* "r", at any time: reset_failed_to_pending.                              *)
RetryFailed ==
  /\ retries < MaxRetries
  /\ retries' = retries + 1
  /\ status' = [x \in Paths |-> IF status[x] = "failed" THEN "pending" ELSE status[x]]
  /\ requeued' = requeued \cup {x \in Paths : status[x] = "failed"}
  /\ UNCHANGED <<keyLeaves, timed, flags, late>>

(* "q": stop_event.set(); without a pass, no other key is handled after.   *)
Quit ==
  /\ ~stop /\ ~quitting
  /\ stop' = TRUE /\ quitting' = (epc # "off")
  /\ UNCHANGED <<keyLeaves, table, pause, retries, requeued, late>>

(* The program dies, workers included, and is started again on the same    *)
(* state file: only the table and the destination are left.                *)
Crash ==
  /\ crashes < MaxCrashes
  /\ crashes' = crashes + 1
  /\ epc' = "off" /\ cur' = None /\ dying' = FALSE
  /\ call' = None /\ outcome' = "none"
  /\ dirsLeft' = {} /\ entries' = {} /\ fixes' = {} /\ whole' = FALSE
  /\ stop' = FALSE /\ pause' = FALSE /\ quitting' = FALSE
  /\ event' = [x \in Entries |-> "none"] /\ unlisted' = {} /\ requeued' = {}
  /\ UNCHANGED <<last, dest, table, disk, passes, retries, losses, late, copied>>

(* The copy thread is about to list a directory of the source, to lstat,   *)
(* to stat or to readlink a file of it.                                    *)
OnSource == (epc = "list" /\ dirsLeft # {}) \/ epc \in {"start", "unlink"}

(* The disk does not answer such a call.  What the copy thread waits for   *)
(* nobody can end: no timeout, no stop_event and no shutdown reaches it.   *)
Hang ==
  /\ SourceHangs
  /\ OnSource
  /\ Move("hung")

(* Somebody removes or replaces a copied file between two passes.          *)
LoseCopy(f) ==
  /\ losses < MaxLosses /\ epc = "off"
  /\ dest[f] # NoFile
  /\ losses' = losses + 1
  /\ \E c \in {NoFile, Foreign} : dest' = [dest EXCEPT ![f] = c]
  /\ copied' = copied \ {f}
  /\ event' = [event EXCEPT ![f] = "none"]
  /\ dirTime' = [dirTime EXCEPT ![In[f]] = "touched"]
  /\ UNCHANGED <<call, last, outcome, table, link, epc, cur, walk, dying, flags,
                 passes, crashes, retries, unlisted, requeued, late>>

-------------------------------------------------------------------------------
(* The copy thread by itself; there is no step once it is hung.            *)
Engine ==
  \/ \E d \in Dirs : ListFails(d) \/ ListStopped(d) \/ List(d) \/ FixDir(d)
  \/ \E x \in Entries : NextFile(x)
  \/ DestRaises \/ FilesStopped \/ DirDone \/ WalkDone
  \/ EnterSymlink \/ EnterSpecial \/ StatFails \/ NeedsCopy \/ AlreadyDone
  \/ MarkStatFailed \/ MarkSpecial \/ Unlink \/ Symlink \/ SymlinkFails
  \/ MarkInProgress \/ BeginCopy \/ CopyRaises \/ Record
  \/ \E o \in Copy!Outcome : CopyReturns(o)
  \/ FixStart \/ FixRaises \/ PassEnds

Next ==
  \/ StartPass
  \/ Engine
  \/ Publish
  \/ TogglePause \/ RetryFailed \/ Quit
  \/ Hang
  \/ Crash
  \/ \E f \in Files : LoseCopy(f)

Spec == Init /\ [][Next]_vars

(* The copy thread runs unless it is hung, and copy_file returns:          *)
(* CallReturns of CopySupervisor.  The destination, the state file and the *)
(* event loop, which serves its callbacks, are taken to answer; what may   *)
(* keep the event loop from it is in StatusTree.  Nothing is assumed of    *)
(* the source disk or of the user.                                         *)
FairSpec == Spec /\ WF_vars(Engine)

-------------------------------------------------------------------------------
(* Properties                                                              *)

(* A row says "success" only of a file whose copy is whole, through every  *)
(* interleaving of keys and every death of the program, unless somebody    *)
(* has since touched the copy: copy_file, then mark_success.               *)
SuccessHasCopy ==
  \A f \in Files :
    status[f] = "success" => dest[f] = Size[f] \/ f \notin copied

(* What the pass reports as copied is there, a copy lost before the pass   *)
(* included: the already_done test looks at the destination too.  Only a   *)
(* replacement of the same size passes for the copy.                       *)
ReportHonest ==
  /\ \A f \in Files :
       /\ event[f] = "success" => dest[f] = Size[f]
       /\ event[f] = "already_done" =>
            dest[f] = Size[f] \/ (dest[f] = Foreign /\ f \notin copied)
  /\ \A x \in Links : event[x] = "success" => link[x]

(* x and every directory above it has been listed in this pass.            *)
Reached(x) == \A d \in unlisted : ~Contains(d, x)

(* The row a pass must leave for an event; "r" may have reset a failure.   *)
RowOf(e) == CASE e \in {"success", "already_done"} -> "success"
              [] e \in {"aborted", "skipped"} -> "skipped"
              [] e = "failed" -> "failed"
              [] e = "none" -> "none"

(* When a walk has come to its end, every selected file under directories  *)
(* that could be listed has been reported, its row agrees with the report, *)
(* and nothing is left pending or in progress but what "r" has requeued;   *)
(* what is not selected was never touched: nothing is lost or invented     *)
(* between the pruning of _walk_and_copy and the branches of _copy_one.    *)
EveryFileAccounted ==
  whole /\ epc = "off" =>
    /\ \A x \in Selected \cap Entries :
         Reached(x) /\ (x \in Files => losses = 0) =>
           \/ event[x] # "none" /\ status[x] = RowOf(event[x])
           \/ event[x] = "failed" /\ x \in requeued /\ status[x] = "pending"
    /\ \A x \in Entries \ Selected : status[x] = "none"

(* Pausing "finishes the file in flight first" (README.md:86): at most one *)
(* more file is begun, the one that was past the test of pause_event.      *)
AtMostOneStartAfterPause == late <= 1

(* The timestamps of the directories are fixed at the end, when nothing    *)
(* below is written any more: after the first pass a directory whose row   *)
(* says "success" has the time of its source.                              *)
DirTimesAfterFirstPass ==
  whole /\ epc = "off" /\ passes = 1 /\ losses = 0 =>
    \A d \in Dirs : status[d] = "success" => dirTime[d] = "source"

(* A pass comes to its end, whatever fails, unless the user pauses it or a *)
(* system call of the copy thread on the source never returns: no branch   *)
(* of the walk, of _copy_one or of the finally leaves it waiting for       *)
(* anything else (copier.py:62-68, 97-134).                                *)
PassTerminates == epc # "off" ~> epc = "off" \/ pause \/ epc = "hung"

(* A pass that is told to stop ends, paused or not, unless it hangs so;    *)
(* and one told between two files ends in any case: on the way out nothing *)
(* asks the source any more (copier.py:117-121, 273-296).                  *)
StopEndsPaused ==
  /\ stop /\ epc # "off" ~> epc = "off" \/ epc = "hung"
  /\ stop /\ epc = "files" /\ entries # {} ~> epc = "off"

-------------------------------------------------------------------------------
(* What the repository says and the code does not do                       *)

(* state_db.py:3-5, resumed "without ... losing track of failures": a      *)
(* directory that could not be listed is still a failure when the pass is  *)
(* over, unless "r" has requeued it.                                       *)
FailuresKept ==
  whole /\ epc = "off" =>
    \A d \in unlisted : status[d] = "failed" \/ d \in requeued
===============================================================================
