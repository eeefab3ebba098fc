---------------------------- MODULE CopySupervisor ----------------------------
(***************************************************************************)
(* The killable copy worker of src/salvage/worker.py and the two threads   *)
(* of src/salvage/app.py that drive its supervisor:                        *)
(*                                                                         *)
(*   - worker processes running _worker_main: one task at a time, chunk by *)
(*     chunk into <dest>.salvage-tmp, then os.replace onto <dest>;         *)
(*   - the copy thread: CopyEngine.run -> start, copy_file for one file    *)
(*     after another, with its stall, abort and dead-worker branches;      *)
(*   - the thread that quits: sets stop_event and calls shutdown, at the   *)
(*     same time as the copy thread is anywhere inside copy_file.          *)
(*                                                                         *)
(* A process is in uninterruptible sleep when the drive hangs: SIGTERM and *)
(* SIGKILL then stay pending, the joins of _kill time out, and the process *)
(* is "doomed": still alive for is_alive(), but it runs no code any more.  *)
(*                                                                         *)
(* Data are abstract: a file is Size[f] chunks; the content of a path is   *)
(* NoFile, the number of leading chunks of the source it holds, or Foreign *)
(* (anything else).  Messages carry the file they are about as a ghost,    *)
(* which the code's tuples do not: no guard of the copy thread reads it.   *)
(***************************************************************************)
EXTENDS Naturals, Sequences, FiniteSets

CONSTANTS
  Files,          \* the regular files of the source tree
  Workers,        \* process identities, reused once dead and unreferenced
  Size,           \* Size[f] is the number of chunks of f
  NoFile,         \* there is no file at the path
  Foreign,        \* bytes that are no prefix of the source
  None,           \* no process, no file
  Leftovers,      \* files with a temporary file from an earlier run
  DestFaults,     \* may unlink and rename fail on the destination?
  MaxPasses,      \* bound: copy passes started
  MaxUnkillable   \* bound: processes doomed at the same time

ASSUME ContentAssumption ==
  /\ NoFile \notin Nat
  /\ Foreign \notin Nat
  /\ NoFile # Foreign
ASSUME FilesAssumption ==
  /\ Files # {}
  /\ Size \in [Files -> Nat]
  /\ Leftovers \subseteq Files
ASSUME NoneAssumption == None \notin Workers \cup Files
ASSUME BoundsAssumption ==
  /\ DestFaults \in BOOLEAN
  /\ MaxPasses \in Nat
  /\ MaxUnkillable \in Nat

VARIABLES
  proc,      \* self._proc: the current process, or None
  queues,    \* whose queues self._task_q and self._result_q are
  closed,    \* the parent has closed those queues
  taskQ,     \* taskQ[w]: tasks sent to w
  resultQ,   \* resultQ[w]: messages sent by w
  wpc,       \* where process w is in _worker_main
  wfile,     \* the file w is copying, or None
  wdone,     \* chunks w has written of it
  tmp,       \* tmp[f]: content of <dest>.salvage-tmp
  dest,      \* dest[f]: content of <dest>
  cpc,       \* where the copy thread is in copy_file
  resume,    \* where _spawn, and then _kill_and_respawn, return to
  cfile,     \* the file of the latest copy_file call
  outcome,   \* CopyOutcome.status of the latest call, "none" before it ends
  verdict,   \* the status to return when _kill_and_respawn is done
  spc,       \* where the quitting thread is in shutdown
  inline,    \* shutdown runs on the main thread: no key is handled
  stop,      \* stop_event
  passes     \* copy passes started

processVars == <<taskQ, resultQ, wpc, wfile, wdone>>
diskVars == <<tmp, dest>>
copyVars == <<cpc, resume, cfile, outcome, verdict>>
quitVars == <<spc, inline>>
handles == <<proc, queues, closed>>
vars == <<handles, processVars, diskVars, copyVars, quitVars, stop, passes>>

Content == Nat \cup {NoFile, Foreign}
Stop == None                  \* _STOP; any other task is the file to copy
Task == Files \cup {Stop}
Message == [kind : {"progress", "done", "error"}, file : Files]

WorkerPc == {"dead", "idle", "open", "copy", "report", "except", "doomed"}
CopyPc == {"off", "walk", "ensure", "put", "check", "get", "poll", "empty",
           "kill", "clean", "queues", "process", "fork"}
ShutdownPc == {"off", "test", "put", "join", "kill", "terminate", "reap",
               "check", "sigkill", "reaped", "close", "done", "raised"}

(* The copy thread is inside copy_file.                                    *)
InCall ==
  \/ cpc \in {"ensure", "put", "check", "get", "poll", "empty", "kill", "clean"}
  \/ cpc \in {"queues", "process", "fork"} /\ resume # "start"

Busy(w) == wpc[w] \in {"open", "copy", "report", "except"}

(* Process.is_alive(): a doomed process has not been reaped, one that has  *)
(* not been started yet is not alive.                                      *)
Alive(w) == w # None /\ wpc[w] # "dead"

(* self._proc is a Process that _spawn has not started yet.                *)
Unstarted == cpc = "fork"

Doomed == {w \in Workers : wpc[w] = "doomed"}

TypeOK ==
  /\ proc \in Workers \cup {None}
  /\ queues \in Workers \cup {None}
  /\ closed \in BOOLEAN
  /\ taskQ \in [Workers -> Seq(Task)]
  /\ resultQ \in [Workers -> Seq(Message)]
  /\ wpc \in [Workers -> WorkerPc]
  /\ wfile \in [Workers -> Files \cup {None}]
  /\ wdone \in [Workers -> Nat]
  /\ tmp \in [Files -> Content]
  /\ dest \in [Files -> Content]
  /\ cpc \in CopyPc
  /\ resume \in {"start", "put", "return"}
  /\ cfile \in Files
  /\ outcome \in {"none", "success", "failed", "aborted", "raised"}
  /\ verdict \in {"failed", "aborted"}
  /\ spc \in ShutdownPc
  /\ inline \in BOOLEAN
  /\ stop \in BOOLEAN
  /\ passes \in 0 .. MaxPasses

Init ==
  /\ proc = None
  /\ queues = None
  /\ closed = FALSE
  /\ taskQ = [w \in Workers |-> <<>>]
  /\ resultQ = [w \in Workers |-> <<>>]
  /\ wpc = [w \in Workers |-> "dead"]
  /\ wfile = [w \in Workers |-> None]
  /\ wdone = [w \in Workers |-> 0]
  /\ tmp = [f \in Files |-> IF f \in Leftovers THEN Foreign ELSE NoFile]
  /\ dest \in [Files -> {NoFile, Foreign}]
  /\ cpc = "off"
  /\ resume = "start"
  /\ cfile \in Files
  /\ outcome = "none"
  /\ verdict = "failed"
  /\ spc = "off"
  /\ inline = FALSE
  /\ stop = FALSE
  /\ passes = 0

-------------------------------------------------------------------------------
(* Processes                                                               *)

(* What process w has in hand is gone: its locals mean nothing any more.   *)
DropTask(w) ==
  /\ wfile' = [wfile EXCEPT ![w] = None]
  /\ wdone' = [wdone EXCEPT ![w] = 0]

(* A mutant: the queues are closed, the process is left to itself.         *)
TerminateNothing(w) == UNCHANGED <<wpc, resultQ, wfile, wdone>>

(* terminate, join, kill, join: w is dead, or it sleeps in a system call   *)
(* and both joins have timed out.  Messages still in the buffer of its     *)
(* feeder thread, a suffix of what it has put, are lost with it.           *)
Terminate(w) ==
  IF ~Alive(w) \/ w \in Doomed
  THEN UNCHANGED <<wpc, resultQ, wfile, wdone>>
  ELSE /\ \/ wpc' = [wpc EXCEPT ![w] = "dead"]
          \/ /\ wpc[w] \in {"open", "copy"}
             /\ Cardinality(Doomed) < MaxUnkillable
             /\ wpc' = [wpc EXCEPT ![w] = "doomed"]
       /\ DropTask(w)
       /\ \E n \in 0 .. Len(resultQ[w]) :
            resultQ' = [resultQ EXCEPT ![w] = SubSeq(@, 1, n)]

Send(w, kind) ==
  resultQ' = [resultQ EXCEPT ![w] = Append(@, [kind |-> kind, file |-> wfile[w]])]

workerLeaves == <<handles, copyVars, quitVars, stop, passes>>

(* task_q.get(): the process leaves on ("stop",), else starts on the task. *)
WorkerGet(w) ==
  /\ wpc[w] = "idle"
  /\ taskQ[w] # <<>>
  /\ taskQ' = [taskQ EXCEPT ![w] = Tail(@)]
  /\ IF Head(taskQ[w]) = Stop
     THEN wpc' = [wpc EXCEPT ![w] = "dead"] /\ UNCHANGED wfile
     ELSE /\ wpc' = [wpc EXCEPT ![w] = "open"]
          /\ wfile' = [wfile EXCEPT ![w] = Head(taskQ[w])]
  /\ UNCHANGED <<workerLeaves, resultQ, wdone, diskVars>>

(* open(src, "rb"), then open(tmp, "wb"), which truncates.                 *)
WorkerOpen(w) ==
  /\ wpc[w] = "open"
  /\ wpc' = [wpc EXCEPT ![w] = "copy"]
  /\ wdone' = [wdone EXCEPT ![w] = 0]
  /\ tmp' = [tmp EXCEPT ![wfile[w]] = 0]
  /\ UNCHANGED <<workerLeaves, taskQ, resultQ, wfile, dest>>

(* What a write after the first n chunks leaves under the temporary name:  *)
(* nothing if the name is gone, and other bytes if somebody else wrote.    *)
Written(content, n) ==
  IF content = n THEN n + 1 ELSE IF content = NoFile THEN NoFile ELSE Foreign

(* A mutant: a short read is taken for the end of the file.                *)
AtEofAlways(w) == TRUE

(* An empty read.                                                          *)
AtEof(w) == wdone[w] = Size[wfile[w]]

(* One read, one write, one ("progress", total).                           *)
WorkerChunk(w) ==
  /\ wpc[w] = "copy"
  /\ ~AtEof(w)
  /\ wdone' = [wdone EXCEPT ![w] = @ + 1]
  /\ tmp' = [tmp EXCEPT ![wfile[w]] = Written(@, wdone[w])]
  /\ Send(w, "progress")
  /\ UNCHANGED <<workerLeaves, taskQ, wpc, wfile, dest>>

(* A mutant: nothing is renamed.                                           *)
ReplaceNothing(f) == UNCHANGED diskVars

(* os.replace(tmp, dest)                                                   *)
Replace(f) ==
  /\ tmp[f] # NoFile
  /\ dest' = [dest EXCEPT ![f] = tmp[f]]
  /\ tmp' = [tmp EXCEPT ![f] = NoFile]

WorkerReplace(w) ==
  /\ wpc[w] = "copy"
  /\ AtEof(w)
  /\ Replace(wfile[w])
  /\ wpc' = [wpc EXCEPT ![w] = "report"]
  /\ UNCHANGED <<workerLeaves, taskQ, resultQ, wfile, wdone>>

WorkerDone(w) ==
  /\ wpc[w] = "report"
  /\ Send(w, "done")
  /\ wpc' = [wpc EXCEPT ![w] = "idle"]
  /\ DropTask(w)
  /\ UNCHANGED <<workerLeaves, taskQ, diskVars>>

(* open, read, write or replace raises an OSError.                         *)
WorkerFails(w) ==
  /\ wpc[w] \in {"open", "copy"}
  /\ wpc' = [wpc EXCEPT ![w] = "except"]
  /\ UNCHANGED <<workerLeaves, taskQ, resultQ, wfile, wdone, diskVars>>

(* A mutant: the temporary file stays where it is.                         *)
RemoveNothing(f) == UNCHANGED tmp

(* os.remove(f's temporary file) if it exists; an OSError is swallowed.    *)
RemoveTmp(f) ==
  \/ tmp' = [tmp EXCEPT ![f] = NoFile]
  \/ DestFaults /\ tmp' = tmp

(* The except branch: remove the temporary file, put ("error", ...).       *)
WorkerExcept(w) ==
  /\ wpc[w] = "except"
  /\ RemoveTmp(wfile[w])
  /\ Send(w, "error")
  /\ wpc' = [wpc EXCEPT ![w] = "idle"]
  /\ DropTask(w)
  /\ UNCHANGED <<workerLeaves, taskQ, dest>>

(* The process dies by itself (OOM killer, bus error on a bad mapping).    *)
WorkerDies(w) ==
  /\ wpc[w] \notin {"dead", "doomed"}
  /\ Terminate(w)
  /\ wpc'[w] = "dead"
  /\ UNCHANGED <<workerLeaves, taskQ, diskVars>>

(* The system call a doomed process slept in returns: the signal acts.     *)
DoomedDies(w) ==
  /\ wpc[w] = "doomed"
  /\ wpc' = [wpc EXCEPT ![w] = "dead"]
  /\ UNCHANGED <<workerLeaves, taskQ, resultQ, wfile, wdone, diskVars>>

Worker(w) ==
  \/ WorkerGet(w) \/ WorkerOpen(w) \/ WorkerChunk(w) \/ WorkerReplace(w)
  \/ WorkerDone(w) \/ WorkerFails(w) \/ WorkerExcept(w)
  \/ WorkerDies(w) \/ DoomedDies(w)

-------------------------------------------------------------------------------
(* The copy thread                                                         *)

copyLeaves == <<quitVars, stop, passes>>
inSupervisor == <<handles, processVars, diskVars>>

(* A step of the copy thread that only moves on.                           *)
Goto(from, to) ==
  /\ cpc = from
  /\ cpc' = to
  /\ UNCHANGED <<inSupervisor, resume, cfile, outcome, verdict, copyLeaves>>

(* "c": stop_event.clear(), then CopyEngine.run calls supervisor.start(),  *)
(* which spawns without looking at the process of the pass before.         *)
StartPass ==
  /\ cpc = "off"
  /\ outcome # "raised"
  /\ ~inline /\ spc # "done"
  /\ passes < MaxPasses
  /\ passes' = passes + 1
  /\ stop' = FALSE
  /\ cpc' = "queues"
  /\ resume' = "start"
  /\ UNCHANGED <<inSupervisor, cfile, outcome, verdict, quitVars>>

(* The walk has come to its end, or a stop check of the walk returns.      *)
EndPass == Goto("walk", "off")

Call(f) ==
  /\ cpc = "walk"
  /\ cpc' = "ensure"
  /\ cfile' = f
  /\ outcome' = "none"
  /\ UNCHANGED <<inSupervisor, resume, verdict, copyLeaves>>

(* A mutant: the loop over the files does not look at stop_event.          *)
CallCopyStopped(f) == Call(f)

(* The engine found stop_event clear and calls copy_file for f.            *)
CallCopy(f) == ~stop /\ Call(f)

(* if self._proc is None or not alive: _spawn()                            *)
Ensure ==
  /\ cpc = "ensure"
  /\ IF Alive(proc)
     THEN cpc' = "put" /\ UNCHANGED resume
     ELSE cpc' = "queues" /\ resume' = "put"
  /\ UNCHANGED <<inSupervisor, cfile, outcome, verdict, copyLeaves>>

(* A mutant: a respawn keeps what is in the result queue.                  *)
OldResults(w) == [v \in Workers |-> IF v = w /\ queues # None
                                   THEN resultQ[queues] ELSE <<>>]

(* The result queues when w has got a new one.                             *)
NewResults(w) == [v \in Workers |-> <<>>]

(* _spawn: two new queues take the place of the old ones, of which the old *)
(* task queue alone may still have a reader...                             *)
NewQueues ==
  /\ cpc = "queues"
  /\ \E w \in Workers :
       /\ wpc[w] = "dead" /\ w \notin {proc, queues}
       /\ queues' = w
       /\ taskQ' = [v \in Workers |-> IF wpc[v] = "dead" THEN <<>> ELSE taskQ[v]]
       /\ resultQ' = NewResults(w)
  /\ closed' = FALSE
  /\ cpc' = "process"
  /\ UNCHANGED <<proc, wpc, wfile, wdone, diskVars, resume, cfile, outcome,
                 verdict, copyLeaves>>

(* ... a Process object that any thread can see takes the place of the old *)
(* one...                                                                  *)
NewProcess ==
  /\ cpc = "process"
  /\ proc' = queues
  /\ cpc' = "fork"
  /\ UNCHANGED <<queues, closed, processVars, diskVars, resume, cfile, outcome,
                 verdict, copyLeaves>>

(* ... and is started, with working queues even if the parent has closed   *)
(* its own ends meanwhile.  Then _spawn returns to run, to copy_file or,   *)
(* through _kill_and_respawn, out of copy_file.                            *)
Fork ==
  /\ cpc = "fork"
  /\ wpc' = [wpc EXCEPT ![queues] = "idle"]
  /\ cpc' = IF resume = "put" THEN "put" ELSE "walk"
  /\ outcome' = IF resume = "return" THEN verdict ELSE outcome
  /\ resume' = "start" /\ verdict' = "failed"   \* set before they are read again
  /\ UNCHANGED <<handles, taskQ, resultQ, wfile, wdone, diskVars, cfile,
                 copyLeaves>>

(* A queue the quitting thread has closed: ValueError leaves copy_file and *)
(* the pass; the application goes down with it.                            *)
Raise ==
  /\ cpc \in {"put", "get"}
  /\ closed
  /\ cpc' = "off"
  /\ outcome' = "raised"
  /\ UNCHANGED <<inSupervisor, resume, cfile, verdict, copyLeaves>>

(* self._task_q.put(("copy", src, dest, chunk_size))                       *)
Put ==
  /\ cpc = "put"
  /\ ~closed
  /\ taskQ' = [taskQ EXCEPT ![queues] = Append(@, cfile)]
  /\ cpc' = "check"
  /\ UNCHANGED <<handles, resultQ, wpc, wfile, wdone, diskVars, resume, cfile,
                 outcome, verdict, copyLeaves>>

GiveUp(status) ==
  /\ cpc' = "kill"
  /\ verdict' = status
  /\ UNCHANGED <<inSupervisor, resume, cfile, outcome, copyLeaves>>

(* A mutant: an aborted call returns, its worker still at work.            *)
AbortAtOnce ==
  /\ cpc = "check"
  /\ stop
  /\ cpc' = "walk"
  /\ outcome' = "aborted"
  /\ UNCHANGED <<inSupervisor, resume, cfile, verdict, copyLeaves>>

Abort == cpc = "check" /\ stop /\ GiveUp("aborted")

(* A mutant: a process that is alive is given all the time it wants.       *)
StallIfDead == cpc = "check" /\ ~stop /\ ~Alive(proc) /\ GiveUp("failed")

(* A mutant: what the stall gives up is reported as aborted.               *)
StallAborted == cpc = "check" /\ ~stop /\ GiveUp("aborted")

(* No progress message since the deadline was set.                         *)
Stall == cpc = "check" /\ ~stop /\ GiveUp("failed")

KeepWaiting == ~stop /\ Goto("check", "get")

(* get() has found its queue open; closing it now does not wake it.        *)
Get == ~closed /\ Goto("get", "poll")

(* A mutant: the kind of the message is returned as the status.            *)
AnswerKind(kind) == kind

Answer(kind) == IF kind = "done" THEN "success" ELSE "failed"

Receive ==
  /\ cpc = "poll"
  /\ resultQ[queues] # <<>>
  /\ resultQ' = [resultQ EXCEPT ![queues] = Tail(@)]
  /\ LET kind == Head(resultQ[queues]).kind IN
       IF kind = "progress"
       THEN cpc' = "check" /\ UNCHANGED outcome
       ELSE cpc' = "walk" /\ outcome' = Answer(kind)
  /\ UNCHANGED <<handles, taskQ, wpc, wfile, wdone, diskVars, resume, cfile,
                 verdict, copyLeaves>>

(* queue.Empty: what the process has put may still be in its own buffer.   *)
PollTimesOut == Goto("poll", "empty")

PollAgain == Alive(proc) /\ Goto("empty", "check")

WorkerFoundDead == cpc = "empty" /\ ~Alive(proc) /\ GiveUp("failed")

CloseQueues == closed' = (queues # None)

(* _kill(), inside _kill_and_respawn.                                      *)
Kill ==
  /\ cpc = "kill"
  /\ Terminate(proc)
  /\ CloseQueues
  /\ cpc' = "clean"
  /\ UNCHANGED <<proc, queues, taskQ, diskVars, resume, cfile, outcome, verdict,
                 copyLeaves>>

(* The rest of _kill_and_respawn: remove the temporary file, _spawn().     *)
Clean ==
  /\ cpc = "clean"
  /\ RemoveTmp(cfile)
  /\ cpc' = "queues"
  /\ resume' = "return"
  /\ UNCHANGED <<handles, processVars, dest, cfile, outcome, verdict, copyLeaves>>

(* What the code of copy_file does by itself, once it has been called.     *)
CopyThread ==
  \/ Ensure \/ NewQueues \/ NewProcess \/ Fork \/ Raise \/ Put \/ Abort \/ KeepWaiting
  \/ Get \/ Receive \/ PollTimesOut \/ PollAgain \/ WorkerFoundDead \/ Kill \/ Clean

-------------------------------------------------------------------------------
(* The thread that quits                                                   *)

quitLeaves == <<copyVars, diskVars, proc, queues, passes, inline, stop>>

(* "q": stop_event.set(); shutdown runs in a thread of its own while a     *)
(* pass is running, else on the main thread, which then handles no key.    *)
(* The key works again after a shutdown that has raised.                   *)
Quit ==
  /\ spc \in {"off", "raised"}
  /\ outcome # "raised"
  /\ stop' = TRUE
  /\ inline' = (cpc = "off")
  /\ spc' = "test"
  /\ UNCHANGED <<inSupervisor, copyVars, passes>>

(* A step of the quitting thread that only moves on.  Each looks self._proc *)
(* up again: the copy thread may have put another process there.           *)
QuitGoto(from, to) ==
  /\ spc = from
  /\ spc' = to
  /\ UNCHANGED <<quitLeaves, processVars, closed>>

(* The is_alive() at the head of shutdown and the two of _kill.            *)
ShutdownTest ==
  \/ QuitGoto("test", IF Alive(proc) THEN "put" ELSE "kill")
  \/ QuitGoto("kill", IF Alive(proc) THEN "terminate" ELSE "close")
  \/ QuitGoto("check", IF Alive(proc) THEN "sigkill" ELSE "close")

(* self._task_q.put(_STOP): a closed queue raises a ValueError, which is   *)
(* swallowed together with the join.                                       *)
ShutdownPut ==
  /\ spc = "put"
  /\ IF closed
     THEN spc' = "kill" /\ UNCHANGED taskQ
     ELSE /\ spc' = "join"
          /\ taskQ' = [taskQ EXCEPT ![queues] = Append(@, Stop)]
  /\ UNCHANGED <<quitLeaves, resultQ, wpc, wfile, wdone, closed>>

(* join() of an unstarted process raises an AssertionError, terminate()    *)
(* and kill() an AttributeError: no handler takes them, the thread ends.   *)
Touched(to) == IF Unstarted THEN "raised" ELSE to

(* The join of shutdown and the two of _kill, each with a timeout.         *)
ShutdownJoin ==
  \/ QuitGoto("join", Touched("kill"))
  \/ QuitGoto("reap", Touched("check"))
  \/ QuitGoto("reaped", Touched("close"))

(* terminate(), then kill() of what is still alive after the join.         *)
ShutdownSignal ==
  /\ spc \in {"terminate", "sigkill"}
  /\ spc' = Touched(IF spc = "terminate" THEN "reap" ELSE "reaped")
  /\ IF Unstarted
     THEN UNCHANGED <<wpc, resultQ, wfile, wdone>>
     ELSE Terminate(proc)
  /\ UNCHANGED <<quitLeaves, taskQ, closed>>

(* The queues that are the current ones after the joins.                   *)
ShutdownClose ==
  /\ spc = "close"
  /\ spc' = "done"
  /\ CloseQueues
  /\ UNCHANGED <<quitLeaves, processVars>>

Shutdown ==
  ShutdownTest \/ ShutdownPut \/ ShutdownJoin \/ ShutdownSignal \/ ShutdownClose

-------------------------------------------------------------------------------
Next ==
  \/ StartPass
  \/ EndPass
  \/ \E f \in Files : CallCopy(f)
  \/ CopyThread
  \/ Stall
  \/ Quit
  \/ Shutdown
  \/ \E w \in Workers : Worker(w)

Spec == Init /\ [][Next]_vars

(* The copy thread and the quitting thread run whenever they can; nothing  *)
(* is assumed of the worker processes, whose reads may hang for ever, or   *)
(* of the user.  The walk ends after a stop.  A file's progress messages   *)
(* are finitely many and time.monotonic() advances: a copy_file that comes *)
(* back to its deadline again and again finds it passed.                   *)
(*                                                                         *)
(* That the walk ends after a stop leaves out one thing: a system call of  *)
(* the copy thread itself on the source that never returns.  It is what    *)
(* CopyEngine!Hang is about.                                               *)
FairSpec ==
  /\ Spec
  /\ WF_vars(CopyThread)
  /\ SF_vars(Stall)
  /\ WF_vars(stop /\ EndPass)
  /\ WF_vars(Shutdown)

-------------------------------------------------------------------------------
(* Properties                                                              *)

(* A call that answered "success" left the whole source file at the        *)
(* destination: CopyEngine._copy_one records the file as copied on the     *)
(* strength of this answer alone (copier.py:233-239).                      *)
SuccessIsComplete == outcome = "success" => dest[cfile] = Size[cfile]

(* Whatever is killed and whenever, a destination path never shows a part  *)
(* of a file: it keeps what it held or gets the whole file (worker.py:54). *)
DestNeverPartial ==
  [][\A f \in Files : dest'[f] # dest[f] => dest'[f] = Size[f]]_vars

(* The messages carry no task identity, so copy_file takes any "done" for  *)
(* its own (worker.py:181): what is in the queue it reads from must be     *)
(* about the file it was called for, also after stalls and restarts.       *)
NoStaleAnswer ==
  cpc \in {"check", "get", "poll", "empty"} =>
    \A i \in DOMAIN resultQ[queues] : resultQ[queues][i].file = cfile

(* No process writes for a call that has returned, nor do two write: an    *)
(* abandoned worker would share <dest>.salvage-tmp with its successor.     *)
AtMostOneWriter ==
  outcome # "raised" =>
    \A w \in Workers : Busy(w) =>
      /\ w = proc
      /\ InCall
      /\ wfile[w] = cfile

(* Where unlink works, no call that returned leaves a temporary file       *)
(* behind (worker.py:57-61, 121-126), except those of earlier runs.        *)
NoLitter ==
  (~DestFaults /\ ~InCall /\ outcome # "raised") =>
    \A f \in Files \ Leftovers : tmp[f] = NoFile

(* copy_file says "aborted" only to a pass that is being stopped, at the   *)
(* end of _kill_and_respawn as at its beginning, and raises only after a   *)
(* shutdown has closed the queues, be it under a pass begun since: what    *)
(* AtomicCopy leaves open and CopyEngine relies on (worker.py:152-154).    *)
AnswersHaveCause ==
  [][outcome' # outcome =>
       /\ outcome' = "aborted" => stop
       /\ outcome' = "raised" => spc = "done"]_vars

(* copy_file returns whatever the worker does: wedged in a read, dead, or  *)
(* killed under it by the quitting thread (worker.py:151-184).             *)
CallReturns == InCall ~> ~InCall

(* A stop reaches the pass from wherever it is, unless it is taken back by *)
(* a new pass (app.py:97, 141; copier.py:117-121; worker.py:152).          *)
StopEndsPass == stop ~> (cpc = "off" \/ ~stop)

(* The detailed specification keeps the promise of AtomicCopy.             *)
Abstract ==
  INSTANCE AtomicCopy WITH
    call <- IF InCall THEN cfile ELSE None,
    last <- cfile,
    outcome <- IF InCall THEN "none" ELSE outcome

RefinesAtomicCopy == Abstract!Spec
===============================================================================
