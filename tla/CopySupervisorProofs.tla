------------------------- MODULE CopySupervisorProofs -------------------------
(***************************************************************************)
(* Theorems about CopySupervisor, for every set of files and processes,    *)
(* every file size and every bound: its types, SuccessIsComplete,          *)
(* NoStaleAnswer, AtMostOneWriter, NoLitter, DestNeverPartial and the      *)
(* refinement of AtomicCopy, from one inductive invariant and, for         *)
(* NoLitter, a second one on top of it (Swept).                            *)
(*                                                                         *)
(* SuccessIsComplete is not inductive: the "done" that copy_file takes for *)
(* its own must be about its own file, hence the queue it reads must hold  *)
(* no message of an earlier call, hence no earlier call may have left a    *)
(* task or a busy process behind the queues in use.  IInv says who may own *)
(* a task, and that one task is in one place only: in the task queue, with *)
(* the process, or answered.                                               *)
(***************************************************************************)
EXTENDS CopySupervisor, SequenceTheorems, TLAPS

WaitingPc == {"check", "get", "poll", "empty", "kill"}

(* A task may be under way: copy_file waits for its answer, or has raised. *)
Engaged == cpc \in WaitingPc \/ outcome = "raised"

(* w may still read its task queue, now or once it has been forked.        *)
Reads(w) ==
  wpc[w] \notin {"dead", "doomed"} \/ (cpc \in {"process", "fork"} /\ w = queues)

Handles ==
  /\ cpc # "process" => proc = queues
  /\ cpc \in {"process", "fork", "put", "clean"} \cup WaitingPc => queues \in Workers
  /\ cpc \in {"process", "fork"} => wpc[queues] = "dead"
  /\ outcome = "raised" => cpc = "off"

Ownership ==
  \A w \in Workers : Busy(w) => w = queues /\ wfile[w] = cfile /\ Engaged

(* A task nobody has begun: no other is queued behind it, no answer came.  *)
Tasks ==
  \A w \in Workers : \A i \in 1 .. Len(taskQ[w]) :
    taskQ[w][i] # Stop /\ Reads(w) =>
      /\ w = queues
      /\ taskQ[w][i] = cfile
      /\ Engaged
      /\ ~Busy(w)
      /\ resultQ[w] = <<>>
      /\ \A j \in 1 .. Len(taskQ[w]) : taskQ[w][j] # Stop => j = i

(* A message not yet received is about the file of the running call, and   *)
(* what ends the task comes last.                                          *)
Answers ==
  \A w \in Workers : \A i \in 1 .. Len(resultQ[w]) :
    /\ w = queues
    /\ resultQ[w][i].file = cfile
    /\ Engaged \/ cpc \in {"clean", "queues"}
    /\ resultQ[w][i].kind = "done" => dest[cfile] = Size[cfile]
    /\ resultQ[w][i].kind # "progress" => i = Len(resultQ[w]) /\ ~Busy(w)

Copies ==
  \A w \in Workers :
    /\ wpc[w] = "copy" => tmp[wfile[w]] = wdone[w]
    /\ wpc[w] = "report" => dest[wfile[w]] = Size[wfile[w]]

IInv ==
  /\ TypeOK
  /\ Handles
  /\ Ownership
  /\ Tasks
  /\ Answers
  /\ Copies
  /\ SuccessIsComplete

(* What Terminate(w) does to the processes, dead ones and None included:   *)
(* at most w stops, and messages are only lost, from the end of its queue. *)
Stopped(w) ==
  /\ wpc' \in [Workers -> WorkerPc]
  /\ resultQ' \in [Workers -> Seq(Message)]
  /\ wfile' \in [Workers -> Files \cup {None}]
  /\ wdone' \in [Workers -> Nat]
  /\ w \in Workers => wpc'[w] \in {"dead", "doomed"}
  /\ \A v \in Workers :
       /\ wpc'[v] # wpc[v] => wpc'[v] \in {"dead", "doomed"}
       /\ wpc[v] = "dead" => wpc'[v] = "dead"
       /\ wpc'[v] \notin {"dead", "doomed"} => wfile'[v] = wfile[v] /\ wdone'[v] = wdone[v]
       /\ resultQ[v] = <<>> => resultQ'[v] = <<>>
       /\ \A i \in 1 .. Len(resultQ'[v]) :
            /\ i \in 1 .. Len(resultQ[v])
            /\ resultQ'[v][i] = resultQ[v][i]
            /\ i = Len(resultQ[v]) => i = Len(resultQ'[v])

(* What terminate, join, kill, join do to one process: it is dead or doomed, *)
(* it has nothing in hand, and of its messages a prefix is left.           *)
LEMMA TerminateEffect ==
  ASSUME TypeOK, NEW w \in Workers \cup {None}, Terminate(w)
  PROVE  Stopped(w)
<1>1. CASE UNCHANGED <<wpc, resultQ, wfile, wdone>> /\ (~Alive(w) \/ w \in Doomed)
  BY <1>1, NoneAssumption DEF TypeOK, Alive, Doomed, Stopped
<1>2. CASE ~(~Alive(w) \/ w \in Doomed)
  <2>1. w \in Workers
    BY <1>2 DEF Alive
  <2>2. PICK n \in 0 .. Len(resultQ[w]) :
          resultQ' = [resultQ EXCEPT ![w] = SubSeq(@, 1, n)]
    BY <1>2 DEF Terminate
  <2>3. resultQ[w] \in Seq(Message)
    BY <2>1 DEF TypeOK
  <2>4. \A i \in 1 .. n : resultQ[w][i] \in Message
    BY <2>3, ElementOfSeq
  <2>5. /\ SubSeq(resultQ[w], 1, n) \in Seq(Message)
        /\ Len(SubSeq(resultQ[w], 1, n)) = n
        /\ \A i \in 1 .. n : SubSeq(resultQ[w], 1, n)[i] = resultQ[w][i]
    BY <2>2, <2>3, <2>4, SubSeqProperties, LenProperties
  <2>6. DropTask(w) /\ (wpc' = [wpc EXCEPT ![w] = "dead"] \/ wpc' = [wpc EXCEPT ![w] = "doomed"])
    BY <1>2 DEF Terminate
  <2>7. /\ wpc' \in [Workers -> WorkerPc]
        /\ wfile' \in [Workers -> Files \cup {None}]
        /\ wdone' \in [Workers -> Nat]
        /\ wpc[w] # "dead" /\ wpc'[w] \in {"dead", "doomed"}
        /\ \A v \in Workers : v # w => wpc'[v] = wpc[v] /\ wfile'[v] = wfile[v] /\ wdone'[v] = wdone[v]
    BY <1>2, <2>1, <2>6 DEF TypeOK, DropTask, WorkerPc, Alive
  <2>8. /\ resultQ' \in [Workers -> Seq(Message)]
        /\ \A v \in Workers :
             /\ resultQ[v] = <<>> => resultQ'[v] = <<>>
             /\ \A i \in 1 .. Len(resultQ'[v]) :
                  /\ i \in 1 .. Len(resultQ[v])
                  /\ resultQ'[v][i] = resultQ[v][i]
                  /\ i = Len(resultQ[v]) => i = Len(resultQ'[v])
    <3>1. \A v \in Workers : resultQ'[v] = IF v = w THEN SubSeq(resultQ[w], 1, n) ELSE resultQ[v]
      BY <2>2 DEF TypeOK
    <3>2. \A v \in Workers : Len(resultQ[v]) \in Nat
      BY LenProperties DEF TypeOK
    <3>4. resultQ[w] = <<>> => SubSeq(resultQ[w], 1, n) = <<>>
      BY <2>2, <2>5, EmptySeq
    <3>3. resultQ' \in [Workers -> Seq(Message)]
      BY <2>2, <2>5 DEF TypeOK
    <3> QED BY <2>2, <2>5, <3>1, <3>2, <3>3, <3>4
  <2> QED BY <2>7, <2>8 DEF Stopped
<1> QED BY <1>1, <1>2 DEF Terminate

(* A message a process with a task sends is a message.                     *)
LEMMA SendType ==
  ASSUME TypeOK, Ownership, NEW w \in Workers, Busy(w),
         NEW kind \in {"progress", "done", "error"}, Send(w, kind)
  PROVE  resultQ' \in [Workers -> Seq(Message)]
<1>1. wfile[w] \in Files
  BY DEF TypeOK, Ownership
<1>2. [kind |-> kind, file |-> wfile[w]] \in Message
  BY <1>1 DEF Message
<1>3. resultQ[w] \in Seq(Message)
  BY DEF TypeOK
<1>4. Append(resultQ[w], [kind |-> kind, file |-> wfile[w]]) \in Seq(Message)
  BY <1>2, <1>3, AppendProperties
<1> QED BY <1>4 DEF TypeOK, Send

(* Every step keeps the types: one case per action.                        *)
LEMMA TypeStep == ASSUME IInv, [Next]_vars PROVE TypeOK'
<1> USE DEF vars, handles, processVars, diskVars, copyVars, quitVars
<1>1. CASE StartPass
  <2>1. passes' \in 0 .. MaxPasses
    BY <1>1, BoundsAssumption DEF IInv, TypeOK, StartPass
  <2> QED BY <1>1, <2>1 DEF IInv, TypeOK, StartPass, inSupervisor, CopyPc
<1>2. CASE NewQueues
  <2>1. taskQ' \in [Workers -> Seq(Task)] /\ resultQ' \in [Workers -> Seq(Message)]
    <3>1. \A v \in Workers : taskQ[v] \in Seq(Task)
      BY DEF IInv, TypeOK
    <3>2. <<>> \in Seq(Task) /\ <<>> \in Seq(Message)
      BY EmptySeq
    <3> QED BY <1>2, <3>1, <3>2 DEF NewQueues, NewResults
  <2> QED BY <1>2, <2>1 DEF IInv, TypeOK, NewQueues, NewResults, copyLeaves, CopyPc
<1>3. CASE NewProcess \/ Fork
  BY <1>3, NoneAssumption DEF IInv, TypeOK, NewProcess, Fork, copyLeaves, CopyPc, WorkerPc,
     Handles, WaitingPc
<1>4. CASE Put
  <2>1. queues \in Workers
    BY <1>4 DEF IInv, Handles, Put
  <2>2. Append(taskQ[queues], cfile) \in Seq(Task)
    BY <2>1, AppendProperties DEF IInv, TypeOK, Task
  <2>3. taskQ' \in [Workers -> Seq(Task)]
    BY <1>4, <2>2 DEF IInv, TypeOK, Put
  <2> QED BY <1>4, <2>3 DEF IInv, TypeOK, Put, copyLeaves, CopyPc
<1>5. CASE Receive
  <2>1. queues \in Workers
    BY <1>5 DEF IInv, Handles, Receive, Answer, WaitingPc
  <2>2. Tail(resultQ[queues]) \in Seq(Message)
    BY <1>5, <2>1, HeadTailProperties DEF IInv, TypeOK, Receive, Answer
  <2>3. resultQ' \in [Workers -> Seq(Message)]
    BY <1>5, <2>2 DEF IInv, TypeOK, Receive, Answer
  <2> QED BY <1>5, <2>3 DEF IInv, TypeOK, Receive, Answer, copyLeaves, CopyPc
<1>6. CASE Kill
  <2>1. Stopped(proc)
    BY <1>6, TerminateEffect DEF IInv, TypeOK, Kill
  <2> QED BY <1>6, <2>1 DEF Stopped, IInv, TypeOK, Kill, CloseQueues, copyLeaves, CopyPc
<1>7. CASE Clean
  BY <1>7 DEF IInv, TypeOK, Clean, RemoveTmp, copyLeaves, CopyPc, Content
<1>8. CASE ShutdownPut
  <2>1. taskQ' \in [Workers -> Seq(Task)]
    <3>1. CASE queues \in Workers
      <4>1. Append(taskQ[queues], Stop) \in Seq(Task)
        BY <3>1, AppendProperties DEF IInv, TypeOK, Task
      <4> QED BY <1>8, <4>1 DEF IInv, TypeOK, ShutdownPut
    <3>2. CASE queues \notin Workers
      BY <1>8, <3>2 DEF IInv, TypeOK, ShutdownPut
    <3> QED BY <3>1, <3>2
  <2> QED BY <1>8, <2>1 DEF IInv, TypeOK, ShutdownPut, quitLeaves, ShutdownPc
<1>9. CASE ShutdownSignal
  <2>1. spc' \in ShutdownPc /\ UNCHANGED <<quitLeaves, taskQ, closed>>
    BY <1>9 DEF ShutdownSignal, Touched, ShutdownPc
  <2>2. CASE Unstarted
    BY <1>9, <2>1, <2>2, ZenonT(30) DEF IInv, TypeOK, ShutdownSignal, quitLeaves
  <2>3. CASE ~Unstarted
    <3>1. Stopped(proc)
      BY <1>9, <2>3, TerminateEffect DEF IInv, TypeOK, ShutdownSignal
    <3> QED BY <2>1, <3>1, ZenonT(30) DEF Stopped, IInv, TypeOK, quitLeaves
  <2> QED BY <2>2, <2>3
<1>10. ASSUME NEW w \in Workers, WorkerGet(w) PROVE TypeOK'
  <2>1. taskQ[w] \in Seq(Task) /\ taskQ[w] # <<>>
    BY <1>10 DEF IInv, TypeOK, WorkerGet
  <2>2. Tail(taskQ[w]) \in Seq(Task) /\ Head(taskQ[w]) \in Task
    BY <2>1, HeadTailProperties
  <2>3. taskQ' \in [Workers -> Seq(Task)]
    BY <1>10, <2>2 DEF IInv, TypeOK, WorkerGet
  <2>4. wpc' \in [Workers -> WorkerPc] /\ wfile' \in [Workers -> Files \cup {None}]
    BY <1>10, <2>2 DEF IInv, TypeOK, WorkerGet, WorkerPc, Task, Stop
  <2> QED BY <1>10, <2>3, <2>4, ZenonT(30) DEF IInv, TypeOK, WorkerGet, workerLeaves
<1>11. ASSUME NEW w \in Workers, WorkerOpen(w) PROVE TypeOK'
  BY <1>11, ZenonT(30) DEF IInv, TypeOK, WorkerOpen, workerLeaves, WorkerPc, Content
<1>12. ASSUME NEW w \in Workers, WorkerChunk(w) PROVE TypeOK'
  <2>1. resultQ' \in [Workers -> Seq(Message)]
    BY <1>12, SendType DEF IInv, WorkerChunk, AtEof, Busy
  <2>2. wdone' \in [Workers -> Nat]
    BY <1>12 DEF IInv, TypeOK, WorkerChunk, AtEof
  <2>3. Written(tmp[wfile[w]], wdone[w]) \in Content
    BY DEF IInv, TypeOK, Written, Content
  <2>4. tmp' \in [Files -> Content]
    BY <1>12, <2>3 DEF IInv, TypeOK, WorkerChunk, AtEof
  <2> QED BY <1>12, <2>1, <2>2, <2>4, ZenonT(30)
    DEF IInv, TypeOK, WorkerChunk, AtEof, workerLeaves
<1>13. ASSUME NEW w \in Workers, WorkerReplace(w) PROVE TypeOK'
  BY <1>13 DEF IInv, TypeOK, Ownership, Busy, WorkerReplace, Replace, AtEof,
     workerLeaves, WorkerPc, Content
<1>14. ASSUME NEW w \in Workers, WorkerDone(w) PROVE TypeOK'
  <2>1. resultQ' \in [Workers -> Seq(Message)]
    BY <1>14, SendType DEF IInv, WorkerDone, Busy
  <2> QED BY <1>14, <2>1, ZenonT(30)
    DEF IInv, TypeOK, WorkerDone, DropTask, workerLeaves, WorkerPc
<1>15. ASSUME NEW w \in Workers, WorkerExcept(w) PROVE TypeOK'
  <2>1. resultQ' \in [Workers -> Seq(Message)]
    BY <1>15, SendType DEF IInv, WorkerExcept, Busy
  <2>2. tmp' \in [Files -> Content]
    BY <1>15 DEF IInv, TypeOK, WorkerExcept, RemoveTmp, Content
  <2> QED BY <1>15, <2>1, <2>2, ZenonT(30) DEF IInv, TypeOK, WorkerExcept, DropTask,
     workerLeaves, WorkerPc
<1>16. ASSUME NEW w \in Workers, WorkerDies(w) PROVE TypeOK'
  <2>1. Stopped(w)
    BY <1>16, TerminateEffect DEF IInv, TypeOK, WorkerDies
  <2> QED BY <1>16, <2>1, ZenonT(30) DEF Stopped, IInv, TypeOK, WorkerDies, workerLeaves
<1>17. ASSUME NEW w \in Workers, WorkerFails(w) \/ DoomedDies(w) PROVE TypeOK'
  <2>1. wpc' \in [Workers -> WorkerPc]
    BY <1>17 DEF IInv, TypeOK, WorkerFails, DoomedDies, WorkerPc
  <2>2. UNCHANGED <<workerLeaves, taskQ, resultQ, wfile, wdone, diskVars>>
    BY <1>17 DEF WorkerFails, DoomedDies
  <2> QED BY <2>1, <2>2, ZenonT(30) DEF IInv, TypeOK, workerLeaves
<1>18. ASSUME NEW f \in Files, CallCopy(f) PROVE TypeOK'
  BY <1>18 DEF IInv, TypeOK, CallCopy, Call, inSupervisor, copyLeaves, CopyPc
<1>19. CASE EndPass \/ Ensure \/ Raise \/ KeepWaiting \/ Get \/ PollTimesOut \/ PollAgain
  BY <1>19 DEF IInv, TypeOK, EndPass, Goto, Ensure, Raise, KeepWaiting, Get,
     PollTimesOut, PollAgain, inSupervisor, copyLeaves, CopyPc
<1>20. CASE Abort \/ Stall \/ WorkerFoundDead
  BY <1>20 DEF IInv, TypeOK, Abort, Stall, WorkerFoundDead, GiveUp,
     inSupervisor, copyLeaves, CopyPc
<1>21. CASE Quit \/ ShutdownClose \/ ShutdownTest \/ ShutdownJoin
  <2>1. spc' \in ShutdownPc
    BY <1>21 DEF Quit, ShutdownClose, ShutdownTest, ShutdownJoin, QuitGoto, Touched,
       ShutdownPc
  <2>2. CASE Quit
    BY <2>1, <2>2, ZenonT(30) DEF IInv, TypeOK, Quit, inSupervisor
  <2>3. CASE ShutdownClose \/ ShutdownTest \/ ShutdownJoin
    BY <2>1, <2>3, ZenonT(30) DEF IInv, TypeOK, ShutdownClose, CloseQueues,
       ShutdownTest, ShutdownJoin, QuitGoto, quitLeaves
  <2> QED BY <1>21, <2>2, <2>3
<1>22. CASE UNCHANGED vars
  BY <1>22 DEF IInv, TypeOK
<1> QED
  BY <1>1, <1>2, <1>3, <1>4, <1>5, <1>6, <1>7, <1>8, <1>9, <1>10, <1>11, <1>12, <1>13,
     <1>14, <1>15, <1>16, <1>17, <1>18, <1>19, <1>20, <1>21, <1>22
  DEF Next, CopyThread, Shutdown, Worker


Rest == Handles /\ Ownership /\ Tasks /\ Answers /\ Copies /\ SuccessIsComplete

(* The death of a process, however it comes about, breaks nothing.         *)
LEMMA StoppedStep ==
  ASSUME IInv, NEW w, Stopped(w),
         UNCHANGED <<proc, queues, taskQ, tmp, dest, cpc, cfile, outcome>>
  PROVE  Rest'
<1>1. \A v \in Workers : wpc'[v] \notin {"dead", "doomed"} =>
        wpc'[v] = wpc[v] /\ wfile'[v] = wfile[v] /\ wdone'[v] = wdone[v]
  BY DEF Stopped
<1>2. \A v \in Workers : (Busy(v)' => Busy(v)) /\ (Reads(v)' => Reads(v))
  BY <1>1 DEF Busy, Reads
<1>3. Handles'
  BY DEF IInv, Handles, WaitingPc, Stopped
<1>4. Ownership'
  BY <1>1, <1>2 DEF IInv, Ownership, Busy, Engaged
<1>5. Tasks'
  BY <1>2 DEF IInv, Tasks, Engaged, Stopped, Stop
<1>6. Answers'
  BY <1>2, SMTT(30) DEF IInv, Answers, Engaged, Stopped
<1>7. Copies' /\ SuccessIsComplete'
  BY <1>1 DEF IInv, Copies, SuccessIsComplete
<1> QED BY <1>3, <1>4, <1>5, <1>6, <1>7 DEF Rest

(* _kill inside copy_file keeps the rest of IInv.                          *)
LEMMA KillStep == ASSUME IInv, Kill PROVE Rest'
<1>1. queues \in Workers /\ proc = queues /\ cpc = "kill" /\ cpc' = "clean"
  BY DEF IInv, Handles, WaitingPc, Kill
<1>2. Stopped(queues)
  BY <1>1, TerminateEffect DEF IInv, Kill
<1>3. \A w \in Workers : wpc'[w] \notin {"dead", "doomed"} => w # queues /\ ~Busy(w) /\ wpc'[w] = wpc[w]
  BY <1>1, <1>2 DEF Stopped, IInv, Ownership
<1>4. \A w \in Workers : ~Busy(w)'
  BY <1>3 DEF Busy
<1>5. Tasks'
  BY <1>1, <1>3 DEF IInv, Tasks, Kill, Reads
<1>6. Answers'
  <2>1. UNCHANGED <<queues, cfile, dest>>
    BY DEF Kill, diskVars
  <2>2. \A w \in Workers : \A i \in 1 .. Len(resultQ'[w]) :
          /\ i \in 1 .. Len(resultQ[w])
          /\ resultQ'[w][i] = resultQ[w][i]
          /\ i = Len(resultQ[w]) => i = Len(resultQ'[w])
    BY <1>2 DEF Stopped
  <2> QED BY <1>1, <1>4, <2>1, <2>2 DEF IInv, Answers, Engaged
<1> QED
  BY <1>1, <1>4, <1>5, <1>6
  DEF Rest, IInv, Handles, Ownership, Copies, SuccessIsComplete, Busy,
     WaitingPc, Kill, diskVars

(* A process that takes its task takes the one of the running call.        *)
LEMMA GetStep == ASSUME IInv, NEW w \in Workers, WorkerGet(w) PROVE Rest'
<1>1. taskQ[w] \in Seq(Task) /\ taskQ[w] # <<>> /\ Head(taskQ[w]) = taskQ[w][1]
      /\ Len(taskQ[w]) \in Nat \ {0}
  BY EmptySeq DEF IInv, TypeOK, WorkerGet
<1>2. \A v \in Workers : v # w => taskQ'[v] = taskQ[v] /\ wpc'[v] = wpc[v] /\ wfile'[v] = wfile[v]
  BY DEF IInv, TypeOK, WorkerGet
<1>3. Len(taskQ'[w]) \in Nat /\ \A i \in 1 .. Len(taskQ'[w]) :
        i + 1 \in 1 .. Len(taskQ[w]) /\ taskQ'[w][i] = taskQ[w][i + 1]
  BY <1>1, HeadTailProperties DEF IInv, TypeOK, WorkerGet
<1>4. wpc[w] = "idle" /\ UNCHANGED <<proc, queues, cpc, cfile, outcome, resultQ, dest, tmp, wdone>>
  BY DEF WorkerGet, workerLeaves, handles, copyVars, diskVars
<1>5. CASE Head(taskQ[w]) = Stop
  <2>1. wpc'[w] = "dead"
    BY <1>5 DEF IInv, TypeOK, WorkerGet
  <2>2. Handles' /\ Ownership' /\ Copies' /\ SuccessIsComplete'
    BY <1>2, <1>4, <2>1 DEF IInv, Handles, Ownership, Copies, SuccessIsComplete,
       Busy, Engaged
  <2>3. Tasks'
    BY <1>2, <1>4, <2>1 DEF IInv, Tasks, Engaged, Busy, Reads, Handles
  <2>4. Answers'
    BY <1>2, <1>4, <2>1 DEF IInv, Answers, Engaged, Busy
  <2> QED BY <2>2, <2>3, <2>4 DEF Rest
<1>6. CASE Head(taskQ[w]) # Stop
  <2>1. w = queues /\ taskQ[w][1] = cfile /\ Engaged /\ resultQ[w] = <<>>
        /\ \A j \in 1 .. Len(taskQ[w]) : taskQ[w][j] # Stop => j = 1
    BY <1>1, <1>4, <1>6 DEF IInv, Tasks, Reads
  <2>2. wpc'[w] = "open" /\ wfile'[w] = cfile
    BY <1>1, <1>6, <2>1 DEF IInv, TypeOK, WorkerGet
  <2>3. \A i \in 1 .. Len(taskQ'[w]) : taskQ'[w][i] = Stop
    BY <1>1, <1>3, <2>1
  <2>4. Handles' /\ Ownership' /\ Copies' /\ SuccessIsComplete'
    BY <1>2, <1>4, <2>1, <2>2
    DEF IInv, Handles, Ownership, Copies, SuccessIsComplete, Busy, Engaged, WaitingPc
  <2>5. Tasks'
    BY <1>2, <1>4, <2>1, <2>2, <2>3 DEF IInv, Tasks, Engaged, Busy, Reads, Stop
  <2>6. Answers'
    BY <1>2, <1>4, <2>1 DEF IInv, Answers, Engaged, Busy
  <2> QED BY <2>4, <2>5, <2>6 DEF Rest
<1> QED BY <1>5, <1>6

(* shutdown's _STOP goes behind what is queued and changes nothing else.   *)
LEMMA ShutdownPutEffect ==
  ASSUME TypeOK, ShutdownPut
  PROVE  \A w \in Workers : \A i \in 1 .. Len(taskQ'[w]) :
           taskQ'[w][i] # Stop => i \in 1 .. Len(taskQ[w]) /\ taskQ'[w][i] = taskQ[w][i]
<1>1. CASE UNCHANGED taskQ
  BY <1>1
<1>2. CASE taskQ' = [taskQ EXCEPT ![queues] = Append(@, Stop)]
  <2> SUFFICES ASSUME NEW w \in Workers, w = queues, NEW i \in 1 .. Len(taskQ'[w]),
                      taskQ'[w][i] # Stop
               PROVE  i \in 1 .. Len(taskQ[w]) /\ taskQ'[w][i] = taskQ[w][i]
    BY <1>2 DEF TypeOK
  <2>1. taskQ[w] \in Seq(Task) /\ Stop \in Task /\ taskQ'[w] = Append(taskQ[w], Stop)
    BY <1>2 DEF TypeOK, Task
  <2> QED BY <2>1, AppendProperties, LenProperties
<1> QED BY <1>1, <1>2 DEF ShutdownPut

(* The task copy_file puts is the only one: nothing before it is pending.  *)
LEMMA PutStep == ASSUME IInv, Put PROVE Rest'
<1>1. /\ queues \in Workers /\ proc = queues /\ cpc = "put" /\ cpc' = "check"
      /\ outcome # "raised" /\ ~Engaged /\ cfile \in Files
      /\ UNCHANGED <<proc, queues, resultQ, wpc, wfile, wdone, tmp, dest, cfile, outcome>>
  BY DEF IInv, TypeOK, Handles, Put, Engaged, WaitingPc, handles, diskVars
<1>2. /\ \A w \in Workers : ~Busy(w) /\ (wpc[w] \notin {"dead", "doomed"} <=> Reads(w))
      /\ Engaged'
  BY <1>1 DEF IInv, Ownership, Reads, Engaged, WaitingPc
<1>3. \A w \in Workers : \A i \in 1 .. Len(taskQ[w]) : Reads(w) => taskQ[w][i] = Stop
  BY <1>1 DEF IInv, Tasks
<1>4. \A w \in Workers : resultQ[w] \in Seq(Message) /\ \A i \in 1 .. Len(resultQ[w]) : FALSE
  BY <1>1 DEF IInv, TypeOK, Answers
<1>5. \A w \in Workers : resultQ[w] = <<>>
  BY <1>4, EmptySeq
<1>6. /\ \A w \in Workers : w # queues => taskQ'[w] = taskQ[w]
      /\ \A i \in 1 .. Len(taskQ'[queues]) :
           \/ i \in 1 .. Len(taskQ[queues]) /\ taskQ'[queues][i] = taskQ[queues][i]
           \/ i = Len(taskQ[queues]) + 1 /\ taskQ'[queues][i] = cfile
  <2>1. taskQ[queues] \in Seq(Task) /\ cfile \in Task
    BY <1>1 DEF IInv, TypeOK, Task
  <2>2. taskQ'[queues] = Append(taskQ[queues], cfile)
    BY <1>1 DEF IInv, TypeOK, Put
  <2> QED BY <1>1, <2>1, <2>2, AppendProperties, LenProperties DEF IInv, TypeOK, Put
<1>7. Tasks'
  BY <1>1, <1>2, <1>3, <1>5, <1>6 DEF Tasks, Reads, Busy
<1> QED
  BY <1>1, <1>2, <1>4, <1>7
  DEF Rest, IInv, Handles, Ownership, Answers, Copies, SuccessIsComplete, Busy,
     WaitingPc

(* What ends a task is the last message: after it nothing is under way.    *)
LEMMA ReceiveStep == ASSUME IInv, Receive PROVE Rest'
<1>1. /\ queues \in Workers /\ proc = queues /\ cpc = "poll" /\ outcome # "raised"
      /\ UNCHANGED <<proc, queues, taskQ, wpc, wfile, wdone, tmp, dest, cfile>>
  BY DEF IInv, Handles, Receive, Answer, WaitingPc, handles, diskVars
<1>2. /\ resultQ[queues] \in Seq(Message) /\ resultQ[queues] # <<>>
      /\ Len(resultQ[queues]) \in Nat \ {0}
      /\ Head(resultQ[queues]) = resultQ[queues][1]
  BY <1>1, EmptySeq DEF IInv, TypeOK, Receive, Answer
<1>3. /\ Len(resultQ'[queues]) = Len(resultQ[queues]) - 1
      /\ \A i \in 1 .. Len(resultQ'[queues]) :
           i + 1 \in 1 .. Len(resultQ[queues]) /\ resultQ'[queues][i] = resultQ[queues][i + 1]
      /\ \A w \in Workers : w # queues => resultQ'[w] = resultQ[w]
  BY <1>1, <1>2, HeadTailProperties DEF IInv, TypeOK, Receive, Answer
<1>4. CASE resultQ[queues][1].kind = "progress"
  <2>1. cpc' = "check" /\ UNCHANGED outcome
    BY <1>2, <1>4 DEF Receive, Answer
  <2>2. Handles' /\ Ownership' /\ Copies' /\ SuccessIsComplete'
    BY <1>1, <2>1
    DEF IInv, Handles, Ownership, Copies, SuccessIsComplete, Engaged, WaitingPc, Busy
  <2>3. Tasks'
    BY <1>1, <1>2, <2>1 DEF IInv, Tasks, Reads, Engaged, WaitingPc, Busy,
       Receive, Answer
  <2>4. Answers'
    <3>1. \A w \in Workers : \A i \in 1 .. Len(resultQ'[w]) :
            w = queues /\ i + 1 \in 1 .. Len(resultQ[w]) /\ resultQ'[w][i] = resultQ[w][i + 1]
      BY <1>3 DEF IInv, Answers
    <3>2. \A w \in Workers : Busy(w)' <=> Busy(w)
      BY <1>1 DEF Busy
    <3>3. Engaged'
      BY <2>1 DEF Engaged, WaitingPc
    <3>4. \A w \in Workers : \A i \in 1 .. Len(resultQ'[w]) :
            /\ resultQ'[w][i].file = cfile
            /\ resultQ'[w][i].kind = "done" => dest[cfile] = Size[cfile]
            /\ resultQ'[w][i].kind # "progress" => i + 1 = Len(resultQ[w]) /\ ~Busy(w)
      BY <3>1 DEF IInv, Answers
    <3>5. \A i \in 1 .. Len(resultQ'[queues]) :
            i + 1 = Len(resultQ[queues]) => i = Len(resultQ'[queues])
      BY <1>2, <1>3
    <3> QED BY <1>1, <3>1, <3>2, <3>3, <3>4, <3>5 DEF Answers
  <2> QED BY <2>2, <2>3, <2>4 DEF Rest
<1>5. CASE resultQ[queues][1].kind # "progress"
  <2>1. /\ cpc' = "walk"
        /\ outcome' = IF resultQ[queues][1].kind = "done" THEN "success" ELSE "failed"
    BY <1>2, <1>5 DEF Receive, Answer
  <2>2. /\ Len(resultQ[queues]) = 1 /\ ~Busy(queues)
        /\ resultQ[queues][1].kind = "done" => dest[cfile] = Size[cfile]
    <3>1. 1 \in 1 .. Len(resultQ[queues])
      BY <1>2
    <3> QED BY <1>1, <1>5, <3>1 DEF IInv, Answers
  <2>3. \A w \in Workers : ~Busy(w)
    BY <2>2 DEF IInv, Ownership
  <2>4. Handles' /\ Ownership' /\ Copies' /\ SuccessIsComplete'
    BY <1>1, <2>1, <2>2, <2>3
    DEF IInv, Handles, Ownership, Copies, SuccessIsComplete, WaitingPc, Busy
  <2>5. Tasks'
    <3>1. \A w \in Workers : \A i \in 1 .. Len(taskQ[w]) : Reads(w) => taskQ[w][i] = Stop
      BY <1>2 DEF IInv, Tasks
    <3>2. \A w \in Workers : Reads(w)' => Reads(w)
      BY <1>1, <2>1 DEF Reads
    <3> QED BY <1>1, <3>1, <3>2 DEF Tasks, Stop
  <2>6. Answers'
    BY <1>1, <1>2, <1>3, <2>1, <2>2 DEF IInv, Answers
  <2> QED BY <2>4, <2>5, <2>6 DEF Rest
<1> QED BY <1>4, <1>5

(* Every step keeps the rest of IInv: one case per action.                 *)
LEMMA RestStep == ASSUME IInv, [Next]_vars PROVE Rest'
<1> USE DEF vars, handles, processVars, diskVars, copyVars, quitVars,
   inSupervisor, copyLeaves, workerLeaves, quitLeaves, IInv, Rest, Handles,
   Ownership, Tasks, Answers, Copies, SuccessIsComplete, Engaged, WaitingPc,
   Reads, Busy
<1>1. CASE StartPass \/ EndPass \/ Ensure
  BY <1>1, NoneAssumption, SMTT(30) DEF StartPass, EndPass, Goto, Ensure, Alive,
     TypeOK
<1>2. CASE Raise \/ KeepWaiting \/ Get \/ PollTimesOut \/ PollAgain
  BY <1>2, SMTT(30) DEF Raise, KeepWaiting, Goto, Get, PollTimesOut, PollAgain
<1>3. CASE Abort \/ Stall \/ WorkerFoundDead
  BY <1>3, SMTT(30) DEF Abort, Stall, WorkerFoundDead, GiveUp
<1>4. CASE NewQueues
  BY <1>4, NoneAssumption, SMTT(30) DEF NewQueues, NewResults, TypeOK, Stop
<1>5. CASE NewProcess \/ Fork
  BY <1>5, NoneAssumption, SMTT(30) DEF NewProcess, Fork, TypeOK, Stop
<1>6. CASE Put
  BY <1>6, PutStep
<1>7. CASE Receive
  BY <1>7, ReceiveStep
<1>8. CASE Clean
  <2>1. cpc = "clean" /\ cpc' = "queues" /\ outcome # "raised"
    BY <1>8 DEF Clean
  <2>2. \A w \in Workers : ~Busy(w) /\ UNCHANGED <<taskQ, resultQ, wpc>>
    BY <1>8, <2>1 DEF Clean
  <2> QED BY <1>8, <2>1, <2>2 DEF Clean
<1>9. CASE Quit \/ ShutdownClose \/ ShutdownTest \/ ShutdownJoin
  BY <1>9, SMTT(30) DEF Quit, ShutdownClose, CloseQueues, ShutdownTest,
     ShutdownJoin, QuitGoto
<1>10. ASSUME NEW f \in Files, CallCopy(f) PROVE Rest'
  BY <1>10, SMTT(30) DEF CallCopy, Call
<1>11. ASSUME NEW w \in Workers, WorkerOpen(w) PROVE Rest'
  BY <1>11, SMTT(30) DEF WorkerOpen, TypeOK
<1>12. ASSUME NEW w \in Workers, WorkerChunk(w) PROVE Rest'
  BY <1>12, SMTT(30) DEF WorkerChunk, AtEof, Send, Written, TypeOK
<1>13. ASSUME NEW w \in Workers, WorkerReplace(w) PROVE Rest'
  BY <1>13, ContentAssumption, FilesAssumption, SMTT(30) DEF WorkerReplace,
     Replace, AtEof, TypeOK
<1>14. ASSUME NEW w \in Workers, WorkerDone(w) PROVE Rest'
  BY <1>14, SMTT(30) DEF WorkerDone, Send, DropTask, TypeOK, Message
<1>15. ASSUME NEW w \in Workers, WorkerFails(w) PROVE Rest'
  BY <1>15, SMTT(30) DEF WorkerFails, TypeOK
<1>16. ASSUME NEW w \in Workers, WorkerExcept(w) PROVE Rest'
  BY <1>16, SMTT(30) DEF WorkerExcept, Send, RemoveTmp, DropTask, TypeOK, Message
<1>17. ASSUME NEW w \in Workers, DoomedDies(w) PROVE Rest'
  <2>1. Stopped(w)
    BY <1>17, SMTT(30) DEF DoomedDies, TypeOK, Stopped, WorkerPc
  <2> QED BY <1>17, <2>1, StoppedStep DEF DoomedDies
<1>18. CASE Kill
  BY <1>18, KillStep
<1>19. CASE ShutdownSignal
  <2>1. CASE Unstarted
    BY <1>19, <2>1, SMTT(30) DEF ShutdownSignal
  <2>2. CASE ~Unstarted
    <3>1. Stopped(proc)
      BY <1>19, <2>2, TerminateEffect DEF ShutdownSignal, TypeOK
    <3> QED BY <1>19, <3>1, StoppedStep DEF ShutdownSignal
  <2> QED BY <2>1, <2>2
<1>20. ASSUME NEW w \in Workers, WorkerDies(w) PROVE Rest'
  <2>1. Stopped(w)
    BY <1>20, TerminateEffect DEF WorkerDies
  <2> QED BY <1>20, <2>1, StoppedStep DEF WorkerDies
<1>21. CASE ShutdownPut
  <2>1. \A w \in Workers : \A i \in 1 .. Len(taskQ'[w]) :
          taskQ'[w][i] # Stop => i \in 1 .. Len(taskQ[w]) /\ taskQ'[w][i] = taskQ[w][i]
    BY <1>21, ShutdownPutEffect DEF IInv
  <2>2. Tasks'
    BY <1>21, <2>1 DEF ShutdownPut
  <2> QED BY <1>21, <2>2 DEF ShutdownPut
<1>22. ASSUME NEW w \in Workers, WorkerGet(w) PROVE Rest'
  BY <1>22, GetStep
<1>23. CASE UNCHANGED vars
  BY <1>23
<1> QED
  BY <1>1, <1>2, <1>3, <1>4, <1>5, <1>6, <1>7, <1>8, <1>9, <1>10, <1>11, <1>12,
     <1>13, <1>14, <1>15, <1>16, <1>17, <1>18, <1>19, <1>20, <1>21, <1>22, <1>23
  DEF Next, CopyThread, Shutdown, Worker

(* Before the first pass the invariant holds.                              *)
THEOREM InitInvariant == Init => IInv
<1> SUFFICES ASSUME Init PROVE IInv
  OBVIOUS
<1>1. <<>> \in Seq(Task) /\ <<>> \in Seq(Message) /\ \A S : Len(<<>>) = 0
  BY EmptySeq
<1>2. TypeOK
  <2>1. taskQ \in [Workers -> Seq(Task)] /\ resultQ \in [Workers -> Seq(Message)]
    BY <1>1 DEF Init
  <2>2. tmp \in [Files -> Content] /\ dest \in [Files -> Content]
    BY DEF Init, Content
  <2>3. passes \in 0 .. MaxPasses
    BY BoundsAssumption DEF Init
  <2> QED BY <2>1, <2>2, <2>3 DEF Init, TypeOK, WorkerPc, CopyPc, ShutdownPc
<1>3. \A w \in Workers : wpc[w] = "dead" /\ taskQ[w] = <<>> /\ resultQ[w] = <<>>
  BY DEF Init
<1> QED
  BY <1>1, <1>2, <1>3
  DEF Init, IInv, Handles, Ownership, Tasks, Answers, Copies, SuccessIsComplete,
     Engaged, WaitingPc, Reads, Busy

(* The invariant is inductive: it holds in every state of every behaviour. *)
THEOREM Invariance == Spec => []IInv
<1>1. Init => IInv
  BY InitInvariant
<1>2. IInv /\ [Next]_vars => IInv'
  BY TypeStep, RestStep DEF IInv, Rest
<1> QED
  BY <1>1, <1>2, PTL DEF Spec

(* The variables keep their types.                                         *)
THEOREM TypeCorrect == Spec => []TypeOK
<1>1. IInv => TypeOK
  BY DEF IInv
<1> QED
  BY <1>1, Invariance, PTL

(* A "success" answer of copy_file means the whole file is at its          *)
(* destination, for any number of files, workers, passes, stalls, aborts,  *)
(* process deaths and with shutdown running at the same time.              *)
THEOREM SuccessTheorem == Spec => []SuccessIsComplete
<1>1. IInv => SuccessIsComplete
  BY DEF IInv
<1> QED
  BY <1>1, Invariance, PTL

(* What copy_file reads from its queue is about the file it was called for.*)
THEOREM AnswersTheorem == Spec => []NoStaleAnswer
<1>1. IInv => NoStaleAnswer
  <2> SUFFICES ASSUME IInv, cpc \in {"check", "get", "poll", "empty"},
                      NEW i \in DOMAIN resultQ[queues]
               PROVE  resultQ[queues][i].file = cfile
    BY DEF NoStaleAnswer
  <2>1. queues \in Workers
    BY DEF IInv, Handles, WaitingPc
  <2>2. i \in 1 .. Len(resultQ[queues])
    BY <2>1, LenProperties DEF IInv, TypeOK
  <2> QED BY <2>1, <2>2 DEF IInv, Answers
<1> QED
  BY <1>1, Invariance, PTL

(* A process copies only for the running call, and only the current one.   *)
THEOREM WriterTheorem == Spec => []AtMostOneWriter
<1>1. IInv => AtMostOneWriter
  <2> SUFFICES ASSUME IInv, outcome # "raised", NEW w \in Workers, Busy(w)
               PROVE  w = proc /\ InCall /\ wfile[w] = cfile
    BY DEF AtMostOneWriter
  <2>1. w = queues /\ wfile[w] = cfile /\ cpc \in WaitingPc
    BY DEF IInv, Ownership, Engaged
  <2> QED BY <2>1 DEF IInv, Handles, WaitingPc, InCall
<1> QED
  BY <1>1, Invariance, PTL

(* Of the temporary files of this run, only that of the running call may   *)
(* exist, and none once its worker has ended the task: what NoLitter needs *)
(* to be inductive.  A call that raises leaves its worker to shutdown.     *)
Swept ==
  ~DestFaults /\ outcome # "raised" =>
    /\ \A f \in Files \ Leftovers :
         tmp[f] # NoFile => f = cfile /\ cpc \in WaitingPc \cup {"clean"}
    /\ \A w \in Workers :
         /\ wpc[w] = "report" => tmp[wfile[w]] = NoFile
         /\ \A i \in 1 .. Len(resultQ[w]) :
              resultQ[w][i].kind # "progress" => tmp[cfile] = NoFile

(* The death of a process leaves its temporary file to the running call.   *)
LEMMA StoppedSweeps ==
  ASSUME IInv, Swept, NEW w, Stopped(w), UNCHANGED <<tmp, cfile, outcome>>,
         cpc' = cpc \/ (cpc \in WaitingPc /\ cpc' = "clean")
  PROVE  Swept'
<1>1. \A v \in Workers : wpc'[v] = "report" => wpc[v] = "report" /\ wfile'[v] = wfile[v]
  BY DEF Stopped
<1>2. \A v \in Workers : \A i \in 1 .. Len(resultQ'[v]) :
        i \in 1 .. Len(resultQ[v]) /\ resultQ'[v][i] = resultQ[v][i]
  BY DEF Stopped
<1> QED BY <1>1, <1>2 DEF Swept, WaitingPc

(* A message that is sent comes after the others, which stay as they were. *)
LEMMA SendEffect ==
  ASSUME TypeOK, Ownership, NEW w \in Workers, Busy(w),
         NEW kind \in {"progress", "done", "error"}, Send(w, kind)
  PROVE  \A v \in Workers : \A i \in 1 .. Len(resultQ'[v]) :
           \/ i \in 1 .. Len(resultQ[v]) /\ resultQ'[v][i] = resultQ[v][i]
           \/ v = w /\ resultQ'[v][i].kind = kind
<1>1. [kind |-> kind, file |-> wfile[w]] \in Message
  BY DEF TypeOK, Ownership, Message
<1>2. resultQ[w] \in Seq(Message)
  BY DEF TypeOK
<1>3. resultQ' = [resultQ EXCEPT ![w] = Append(resultQ[w], [kind |-> kind, file |-> wfile[w]])]
  BY DEF Send
<1>4. \A v \in Workers : v # w => resultQ'[v] = resultQ[v]
  BY <1>3 DEF TypeOK
<1>5. resultQ'[w] = Append(resultQ[w], [kind |-> kind, file |-> wfile[w]])
  BY <1>3 DEF TypeOK
<1>6. \A i \in 1 .. Len(resultQ'[w]) :
        \/ i \in 1 .. Len(resultQ[w]) /\ resultQ'[w][i] = resultQ[w][i]
        \/ resultQ'[w][i].kind = kind
  BY <1>1, <1>2, <1>5, AppendProperties, LenProperties
<1> QED BY <1>4, <1>6

(* Every step keeps the disk swept: one case per action.                   *)
LEMMA SweepStep == ASSUME IInv, Swept, [Next]_vars PROVE Swept'
<1> USE DEF vars, handles, processVars, diskVars, copyVars, inSupervisor,
   copyLeaves, workerLeaves, quitLeaves, Swept, WaitingPc
<1>1. CASE StartPass \/ EndPass \/ Ensure
  BY <1>1 DEF StartPass, EndPass, Goto, Ensure
<1>2. CASE Raise \/ KeepWaiting \/ Get \/ PollTimesOut \/ PollAgain
  BY <1>2 DEF Raise, KeepWaiting, Goto, Get, PollTimesOut, PollAgain
<1>3. CASE Abort \/ Stall \/ WorkerFoundDead
  BY <1>3 DEF Abort, Stall, WorkerFoundDead, GiveUp
<1>4. CASE NewQueues
  BY <1>4, EmptySeq DEF NewQueues, NewResults
<1>5. CASE NewProcess \/ Fork
  BY <1>5 DEF NewProcess, Fork, IInv, TypeOK, Handles
<1>6. CASE Put
  BY <1>6 DEF Put
<1>7. CASE Receive
  <2>1. queues \in Workers /\ resultQ[queues] # <<>> /\ resultQ[queues] \in Seq(Message)
    BY <1>7 DEF Receive, Answer, IInv, Handles, TypeOK
  <2>2. /\ Head(resultQ[queues]) = resultQ[queues][1]
        /\ 1 \in 1 .. Len(resultQ[queues])
    BY <2>1, EmptySeq
  <2>3. \A v \in Workers : \A i \in 1 .. Len(resultQ'[v]) :
          \E j \in 1 .. Len(resultQ[v]) : resultQ'[v][i] = resultQ[v][j]
    <3>1. resultQ' = [resultQ EXCEPT ![queues] = Tail(resultQ[queues])]
      BY <1>7 DEF Receive
    <3>2. \A i \in 1 .. Len(Tail(resultQ[queues])) :
            i + 1 \in 1 .. Len(resultQ[queues]) /\ Tail(resultQ[queues])[i] = resultQ[queues][i + 1]
      BY <2>1, HeadTailProperties, LenProperties
    <3> QED BY <2>1, <3>1, <3>2 DEF IInv, TypeOK
  <2>4. UNCHANGED <<tmp, wpc, wfile, cfile>> /\ cpc = "poll" /\ outcome # "raised"
    BY <1>7 DEF Receive, IInv, Handles
  <2>5. \/ cpc' = "check"
        \/ cpc' = "walk" /\ resultQ[queues][1].kind # "progress"
    BY <1>7, <2>2 DEF Receive
  <2> QED BY <2>1, <2>2, <2>3, <2>4, <2>5, SMTT(30)
<1>8. CASE Clean
  <2>1. ~DestFaults => tmp' = [tmp EXCEPT ![cfile] = NoFile]
    BY <1>8 DEF Clean, RemoveTmp
  <2>2. \A w \in Workers : wpc[w] # "report"
    BY <1>8 DEF Clean, IInv, Handles, Ownership, Engaged, Busy
  <2>3. UNCHANGED <<cfile, outcome, wpc, resultQ>>
    BY <1>8 DEF Clean
  <2> QED BY <1>8, <2>1, <2>2, <2>3 DEF Clean, IInv, TypeOK
<1>9. CASE Quit \/ ShutdownClose \/ ShutdownPut \/ ShutdownTest \/ ShutdownJoin
  BY <1>9 DEF Quit, ShutdownClose, CloseQueues, ShutdownPut, ShutdownTest,
     ShutdownJoin, QuitGoto
<1>10. ASSUME NEW f \in Files, CallCopy(f) PROVE Swept'
  <2>1. \A w \in Workers : \A i \in 1 .. Len(resultQ[w]) : FALSE
    BY <1>10 DEF CallCopy, Call, IInv, Handles, Answers, Engaged
  <2>2. outcome # "raised" /\ cpc = "walk"
    BY <1>10 DEF CallCopy, Call, IInv, Handles
  <2> QED BY <1>10, <2>1, <2>2 DEF CallCopy, Call
<1>11. ASSUME NEW w \in Workers, WorkerOpen(w) \/ WorkerChunk(w), ~DestFaults, outcome # "raised"
       PROVE  Swept'
  <2>1. Busy(w) /\ wpc[w] # "report"
    BY <1>11 DEF WorkerOpen, WorkerChunk, Busy
  <2>2. w = queues /\ wfile[w] = cfile /\ cpc \in WaitingPc
    BY <1>11, <2>1 DEF IInv, Ownership, Engaged
  <2>3. \A v \in Workers : \A i \in 1 .. Len(resultQ'[v]) : resultQ'[v][i].kind = "progress"
    <3>1. \A v \in Workers : \A i \in 1 .. Len(resultQ[v]) : resultQ[v][i].kind = "progress"
      BY <2>1, <2>2 DEF IInv, Answers
    <3>2. CASE WorkerOpen(w)
      BY <3>1, <3>2 DEF WorkerOpen
    <3>3. CASE WorkerChunk(w)
      <4>1. Send(w, "progress")
        BY <3>3 DEF WorkerChunk
      <4> QED BY <2>1, <3>1, <4>1, SendEffect DEF IInv
    <3> QED BY <1>11, <3>2, <3>3
  <2>4. /\ \A f \in Files : f # cfile => tmp'[f] = tmp[f]
        /\ \A v \in Workers : wpc'[v] # "report"
    BY <1>11, <2>1, <2>2, ZenonT(30)
      DEF WorkerOpen, WorkerChunk, IInv, TypeOK, Ownership, Busy
  <2>5. UNCHANGED <<cpc, cfile, outcome>>
    BY <1>11 DEF WorkerOpen, WorkerChunk
  <2> QED BY <1>11, <2>2, <2>3, <2>4, <2>5
<1>12. ASSUME NEW w \in Workers, WorkerReplace(w) PROVE Swept'
  <2>1. w = queues /\ wfile[w] = cfile /\ cfile \in Files
    BY <1>12 DEF WorkerReplace, IInv, TypeOK, Ownership, Busy
  <2>2. tmp' = [tmp EXCEPT ![cfile] = NoFile] /\ wpc' = [wpc EXCEPT ![w] = "report"]
        /\ UNCHANGED <<cpc, cfile, outcome, resultQ, wfile>>
    BY <1>12, <2>1 DEF WorkerReplace, Replace
  <2>3. \A v \in Workers : v # w => wpc[v] # "report"
    BY <2>1 DEF IInv, Ownership, Busy
  <2> QED BY <2>1, <2>2, <2>3 DEF IInv, TypeOK
<1>13. ASSUME NEW w \in Workers, WorkerDone(w) PROVE Swept'
  <2>1. Busy(w) /\ wfile[w] = cfile /\ wpc[w] = "report" /\ Send(w, "done")
    BY <1>13 DEF WorkerDone, IInv, Ownership, Busy
  <2>2. \A v \in Workers : \A i \in 1 .. Len(resultQ'[v]) :
           \/ i \in 1 .. Len(resultQ[v]) /\ resultQ'[v][i] = resultQ[v][i]
           \/ v = w
    BY <2>1, SendEffect DEF IInv
  <2>3. \A v \in Workers : wpc'[v] = "report" => wpc[v] = "report" /\ wfile'[v] = wfile[v]
    BY <1>13 DEF WorkerDone, DropTask, IInv, TypeOK
  <2>4. UNCHANGED <<tmp, cpc, cfile, outcome>>
    BY <1>13 DEF WorkerDone
  <2> QED BY <2>1, <2>2, <2>3, <2>4
<1>14. ASSUME NEW w \in Workers, WorkerExcept(w), ~DestFaults PROVE Swept'
  <2>1. Busy(w) /\ w = queues /\ wfile[w] = cfile /\ cfile \in Files
    BY <1>14 DEF WorkerExcept, IInv, TypeOK, Ownership, Busy
  <2>2. tmp' = [tmp EXCEPT ![cfile] = NoFile]
    BY <1>14, <2>1 DEF WorkerExcept, RemoveTmp
  <2>3. \A v \in Workers : wpc'[v] # "report"
    BY <1>14, <2>1 DEF WorkerExcept, IInv, TypeOK, Ownership, Busy
  <2>4. UNCHANGED <<cpc, cfile, outcome>>
    BY <1>14 DEF WorkerExcept
  <2> QED BY <2>1, <2>2, <2>3, <2>4 DEF IInv, TypeOK
<1>15. ASSUME NEW w \in Workers, WorkerGet(w) \/ WorkerFails(w) \/ DoomedDies(w) PROVE Swept'
  <2>1. \A v \in Workers : wpc'[v] = "report" => wpc[v] = "report" /\ wfile'[v] = wfile[v]
    BY <1>15 DEF WorkerGet, WorkerFails, DoomedDies, IInv, TypeOK
  <2>2. UNCHANGED <<tmp, resultQ, cpc, cfile, outcome>>
    BY <1>15 DEF WorkerGet, WorkerFails, DoomedDies
  <2> QED BY <2>1, <2>2
<1>16. ASSUME NEW w \in Workers, WorkerDies(w) PROVE Swept'
  <2>1. Stopped(w)
    BY <1>16, TerminateEffect DEF WorkerDies, IInv
  <2> QED BY <1>16, <2>1, StoppedSweeps DEF WorkerDies
<1>17. CASE ShutdownSignal
  <2>1. CASE Unstarted
    BY <1>17, <2>1 DEF ShutdownSignal
  <2>2. CASE ~Unstarted
    <3>1. Stopped(proc)
      BY <1>17, <2>2, TerminateEffect DEF ShutdownSignal, IInv, TypeOK
    <3> QED BY <1>17, <3>1, StoppedSweeps DEF ShutdownSignal
  <2> QED BY <2>1, <2>2
<1>18. CASE Kill
  <2>1. Stopped(proc)
    BY <1>18, TerminateEffect DEF Kill, IInv, TypeOK
  <2> QED BY <1>18, <2>1, StoppedSweeps DEF Kill
<1>19. CASE UNCHANGED vars
  BY <1>19
<1>20. CASE DestFaults \/ outcome = "raised"
  <2>1. outcome = "raised" => outcome' = "raised"
    BY DEF Next, CopyThread, Shutdown, Worker, StartPass, EndPass, Goto, CallCopy,
       Call, Ensure, NewQueues, NewProcess, Fork, Raise, Put, Abort, Stall, GiveUp, KeepWaiting, Get,
       Receive, PollTimesOut, PollAgain, WorkerFoundDead, Kill, Clean, Quit,
       ShutdownTest, ShutdownPut, ShutdownJoin, ShutdownSignal, ShutdownClose,
       QuitGoto, quitLeaves, WorkerGet, WorkerOpen, WorkerChunk,
       WorkerReplace, WorkerDone, WorkerFails, WorkerExcept, WorkerDies, DoomedDies,
       IInv, Handles
  <2> QED BY <1>20, <2>1
<1> QED
  BY <1>1, <1>2, <1>3, <1>4, <1>5, <1>6, <1>7, <1>8, <1>9, <1>10, <1>11, <1>12,
     <1>13, <1>14, <1>15, <1>16, <1>17, <1>18, <1>19, <1>20
  DEF Next, CopyThread, Shutdown, Worker

(* Where unlink works, a call that has returned leaves no temporary file:  *)
(* also when its worker was killed in the middle of a chunk, by the stall, *)
(* by an abort or by the quitting thread.                                  *)
THEOREM LitterTheorem == Spec => []NoLitter
<1>1. Init => Swept
  BY EmptySeq DEF Init, Swept
<1>2. IInv /\ Swept /\ [Next]_vars => Swept'
  BY SweepStep
<1>3. Swept => NoLitter
  BY DEF Swept, NoLitter, InCall, WaitingPc
<1> QED
  BY <1>1, <1>2, <1>3, Invariance, PTL DEF Spec

(* Only os.replace changes a destination, and it installs a whole file.    *)
LEMMA DestStep ==
  ASSUME IInv, [Next]_vars
  PROVE  \/ UNCHANGED dest
         \/ /\ dest' = [dest EXCEPT ![cfile] = Size[cfile]]
            /\ Engaged
            /\ UNCHANGED <<cpc, resume, cfile, outcome>>
<1> USE DEF diskVars, copyVars, inSupervisor
<1>1. ASSUME NEW w \in Workers, WorkerReplace(w)
      PROVE  /\ dest' = [dest EXCEPT ![cfile] = Size[cfile]]
             /\ Engaged
             /\ UNCHANGED <<cpc, resume, cfile, outcome>>
  BY <1>1 DEF WorkerReplace, Replace, AtEof, workerLeaves, IInv, Ownership, Copies, Busy
<1>2. ASSUME NEW w \in Workers, Worker(w), ~WorkerReplace(w) PROVE UNCHANGED dest
  BY <1>2 DEF Worker, WorkerGet, WorkerOpen, WorkerChunk, AtEof, WorkerDone,
     WorkerFails, WorkerExcept, WorkerDies, DoomedDies
<1>3. CASE CopyThread \/ Stall
  BY <1>3 DEF CopyThread, Ensure, NewQueues, NewResults, NewProcess, Fork, Raise, Put,
     Abort, KeepWaiting, Goto, Get, Receive, Answer, PollTimesOut, PollAgain,
     WorkerFoundDead, Kill, Clean, Stall, GiveUp
<1>4. CASE StartPass \/ EndPass \/ (\E f \in Files : CallCopy(f))
  BY <1>4 DEF StartPass, EndPass, Goto, CallCopy, Call
<1>5. CASE Quit \/ Shutdown
  BY <1>5 DEF Quit, Shutdown, ShutdownTest, ShutdownPut, ShutdownJoin,
     ShutdownSignal, ShutdownClose, QuitGoto, quitLeaves
<1>6. CASE UNCHANGED vars
  BY <1>6 DEF vars
<1> QED
  BY <1>1, <1>2, <1>3, <1>4, <1>5, <1>6 DEF Next

(* A destination path never shows a part of a file, whatever is killed and *)
(* whenever.                                                               *)
THEOREM DestTheorem == Spec => DestNeverPartial
<1>1. IInv /\ [Next]_vars =>
        [\A f \in Files : dest'[f] # dest[f] => dest'[f] = Size[f]]_vars
  BY DestStep DEF IInv, TypeOK
<1> QED
  BY <1>1, Invariance, PTL DEF Spec, DestNeverPartial

(* Between the test of should_abort and the answer nobody clears the       *)
(* stop_event, and between Kill and the new queues no queue is used.       *)
Cause ==
  /\ closed => spc = "done" \/ cpc \in {"clean", "queues"}
  /\ \/ cpc \in {"kill", "clean"}
     \/ cpc \in {"queues", "process", "fork"} /\ resume = "return"
     => (verdict = "aborted" => stop)

(* Every step keeps the cause: one case for each thread.                   *)
LEMMA CauseStep == ASSUME IInv, Cause, [Next]_vars PROVE Cause'
<1> USE DEF vars, handles, copyVars, quitVars, inSupervisor, copyLeaves, Cause
<1>1. CASE Ensure \/ NewQueues \/ NewProcess \/ Fork \/ Raise \/ Put \/ Receive
  BY <1>1 DEF Ensure, NewQueues, NewProcess, Fork, Raise, Put, Receive
<1>2. CASE Abort \/ Stall \/ WorkerFoundDead \/ Kill \/ Clean
  BY <1>2 DEF Abort, Stall, WorkerFoundDead, GiveUp, Kill, Clean
<1>3. CASE KeepWaiting \/ Get \/ PollTimesOut \/ PollAgain \/ EndPass
  BY <1>3 DEF KeepWaiting, Get, PollTimesOut, PollAgain, EndPass, Goto
<1>4. CASE StartPass \/ (\E f \in Files : CallCopy(f))
  BY <1>4 DEF StartPass, CallCopy, Call
<1>5. CASE Quit \/ Shutdown
  BY <1>5 DEF Quit, Shutdown, ShutdownTest, ShutdownPut, ShutdownJoin,
     ShutdownSignal, ShutdownClose, QuitGoto, Touched, CloseQueues, quitLeaves
<1>6. ASSUME NEW w \in Workers, Worker(w) PROVE UNCHANGED <<handles, copyVars, quitVars, stop>>
  BY <1>6 DEF Worker, WorkerGet, WorkerOpen, WorkerChunk, WorkerReplace,
     WorkerDone, WorkerFails, WorkerExcept, WorkerDies, DoomedDies, workerLeaves
<1>7. CASE UNCHANGED vars
  BY <1>7
<1> QED
  BY <1>1, <1>2, <1>3, <1>4, <1>5, <1>6, <1>7 DEF Next, CopyThread

(* "aborted" comes to a pass that is being stopped, an exception after a   *)
(* shutdown, for any number of passes and processes (worker.py:151-166).   *)
THEOREM CauseTheorem == Spec => AnswersHaveCause
<1>1. Init => Cause
  BY DEF Init, Cause
<1>2. IInv /\ Cause /\ [Next]_vars => Cause'
  BY CauseStep
<1>3. IInv /\ Cause /\ [Next]_vars =>
        [outcome' # outcome =>
           /\ outcome' = "aborted" => stop
           /\ outcome' = "raised" => spc = "done"]_vars
  <2> SUFFICES ASSUME IInv, Cause, Next, outcome' # outcome
               PROVE  /\ outcome' = "aborted" => stop
                      /\ outcome' = "raised" => spc = "done"
    OBVIOUS
  <2> USE DEF copyVars, inSupervisor, Cause
  <2>1. CASE Raise \/ Receive
    BY <2>1 DEF Raise, Receive, Answer
  <2>2. CASE Fork
    BY <2>2 DEF Fork, IInv, TypeOK
  <2>3. CASE \E f \in Files : CallCopy(f)
    BY <2>3 DEF CallCopy, Call
  <2>4. CASE Ensure \/ NewQueues \/ NewProcess \/ Put \/ Abort \/ Stall \/ WorkerFoundDead
             \/ Kill \/ Clean \/ KeepWaiting \/ Get \/ PollTimesOut \/ PollAgain
             \/ EndPass \/ StartPass
    BY <2>4 DEF Ensure, NewQueues, NewProcess, Put, Abort, Stall, WorkerFoundDead, GiveUp,
       Kill, Clean, KeepWaiting, Get, PollTimesOut, PollAgain, EndPass, Goto, StartPass
  <2>5. CASE Quit \/ Shutdown
    BY <2>5 DEF Quit, Shutdown, ShutdownTest, ShutdownPut, ShutdownJoin,
     ShutdownSignal, ShutdownClose, QuitGoto, quitLeaves
  <2>6. ASSUME NEW w \in Workers, Worker(w) PROVE UNCHANGED copyVars
    BY <2>6 DEF Worker, WorkerGet, WorkerOpen, WorkerChunk, WorkerReplace,
       WorkerDone, WorkerFails, WorkerExcept, WorkerDies, DoomedDies, workerLeaves
  <2> QED
    BY <2>1, <2>2, <2>3, <2>4, <2>5, <2>6 DEF Next, CopyThread
<1> QED
  BY <1>1, <1>2, <1>3, Invariance, PTL DEF Spec, AnswersHaveCause

(* CopySupervisor keeps the promise of AtomicCopy: every step of the       *)
(* processes, of the copy thread and of the quitting thread is a Begin, a  *)
(* Publish, a Return or nothing at all to the caller of copy_file.         *)
LEMMA BeginStep ==
  ASSUME IInv, NEW f \in Files, CallCopy(f) PROVE Abstract!Begin(f)
<1>1. ~InCall /\ InCall' /\ outcome # "raised" /\ cfile' = f /\ UNCHANGED dest
  BY DEF CallCopy, Call, InCall, IInv, Handles, inSupervisor, diskVars
<1> QED BY <1>1 DEF Abstract!Begin

(* os.replace is AtomicCopy's Publish of the file of the running call.     *)
LEMMA PublishStep ==
  ASSUME IInv, Engaged, dest' = [dest EXCEPT ![cfile] = Size[cfile]],
         UNCHANGED <<cpc, resume, cfile, outcome>>
  PROVE  Abstract!Publish
<1>1. InCall' = InCall /\ (InCall \/ outcome = "raised") /\ (outcome = "raised" => ~InCall)
  BY DEF InCall, Engaged, WaitingPc, IInv, Handles
<1>2. InCall => cfile # None
  BY NoneAssumption DEF IInv, TypeOK
<1> QED BY <1>1, <1>2 DEF Abstract!Publish

(* The step that ends copy_file is AtomicCopy's Return of its outcome.     *)
LEMMA ReturnStep ==
  ASSUME IInv, Receive \/ Fork \/ Raise, InCall, ~InCall'
  PROVE  \E o \in Abstract!Outcome : Abstract!Return(o)
<1>1. cfile # None /\ UNCHANGED <<cfile, dest>>
  BY NoneAssumption DEF IInv, TypeOK, Receive, Answer, Fork, Raise,
     inSupervisor, diskVars
<1>2. outcome' \in Abstract!Outcome
  BY DEF Receive, Answer, Fork, Raise, Abstract!Outcome, IInv, TypeOK, InCall
<1>3. outcome' = "success" => dest[cfile] = Size[cfile]
  BY <1>1, RestStep DEF Rest, SuccessIsComplete, Next, CopyThread
<1> QED BY <1>1, <1>2, <1>3 DEF Abstract!Return

(* CopySupervisor implements AtomicCopy, for any files, sizes and workers: *)
(* what the copy engine relies on when it records a result.                *)
THEOREM Refinement == Spec => RefinesAtomicCopy
<1>1. Init => Abstract!Init
  BY DEF Init, Abstract!Init, InCall
<1>2. IInv /\ [Next]_vars => [Abstract!Next]_(Abstract!vars)
  <2> SUFFICES ASSUME IInv, [Next]_vars PROVE [Abstract!Next]_(Abstract!vars)
    OBVIOUS
  <2>1. ASSUME NEW f \in Files, CallCopy(f) PROVE Abstract!Next
    BY <2>1, BeginStep DEF Abstract!Next
  <2>2. CASE Engaged /\ dest' = [dest EXCEPT ![cfile] = Size[cfile]]
             /\ UNCHANGED <<cpc, resume, cfile, outcome>>
    BY <2>2, PublishStep DEF Abstract!Next
  <2>3. CASE (Receive \/ Fork \/ Raise) /\ InCall /\ ~InCall'
    BY <2>3, ReturnStep DEF Abstract!Next
  <2>4. CASE UNCHANGED dest /\ ~((Receive \/ Fork \/ Raise) /\ InCall /\ ~InCall')
             /\ ~(\E f \in Files : CallCopy(f))
    <3>1. UNCHANGED cfile /\ InCall' = InCall /\ (InCall \/ UNCHANGED outcome)
      <4> USE DEF vars, copyVars, InCall
      <4>1. CASE CopyThread \/ Stall
        BY <2>4, <4>1 DEF CopyThread, Stall, Ensure, NewQueues, NewResults,
           NewProcess, Fork, Raise, Put, Abort, KeepWaiting, Goto, Get, Receive, Answer,
           PollTimesOut, PollAgain, WorkerFoundDead, Kill, Clean, GiveUp, IInv,
           TypeOK
      <4>2. CASE StartPass \/ EndPass
        BY <4>2 DEF StartPass, EndPass, Goto
      <4>3. CASE Quit \/ Shutdown
        BY <4>3 DEF Quit, Shutdown, ShutdownTest, ShutdownPut, ShutdownJoin,
           ShutdownSignal, ShutdownClose, QuitGoto, quitLeaves
      <4>4. ASSUME NEW w \in Workers, Worker(w) PROVE UNCHANGED copyVars
        BY <4>4 DEF Worker, WorkerGet, WorkerOpen, WorkerChunk, AtEof,
           WorkerReplace, Replace, WorkerDone, WorkerFails, WorkerExcept,
           WorkerDies, DoomedDies, workerLeaves
      <4> QED BY <2>4, <4>1, <4>2, <4>3, <4>4 DEF Next
    <3> QED BY <2>4, <3>1 DEF Abstract!vars
  <2> QED BY <2>1, <2>2, <2>3, <2>4, DestStep
<1> QED
  BY <1>1, <1>2, Invariance, PTL DEF Spec, RefinesAtomicCopy, Abstract!Spec

===============================================================================
