------------------------------ MODULE StatusTree ------------------------------
(***************************************************************************)
(* The coloured tree: SalvageTree of src/salvage/tree_widget.py, kept up   *)
(* to date from the copy thread by the callbacks of src/salvage/app.py,    *)
(* while the event loop serves "c", "p", "r", "q" and opens folders.       *)
(*                                                                         *)
(* The copy thread commits a row first and then posts a callback with      *)
(* call_from_thread, which blocks it until the event loop has run it.  In  *)
(* between the loop may serve a key: "r" is a commit and then a rebuild of *)
(* the counts from the table (rehydrate).  "q" during a pass starts a      *)
(* thread, which posts a callback too, unless shutdown raises in it        *)
(* (CopySupervisor).  A line of the tree is drawn again only after a       *)
(* refresh of its node.                                                    *)
(*                                                                         *)
(* Every file is selected.  What a pass does apart from rows and callbacks *)
(* is in CopyEngine.                                                       *)
(***************************************************************************)
EXTENDS Integers, FiniteSets

CONSTANTS
  Files,       \* the files
  Dirs,        \* the directories
  Root,        \* the directory at the top
  Above,       \* Above[n]: the directories above the file or directory n
  SourceHangs, \* may a system call on the source hang?
  FirstRows,   \* what the rows of the files may be when the program starts
  MaxPasses,   \* bound: passes started
  MaxRetries   \* bound: times "r" is pressed

Nodes == Files \cup Dirs

ASSUME TreeAssumption ==
  /\ Files \cap Dirs = {} /\ Root \in Dirs
  /\ Above \in [Nodes -> SUBSET Dirs]
  /\ Above[Root] = {} /\ \A n \in Nodes \ {Root} : Root \in Above[n]
ASSUME BoundsAssumption == MaxPasses \in Nat /\ MaxRetries \in Nat
ASSUME FiniteAssumption == IsFiniteSet(Files)

VARIABLES
  row,       \* copy_state: the status of a file, "none" without a row
  badDirs,   \* the directories whose own row is failed
  ppc,       \* where the copy thread is, see Posted
  subject,   \* the file, or directory, that it has in hand
  result,    \* the status of the event that it reports
  todo,      \* the files that the pass has not come to
  copying,   \* self.copying
  stop,      \* stop_event
  pause,     \* pause_event
  loop,      \* the event loop: "free", "retry" inside "r", "hung", "exited"
  qpc,       \* quitting: "none", "killing", "killed", "done", "raised"
  counted,   \* _file_status, "none" for a file that is not in it
  agg,       \* agg[d][s]: files below d counted as s
  opened,    \* populated: the folder shows what is in it
  dirty,     \* the nodes that have been refreshed and not drawn since
  drawn,     \* the colours on the screen
  passes, retries,
  raced,     \* history: files that "r" reset before their event had arrived
  untold     \* history: directories whose row changed with no callback

table == <<row, badDirs>>
pass == <<ppc, subject, result, todo>>
events == <<stop, pause>>
app == <<copying, events, loop, qpc>>
tree == <<counted, agg, opened>>
screen == <<dirty, drawn>>
bounds == <<passes, retries>>
history == <<raced, untold>>
vars == <<table, pass, app, tree, screen, bounds, history>>

Status == {"pending", "in_progress", "success", "failed", "skipped"}
Keys == Status \cup {"aborted"}
Colours == {"plain", "cyan", "green", "red", "yellow"}

ASSUME RowsAssumption == FirstRows \subseteq [Files -> Status \cup {"none"}]

-------------------------------------------------------------------------------
(* The tree                                                                *)

FilesBelow(d) == {f \in Files : d \in Above[f]}

Children(d) == {n \in Nodes : d \in Above[n] /\ Above[n] \subseteq Above[d] \cup {d}}

Loaded == {Root} \cup UNION {Children(d) : d \in {e \in Dirs : opened[e]}}

Count(d, statuses) == [s \in Keys |-> Cardinality({f \in FilesBelow(d) : statuses[f] = s})]

(* A mutant: a failure is hidden by what is being copied.                  *)
CyanFirst(d) ==
  IF d \in badDirs THEN "red"
  ELSE IF \A s \in Keys : agg[d][s] = 0 THEN "plain"
  ELSE IF agg[d]["in_progress"] > 0 THEN "cyan"
  ELSE IF agg[d]["failed"] > 0 THEN "red"
  ELSE IF agg[d]["pending"] > 0 \/ agg[d]["skipped"] > 0 THEN "yellow" ELSE "green"

(* _dir_style                                                              *)
DirStyle(d) ==
  IF d \in badDirs \/ agg[d]["failed"] > 0 THEN "red"
  ELSE IF \A s \in Keys : agg[d][s] = 0 THEN "plain"
  ELSE IF agg[d]["in_progress"] > 0 THEN "cyan"
  ELSE IF agg[d]["pending"] > 0 \/ agg[d]["skipped"] > 0 THEN "yellow"
  ELSE "green"

(* _file_style                                                             *)
FileStyle(f) ==
  CASE row[f] = "in_progress" -> "cyan"
    [] row[f] = "success" -> "green"
    [] row[f] = "failed" -> "red"
    [] row[f] = "skipped" -> "yellow"
    [] OTHER -> "plain"

Style(n) == IF n \in Dirs THEN DirStyle(n) ELSE FileStyle(n)

(* A mutant: the node itself is refreshed, its ancestors are not.          *)
RefreshNode(n) == dirty' = dirty \cup ({n} \cap Loaded)

(* refresh_path_chain                                                      *)
RefreshChain(n) == dirty' = dirty \cup (({n} \cup Above[n]) \cap Loaded)

(* A mutant: the caller guesses the prior status.                          *)
PriorGuessed(f) == IF ppc = "started" THEN "pending" ELSE "in_progress"

Prior(f) == counted[f]

(* _bump_ancestors, for the old status and for the new one                 *)
Moved(f, old, new) ==
  [d \in Dirs |-> [s \in Keys |->
     IF d \notin Above[f] THEN agg[d][s]
     ELSE agg[d][s] + (IF s = new THEN 1 ELSE 0) - (IF s = old THEN 1 ELSE 0)]]

(* record_status_change                                                    *)
Record(f, s) ==
  IF Prior(f) = s THEN UNCHANGED <<counted, agg, dirty>>
  ELSE /\ agg' = Moved(f, Prior(f), s)
       /\ counted' = [counted EXCEPT ![f] = s]
       /\ RefreshChain(f)

Agree(f) == counted[f] = row[f] \/ (counted[f] = "aborted" /\ row[f] = "skipped")
-------------------------------------------------------------------------------
TypeOK ==
  /\ row \in [Files -> Status \cup {"none"}] /\ badDirs \subseteq Dirs
  /\ ppc \in {"idle", "walk", "taken", "started", "copying", "told", "dirtold",
             "fix", "finished", "hung", "stuck"}
  /\ subject \in Nodes /\ result \in Keys \cup {"already_done"} /\ todo \subseteq Files
  /\ copying \in BOOLEAN /\ stop \in BOOLEAN /\ pause \in BOOLEAN
  /\ loop \in {"free", "retry", "hung", "exited"}
  /\ qpc \in {"none", "killing", "killed", "done", "raised"}
  /\ counted \in [Files -> Keys \cup {"none"}]
  /\ agg \in [Dirs -> [Keys -> 0..Cardinality(Files)]]
  /\ opened \in [Dirs -> BOOLEAN]
  /\ dirty \subseteq Loaded /\ drawn \in [Nodes -> Colours]
  /\ passes \in 0..MaxPasses /\ retries \in 0..MaxRetries
  /\ raced \subseteq Files /\ untold \subseteq Dirs

(* on_mount: the tree is built from the table that earlier starts left.    *)
Mounted ==
  /\ row \in FirstRows /\ badDirs = {}
  /\ ppc = "idle" /\ subject = Root /\ result = "pending" /\ todo = {}
  /\ copying = FALSE /\ pause = FALSE /\ loop = "free"
  /\ counted = row /\ agg = [d \in Dirs |-> Count(d, row)]
  /\ opened = [d \in Dirs |-> d = Root]
  /\ dirty = Loaded /\ drawn = [n \in Nodes |-> "plain"]
  /\ passes = 0
  /\ raced = {} /\ untold = {}

Init == Mounted /\ stop = FALSE /\ qpc = "none" /\ retries = 0

-------------------------------------------------------------------------------
(* The copy thread                                                         *)

passLeaves == <<app, tree, screen, bounds, history>>

SetRow(f, s) == row' = [row EXCEPT ![f] = s] /\ UNCHANGED badDirs

(* f is the next file: no stop is on, and no pause.                        *)
Comes(f) == ppc = "walk" /\ f \in todo /\ ~stop /\ ~pause

Take(f) ==
  /\ Comes(f)
  /\ ppc' = "taken" /\ subject' = f /\ todo' = todo \ {f}
  /\ SetRow(f, IF row[f] = "none" THEN "pending" ELSE row[f])
  /\ UNCHANGED <<result, passLeaves>>

AlreadyDone(f) ==
  /\ Comes(f) /\ row[f] = "success"
  /\ ppc' = "told" /\ subject' = f /\ result' = "already_done" /\ todo' = todo \ {f}
  /\ UNCHANGED <<table, passLeaves>>

(* A mutant: the status of the event is stored as it is.                   *)
RowVerbatim(s) == s

(* mark_success, mark_failed, mark_skipped                                 *)
RowOf(s) == IF s = "aborted" THEN "skipped" ELSE s

Tell(s) ==
  /\ SetRow(subject, RowOf(s))
  /\ ppc' = "told" /\ result' = s
  /\ UNCHANGED <<subject, todo, passLeaves>>

(* A link, a special file, or a stat that fails: no callback at the start. *)
Direct == ppc = "taken" /\ \E s \in {"success", "failed", "skipped"} : Tell(s)

MarkInProgress ==
  /\ ppc = "taken" /\ ppc' = "started"
  /\ SetRow(subject, "in_progress")
  /\ UNCHANGED <<subject, result, todo, passLeaves>>

(* copy_file returns.                                                      *)
Outcome ==
  /\ ppc = "copying"
  /\ \E s \in {"success", "failed"} \cup (IF stop THEN {"aborted"} ELSE {}) : Tell(s)

(* onerror, before stop_event is looked at: nothing below d is visited.    *)
DirError(d) ==
  /\ ppc = "walk" /\ FilesBelow(d) \subseteq todo
  /\ ppc' = "dirtold" /\ subject' = d /\ todo' = todo \ FilesBelow(d)
  /\ badDirs' = badDirs \cup {d}
  /\ UNCHANGED <<row, result, passLeaves>>

Goto(pc) == ppc' = pc /\ UNCHANGED <<table, subject, result, todo, passLeaves>>

(* The walk is over or stopped.                                            *)
WalkEnds == ppc = "walk" /\ (todo = {} \/ stop) /\ Goto("fix")

(* mkdir raises in the walk or before a copy, or copy_file does.           *)
PassRaises == ppc \in {"walk", "copying"} /\ Goto("fix")

(* A scandir, lstat, stat or, with a file in hand, readlink on the source  *)
(* never returns.                                                          *)
Hang ==
  /\ SourceHangs
  /\ \/ ppc = "walk" /\ Goto("hung")
     \/ ppc = "taken" /\ Goto("stuck")

Hung == ppc \in {"hung", "stuck"}

(* _fix_directory_timestamps: rows of directories become successes or      *)
(* failures.  The root has no time of its own in the table.                *)
FixDirs ==
  /\ ppc = "fix" /\ ppc' = "finished"
  /\ \E bad \in SUBSET Dirs :
       /\ Root \in bad <=> Root \in badDirs
       /\ badDirs' = bad
       /\ untold' = untold \cup (bad \ badDirs) \cup (badDirs \ bad)
  /\ UNCHANGED <<row, subject, result, todo, app, tree, screen, bounds, raced>>

PassStep ==
  \/ \E f \in Files : Take(f) \/ AlreadyDone(f)
  \/ Direct \/ MarkInProgress \/ Outcome \/ WalkEnds \/ FixDirs

(* What may go wrong in a pass.                                            *)
Mishap == (\E d \in Dirs : DirError(d)) \/ PassRaises \/ Hang

-------------------------------------------------------------------------------
(* The callbacks, which the event loop runs while the copy thread waits.   *)
(* Once the application exits they run or raise in the copy thread.        *)

(* A mutant: once "q" has been pressed the loop waits for the other thread.*)
ServesUntilQuit == loop = "free" /\ qpc = "none"

Serves == loop \in {"free", "exited"}

callbackLeaves == <<table, subject, result, todo, events, loop, qpc, opened, drawn, bounds,
                    untold>>

Update(s) ==
  /\ Record(subject, s)
  /\ raced' = IF Prior(subject) # s /\ row[subject] = RowOf(s) THEN raced \ {subject} ELSE raced

OnFileStart ==
  /\ Serves /\ ppc = "started" /\ ppc' = "copying"
  /\ Update("in_progress")
  /\ UNCHANGED <<copying, callbackLeaves>>

OnFileDone ==
  /\ Serves /\ ppc = "told" /\ ppc' = "walk"
  /\ IF result = "already_done" THEN UNCHANGED <<counted, agg, dirty, raced>>
     ELSE Update(result)
  /\ UNCHANGED <<copying, callbackLeaves>>

OnDirError ==
  /\ Serves /\ ppc = "dirtold" /\ ppc' = "walk"
  /\ RefreshChain(subject)
  /\ UNCHANGED <<copying, counted, agg, raced, callbackLeaves>>

OnCopyFinished ==
  /\ Serves /\ ppc = "finished" /\ ppc' = "idle"
  /\ copying' = FALSE
  /\ UNCHANGED <<counted, agg, dirty, raced, callbackLeaves>>

Raises ==
  /\ loop = "exited"
  /\ \/ ppc \in {"started", "told", "dirtold"} /\ ppc' = "fix"
     \/ ppc = "finished" /\ ppc' = "idle"
  /\ UNCHANGED <<copying, counted, agg, dirty, raced, callbackLeaves>>

Callback == OnFileStart \/ OnFileDone \/ OnDirError \/ OnCopyFinished \/ Raises

-------------------------------------------------------------------------------
(* The keys                                                                *)

Start ==
  /\ loop = "free" /\ ~copying /\ passes < MaxPasses
  /\ copying' = TRUE /\ stop' = FALSE /\ pause' = FALSE
  /\ ppc' = "walk" /\ todo' = Files
  /\ passes' = passes + 1
  /\ UNCHANGED <<table, subject, result, loop, qpc, tree, screen, retries, history>>

(* "r": reset_failed_to_pending commits ...                                *)
Retry ==
  /\ loop = "free" /\ retries < MaxRetries
  /\ loop' = "retry" /\ retries' = retries + 1
  /\ row' = [f \in Files |-> IF row[f] = "failed" THEN "pending" ELSE row[f]]
  /\ badDirs' = {}
  /\ raced' = raced \cup {f \in Files : ppc = "told" /\ subject = f /\ row[f] = "failed"}
  /\ untold' = untold \cup badDirs
  /\ UNCHANGED <<pass, copying, events, qpc, tree, screen, passes>>

(* A mutant: "r" leaves the tree as it is.                                 *)
NoRehydrate == loop = "retry" /\ loop' = "free"
               /\ UNCHANGED <<table, pass, copying, events, qpc, tree, screen, bounds, history>>

(* ... and rehydrate counts the table again.                               *)
Rehydrate ==
  /\ loop = "retry" /\ loop' = "free"
  /\ counted' = row /\ agg' = [d \in Dirs |-> Count(d, row)]
  /\ dirty' = Loaded
  /\ raced' = {f \in raced : ppc = "told" /\ subject = f} /\ untold' = {}
  /\ UNCHANGED <<table, pass, copying, events, qpc, opened, drawn, bounds>>

(* _populate_children.  A folder that cannot be listed gets a leaf for the *)
(* error and nothing else: it is one that is never opened.                 *)
Expand(d) ==
  /\ loop = "free" /\ d \in Loaded /\ ~opened[d]
  /\ opened' = [opened EXCEPT ![d] = TRUE]
  /\ dirty' = dirty \cup (Loaded' \ Loaded)
  /\ UNCHANGED <<table, pass, app, counted, agg, drawn, bounds, history>>

(* The listing, which the event loop makes itself, does not return.        *)
ExpandHangs(d) ==
  /\ SourceHangs
  /\ loop = "free" /\ d \in Loaded /\ ~opened[d]
  /\ loop' = "hung"
  /\ UNCHANGED <<table, pass, copying, events, qpc, tree, screen, bounds, history>>

Draw ==
  /\ loop = "free" /\ dirty # {}
  /\ drawn' = [n \in Nodes |-> IF n \in dirty THEN Style(n) ELSE drawn[n]]
  /\ dirty' = {}
  /\ UNCHANGED <<table, pass, app, tree, bounds, history>>

(* "p" while a pass runs.                                                  *)
TogglePause ==
  /\ loop = "free" /\ copying
  /\ pause' = ~pause
  /\ UNCHANGED <<table, pass, copying, stop, loop, qpc, tree, screen, bounds, history>>

(* "q": at once when no pass runs, by way of a thread otherwise.  It works *)
(* again after a thread has ended with an exception.                       *)
Quit ==
  /\ loop = "free" /\ qpc \in {"none", "raised"}
  /\ stop' = TRUE
  /\ IF copying THEN qpc' = "killing" /\ UNCHANGED loop
     ELSE qpc' = "done" /\ loop' = "exited"
  /\ UNCHANGED <<table, pass, copying, pause, tree, screen, bounds, history>>

(* stop_and_shutdown returns in that thread ...                            *)
ShutDown ==
  /\ qpc = "killing" /\ qpc' = "killed"
  /\ UNCHANGED <<table, pass, copying, events, loop, tree, screen, bounds, history>>

(* ... or raises, having met a process that _spawn, in start or copy_file, *)
(* has not started yet: the thread ends and posts nothing ...              *)
ShutDownRaises ==
  /\ qpc = "killing" /\ ppc \in {"walk", "copying"}
  /\ qpc' = "raised"
  /\ UNCHANGED <<table, pass, copying, events, loop, tree, screen, bounds, history>>

(* ... and the event loop runs the exit that it has posted.                *)
Exit ==
  /\ qpc = "killed" /\ Serves
  /\ qpc' = "done" /\ loop' = "exited"
  /\ UNCHANGED <<table, pass, copying, events, tree, screen, bounds, history>>

-------------------------------------------------------------------------------
Next ==
  \/ PassStep \/ Mishap \/ Callback
  \/ Start \/ Retry \/ Rehydrate \/ Draw
  \/ \E d \in Dirs : Expand(d) \/ ExpandHangs(d)
  \/ TogglePause \/ Quit \/ ShutDown \/ ShutDownRaises \/ Exit

Spec == Init /\ [][Next]_vars

(* The copy thread runs unless it is hung or paused, copy_file returns     *)
(* (CallReturns), the quitting thread comes out of shutdown one way or the *)
(* other, and the event loop comes to what has been posted to it unless it *)
(* is hung.                                                                *)
Fairness ==
  /\ WF_vars(PassStep) /\ WF_vars(Callback)
  /\ WF_vars(Rehydrate) /\ WF_vars(ShutDown \/ ShutDownRaises) /\ WF_vars(Exit)

FairSpec == Spec /\ Fairness

-------------------------------------------------------------------------------
(* Properties                                                              *)

(* The files whose row may be ahead of the tree: the one in hand, and one  *)
(* that "r" has reset under an event in flight.                            *)
Ahead == raced \cup (IF ppc \in {"taken", "stuck", "started", "told"} THEN {subject} ELSE {})

(* Whatever order callbacks and rebuilds come in, the counts of a          *)
(* directory add up to the statuses last counted (tree_widget.py:133-144). *)
CountsAgree == \A d \in Dirs : agg[d] = Count(d, counted)

(* And these are those of the table, over passes, retries and early ends.  *)
TreeCurrent == loop = "free" => \A f \in Files \ Ahead : Agree(f)

(* A failure is red in every loaded directory above it, whatever else goes *)
(* on below that (tree_widget.py:155).                                     *)
RedWhenFailed ==
  loop = "free" => \A f \in Files \ Ahead : row[f] = "failed" =>
    \A d \in (Above[f] \cap Loaded) \ dirty : drawn[d] = "red"

(* Every node whose line would look different now has been refreshed       *)
(* (tree_widget.py:83-88), but for rows that changed without a callback.   *)
NoStaleLine ==
  loop = "free" /\ ppc # "dirtold" =>
    \A n \in Loaded \ (dirty \cup Ahead \cup untold) : drawn[n] = Style(n)

(* "q" during a pass ends the program and the pass, though the copy thread *)
(* and the quitting thread both wait for the event loop (app.py:140-152).  *)
(* Excepted are a thread that shutdown has raised in, a copy thread or an  *)
(* event loop hung in a system call on the source, and a copy thread that  *)
(* is paused in a pass begun since the "q", which has cleared stop_event.  *)
QuitEnds ==
  qpc = "killing" ~>
    \/ loop = "exited" /\ (ppc = "idle" \/ Hung \/ (pause /\ ~stop))
    \/ qpc = "raised" \/ loop = "hung"
===============================================================================
