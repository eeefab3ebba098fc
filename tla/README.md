# A TLA+ model of salvage (grim-disk-reader)

`salvage` copies the selected part of a dying disk to a healthy one. A text
interface starts *passes* over the source tree; each pass copies one file after
another through a worker process that can be killed when a read never returns;
what happened to each path is a row of an SQLite file, so that a later pass, or
a later start of the program, takes up where the last one stopped.

This directory holds the model of the program in TLA+, the TLC configurations that
check it on small instances, and proofs checked by TLAPS. Paths below are
relative to the repository root.

## Inventory

| component | state it keeps | operations | talks to |
|---|---|---|---|
| worker process, `salvage/worker.py` `_worker_main` | the task in hand, bytes written, `<dest>.salvage-tmp`, `<dest>` | take a task, open, chunk, `os.replace`, report done / error / progress, stop | two queues shared with the supervisor; the disk |
| supervisor, `worker.py` `CopySupervisor` | `_proc`, `_task_q`, `_result_q` | `start`, `copy_file`, `_spawn`, `_kill`, `_kill_and_respawn`, `shutdown` | the worker; called by the copy thread and, at the same time, by the thread that quits |
| copy engine, `copier.py` | position of `os.walk`, file in hand | `run`: list, prune, `_ensure_dest_dir`, `_copy_one` (symlink, stat failure, special file, already done, copy), `_copy_symlink`, `_fix_directory_timestamps` | selection, state database, supervisor, manifest stubs, events to the interface |
| state database, `state_db.py` | `meta`, `selection`, `copy_state` | one commit per operation, one lock | everybody, from every thread |
| selection, `selection.py` | overrides in `selection` | `effective`, `any_include_below`, `toggle`, `set` (two commits for a directory) | the tree (toggle), the engine (read) |
| status tree, `tree_widget.py` | `agg`, `_file_status`: counts per directory kept from events | `record_status_change`, `rehydrate`, styles | events of the engine, the `r` key, the table |
| reports, `report.py` | stub files, the YAML dump | `write_manifest_stub`, `build_tree_report` | table, selection, source tree |
| application, `app.py` | `stop_event`, `pause_event`, `copying` | `c`, `p`, `r`, `y`, `q` | all of the above; the copy thread calls back with `call_from_thread` |
| command line, `__main__.py` | the `roots` row of `meta`, of the program that came first | checks the two paths, opens the state file, compares or records its roots, runs the interface or dumps | other programs started on the same file |
| `scripts/mount-ro.sh` | a loop device, a mount | mounts read-only | the system |

Three kinds of thread touch this state: the interface's event loop (keys,
callbacks), the copy thread (one pass at a time), and a thread made by `q` while
a pass runs. The worker is a process of its own. The hard behaviours follow
from that:

- a wedged read makes the worker unkillable; the supervisor gives it up and
  starts another on the same destination;
- a stall, an abort or a dead worker is noticed while an answer may already be
  in the queue, and messages name no task;
- `shutdown` kills the worker and closes the queues under a running
  `copy_file`, which may just be starting a new worker;
- `c`, `p`, `r`, `q` fall between any two commits of a pass;
- the program, or the machine, dies between two commits, and the next start
  trusts the table; when only the parent is killed its worker goes on, beside
  the worker of the next start;
- the copy thread blocks in `call_from_thread` until the event loop has served
  it, so a callback is always behind the table that the loop reads for `r`;
- an answer about a path is put together from several queries, while `space` and
  `r` commit between them: `effective` and `any_include_below`, the row and the
  file of a report;
- any listing, `stat`, `readlink`, `utime`, `mkdir` or `unlink` fails;
- a listing, `stat` or `readlink` on the source, which the copy thread, or the event loop,
  makes itself and not in the worker, may also never return.

What makes each component correct: the supervisor's `copy_file` is atomic to its
caller, always returns, and leaves nobody writing; the engine's table claims only
copies that exist, a finished pass has an answer for every selected file, a stop
or pause is obeyed (unless the copy thread hangs); the selection's pruning loses nothing; the status tree and
the reports agree with the table. `PROJECT.json` lists the hazards with their
lines.

## Modules

| module | what it is |
|---|---|
| `AtomicCopy` | abstract specification of `copy_file`: a call publishes the whole file or nothing, before it returns; success needs the whole file |
| `CopySupervisor` | the worker processes, the supervisor, the copy thread inside it and the quitting thread; refines `AtomicCopy` |
| `CopySupervisorProofs` | the theorems about `CopySupervisor` |
| `MCCopySupervisor` | instances for TLC |
| `CopyEngine` | a pass, the `copy_state` table and the keys; calls `AtomicCopy` (by `INSTANCE`, on the same variables) where the code calls `copy_file` |
| `DenseSelection` | abstract specification of the selection: one flag for each path, a toggle levels a subtree |
| `Selection` | the overrides, toggles commit by commit, a reader query by query, deaths; refines `DenseSelection` |
| `StatusTree` | the coloured tree, the callbacks it lives on, and the keys of the event loop |
| `Report` | manifest stubs and the tree dump beside a pass |
| `TempFile` | the temporary file as names and inodes, with workers that outlive their program |
| `Startup` | the roots check of programs started on one state file |
| `CopyEngineProofs`, `SelectionProofs`, `StatusTreeProofs`, `ReportProofs`, `TempFileProofs`, `StartupProofs` | the theorems about the module each is named for |
| `MCCopyEngine`, `MCSelection`, `MCStatusTree`, `MCReport`, `MCTempFile`, `MCStartup` | instances for TLC |

The supervisor and the engine meet in `AtomicCopy`: the supervisor is shown to
implement it, and the engine is checked against it. The engine relies on two things more,
that `copy_file` says "aborted" only to a pass that is being stopped, and raises only after
a `shutdown`: that is `AnswersHaveCause`, of `CopySupervisor`. An exception does not need
`stop_event`: `c` clears it again when the pass is over before `shutdown` is, and the queues
are then closed under the new pass. The other modules each take
one more actor beside the pass, and keep of the pass what that actor can see:
`Selection` its queries, `StatusTree` its rows and callbacks, `Report` its rows,
copies and stubs, `TempFile` its calls. The operators that begin
with "A mutant" in their comment are plausible wrong versions of the definition
that follows; no specification uses them. Each property is known to fail when
its mutant takes the place of the original.

### CopySupervisor and worker.py

| variable | code |
|---|---|
| `proc`, `queues`, `closed` | `self._proc`, which may not have been started yet (`Unstarted`); whose queues `_task_q`/`_result_q` are; whether the parent has closed them |
| `taskQ[w]`, `resultQ[w]` | the contents of the two queues of process `w`; `Stop` is `_STOP` |
| `wpc[w]`, `wfile[w]`, `wdone[w]` | where `w` is in `_worker_main`, its `dest`, its `total` in chunks |
| `tmp[f]`, `dest[f]` | the file under the temporary and the final name: none, a number of leading chunks, or foreign bytes |
| `cpc`, `cfile`, `outcome` | where the copy thread is in `copy_file`, for which file, what it returned |
| `resume`, `verdict` | where `_spawn` returns to; what is returned after `_kill_and_respawn` |
| `spc`, `inline` | where `shutdown` is; whether it runs on the main thread |
| `stop`, `passes` | `stop_event`; passes so far |

`copy_file` is cut where another thread can come between: after the liveness
test, after `put`, at each test of `should_abort`, before and inside the timed
`get`, between `_kill`, the removal of the temporary file, the new queues, the
assignment of `self._proc` and its `start()`. `shutdown` is cut before each use of
`self._proc`, which it looks up again every time: it may begin with one process and go on with
another, and when that one is not started yet, `join`, `terminate` and `kill` raise
(`Touched`) and the thread ends (`spc = "raised"`). A process is `doomed` when it sleeps in a
system call that no signal interrupts: the joins of `_kill` time out, it still
counts as alive, and it runs no more code. Killing a process loses a suffix of
what it has put, which may have been in its feeder thread's buffer; for the same
reason a `get` may time out whatever the queue holds. A process identity is used
again once it is dead and no handle refers to it.

Abstractions: the joins of `_kill` are folded into the step that kills when the copy thread
runs it, for nobody else replaces its process; the two new queues are assigned in one
step; `fork` gives the new
process queues that work even if the parent's ends have been closed; a second `q`
while the first is at work is left out, one after a `shutdown` that has raised is not; a write through a descriptor whose name
has been removed leaves no name behind, as on a real file system, but the model
does not tell two files of the same name apart. A doomed process that sleeps in
creating its temporary file could do so after the clean-up; the model lets
unkillable sleep end without effect. The death of the parent alone, which leaves
a worker running beside the next program's, is in `TempFile`.

### CopyEngine, copier.py and state_db.py

| variable | code |
|---|---|
| `status[x]`, `timed[d]` | `copy_state.status` of a path, `none` without a row; whether the row of a directory has an mtime |
| `call`, `last`, `dest`, `outcome` | `AtomicCopy`'s: the running `copy_file` and the copied files |
| `link[x]`, `dirTime[d]` | destination links; whether a destination directory is missing, has the time of the last change in it, or that of the source |
| `epc`, `cur`, `dirsLeft`, `entries`, `fixes`, `dying` | where the pass is, `"hung"` in a call on the source that does not return |
| `stop`, `pause` | the two events |
| `quitting` | the thread that `q` started under a pass is in `shutdown`, or has been |
| `event`, `unlisted`, `requeued`, `whole`, `late`, `copied` | history: what the pass reported, which listings failed, what `r` reset, whether the walk came to its end, files begun since the pause, copies recorded and not lost since |

The order in which `os.walk` and `sort` take names is left open. The selection
is a constant set, read as `effective()`; a directory is kept when it is selected
or has a selected path at or below it. Directories that are symbolic links
(`DirLinks`) are among those `os.walk` reports and does not follow. What is below a
directory is given by a constant, `Up[x]`, the path and the directories above it, with
assumptions that make it a tree of finite depth. `Crash` takes the program
and its workers, leaves the table and the destination, and the next `StartPass`
is that of the restarted program; a clean exit after `q` is a `StartPass`
likewise. `LoseCopy` is the user removing or replacing a copy between passes,
perhaps by one of the same size, which the program cannot see. `bytes_copied`,
`attempts`, errors and stubs are left out; `lstat` and `stat` of one file are
assumed to agree on whether it is a link. The two commits of a directory
that cannot be listed are one step, and so are a `symlink` and the commit right
behind it. `DestRaises` and `FixRaises` are the exceptions that leave a pass: `mkdir`,
`exists` and `is_dir` at the destination. `Hang` is a system call of the copy thread on the
source (`OnSource`: listing, `lstat`, `stat`, `readlink`) that does not return; with
`SourceHangs` it may happen at each of them. At a directory it comes before the `mkdir`,
which in the code precedes the `stat`. The calls on the destination and the state file
return.

### Selection and selection.py, state_db.py, tree_widget.py

| variable | code |
|---|---|
| `override[p]` | the row of `p` in `selection` |
| `upc`, `target`, `flag` | `toggle` of a directory between `clear_selection_overrides_under` and `set_selection_override` |
| `rpc`, `rpath`, `rat`, `answer` | a walk that asks `effective` (one query for each directory on the way up) and then `any_include_below` |
| `before`, `steady`, `held` | history: what was selected when the toggle began; what has been on, or off, ever since the reader began |

Only the event loop writes the table, so the `effective` that a toggle starts with
is read in one step. A path is a model value in a tree; what its name does is in one
constant, `Like[d]`, the paths that SQLite's `LIKE` takes for something under `d`.
`LikeExact` says that these are those below `d`, which is so unless names differ in
the case of ASCII letters only or contain a backslash. Checkboxes (`Glyph`) and the
nodes a toggle refreshes (`Refreshed`) are those of `tree_widget.py`. `CopyEngine`
takes the effective selection as a constant set; what becomes of a pass while it
changes is asked here of one path at a time.

### StatusTree and tree_widget.py, app.py

| variable | code |
|---|---|
| `row[f]`, `badDirs` | `copy_state` of the files; the directories whose row is failed |
| `ppc`, `subject`, `result`, `todo` | the copy thread: where it is, its file, the status of the event it reports |
| `copying`, `stop`, `pause`, `loop`, `qpc` | `self.copying`, `stop_event`, `pause_event`, what the event loop is in (a key that takes two steps, a listing that hangs, after the exit), the thread that `q` starts |
| `counted[f]`, `agg[d][s]`, `opened[d]` | `_file_status`, `agg`, the folders that show what is in them |
| `dirty`, `drawn[n]` | nodes that have been refreshed and not drawn since; the colours on the screen |
| `raced`, `untold` | history: files that `r` reset under an event in flight; directories whose row changed without a callback |

A pass is reduced to its commits and callbacks; every callback is a step of the loop
that the copy thread waits for, and once the application has exited it runs or
raises. `r` is two steps, the commit and `rehydrate`, because the copy thread
commits in between. What may go wrong in a pass (`Mishap`) is a directory that cannot be
listed, an exception that leaves the walk, and a call on the source that never returns.
`shutdown` in the thread of `q` returns or raises (`ShutDownRaises`; `CopySupervisor` has
it in detail): after that nothing is posted, and `q` works again. Opening a folder lists it in the event
loop: it may hang there (`ExpandHangs`), and a folder that cannot be listed shows a leaf for
the error and is like one that was never opened. The text of a line is left out, its colour is `Style`.

### Report and report.py, copier.py

`row`, `copied` and `selected` are the table, the destination and the selection;
`stub[f]` and `dump[f]` what is told of a file (status, whether the copy exists,
whether it is selected), or `Absent`, or `Torn` by a death or a full disk.
One way in which a stub is refused is that another is in its place: that of `a` is called
`a.txt`, as is the directory that the stub of `a.txt/b` needs.
`file_record` is two steps, the row and then the file, on the copy thread
(`ppc`, `file`, `data`) and on the thread of a dump (`dpc`, `dfile`, `entry`), which asks
for the selection in a third. A copy that has been made stays: what `CopyEngine!LoseCopy`
does, somebody removing one, has no counterpart here, so `SuccessToldWithCopy` is about
the two reads and a pass, not about the user. Left out: sizes, times, errors, YAML, entries of
directories and links.

### TempFile and worker.py

`names[n]` is the inode behind a name, `data[i]` the content of an inode, chunk by
chunk, each with the file it comes from; `fd[w]`, `off[w]` the descriptor of worker
`w`. `open(tmp, "wb")` truncates whatever has the name, `os.replace` moves whatever has
the name, and inodes are used again once nobody has them. `Killed` takes the program
and leaves its worker. The supervisor is reduced to begin, answer, give up; a pass to the
begin of a file in any order. `late` is history: the files that an
orphan opened while another worker had them open.

### Startup and __main__.py, state_db.py

`meta` is the `roots` row, `writer` who holds SQLite's lock for writing between
an insert and its commit, `pc[p]` where a program is in `main`: the checks of its paths,
the schema, the query, then the insert and the commit or the comparison, and whether
it runs, was refused or died of an exception nobody catches.

## Runs

| run | instance | shows |
|---|---|---|
| `supervisor_safety` | 2 files of 2 and 0 chunks, something else at the destination of the first, 4 processes (symmetric), 2 passes, 1 unkillable at a time | `TypeOK`, `SuccessIsComplete`, `NoStaleAnswer`, `AtMostOneWriter`, `NoLitter`, `DestNeverPartial`, `AnswersHaveCause`, refinement of `AtomicCopy` |
| `supervisor_liveness` | 1 file, 3 processes, 1 pass, 1 unkillable, a leftover temporary file, `unlink` may fail | `CallReturns`, `StopEndsPass` |
| `engine_recovery` | a device that is not selected, a link, a link to a directory, and a selected file in an unselected directory; 2 passes, 1 crash, 1 retry, 1 lost copy, `mkdir` may raise | `TypeOK`, `SuccessHasCopy`, `ReportHonest`, `AtMostOneStartAfterPause`, `EveryFileAccounted`, `DirTimesAfterFirstPass` |
| `engine_liveness` | a file in a directory, a link, a device, 2 passes, no crash and no retry (which makes failed rows pending: no guard of a pass tells the two apart); calls on the source may hang, those on the destination raise | `EveryFileAccounted`, `PassTerminates`, `StopEndsPaused` |
| `engine_dir_failure` | a file in a directory, 2 passes | counterexample to `FailuresKept` |
| `selection_toggles` | a directory in a directory, a file in each; toggles, walks and deaths without bound | `TypeOK`, `NoFalseCopy`, `NoFalseSkip`, `GlyphExact`, `CheckboxesRedrawn`, refinement of `DenseSelection` |
| `selection_held` | the same tree | counterexample to `HeldIsCovered` |
| `tree_callbacks` | a file in a folder and one beside it, the table of a pass stopped between them, 1 pass, 1 retry; begun also under the `shutdown` of an earlier quit; calls on the source may hang | `TypeOK`, `CountsAgree`, `TreeCurrent`, `RedWhenFailed`, `NoStaleLine`, `QuitEnds` |
| `report_told` | 1 file, 3 passes, 2 dumps, 1 death, 1 retry, toggles without bound | `TypeOK`, `StubCurrent`, `SuccessToldWithCopy` |
| `tempfile_orphans` | 1 file of 2 chunks, 3 workers, 4 inodes (both symmetric), deaths at any time | `TypeOK`, `SuccessIsWholeUnlessLate` |
| `tempfile_late` | the same with 2 workers | counterexample to `SuccessIsWhole` |
| `startup_race` | 4 programs (the same roots twice, another destination, a nested one), started without bound | `TypeOK`, `RunsOnItsRoots`, `RecordedOnce` |

Why the bounds are enough. Two files give a call and its successor, which is all
a stale answer needs; two chunks give a file that is neither empty nor whole, and
the empty file answers without progress. Four processes are the one in use, the
one that replaces it, one that is doomed and the idle one of the pass before; a fresh
process was available in every reached state that wants one. Two passes give
success in one and anything in the next; one crash, retry and loss each fall between any two steps of either pass,
and of each other. In `Selection` nothing is bounded but the tree: two levels give an
override between a path and the override that decides it, a subtree to clear, and a
sibling that must keep its own. In `StatusTree` the table at the start is
that of a pass stopped before it came to `f`, which leaves `g` to be `already_done`; every
other status arises in the pass, and one pass and one retry then meet in every order. For
`QuitEnds` a pass matters that is begun while the thread of an earlier `q` is still at work.
Two passes would be needed to come there, and more states than the time of a run allows, so
`MCSpec` also starts from `Quitting`: the first pass was stopped at once by that `q`, `r` has been pressed, and the pass is
over. The theorems about the invariants are for every table and any number of passes. `Report` looks at one file:
the stubs of two meet only where one is in the place of the other, which is a refused
stub. Three passes give a stub that is lost, found to be missing and written again.
Three workers are an orphan, a worker that has been given up and the
current one, or two orphans; 4 inodes are one for each and one under the final name.
Four programs are two that may run together and two that may not. `CHECK_DEADLOCK FALSE` everywhere: after a quit, or with the
bound on passes reached, the program is over.

Fairness. `CopySupervisor!FairSpec` says that the copy thread and the quitting
thread keep running, that the walk ends once it sees the stop, and that a
`copy_file` that comes back to its deadline for ever finds it passed (progress
messages are finitely many and the clock advances). It says nothing of workers: they may hang, and
nothing of the user. That the walk ends after a stop is an assumption about everything
outside `copy_file`, and the one thing it leaves out is a call of the copy thread on
the source that hangs; `StopEndsPass` says that a stop gets through `copy_file`.

`CopyEngine!FairSpec` says that `copy_file` returns, which is `CallReturns`, and that
the copy thread runs as long as it has something to run. In a call on the source that
does not return it has not: the code has no timeout there, so `Hang` may happen at each such
call, a hung pass has no step any more, and `PassTerminates` and `StopEndsPaused`
except it by name (divergence 4). That calls on the destination,
which is healthy, and on the state file return is assumed, and so is that the event loop serves the callbacks of the pass, on which the copy
thread waits: the loop lists folders of the source itself when they are opened, and may hang
in that, which is `ExpandHangs` of `StatusTree`. A paused pass has no enabled step and
no promise is made for it.

`StatusTree!FairSpec` says that the copy thread runs unless it is hung or paused, that
`copy_file` returns, that the quitting thread comes out of `shutdown`, by returning or by
raising, and that the event loop, unless it hangs, comes to what has been posted to it, `rehydrate` among
that; keys, folders, drawing and mishaps are not fair. `QuitEnds` names what it does
not promise: `shutdown` that raised, a copy thread or an event loop that hangs, and a copy
thread that is paused in a pass begun since the `q`. The other modules have no liveness properties: a toggle, a dump and a start are loops over
finite data that wait for nobody.

## Where the code and its documentation differ

Three have a run that shows them:

1. `engine_dir_failure`. `state_db.py:3-5`, "without [...] losing track of failures": a
   directory that has once succeeded and can no longer be listed is marked failed and, at
   the end of the same pass, successful again (`copier.py:86-93`, `273-282`).
2. `selection_held`. `README.md:85`, a pass is "over everything currently selected": a walk
   that asks between the two commits of a toggle finds neither the old nor the new override of
   a directory, and prunes what is selected before and after (`copier.py:106`).
3. `tempfile_late`. `state_db.py:3-5`, "a run can be killed [...] and resumed": a worker of a
   killed program that was held up in opening its file truncates the temporary file that
   the worker of the next start has written; the rename publishes it, and the row says
   success (`worker.py:46`).
The others follow from the definitions of the modules, which model the code that is there;
no run is kept for them, and the properties that are checked are stated so as to hold
beside them:

4. `README.md:22`, "A bad sector or stuck read doesn't hang the whole
   run": that holds of the reads of a file's content, in the worker. The listings,
   `stat`, `lstat` and `readlink` of the copy thread (`copier.py:97`, `157`, `178`, `185`,
   `259`) have no timeout; a pass that hangs in one sees no stop, and `q` makes the application
   exit over it. The listing of a folder that is opened (`tree_widget.py:210`) runs in the event
   loop, and hangs the interface (`Hang` in `CopyEngine`; `Hang`, `ExpandHangs` in `StatusTree`).
5. `README.md:89`, "Quit (safe mid-copy [...])": `_spawn` assigns `self._proc`
   before it starts the process (`worker.py:103-106`). When the copy thread gives its
   process up between two uses of it in `shutdown`, the next one (`worker.py:110-114`, `133`)
   meets an unstarted process and raises an `AssertionError` or `AttributeError`, which nobody
   takes: the quitting thread ends and the application goes on, until `q` is pressed again
   (`Touched` in `CopySupervisor`, `ShutDownRaises` in `StatusTree`).
6. `README.md:89` again: when the pass ends before the `shutdown` of a
   `q` does, `c` clears `stop_event` and begins another (`app.py:97`), `p` pauses it, and the
   application exits over a copy thread that waits for ever (the last case of `QuitEnds`).
7. `worker.py:73`, "Owns one worker process at a time": `start()` spawns
   unconditionally (`worker.py:97`) at the start of each pass (`copier.py:62`); the
   previous pass's idle worker stays, out of reach of `_kill` and `shutdown`,
   until the program exits.
8. `README.md:23`, "Already-successful files are never re-copied": a `stat` that
   fails in a later pass turns the row into a failure (`copier.py:187-189`) and the
   pass after copies the file again. And the copy of `x.salvage-tmp` is the temporary
   file of `x`: copying `x` after it destroys it under a success row, and a later pass
   copies it again (`worker.py:31`).
9. `tests/test_copier.py:74`, "Directory timestamps are fixed up at the end too": not
   in a pass that copies into a directory whose row is already a success
   (`DirTimesAfterFirstPass` is about the first).
10. `README.md:85` again: symbolic links to directories are never visited
   (`copier.py:97`; `EveryFileAccounted` is about the entries that are).
11. `state_db.py:177`, "strictly below `path`": `LIKE` takes letters of either case
   for the same, so toggling `docs` clears the overrides below `Docs` (`LikeExact` excludes
   it).
12. `tree_widget.py:102`, "every already-loaded descendant": at the root the prefix
   is empty and no descendant is refreshed (`CheckboxesRedrawn` excepts the root).
13. `README.md:24`, "red if any attempt underneath failed": a directory that cannot be
    listed is in no aggregate above it (`RedWhenFailed` is about files).
14. `README.md:24`, "green once everything underneath has succeeded": files that have
    no row yet are not counted, so a folder is green between two of them; and the event of
    an aborted copy is counted under `aborted`, which no style looks at.
15. `README.md:24`, "from the live copy state": `r` between the commit of a failure and its
    callback leaves the folder red over a table that has no failure, until the next
    attempt (`raced` in `TreeCurrent`).
16. `report.py:3-5`, stub and dump "always agree": `r` resets rows and writes no stub
    (`behind` in `StubCurrent`).
17. `README.md:93`, a stub "for every file": that of `a` and those below a directory `a.txt`
    are in each other's place, which is passed over in silence.
18. `report.py:133`, "`status` and `selected` never disagree": a pending row that `r`
    made stays pending when the file is deselected.

## Proofs

Every safety invariant and every action property that a passing run checks is a theorem,
and so are both refinements. They rest on inductive invariants that TLC has found to
hold on the instance of the safety run of their module.

`CopySupervisorProofs` proves, for every set of files and processes, every size
and every bound, from the named assumptions of `CopySupervisor` (the contents,
`None` and the bounds are distinct or of their types, nothing more):

- `TypeCorrect`, `SuccessTheorem`, `AnswersTheorem`, `WriterTheorem`, `LitterTheorem`: the
  invariants `TypeOK`, `SuccessIsComplete`, `NoStaleAnswer`, `AtMostOneWriter`, `NoLitter`;
- `DestTheorem`, `CauseTheorem`: the action properties `DestNeverPartial` and
  `AnswersHaveCause`;
- `Refinement`: `Spec => Abstract!Spec`, that is, `AtomicCopy`.

The argument. "Success is complete" is not inductive: `copy_file` takes any `done`
for its own, so the queue it reads must hold no message of an earlier call, so no
earlier call may have left a task, or a busy process, behind the queues in use.
`IInv` adds what is missing: `Handles` (process and queues belong together, except
between their assignments in `_spawn`, and a process that is not started yet is dead), `Ownership` (a busy process is the current
one, with the file of the running call), `Tasks` (a queued task that somebody can
still read is alone, and has no answer yet), `Answers` (an unread message is about
the running call; what ends the task is last; a `done` finds the destination
whole), and `Copies` (the temporary file of a copying process holds exactly what it
has written). The delicate steps have lemmas of their own: a kill
(`TerminateEffect`, `StoppedStep`, `KillStep`), a process that takes a task
(`GetStep`), a task that is put behind one `_STOP` (`ShutdownPutEffect`, `PutStep`),
an answer that is received (`ReceiveStep`); `RestStep` has one case per action. `IInv`
was checked by TLC before it was proved. The refinement needs `IInv` for
the step that publishes and for the step that returns success. `NoLitter` has an
invariant of its own on top of `IInv`, `Swept`: only the running call may have a temporary
file, and none is left once its worker has renamed it or put what ends the task. So has
`AnswersHaveCause`, `Cause`: `stop_event` is not cleared between the test of `should_abort` and the
answer, and nobody but `shutdown` leaves closed queues to a `put` or a `get`.

`CopyEngineProofs` proves for every tree, selection, size and bound, from assumptions
that `Up` is a tree in which of some of the directories above a path one is highest, and that
a path is of one kind (`lstat` gives one):

- `TypeCorrect`, `SuccessTheorem`, `ReportTheorem`, `PauseTheorem`, `AccountedTheorem`,
  `TimesTheorem`: the invariants `TypeOK`, `SuccessHasCopy`, `ReportHonest`,
  `AtMostOneStartAfterPause`, `EveryFileAccounted`, `DirTimesAfterFirstPass`;
- `UntouchedTheorem`: as long as nobody has touched a copy, every success row has a whole
  one. It says in terms of the table and the destination alone what `SuccessHasCopy`
  says with a history variable.

The argument. `Control` ties what the pass has in hand to where it is: every commit is
about the file in hand, `copy_file` runs exactly while the pass waits for it, an exception
goes straight to the `finally`. `Copies` has the promise of `AtomicCopy`
to start from: what is recorded was whole before it was recorded, and only `LoseCopy`
takes it away. `Fresh` says that the walk comes to nothing twice (of the directories left
none is above another, and what is below them is untouched), which the reports and
`Progress` need: a selected entry that could be reached is accounted for, or still ahead,
in hand or below a directory that is left. That pruning keeps a directory above each
selected entry is `Between`: between a directory and a path below it is one that is in
the directory and above, or at, the path. `Paused` counts the files begun after a pause,
`Times` follows the first pass.

`StartupProofs` proves for every set of programs, roots and nested pairs, from
`ProgramsAssumption` alone, that no roots are `Fresh`:

- `TypeCorrect`, `RootsTheorem`: the invariants `TypeOK` and `RunsOnItsRoots`;
- `RecordedTheorem`: the action property `RecordedOnce`.

The argument. A program that has committed runs on its roots; that nobody writes
over them needs `Committing`: between insert and commit a program alone holds the
lock, and the table is empty. `Comparing` says that who compares does not do so with an
empty table. Both, with the types, are inductive.

`SelectionProofs` proves for trees of any size, from the assumptions that `Up` is a tree
and that of some of the directories above a path one is nearest:

- `TypeCorrect`: `TypeOK`, whatever `LIKE` finds;
- where `LIKE` is exact (`LikeExact`), `GlyphTheorem`: `GlyphExact`;
  `RedrawTheorem`: the action property `CheckboxesRedrawn`; `Refinement`:
  `Spec => RefinesDenseSelection`; `FalseCopyTheorem` and `FalseSkipTheorem`:
  `NoFalseCopy` and `NoFalseSkip`.

The argument. A path with no override between it and a directory above has the
selection of that directory (`Inherits`). So the first commit of a toggle levels what is
below to what the directory has (`ClearEffect`), and the second to the new flag
(`StoreEffect`). `GlyphExact` needs no more of a state than its types. The refinement needs
to know the table between the two commits: nothing below the target has an
override, everything else is as it was, and the new flag is the opposite of the old one
(`MidToggle`); a death at that point is `DenseSelection`'s `Interrupt`. `CheckboxesRedrawn`
follows from where a checkbox can change: at what is above or below a path whose
selection or override does (`Elsewhere`), which is what a toggle refreshes. For the reader,
`ReaderInv` says that a path that is still in `steady` has had its selection all the time
(`SteadyNow`), and that a climb which has come as far as `rat` will answer as one
query of the table would (`Climbed`). Both are kept because a commit
that changes an override the climb has passed, or has yet to pass, also changes what is
selected at or below the path (`Untoggled`, `Frozen`), or is about to, so the path is steady
no more.

`StatusTreeProofs` proves for every tree of finitely many files, every table at the start
and every bound:

- `TypeCorrect`, `CountsTheorem`, `CurrentTheorem`, `RedTheorem`, `StaleTheorem`: the
  invariants `TypeOK`, `CountsAgree`, `TreeCurrent`, `RedWhenFailed`, `NoStaleLine`.

The argument. An event counts one status down and another up; that this is what counting
anew would give, and that no count goes below zero, is a matter of cardinalities
(`CountType`, `CountPositive`, `MovedCounts`), for which `Files` is assumed
finite. For the rest, `Control` says what row, count and event of the file in hand can be
while the loop serves keys between a commit and its callback. `Current` needs one case
that `TreeCurrent` does not mention: an `already_done` changes no count, so the count must
be right before it. `Sight`, likewise, needs that an event that refreshes nothing finds the
line of its file right, and `Reds` that a folder which has counted a failure is red or
to be drawn again.

`ReportProofs` proves for any files and bounds:

- `TypeCorrect`, `ToldTheorem`, `StubTheorem`: `TypeOK`, `SuccessToldWithCopy`,
  `StubCurrent`.

The argument. A row becomes a success only after the copy is there (`Backed`), so a second read
finds what the first one promised: that of the stub (`StubInHand`), and those of
a dump, whose row may be old by then (`EntryInHand`).

`TempFileProofs` proves for any files, workers and inodes:

- `TypeCorrect`: `TypeOK`;
- `WholeTheorem`: where no source file is called like the temporary file of another
  (`NoTmpName`), `SuccessIsWholeUnlessLate`.

`NoTmpName` is needed: with a file `x.salvage-tmp` beside `x` the property is false
(divergence 8). That different files have different names at the destination, and
different temporary names, is an assumption of `TempFile`. The argument. `Owned`: an inode has
one name at most, and whoever writes to it copies the file whose name it is, so
workers of several starts never meet across files. `CurrentAlone`: unless an orphan was
late, the temporary name is gone or still that of the inode the current worker
writes, and what it has written is there. `Kept`: after a success, whatever could yet be
renamed over the copy is written by one worker from its beginning, and a worker that
still writes to the copy itself writes what is there already.

Only model-checked: the liveness properties (`CallReturns`, `StopEndsPass`,
`PassTerminates`, `StopEndsPaused`, `QuitEnds`), which like every argument
with fairness and `ENABLED` are out of the prover's reach. The three counterexamples are
TLC's too. What is assumed rather than proved of the constants, that `Up` is the closure of
`In`, is so because a closure is defined by recursion, and induction over data is out
of reach as well; TLC evaluates the assumptions on every instance.

## Plan

Done, in this order: `CopySupervisor`, `AtomicCopy` and their proofs; `CopyEngine`;
`Selection`; `StatusTree`; `Report`; `TempFile`; `Startup`; then the proofs about each of
these.

Left, the most important first:

1. An abstract specification of a pass, of which `StatusTree` and `Report` keep the
   commits, and `CopyEngine` shown to implement it.
2. What divergence 11 leaves of the selection where `LIKE` is not exact.

## Not modelled

- `scripts/mount-ro.sh`: a straight line of system commands, run once by hand, which
  keeps nothing between two runs. Its early `exit 1` after `losetup` leaves the loop
  device attached.
- Rendering: the text of lines, the progress panel, the log, the YAML of reports; progress
  messages are modelled as what resets the deadline (`CopySupervisor`), and the callback
  they end in only as something that returns.
- Argument parsing, and the sizes, times, attempts and error texts that rows and
  reports carry.
- `SelectionStore.child_summary` and `is_explicit`, which nothing calls.
- SQLite's and the file system's own durability: `synchronous=NORMAL` and the missing
  `fsync` of copies are listed as hazards, the program has no code about them.
- Two programs with the same roots that run at the same time on one table. `Startup`
  lets both run, as the code does; what they then do to each other is
  listed as a hazard, and the repository promises nothing of it.
- A second `q` while the first is at work. (One after a `shutdown` that raised is
  in `CopySupervisor` and `StatusTree`.)
- Calls on the destination and the state file that hang: only the source is taken to be
  a dying disk.
