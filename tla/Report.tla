-------------------------------- MODULE Report --------------------------------
(***************************************************************************)
(* What is told about a file beside the table: the manifest stubs that a   *)
(* pass leaves (_write_manifest of src/salvage/copier.py) and the tree     *)
(* dump that "y" makes on a thread of its own (src/salvage/report.py).     *)
(*                                                                         *)
(* Both come from file_record, which reads the row and after that looks    *)
(* for the copy.  A pass writes a stub after the last commit for a file;   *)
(* the dump, "r" and "space" fall between any two steps of it.  Writing a  *)
(* stub may fail, which is passed over in silence, and the program may     *)
(* die, also in the middle of a stub.                                      *)
(*                                                                         *)
(* These are regular files, and nobody removes a copy that a pass has      *)
(* made: CopyEngine!LoseCopy has no counterpart here.                      *)
(***************************************************************************)
EXTENDS Naturals

CONSTANTS
  Files,       \* the regular files of the source
  MaxPasses,   \* bound: passes started
  MaxRetries,  \* bound: times "r" is pressed
  MaxCrashes,  \* bound: deaths of the program
  MaxDumps     \* bound: times "y" is pressed

ASSUME BoundsAssumption ==
  MaxPasses \in Nat /\ MaxRetries \in Nat /\ MaxCrashes \in Nat /\ MaxDumps \in Nat

VARIABLES
  row,       \* the status in copy_state, "none" without a row
  copied,    \* the files that are at the destination; never fewer
  selected,  \* the files that are selected
  stub,      \* the stub of a file: Absent, Torn, or an entry
  ppc, file, todo, data,   \* the copy thread, its file, the data of the stub
  dpc, dfile, left, entry, \* the thread of the dump
  dump,      \* the entries of the dump, Absent until they are made
  used,      \* passes, retries, crashes, dumps so far
  behind     \* history: files whose stub has not been written since the row

table == <<row, copied, selected>>
pass == <<ppc, file, todo, data>>
dumping == <<dpc, dfile, left, entry, dump>>
vars == <<table, stub, pass, dumping, used, behind>>

Status == {"pending", "in_progress", "success", "failed", "skipped"}
Entry == [status : Status \cup {"not_selected"}, exists : BOOLEAN, selected : BOOLEAN]
Absent == [status |-> "absent", exists |-> FALSE, selected |-> FALSE]
Torn == [status |-> "torn", exists |-> FALSE, selected |-> FALSE]

-------------------------------------------------------------------------------
(* file_record, in two reads                                               *)

StatusOf(f) == IF row[f] = "none" THEN "not_selected" ELSE row[f]

Begun(f) == [status |-> StatusOf(f), exists |-> FALSE, selected |-> FALSE]

Located(e, f) == [e EXCEPT !.exists = f \in copied]

(* _finalize_selection_status                                              *)
Finalized(e, on) ==
  [e EXCEPT !.selected = on,
            !.status = IF @ = "not_selected" /\ on THEN "pending" ELSE @]

-------------------------------------------------------------------------------
TypeOK ==
  /\ row \in [Files -> Status \cup {"none"}]
  /\ copied \subseteq Files /\ selected \subseteq Files
  /\ stub \in [Files -> Entry \cup {Absent, Torn}]
  /\ ppc \in {"idle", "walk", "copying", "copied", "record", "write"}
  /\ file \in Files /\ todo \subseteq Files /\ data \in Entry \cup {Absent}
  /\ dpc \in {"idle", "row", "exists", "selection"}
  /\ dfile \in Files /\ left \subseteq Files /\ entry \in Entry \cup {Absent}
  /\ dump \in [Files -> Entry \cup {Absent}]
  /\ used \in [passes : 0..MaxPasses, retries : 0..MaxRetries,
               crashes : 0..MaxCrashes, dumps : 0..MaxDumps]
  /\ behind \subseteq Files

Init ==
  /\ row = [f \in Files |-> "none"] /\ copied = {} /\ selected = Files
  /\ stub = [f \in Files |-> Absent]
  /\ ppc = "idle" /\ file \in Files /\ todo = {} /\ data = Absent
  /\ dpc = "idle" /\ dfile = file /\ left = {} /\ entry = Absent
  /\ dump = [f \in Files |-> Absent]
  /\ used = [passes |-> 0, retries |-> 0, crashes |-> 0, dumps |-> 0]
  /\ behind = {}

Spend(what, max) == used[what] < max /\ used' = [used EXCEPT ![what] = @ + 1]

-------------------------------------------------------------------------------
(* The copy thread                                                         *)

StartPass ==
  /\ ppc = "idle" /\ Spend("passes", MaxPasses)
  /\ ppc' = "walk" /\ todo' = Files
  /\ UNCHANGED <<table, stub, file, data, dumping, behind>>

Visit(f) ==
  /\ ppc = "walk" /\ f \in todo \cap selected
  /\ file' = f /\ todo' = todo \ {f} /\ behind' = behind \ {f}
  /\ UNCHANGED <<copied, selected, stub, data, dumping, used>>

(* A mutant: what is already done gets no stub.                            *)
KnownNoStub(f) ==
  Visit(f) /\ row[f] = "success" /\ f \in copied /\ ppc' = "walk" /\ UNCHANGED row

(* The row is a success and the copy is there.                             *)
Known(f) ==
  Visit(f) /\ row[f] = "success" /\ f \in copied /\ ppc' = "record" /\ UNCHANGED row

SetRow(f, s) == row' = [row EXCEPT ![f] = s]

(* stat fails, or the file is a device.                                    *)
Direct(f) ==
  Visit(f) /\ ppc' = "record" /\ \E s \in {"failed", "skipped"} : SetRow(f, s)

Begin(f) == Visit(f) /\ ppc' = "copying" /\ SetRow(f, "in_progress")

(* The worker renames the temporary file.                                  *)
Publish ==
  /\ ppc = "copying" /\ ppc' = "copied"
  /\ copied' = copied \cup {file}
  /\ UNCHANGED <<row, selected, stub, file, todo, data, dumping, used, behind>>

outcomeLeaves == <<copied, selected, stub, file, todo, data, dumping, used>>

(* A mutant: the row is committed while the worker still copies.           *)
SucceedEarly ==
  /\ ppc = "copying" /\ ppc' = "record"
  /\ SetRow(file, "success")
  /\ UNCHANGED <<outcomeLeaves, behind>>

Succeed ==
  /\ ppc = "copied" /\ ppc' = "record"
  /\ SetRow(file, "success")
  /\ UNCHANGED <<outcomeLeaves, behind>>

(* A mutant: the row is given the status of the event.                     *)
AsReported == {"failed", "aborted"}

(* mark_failed, or mark_skipped after an abort                             *)
Unfinished == {"failed", "skipped"}

(* The copy fails or is aborted, perhaps when it has been renamed.         *)
Fail ==
  /\ ppc \in {"copying", "copied"} /\ ppc' = "record"
  /\ \E s \in Unfinished : SetRow(file, s)
  /\ UNCHANGED <<outcomeLeaves, behind>>

(* mkdir raises before the copy: the pass is over, the row stays.          *)
Raise ==
  /\ ppc = "copying" /\ ppc' = "idle"
  /\ behind' = behind \cup {file}
  /\ UNCHANGED <<row, outcomeLeaves>>

RecordFile ==
  /\ ppc = "record" /\ ppc' = "write"
  /\ data' = Begun(file)
  /\ UNCHANGED <<table, stub, file, todo, dumping, used, behind>>

writeLeaves == <<table, file, todo, dumping, used>>

WriteStub ==
  /\ ppc = "write" /\ ppc' = "walk" /\ data' = Absent
  /\ stub' = [stub EXCEPT ![file] = Located(data, file)]
  /\ UNCHANGED <<writeLeaves, behind>>

(* except OSError: pass.  The disk does not take it, or a directory that   *)
(* it needs, "a.txt" for the stub of "a.txt/b", is the stub of "a".        *)
StubFails ==
  /\ ppc = "write" /\ ppc' = "walk" /\ data' = Absent
  /\ \E s \in {stub[file], Torn} : stub' = [stub EXCEPT ![file] = s]
  /\ behind' = behind \cup {file}
  /\ UNCHANGED writeLeaves

EndPass ==
  /\ ppc = "walk" /\ ppc' = "idle"
  /\ UNCHANGED <<table, stub, file, todo, data, dumping, used, behind>>

Crash ==
  /\ Spend("crashes", MaxCrashes)
  /\ ppc' = "idle" /\ todo' = {} /\ data' = Absent
  /\ dpc' = "idle" /\ left' = {} /\ entry' = Absent /\ dump' = [f \in Files |-> Absent]
  /\ \E s \in {stub[file]} \cup (IF ppc = "write" THEN {Torn} ELSE {}) :
       stub' = [stub EXCEPT ![file] = s]
  /\ behind' = IF ppc \in {"idle", "walk"} THEN behind ELSE behind \cup {file}
  /\ UNCHANGED <<table, file, dfile>>

-------------------------------------------------------------------------------
(* The keys "space" and "r"                                                *)

Toggle(f) ==
  /\ selected' = IF f \in selected THEN selected \ {f} ELSE selected \cup {f}
  /\ UNCHANGED <<row, copied, stub, pass, dumping, used, behind>>

Retry ==
  /\ Spend("retries", MaxRetries)
  /\ row' = [f \in Files |-> IF row[f] = "failed" THEN "pending" ELSE row[f]]
  /\ behind' = behind \cup {f \in Files : row[f] = "failed"}
  /\ UNCHANGED <<copied, selected, stub, pass, dumping>>

-------------------------------------------------------------------------------
(* The thread of the dump                                                  *)

dumpLeaves == <<table, stub, pass, behind>>

StartDump ==
  /\ dpc = "idle" /\ Spend("dumps", MaxDumps)
  /\ dpc' = "row" /\ left' = Files /\ dump' = [f \in Files |-> Absent]
  /\ UNCHANGED <<dumpLeaves, dfile, entry>>

DumpRow(f) ==
  /\ dpc = "row" /\ f \in left
  /\ dpc' = "exists" /\ dfile' = f /\ left' = left \ {f} /\ entry' = Begun(f)
  /\ UNCHANGED <<dumpLeaves, dump, used>>

DumpExists ==
  /\ dpc = "exists" /\ dpc' = "selection"
  /\ entry' = Located(entry, dfile)
  /\ UNCHANGED <<dumpLeaves, dfile, left, dump, used>>

DumpSelection ==
  /\ dpc = "selection" /\ dpc' = IF left = {} THEN "idle" ELSE "row"
  /\ dump' = [dump EXCEPT ![dfile] = Finalized(entry, dfile \in selected)]
  /\ entry' = Absent
  /\ UNCHANGED <<dumpLeaves, dfile, left, used>>

-------------------------------------------------------------------------------
Next ==
  \/ StartPass \/ EndPass
  \/ \E f \in Files : Known(f) \/ Direct(f) \/ Begin(f) \/ Toggle(f) \/ DumpRow(f)
  \/ Publish \/ Succeed \/ Fail \/ Raise
  \/ RecordFile \/ WriteStub \/ StubFails
  \/ Crash \/ Retry
  \/ StartDump \/ DumpExists \/ DumpSelection

Spec == Init /\ [][Next]_vars

-------------------------------------------------------------------------------
(* Properties                                                              *)

Told == {stub[f] : f \in Files} \cup {dump[f] : f \in Files}

(* Whoever tells of a success tells of a copy as well, though the row and  *)
(* the file are looked at one after the other while a pass changes both    *)
(* (report.py:54, 68; copier.py:229-239).                                  *)
SuccessToldWithCopy == \A e \in Told : e.status = "success" => e.exists

InHand == IF ppc \in {"idle", "walk"} THEN {} ELSE {file}

(* Once a pass has been to a file its stub says what the row says: every   *)
(* way out of _copy_one writes one after its last commit, also for a file  *)
(* whose stub was lost with an earlier start.  Not where the disk refuses  *)
(* the stub, or "r" has reset the row since.                               *)
StubCurrent ==
  \A f \in Files \ (InHand \cup behind) :
    row[f] # "none" => stub[f].status = row[f]
===============================================================================
