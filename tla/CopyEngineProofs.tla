--------------------------- MODULE CopyEngineProofs ---------------------------
(***************************************************************************)
(* Theorems about CopyEngine, for every tree, selection and bound: its     *)
(* types, SuccessHasCopy, ReportHonest, AtMostOneStartAfterPause,          *)
(* EveryFileAccounted and DirTimesAfterFirstPass.                          *)
(*                                                                         *)
(* Control ties what the pass has in hand to where it is; the others stand *)
(* on it, each with an inductive part of its own: Copies (what is recorded *)
(* as copied is whole), Fresh (the walk visits nothing twice), Paused,     *)
(* Progress (what is not accounted for is still ahead of the walk), Times. *)
(***************************************************************************)
EXTENDS CopyEngine, TLAPS

HandPc == {"start", "statfailed", "special", "unlink", "symlink", "begin",
           "mkdir", "copying", "record"}
FilePc == {"begin", "mkdir", "copying", "record"}
WalkPc == {"list", "files"} \cup HandPc

InHand(x) == epc \in HandPc /\ x = cur

Control ==
  /\ epc \in HandPc => cur \in Entries \cap Selected
  /\ epc \in FilePc => cur \in Files
  /\ epc \in {"unlink", "symlink"} => cur \in Links
  /\ call = IF epc = "copying" THEN cur ELSE None
  /\ epc = "record" => outcome \in {"success", "failed", "aborted"}
  /\ epc = "list" => entries = {}
  /\ dying => epc \in {"fix", "fixing"}
  /\ outcome = "raised" => dying /\ ~whole
  /\ whole => epc \in {"fix", "fixing", "off"}
  /\ entries \subseteq Entries
  /\ passes \in Nat /\ losses \in Nat

(* What has been recorded as copied is whole until somebody touches it,    *)
(* and nothing is a success that has not been copied.                      *)
Copies ==
  /\ \A f \in Files : dest[f] \in {NoFile, Foreign, Size[f]}
  /\ \A f \in Files : f \in copied => dest[f] = Size[f]
  /\ \A f \in Files : losses = 0 /\ status[f] = "success" => f \in copied
  /\ epc = "record" /\ outcome = "success" => dest[cur] = Size[cur]

(* The pass has not come to x.                                             *)
Untouched(x) == event[x] = "none" /\ ~InHand(x)

(* The walk comes to nothing twice: what is ahead of it is untouched, and  *)
(* of the directories left none is above another.                          *)
Fresh ==
  /\ \A d \in dirsLeft : \A x \in Entries :
       d \in Up[x] => Untouched(x) /\ x \notin entries
  /\ \A x \in entries : Untouched(x)
  /\ epc \in HandPc => event[cur] = "none"
  /\ \A d, e \in dirsLeft : d \in Up[e] => d = e

(* A link is at the destination when it has been reported.                 *)
Linked == \A x \in Links : event[x] = "success" => link[x]

Paused ==
  /\ late <= 1
  /\ epc = "start" => late = 0
  /\ epc # "off" /\ ~pause => late = 0

Accounted(x) ==
  \/ event[x] # "none" /\ status[x] = RowOf(event[x])
  \/ event[x] = "failed" /\ x \in requeued /\ status[x] = "pending"

Ahead(x) ==
  /\ epc \in WalkPc
  /\ x \in entries \/ InHand(x) \/ \E d \in dirsLeft : d \in Up[x]

(* A selected entry that could be reached is accounted for, or the walk    *)
(* has yet to come to it, or to a directory above it.                      *)
Progress ==
  /\ \A x \in Entries \cap Selected :
       (epc \in WalkPc \/ whole) /\ Reached(x) /\ (x \in Files => losses = 0)
         => Accounted(x) \/ Ahead(x)
  /\ \A x \in Entries \ Selected : status[x] = "none"

(* In the first pass no directory is a success before its time is set, and *)
(* then its time stays.                                                    *)
Times ==
  passes <= 1 =>
    /\ passes = 0 => epc = "off" /\ ~whole /\ \A d \in Dirs : status[d] = "none"
    /\ epc \in WalkPc \cup {"fix"} => \A d \in Dirs : status[d] # "success"
    /\ whole /\ losses = 0 /\ epc \in {"fixing", "off"} =>
         \A d \in Dirs : status[d] = "success" => dirTime[d] = "source"

-------------------------------------------------------------------------------
(* Types and control, action by action                                     *)

(* What is in hand is an entry, so that every commit is about a path.      *)
LEMMA TypeStep == TypeOK /\ Control /\ [Next]_vars => TypeOK'
<1> SUFFICES ASSUME TypeOK, Control, [Next]_vars PROVE TypeOK'
  OBVIOUS
<1> USE TreeAssumption
    DEF TypeOK, Control, HandPc, FilePc, Status, Event, EnginePc, Paths, Entries,
        table, copyCall, disk, walk, flags, counts, history, oneLeaves
<1>1. CASE StartPass
  BY <1>1 DEF StartPass
<1>2. ASSUME NEW d \in Dirs, ListFails(d) PROVE TypeOK'
  BY <1>2 DEF ListFails, UpsertDir, Mark
<1>3. ASSUME NEW d \in Dirs, ListStopped(d) PROVE TypeOK'
  BY <1>3 DEF ListStopped, Move
<1>4. ASSUME NEW d \in Dirs, List(d) PROVE TypeOK'
  BY <1>4 DEF List, EnsureDestDir, Children, UpsertDir, Upsert, Upserted
<1>5. ASSUME NEW d \in Dirs, FixDir(d) PROVE TypeOK'
  BY <1>5 DEF FixDir, Mark, fixLeaves
<1>6. ASSUME NEW x \in Entries, NextFile(x) PROVE TypeOK'
  BY <1>6 DEF NextFile, Take
<1>7. CASE DestRaises
  BY <1>7 DEF DestRaises, Raises
<1>8. CASE FilesStopped
  BY <1>8 DEF FilesStopped, Move
<1>9. CASE DirDone
  BY <1>9 DEF DirDone, Move
<1>10. CASE WalkDone
  BY <1>10 DEF WalkDone
<1>11. CASE EnterSymlink
  BY <1>11 DEF EnterSymlink, Enter, Upsert, Upserted
<1>12. CASE EnterSpecial
  BY <1>12 DEF EnterSpecial, Enter, Upsert, Upserted
<1>13. CASE StatFails
  BY <1>13 DEF StatFails, Enter, Upsert, Upserted
<1>14. CASE NeedsCopy
  BY <1>14 DEF NeedsCopy, Enter, Upsert, Upserted
<1>15. CASE AlreadyDone
  BY <1>15 DEF AlreadyDone, Report, Done
<1>16. CASE MarkStatFailed
  BY <1>16 DEF MarkStatFailed, Finish, Mark, Report
<1>17. CASE MarkSpecial
  BY <1>17 DEF MarkSpecial, Finish, Mark, Report
<1>18. CASE Unlink
  BY <1>18 DEF Unlink, Touch
<1>19. CASE Symlink
  BY <1>19 DEF Symlink, Touch, Finish, Mark, Report
<1>20. CASE SymlinkFails
  BY <1>20 DEF SymlinkFails, Finish, Mark, Report
<1>21. CASE MarkInProgress
  BY <1>21 DEF MarkInProgress, Mark
<1>22. CASE BeginCopy
  BY <1>22 DEF BeginCopy, Copy!Begin, Touch
<1>23. CASE CopyRaises
  BY <1>23 DEF CopyRaises, Copy!Return, Copy!Outcome
<1>24. CASE Record
  <2>1. CASE outcome = "success"
    BY <1>24, <2>1 DEF Record, Finish, Mark, Report
  <2>2. CASE outcome = "aborted"
    BY <1>24, <2>2 DEF Record, Finish, Mark, Report
  <2>3. CASE outcome = "failed"
    BY <1>24, <2>3 DEF Record, Finish, Mark, Report
  <2> QED
    BY <1>24, <2>1, <2>2, <2>3 DEF Record
<1>25. ASSUME NEW o \in Copy!Outcome, CopyReturns(o) PROVE TypeOK'
  BY <1>25 DEF CopyReturns, Copy!Return, Copy!Outcome
<1>26. CASE FixStart
  BY <1>26 DEF FixStart, fixLeaves
<1>27. CASE PassEnds
  BY <1>27 DEF PassEnds
<1>28. CASE Publish
  BY <1>28 DEF Publish, Copy!Publish, Touch
<1>29. CASE TogglePause
  BY <1>29 DEF TogglePause, keyLeaves
<1>30. CASE RetryFailed
  BY <1>30 DEF RetryFailed, keyLeaves
<1>31. CASE Quit
  BY <1>31 DEF Quit, keyLeaves
<1>32. CASE Crash
  BY <1>32 DEF Crash
<1>33. ASSUME NEW f \in Files, LoseCopy(f) PROVE TypeOK'
  BY <1>33 DEF LoseCopy
<1>34. CASE UNCHANGED vars
  BY <1>34 DEF vars
<1>35. CASE Hang
  BY <1>35 DEF Hang, OnSource, Move
<1>36. CASE FixRaises
  BY <1>36 DEF FixRaises, fixLeaves
<1> QED
  BY <1>1, <1>2, <1>3, <1>4, <1>5, <1>6, <1>7, <1>8, <1>9, <1>10, <1>11,
     <1>12, <1>13, <1>14, <1>15, <1>16, <1>17, <1>18, <1>19, <1>20, <1>21,
     <1>22, <1>23, <1>24, <1>25, <1>26, <1>27, <1>28, <1>29, <1>30, <1>31,
     <1>32, <1>33, <1>34, <1>35, <1>36 DEF Next, Engine
(* copy_file runs exactly while the pass waits for it, and an exception    *)
(* goes straight to the finally of run.                                    *)
LEMMA ControlStep == TypeOK /\ Control /\ [Next]_vars => Control'
<1> SUFFICES ASSUME TypeOK, Control, [Next]_vars PROVE Control'
  OBVIOUS
<1> USE TreeAssumption, KindsAssumption
    DEF TypeOK, Control, HandPc, FilePc, Status, Event, EnginePc, Paths, Entries,
        table, copyCall, disk, walk, flags, counts, history, oneLeaves
<1>1. CASE StartPass
  BY <1>1 DEF StartPass
<1>2. ASSUME NEW d \in Dirs, ListFails(d) PROVE Control'
  BY <1>2 DEF ListFails, UpsertDir, Mark
<1>3. ASSUME NEW d \in Dirs, ListStopped(d) PROVE Control'
  BY <1>3 DEF ListStopped, Move
<1>4. ASSUME NEW d \in Dirs, List(d) PROVE Control'
  BY <1>4 DEF List, EnsureDestDir, Children, UpsertDir, Upsert, Upserted
<1>5. ASSUME NEW d \in Dirs, FixDir(d) PROVE Control'
  BY <1>5 DEF FixDir, Mark, fixLeaves
<1>6. ASSUME NEW x \in Entries, NextFile(x) PROVE Control'
  BY <1>6 DEF NextFile, Take
<1>7. CASE DestRaises
  BY <1>7 DEF DestRaises, Raises
<1>8. CASE FilesStopped
  BY <1>8 DEF FilesStopped, Move
<1>9. CASE DirDone
  BY <1>9 DEF DirDone, Move
<1>10. CASE WalkDone
  BY <1>10 DEF WalkDone
<1>11. CASE EnterSymlink
  BY <1>11 DEF EnterSymlink, Enter, Upsert, Upserted
<1>12. CASE EnterSpecial
  BY <1>12 DEF EnterSpecial, Enter, Upsert, Upserted
<1>13. CASE StatFails
  BY <1>13 DEF StatFails, Enter, Upsert, Upserted
<1>14. CASE NeedsCopy
  BY <1>14 DEF NeedsCopy, Enter, Upsert, Upserted
<1>15. CASE AlreadyDone
  BY <1>15 DEF AlreadyDone, Report, Done
<1>16. CASE MarkStatFailed
  BY <1>16 DEF MarkStatFailed, Finish, Mark, Report
<1>17. CASE MarkSpecial
  BY <1>17 DEF MarkSpecial, Finish, Mark, Report
<1>18. CASE Unlink
  BY <1>18 DEF Unlink, Touch
<1>19. CASE Symlink
  BY <1>19 DEF Symlink, Touch, Finish, Mark, Report
<1>20. CASE SymlinkFails
  BY <1>20 DEF SymlinkFails, Finish, Mark, Report
<1>21. CASE MarkInProgress
  BY <1>21 DEF MarkInProgress, Mark
<1>22. CASE BeginCopy
  BY <1>22 DEF BeginCopy, Copy!Begin, Touch
<1>23. CASE CopyRaises
  BY <1>23 DEF CopyRaises, Copy!Return, Copy!Outcome
<1>24. CASE Record
  <2>1. CASE outcome = "success"
    BY <1>24, <2>1 DEF Record, Finish, Mark, Report
  <2>2. CASE outcome = "aborted"
    BY <1>24, <2>2 DEF Record, Finish, Mark, Report
  <2>3. CASE outcome = "failed"
    BY <1>24, <2>3 DEF Record, Finish, Mark, Report
  <2> QED
    BY <1>24, <2>1, <2>2, <2>3 DEF Record
<1>25. ASSUME NEW o \in Copy!Outcome, CopyReturns(o) PROVE Control'
  BY <1>25 DEF CopyReturns, Copy!Return, Copy!Outcome
<1>26. CASE FixStart
  BY <1>26 DEF FixStart, fixLeaves
<1>27. CASE PassEnds
  BY <1>27 DEF PassEnds
<1>28. CASE Publish
  BY <1>28 DEF Publish, Copy!Publish, Touch
<1>29. CASE TogglePause
  BY <1>29 DEF TogglePause, keyLeaves
<1>30. CASE RetryFailed
  BY <1>30 DEF RetryFailed, keyLeaves
<1>31. CASE Quit
  BY <1>31 DEF Quit, keyLeaves
<1>32. CASE Crash
  BY <1>32 DEF Crash
<1>33. ASSUME NEW f \in Files, LoseCopy(f) PROVE Control'
  BY <1>33 DEF LoseCopy
<1>34. CASE UNCHANGED vars
  BY <1>34 DEF vars
<1>35. CASE Hang
  BY <1>35 DEF Hang, OnSource, Move
<1>36. CASE FixRaises
  BY <1>36 DEF FixRaises, fixLeaves
<1> QED
  BY <1>1, <1>2, <1>3, <1>4, <1>5, <1>6, <1>7, <1>8, <1>9, <1>10, <1>11,
     <1>12, <1>13, <1>14, <1>15, <1>16, <1>17, <1>18, <1>19, <1>20, <1>21,
     <1>22, <1>23, <1>24, <1>25, <1>26, <1>27, <1>28, <1>29, <1>30, <1>31,
     <1>32, <1>33, <1>34, <1>35, <1>36 DEF Next, Engine

-------------------------------------------------------------------------------
(* The other parts, action by action                                       *)

(* copy_file, then mark_success: what is recorded was whole before it was  *)
(* recorded, and only LoseCopy takes it away.                              *)
LEMMA CopiesStep == TypeOK /\ Control /\ Copies /\ [Next]_vars => Copies'
<1> SUFFICES ASSUME TypeOK, Control, Copies, [Next]_vars PROVE Copies'
  OBVIOUS
<1> USE TreeAssumption, KindsAssumption
    DEF Copies,
        TypeOK, Control, HandPc, FilePc, Status, Event, EnginePc, Paths, Entries,
        table, copyCall, disk, walk, flags, counts, history, oneLeaves
<1>1. CASE StartPass
  BY <1>1 DEF StartPass
<1>2. ASSUME NEW d \in Dirs, ListFails(d) PROVE Copies'
  BY <1>2 DEF ListFails, UpsertDir, Mark
<1>3. ASSUME NEW d \in Dirs, ListStopped(d) PROVE Copies'
  BY <1>3 DEF ListStopped, Move
<1>4. ASSUME NEW d \in Dirs, List(d) PROVE Copies'
  BY <1>4 DEF List, EnsureDestDir, Children, UpsertDir, Upsert, Upserted
<1>5. ASSUME NEW d \in Dirs, FixDir(d) PROVE Copies'
  BY <1>5 DEF FixDir, Mark, fixLeaves
<1>6. ASSUME NEW x \in Entries, NextFile(x) PROVE Copies'
  BY <1>6 DEF NextFile, Take
<1>7. CASE DestRaises
  BY <1>7 DEF DestRaises, Raises
<1>8. CASE FilesStopped
  BY <1>8 DEF FilesStopped, Move
<1>9. CASE DirDone
  BY <1>9 DEF DirDone, Move
<1>10. CASE WalkDone
  BY <1>10 DEF WalkDone
<1>11. CASE EnterSymlink
  BY <1>11 DEF EnterSymlink, Enter, Upsert, Upserted
<1>12. CASE EnterSpecial
  BY <1>12 DEF EnterSpecial, Enter, Upsert, Upserted
<1>13. CASE StatFails
  BY <1>13 DEF StatFails, Enter, Upsert, Upserted
<1>14. CASE NeedsCopy
  BY <1>14 DEF NeedsCopy, Enter, Upsert, Upserted
<1>15. CASE AlreadyDone
  BY <1>15 DEF AlreadyDone, Report, Done
<1>16. CASE MarkStatFailed
  BY <1>16 DEF MarkStatFailed, Finish, Mark, Report
<1>17. CASE MarkSpecial
  BY <1>17 DEF MarkSpecial, Finish, Mark, Report
<1>18. CASE Unlink
  BY <1>18 DEF Unlink, Touch
<1>19. CASE Symlink
  BY <1>19 DEF Symlink, Touch, Finish, Mark, Report
<1>20. CASE SymlinkFails
  BY <1>20 DEF SymlinkFails, Finish, Mark, Report
<1>21. CASE MarkInProgress
  BY <1>21 DEF MarkInProgress, Mark
<1>22. CASE BeginCopy
  BY <1>22 DEF BeginCopy, Copy!Begin, Touch
<1>23. CASE CopyRaises
  BY <1>23 DEF CopyRaises, Copy!Return, Copy!Outcome
<1>24. CASE Record
  <2>1. CASE outcome = "success"
    BY <1>24, <2>1 DEF Record, Finish, Mark, Report
  <2>2. CASE outcome = "aborted"
    BY <1>24, <2>2 DEF Record, Finish, Mark, Report
  <2>3. CASE outcome = "failed"
    BY <1>24, <2>3 DEF Record, Finish, Mark, Report
  <2> QED
    BY <1>24, <2>1, <2>2, <2>3 DEF Record
<1>25. ASSUME NEW o \in Copy!Outcome, CopyReturns(o) PROVE Copies'
  BY <1>25 DEF CopyReturns, Copy!Return, Copy!Outcome
<1>26. CASE FixStart
  BY <1>26 DEF FixStart, fixLeaves
<1>27. CASE PassEnds
  BY <1>27 DEF PassEnds
<1>28. CASE Publish
  BY <1>28 DEF Publish, Copy!Publish, Touch
<1>29. CASE TogglePause
  BY <1>29 DEF TogglePause, keyLeaves
<1>30. CASE RetryFailed
  BY <1>30 DEF RetryFailed, keyLeaves
<1>31. CASE Quit
  BY <1>31 DEF Quit, keyLeaves
<1>32. CASE Crash
  BY <1>32 DEF Crash
<1>33. ASSUME NEW f \in Files, LoseCopy(f) PROVE Copies'
  BY <1>33 DEF LoseCopy
<1>34. CASE UNCHANGED vars
  BY <1>34 DEF vars
<1>35. CASE Hang
  BY <1>35 DEF Hang, OnSource, Move
<1>36. CASE FixRaises
  BY <1>36 DEF FixRaises, fixLeaves
<1> QED
  BY <1>1, <1>2, <1>3, <1>4, <1>5, <1>6, <1>7, <1>8, <1>9, <1>10, <1>11,
     <1>12, <1>13, <1>14, <1>15, <1>16, <1>17, <1>18, <1>19, <1>20, <1>21,
     <1>22, <1>23, <1>24, <1>25, <1>26, <1>27, <1>28, <1>29, <1>30, <1>31,
     <1>32, <1>33, <1>34, <1>35, <1>36 DEF Next, Engine

(* A link is removed only while it is in hand, before its event.           *)
LEMMA LinkedStep == TypeOK /\ Control /\ Fresh /\ Linked /\ [Next]_vars => Linked'
<1> SUFFICES ASSUME TypeOK, Control, Fresh, Linked, [Next]_vars PROVE Linked'
  OBVIOUS
<1> USE TreeAssumption, KindsAssumption
    DEF Linked, Fresh, Untouched, InHand,
        TypeOK, Control, HandPc, FilePc, Status, Event, EnginePc, Paths, Entries,
        table, copyCall, disk, walk, flags, counts, history, oneLeaves
<1>1. CASE StartPass
  BY <1>1 DEF StartPass
<1>2. ASSUME NEW d \in Dirs, ListFails(d) PROVE Linked'
  BY <1>2 DEF ListFails, UpsertDir, Mark
<1>3. ASSUME NEW d \in Dirs, ListStopped(d) PROVE Linked'
  BY <1>3 DEF ListStopped, Move
<1>4. ASSUME NEW d \in Dirs, List(d) PROVE Linked'
  BY <1>4 DEF List, EnsureDestDir, Children, UpsertDir, Upsert, Upserted
<1>5. ASSUME NEW d \in Dirs, FixDir(d) PROVE Linked'
  BY <1>5 DEF FixDir, Mark, fixLeaves
<1>6. ASSUME NEW x \in Entries, NextFile(x) PROVE Linked'
  BY <1>6 DEF NextFile, Take
<1>7. CASE DestRaises
  BY <1>7 DEF DestRaises, Raises
<1>8. CASE FilesStopped
  BY <1>8 DEF FilesStopped, Move
<1>9. CASE DirDone
  BY <1>9 DEF DirDone, Move
<1>10. CASE WalkDone
  BY <1>10 DEF WalkDone
<1>11. CASE EnterSymlink
  BY <1>11 DEF EnterSymlink, Enter, Upsert, Upserted
<1>12. CASE EnterSpecial
  BY <1>12 DEF EnterSpecial, Enter, Upsert, Upserted
<1>13. CASE StatFails
  BY <1>13 DEF StatFails, Enter, Upsert, Upserted
<1>14. CASE NeedsCopy
  BY <1>14 DEF NeedsCopy, Enter, Upsert, Upserted
<1>15. CASE AlreadyDone
  BY <1>15 DEF AlreadyDone, Report, Done
<1>16. CASE MarkStatFailed
  BY <1>16 DEF MarkStatFailed, Finish, Mark, Report
<1>17. CASE MarkSpecial
  BY <1>17 DEF MarkSpecial, Finish, Mark, Report
<1>18. CASE Unlink
  BY <1>18 DEF Unlink, Touch
<1>19. CASE Symlink
  BY <1>19 DEF Symlink, Touch, Finish, Mark, Report
<1>20. CASE SymlinkFails
  BY <1>20 DEF SymlinkFails, Finish, Mark, Report
<1>21. CASE MarkInProgress
  BY <1>21 DEF MarkInProgress, Mark
<1>22. CASE BeginCopy
  BY <1>22 DEF BeginCopy, Copy!Begin, Touch
<1>23. CASE CopyRaises
  BY <1>23 DEF CopyRaises, Copy!Return, Copy!Outcome
<1>24. CASE Record
  <2>1. CASE outcome = "success"
    BY <1>24, <2>1 DEF Record, Finish, Mark, Report
  <2>2. CASE outcome = "aborted"
    BY <1>24, <2>2 DEF Record, Finish, Mark, Report
  <2>3. CASE outcome = "failed"
    BY <1>24, <2>3 DEF Record, Finish, Mark, Report
  <2> QED
    BY <1>24, <2>1, <2>2, <2>3 DEF Record
<1>25. ASSUME NEW o \in Copy!Outcome, CopyReturns(o) PROVE Linked'
  BY <1>25 DEF CopyReturns, Copy!Return, Copy!Outcome
<1>26. CASE FixStart
  BY <1>26 DEF FixStart, fixLeaves
<1>27. CASE PassEnds
  BY <1>27 DEF PassEnds
<1>28. CASE Publish
  BY <1>28 DEF Publish, Copy!Publish, Touch
<1>29. CASE TogglePause
  BY <1>29 DEF TogglePause, keyLeaves
<1>30. CASE RetryFailed
  BY <1>30 DEF RetryFailed, keyLeaves
<1>31. CASE Quit
  BY <1>31 DEF Quit, keyLeaves
<1>32. CASE Crash
  BY <1>32 DEF Crash
<1>33. ASSUME NEW f \in Files, LoseCopy(f) PROVE Linked'
  BY <1>33 DEF LoseCopy
<1>34. CASE UNCHANGED vars
  BY <1>34 DEF vars
<1>35. CASE Hang
  BY <1>35 DEF Hang, OnSource, Move
<1>36. CASE FixRaises
  BY <1>36 DEF FixRaises, fixLeaves
<1> QED
  BY <1>1, <1>2, <1>3, <1>4, <1>5, <1>6, <1>7, <1>8, <1>9, <1>10, <1>11,
     <1>12, <1>13, <1>14, <1>15, <1>16, <1>17, <1>18, <1>19, <1>20, <1>21,
     <1>22, <1>23, <1>24, <1>25, <1>26, <1>27, <1>28, <1>29, <1>30, <1>31,
     <1>32, <1>33, <1>34, <1>35, <1>36 DEF Next, Engine

(* An already_done rests on the row and on what is at the destination.     *)
LEMMA HonestStep == TypeOK /\ Control /\ Copies /\ ReportHonest /\ Linked' /\ [Next]_vars => ReportHonest'
<1> SUFFICES ASSUME TypeOK, Control, Copies, ReportHonest, Linked', [Next]_vars PROVE ReportHonest'
  OBVIOUS
<1> USE TreeAssumption, KindsAssumption
    DEF Copies, ReportHonest, Linked,
        TypeOK, Control, HandPc, FilePc, Status, Event, EnginePc, Paths, Entries,
        table, copyCall, disk, walk, flags, counts, history, oneLeaves
<1>1. CASE StartPass
  BY <1>1 DEF StartPass
<1>2. ASSUME NEW d \in Dirs, ListFails(d) PROVE ReportHonest'
  BY <1>2 DEF ListFails, UpsertDir, Mark
<1>3. ASSUME NEW d \in Dirs, ListStopped(d) PROVE ReportHonest'
  BY <1>3 DEF ListStopped, Move
<1>4. ASSUME NEW d \in Dirs, List(d) PROVE ReportHonest'
  BY <1>4 DEF List, EnsureDestDir, Children, UpsertDir, Upsert, Upserted
<1>5. ASSUME NEW d \in Dirs, FixDir(d) PROVE ReportHonest'
  BY <1>5 DEF FixDir, Mark, fixLeaves
<1>6. ASSUME NEW x \in Entries, NextFile(x) PROVE ReportHonest'
  BY <1>6 DEF NextFile, Take
<1>7. CASE DestRaises
  BY <1>7 DEF DestRaises, Raises
<1>8. CASE FilesStopped
  BY <1>8 DEF FilesStopped, Move
<1>9. CASE DirDone
  BY <1>9 DEF DirDone, Move
<1>10. CASE WalkDone
  BY <1>10 DEF WalkDone
<1>11. CASE EnterSymlink
  BY <1>11 DEF EnterSymlink, Enter, Upsert, Upserted
<1>12. CASE EnterSpecial
  BY <1>12 DEF EnterSpecial, Enter, Upsert, Upserted
<1>13. CASE StatFails
  BY <1>13 DEF StatFails, Enter, Upsert, Upserted
<1>14. CASE NeedsCopy
  BY <1>14 DEF NeedsCopy, Enter, Upsert, Upserted
<1>15. CASE AlreadyDone
  BY <1>15 DEF AlreadyDone, Report, Done
<1>16. CASE MarkStatFailed
  BY <1>16 DEF MarkStatFailed, Finish, Mark, Report
<1>17. CASE MarkSpecial
  BY <1>17 DEF MarkSpecial, Finish, Mark, Report
<1>18. CASE Unlink
  BY <1>18 DEF Unlink, Touch
<1>19. CASE Symlink
  BY <1>19 DEF Symlink, Touch, Finish, Mark, Report
<1>20. CASE SymlinkFails
  BY <1>20 DEF SymlinkFails, Finish, Mark, Report
<1>21. CASE MarkInProgress
  BY <1>21 DEF MarkInProgress, Mark
<1>22. CASE BeginCopy
  BY <1>22 DEF BeginCopy, Copy!Begin, Touch
<1>23. CASE CopyRaises
  BY <1>23 DEF CopyRaises, Copy!Return, Copy!Outcome
<1>24. CASE Record
  <2>1. CASE outcome = "success"
    BY <1>24, <2>1 DEF Record, Finish, Mark, Report
  <2>2. CASE outcome = "aborted"
    BY <1>24, <2>2 DEF Record, Finish, Mark, Report
  <2>3. CASE outcome = "failed"
    BY <1>24, <2>3 DEF Record, Finish, Mark, Report
  <2> QED
    BY <1>24, <2>1, <2>2, <2>3 DEF Record
<1>25. ASSUME NEW o \in Copy!Outcome, CopyReturns(o) PROVE ReportHonest'
  BY <1>25 DEF CopyReturns, Copy!Return, Copy!Outcome
<1>26. CASE FixStart
  BY <1>26 DEF FixStart, fixLeaves
<1>27. CASE PassEnds
  BY <1>27 DEF PassEnds
<1>28. CASE Publish
  BY <1>28 DEF Publish, Copy!Publish, Touch
<1>29. CASE TogglePause
  BY <1>29 DEF TogglePause, keyLeaves
<1>30. CASE RetryFailed
  BY <1>30 DEF RetryFailed, keyLeaves
<1>31. CASE Quit
  BY <1>31 DEF Quit, keyLeaves
<1>32. CASE Crash
  BY <1>32 DEF Crash
<1>33. ASSUME NEW f \in Files, LoseCopy(f) PROVE ReportHonest'
  BY <1>33 DEF LoseCopy
<1>34. CASE UNCHANGED vars
  BY <1>34 DEF vars
<1>35. CASE Hang
  BY <1>35 DEF Hang, OnSource, Move
<1>36. CASE FixRaises
  BY <1>36 DEF FixRaises, fixLeaves
<1> QED
  BY <1>1, <1>2, <1>3, <1>4, <1>5, <1>6, <1>7, <1>8, <1>9, <1>10, <1>11,
     <1>12, <1>13, <1>14, <1>15, <1>16, <1>17, <1>18, <1>19, <1>20, <1>21,
     <1>22, <1>23, <1>24, <1>25, <1>26, <1>27, <1>28, <1>29, <1>30, <1>31,
     <1>32, <1>33, <1>34, <1>35, <1>36 DEF Next, Engine

(* The one file that was past the test of pause_event is begun under the   *)
(* pause, none after it.                                                   *)
LEMMA PausedStep == TypeOK /\ Control /\ Paused /\ [Next]_vars => Paused'
<1> SUFFICES ASSUME TypeOK, Control, Paused, [Next]_vars PROVE Paused'
  OBVIOUS
<1> USE TreeAssumption, KindsAssumption
    DEF Paused,
        TypeOK, Control, HandPc, FilePc, Status, Event, EnginePc, Paths, Entries,
        table, copyCall, disk, walk, flags, counts, history, oneLeaves
<1>1. CASE StartPass
  BY <1>1 DEF StartPass
<1>2. ASSUME NEW d \in Dirs, ListFails(d) PROVE Paused'
  BY <1>2 DEF ListFails, UpsertDir, Mark
<1>3. ASSUME NEW d \in Dirs, ListStopped(d) PROVE Paused'
  BY <1>3 DEF ListStopped, Move
<1>4. ASSUME NEW d \in Dirs, List(d) PROVE Paused'
  BY <1>4 DEF List, EnsureDestDir, Children, UpsertDir, Upsert, Upserted
<1>5. ASSUME NEW d \in Dirs, FixDir(d) PROVE Paused'
  BY <1>5 DEF FixDir, Mark, fixLeaves
<1>6. ASSUME NEW x \in Entries, NextFile(x) PROVE Paused'
  BY <1>6 DEF NextFile, Take
<1>7. CASE DestRaises
  BY <1>7 DEF DestRaises, Raises
<1>8. CASE FilesStopped
  BY <1>8 DEF FilesStopped, Move
<1>9. CASE DirDone
  BY <1>9 DEF DirDone, Move
<1>10. CASE WalkDone
  BY <1>10 DEF WalkDone
<1>11. CASE EnterSymlink
  BY <1>11 DEF EnterSymlink, Enter, Upsert, Upserted
<1>12. CASE EnterSpecial
  BY <1>12 DEF EnterSpecial, Enter, Upsert, Upserted
<1>13. CASE StatFails
  BY <1>13 DEF StatFails, Enter, Upsert, Upserted
<1>14. CASE NeedsCopy
  BY <1>14 DEF NeedsCopy, Enter, Upsert, Upserted
<1>15. CASE AlreadyDone
  BY <1>15 DEF AlreadyDone, Report, Done
<1>16. CASE MarkStatFailed
  BY <1>16 DEF MarkStatFailed, Finish, Mark, Report
<1>17. CASE MarkSpecial
  BY <1>17 DEF MarkSpecial, Finish, Mark, Report
<1>18. CASE Unlink
  BY <1>18 DEF Unlink, Touch
<1>19. CASE Symlink
  BY <1>19 DEF Symlink, Touch, Finish, Mark, Report
<1>20. CASE SymlinkFails
  BY <1>20 DEF SymlinkFails, Finish, Mark, Report
<1>21. CASE MarkInProgress
  BY <1>21 DEF MarkInProgress, Mark
<1>22. CASE BeginCopy
  BY <1>22 DEF BeginCopy, Copy!Begin, Touch
<1>23. CASE CopyRaises
  BY <1>23 DEF CopyRaises, Copy!Return, Copy!Outcome
<1>24. CASE Record
  <2>1. CASE outcome = "success"
    BY <1>24, <2>1 DEF Record, Finish, Mark, Report
  <2>2. CASE outcome = "aborted"
    BY <1>24, <2>2 DEF Record, Finish, Mark, Report
  <2>3. CASE outcome = "failed"
    BY <1>24, <2>3 DEF Record, Finish, Mark, Report
  <2> QED
    BY <1>24, <2>1, <2>2, <2>3 DEF Record
<1>25. ASSUME NEW o \in Copy!Outcome, CopyReturns(o) PROVE Paused'
  BY <1>25 DEF CopyReturns, Copy!Return, Copy!Outcome
<1>26. CASE FixStart
  BY <1>26 DEF FixStart, fixLeaves
<1>27. CASE PassEnds
  BY <1>27 DEF PassEnds
<1>28. CASE Publish
  BY <1>28 DEF Publish, Copy!Publish, Touch
<1>29. CASE TogglePause
  BY <1>29 DEF TogglePause, keyLeaves
<1>30. CASE RetryFailed
  BY <1>30 DEF RetryFailed, keyLeaves
<1>31. CASE Quit
  BY <1>31 DEF Quit, keyLeaves
<1>32. CASE Crash
  BY <1>32 DEF Crash
<1>33. ASSUME NEW f \in Files, LoseCopy(f) PROVE Paused'
  BY <1>33 DEF LoseCopy
<1>34. CASE UNCHANGED vars
  BY <1>34 DEF vars
<1>35. CASE Hang
  BY <1>35 DEF Hang, OnSource, Move
<1>36. CASE FixRaises
  BY <1>36 DEF FixRaises, fixLeaves
<1> QED
  BY <1>1, <1>2, <1>3, <1>4, <1>5, <1>6, <1>7, <1>8, <1>9, <1>10, <1>11,
     <1>12, <1>13, <1>14, <1>15, <1>16, <1>17, <1>18, <1>19, <1>20, <1>21,
     <1>22, <1>23, <1>24, <1>25, <1>26, <1>27, <1>28, <1>29, <1>30, <1>31,
     <1>32, <1>33, <1>34, <1>35, <1>36 DEF Next, Engine

(* os.walk comes to a directory once, and to its files with it.            *)
LEMMA FreshStep == TypeOK /\ Control /\ Fresh /\ [Next]_vars => Fresh'
<1> SUFFICES ASSUME TypeOK, Control, Fresh, [Next]_vars PROVE Fresh'
  OBVIOUS
<1> USE TreeAssumption, KindsAssumption, UpAssumption
    DEF Fresh, Untouched, InHand,
        TypeOK, Control, HandPc, FilePc, Status, Event, EnginePc, Paths, Entries,
        table, copyCall, disk, walk, flags, counts, history, oneLeaves
<1>1. CASE StartPass
  BY <1>1 DEF StartPass
<1>2. ASSUME NEW d \in Dirs, ListFails(d) PROVE Fresh'
  BY <1>2 DEF ListFails, UpsertDir, Mark
<1>3. ASSUME NEW d \in Dirs, ListStopped(d) PROVE Fresh'
  BY <1>3 DEF ListStopped, Move
<1>4. ASSUME NEW d \in Dirs, List(d) PROVE Fresh'
  BY <1>4 DEF List, EnsureDestDir, Children, UpsertDir, Upsert, Upserted
<1>5. ASSUME NEW d \in Dirs, FixDir(d) PROVE Fresh'
  BY <1>5 DEF FixDir, Mark, fixLeaves
<1>6. ASSUME NEW x \in Entries, NextFile(x) PROVE Fresh'
  BY <1>6 DEF NextFile, Take
<1>7. CASE DestRaises
  BY <1>7 DEF DestRaises, Raises
<1>8. CASE FilesStopped
  BY <1>8 DEF FilesStopped, Move
<1>9. CASE DirDone
  BY <1>9 DEF DirDone, Move
<1>10. CASE WalkDone
  BY <1>10 DEF WalkDone
<1>11. CASE EnterSymlink
  BY <1>11 DEF EnterSymlink, Enter, Upsert, Upserted
<1>12. CASE EnterSpecial
  BY <1>12 DEF EnterSpecial, Enter, Upsert, Upserted
<1>13. CASE StatFails
  BY <1>13 DEF StatFails, Enter, Upsert, Upserted
<1>14. CASE NeedsCopy
  BY <1>14 DEF NeedsCopy, Enter, Upsert, Upserted
<1>15. CASE AlreadyDone
  BY <1>15 DEF AlreadyDone, Report, Done
<1>16. CASE MarkStatFailed
  BY <1>16 DEF MarkStatFailed, Finish, Mark, Report
<1>17. CASE MarkSpecial
  BY <1>17 DEF MarkSpecial, Finish, Mark, Report
<1>18. CASE Unlink
  BY <1>18 DEF Unlink, Touch
<1>19. CASE Symlink
  BY <1>19 DEF Symlink, Touch, Finish, Mark, Report
<1>20. CASE SymlinkFails
  BY <1>20 DEF SymlinkFails, Finish, Mark, Report
<1>21. CASE MarkInProgress
  BY <1>21 DEF MarkInProgress, Mark
<1>22. CASE BeginCopy
  BY <1>22 DEF BeginCopy, Copy!Begin, Touch
<1>23. CASE CopyRaises
  BY <1>23 DEF CopyRaises, Copy!Return, Copy!Outcome
<1>24. CASE Record
  <2>1. CASE outcome = "success"
    BY <1>24, <2>1 DEF Record, Finish, Mark, Report
  <2>2. CASE outcome = "aborted"
    BY <1>24, <2>2 DEF Record, Finish, Mark, Report
  <2>3. CASE outcome = "failed"
    BY <1>24, <2>3 DEF Record, Finish, Mark, Report
  <2> QED
    BY <1>24, <2>1, <2>2, <2>3 DEF Record
<1>25. ASSUME NEW o \in Copy!Outcome, CopyReturns(o) PROVE Fresh'
  BY <1>25 DEF CopyReturns, Copy!Return, Copy!Outcome
<1>26. CASE FixStart
  BY <1>26 DEF FixStart, fixLeaves
<1>27. CASE PassEnds
  BY <1>27 DEF PassEnds
<1>28. CASE Publish
  BY <1>28 DEF Publish, Copy!Publish, Touch
<1>29. CASE TogglePause
  BY <1>29 DEF TogglePause, keyLeaves
<1>30. CASE RetryFailed
  BY <1>30 DEF RetryFailed, keyLeaves
<1>31. CASE Quit
  BY <1>31 DEF Quit, keyLeaves
<1>32. CASE Crash
  BY <1>32 DEF Crash
<1>33. ASSUME NEW f \in Files, LoseCopy(f) PROVE Fresh'
  BY <1>33 DEF LoseCopy
<1>34. CASE UNCHANGED vars
  BY <1>34 DEF vars
<1>35. CASE Hang
  BY <1>35 DEF Hang, OnSource, Move
<1>36. CASE FixRaises
  BY <1>36 DEF FixRaises, fixLeaves
<1> QED
  BY <1>1, <1>2, <1>3, <1>4, <1>5, <1>6, <1>7, <1>8, <1>9, <1>10, <1>11,
     <1>12, <1>13, <1>14, <1>15, <1>16, <1>17, <1>18, <1>19, <1>20, <1>21,
     <1>22, <1>23, <1>24, <1>25, <1>26, <1>27, <1>28, <1>29, <1>30, <1>31,
     <1>32, <1>33, <1>34, <1>35, <1>36 DEF Next, Engine

(* Rows of directories become successes in _fix_directory_timestamps only, *)
(* once the time is set; nothing is written below after that, unless a call*)
(* has raised, and then the walk did not come to its end.                  *)
LEMMA TimesStep == TypeOK /\ Control /\ Times /\ [Next]_vars => Times'
<1> SUFFICES ASSUME TypeOK, Control, Times, [Next]_vars PROVE Times'
  OBVIOUS
<1> USE TreeAssumption, KindsAssumption
    DEF Times, WalkPc,
        TypeOK, Control, HandPc, FilePc, Status, Event, EnginePc, Paths, Entries,
        table, copyCall, disk, walk, flags, counts, history, oneLeaves
<1>1. CASE StartPass
  BY <1>1 DEF StartPass
<1>2. ASSUME NEW d \in Dirs, ListFails(d) PROVE Times'
  BY <1>2 DEF ListFails, UpsertDir, Mark
<1>3. ASSUME NEW d \in Dirs, ListStopped(d) PROVE Times'
  BY <1>3 DEF ListStopped, Move
<1>4. ASSUME NEW d \in Dirs, List(d) PROVE Times'
  BY <1>4 DEF List, EnsureDestDir, Children, UpsertDir, Upsert, Upserted
<1>5. ASSUME NEW d \in Dirs, FixDir(d) PROVE Times'
  BY <1>5 DEF FixDir, Mark, fixLeaves
<1>6. ASSUME NEW x \in Entries, NextFile(x) PROVE Times'
  BY <1>6 DEF NextFile, Take
<1>7. CASE DestRaises
  BY <1>7 DEF DestRaises, Raises
<1>8. CASE FilesStopped
  BY <1>8 DEF FilesStopped, Move
<1>9. CASE DirDone
  BY <1>9 DEF DirDone, Move
<1>10. CASE WalkDone
  BY <1>10 DEF WalkDone
<1>11. CASE EnterSymlink
  BY <1>11 DEF EnterSymlink, Enter, Upsert, Upserted
<1>12. CASE EnterSpecial
  BY <1>12 DEF EnterSpecial, Enter, Upsert, Upserted
<1>13. CASE StatFails
  BY <1>13 DEF StatFails, Enter, Upsert, Upserted
<1>14. CASE NeedsCopy
  BY <1>14 DEF NeedsCopy, Enter, Upsert, Upserted
<1>15. CASE AlreadyDone
  BY <1>15 DEF AlreadyDone, Report, Done
<1>16. CASE MarkStatFailed
  BY <1>16 DEF MarkStatFailed, Finish, Mark, Report
<1>17. CASE MarkSpecial
  BY <1>17 DEF MarkSpecial, Finish, Mark, Report
<1>18. CASE Unlink
  BY <1>18 DEF Unlink, Touch
<1>19. CASE Symlink
  BY <1>19 DEF Symlink, Touch, Finish, Mark, Report
<1>20. CASE SymlinkFails
  BY <1>20 DEF SymlinkFails, Finish, Mark, Report
<1>21. CASE MarkInProgress
  BY <1>21 DEF MarkInProgress, Mark
<1>22. CASE BeginCopy
  BY <1>22 DEF BeginCopy, Copy!Begin, Touch
<1>23. CASE CopyRaises
  BY <1>23 DEF CopyRaises, Copy!Return, Copy!Outcome
<1>24. CASE Record
  <2>1. CASE outcome = "success"
    BY <1>24, <2>1 DEF Record, Finish, Mark, Report
  <2>2. CASE outcome = "aborted"
    BY <1>24, <2>2 DEF Record, Finish, Mark, Report
  <2>3. CASE outcome = "failed"
    BY <1>24, <2>3 DEF Record, Finish, Mark, Report
  <2> QED
    BY <1>24, <2>1, <2>2, <2>3 DEF Record
<1>25. ASSUME NEW o \in Copy!Outcome, CopyReturns(o) PROVE Times'
  BY <1>25 DEF CopyReturns, Copy!Return, Copy!Outcome
<1>26. CASE FixStart
  BY <1>26 DEF FixStart, fixLeaves
<1>27. CASE PassEnds
  BY <1>27 DEF PassEnds
<1>28. CASE Publish
  BY <1>28 DEF Publish, Copy!Publish, Touch
<1>29. CASE TogglePause
  BY <1>29 DEF TogglePause, keyLeaves
<1>30. CASE RetryFailed
  BY <1>30 DEF RetryFailed, keyLeaves
<1>31. CASE Quit
  BY <1>31 DEF Quit, keyLeaves
<1>32. CASE Crash
  BY <1>32 DEF Crash
<1>33. ASSUME NEW f \in Files, LoseCopy(f) PROVE Times'
  BY <1>33 DEF LoseCopy
<1>34. CASE UNCHANGED vars
  BY <1>34 DEF vars
<1>35. CASE Hang
  BY <1>35 DEF Hang, OnSource, Move
<1>36. CASE FixRaises
  BY <1>36 DEF FixRaises, fixLeaves
<1> QED
  BY <1>1, <1>2, <1>3, <1>4, <1>5, <1>6, <1>7, <1>8, <1>9, <1>10, <1>11,
     <1>12, <1>13, <1>14, <1>15, <1>16, <1>17, <1>18, <1>19, <1>20, <1>21,
     <1>22, <1>23, <1>24, <1>25, <1>26, <1>27, <1>28, <1>29, <1>30, <1>31,
     <1>32, <1>33, <1>34, <1>35, <1>36 DEF Next, Engine

(* Between a directory and a path below it is a directory that is in it.   *)
LEMMA Between ==
  ASSUME NEW x \in Entries, NEW d \in Dirs, d \in Up[x], In[x] # d
  PROVE  \E c \in Children(d, Dirs) : c \in Up[x]
<1> USE DEF Paths
<1>1. x \in Paths \ {Root} /\ x \notin Dirs
  BY TreeAssumption, KindsAssumption DEF Entries
<1> DEFINE Some == {z \in Up[x] : z # d /\ d \in Up[z]}
<1>2. Some \in SUBSET Up[x] /\ x \in Some
  BY <1>1, UpAssumption, KindsAssumption
<1>3. PICK c \in Some : \A z \in Some : c \in Up[z]
  BY <1>1, <1>2, HighestAssumption
<1>4. c \in Paths \ {Root} /\ In[c] \in Dirs
  BY <1>1, <1>2, <1>3, UpAssumption, TreeAssumption
<1>5. d \in Up[In[c]] /\ In[c] \in Up[c] /\ c \notin Up[In[c]]
  BY <1>3, <1>4, UpAssumption
<1>6. In[c] = d
  <2>1. In[c] \in Up[x]
    BY <1>1, <1>2, <1>3, <1>5, UpAssumption
  <2> QED
    BY <1>3, <1>5, <2>1
<1>7. c \in Dirs
  BY <1>1, <1>2, <1>3, <1>6, UpAssumption
<1> QED
  BY <1>3, <1>4, <1>6, <1>7 DEF Children

(* A step on the file in hand that keeps it in hand.                       *)
LEMMA HandProgress ==
  ASSUME TypeOK, Control, Progress, epc \in HandPc, epc' \in HandPc,
         \A x \in Entries \ {cur} : status'[x] = status[x],
         UNCHANGED <<cur, event, requeued, entries, dirsLeft, unlisted, losses, whole>>
  PROVE  Progress'
<1>1. cur \in Entries \cap Selected
  BY DEF Control
<1>2. \A x \in Entries \ {cur} : (Accounted(x) => Accounted(x)') /\ (Ahead(x) => Ahead(x)')
  BY DEF Accounted, Ahead, InHand, WalkPc, HandPc
<1>3. Ahead(cur)'
  BY DEF Ahead, InHand, WalkPc
<1>4. ASSUME NEW x \in Entries \cap Selected,
             Reached(x)', x \in Files => losses' = 0
      PROVE  Accounted(x)' \/ Ahead(x)'
  <2>1. CASE x = cur
    BY <1>3, <2>1
  <2>2. CASE x # cur
    <3>1. Accounted(x) \/ Ahead(x)
      BY <1>4 DEF Progress, WalkPc, Reached
    <3> QED
      BY <1>2, <2>2, <3>1
  <2> QED
    BY <2>1, <2>2
<1> QED
  BY <1>1, <1>4 DEF Progress

(* The last step on the file in hand leaves a row that fits the report.    *)
LEMMA FinishProgress ==
  ASSUME TypeOK, Control, Progress, epc \in HandPc,
         NEW s, NEW e \in Event \ {"none"}, s = RowOf(e),
         status' = [status EXCEPT ![cur] = s], event' = [event EXCEPT ![cur] = e],
         epc' = "files",
         UNCHANGED <<cur, requeued, entries, dirsLeft, unlisted, losses, whole>>
  PROVE  Progress'
<1>1. cur \in Entries \cap Selected
  BY DEF Control
<1>2. \A x \in Entries \ {cur} :
        status'[x] = status[x] /\ event'[x] = event[x]
  BY DEF TypeOK, Paths
<1>3. \A x \in Entries \ {cur} : (Accounted(x) => Accounted(x)') /\ (Ahead(x) => Ahead(x)')
  BY <1>2 DEF Accounted, Ahead, InHand, WalkPc, HandPc
<1>4. Accounted(cur)'
  <2>1. status'[cur] = s /\ event'[cur] = e
    BY <1>1 DEF TypeOK, Paths
  <2> QED
    BY <2>1 DEF Accounted
<1>5. ASSUME NEW x \in Entries \cap Selected,
             Reached(x)', x \in Files => losses' = 0
      PROVE  Accounted(x)' \/ Ahead(x)'
  <2>1. CASE x # cur
    <3>1. Accounted(x) \/ Ahead(x)
      BY <1>5 DEF Progress, WalkPc, Reached
    <3> QED
      BY <1>3, <2>1, <3>1
  <2> QED
    BY <1>4, <2>1
<1> QED
  BY <1>1, <1>2, <1>5 DEF Progress

(* Pruning and the branches of _copy_one pass over no selected entry: it   *)
(* goes from a directory that is left to a directory below it, to the file *)
(* names, into hand, and out of it with an event and the row that fits.    *)
LEMMA ProgressStep == TypeOK /\ Control /\ Progress /\ [Next]_vars => Progress'
<1> SUFFICES ASSUME TypeOK, Control, Progress, [Next]_vars PROVE Progress'
  OBVIOUS
<1> USE TreeAssumption, KindsAssumption
    DEF TypeOK, Control, HandPc, FilePc, Event, Paths, Entries,
        table, copyCall, disk, walk, flags, counts, history, oneLeaves
<1>1. CASE StartPass
  <2>1. \A x \in Entries : Ahead(x)'
    BY <1>1, UpAssumption DEF StartPass, Ahead, WalkPc
  <2> QED
    BY <1>1, <2>1 DEF StartPass, Progress
<1>2. ASSUME NEW d \in Dirs, ListFails(d) PROVE Progress'
  <2>1. \A x \in Entries : status'[x] = status[x]
    BY <1>2 DEF ListFails, Mark
  <2>2. ASSUME NEW x \in Entries \cap Selected,
               Reached(x)', x \in Files => losses' = 0
        PROVE  Accounted(x)' \/ Ahead(x)'
    <3>1. Reached(x) /\ d \notin Up[x]
      BY <1>2, <2>2 DEF ListFails, Reached, Contains
    <3>2. Accounted(x) \/ Ahead(x)
      BY <1>2, <2>2, <3>1 DEF ListFails, Progress, WalkPc
    <3>3. Accounted(x) => Accounted(x)'
      BY <1>2, <2>1 DEF ListFails, Accounted
    <3>4. Ahead(x) => Ahead(x)'
      BY <1>2, <3>1 DEF ListFails, Ahead, InHand
    <3> QED
      BY <3>2, <3>3, <3>4
  <2> QED
    BY <2>1, <2>2 DEF Progress
<1>3. ASSUME NEW d \in Dirs, ListStopped(d) PROVE Progress'
  BY <1>3 DEF ListStopped, Move, Progress, Accounted, Ahead, InHand, WalkPc, Reached, RowOf
<1>4. ASSUME NEW d \in Dirs, List(d) PROVE Progress'
  <2>1. \A x \in Entries : status'[x] = status[x]
    BY <1>4 DEF List, EnsureDestDir, Upsert
  <2>2. ASSUME NEW x \in Entries \cap Selected, d \in Up[x] PROVE Ahead(x)'
    <3>1. x # Root
      BY DEF Entries
    <3>2. CASE In[x] = d
      BY <1>4, <3>1, <3>2 DEF List, Ahead, WalkPc, Children
    <3>3. CASE In[x] # d
      <4>1. PICK c \in Children(d, Dirs) : c \in Up[x]
        BY <2>2, <3>3, Between
      <4>2. Kept(c)
        BY <4>1 DEF Kept, Contains
      <4> QED
        BY <1>4, <4>1, <4>2 DEF List, Ahead, WalkPc
    <3> QED
      BY <3>2, <3>3
  <2>3. ASSUME NEW x \in Entries \cap Selected,
               Reached(x)', x \in Files => losses' = 0
        PROVE  Accounted(x)' \/ Ahead(x)'
    <3>1. Accounted(x) \/ Ahead(x)
      BY <1>4, <2>3 DEF List, Progress, WalkPc, Reached
    <3>2. Accounted(x) => Accounted(x)'
      BY <1>4, <2>1 DEF List, Accounted
    <3>3. ASSUME Ahead(x) PROVE Ahead(x)'
      <4>1. PICK e \in dirsLeft : e \in Up[x]
        BY <1>4, <3>3 DEF List, Ahead, InHand, HandPc, Control
      <4>2. CASE e = d
        BY <2>2, <4>1, <4>2
      <4>3. CASE e # d
        BY <1>4, <4>1, <4>3 DEF List, Ahead, WalkPc
      <4> QED
        BY <4>2, <4>3
    <3> QED
      BY <3>1, <3>2, <3>3
  <2> QED
    BY <2>1, <2>3 DEF Progress
<1>5. ASSUME NEW d \in Dirs, FixDir(d) PROVE Progress'
  BY <1>5 DEF FixDir, Mark, fixLeaves, Progress, Accounted, Ahead, InHand, WalkPc, Reached, RowOf
<1>6. ASSUME NEW x \in Entries, NextFile(x) PROVE Progress'
  BY <1>6 DEF NextFile, Take, Progress, Accounted, Ahead, InHand, WalkPc, Reached, RowOf
<1>7. CASE DestRaises
  BY <1>7 DEF DestRaises, Raises, Progress, Accounted, Ahead, InHand, WalkPc, Reached, RowOf
<1>8. CASE FilesStopped
  BY <1>8 DEF FilesStopped, Move, Progress, Accounted, Ahead, InHand, WalkPc, Reached, RowOf
<1>9. CASE DirDone
  BY <1>9 DEF DirDone, Move, Progress, Accounted, Ahead, InHand, WalkPc, Reached, RowOf
<1>10. CASE WalkDone
  BY <1>10 DEF WalkDone, Progress, Accounted, Ahead, InHand, WalkPc, Reached, RowOf
<1>11. CASE EnterSymlink
  BY <1>11, HandProgress DEF EnterSymlink, Enter, Upsert
<1>12. CASE EnterSpecial
  BY <1>12, HandProgress DEF EnterSpecial, Enter, Upsert
<1>13. CASE StatFails
  BY <1>13, HandProgress DEF StatFails, Enter, Upsert
<1>14. CASE NeedsCopy
  BY <1>14, HandProgress DEF NeedsCopy, Enter, Upsert
<1>15. CASE AlreadyDone
  <2>1. status' = [status EXCEPT ![cur] = "success"]
    BY <1>15 DEF AlreadyDone, Done
  <2>2. "success" = RowOf("already_done")
    BY DEF RowOf
  <2> QED
    BY <1>15, <2>1, <2>2, FinishProgress DEF AlreadyDone, Report
<1>16. CASE MarkStatFailed
  <2>1. "failed" \in Event \ {"none"} /\ "failed" = RowOf("failed")
    BY DEF RowOf
  <2> QED
    BY <1>16, <2>1, FinishProgress DEF MarkStatFailed, Finish, Mark, Report
<1>17. CASE MarkSpecial
  <2>1. "skipped" \in Event \ {"none"} /\ "skipped" = RowOf("skipped")
    BY DEF RowOf
  <2> QED
    BY <1>17, <2>1, FinishProgress DEF MarkSpecial, Finish, Mark, Report
<1>18. CASE Unlink
  BY <1>18 DEF Unlink, Touch, Progress, Accounted, Ahead, InHand, WalkPc, Reached, RowOf
<1>19. CASE Symlink
  <2>1. "success" \in Event \ {"none"} /\ "success" = RowOf("success")
    BY DEF RowOf
  <2> QED
    BY <1>19, <2>1, FinishProgress DEF Symlink, Finish, Mark, Report
<1>20. CASE SymlinkFails
  <2>1. "failed" \in Event \ {"none"} /\ "failed" = RowOf("failed")
    BY DEF RowOf
  <2> QED
    BY <1>20, <2>1, FinishProgress DEF SymlinkFails, Finish, Mark, Report
<1>21. CASE MarkInProgress
  BY <1>21, HandProgress DEF MarkInProgress, Mark
<1>22. CASE BeginCopy
  BY <1>22 DEF BeginCopy, Copy!Begin, Touch, Progress, Accounted, Ahead, InHand, WalkPc, Reached, RowOf
<1>23. CASE CopyRaises
  BY <1>23 DEF CopyRaises, Copy!Return, Copy!Outcome, Progress, Accounted, Ahead, InHand, WalkPc, Reached, RowOf
<1>24. CASE Record
  <2>1. CASE outcome = "success"
    <3>1. "success" \in Event \ {"none"} /\ "success" = RowOf("success")
      BY DEF RowOf
    <3>2. Finish("success", "success")
      BY <1>24, <2>1 DEF Record
    <3> QED
      BY <1>24, <3>1, <3>2, FinishProgress DEF Record, Finish, Mark, Report
  <2>2. CASE outcome = "aborted"
    <3>1. "aborted" \in Event \ {"none"} /\ "skipped" = RowOf("aborted")
      BY DEF RowOf
    <3>2. Finish("skipped", "aborted")
      BY <1>24, <2>2 DEF Record
    <3> QED
      BY <1>24, <3>1, <3>2, FinishProgress DEF Record, Finish, Mark, Report
  <2>3. CASE outcome = "failed"
    <3>1. "failed" \in Event \ {"none"} /\ "failed" = RowOf("failed")
      BY DEF RowOf
    <3>2. Finish("failed", "failed")
      BY <1>24, <2>3 DEF Record
    <3> QED
      BY <1>24, <3>1, <3>2, FinishProgress DEF Record, Finish, Mark, Report
  <2> QED
    BY <1>24, <2>1, <2>2, <2>3 DEF Record
<1>25. ASSUME NEW o \in Copy!Outcome, CopyReturns(o) PROVE Progress'
  BY <1>25 DEF CopyReturns, Copy!Return, Copy!Outcome, Progress, Accounted, Ahead, InHand, WalkPc, Reached, RowOf
<1>26. CASE FixStart
  BY <1>26 DEF FixStart, fixLeaves, Progress, Accounted, Ahead, InHand, WalkPc, Reached, RowOf
<1>27. CASE PassEnds
  BY <1>27 DEF PassEnds, Progress, Accounted, Ahead, InHand, WalkPc, Reached, RowOf
<1>28. CASE Publish
  BY <1>28 DEF Publish, Copy!Publish, Touch, Progress, Accounted, Ahead, InHand, WalkPc, Reached, RowOf
<1>29. CASE TogglePause
  BY <1>29 DEF TogglePause, keyLeaves, Progress, Accounted, Ahead, InHand, WalkPc, Reached, RowOf
<1>30. CASE RetryFailed
  BY <1>30 DEF RetryFailed, keyLeaves, Progress, Accounted, Ahead, InHand, WalkPc, Reached, RowOf
<1>31. CASE Quit
  BY <1>31 DEF Quit, keyLeaves, Progress, Accounted, Ahead, InHand, WalkPc, Reached, RowOf
<1>32. CASE Crash
  BY <1>32 DEF Crash, Progress, Accounted, Ahead, InHand, WalkPc, Reached, RowOf
<1>33. ASSUME NEW f \in Files, LoseCopy(f) PROVE Progress'
  BY <1>33 DEF LoseCopy, Progress, Accounted, Ahead, InHand, WalkPc, Reached, RowOf
<1>34. CASE UNCHANGED vars
  BY <1>34 DEF vars, Progress, Accounted, Ahead, InHand, Reached
<1>35. CASE Hang
  BY <1>35 DEF Hang, OnSource, Move, Progress, Accounted, Ahead, InHand, WalkPc,
     Reached
<1>36. CASE FixRaises
  BY <1>36 DEF FixRaises, fixLeaves, Progress, Accounted, Ahead, InHand, WalkPc,
     Reached
<1> QED
  BY <1>1, <1>2, <1>3, <1>4, <1>5, <1>6, <1>7, <1>8, <1>9, <1>10, <1>11,
     <1>12, <1>13, <1>14, <1>15, <1>16, <1>17, <1>18, <1>19, <1>20, <1>21,
     <1>22, <1>23, <1>24, <1>25, <1>26, <1>27, <1>28, <1>29, <1>30, <1>31,
     <1>32, <1>33, <1>34, <1>35, <1>36 DEF Next, Engine

-------------------------------------------------------------------------------
(* The invariants                                                          *)

IInv ==
  /\ TypeOK /\ Control
  /\ Copies /\ Fresh /\ Linked /\ ReportHonest /\ Paused /\ Progress /\ Times

LEMMA InitInv == Init => IInv
<1> SUFFICES ASSUME Init PROVE IInv
  OBVIOUS
<1> USE TreeAssumption DEF Init, Copy!Init, Entries, Paths
<1>1. TypeOK
  BY DEF TypeOK, Status, Event, EnginePc, Copy!Outcome
<1>2. Control
  BY DEF Control, HandPc, FilePc
<1>3. Copies
  BY DEF Copies
<1>4. Fresh /\ Linked
  BY DEF Fresh, Linked, HandPc
<1>5. ReportHonest
  BY DEF ReportHonest
<1>6. Paused
  BY DEF Paused
<1>7. Progress
  BY DEF Progress, WalkPc, HandPc
<1>8. Times
  BY DEF Times, WalkPc, HandPc
<1> QED
  BY <1>1, <1>2, <1>3, <1>4, <1>5, <1>6, <1>7, <1>8 DEF IInv

(* The inductive invariant of a pass, its table and the destination.       *)
THEOREM Invariance == Spec => []IInv
<1>1. IInv /\ [Next]_vars => IInv'
  <2> SUFFICES ASSUME IInv, [Next]_vars PROVE IInv'
    OBVIOUS
  <2>1. TypeOK' /\ Control'
    BY TypeStep, ControlStep DEF IInv
  <2>2. Copies' /\ Fresh' /\ Linked' /\ Paused' /\ Progress' /\ Times'
    BY CopiesStep, FreshStep, LinkedStep, PausedStep, ProgressStep, TimesStep
    DEF IInv
  <2>3. ReportHonest'
    BY <2>2, HonestStep DEF IInv
  <2> QED
    BY <2>1, <2>2, <2>3 DEF IInv
<1> QED
  BY InitInv, <1>1, PTL DEF Spec

(* The variables of the engine keep their types (copier.py).               *)
THEOREM TypeCorrect == Spec => []TypeOK
<1>1. IInv => TypeOK
  BY DEF IInv
<1> QED
  BY Invariance, <1>1, PTL

(* A success row has a whole copy, unless somebody has touched the copy,   *)
(* over keys and deaths between any two steps (copier.py:229-239).         *)
THEOREM SuccessTheorem == Spec => []SuccessHasCopy
<1>1. IInv => SuccessHasCopy
  BY DEF IInv, Copies, SuccessHasCopy
<1> QED
  BY Invariance, <1>1, PTL

(* As long as nobody has touched a copy, a success row has a whole copy    *)
(* (copier.py:229-239).                                                    *)
UntouchedSuccess ==
  losses = 0 => \A f \in Files : status[f] = "success" => dest[f] = Size[f]

THEOREM UntouchedTheorem == Spec => []UntouchedSuccess
<1>1. IInv => UntouchedSuccess
  BY DEF IInv, Copies, UntouchedSuccess
<1> QED
  BY Invariance, <1>1, PTL

(* What a pass reports as copied, or as copied before, is there            *)
(* (copier.py:203-212).                                                    *)
THEOREM ReportTheorem == Spec => []ReportHonest
<1>1. IInv => ReportHonest
  BY DEF IInv
<1> QED
  BY Invariance, <1>1, PTL

(* At most one file is begun after a pause is asked for (copier.py:119).   *)
THEOREM PauseTheorem == Spec => []AtMostOneStartAfterPause
<1>1. IInv => AtMostOneStartAfterPause
  BY DEF IInv, Paused, AtMostOneStartAfterPause
<1> QED
  BY Invariance, <1>1, PTL

(* A walk that came to its end has accounted for every selected entry it   *)
(* could reach, and has touched no other (copier.py:86-130).               *)
THEOREM AccountedTheorem == Spec => []EveryFileAccounted
<1>1. IInv => EveryFileAccounted
  <2> SUFFICES ASSUME IInv, whole, epc = "off" PROVE EveryFileAccounted
    BY DEF EveryFileAccounted
  <2>1. \A x \in Entries \cap Selected : ~Ahead(x)
    BY DEF Ahead, WalkPc, HandPc
  <2> QED
    BY <2>1 DEF IInv, Progress, Accounted, EveryFileAccounted
<1> QED
  BY Invariance, <1>1, PTL

(* After the first pass a directory that is a success has the time of its  *)
(* source (copier.py:273-284).                                             *)
THEOREM TimesTheorem == Spec => []DirTimesAfterFirstPass
<1>1. IInv => DirTimesAfterFirstPass
  BY DEF IInv, Times, DirTimesAfterFirstPass
<1> QED
  BY Invariance, <1>1, PTL
===============================================================================
