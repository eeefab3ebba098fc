--------------------------- MODULE StatusTreeProofs ---------------------------
(***************************************************************************)
(* Theorems about StatusTree, for every tree of finitely many files and    *)
(* every table at the start: its types, CountsAgree, TreeCurrent,          *)
(* RedWhenFailed and NoStaleLine.                                          *)
(*                                                                         *)
(* The copy thread is between a commit and the callback for it while the   *)
(* event loop serves a key.  Control says what the row, the count and the  *)
(* event of the file in hand may then be; the rest follows from it:        *)
(* Current, about counts and rows, and Reds and Sight, about the lines on  *)
(* the screen and what they would look like now.                           *)
(***************************************************************************)
EXTENDS StatusTree, FiniteSetTheorems, TLAPS

Control ==
  /\ ppc \in {"taken", "stuck", "started", "copying", "told"} => subject \in Files
  /\ ppc = "dirtold" => subject \in Dirs
  /\ ppc # "idle" => copying
  /\ ppc \in {"started", "copying"} => row[subject] = "in_progress"
  /\ ppc = "copying" => counted[subject] = "in_progress"
  /\ ppc = "told" =>
       IF result = "already_done" THEN row[subject] = "success"
       ELSE /\ result \in {"success", "failed", "skipped", "aborted"}
            /\ row[subject] = RowOf(result) \/ subject \in raced

(* An event that changes no count finds the count right already.           *)
Current ==
  loop = "free" =>
    /\ \A f \in Files \ Ahead : Agree(f)
    /\ ppc = "told" /\ result = "already_done" /\ subject \notin raced
         => Agree(subject)

UpToDate(n) == n \in Loaded => n \in dirty \/ drawn[n] = Style(n)

Reporting == IF ppc = "dirtold" THEN {subject} ELSE {}

(* An event that refreshes nothing finds the line of its file right.       *)
Sight ==
  loop = "free" =>
    /\ \A n \in Nodes \ (Ahead \cup untold \cup Reporting) : UpToDate(n)
    /\ \A f \in Files \ raced : f = subject =>
         /\ ppc = "taken" => \/ Agree(f) /\ UpToDate(f)
                             \/ row[f] = "pending" /\ counted[f] = "none"
         /\ ppc = "started" /\ counted[f] = "in_progress" => UpToDate(f)
         /\ ppc = "told" /\ (result = "already_done" \/ counted[f] = result)
              => UpToDate(f)

(* What has counted a failure is drawn red, or will be drawn again.        *)
UpToRed(d) ==
  d \in Loaded /\ agg[d]["failed"] > 0 => d \in dirty \/ drawn[d] = "red"

Reds == \A d \in Dirs : UpToRed(d)

-------------------------------------------------------------------------------
(* Counting                                                                *)

(* A count is at most the number of files.                                 *)
LEMMA CountType ==
  ASSUME NEW d \in Dirs, NEW statuses
  PROVE  Count(d, statuses) \in [Keys -> 0..Cardinality(Files)]
<1>1. Cardinality(Files) \in Nat
  BY FiniteAssumption, FS_CardinalityType
<1>2. ASSUME NEW s \in Keys
      PROVE  Cardinality({f \in FilesBelow(d) : statuses[f] = s}) \in 0..Cardinality(Files)
  <2> DEFINE some == {f \in FilesBelow(d) : statuses[f] = s}
  <2>1. some \in SUBSET Files
    BY DEF FilesBelow
  <2>2. IsFiniteSet(some) /\ Cardinality(some) <= Cardinality(Files)
    BY <2>1, FiniteAssumption, FS_Subset
  <2>3. Cardinality(some) \in Nat
    BY <2>2, FS_CardinalityType
  <2> HIDE DEF some
  <2>4. Cardinality(some) \in 0..Cardinality(Files)
    BY <1>1, <2>2, <2>3
  <2> QED
    BY <2>4 DEF some
<1> QED
  BY <1>2 DEF Count

(* Below a directory that has a file with status s there are some.         *)
LEMMA CountPositive ==
  ASSUME NEW d \in Dirs, NEW statuses, NEW s \in Keys,
         NEW f \in FilesBelow(d), statuses[f] = s
  PROVE  Count(d, statuses)[s] > 0
<1> DEFINE some == {g \in FilesBelow(d) : statuses[g] = s}
<1>1. some \in SUBSET Files /\ some # {}
  BY DEF FilesBelow
<1>2. IsFiniteSet(some)
  BY <1>1, FiniteAssumption, FS_Subset
<1>3. Cardinality(some) \in Nat /\ Cardinality(some) # 0
  BY <1>1, <1>2, FS_CardinalityType, FS_EmptySet
<1>4. Count(d, statuses)[s] = Cardinality(some)
  BY DEF Count
<1> HIDE DEF some
<1> QED
  BY <1>3, <1>4

(* _bump_ancestors of the old and the new status counts the file anew      *)
(* (tree_widget.py:117-131).                                               *)
LEMMA MovedCounts ==
  ASSUME counted \in [Files -> Keys \cup {"none"}], CountsAgree,
         NEW f \in Files, NEW s \in Keys, counted[f] # s
  PROVE  LET new == [counted EXCEPT ![f] = s]
         IN  \A d \in Dirs : Moved(f, counted[f], s)[d] = Count(d, new)
<1> DEFINE new == [counted EXCEPT ![f] = s]
           Those(d, st, k) == {g \in FilesBelow(d) : st[g] = k}
<1>1. new[f] = s /\ \A g \in Files \ {f} : new[g] = counted[g]
  OBVIOUS
<1>2. ASSUME NEW d \in Dirs, NEW k \in Keys
      PROVE  Moved(f, counted[f], s)[d][k] = Cardinality(Those(d, new, k))
  <2>1. Moved(f, counted[f], s)[d][k] =
          IF d \notin Above[f] THEN agg[d][k]
          ELSE agg[d][k] + (IF k = s THEN 1 ELSE 0) - (IF k = counted[f] THEN 1 ELSE 0)
    BY DEF Moved
  <2>2. agg[d][k] = Cardinality(Those(d, counted, k))
    BY DEF CountsAgree, Count
  <2>3. Those(d, counted, k) \in SUBSET Files
    BY DEF FilesBelow
  <2>4. IsFiniteSet(Those(d, counted, k))
    BY <2>3, FiniteAssumption, FS_Subset
  <2>5. Cardinality(Those(d, counted, k)) \in Nat
    BY <2>4, FS_CardinalityType
  <2>6. CASE d \notin Above[f] \/ k \notin {s, counted[f]}
    <3>1. Those(d, new, k) = Those(d, counted, k)
      BY <1>1, <2>6 DEF FilesBelow
    <3> HIDE DEF Those
    <3> QED
      BY <2>1, <2>2, <2>5, <2>6, <3>1
  <2>7. CASE d \in Above[f] /\ k = s
    <3>1. Those(d, new, k) = Those(d, counted, k) \cup {f} /\ f \notin Those(d, counted, k)
      BY <1>1, <2>7 DEF FilesBelow
    <3> HIDE DEF Those
    <3>2. Cardinality(Those(d, new, k)) = Cardinality(Those(d, counted, k)) + 1
      BY <2>4, <3>1, FS_AddElement
    <3> QED
      BY <2>1, <2>2, <2>5, <2>7, <3>2
  <2>8. CASE d \in Above[f] /\ k = counted[f]
    <3>1. Those(d, new, k) = Those(d, counted, k) \ {f} /\ f \in Those(d, counted, k)
      BY <1>1, <2>8 DEF FilesBelow
    <3> HIDE DEF Those
    <3>2. Cardinality(Those(d, new, k)) = Cardinality(Those(d, counted, k)) - 1
      BY <2>4, <3>1, FS_RemoveElement, ZenonT(30)
    <3> QED
      BY <2>1, <2>2, <2>5, <2>8, <3>2
  <2> QED
    BY <2>6, <2>7, <2>8
<1>3. \A d \in Dirs : Moved(f, counted[f], s)[d] =
                         [k \in Keys |-> Moved(f, counted[f], s)[d][k]]
  BY DEF Moved
<1> QED
  BY <1>2, <1>3 DEF Count

-------------------------------------------------------------------------------
(* The steps                                                               *)

(* Whatever order the callbacks come in (tree_widget.py:111-144).          *)
LEMMA CountsStep == TypeOK /\ Control /\ CountsAgree /\ [Next]_vars => CountsAgree'
<1> SUFFICES ASSUME TypeOK, Control, CountsAgree, [Next]_vars PROVE CountsAgree'
  OBVIOUS
<1> USE TreeAssumption
    DEF CountsAgree, table, pass, app, events, tree, screen, bounds, history
<1>1. ASSUME NEW f \in Files, Take(f) PROVE CountsAgree'
  BY <1>1 DEF Take, Comes, SetRow, passLeaves, Count
<1>2. ASSUME NEW f \in Files, AlreadyDone(f) PROVE CountsAgree'
  BY <1>2 DEF AlreadyDone, Comes, passLeaves, Count
<1>3. ASSUME NEW d \in Dirs, DirError(d) PROVE CountsAgree'
  BY <1>3 DEF DirError, passLeaves, Count
<1>4. CASE Direct
  BY <1>4 DEF Direct, Tell, SetRow, RowOf, passLeaves, Count
<1>5. CASE MarkInProgress
  BY <1>5 DEF MarkInProgress, SetRow, passLeaves, Count
<1>6. CASE Outcome
  BY <1>6 DEF Outcome, Tell, SetRow, RowOf, passLeaves, Count
<1>7. CASE WalkEnds
  BY <1>7 DEF WalkEnds, Goto, passLeaves, Count
<1>8. CASE FixDirs
  BY <1>8 DEF FixDirs, Count
<1>9. CASE OnFileStart
  <2>1. subject \in Files
    BY <1>9 DEF OnFileStart, Control
  <2>2. CASE counted' = counted /\ agg' = agg
    BY <2>2 DEF CountsAgree, Count
  <2>3. CASE ~(counted' = counted /\ agg' = agg)
    <3>1. "in_progress" \in Keys /\ counted[subject] # "in_progress"
          /\ agg' = Moved(subject, counted[subject], "in_progress")
          /\ counted' = [counted EXCEPT ![subject] = "in_progress"]
      BY <1>9, <2>3 DEF OnFileStart, Update, Record, Prior, Keys, Status, Control
    <3>2. \A d \in Dirs : agg'[d] = Count(d, counted')
      BY <2>1, <3>1, MovedCounts DEF TypeOK
    <3> QED
      BY <3>2 DEF CountsAgree, Count
  <2> QED
    BY <2>2, <2>3
<1>10. CASE OnFileDone
  <2>1. subject \in Files
    BY <1>10 DEF OnFileDone, Control
  <2>2. CASE counted' = counted /\ agg' = agg
    BY <2>2 DEF CountsAgree, Count
  <2>3. CASE ~(counted' = counted /\ agg' = agg)
    <3>1. result \in Keys /\ counted[subject] # result
          /\ agg' = Moved(subject, counted[subject], result)
          /\ counted' = [counted EXCEPT ![subject] = result]
      BY <1>10, <2>3 DEF OnFileDone, Update, Record, Prior, Keys, Status, Control
    <3>2. \A d \in Dirs : agg'[d] = Count(d, counted')
      BY <2>1, <3>1, MovedCounts DEF TypeOK
    <3> QED
      BY <3>2 DEF CountsAgree, Count
  <2> QED
    BY <2>2, <2>3
<1>11. CASE OnDirError
  BY <1>11 DEF OnDirError, RefreshChain, Serves, callbackLeaves, Count
<1>12. CASE OnCopyFinished
  BY <1>12 DEF OnCopyFinished, Serves, callbackLeaves, Count
<1>13. CASE Raises
  BY <1>13 DEF Raises, callbackLeaves, Count
<1>14. CASE Start
  BY <1>14 DEF Start, Count
<1>15. CASE Retry
  BY <1>15 DEF Retry, Count
<1>16. CASE Rehydrate
  BY <1>16 DEF Rehydrate, CountsAgree, Count
<1>17. CASE Draw
  BY <1>17 DEF Draw, Count
<1>18. ASSUME NEW d \in Dirs, Expand(d) PROVE CountsAgree'
  BY <1>18 DEF Expand, Count
<1>19. CASE Quit
  BY <1>19 DEF Quit, Count
<1>20. CASE ShutDown
  BY <1>20 DEF ShutDown, Count
<1>21. CASE Exit
  BY <1>21 DEF Exit, Serves, Count
<1>22. CASE UNCHANGED vars
  BY <1>22 DEF vars, Count
<1>23. CASE PassRaises
  BY <1>23 DEF PassRaises, Goto, passLeaves, Count
<1>24. CASE Hang
  BY <1>24 DEF Hang, Goto, passLeaves, Count
<1>25. CASE TogglePause
  BY <1>25 DEF TogglePause, Count
<1>26. CASE ShutDownRaises
  BY <1>26 DEF ShutDownRaises, Count
<1>27. ASSUME NEW d \in Dirs, ExpandHangs(d) PROVE CountsAgree'
  BY <1>27 DEF ExpandHangs, Count
<1> QED
  BY <1>1, <1>2, <1>3, <1>4, <1>5, <1>6, <1>7, <1>8, <1>9, <1>10, <1>11,
     <1>12, <1>13, <1>14, <1>15, <1>16, <1>17, <1>18, <1>19, <1>20, <1>21,
     <1>22, <1>23, <1>24, <1>25, <1>26, <1>27 DEF Next, PassStep, Mishap, Callback

(* What the file in hand is, between its commits and its callbacks.        *)
LEMMA ControlStep == TypeOK /\ Control /\ [Next]_vars => Control'
<1> SUFFICES ASSUME TypeOK, Control, [Next]_vars PROVE Control'
  OBVIOUS
<1> USE TreeAssumption
    DEF TypeOK, Control, Status, Keys, RowOf, table, pass, app, events, tree,
        screen, bounds, history
<1>1. ASSUME NEW f \in Files, Take(f) PROVE Control'
  BY <1>1 DEF Take, Comes, SetRow, passLeaves
<1>2. ASSUME NEW f \in Files, AlreadyDone(f) PROVE Control'
  BY <1>2 DEF AlreadyDone, Comes, passLeaves
<1>3. ASSUME NEW d \in Dirs, DirError(d) PROVE Control'
  BY <1>3 DEF DirError, passLeaves
<1>4. CASE Direct
  BY <1>4 DEF Direct, Tell, SetRow, passLeaves
<1>5. CASE MarkInProgress
  BY <1>5 DEF MarkInProgress, SetRow, passLeaves
<1>6. CASE Outcome
  BY <1>6 DEF Outcome, Tell, SetRow, passLeaves
<1>7. CASE WalkEnds
  BY <1>7 DEF WalkEnds, Goto, passLeaves
<1>8. CASE FixDirs
  BY <1>8 DEF FixDirs
<1>9. CASE OnFileStart
  BY <1>9 DEF OnFileStart, Update, Record, RefreshChain, Prior, Serves,
     callbackLeaves
<1>10. CASE OnFileDone
  BY <1>10 DEF OnFileDone, Update, Record, RefreshChain, Prior, Serves,
     callbackLeaves
<1>11. CASE OnDirError
  BY <1>11 DEF OnDirError, RefreshChain, Serves, callbackLeaves
<1>12. CASE OnCopyFinished
  BY <1>12 DEF OnCopyFinished, Serves, callbackLeaves
<1>13. CASE Raises
  BY <1>13 DEF Raises, callbackLeaves
<1>14. CASE Start
  BY <1>14 DEF Start
<1>15. CASE Retry
  BY <1>15 DEF Retry
<1>16. CASE Rehydrate
  BY <1>16 DEF Rehydrate
<1>17. CASE Draw
  BY <1>17 DEF Draw
<1>18. ASSUME NEW d \in Dirs, Expand(d) PROVE Control'
  BY <1>18 DEF Expand
<1>19. CASE Quit
  BY <1>19 DEF Quit
<1>20. CASE ShutDown
  BY <1>20 DEF ShutDown
<1>21. CASE Exit
  BY <1>21 DEF Exit, Serves
<1>22. CASE UNCHANGED vars
  BY <1>22 DEF vars
<1>23. CASE PassRaises
  BY <1>23 DEF PassRaises, Goto, passLeaves
<1>24. CASE Hang
  BY <1>24 DEF Hang, Goto, passLeaves
<1>25. CASE TogglePause
  BY <1>25 DEF TogglePause
<1>26. CASE ShutDownRaises
  BY <1>26 DEF ShutDownRaises
<1>27. ASSUME NEW d \in Dirs, ExpandHangs(d) PROVE Control'
  BY <1>27 DEF ExpandHangs
<1> QED
  BY <1>1, <1>2, <1>3, <1>4, <1>5, <1>6, <1>7, <1>8, <1>9, <1>10, <1>11,
     <1>12, <1>13, <1>14, <1>15, <1>16, <1>17, <1>18, <1>19, <1>20, <1>21,
     <1>22, <1>23, <1>24, <1>25, <1>26, <1>27 DEF Next, PassStep, Mishap, Callback

CountsTyped == agg \in [Dirs -> [Keys -> 0..Cardinality(Files)]]

(* A count is bounded because it counts.                                   *)
LEMMA CountsTypedStep == CountsTyped /\ CountsAgree' /\ [Next]_vars => CountsTyped'
<1> SUFFICES ASSUME CountsTyped, CountsAgree', [Next]_vars PROVE CountsTyped'
  OBVIOUS
<1>1. agg' = agg \/ agg' = [d \in Dirs |-> agg'[d]]
  <2> USE DEF passLeaves, tree, app, events, screen
  <2>1. CASE PassStep \/ Mishap
    BY <2>1 DEF PassStep, Mishap, Take, AlreadyDone, DirError, Direct, Tell,
       MarkInProgress, Outcome, WalkEnds, FixDirs, PassRaises, Hang, Goto
  <2>2. CASE Callback
    BY <2>2 DEF Callback, OnFileStart, OnFileDone, OnDirError, OnCopyFinished, Raises,
       Update, Record, Moved
  <2>3. CASE Rehydrate
    BY <2>3 DEF Rehydrate
  <2>4. CASE \E d \in Dirs : Expand(d) \/ ExpandHangs(d)
    BY <2>4 DEF Expand, ExpandHangs
  <2>5. CASE \/ Start \/ Retry \/ Draw \/ TogglePause \/ Quit
             \/ ShutDown \/ ShutDownRaises \/ Exit \/ UNCHANGED vars
    BY <2>5 DEF Start, Retry, Draw, TogglePause, Quit, ShutDown, ShutDownRaises, Exit,
       vars
  <2> QED
    BY <2>1, <2>2, <2>3, <2>4, <2>5 DEF Next
<1>2. CASE agg' = agg
  BY <1>2 DEF CountsTyped
<1>3. CASE agg' = [d \in Dirs |-> agg'[d]]
  <2>1. \A d \in Dirs : agg'[d] \in [Keys -> 0..Cardinality(Files)]
    BY CountType DEF CountsAgree
  <2> QED
    BY <1>3, <2>1 DEF CountsTyped
<1> QED
  BY <1>1, <1>2, <1>3

(* The types of the rest.                                                  *)
LEMMA TypeStep == TypeOK /\ Control /\ CountsTyped' /\ [Next]_vars => TypeOK'
<1> SUFFICES ASSUME TypeOK, Control, CountsTyped', [Next]_vars PROVE TypeOK'
  OBVIOUS
<1> USE TreeAssumption, BoundsAssumption
    DEF TypeOK, Control, CountsTyped, Status, Keys, Nodes, RowOf, table,
        pass, app, events, tree, screen, bounds, history
<1>1. ASSUME NEW f \in Files, Take(f) PROVE TypeOK'
  BY <1>1 DEF Take, Comes, SetRow, passLeaves, Loaded
<1>2. ASSUME NEW f \in Files, AlreadyDone(f) PROVE TypeOK'
  BY <1>2 DEF AlreadyDone, Comes, passLeaves, Loaded
<1>3. ASSUME NEW d \in Dirs, DirError(d) PROVE TypeOK'
  BY <1>3 DEF DirError, passLeaves, Loaded
<1>4. CASE Direct
  BY <1>4 DEF Direct, Tell, SetRow, passLeaves, Loaded
<1>5. CASE MarkInProgress
  BY <1>5 DEF MarkInProgress, SetRow, passLeaves, Loaded
<1>6. CASE Outcome
  BY <1>6 DEF Outcome, Tell, SetRow, passLeaves, Loaded
<1>7. CASE WalkEnds
  BY <1>7 DEF WalkEnds, Goto, passLeaves, Loaded
<1>8. CASE FixDirs
  BY <1>8 DEF FixDirs, Loaded
<1>9. CASE OnFileStart
  BY <1>9 DEF OnFileStart, Update, Record, RefreshChain, Prior, Serves,
     callbackLeaves, Loaded
<1>10. CASE OnFileDone
  BY <1>10 DEF OnFileDone, Update, Record, RefreshChain, Prior, Serves,
     callbackLeaves, Loaded
<1>11. CASE OnDirError
  BY <1>11 DEF OnDirError, RefreshChain, Serves, callbackLeaves, Loaded
<1>12. CASE OnCopyFinished
  BY <1>12 DEF OnCopyFinished, Serves, callbackLeaves, Loaded
<1>13. CASE Raises
  BY <1>13 DEF Raises, callbackLeaves, Loaded
<1>14. CASE Start
  <2>1. Loaded' = Loaded
    BY <1>14 DEF Start, Loaded
  <2>2. passes' \in 0..MaxPasses
    BY <1>14 DEF Start
  <2> QED
    BY <1>14, <2>1, <2>2 DEF Start
<1>15. CASE Retry
  BY <1>15 DEF Retry, Loaded
<1>16. CASE Rehydrate
  BY <1>16 DEF Rehydrate, Loaded
<1>17. CASE Draw
  BY <1>17 DEF Draw, Loaded, Style, DirStyle, FileStyle, Colours
<1>18. ASSUME NEW d \in Dirs, Expand(d) PROVE TypeOK'
  BY <1>18 DEF Expand, Loaded
<1>19. CASE Quit
  BY <1>19 DEF Quit, Loaded
<1>20. CASE ShutDown
  BY <1>20 DEF ShutDown, Loaded
<1>21. CASE Exit
  BY <1>21 DEF Exit, Serves, Loaded
<1>22. CASE UNCHANGED vars
  BY <1>22 DEF vars, Loaded
<1>23. CASE PassRaises
  BY <1>23 DEF PassRaises, Goto, passLeaves, Loaded
<1>24. CASE Hang
  BY <1>24 DEF Hang, Goto, passLeaves, Loaded
<1>25. CASE TogglePause
  BY <1>25 DEF TogglePause, Loaded
<1>26. CASE ShutDownRaises
  BY <1>26 DEF ShutDownRaises, Loaded
<1>27. ASSUME NEW d \in Dirs, ExpandHangs(d) PROVE TypeOK'
  BY <1>27 DEF ExpandHangs, Loaded
<1> QED
  BY <1>1, <1>2, <1>3, <1>4, <1>5, <1>6, <1>7, <1>8, <1>9, <1>10, <1>11,
     <1>12, <1>13, <1>14, <1>15, <1>16, <1>17, <1>18, <1>19, <1>20, <1>21,
     <1>22, <1>23, <1>24, <1>25, <1>26, <1>27 DEF Next, PassStep, Mishap, Callback

(* A row is ahead of its count in hand, or reset under an event, or not.   *)
LEMMA CurrentStep == TypeOK /\ Control /\ Current /\ [Next]_vars => Current'
<1> SUFFICES ASSUME TypeOK, Control, Current, [Next]_vars PROVE Current'
  OBVIOUS
<1> USE TreeAssumption
    DEF TypeOK, Control, Current, Ahead, Agree, RowOf, Keys, Status,
        table, pass, app, events, tree, screen, bounds, history
<1>1. ASSUME NEW f \in Files, Take(f) PROVE Current'
  BY <1>1 DEF Take, Comes, SetRow, passLeaves
<1>2. ASSUME NEW f \in Files, AlreadyDone(f) PROVE Current'
  BY <1>2 DEF AlreadyDone, Comes, passLeaves
<1>3. ASSUME NEW d \in Dirs, DirError(d) PROVE Current'
  BY <1>3 DEF DirError, passLeaves
<1>4. CASE Direct
  BY <1>4 DEF Direct, Tell, SetRow, passLeaves
<1>5. CASE MarkInProgress
  BY <1>5 DEF MarkInProgress, SetRow, passLeaves
<1>6. CASE Outcome
  BY <1>6 DEF Outcome, Tell, SetRow, passLeaves
<1>7. CASE WalkEnds
  BY <1>7 DEF WalkEnds, Goto, passLeaves
<1>8. CASE FixDirs
  BY <1>8 DEF FixDirs
<1>9. CASE OnFileStart
  BY <1>9 DEF OnFileStart, Update, Record, RefreshChain, Prior, Serves,
     callbackLeaves
<1>10. CASE OnFileDone
  BY <1>10 DEF OnFileDone, Update, Record, RefreshChain, Prior, Serves,
     callbackLeaves
<1>11. CASE OnDirError
  BY <1>11 DEF OnDirError, RefreshChain, Serves, callbackLeaves
<1>12. CASE OnCopyFinished
  BY <1>12 DEF OnCopyFinished, Serves, callbackLeaves
<1>13. CASE Raises
  BY <1>13 DEF Raises, callbackLeaves
<1>14. CASE Start
  BY <1>14 DEF Start
<1>15. CASE Retry
  BY <1>15 DEF Retry
<1>16. CASE Rehydrate
  BY <1>16 DEF Rehydrate
<1>17. CASE Draw
  BY <1>17 DEF Draw
<1>18. ASSUME NEW d \in Dirs, Expand(d) PROVE Current'
  BY <1>18 DEF Expand
<1>19. CASE Quit
  BY <1>19 DEF Quit
<1>20. CASE ShutDown
  BY <1>20 DEF ShutDown
<1>21. CASE Exit
  BY <1>21 DEF Exit, Serves
<1>22. CASE UNCHANGED vars
  BY <1>22 DEF vars
<1>23. CASE PassRaises
  BY <1>23 DEF PassRaises, Goto, passLeaves
<1>24. CASE Hang
  BY <1>24 DEF Hang, Goto, passLeaves
<1>25. CASE TogglePause
  BY <1>25 DEF TogglePause
<1>26. CASE ShutDownRaises
  BY <1>26 DEF ShutDownRaises
<1>27. ASSUME NEW d \in Dirs, ExpandHangs(d) PROVE Current'
  BY <1>27 DEF ExpandHangs
<1> QED
  BY <1>1, <1>2, <1>3, <1>4, <1>5, <1>6, <1>7, <1>8, <1>9, <1>10, <1>11,
     <1>12, <1>13, <1>14, <1>15, <1>16, <1>17, <1>18, <1>19, <1>20, <1>21,
     <1>22, <1>23, <1>24, <1>25, <1>26, <1>27 DEF Next, PassStep, Mishap, Callback

(* What an event does to the lines: those whose count changes are          *)
(* refreshed, and the others keep their look.                              *)
LEMMA UpdateRefreshes ==
  ASSUME TypeOK, NEW s, Update(s), subject \in Files,
         UNCHANGED <<row, badDirs, subject, opened, drawn>>
  PROVE  /\ \A n \in Nodes : UpToDate(n) => UpToDate(n)'
         /\ \A f \in Files : f = subject /\ counted[f] # s => UpToDate(f)'
         /\ \A d \in Dirs : UpToRed(d) => UpToRed(d)'
<1> USE TreeAssumption
<1>1. Loaded' = Loaded
  BY DEF Loaded
<1>2. CASE counted[subject] = s
  <2>1. UNCHANGED <<counted, agg, dirty>>
    BY <1>2 DEF Update, Record, Prior
  <2>2. \A n \in Nodes : Style(n)' = Style(n)
    BY <2>1 DEF Style, DirStyle, FileStyle
  <2> QED
    BY <1>1, <1>2, <2>1, <2>2 DEF UpToDate, UpToRed
<1>3. CASE counted[subject] # s
  <2>1. /\ agg' = Moved(subject, counted[subject], s)
        /\ dirty' = dirty \cup (({subject} \cup Above[subject]) \cap Loaded)
    BY <1>3 DEF Update, Record, Prior, RefreshChain
  <2>2. \A d \in Dirs \ Above[subject] : \A k \in Keys : agg'[d][k] = agg[d][k]
    BY <2>1 DEF Moved
  <2>3. \A n \in Nodes \ Above[subject] : Style(n)' = Style(n)
    BY <2>2 DEF Style, DirStyle, FileStyle, Keys, Status
  <2>4. UpToDate(subject)' /\ \A d \in Above[subject] : UpToDate(d)'
    BY <1>1, <2>1 DEF UpToDate
  <2>5. \A n \in Nodes \ Above[subject] : UpToDate(n) => UpToDate(n)'
    BY <1>1, <2>1, <2>3 DEF UpToDate
  <2>6. \A d \in Dirs : UpToRed(d) => UpToRed(d)'
    BY <1>1, <2>1, <2>2 DEF UpToRed, Keys, Status
  <2> QED
    BY <2>4, <2>5, <2>6
<1> QED
  BY <1>2, <1>3

(* Whatever counts a failure refreshes the directories above it.           *)
LEMMA RedsStep == TypeOK /\ Control /\ Reds /\ [Next]_vars => Reds'
<1> SUFFICES ASSUME TypeOK, Control, Reds, [Next]_vars PROVE Reds'
  OBVIOUS
<1> USE TreeAssumption
    DEF Reds, table, pass, app, events, tree, screen, bounds, history
<1>1. ASSUME NEW f \in Files, Take(f) PROVE Reds'
  BY <1>1 DEF Take, Comes, SetRow, passLeaves, UpToRed, Loaded
<1>2. ASSUME NEW f \in Files, AlreadyDone(f) PROVE Reds'
  BY <1>2 DEF AlreadyDone, Comes, passLeaves, UpToRed, Loaded
<1>3. ASSUME NEW d \in Dirs, DirError(d) PROVE Reds'
  BY <1>3 DEF DirError, passLeaves, UpToRed, Loaded
<1>4. CASE Direct
  BY <1>4 DEF Direct, Tell, SetRow, RowOf, passLeaves, UpToRed, Loaded
<1>5. CASE MarkInProgress
  BY <1>5 DEF MarkInProgress, SetRow, passLeaves, UpToRed, Loaded
<1>6. CASE Outcome
  BY <1>6 DEF Outcome, Tell, SetRow, RowOf, passLeaves, UpToRed, Loaded
<1>7. CASE WalkEnds
  BY <1>7 DEF WalkEnds, Goto, passLeaves, UpToRed, Loaded
<1>8. CASE FixDirs
  BY <1>8 DEF FixDirs, UpToRed, Loaded
<1>9. CASE OnFileStart
  <2>1. \A d \in Dirs : UpToRed(d) => UpToRed(d)'
    BY <1>9, UpdateRefreshes DEF OnFileStart, callbackLeaves, Control
  <2> QED
    BY <2>1 DEF Reds
<1>10. CASE OnFileDone
  <2>1. CASE result = "already_done"
    BY <1>10, <2>1 DEF OnFileDone, callbackLeaves, UpToRed, Loaded
  <2>2. CASE result # "already_done"
    <3>1. \A d \in Dirs : UpToRed(d) => UpToRed(d)'
      BY <1>10, <2>2, UpdateRefreshes DEF OnFileDone, callbackLeaves, Control
    <3> QED
      BY <3>1 DEF Reds
  <2> QED
    BY <2>1, <2>2
<1>11. CASE OnDirError
  BY <1>11 DEF OnDirError, RefreshChain, Serves, callbackLeaves, UpToRed,
     Loaded
<1>12. CASE OnCopyFinished
  BY <1>12 DEF OnCopyFinished, Serves, callbackLeaves, UpToRed, Loaded
<1>13. CASE Raises
  BY <1>13 DEF Raises, callbackLeaves, UpToRed, Loaded
<1>14. CASE Start
  BY <1>14 DEF Start, UpToRed, Loaded
<1>15. CASE Retry
  BY <1>15 DEF Retry, UpToRed, Loaded
<1>16. CASE Rehydrate
  BY <1>16 DEF Rehydrate, UpToRed, Loaded
<1>17. CASE Draw
  BY <1>17 DEF Draw, UpToRed, Style, DirStyle, TypeOK, Nodes, Loaded
<1>18. ASSUME NEW d \in Dirs, Expand(d) PROVE Reds'
  BY <1>18 DEF Expand, UpToRed, TypeOK, Loaded
<1>19. CASE Quit
  BY <1>19 DEF Quit, UpToRed, Loaded
<1>20. CASE ShutDown
  BY <1>20 DEF ShutDown, UpToRed, Loaded
<1>21. CASE Exit
  BY <1>21 DEF Exit, Serves, UpToRed, Loaded
<1>22. CASE UNCHANGED vars
  BY <1>22 DEF vars, UpToRed, Loaded
<1>23. CASE PassRaises
  BY <1>23 DEF PassRaises, Goto, passLeaves, UpToRed, Loaded
<1>24. CASE Hang
  BY <1>24 DEF Hang, Goto, passLeaves, UpToRed, Loaded
<1>25. CASE TogglePause
  BY <1>25 DEF TogglePause, UpToRed, Loaded
<1>26. CASE ShutDownRaises
  BY <1>26 DEF ShutDownRaises, UpToRed, Loaded
<1>27. ASSUME NEW d \in Dirs, ExpandHangs(d) PROVE Reds'
  BY <1>27 DEF ExpandHangs, UpToRed, Loaded
<1> QED
  BY <1>1, <1>2, <1>3, <1>4, <1>5, <1>6, <1>7, <1>8, <1>9, <1>10, <1>11,
     <1>12, <1>13, <1>14, <1>15, <1>16, <1>17, <1>18, <1>19, <1>20, <1>21,
     <1>22, <1>23, <1>24, <1>25, <1>26, <1>27 DEF Next, PassStep, Mishap, Callback

(* Whatever changes a line refreshes it, or is excepted.                   *)
LEMMA SightStep == TypeOK /\ Control /\ Current /\ Sight /\ [Next]_vars => Sight'
<1> SUFFICES ASSUME TypeOK, Control, Current, Sight, [Next]_vars PROVE Sight'
  OBVIOUS
<1> USE TreeAssumption
    DEF TypeOK, Control, Current, Sight, Ahead, Agree, UpToDate,
        Reporting, RowOf, Keys, Status, table, pass, app, events, tree, screen,
        bounds, history
<1>1. ASSUME NEW f \in Files, Take(f) PROVE Sight'
  <2> SUFFICES ASSUME loop = "free" PROVE Sight'
    BY <1>1 DEF Take, Comes, passLeaves
  <2>1. Loaded' = Loaded
    BY <1>1 DEF Take, Comes, passLeaves, Loaded
  <2>2. \A n \in Nodes \ {f} : UpToDate(n) => UpToDate(n)'
    BY <1>1, <2>1 DEF Take, Comes, SetRow, passLeaves, Style, DirStyle, FileStyle
  <2>3. f \notin raced => UpToDate(f) /\ Agree(f)
    BY <1>1 DEF Take, Comes, Nodes
  <2>4. row[f] # "none" => (UpToDate(f) => UpToDate(f)')
    BY <1>1, <2>1 DEF Take, Comes, SetRow, passLeaves, Style, FileStyle
  <2>5. row[f] = "none" => row'[f] = "pending"
    BY <1>1 DEF Take, Comes, SetRow
  <2>6. row[f] # "none" => row'[f] = row[f]
    BY <1>1 DEF Take, Comes, SetRow
  <2> HIDE DEF UpToDate
  <2> QED
    BY <1>1, <2>2, <2>3, <2>4, <2>5, <2>6 DEF Take, Comes, passLeaves
<1>2. ASSUME NEW f \in Files, AlreadyDone(f) PROVE Sight'
  <2> SUFFICES ASSUME loop = "free" PROVE Sight'
    BY <1>2 DEF AlreadyDone, Comes, passLeaves
  <2>1. \A n \in Nodes : UpToDate(n) => UpToDate(n)'
    BY <1>2 DEF AlreadyDone, Comes, passLeaves, Loaded, Style, DirStyle, FileStyle
  <2>2. f \notin raced => UpToDate(f)
    BY <1>2 DEF AlreadyDone, Comes, Nodes
  <2>3. /\ ppc' = "told" /\ subject' = f /\ result' = "already_done"
        /\ loop' = loop /\ raced' = raced /\ untold' = untold
    BY <1>2 DEF AlreadyDone, Comes, passLeaves
  <2>4. Ahead = raced /\ Ahead' = raced \cup {f} /\ Reporting = {} /\ Reporting' = {}
    BY <1>2, <2>3 DEF AlreadyDone, Comes
  <2>5. \A n \in Nodes \ (raced \cup untold) : UpToDate(n)
    BY <2>4
  <2> HIDE DEF UpToDate, Ahead, Reporting
  <2>6. \A n \in Nodes \ (Ahead' \cup untold' \cup Reporting') : UpToDate(n)'
    BY <2>1, <2>3, <2>4, <2>5
  <2>7. \A g \in Files \ raced' : g = subject' => UpToDate(g)'
    BY <2>1, <2>2, <2>3 DEF Nodes
  <2> QED
    BY <2>3, <2>6, <2>7
<1>3. ASSUME NEW d \in Dirs, DirError(d) PROVE Sight'
  BY <1>3 DEF DirError, passLeaves, Loaded, Style, DirStyle, FileStyle
<1>4. CASE Direct
  BY <1>4 DEF Direct, Tell, SetRow, passLeaves, Loaded, Style, DirStyle,
     FileStyle
<1>5. CASE MarkInProgress
  BY <1>5 DEF MarkInProgress, SetRow, passLeaves, Loaded, Style, DirStyle,
     FileStyle
<1>6. CASE Outcome
  BY <1>6 DEF Outcome, Tell, SetRow, passLeaves, Loaded, Style, DirStyle,
     FileStyle
<1>7. CASE WalkEnds
  BY <1>7 DEF WalkEnds, Goto, passLeaves, Loaded, Style, DirStyle, FileStyle
<1>8. CASE FixDirs
  BY <1>8 DEF FixDirs, Loaded, Style, DirStyle, FileStyle
<1>9. CASE OnFileStart
  <2> SUFFICES ASSUME loop = "free" PROVE Sight'
    BY <1>9 DEF OnFileStart, callbackLeaves
  <2>1. subject \in Files /\ Update("in_progress")
    BY <1>9 DEF OnFileStart
  <2>2. /\ \A n \in Nodes : UpToDate(n) => UpToDate(n)'
        /\ \A f \in Files : f = subject /\ counted[f] # "in_progress" => UpToDate(f)'
    BY <1>9, <2>1, UpdateRefreshes DEF OnFileStart, callbackLeaves
  <2>3. counted[subject] = "in_progress" => raced' = raced
    BY <2>1 DEF Update, Prior
  <2>4. \A f \in Files : f = subject /\ f \notin raced /\ counted[f] = "in_progress"
                          => UpToDate(f)
    BY <1>9 DEF OnFileStart
  <2>5. raced' \cup {subject} = raced \cup {subject}
    BY <2>1 DEF Update
  <2>6. /\ ppc = "started" /\ ppc' = "copying" /\ subject' = subject /\ loop' = loop
        /\ untold' = untold
    BY <1>9 DEF OnFileStart, callbackLeaves
  <2>7. /\ Ahead = raced \cup {subject} /\ Ahead' = raced'
        /\ Reporting = {} /\ Reporting' = {}
    BY <2>6
  <2>8. \A n \in Nodes \ (raced \cup {subject} \cup untold) : UpToDate(n)
    BY <2>7
  <2> HIDE DEF UpToDate, Ahead, Reporting
  <2>9. \A f \in Files : f = subject /\ f \notin raced' => UpToDate(f)'
    BY <2>2, <2>3, <2>4 DEF Nodes
  <2>10. \A n \in Nodes \ (Ahead' \cup untold' \cup Reporting') : UpToDate(n)'
    BY <2>1, <2>2, <2>5, <2>6, <2>7, <2>8, <2>9
  <2> QED
    BY <2>6, <2>10
<1>10. CASE OnFileDone
  <2> SUFFICES ASSUME loop = "free" PROVE Sight'
    BY <1>10 DEF OnFileDone, callbackLeaves
  <2>1. subject \in Files
    BY <1>10 DEF OnFileDone
  <2>2. /\ \A n \in Nodes : UpToDate(n) => UpToDate(n)'
        /\ \A f \in Files : f = subject /\ f \notin raced' => UpToDate(f)'
    <3>1. CASE result = "already_done"
      <4>1. \A n \in Nodes : UpToDate(n) => UpToDate(n)'
        BY <1>10, <3>1 DEF OnFileDone, callbackLeaves, Loaded, Style, DirStyle, FileStyle
      <4>2. raced' = raced
        BY <1>10, <3>1 DEF OnFileDone
      <4>3. \A f \in Files : f = subject /\ f \notin raced => UpToDate(f)
        BY <1>10, <3>1 DEF OnFileDone
      <4> HIDE DEF UpToDate
      <4> QED
        BY <4>1, <4>2, <4>3 DEF Nodes
    <3>2. CASE result # "already_done"
      <4>1. Update(result)
        BY <1>10, <3>2 DEF OnFileDone
      <4>2. /\ \A n \in Nodes : UpToDate(n) => UpToDate(n)'
            /\ \A f \in Files : f = subject /\ counted[f] # result => UpToDate(f)'
        BY <1>10, <2>1, <4>1, UpdateRefreshes DEF OnFileDone, callbackLeaves
      <4>3. counted[subject] = result => raced' = raced
        BY <4>1 DEF Update, Prior
      <4>4. \A f \in Files : f = subject /\ f \notin raced /\ counted[f] = result => UpToDate(f)
        BY <1>10 DEF OnFileDone
      <4> HIDE DEF UpToDate
      <4> QED
        BY <4>2, <4>3, <4>4 DEF Nodes
    <3> QED
      BY <3>1, <3>2
  <2>3. raced' \cup {subject} = raced \cup {subject}
    BY <1>10 DEF OnFileDone, Update
  <2>4. /\ ppc = "told" /\ ppc' = "walk" /\ subject' = subject /\ loop' = loop
        /\ untold' = untold
    BY <1>10 DEF OnFileDone, callbackLeaves
  <2>5. /\ Ahead = raced \cup {subject} /\ Ahead' = raced'
        /\ Reporting = {} /\ Reporting' = {}
    BY <2>4
  <2>6. \A n \in Nodes \ (raced \cup {subject} \cup untold) : UpToDate(n)
    BY <2>5
  <2> HIDE DEF UpToDate, Ahead, Reporting
  <2>7. \A n \in Nodes \ (Ahead' \cup untold' \cup Reporting') : UpToDate(n)'
    BY <2>1, <2>2, <2>3, <2>4, <2>5, <2>6
  <2> QED
    BY <2>4, <2>7
<1>11. CASE OnDirError
  BY <1>11 DEF OnDirError, RefreshChain, Serves, callbackLeaves, Loaded,
     Style, DirStyle, FileStyle
<1>12. CASE OnCopyFinished
  BY <1>12 DEF OnCopyFinished, Serves, callbackLeaves, Loaded, Style,
     DirStyle, FileStyle
<1>13. CASE Raises
  BY <1>13 DEF Raises, callbackLeaves, Loaded, Style, DirStyle, FileStyle
<1>14. CASE Start
  BY <1>14 DEF Start, Loaded, Style, DirStyle, FileStyle
<1>15. CASE Retry
  BY <1>15 DEF Retry, Loaded, Style, DirStyle, FileStyle
<1>16. CASE Rehydrate
  BY <1>16 DEF Rehydrate, Loaded, Style, DirStyle, FileStyle
<1>17. CASE Draw
  BY <1>17 DEF Draw, Loaded, Style, DirStyle, FileStyle
<1>18. ASSUME NEW d \in Dirs, Expand(d) PROVE Sight'
  BY <1>18 DEF Expand, Loaded, Style, DirStyle, FileStyle
<1>19. CASE Quit
  BY <1>19 DEF Quit, Loaded, Style, DirStyle, FileStyle
<1>20. CASE ShutDown
  BY <1>20 DEF ShutDown, Loaded, Style, DirStyle, FileStyle
<1>21. CASE Exit
  BY <1>21 DEF Exit, Serves, Loaded, Style, DirStyle, FileStyle
<1>22. CASE UNCHANGED vars
  BY <1>22 DEF vars, Loaded, Style, DirStyle, FileStyle
<1>23. CASE PassRaises
  BY <1>23 DEF PassRaises, Goto, passLeaves, Loaded, Style, DirStyle, FileStyle
<1>24. CASE Hang
  BY <1>24 DEF Hang, Goto, passLeaves, Loaded, Style, DirStyle, FileStyle
<1>25. CASE TogglePause
  BY <1>25 DEF TogglePause, Loaded, Style, DirStyle, FileStyle
<1>26. CASE ShutDownRaises
  BY <1>26 DEF ShutDownRaises, Loaded, Style, DirStyle, FileStyle
<1>27. ASSUME NEW d \in Dirs, ExpandHangs(d) PROVE Sight'
  BY <1>27 DEF ExpandHangs, Loaded, Style, DirStyle, FileStyle
<1> QED
  BY <1>1, <1>2, <1>3, <1>4, <1>5, <1>6, <1>7, <1>8, <1>9, <1>10, <1>11,
     <1>12, <1>13, <1>14, <1>15, <1>16, <1>17, <1>18, <1>19, <1>20, <1>21,
     <1>22, <1>23, <1>24, <1>25, <1>26, <1>27 DEF Next, PassStep, Mishap, Callback

-------------------------------------------------------------------------------
(* The theorems                                                            *)

IInv == TypeOK /\ Control /\ CountsAgree /\ Current /\ Reds /\ Sight

(* on_mount builds the tree from the table, and draws nothing yet          *)
(* (tree_widget.py:74-81).                                                 *)
LEMMA InitInv == Init => IInv
<1> SUFFICES ASSUME Init PROVE IInv
  OBVIOUS
<1> USE TreeAssumption DEF Init, Mounted
<1>1. row \in [Files -> Status \cup {"none"}]
  BY RowsAssumption
<1>2. agg \in [Dirs -> [Keys -> 0..Cardinality(Files)]]
  BY CountType
<1>3. TypeOK
  <2>1. /\ counted \in [Files -> Keys \cup {"none"}]
        /\ subject \in Nodes /\ result \in Keys
    BY <1>1 DEF Keys, Status, Nodes
  <2>2. /\ opened \in [Dirs -> BOOLEAN]
        /\ drawn \in [Nodes -> Colours]
    BY DEF Colours
  <2>3. passes \in 0..MaxPasses /\ retries \in 0..MaxRetries
    BY BoundsAssumption
  <2> QED
    BY <1>1, <1>2, <2>1, <2>2, <2>3 DEF TypeOK
<1>4. Control
  BY DEF Control
<1>5. CountsAgree
  BY DEF CountsAgree
<1>6. Current
  BY DEF Current, Agree
<1>7. Reds
  BY DEF Reds, UpToRed
<1>8. Sight
  BY DEF Sight, UpToDate
<1> QED
  BY <1>3, <1>4, <1>5, <1>6, <1>7, <1>8 DEF IInv

(* Passes, callbacks and keys keep the tree with the table, in whatever    *)
(* order the event loop serves them (tree_widget.py:83-144).               *)
THEOREM Invariance == Spec => []IInv
<1>1. IInv /\ [Next]_vars => IInv'
  <2> SUFFICES ASSUME IInv, [Next]_vars PROVE IInv'
    OBVIOUS
  <2>1. Control' /\ CountsAgree'
    BY ControlStep, CountsStep DEF IInv
  <2>2. CountsTyped'
    BY <2>1, CountsTypedStep DEF IInv, TypeOK, CountsTyped
  <2>3. TypeOK'
    BY <2>2, TypeStep DEF IInv
  <2>4. Current' /\ Reds' /\ Sight'
    BY CurrentStep, RedsStep, SightStep DEF IInv
  <2> QED
    BY <2>1, <2>3, <2>4 DEF IInv
<1> QED
  BY <1>1, InitInv, PTL DEF Spec

(* The tree has its types: no count of a directory goes below zero or      *)
(* above the number of files (tree_widget.py:117-131).                     *)
THEOREM TypeCorrect == Spec => []TypeOK
<1>1. IInv => TypeOK
  BY DEF IInv
<1> QED
  BY <1>1, Invariance, PTL

(* The counts of a directory are those of the statuses last counted, below *)
(* it, whatever the order of callbacks and rebuilds                        *)
(* (tree_widget.py:133-144).                                               *)
THEOREM CountsTheorem == Spec => []CountsAgree
<1>1. IInv => CountsAgree
  BY DEF IInv
<1> QED
  BY <1>1, Invariance, PTL

(* What the tree has counted for a file is the status in its row, but for  *)
(* the file in hand and those that "r" reset under an event                *)
(* (tree_widget.py:117-144).                                               *)
THEOREM CurrentTheorem == Spec => []TreeCurrent
<1>1. IInv => TreeCurrent
  BY DEF IInv, Current, TreeCurrent
<1> QED
  BY <1>1, Invariance, PTL

(* A file that has failed is red in every directory above it that has been *)
(* drawn since (tree_widget.py:155).                                       *)
THEOREM RedTheorem == Spec => []RedWhenFailed
<1>1. IInv => RedWhenFailed
  <2> SUFFICES ASSUME IInv, loop = "free",
                      NEW f \in Files \ Ahead, row[f] = "failed",
                      NEW d \in (Above[f] \cap Loaded) \ dirty
               PROVE  drawn[d] = "red"
    BY DEF RedWhenFailed
  <2>1. d \in Dirs /\ f \in FilesBelow(d)
    BY TreeAssumption DEF FilesBelow, Nodes
  <2>2. counted[f] = "failed"
    BY DEF IInv, Current, Agree
  <2>3. Count(d, counted)["failed"] > 0
    BY <2>1, <2>2, CountPositive DEF Keys, Status
  <2>4. agg[d]["failed"] > 0
    BY <2>1, <2>3 DEF IInv, CountsAgree
  <2> QED
    BY <2>1, <2>4 DEF IInv, Reds, UpToRed
<1> QED
  BY <1>1, Invariance, PTL

(* A line that would look different now has been refreshed, but for those  *)
(* whose row changes without a callback (tree_widget.py:83-88).            *)
THEOREM StaleTheorem == Spec => []NoStaleLine
<1>1. IInv => NoStaleLine
  <2> SUFFICES ASSUME IInv, loop = "free", ppc # "dirtold",
                      NEW n \in Loaded \ (dirty \cup Ahead \cup untold)
               PROVE  drawn[n] = Style(n)
    BY DEF NoStaleLine
  <2>1. n \in Nodes
    BY TreeAssumption DEF Loaded, Children, Nodes
  <2> QED
    BY <2>1 DEF IInv, Sight, Reporting, UpToDate
<1> QED
  BY <1>1, Invariance, PTL
===============================================================================
