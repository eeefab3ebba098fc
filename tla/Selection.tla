------------------------------- MODULE Selection -------------------------------
(***************************************************************************)
(* The selection: SelectionStore of src/salvage/selection.py over the      *)
(* selection table of src/salvage/state_db.py, toggled on the event loop   *)
(* (tree_widget.py) while another thread, a pass or a report, resolves     *)
(* paths against it.                                                       *)
(*                                                                         *)
(* Each query and each commit is a step: toggling a directory commits      *)
(* twice, effective() asks once for each directory on the way up, and the  *)
(* pass that found a directory unselected asks once more whether something *)
(* below is included.  Only the event loop writes the table, so what it    *)
(* reads for a toggle needs no steps.  The program may die at any time;    *)
(* the table stays.                                                        *)
(*                                                                         *)
(* Paths are model values in a tree.  Names matter in one place: which     *)
(* paths the LIKE pattern made of a directory matches (Like).              *)
(***************************************************************************)
CONSTANTS
  Paths,   \* files and directories of the source tree
  Dirs,    \* the directories among them
  Root,    \* the path ""
  In,      \* In[p]: the directory p # Root is in
  Up,      \* Up[p]: p and the directories above it
  Like     \* Like[d]: the paths that LIKE takes for "d/" and something

ASSUME PathsAssumption ==
  /\ Root \in Dirs /\ Dirs \subseteq Paths
  /\ In \in [Paths \ {Root} -> Dirs]
  /\ Like \in [Dirs -> SUBSET Paths]
ASSUME UpAssumption ==
  /\ Up \in [Paths -> SUBSET Paths]
  /\ Up[Root] = {Root}
  /\ \A p \in Paths \ {Root} : p \notin Up[In[p]] /\ Up[p] = Up[In[p]] \cup {p}
  /\ \A p \in Paths : \A q \in Up[p] : Up[q] \subseteq Up[p] /\ (q = p \/ q \in Dirs)
  /\ \A p \in Paths : \A q, r \in Up[p] : q \in Up[r] \/ r \in Up[q]
  /\ \A p, q \in Paths : p \in Up[q] /\ q \in Up[p] => p = q
(* Names are finite, so of the directories above a path one is nearest.    *)
ASSUME NearestAssumption ==
  \A p \in Paths : \A some \in SUBSET Up[p] :
    some # {} => \E q \in some : \A r \in some : r \in Up[q]

VARIABLES
  override,  \* the selection table: "include", "exclude", or "none"
  upc,       \* where toggle is: "ready", or "set" between the two commits
  target,    \* the directory that is being toggled
  flag,      \* the state it is to have
  rpc,       \* the reader: "idle", "read", "below", "done"
  rpath,     \* the path it decides about
  rat,       \* the path whose override it asks for next
  answer,    \* what it has decided: copy the file, descend into the directory
  before,    \* history: the paths selected when the toggle began
  steady,    \* history: paths on, and off, ever since the reader began
  held       \* history: paths that users see selected since the reader began

toggling == <<upc, target, flag, before>>
reading == <<rpc, rpath, rat, answer>>
history == <<steady, held>>
vars == <<override, toggling, reading, history>>

Under(p) == {q \in Paths : p \in Up[q]}
Below(d) == Under(d) \ {d}

(* LIKE finds what is below a directory and nothing else.  It does unless  *)
(* names differ in the case of letters only, or contain a backslash.       *)
LikeExact == \A d \in Dirs : Like[d] \ {d} = Below(d)

(* A mutant: the word of the checkbox is stored.                           *)
WordOfGlyph(on) == IF on THEN "selected" ELSE "unselected"

Word(on) == IF on THEN "include" ELSE "exclude"

-------------------------------------------------------------------------------
(* Resolving paths, on a table that stands still                           *)

(* SelectionStore.effective: the nearest override decides.                 *)
Effective(p) ==
  \E q \in Up[p] :
    /\ override[q] = "include"
    /\ \A r \in Up[p] : override[r] # "none" => r \in Up[q]

EffectivePaths == {p \in Paths : Effective(p)}

(* A mutant: only what is in d itself is looked at.                        *)
OverrideIn(d, state) == \E p \in Paths \ {Root} : In[p] = d /\ override[p] = state

(* has_override_under: path = d OR path LIKE "d/%".                        *)
HasOverrideUnder(d, state) == \E p \in Like[d] \cup {d} : override[p] = state

(* The glyph of a directory.                                               *)
Glyph(d) ==
  IF Effective(d)
  THEN IF HasOverrideUnder(d, "exclude") THEN "partial" ELSE "selected"
  ELSE IF HasOverrideUnder(d, "include") THEN "partial" ELSE "unselected"

(* _checkbox_glyph                                                         *)
Checkbox(p) ==
  IF p \in Dirs THEN Glyph(p) ELSE IF Effective(p) THEN "selected" ELSE "unselected"

(* A mutant: the directories above are forgotten.                          *)
SubtreeOnly(p) == Under(p)

(* The nodes that are drawn again when the toggle of p is done:            *)
(* _refresh_subtree, which at the root does not reach its descendants      *)
(* (the prefix of their paths is empty), and refresh_path_chain.           *)
Refreshed(p) == Up[p] \cup (IF p = Root THEN {} ELSE Under(p))

(* What the user has asked for: a toggle that has begun counts when it is  *)
(* done.                                                                   *)
View == IF upc = "set" THEN before ELSE EffectivePaths

(* The table once the running toggle is done.                              *)
Outcome ==
  IF upc # "set" THEN EffectivePaths
  ELSE IF flag THEN EffectivePaths \cup Under(target) ELSE EffectivePaths \ Under(target)

-------------------------------------------------------------------------------
TypeOK ==
  /\ override \in [Paths -> {"none", "include", "exclude"}]
  /\ upc \in {"ready", "set"} /\ target \in Dirs /\ flag \in BOOLEAN
  /\ rpc \in {"idle", "read", "below", "done"}
  /\ rpath \in Paths /\ rat \in Up[rpath] /\ answer \in BOOLEAN
  /\ before \subseteq Paths /\ held \subseteq Paths
  /\ steady \in [on : SUBSET Paths, off : SUBSET Paths]

Nothing == [on |-> {}, off |-> {}]

Init ==
  /\ override = [p \in Paths |-> "none"]
  /\ upc = "ready" /\ target = Root /\ flag = FALSE /\ before = {}
  /\ rpc = "idle" /\ rpath = Root /\ rat = Root /\ answer = FALSE
  /\ steady = Nothing /\ held = {}

(* What a step that changes the table leaves of the histories.             *)
Observe ==
  /\ steady' = [on  |-> steady.on \cap EffectivePaths' \cap Outcome',
                off |-> steady.off \ (EffectivePaths' \cup Outcome')]
  /\ held' = held \cap View'

Fresh ==
  /\ steady' = [on  |-> EffectivePaths \cap Outcome,
                off |-> Paths \ (EffectivePaths \cup Outcome)]
  /\ held' = View

-------------------------------------------------------------------------------
(* The event loop: space                                                   *)

Store(p, on) == override' = [override EXCEPT ![p] = Word(on)]

(* A file: one commit.                                                     *)
ToggleFile(p) ==
  /\ upc = "ready" /\ p \notin Dirs
  /\ Store(p, ~Effective(p))
  /\ UNCHANGED <<toggling, reading>>
  /\ Observe

(* A mutant: the overrides below stay.                                     *)
ClearNothing(d) == UNCHANGED override

(* DELETE ... WHERE path LIKE "d/%" AND path != d.                         *)
ClearOverridesUnder(d) ==
  override' = [p \in Paths |-> IF p \in Like[d] \ {d} THEN "none" ELSE override[p]]

(* A directory: its new state is decided, the overrides below are cleared, *)
(* one commit...                                                           *)
ToggleDir(d) ==
  /\ upc = "ready"
  /\ upc' = "set" /\ target' = d /\ flag' = ~Effective(d)
  /\ before' = EffectivePaths
  /\ ClearOverridesUnder(d)
  /\ UNCHANGED reading
  /\ Observe

(* ... and its own override is set, another.                               *)
SetDir ==
  /\ upc = "set"
  /\ upc' = "ready" /\ before' = {}
  /\ Store(target, flag)
  /\ UNCHANGED <<target, flag, reading>>
  /\ Observe

(* The program dies and is started again on the same table.                *)
Crash ==
  /\ upc' = "ready" /\ before' = {}
  /\ rpc' = "idle" /\ answer' = FALSE
  /\ steady' = Nothing /\ held' = {}
  /\ UNCHANGED <<override, target, flag, rpath, rat>>

-------------------------------------------------------------------------------
(* The reader: the walk of a pass or of a report                           *)

readerLeaves == <<override, toggling>>

Decide(on) == rpc' = "done" /\ answer' = on

(* The root is walked unasked.                                             *)
Begin(p) ==
  /\ rpc \in {"idle", "done"} /\ p # Root
  /\ rpc' = "read" /\ rpath' = p /\ rat' = p /\ answer' = FALSE
  /\ Fresh
  /\ UNCHANGED readerLeaves

(* The way up ends at the root, that included.                             *)
Ends(p) == p = Root

(* A mutant: any override selects.                                         *)
AnyOverride(state) == TRUE

Includes(state) == state = "include"

(* One get_selection_override: the nearest override decides, the default   *)
(* is unselected.                                                          *)
Found(on) ==
  /\ rpc = "read"
  /\ IF on \/ rpath \notin Dirs THEN Decide(on)
     ELSE rpc' = "below" /\ UNCHANGED answer
  /\ UNCHANGED <<readerLeaves, history, rpath, rat>>

ReadOverride == override[rat] # "none" /\ Found(Includes(override[rat]))

ReadDefault == override[rat] = "none" /\ Ends(rat) /\ Found(FALSE)

ReadUp ==
  /\ rpc = "read" /\ override[rat] = "none" /\ ~Ends(rat)
  /\ rat' = In[rat]
  /\ UNCHANGED <<readerLeaves, history, rpc, rpath, answer>>

(* A mutant: an unselected directory is pruned unasked.                    *)
PruneUnasked ==
  /\ rpc = "below"
  /\ Decide(FALSE)
  /\ UNCHANGED <<readerLeaves, history, rpath, rat>>

(* any_include_below, of an unselected directory.                          *)
ReadBelow ==
  /\ rpc = "below"
  /\ Decide(HasOverrideUnder(rpath, "include"))
  /\ UNCHANGED <<readerLeaves, history, rpath, rat>>

-------------------------------------------------------------------------------
Next ==
  \/ \E p \in Paths : ToggleFile(p) \/ Begin(p)
  \/ \E d \in Dirs : ToggleDir(d)
  \/ SetDir
  \/ ReadOverride \/ ReadDefault \/ ReadUp \/ ReadBelow
  \/ Crash

Spec == Init /\ [][Next]_vars

-------------------------------------------------------------------------------
(* Properties                                                              *)

(* Whatever is toggled while effective() climbs, a file is not copied that *)
(* has been unselected all the time (selection.py:29-39, copier.py:124).   *)
NoFalseCopy == rpc = "done" /\ answer /\ rpath \notin Dirs => rpath \notin steady.off

(* And what has been selected all the time is not passed over: neither the *)
(* file itself, nor anything below a directory that is pruned on the       *)
(* answers of two queries (copier.py:104-110).  "All the time" counts the  *)
(* moment between the two commits of a toggle, and what a toggle that is   *)
(* between them is about to set.                                           *)
NoFalseSkip == rpc = "done" /\ ~answer => Under(rpath) \cap steady.on = {}

(* A checkbox tells the truth about everything below it, though it is      *)
(* computed from one effective() and one query for overrides of the other  *)
(* kind (tree_widget.py:179-185).                                          *)
GlyphExact ==
  \A d \in Dirs :
    /\ Glyph(d) = "selected"   <=> \A p \in Under(d) : Effective(p)
    /\ Glyph(d) = "unselected" <=> \A p \in Under(d) : ~Effective(p)

(* Lines are cached, so a toggle must draw again every node whose checkbox *)
(* either of its commits changes, above and below (tree_widget.py:90-109,  *)
(* 193-196).  At the root it does not.                                     *)
Redrawn(p) == {q \in Paths : Checkbox(q) # Checkbox(q)'} \subseteq Refreshed(p)

CheckboxesRedrawn ==
  [][override' # override =>
       IF upc = "ready" /\ upc' = "ready"
       THEN \E p \in Paths \ Dirs : override'[p] # override[p] /\ Redrawn(p)
       ELSE target' = Root \/ Redrawn(target')]_vars

(* The sparse overrides are the dense flags, over deaths between the two   *)
(* commits of a toggle as well (selection.py:10-12).                       *)
Dense == INSTANCE DenseSelection WITH selected <- View

RefinesDenseSelection == Dense!Spec

-------------------------------------------------------------------------------
(* What the repository says and the code does not do                       *)

(* README.md:85, "a copy pass over everything currently selected": what    *)
(* the user sees selected before and after every toggle made meanwhile.    *)
HeldIsCovered == rpc = "done" /\ ~answer => Under(rpath) \cap held = {}
===============================================================================
