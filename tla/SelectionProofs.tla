---------------------------- MODULE SelectionProofs ----------------------------
(***************************************************************************)
(* Theorems about Selection, for every tree: its types, that a checkbox is *)
(* exact and drawn again when it changes, that the sparse overrides        *)
(* implement the flags of DenseSelection, and that a reader is right about *)
(* what is steady.  All but the first where LIKE finds what is below a     *)
(* directory and nothing else (LikeExact).                                 *)
(*                                                                         *)
(* A path without overrides between it and a directory above has the       *)
(* selection of that directory (Inherits).  Both commits of a toggle are   *)
(* instances of it: the first leaves everything below with the selection   *)
(* of the directory, the second changes that selection.  In between the    *)
(* table is neither what the user had nor what he asked for; MidToggle     *)
(* says how it differs from both.                                          *)
(*                                                                         *)
(* A path above which something is toggled while the reader climbs is off  *)
(* in one of the two and on in the other; for all others the table stands  *)
(* still (Frozen), and the climb is as good as one query (Climbed).        *)
(***************************************************************************)
EXTENDS Selection, TLAPS

(* Effective, of any table                                                 *)
Eff(table, p) ==
  \E q \in Up[p] :
    /\ table[q] = "include"
    /\ \A r \in Up[p] : table[r] # "none" => r \in Up[q]

Tables == [Paths -> {"none", "include", "exclude"}]

MidToggle ==
  upc = "set" =>
    /\ \A p \in Below(target) : override[p] = "none"
    /\ \A p \in Paths \ Under(target) : Eff(override, p) <=> p \in before
    /\ Eff(override, target) <=> target \in before
    /\ flag <=> target \notin before

IInv == TypeOK /\ MidToggle

-------------------------------------------------------------------------------
(* The tree                                                                *)

(* Up is a tree: every path is above itself, what is above is a chain, and *)
(* a directory of a path is above it.                                      *)
LEMMA Tree ==
  /\ \A p \in Paths : Up[p] \subseteq Paths /\ p \in Up[p]
  /\ \A p \in Paths : \A q \in Up[p] : Up[q] \subseteq Up[p]
  /\ \A p \in Paths : \A q, r \in Up[p] : q \in Up[r] \/ r \in Up[q]
  /\ \A p, q \in Paths : p \in Up[q] /\ q \in Up[p] => p = q
  /\ \A p \in Paths \ {Root} : In[p] \in Paths /\ In[p] \in Up[p]
<1>1. ASSUME NEW p \in Paths PROVE Up[p] \subseteq Paths /\ p \in Up[p]
  <2>1. Up[p] \in SUBSET Paths
    BY UpAssumption
  <2>2. CASE p = Root
    BY <2>1, <2>2, UpAssumption
  <2>3. CASE p # Root
    BY <2>1, <2>3, UpAssumption
  <2> QED
    BY <2>2, <2>3
<1>2. ASSUME NEW p \in Paths \ {Root} PROVE In[p] \in Paths /\ In[p] \in Up[p]
  <2>1. In[p] \in Paths
    BY PathsAssumption
  <2>2. Up[p] = Up[In[p]] \cup {p}
    BY UpAssumption
  <2> QED
    BY <1>1, <2>1, <2>2
<1>3. \A p \in Paths : \A q \in Up[p] : Up[q] \subseteq Up[p]
  BY UpAssumption
<1>4. \A p \in Paths : \A q, r \in Up[p] : q \in Up[r] \/ r \in Up[q]
  BY UpAssumption
<1>5. \A p, q \in Paths : p \in Up[q] /\ q \in Up[p] => p = q
  BY UpAssumption
<1> QED
  BY <1>1, <1>2, <1>3, <1>4, <1>5

(* A file is above itself alone.                                           *)
LEMMA FileUnder == \A p \in Paths \ Dirs : Under(p) = {p}
  BY Tree, UpAssumption DEF Under

LEMMA Chain ==
  ASSUME NEW d \in Paths, NEW p \in Under(d), NEW r \in Up[p], r \notin Below(d)
  PROVE  r \in Up[d]
  BY Tree DEF Under, Below

(* Where nothing between says otherwise, a path has the selection of the   *)
(* directory above (selection.py:29-39).                                   *)
LEMMA Inherits ==
  ASSUME NEW table, NEW d \in Paths, NEW p \in Under(d),
         \A r \in Up[p] \cap Below(d) : table[r] = "none"
  PROVE  Eff(table, p) <=> Eff(table, d)
<1>1. Up[d] \subseteq Up[p]
  BY Tree DEF Under
<1>2. \A r \in Up[p] : table[r] # "none" => r \in Up[d]
  BY Chain
<1>3. ASSUME Eff(table, p) PROVE Eff(table, d)
  <2>1. PICK q \in Up[p] : /\ table[q] = "include"
                           /\ \A r \in Up[p] : table[r] # "none" => r \in Up[q]
    BY <1>3 DEF Eff
  <2>2. q \in Up[d]
    BY <1>2, <2>1
  <2> QED
    BY <1>1, <2>1, <2>2 DEF Eff
<1>4. ASSUME Eff(table, d) PROVE Eff(table, p)
  <2>1. PICK q \in Up[d] : /\ table[q] = "include"
                           /\ \A r \in Up[d] : table[r] # "none" => r \in Up[q]
    BY <1>4 DEF Eff
  <2> QED
    BY <1>1, <1>2, <2>1 DEF Eff
<1> QED
  BY <1>3, <1>4

(* Tables that agree above a path give it the same selection.              *)
LEMMA SameAbove ==
  ASSUME NEW table, NEW other, NEW p \in Paths,
         \A r \in Up[p] : table[r] = other[r]
  PROVE  Eff(table, p) <=> Eff(other, p)
  BY DEF Eff

(* A path with an override has the selection the override says.            *)
LEMMA OwnOverride ==
  ASSUME NEW table, NEW p \in Paths, table[p] # "none"
  PROVE  Eff(table, p) <=> table[p] = "include"
  BY Tree DEF Eff

(* The second commit of a toggle: over a cleared subtree the new override  *)
(* of the directory is the selection of all of it, and of nothing else.    *)
LEMMA StoreEffect ==
  ASSUME NEW table \in Tables, NEW d \in Paths, NEW on \in BOOLEAN, NEW p \in Paths,
         \A r \in Below(d) : table[r] = "none"
  PROVE  Eff([table EXCEPT ![d] = Word(on)], p)
           <=> IF p \in Under(d) THEN on ELSE Eff(table, p)
<1> DEFINE new == [table EXCEPT ![d] = Word(on)]
<1>1. new[d] = Word(on) /\ \A r \in Paths \ {d} : new[r] = table[r]
  BY DEF Tables
<1>2. Eff(new, d) <=> on
  <2> HIDE DEF new
  <2>1. new[d] # "none" /\ (new[d] = "include" <=> on)
    BY <1>1 DEF Word
  <2> QED
    BY <2>1, OwnOverride
<1>3. CASE p \in Under(d)
  <2>1. \A r \in Up[p] \cap Below(d) : new[r] = "none"
    BY <1>1 DEF Below, Under
  <2> HIDE DEF new
  <2> QED
    BY <1>2, <1>3, <2>1, Inherits DEF new
<1>4. CASE p \notin Under(d)
  <2>1. \A r \in Up[p] : new[r] = table[r]
    BY <1>1, <1>4, Tree DEF Under
  <2> HIDE DEF new
  <2> QED
    BY <1>4, <2>1, SameAbove DEF new
<1> QED
  BY <1>3, <1>4

(* The first: what is below takes the selection the directory has.         *)
LEMMA ClearEffect ==
  ASSUME NEW table \in Tables, NEW new \in Tables, NEW d \in Paths, NEW p \in Paths,
         \A r \in Paths : new[r] = IF r \in Below(d) THEN "none" ELSE table[r]
  PROVE  Eff(new, p) <=> IF p \in Under(d) THEN Eff(table, d) ELSE Eff(table, p)
<1>1. Eff(new, d) <=> Eff(table, d)
  <2>1. \A r \in Up[d] : new[r] = table[r]
    BY Tree DEF Below, Under
  <2> QED
    BY <2>1, SameAbove
<1>2. CASE p \in Under(d)
  <2>1. \A r \in Up[p] \cap Below(d) : new[r] = "none"
    BY DEF Below, Under
  <2> QED
    BY <1>1, <1>2, <2>1, Inherits
<1>3. CASE p \notin Under(d)
  <2>1. \A r \in Up[p] : new[r] = table[r]
    BY <1>3, Tree DEF Below, Under
  <2> QED
    BY <1>3, <2>1, SameAbove
<1> QED
  BY <1>2, <1>3
-------------------------------------------------------------------------------
(* The invariant                                                           *)

LEMMA Selecting == \A p \in Paths : Effective(p) <=> Eff(override, p)
  BY DEF Effective, Eff

LEMMA InitIInv == Init => IInv
<1> SUFFICES ASSUME Init PROVE IInv
  OBVIOUS
<1>1. Root \in Paths /\ Root \in Up[Root]
  BY PathsAssumption, UpAssumption
<1>2. TypeOK
  BY <1>1, PathsAssumption DEF Init, TypeOK, Nothing
<1>3. MidToggle
  BY DEF Init, MidToggle
<1> QED
  BY <1>2, <1>3 DEF IInv

LEMMA ObserveType ==
  ASSUME TypeOK, Observe
  PROVE  steady' \in [on : SUBSET Paths, off : SUBSET Paths] /\ held' \subseteq Paths
  BY DEF TypeOK, Observe

(* Types are kept by every step.                                           *)
LEMMA TypeStep == TypeOK /\ [Next]_vars => TypeOK'
<1> SUFFICES ASSUME TypeOK, [Next]_vars PROVE TypeOK'
  OBVIOUS
<1>1. ASSUME NEW p \in Paths, ToggleFile(p) PROVE TypeOK'
  BY <1>1, ObserveType DEF ToggleFile, TypeOK, Store, Word, toggling, reading
<1>2. ASSUME NEW p \in Paths, Begin(p) PROVE TypeOK'
  <2>1. steady' \in [on : SUBSET Paths, off : SUBSET Paths]
    BY <1>2 DEF Begin, Fresh, EffectivePaths
  <2>2. held' \subseteq Paths
    BY <1>2 DEF Begin, Fresh, View, EffectivePaths, TypeOK
  <2> QED
    BY <1>2, <2>1, <2>2, Tree DEF Begin, TypeOK, readerLeaves, toggling
<1>3. ASSUME NEW d \in Dirs, ToggleDir(d) PROVE TypeOK'
  <2>1. EffectivePaths \subseteq Paths
    BY DEF EffectivePaths
  <2>2. override' \in Tables
    BY <1>3 DEF ToggleDir, ClearOverridesUnder, TypeOK, Tables
  <2>3. flag' \in BOOLEAN
    BY <1>3 DEF ToggleDir, Effective
  <2> QED
    BY <1>3, <2>1, <2>2, <2>3, ObserveType DEF ToggleDir, TypeOK, Tables, reading
<1>4. CASE SetDir
  BY <1>4, PathsAssumption, ObserveType DEF SetDir, TypeOK, Store, Word, reading
<1>5. CASE ReadOverride \/ ReadDefault
  BY <1>5 DEF ReadOverride, ReadDefault, Found, Decide, Includes, Ends, TypeOK,
              readerLeaves, toggling, history
<1>6. CASE ReadUp
  <2>1. rpath \in Paths /\ rat \in Paths \ {Root}
    BY <1>6, Tree DEF ReadUp, Ends, TypeOK
  <2>2. In[rat] \in Up[rat] /\ Up[rat] \subseteq Up[rpath]
    BY <2>1, Tree DEF TypeOK
  <2> QED
    BY <1>6, <2>2 DEF ReadUp, TypeOK, readerLeaves, toggling, history
<1>7. CASE ReadBelow
  BY <1>7 DEF ReadBelow, Decide, HasOverrideUnder, TypeOK, readerLeaves, toggling, history
<1>8. CASE Crash
  BY <1>8 DEF Crash, Nothing, TypeOK
<1>9. CASE UNCHANGED vars
  BY <1>9 DEF vars, toggling, reading, history, TypeOK
<1> QED
  BY <1>1, <1>2, <1>3, <1>4, <1>5, <1>6, <1>7, <1>8, <1>9 DEF Next

(* Steps of the reader leave the toggle and the table as they are.         *)
Reader ==
  \/ \E p \in Paths : Begin(p)
  \/ ReadOverride \/ ReadDefault \/ ReadUp \/ ReadBelow

LEMMA ReaderLeaves == Reader \/ UNCHANGED vars => UNCHANGED readerLeaves
  BY DEF Reader, Begin, ReadOverride, ReadDefault, Found, ReadUp, ReadBelow,
         readerLeaves, vars

(* The table between the two commits, where LIKE is exact.                 *)
LEMMA MidStep ==
  ASSUME LikeExact, TypeOK, MidToggle, [Next]_vars
  PROVE  MidToggle'
<1>1. ASSUME NEW d \in Dirs, ToggleDir(d) PROVE MidToggle'
  <2>1. d \in Paths /\ override \in Tables
    BY PathsAssumption DEF TypeOK, Tables
  <2>2. \A r \in Paths : override'[r] = IF r \in Below(d) THEN "none" ELSE override[r]
    BY <1>1 DEF ToggleDir, ClearOverridesUnder, LikeExact
  <2>3. override' \in Tables
    BY <1>1, <2>1 DEF ToggleDir, ClearOverridesUnder, Tables
  <2>4. \A p \in Paths :
          Eff(override', p) <=> IF p \in Under(d) THEN Eff(override, d) ELSE Eff(override, p)
    BY <2>1, <2>2, <2>3, ClearEffect
  <2>5. target' = d /\ before' = EffectivePaths /\ flag' = ~Effective(d)
    BY <1>1 DEF ToggleDir
  <2>6. \A p \in Paths : p \in before' <=> Eff(override, p)
    BY <2>5, Selecting DEF EffectivePaths
  <2>7. d \in Under(d)
    BY <2>1, Tree DEF Under
  <2>8. \A p \in Below(d) : override'[p] = "none"
    BY <2>2 DEF Below, Under
  <2>9. \A p \in Paths \ Under(d) : Eff(override', p) <=> p \in before'
    BY <2>4, <2>6
  <2>10. Eff(override', d) <=> d \in before'
    BY <2>1, <2>4, <2>6, <2>7
  <2>11. flag' <=> d \notin before'
    BY <2>1, <2>5, <2>6, Selecting
  <2> QED
    BY <2>5, <2>8, <2>9, <2>10, <2>11 DEF MidToggle, Below, Under
<1>2. CASE (\E p \in Paths : ToggleFile(p)) \/ SetDir \/ Crash
  <2>1. upc' # "set"
    BY <1>2 DEF ToggleFile, SetDir, Crash, toggling
  <2> QED
    BY <2>1 DEF MidToggle
<1>3. CASE Reader \/ UNCHANGED vars
  <2>1. UNCHANGED <<override, upc, target, flag, before>>
    BY <1>3, ReaderLeaves DEF readerLeaves, toggling
  <2> QED
    BY <2>1 DEF MidToggle, Below, Under, Eff
<1> QED
  BY <1>1, <1>2, <1>3 DEF Next, Reader

(* The variables of the selection keep their types, whatever LIKE finds.   *)
THEOREM TypeCorrect == Spec => []TypeOK
<1>1. Init => TypeOK
  BY InitIInv DEF IInv
<1> QED
  BY <1>1, TypeStep, PTL DEF Spec

LEMMA Invariance == ASSUME LikeExact PROVE Spec => []IInv
<1>1. IInv /\ [Next]_vars => IInv'
  BY TypeStep, MidStep DEF IInv
<1> QED
  BY <1>1, InitIInv, PTL DEF Spec

-------------------------------------------------------------------------------
(* The checkboxes                                                          *)

(* Below a directory with no override of the other kind everything has the *)
(* selection of the directory.                                             *)
LEMMA Uniform ==
  ASSUME NEW table \in Tables, NEW d \in Paths, NEW p \in Under(d)
  PROVE  /\ Eff(table, d) /\ (\A r \in Below(d) : table[r] # "exclude") => Eff(table, p)
         /\ ~Eff(table, d) /\ (\A r \in Below(d) : table[r] # "include") => ~Eff(table, p)
<1>1. p \in Paths /\ Up[d] \subseteq Up[p] /\ Up[p] \subseteq Paths
  BY Tree DEF Under
<1>2. ASSUME Eff(table, d), \A r \in Below(d) : table[r] # "exclude"
      PROVE  Eff(table, p)
  <2> DEFINE Set == {r \in Up[p] : table[r] # "none"}
  <2>1. PICK q \in Up[d] : /\ table[q] = "include"
                           /\ \A r \in Up[d] : table[r] # "none" => r \in Up[q]
    BY <1>2 DEF Eff
  <2>2. Set \in SUBSET Up[p] /\ Set # {}
    BY <1>1, <2>1
  <2>3. PICK n \in Set : \A r \in Set : r \in Up[n]
    <3> HIDE DEF Set
    <3> QED
      BY <1>1, <2>2, NearestAssumption
  <2>4. table[n] = "include"
    <3>1. CASE n \in Below(d)
      BY <1>1, <1>2, <2>3, <3>1 DEF Tables
    <3>2. CASE n \notin Below(d)
      <4>1. n \in Up[d]
        BY <2>3, <3>2, Chain
      <4>2. n \in Up[q] /\ q \in Up[n]
        BY <1>1, <2>1, <2>3, <4>1
      <4> QED
        BY <1>1, <2>1, <2>3, <4>2, Tree
    <3> QED
      BY <3>1, <3>2
  <2> QED
    BY <2>3, <2>4 DEF Eff
<1>3. ASSUME Eff(table, p), \A r \in Below(d) : table[r] # "include"
      PROVE  Eff(table, d)
  <2>1. PICK q \in Up[p] : /\ table[q] = "include"
                           /\ \A r \in Up[p] : table[r] # "none" => r \in Up[q]
    BY <1>3 DEF Eff
  <2>2. q \in Up[d]
    BY <1>3, <2>1, Chain
  <2> QED
    BY <1>1, <2>1, <2>2 DEF Eff
<1> QED
  BY <1>2, <1>3

LEMMA GlyphLemma == LikeExact /\ TypeOK => GlyphExact
<1> SUFFICES ASSUME LikeExact, TypeOK, NEW d \in Dirs
             PROVE  /\ Glyph(d) = "selected"   <=> \A p \in Under(d) : Effective(p)
                    /\ Glyph(d) = "unselected" <=> \A p \in Under(d) : ~Effective(p)
  BY DEF GlyphExact
<1>1. d \in Paths /\ override \in Tables
  BY PathsAssumption DEF TypeOK, Tables
<1>2. Under(d) = Below(d) \cup {d} /\ Like[d] \cup {d} = Under(d) /\ Under(d) \subseteq Paths
  BY <1>1, Tree DEF LikeExact, Below, Under
<1>3. \A p \in Under(d) : Effective(p) <=> Eff(override, p)
  BY <1>2, Selecting
<1>4. \A p \in Under(d) : override[p] # "none" => (Eff(override, p) <=> override[p] = "include")
  BY <1>2, OwnOverride
<1>5. HasOverrideUnder(d, "exclude") <=> \E p \in Under(d) : override[p] = "exclude"
  BY <1>2 DEF HasOverrideUnder
<1>6. HasOverrideUnder(d, "include") <=> \E p \in Under(d) : override[p] = "include"
  BY <1>2 DEF HasOverrideUnder
<1>7. CASE Effective(d)
  <2>1. Glyph(d) # "unselected" /\ ~(\A p \in Under(d) : ~Effective(p))
    BY <1>2, <1>7 DEF Glyph
  <2>2. CASE HasOverrideUnder(d, "exclude")
    BY <1>3, <1>4, <1>5, <1>7, <2>1, <2>2 DEF Glyph
  <2>3. CASE ~HasOverrideUnder(d, "exclude")
    <3>1. \A p \in Under(d) : Eff(override, p)
      BY <1>1, <1>2, <1>3, <1>5, <1>7, <2>3, Uniform
    <3> QED
      BY <1>3, <1>7, <2>1, <2>3, <3>1 DEF Glyph
  <2> QED
    BY <2>2, <2>3
<1>8. CASE ~Effective(d)
  <2>1. Glyph(d) # "selected" /\ ~(\A p \in Under(d) : Effective(p))
    BY <1>2, <1>8 DEF Glyph
  <2>2. CASE HasOverrideUnder(d, "include")
    BY <1>3, <1>4, <1>6, <1>8, <2>1, <2>2 DEF Glyph
  <2>3. CASE ~HasOverrideUnder(d, "include")
    <3>1. \A p \in Under(d) : ~Eff(override, p)
      BY <1>1, <1>2, <1>3, <1>6, <1>8, <2>3, Uniform
    <3> QED
      BY <1>3, <1>8, <2>1, <2>3, <3>1 DEF Glyph
  <2> QED
    BY <2>2, <2>3
<1> QED
  BY <1>7, <1>8

(* After any toggles and deaths, in a tree of any size, a checkbox is true *)
(* of everything below its directory (tree_widget.py:179-185).             *)
THEOREM GlyphTheorem == ASSUME LikeExact PROVE Spec => []GlyphExact
<1>1. TypeOK => GlyphExact
  BY GlyphLemma
<1> QED
  BY <1>1, TypeCorrect, PTL

(* What is set at or below one path shows there and above it, and nowhere  *)
(* else.                                                                   *)
LEMMA Elsewhere ==
  ASSUME LikeExact, NEW p \in Paths, NEW q \in Paths \ (Up[p] \cup Under(p)),
         \A r \in Paths \ Under(p) : override'[r] = override[r]
  PROVE  Checkbox(q)' = Checkbox(q)
<1>1. q \notin Under(p) /\ p \notin Under(q)
  BY DEF Under
<1>2. Up[q] \subseteq Paths \ Under(p)
  BY <1>1, Tree DEF Under
<1>3. Under(q) \subseteq Paths \ Under(p)
  BY <1>1, Tree DEF Under
<1>4. Effective(q)' <=> Effective(q)
  BY <1>2 DEF Effective
<1>5. CASE q \in Dirs
  <2>1. Like[q] \cup {q} \subseteq Paths \ Under(p)
    BY <1>1, <1>3, <1>5, Tree DEF LikeExact, Below, Under
  <2>2. \A state : HasOverrideUnder(q, state)' <=> HasOverrideUnder(q, state)
    BY <2>1 DEF HasOverrideUnder
  <2> QED
    BY <1>4, <1>5, <2>2 DEF Checkbox, Glyph
<1>6. CASE q \notin Dirs
  BY <1>4, <1>6 DEF Checkbox
<1> QED
  BY <1>5, <1>6

LEMMA RedrawnIf ==
  ASSUME LikeExact, NEW p \in Paths \ {Root},
         \A r \in Paths \ Under(p) : override'[r] = override[r]
  PROVE  Redrawn(p)
<1>1. \A q \in Paths \ (Up[p] \cup Under(p)) : Checkbox(q)' = Checkbox(q)
  BY Elsewhere
<1> QED
  BY <1>1 DEF Redrawn, Refreshed

(* Each commit of a toggle, at any place but the root, changes only        *)
(* checkboxes that the toggle draws again (tree_widget.py:90-109, 193-196).*)
THEOREM RedrawTheorem == ASSUME LikeExact PROVE Spec => CheckboxesRedrawn
<1> DEFINE A == override' # override =>
       IF upc = "ready" /\ upc' = "ready"
       THEN \E p \in Paths \ Dirs : override'[p] # override[p] /\ Redrawn(p)
       ELSE target' = Root \/ Redrawn(target')
<1>1. TypeOK /\ [Next]_vars => [A]_vars
  <2> SUFFICES ASSUME TypeOK, [Next]_vars PROVE [A]_vars
    OBVIOUS
  <2>1. ASSUME NEW p \in Paths, ToggleFile(p) PROVE A
    <3>1. upc = "ready" /\ upc' = "ready" /\ p \in Paths \ Dirs /\ p # Root
      BY <2>1, PathsAssumption DEF ToggleFile, toggling
    <3>2. override' = [override EXCEPT ![p] = Word(~Effective(p))]
      BY <2>1 DEF ToggleFile, Store
    <3>3. \A r \in Paths \ {p} : override'[r] = override[r]
      BY <3>2 DEF TypeOK
    <3>4. override' # override => override'[p] # override[p]
      BY <3>2 DEF TypeOK
    <3>5. Redrawn(p)
      BY <3>1, <3>3, FileUnder, RedrawnIf
    <3> QED
      BY <3>1, <3>4, <3>5
  <2>2. ASSUME NEW d \in Dirs, ToggleDir(d) PROVE A
    <3>1. upc' = "set" /\ target' = d /\ d \in Paths
      BY <2>2, PathsAssumption DEF ToggleDir
    <3>2. \A r \in Paths \ Under(d) : override'[r] = override[r]
      BY <2>2 DEF ToggleDir, ClearOverridesUnder, LikeExact, Below
    <3>3. d # Root => Redrawn(d)
      BY <3>1, <3>2, RedrawnIf
    <3> QED
      BY <3>1, <3>3
  <2>3. CASE SetDir
    <3>1. upc = "set" /\ target' = target /\ target \in Paths
      BY <2>3, PathsAssumption DEF SetDir, TypeOK
    <3>2. override' = [override EXCEPT ![target] = Word(flag)]
      BY <2>3 DEF SetDir, Store
    <3>3. \A r \in Paths \ Under(target) : override'[r] = override[r]
      BY <3>1, <3>2, Tree DEF TypeOK, Under
    <3>4. \A p \in Paths : p = target /\ p # Root => Redrawn(p)
      BY <3>3, RedrawnIf
    <3>5. target' # Root => Redrawn(target')
      BY <3>1, <3>4 DEF Redrawn, Refreshed
    <3> QED
      BY <3>1, <3>5
  <2>4. CASE Crash
    BY <2>4 DEF Crash
  <2>5. CASE Reader \/ UNCHANGED vars
    BY <2>5, ReaderLeaves DEF readerLeaves
  <2> QED
    BY <2>1, <2>2, <2>3, <2>4, <2>5 DEF Next, Reader
<1> QED
  BY <1>1, TypeCorrect, PTL DEF Spec, CheckboxesRedrawn

-------------------------------------------------------------------------------
(* Refinement                                                              *)

LEMMA InitRefines == Init => Dense!Init
<1> SUFFICES ASSUME Init PROVE View = {}
  BY DEF Dense!Init
<1>1. \A p \in Paths : ~Effective(p)
  BY Tree DEF Init, Effective
<1> QED
  BY <1>1 DEF Init, View, EffectivePaths

(* Every step toggles a flag and all below, ends an interrupted toggle, or *)
(* changes no flag.                                                        *)
LEMMA StepRefines ==
  ASSUME IInv, LikeExact, [Next]_vars
  PROVE  [Dense!Next]_View
<1> USE DEF IInv
<1>0. \A p \in Paths : Dense!Under(p) = Under(p)
  BY DEF Dense!Under, Under
<1>t. override \in Tables
  BY DEF TypeOK, Tables
<1>1. ASSUME NEW p \in Paths, ToggleFile(p) PROVE Dense!Next
  <2> DEFINE on == ~Effective(p)
  <2>1. p \in Under(p) /\ Below(p) = {}
    BY <1>1, FileUnder DEF ToggleFile, Below
  <2>2. override' = [override EXCEPT ![p] = Word(on)] /\ on \in BOOLEAN
    BY <1>1 DEF ToggleFile, Store, Effective
  <2> HIDE DEF on
  <2>3. \A q \in Paths : Eff(override', q) <=> IF q \in Under(p) THEN on ELSE Eff(override, q)
    BY <1>t, <2>1, <2>2, StoreEffect
  <2>4. View = EffectivePaths /\ View' = EffectivePaths'
    BY <1>1 DEF ToggleFile, View, toggling
  <2>5. \A q \in Paths : /\ q \in EffectivePaths <=> Eff(override, q)
                         /\ q \in EffectivePaths' <=> Eff(override', q)
    BY DEF EffectivePaths, Effective, Eff
  <2>6. View \subseteq Paths /\ View' \subseteq Paths /\ Under(p) \subseteq Paths
    BY <2>4 DEF EffectivePaths, Under
  <2>7. on <=> p \notin View
    BY <2>4 DEF on, EffectivePaths
  <2>8. View' = IF on THEN View \cup Under(p) ELSE View \ Under(p)
    BY <2>3, <2>4, <2>5, <2>6
  <2>9. Dense!Toggle(p)
    BY <1>0, <2>7, <2>8 DEF Dense!Toggle, Dense!Level
  <2> QED
    BY <2>9 DEF Dense!Next
<1>2. ASSUME NEW d \in Dirs, ToggleDir(d) PROVE UNCHANGED View
  BY <1>2 DEF ToggleDir, View
<1>3. CASE SetDir
  <2>1. target \in Paths /\ flag \in BOOLEAN /\ before \subseteq Paths
    BY PathsAssumption DEF TypeOK
  <2>2. override' = [override EXCEPT ![target] = Word(flag)]
    BY <1>3 DEF SetDir, Store
  <2>3. View = before /\ View' = EffectivePaths'
    BY <1>3 DEF SetDir, View
  <2>4. \A r \in Below(target) : override[r] = "none"
    BY <1>3 DEF SetDir, MidToggle
  <2>5. \A q \in Paths :
          Eff(override', q) <=> IF q \in Under(target) THEN flag ELSE Eff(override, q)
    BY <1>t, <2>1, <2>2, <2>4, StoreEffect
  <2>6. \A q \in Paths \ Under(target) : Eff(override, q) <=> q \in View
    BY <1>3, <2>3 DEF SetDir, MidToggle
  <2>7. flag <=> target \notin View
    BY <1>3, <2>3 DEF SetDir, MidToggle
  <2>8. \A q \in Paths : q \in View' <=> Eff(override', q)
    BY <2>3 DEF EffectivePaths, Effective, Eff
  <2>9. View' \subseteq Paths /\ Under(target) \subseteq Paths
    BY <2>3 DEF EffectivePaths, Under
  <2>10. View' = IF flag THEN View \cup Under(target) ELSE View \ Under(target)
    BY <2>1, <2>3, <2>5, <2>6, <2>8, <2>9
  <2>11. Dense!Toggle(target)
    BY <1>0, <2>1, <2>7, <2>10 DEF Dense!Toggle, Dense!Level
  <2> QED
    BY <2>1, <2>11 DEF Dense!Next
<1>4. CASE Crash
  <2>1. View' = EffectivePaths /\ override' = override
    BY <1>4 DEF Crash, View, EffectivePaths, Effective
  <2>2. CASE upc # "set"
    BY <2>1, <2>2 DEF View
  <2>3. CASE upc = "set"
    <3>1. target \in Paths /\ View = before /\ before \subseteq Paths
      BY <2>3, PathsAssumption DEF TypeOK, View
    <3>2. \A q \in Paths : q \in View' <=> Eff(override, q)
      BY <2>1, Selecting DEF EffectivePaths
    <3>3. \A q \in Under(target) : Eff(override, q) <=> Eff(override, target)
      <4>1. \A r \in Below(target) : override[r] = "none"
        BY <2>3 DEF MidToggle
      <4> QED
        BY <3>1, <4>1, Inherits
    <3>4. \A q \in Under(target) : Eff(override, q) <=> target \in View
      BY <2>3, <3>1, <3>3 DEF MidToggle
    <3>5. \A q \in Paths \ Under(target) : Eff(override, q) <=> q \in View
      BY <2>3, <3>1 DEF MidToggle
    <3>6. View' \subseteq Paths /\ Under(target) \subseteq Paths
      BY <2>1 DEF EffectivePaths, Under
    <3>7. View' = IF target \in View THEN View \cup Under(target)
                                     ELSE View \ Under(target)
      BY <3>1, <3>2, <3>4, <3>5, <3>6
    <3>8. Dense!Interrupt(target)
      BY <1>0, <3>1, <3>7 DEF Dense!Interrupt, Dense!Level
    <3> QED
      BY <3>1, <3>8 DEF Dense!Next
  <2> QED
    BY <2>2, <2>3
<1>5. CASE Reader \/ UNCHANGED vars
  <2>1. UNCHANGED <<override, upc, before>>
    BY <1>5, ReaderLeaves DEF readerLeaves, toggling
  <2> QED
    BY <2>1 DEF View, EffectivePaths, Effective
<1> QED
  BY <1>1, <1>2, <1>3, <1>4, <1>5 DEF Next, Reader

(* The sparse overrides implement one flag for each path, over deaths      *)
(* between the two commits of a toggle (selection.py:10-12).               *)
THEOREM Refinement == ASSUME LikeExact PROVE Spec => RefinesDenseSelection
<1>1. IInv /\ [Next]_vars => [Dense!Next]_View
  BY StepRefines
<1> QED
  BY <1>1, InitRefines, Invariance, PTL DEF Spec, RefinesDenseSelection, Dense!Spec

-------------------------------------------------------------------------------
(* The reader                                                              *)

(* What is recorded as steady is on, or off, in the table and in what the  *)
(* running toggle will make of it.                                         *)
SteadyNow ==
  /\ steady.on \subseteq EffectivePaths \cap Outcome
  /\ steady.off \cap (EffectivePaths \cup Outcome) = {}

Steady == steady.on \cup steady.off

(* What the climb has passed is still as it was for a path that is steady, *)
(* so that the answer of the whole climb is that of one moment.            *)
Climbed ==
  /\ rpc = "read" => \A p \in Steady \cap Under(rpath) :
                       \A r \in Up[rpath] \ Up[rat] : override[r] = "none"
  /\ rpc = "below" =>
       rpath \in Dirs /\ (steady.on \cap Under(rpath) # {} => ~Effective(rpath))

ReaderInv == SteadyNow /\ Climbed /\ NoFalseCopy /\ NoFalseSkip

(* A path under the running toggle is off in one of the two and on in the  *)
(* other.                                                                  *)
Apart == upc = "set" => Steady \cap Under(target) = {}

LEMMA Untoggled == TypeOK /\ MidToggle /\ SteadyNow => Apart
<1> SUFFICES ASSUME TypeOK, MidToggle, SteadyNow, upc = "set",
                    NEW p \in Steady, p \in Under(target)
             PROVE  FALSE
  BY DEF Apart
<1>1. target \in Paths /\ p \in Paths
  BY PathsAssumption DEF TypeOK, Under
<1>2. Effective(p) <=> ~flag
  <2>1. Eff(override, p) <=> Eff(override, target)
    BY <1>1, Inherits DEF MidToggle
  <2> QED
    BY <1>1, <2>1, Selecting DEF MidToggle
<1>3. p \in EffectivePaths <=> ~flag
  BY <1>1, <1>2 DEF EffectivePaths
<1>4. p \in Outcome <=> flag
  BY <1>3 DEF Outcome
<1> QED
  BY <1>3, <1>4 DEF Steady, SteadyNow

(* Whatever is committed, nothing changes above a path that stays steady.  *)
LEMMA Frozen ==
  ASSUME LikeExact, IInv, IInv', SteadyNow, SteadyNow', [Next]_vars
  PROVE  \A p \in Steady \cap Steady' : \A r \in Up[p] : override'[r] = override[r]
<1> SUFFICES ASSUME NEW p \in Steady \cap Steady', NEW r \in Up[p]
             PROVE  override'[r] = override[r]
  OBVIOUS
<1>1. p \in Paths /\ r \in Paths
  BY Tree DEF Steady, IInv, TypeOK
<1>2. ASSUME NEW f \in Paths, ToggleFile(f) PROVE override'[r] = override[r]
  <2>1. override' = [override EXCEPT ![f] = Word(~Effective(f))]
    BY <1>2 DEF ToggleFile, Store
  <2>2. Observe
    BY <1>2 DEF ToggleFile
  <2>3. p \in EffectivePaths <=> p \in EffectivePaths'
    BY <2>2 DEF Observe, SteadyNow, Steady, IInv, TypeOK
  <2>4. Eff(override, p) <=> Eff(override', p)
    BY <1>1, <2>3 DEF EffectivePaths, Effective, Eff
  <2>5. CASE r = f
    <3>1. p = f
      BY <1>1, <1>2, <2>5, FileUnder DEF ToggleFile, Under
    <3>2. override'[p] = Word(~Effective(p))
      BY <1>1, <2>1, <3>1 DEF IInv, TypeOK
    <3>3. Eff(override', p) <=> override'[p] = "include"
      BY <1>1, <3>2, OwnOverride DEF Word
    <3>4. Eff(override', p) <=> ~Eff(override, p)
      BY <1>1, <3>2, <3>3, Selecting DEF Word
    <3> QED
      BY <2>4, <3>4
  <2> QED
    BY <1>1, <2>1, <2>5 DEF IInv, TypeOK
<1>3. ASSUME NEW d \in Dirs, ToggleDir(d) PROVE override'[r] = override[r]
  <2>1. upc' = "set" /\ target' = d
    BY <1>3 DEF ToggleDir
  <2>2. TypeOK' /\ MidToggle' /\ SteadyNow' => Apart'
    BY Untoggled, PTL
  <2>3. p \notin Under(d)
    BY <2>1, <2>2 DEF IInv, Apart, Under
  <2>4. r \notin Below(d)
    BY <1>1, <2>3, Tree DEF Below, Under
  <2> QED
    BY <1>1, <1>3, <2>4 DEF ToggleDir, ClearOverridesUnder, LikeExact
<1>4. CASE SetDir
  <2>1. p \notin Under(target)
    BY <1>4, Untoggled DEF SetDir, IInv, Apart
  <2>2. r # target
    BY <1>1, <2>1 DEF Under
  <2> QED
    BY <1>1, <1>4, <2>2 DEF SetDir, Store, IInv, TypeOK
<1>5. CASE Crash \/ Reader \/ UNCHANGED vars
  BY <1>5, ReaderLeaves DEF Crash, readerLeaves
<1> QED
  BY <1>2, <1>3, <1>4, <1>5 DEF Next, Reader

(* The first override that the climb finds is the one that decides.        *)
LEMMA Answer ==
  ASSUME TypeOK, \A r \in Up[rpath] \ Up[rat] : override[r] = "none"
  PROVE  /\ override[rat] # "none" => (Effective(rpath) <=> override[rat] = "include")
         /\ override[rat] = "none" /\ Ends(rat) => ~Effective(rpath)
<1>1. rpath \in Paths /\ rat \in Paths /\ rpath \in Under(rat)
  BY Tree DEF TypeOK, Under
<1>2. \A r \in Up[rpath] \cap Below(rat) : override[r] = "none"
  BY <1>1, Tree DEF Below, Under
<1>3. Effective(rpath) <=> Eff(override, rat)
  BY <1>1, <1>2, Inherits, Selecting
<1>4. override[rat] # "none" => (Eff(override, rat) <=> override[rat] = "include")
  BY <1>1, OwnOverride
<1>5. override[rat] = "none" /\ Ends(rat) => ~Eff(override, rat)
  BY UpAssumption DEF Ends, Eff
<1> QED
  BY <1>3, <1>4, <1>5

(* The histories forget a path when a commit, or the toggle that it        *)
(* belongs to, changes it.                                                 *)
LEMMA SteadyStep == TypeOK /\ SteadyNow /\ [Next]_vars => SteadyNow'
<1> SUFFICES ASSUME TypeOK, SteadyNow, [Next]_vars PROVE SteadyNow'
  OBVIOUS
<1>1. CASE Observe
  BY <1>1 DEF Observe, SteadyNow
<1>2. ASSUME NEW p \in Paths, Begin(p) PROVE SteadyNow'
  <2>1. EffectivePaths' = EffectivePaths /\ Outcome' = Outcome
    BY <1>2 DEF Begin, readerLeaves, toggling, EffectivePaths, Effective, Outcome,
                Under
  <2> QED
    BY <1>2, <2>1 DEF Begin, Fresh, SteadyNow
<1>3. CASE Crash
  BY <1>3 DEF Crash, Nothing, SteadyNow
<1>4. CASE ReadOverride \/ ReadDefault \/ ReadUp \/ ReadBelow \/ UNCHANGED vars
  <2>1. UNCHANGED <<override, upc, target, flag, steady>>
    BY <1>4 DEF ReadOverride, ReadDefault, Found, ReadUp, ReadBelow, readerLeaves,
                toggling, history, vars
  <2> QED
    BY <2>1 DEF SteadyNow, EffectivePaths, Effective, Outcome, Under
<1> QED
  BY <1>1, <1>2, <1>3, <1>4 DEF Next, ToggleFile, ToggleDir, SetDir

(* So the answer of the climb, and that of the two queries, is right for   *)
(* paths that are steady, whatever is committed in between.                *)
LEMMA ReaderStep ==
  ASSUME LikeExact, IInv, IInv', ReaderInv, [Next]_vars
  PROVE  ReaderInv'
<1> USE DEF IInv, ReaderInv
<1>1. SteadyNow'
  BY SteadyStep
<1>2. rpath \in Paths /\ Up[rpath] \subseteq Paths /\ rpath \in Under(rpath)
  BY Tree DEF TypeOK, Under
<1>3. CASE UNCHANGED reading /\ Observe
  <2>1. steady'.on \subseteq steady.on /\ steady'.off \subseteq steady.off
    BY <1>3 DEF Observe, TypeOK
  <2>2. \A p \in Steady' \cap Under(rpath) :
          \A r \in Up[rpath] : override'[r] = override[r]
    BY <1>1, <1>2, <2>1, Frozen, Tree DEF Steady, Under
  <2>3. steady'.on \cap Under(rpath) # {} => (Effective(rpath)' <=> Effective(rpath))
    <3>1. ASSUME NEW p \in steady'.on \cap Under(rpath)
          PROVE  Eff(override', rpath) <=> Eff(override, rpath)
      BY <1>2, <2>2, SameAbove DEF Steady
    <3> QED
      BY <1>3, <3>1 DEF Effective, Eff, reading
  <2>4. Climbed'
    BY <1>3, <2>1, <2>2, <2>3 DEF Climbed, reading, Steady, Under
  <2>5. NoFalseCopy' /\ NoFalseSkip'
    BY <1>3, <2>1 DEF NoFalseCopy, NoFalseSkip, reading, Under
  <2> QED
    BY <1>1, <2>4, <2>5
<1>4. ASSUME NEW p \in Paths, Begin(p) PROVE ReaderInv'
  BY <1>1, <1>4 DEF Begin, Climbed, NoFalseCopy, NoFalseSkip
<1>5. CASE ReadOverride \/ ReadDefault
  <2>1. UNCHANGED <<override, steady, rpath>> /\ rpc = "read" /\ rpc' # "read"
    BY <1>5 DEF ReadOverride, ReadDefault, Found, Decide, readerLeaves, history
  <2>2. \A p \in Steady \cap Under(rpath) :
          Effective(rpath) <=> override[rat] # "none" /\ Includes(override[rat])
    BY <1>5, <2>1, Answer DEF ReadOverride, ReadDefault, Climbed, Includes
  <2>3. Effective(rpath)' <=> Effective(rpath)
    BY <2>1 DEF Effective
  <2>4. Climbed'
    BY <1>5, <2>1, <2>2, <2>3 DEF ReadOverride, ReadDefault, Found, Decide, Climbed,
       Steady, Under
  <2>5. rpath \in Steady => (Effective(rpath) <=> rpath \in steady.on)
    BY <1>2 DEF Steady, SteadyNow, EffectivePaths
  <2>6. rpath \in steady.off => rpath \notin steady.on
    BY DEF SteadyNow
  <2>7. NoFalseCopy' /\ NoFalseSkip'
    BY <1>2, <1>5, <2>1, <2>2, <2>5, <2>6, FileUnder DEF ReadOverride, ReadDefault, Found,
       Decide, NoFalseCopy, NoFalseSkip, Steady, Under
  <2> QED
    BY <1>1, <2>4, <2>7
<1>6. CASE ReadUp
  <2>1. rat \in Paths \ {Root}
    BY <1>6, Tree DEF ReadUp, Ends, TypeOK
  <2>2. Up[rat] = Up[In[rat]] \cup {rat}
    BY <2>1, UpAssumption
  <2>3. Climbed'
    BY <1>6, <2>2 DEF ReadUp, Climbed, readerLeaves, history, Steady, Under
  <2> QED
    BY <1>1, <1>6, <2>3 DEF ReadUp, NoFalseCopy, NoFalseSkip
<1>7. CASE ReadBelow
  <2>1. UNCHANGED <<override, steady, rpath>> /\ rpc = "below" /\ rpc' = "done"
        /\ rpath \in Dirs /\ (answer' <=> HasOverrideUnder(rpath, "include"))
    BY <1>7 DEF ReadBelow, Decide, readerLeaves, history, Climbed
  <2>2. ASSUME ~HasOverrideUnder(rpath, "include"), NEW p \in Under(rpath) \cap steady.on
        PROVE  FALSE
    <3>1. ~Eff(override, rpath)
      BY <1>2, <2>1, Selecting DEF Climbed
    <3>2. \A r \in Below(rpath) : override[r] # "include"
      BY <2>1, <2>2 DEF HasOverrideUnder, LikeExact
    <3>3. ~Eff(override, p)
      BY <1>2, <3>1, <3>2, Uniform DEF TypeOK, Tables
    <3> QED
      BY <3>3, Selecting DEF SteadyNow, EffectivePaths
  <2>3. NoFalseCopy' /\ NoFalseSkip'
    BY <2>1, <2>2 DEF NoFalseCopy, NoFalseSkip, Under
  <2> QED
    BY <1>1, <2>1, <2>3 DEF Climbed
<1>8. CASE Crash
  BY <1>1, <1>8 DEF Crash, Climbed, NoFalseCopy, NoFalseSkip
<1>9. CASE UNCHANGED vars
  <2>1. UNCHANGED <<override, rpc, rpath, rat, answer, steady>>
    BY <1>9 DEF vars, reading, history
  <2> QED
    BY <1>1, <2>1 DEF Climbed, NoFalseCopy, NoFalseSkip, Steady, Under, Effective
<1> QED
  BY <1>3, <1>4, <1>5, <1>6, <1>7, <1>8, <1>9 DEF Next, ToggleFile, ToggleDir, SetDir

LEMMA ReaderInvariance == ASSUME LikeExact PROVE Spec => []ReaderInv
<1>1. Init => ReaderInv
  BY DEF Init, ReaderInv, SteadyNow, Climbed, NoFalseCopy, NoFalseSkip, Nothing
<1>2. IInv /\ IInv' /\ ReaderInv /\ [Next]_vars => ReaderInv'
  BY ReaderStep
<1> QED
  BY <1>1, <1>2, Invariance, PTL DEF Spec

(* A file that has been unselected ever since the reader asked is not      *)
(* copied, whatever is toggled while it climbs (selection.py:29-39,        *)
(* copier.py:124).                                                         *)
THEOREM FalseCopyTheorem == ASSUME LikeExact PROVE Spec => []NoFalseCopy
<1>1. ReaderInv => NoFalseCopy
  BY DEF ReaderInv
<1> QED
  BY <1>1, ReaderInvariance, PTL

(* Nothing that has been selected ever since is passed over, neither on    *)
(* one answer nor on the two for a directory (copier.py:104-110).          *)
THEOREM FalseSkipTheorem == ASSUME LikeExact PROVE Spec => []NoFalseSkip
<1>1. ReaderInv => NoFalseSkip
  BY DEF ReaderInv
<1> QED
  BY <1>1, ReaderInvariance, PTL
===============================================================================
