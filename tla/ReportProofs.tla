---------------------------- MODULE ReportProofs ----------------------------
(***************************************************************************)
(* Theorems about Report, for any files and any number of passes, retries, *)
(* deaths and dumps: its types, SuccessToldWithCopy and StubCurrent.       *)
(*                                                                         *)
(* An entry is made in two reads, or three, and steps of the copy thread   *)
(* fall between them.  What saves it is that a row becomes a success only  *)
(* after the copy is there (Backed), so that the second read finds what    *)
(* the first one promised (StubInHand, EntryInHand).                       *)
(***************************************************************************)
EXTENDS Report, TLAPS

(* A success has a copy, and so has what is about to become one.           *)
Backed ==
  /\ \A f \in Files : row[f] = "success" => f \in copied
  /\ ppc = "copied" => file \in copied
  /\ ppc \notin {"idle", "walk"} => row[file] # "none"

(* The stub that is being made tells of the row, unless "r" came between.  *)
StubInHand ==
  ppc = "write" =>
    /\ data \in Entry
    /\ data.status = "success" => file \in copied
    /\ file \notin behind => data.status = row[file]

(* So does the entry of the dump, of a row that may be older.              *)
EntryInHand ==
  /\ dpc = "exists" =>
       entry \in Entry /\ (entry.status = "success" => dfile \in copied)
  /\ dpc = "selection" =>
       entry \in Entry /\ (entry.status = "success" => entry.exists)

Honest(e) == e.status = "success" => e.exists

AllHonest == \A f \in Files : Honest(stub[f]) /\ Honest(dump[f])

-------------------------------------------------------------------------------
(* The entries                                                             *)

(* The first read of an entry                                              *)
LEMMA BegunEntry ==
  ASSUME TypeOK, NEW f \in Files
  PROVE  /\ Begun(f) \in Entry
         /\ row[f] # "none" => Begun(f).status = row[f]
         /\ Begun(f).status = "success" => row[f] = "success"
BY DEF TypeOK, Begun, Entry, StatusOf, Status

(* ... and the second, which changes no status.                            *)
LEMMA LocatedEntry ==
  ASSUME NEW e \in Entry, NEW f
  PROVE  /\ Located(e, f) \in Entry
         /\ Located(e, f).status = e.status
         /\ Located(e, f).exists <=> f \in copied
<1>1. (f \in copied) \in BOOLEAN
  OBVIOUS
<1>2. ASSUME NEW b \in BOOLEAN
      PROVE  LET new == [e EXCEPT !.exists = b]
             IN  new \in Entry /\ new.status = e.status
  BY DEF Entry
<1>3. ASSUME NEW b \in BOOLEAN PROVE [e EXCEPT !.exists = b].exists = b
  BY DEF Entry
<1>4. Located(e, f) = [e EXCEPT !.exists = f \in copied]
  BY Zenon DEF Located
<1> QED
  BY <1>1, <1>2, <1>3, <1>4, Zenon

(* What _finalize_selection_status makes of it is no success that it was   *)
(* not before (report.py:129-138).                                         *)
LEMMA FinalizedEntry ==
  ASSUME NEW e \in Entry, NEW f
  PROVE  /\ Finalized(e, f \in selected) \in Entry
         /\ Finalized(e, f \in selected).exists = e.exists
         /\ Finalized(e, f \in selected).status = "success"
              => e.status = "success"
<1>1. (f \in selected) \in BOOLEAN
  OBVIOUS
<1>2. ASSUME NEW on \in BOOLEAN
      PROVE  Finalized(e, on) \in Entry /\ Finalized(e, on).exists = e.exists
  BY DEF Finalized, Entry, Status
<1>3. ASSUME NEW on \in BOOLEAN
      PROVE  Finalized(e, on).status = "success" => e.status = "success"
  BY DEF Finalized, Entry, Status
<1> QED
  BY <1>1, <1>2, <1>3, Zenon

(* Absent and Torn are no entries, and tell of no success.                 *)
LEMMA NoEntry == Absent.status # "success" /\ Torn.status # "success"
BY DEF Absent, Torn

-------------------------------------------------------------------------------
(* The steps                                                               *)

(* The types                                                               *)
LEMMA TypeStep ==
  TypeOK /\ StubInHand /\ EntryInHand /\ [Next]_vars => TypeOK'
<1> SUFFICES ASSUME TypeOK, StubInHand, EntryInHand, [Next]_vars
             PROVE  TypeOK'
  OBVIOUS
<1> USE DEF TypeOK, table, pass, dumping, dumpLeaves, writeLeaves,
        outcomeLeaves, Status
<1>1. CASE StartPass
  <2>1. used' \in [passes : 0..MaxPasses, retries : 0..MaxRetries,
                 crashes : 0..MaxCrashes, dumps : 0..MaxDumps]
    BY <1>1, BoundsAssumption DEF StartPass, Spend
  <2> QED
    BY <1>1, <2>1 DEF StartPass
<1>2. CASE EndPass
  BY <1>2 DEF EndPass
<1>3. ASSUME NEW f \in Files, Known(f) PROVE TypeOK'
  BY <1>3 DEF Known, Visit
<1>4. ASSUME NEW f \in Files, Direct(f) PROVE TypeOK'
  BY <1>4 DEF Direct, Visit, SetRow
<1>5. ASSUME NEW f \in Files, Begin(f) PROVE TypeOK'
  BY <1>5 DEF Begin, Visit, SetRow
<1>6. ASSUME NEW f \in Files, Toggle(f) PROVE TypeOK'
  BY <1>6 DEF Toggle
<1>7. ASSUME NEW f \in Files, DumpRow(f) PROVE TypeOK'
  BY <1>7, BegunEntry DEF DumpRow
<1>8. CASE Publish
  BY <1>8 DEF Publish
<1>9. CASE Succeed
  BY <1>9 DEF Succeed, SetRow
<1>10. CASE Fail
  BY <1>10 DEF Fail, Unfinished, SetRow
<1>11. CASE Raise
  BY <1>11 DEF Raise
<1>12. CASE RecordFile
  BY <1>12, BegunEntry DEF RecordFile
<1>13. CASE WriteStub
  BY <1>13, LocatedEntry DEF WriteStub, StubInHand
<1>14. CASE StubFails
  BY <1>14 DEF StubFails
<1>15. CASE Crash
  <2>1. used' \in [passes : 0..MaxPasses, retries : 0..MaxRetries,
                 crashes : 0..MaxCrashes, dumps : 0..MaxDumps]
    BY <1>15, BoundsAssumption DEF Crash, Spend
  <2> QED
    BY <1>15, <2>1 DEF Crash
<1>16. CASE Retry
  <2>1. used' \in [passes : 0..MaxPasses, retries : 0..MaxRetries,
                 crashes : 0..MaxCrashes, dumps : 0..MaxDumps]
    BY <1>16, BoundsAssumption DEF Retry, Spend
  <2> QED
    BY <1>16, <2>1 DEF Retry
<1>17. CASE StartDump
  <2>1. used' \in [passes : 0..MaxPasses, retries : 0..MaxRetries,
                 crashes : 0..MaxCrashes, dumps : 0..MaxDumps]
    BY <1>17, BoundsAssumption DEF StartDump, Spend
  <2> QED
    BY <1>17, <2>1 DEF StartDump
<1>18. CASE DumpExists
  BY <1>18, LocatedEntry DEF DumpExists, EntryInHand
<1>19. CASE DumpSelection
  BY <1>19, FinalizedEntry DEF DumpSelection, EntryInHand
<1>20. CASE UNCHANGED vars
  BY <1>20 DEF vars
<1> QED
  BY <1>1, <1>2, <1>3, <1>4, <1>5, <1>6, <1>7, <1>8, <1>9, <1>10, <1>11,
     <1>12, <1>13, <1>14, <1>15, <1>16, <1>17, <1>18, <1>19, <1>20 DEF Next

(* A row becomes a success when the copy is there, and no copy goes away   *)
(* (copier.py:228-233).                                                    *)
LEMMA BackedStep ==
  TypeOK /\ Backed /\ [Next]_vars => Backed'
<1> SUFFICES ASSUME TypeOK, Backed, [Next]_vars
             PROVE  Backed'
  OBVIOUS
<1> USE DEF TypeOK, Backed, table, pass, dumping, dumpLeaves, writeLeaves,
        outcomeLeaves, Status
<1>1. CASE StartPass
  BY <1>1 DEF StartPass, Spend
<1>2. CASE EndPass
  BY <1>2 DEF EndPass
<1>3. ASSUME NEW f \in Files, Known(f) PROVE Backed'
  BY <1>3 DEF Known, Visit
<1>4. ASSUME NEW f \in Files, Direct(f) PROVE Backed'
  BY <1>4 DEF Direct, Visit, SetRow
<1>5. ASSUME NEW f \in Files, Begin(f) PROVE Backed'
  BY <1>5 DEF Begin, Visit, SetRow
<1>6. ASSUME NEW f \in Files, Toggle(f) PROVE Backed'
  BY <1>6 DEF Toggle
<1>7. ASSUME NEW f \in Files, DumpRow(f) PROVE Backed'
  BY <1>7 DEF DumpRow
<1>8. CASE Publish
  BY <1>8 DEF Publish
<1>9. CASE Succeed
  BY <1>9 DEF Succeed, SetRow
<1>10. CASE Fail
  BY <1>10 DEF Fail, Unfinished, SetRow
<1>11. CASE Raise
  BY <1>11 DEF Raise
<1>12. CASE RecordFile
  BY <1>12 DEF RecordFile
<1>13. CASE WriteStub
  BY <1>13 DEF WriteStub
<1>14. CASE StubFails
  BY <1>14 DEF StubFails
<1>15. CASE Crash
  BY <1>15 DEF Crash, Spend
<1>16. CASE Retry
  BY <1>16 DEF Retry, Spend
<1>17. CASE StartDump
  BY <1>17 DEF StartDump, Spend
<1>18. CASE DumpExists
  BY <1>18 DEF DumpExists
<1>19. CASE DumpSelection
  BY <1>19 DEF DumpSelection
<1>20. CASE UNCHANGED vars
  BY <1>20 DEF vars
<1> QED
  BY <1>1, <1>2, <1>3, <1>4, <1>5, <1>6, <1>7, <1>8, <1>9, <1>10, <1>11,
     <1>12, <1>13, <1>14, <1>15, <1>16, <1>17, <1>18, <1>19, <1>20 DEF Next

(* The row of the file in hand is looked at after the last commit for it   *)
(* (copier.py:136-151, 234).                                               *)
LEMMA StubInHandStep ==
  TypeOK /\ Backed /\ StubInHand /\ [Next]_vars => StubInHand'
<1> SUFFICES ASSUME TypeOK, Backed, StubInHand, [Next]_vars
             PROVE  StubInHand'
  OBVIOUS
<1> USE DEF TypeOK, Backed, StubInHand, table, pass, dumping, dumpLeaves,
        writeLeaves, outcomeLeaves, Status
<1>1. CASE StartPass
  BY <1>1 DEF StartPass, Spend
<1>2. CASE EndPass
  BY <1>2 DEF EndPass
<1>3. ASSUME NEW f \in Files, Known(f) PROVE StubInHand'
  BY <1>3 DEF Known, Visit
<1>4. ASSUME NEW f \in Files, Direct(f) PROVE StubInHand'
  BY <1>4 DEF Direct, Visit, SetRow
<1>5. ASSUME NEW f \in Files, Begin(f) PROVE StubInHand'
  BY <1>5 DEF Begin, Visit, SetRow
<1>6. ASSUME NEW f \in Files, Toggle(f) PROVE StubInHand'
  BY <1>6 DEF Toggle
<1>7. ASSUME NEW f \in Files, DumpRow(f) PROVE StubInHand'
  BY <1>7 DEF DumpRow
<1>8. CASE Publish
  BY <1>8 DEF Publish
<1>9. CASE Succeed
  BY <1>9 DEF Succeed, SetRow
<1>10. CASE Fail
  BY <1>10 DEF Fail, Unfinished, SetRow
<1>11. CASE Raise
  BY <1>11 DEF Raise
<1>12. CASE RecordFile
  BY <1>12, BegunEntry DEF RecordFile
<1>13. CASE WriteStub
  BY <1>13 DEF WriteStub
<1>14. CASE StubFails
  BY <1>14 DEF StubFails
<1>15. CASE Crash
  BY <1>15 DEF Crash, Spend
<1>16. CASE Retry
  BY <1>16 DEF Retry, Spend
<1>17. CASE StartDump
  BY <1>17 DEF StartDump, Spend
<1>18. CASE DumpExists
  BY <1>18 DEF DumpExists
<1>19. CASE DumpSelection
  BY <1>19 DEF DumpSelection
<1>20. CASE UNCHANGED vars
  BY <1>20 DEF vars
<1> QED
  BY <1>1, <1>2, <1>3, <1>4, <1>5, <1>6, <1>7, <1>8, <1>9, <1>10, <1>11,
     <1>12, <1>13, <1>14, <1>15, <1>16, <1>17, <1>18, <1>19, <1>20 DEF Next

(* Between the reads of the dump copies appear, and none goes away         *)
(* (report.py:54, 68).                                                     *)
LEMMA EntryInHandStep ==
  TypeOK /\ Backed /\ EntryInHand /\ [Next]_vars => EntryInHand'
<1> SUFFICES ASSUME TypeOK, Backed, EntryInHand, [Next]_vars
             PROVE  EntryInHand'
  OBVIOUS
<1> USE DEF TypeOK, Backed, EntryInHand, table, pass, dumping, dumpLeaves,
        writeLeaves, outcomeLeaves, Status
<1>1. CASE StartPass
  BY <1>1 DEF StartPass, Spend
<1>2. CASE EndPass
  BY <1>2 DEF EndPass
<1>3. ASSUME NEW f \in Files, Known(f) PROVE EntryInHand'
  BY <1>3 DEF Known, Visit
<1>4. ASSUME NEW f \in Files, Direct(f) PROVE EntryInHand'
  BY <1>4 DEF Direct, Visit, SetRow
<1>5. ASSUME NEW f \in Files, Begin(f) PROVE EntryInHand'
  BY <1>5 DEF Begin, Visit, SetRow
<1>6. ASSUME NEW f \in Files, Toggle(f) PROVE EntryInHand'
  BY <1>6 DEF Toggle
<1>7. ASSUME NEW f \in Files, DumpRow(f) PROVE EntryInHand'
  BY <1>7, BegunEntry DEF DumpRow
<1>8. CASE Publish
  BY <1>8 DEF Publish
<1>9. CASE Succeed
  BY <1>9 DEF Succeed, SetRow
<1>10. CASE Fail
  BY <1>10 DEF Fail, Unfinished, SetRow
<1>11. CASE Raise
  BY <1>11 DEF Raise
<1>12. CASE RecordFile
  BY <1>12 DEF RecordFile
<1>13. CASE WriteStub
  BY <1>13 DEF WriteStub
<1>14. CASE StubFails
  BY <1>14 DEF StubFails
<1>15. CASE Crash
  BY <1>15 DEF Crash, Spend
<1>16. CASE Retry
  BY <1>16 DEF Retry, Spend
<1>17. CASE StartDump
  BY <1>17 DEF StartDump, Spend
<1>18. CASE DumpExists
  BY <1>18, LocatedEntry DEF DumpExists
<1>19. CASE DumpSelection
  BY <1>19 DEF DumpSelection
<1>20. CASE UNCHANGED vars
  BY <1>20 DEF vars
<1> QED
  BY <1>1, <1>2, <1>3, <1>4, <1>5, <1>6, <1>7, <1>8, <1>9, <1>10, <1>11,
     <1>12, <1>13, <1>14, <1>15, <1>16, <1>17, <1>18, <1>19, <1>20 DEF Next

(* Each entry that is written is backed by the reads before it.            *)
LEMMA HonestStep ==
  TypeOK /\ StubInHand /\ EntryInHand /\ AllHonest /\ [Next]_vars => AllHonest'
<1> SUFFICES ASSUME TypeOK, StubInHand, EntryInHand, AllHonest, [Next]_vars
             PROVE  AllHonest'
  OBVIOUS
<1> USE NoEntry
    DEF TypeOK, StubInHand, EntryInHand, AllHonest, Honest, table, pass,
        dumping, dumpLeaves, writeLeaves, outcomeLeaves, Status
<1>1. CASE StartPass
  BY <1>1 DEF StartPass, Spend
<1>2. CASE EndPass
  BY <1>2 DEF EndPass
<1>3. ASSUME NEW f \in Files, Known(f) PROVE AllHonest'
  BY <1>3 DEF Known, Visit
<1>4. ASSUME NEW f \in Files, Direct(f) PROVE AllHonest'
  BY <1>4 DEF Direct, Visit, SetRow
<1>5. ASSUME NEW f \in Files, Begin(f) PROVE AllHonest'
  BY <1>5 DEF Begin, Visit, SetRow
<1>6. ASSUME NEW f \in Files, Toggle(f) PROVE AllHonest'
  BY <1>6 DEF Toggle
<1>7. ASSUME NEW f \in Files, DumpRow(f) PROVE AllHonest'
  BY <1>7 DEF DumpRow
<1>8. CASE Publish
  BY <1>8 DEF Publish
<1>9. CASE Succeed
  BY <1>9 DEF Succeed, SetRow
<1>10. CASE Fail
  BY <1>10 DEF Fail, Unfinished, SetRow
<1>11. CASE Raise
  BY <1>11 DEF Raise
<1>12. CASE RecordFile
  BY <1>12 DEF RecordFile
<1>13. CASE WriteStub
  BY <1>13, LocatedEntry DEF WriteStub
<1>14. CASE StubFails
  BY <1>14 DEF StubFails
<1>15. CASE Crash
  BY <1>15 DEF Crash, Spend
<1>16. CASE Retry
  BY <1>16 DEF Retry, Spend
<1>17. CASE StartDump
  BY <1>17 DEF StartDump, Spend
<1>18. CASE DumpExists
  BY <1>18 DEF DumpExists
<1>19. CASE DumpSelection
  BY <1>19, FinalizedEntry DEF DumpSelection
<1>20. CASE UNCHANGED vars
  BY <1>20 DEF vars
<1> QED
  BY <1>1, <1>2, <1>3, <1>4, <1>5, <1>6, <1>7, <1>8, <1>9, <1>10, <1>11,
     <1>12, <1>13, <1>14, <1>15, <1>16, <1>17, <1>18, <1>19, <1>20 DEF Next

(* Whatever changes a row has its file in hand, or leaves it behind.       *)
LEMMA StubStep ==
  TypeOK /\ Backed /\ StubInHand /\ StubCurrent /\ [Next]_vars => StubCurrent'
<1> SUFFICES ASSUME TypeOK, Backed, StubInHand, StubCurrent, [Next]_vars
             PROVE  StubCurrent'
  OBVIOUS
<1> USE DEF TypeOK, Backed, StubInHand, StubCurrent, InHand, table, pass,
        dumping, dumpLeaves, writeLeaves, outcomeLeaves, Status
<1>1. CASE StartPass
  BY <1>1 DEF StartPass, Spend
<1>2. CASE EndPass
  BY <1>2 DEF EndPass
<1>3. ASSUME NEW f \in Files, Known(f) PROVE StubCurrent'
  BY <1>3 DEF Known, Visit
<1>4. ASSUME NEW f \in Files, Direct(f) PROVE StubCurrent'
  BY <1>4 DEF Direct, Visit, SetRow
<1>5. ASSUME NEW f \in Files, Begin(f) PROVE StubCurrent'
  BY <1>5 DEF Begin, Visit, SetRow
<1>6. ASSUME NEW f \in Files, Toggle(f) PROVE StubCurrent'
  BY <1>6 DEF Toggle
<1>7. ASSUME NEW f \in Files, DumpRow(f) PROVE StubCurrent'
  BY <1>7 DEF DumpRow
<1>8. CASE Publish
  BY <1>8 DEF Publish
<1>9. CASE Succeed
  BY <1>9 DEF Succeed, SetRow
<1>10. CASE Fail
  BY <1>10 DEF Fail, Unfinished, SetRow
<1>11. CASE Raise
  BY <1>11 DEF Raise
<1>12. CASE RecordFile
  BY <1>12 DEF RecordFile
<1>13. CASE WriteStub
  BY <1>13, LocatedEntry DEF WriteStub
<1>14. CASE StubFails
  BY <1>14 DEF StubFails
<1>15. CASE Crash
  BY <1>15 DEF Crash, Spend
<1>16. CASE Retry
  BY <1>16 DEF Retry, Spend
<1>17. CASE StartDump
  BY <1>17 DEF StartDump, Spend
<1>18. CASE DumpExists
  BY <1>18 DEF DumpExists
<1>19. CASE DumpSelection
  BY <1>19 DEF DumpSelection
<1>20. CASE UNCHANGED vars
  BY <1>20 DEF vars
<1> QED
  BY <1>1, <1>2, <1>3, <1>4, <1>5, <1>6, <1>7, <1>8, <1>9, <1>10, <1>11,
     <1>12, <1>13, <1>14, <1>15, <1>16, <1>17, <1>18, <1>19, <1>20 DEF Next

-------------------------------------------------------------------------------
(* The theorems                                                            *)

IInv ==
  TypeOK /\ Backed /\ StubInHand /\ EntryInHand /\ AllHonest /\ StubCurrent

(* Whatever is told, when, and of which row.                               *)
THEOREM Invariance == Spec => []IInv
<1>1. Init => IInv
  <2> SUFFICES ASSUME Init PROVE IInv
    OBVIOUS
  <2>1. TypeOK
    BY BoundsAssumption DEF Init, TypeOK
  <2>2. Backed /\ StubInHand /\ EntryInHand /\ StubCurrent
    BY DEF Init, Backed, StubInHand, EntryInHand, StubCurrent
  <2>3. AllHonest
    BY NoEntry DEF Init, AllHonest, Honest
  <2> QED
    BY <2>1, <2>2, <2>3 DEF IInv
<1>2. IInv /\ [Next]_vars => IInv'
  BY TypeStep, BackedStep, StubInHandStep, EntryInHandStep, HonestStep,
     StubStep DEF IInv
<1> QED
  BY <1>1, <1>2, PTL DEF Spec

(* Rows, stubs, entries and the threads have their types, through deaths   *)
(* at any step (report.py:31-69).                                          *)
THEOREM TypeCorrect == Spec => []TypeOK
<1>1. IInv => TypeOK
  BY DEF IInv
<1> QED
  BY <1>1, Invariance, PTL

(* No stub and no dump tells of a success without a copy, though the row   *)
(* and the file are looked at one after the other while a pass and the     *)
(* keys change both (report.py:54, 68; copier.py:228-233).                 *)
THEOREM ToldTheorem == Spec => []SuccessToldWithCopy
<1>1. IInv => SuccessToldWithCopy
  BY DEF IInv, AllHonest, Honest, SuccessToldWithCopy, Told
<1> QED
  BY <1>1, Invariance, PTL

(* Once a pass has been to a file its stub has the status of the row,      *)
(* unless the disk refused the stub or "r" has changed the row since       *)
(* (copier.py:136-151).                                                    *)
THEOREM StubTheorem == Spec => []StubCurrent
<1>1. IInv => StubCurrent
  BY DEF IInv
<1> QED
  BY <1>1, Invariance, PTL
===============================================================================
