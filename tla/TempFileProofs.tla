---------------------------- MODULE TempFileProofs ----------------------------
(***************************************************************************)
(* Theorems about TempFile, for any files, workers and inodes: its types,  *)
(* and SuccessIsWholeUnlessLate where no file has the temporary name of    *)
(* another (NoTmpName).                                                    *)
(*                                                                         *)
(* Workers of several starts write to one name, to one inode or to inodes  *)
(* that have lost their name.  Owned says that they never meet across      *)
(* files.  For one file, CurrentAlone says that the name is gone or is     *)
(* still that of the file the worker of the running program writes, and    *)
(* Kept, that after a success whatever could be renamed over the copy is   *)
(* written by one worker from its beginning.                               *)
(***************************************************************************)
EXTENDS TempFile, SequenceTheorems, TLAPS

(* No source file is called like another with ".salvage-tmp" appended.     *)
NoTmpName == \A f, g \in Files : Dest[f] # Tmp[g]

NamesOf(f) == {Dest[f], Tmp[f]}

Copying == {w \in Workers : wpc[w] = "copy"}

Control ==
  /\ \A w \in Workers :
       /\ job[w] # None <=> wpc[w] \in {"open", "copy"}
       /\ fd[w] # None <=> wpc[w] = "copy"
       /\ IF wpc[w] = "copy" THEN off[w] <= Size[job[w]] ELSE off[w] = 0
  /\ current # None => /\ Live(current)
                       /\ call = None <=> wpc[current] = "idle"
                       /\ job[current] \in {None, call}
  /\ call # None => current # None /\ row[call] = "in_progress"

(* A file at the destination has one name, and whoever writes to it copies *)
(* the file whose name it is.                                              *)
Owned ==
  /\ \A n, m \in Names : names[n] = names[m] /\ names[n] # None => n = m
  /\ \A w \in Workers : \A n \in Names :
       fd[w] # None /\ names[n] = fd[w] => n \in NamesOf(job[w])
  /\ \A v, w \in Workers : fd[v] = fd[w] /\ fd[v] # None => job[v] = job[w]

(* What w has written is there, and no more than it will write.            *)
Prefixed(w) ==
  LET s == data[fd[w]]
  IN /\ Len(s) \in off[w]..Size[job[w]]
     /\ \A k \in 1..off[w] : s[k] = job[w]

CurrentAlone ==
  current \in Copying /\ job[current] \notin late =>
    names[Tmp[job[current]]] \in {None, fd[current]} /\ Prefixed(current)

Settled(f) ==
  f \notin late /\ (row[f] = "success" \/ (call = f /\ wpc[current] = "done"))

(* w alone writes to the temporary file of f, from its beginning.          *)
Alone(w, f) ==
  /\ fd[w] = names[Tmp[f]] /\ Prefixed(w)
  /\ \A v \in Copying : job[v] = f => v = w

KeptOf(f) ==
  /\ Copied(f)
  /\ names[Tmp[f]] # None => \A w \in Copying : job[w] = f => Alone(w, f)

Kept == \A f \in Files : Settled(f) => KeptOf(f)

-------------------------------------------------------------------------------
(* The content of a file                                                   *)

Content == Seq(Files \cup {Hole})

(* A chunk lands in its place, behind a hole if need be.                   *)
LEMMA WrittenContent ==
  ASSUME NEW s \in Content, NEW k \in Nat, NEW f \in Files
  PROVE  /\ Written(s, k, f) \in Content
         /\ Len(Written(s, k, f)) = IF k < Len(s) THEN Len(s) ELSE k + 1
         /\ Written(s, k, f)[k + 1] = f
         /\ \A n \in 1..Len(s) : n # k + 1 => Written(s, k, f)[n] = s[n]
<1> DEFINE m == IF k < Len(s) THEN Len(s) ELSE k + 1
           At(n) == IF n = k + 1 THEN f ELSE IF n <= Len(s) THEN s[n] ELSE Hole
<1>1. Len(s) \in Nat /\ m \in Nat /\ k + 1 \in 1..m /\ 1..Len(s) \subseteq 1..m
  BY LenProperties DEF Content
<1>2. \A n \in 1..m : At(n) \in Files \cup {Hole}
  <2> SUFFICES ASSUME NEW n \in 1..m, n # k + 1, n <= Len(s)
               PROVE  s[n] \in Files \cup {Hole}
    OBVIOUS
  <2>1. n \in 1..Len(s)
    BY <1>1
  <2> QED
    BY <2>1, ElementOfSeq DEF Content
<1>3. Written(s, k, f) = [n \in 1..m |-> At(n)]
  BY DEF Written
<1> HIDE DEF m
<1>4. [n \in 1..m |-> At(n)] \in [1..m -> Files \cup {Hole}]
  BY <1>2
<1>5. Written(s, k, f) \in Content
  BY <1>1, <1>3, <1>4, SeqDef DEF Content
<1>6. Len(Written(s, k, f)) = m
  BY <1>1, <1>3, <1>5, LenProperties DEF Content
<1>7. \A n \in 1..m : Written(s, k, f)[n] = At(n)
  BY <1>3
<1> QED
  BY <1>1, <1>5, <1>6, <1>7 DEF m

(* A file that has all chunks of f and nothing else is whole.              *)
LEMMA AllIsWhole ==
  ASSUME NEW f \in Files, NEW s \in Content, Len(s) = Size[f],
         \A n \in 1..Size[f] : s[n] = f
  PROVE  s = Whole(f)
<1>1. s \in [1..Size[f] -> Files \cup {Hole}]
  BY LenProperties DEF Content
<1> QED
  BY <1>1 DEF Whole

LEMMA WholeContent ==
  ASSUME NEW f \in Files
  PROVE  /\ Whole(f) \in Content /\ Len(Whole(f)) = Size[f]
         /\ \A n \in 1..Size[f] : Whole(f)[n] = f
<1>1. Size[f] \in Nat
  BY FilesAssumption
<1>2. Whole(f) \in [1..Size[f] -> Files \cup {Hole}]
  BY DEF Whole
<1>3. Whole(f) \in Content
  BY <1>1, <1>2, SeqDef DEF Content
<1> QED
  BY <1>1, <1>2, <1>3, LenProperties DEF Content, Whole

(* Writing a chunk of f once more changes nothing of a whole copy.         *)
LEMMA WrittenAgain ==
  ASSUME NEW f \in Files, NEW k \in Nat, k < Size[f]
  PROVE  Written(Whole(f), k, f) = Whole(f)
<1>1. Size[f] \in Nat /\ k + 1 \in 1..Size[f]
  BY FilesAssumption
<1> DEFINE s == Whole(f)
<1>2. s \in Content /\ Len(s) = Size[f] /\ \A n \in 1..Size[f] : s[n] = f
  BY WholeContent
<1> HIDE DEF s
<1> DEFINE t == Written(s, k, f)
<1>3. /\ t \in Content /\ t[k + 1] = f
      /\ Len(t) = IF k < Len(s) THEN Len(s) ELSE k + 1
      /\ \A n \in 1..Len(s) : n # k + 1 => t[n] = s[n]
  BY <1>2, WrittenContent
<1> HIDE DEF t
<1>4. Len(t) = Size[f] /\ \A n \in 1..Size[f] : t[n] = f
  BY <1>1, <1>2, <1>3
<1>5. t = Whole(f)
  BY <1>3, <1>4, AllIsWhole
<1> QED
  BY <1>5 DEF s, t

-------------------------------------------------------------------------------
(* The steps                                                               *)

LEMMA TypeStep == TypeOK /\ Control /\ [Next]_vars => TypeOK'
<1> SUFFICES ASSUME TypeOK, Control, [Next]_vars PROVE TypeOK'
  OBVIOUS
<1> USE FilesAssumption DEF TypeOK, parent, worker, disk
<1>1. ASSUME NEW w \in Workers, Spawn(w) PROVE TypeOK'
  BY <1>1 DEF Spawn
<1>2. ASSUME NEW f \in Files, Begin(f) PROVE TypeOK'
  BY <1>2 DEF Begin
<1>3. CASE Answer
  BY <1>3 DEF Answer, RowOf
<1>4. CASE GiveUp
  BY <1>4 DEF GiveUp, Ended, Remove
<1>5. CASE Killed
  BY <1>5 DEF Killed
<1>6. ASSUME NEW w \in Workers, Open(w) PROVE TypeOK'
  <2>1. job[w] \in Files
    BY <1>6 DEF Open, Control
  <2>2. PICK i \in Inodes :
          /\ names' = [names EXCEPT ![Tmp[job[w]]] = i]
          /\ data' = [data EXCEPT ![i] = <<>>]
          /\ fd' = [fd EXCEPT ![w] = i]
    BY <1>6 DEF Open
  <2>3. data' \in [Inodes -> Seq(Files \cup {Hole})]
    BY <2>2, EmptySeq
  <2>4. late' \subseteq Files
    BY <1>6, <2>1 DEF Open
  <2> QED
    BY <1>6, <2>2, <2>3, <2>4 DEF Open
<1>7. ASSUME NEW w \in Workers, Chunk(w) PROVE TypeOK'
  <2>1. fd[w] \in Inodes /\ job[w] \in Files /\ off[w] \in Nat
    BY <1>7 DEF Chunk, Control
  <2>2. Written(data[fd[w]], off[w], job[w]) \in Content
    BY <2>1, WrittenContent DEF Content
  <2>3. data' = [data EXCEPT ![fd[w]] = Written(data[fd[w]], off[w], job[w])]
    BY <1>7 DEF Chunk
  <2>4. data' \in [Inodes -> Seq(Files \cup {Hole})]
    BY <2>2, <2>3 DEF Content
  <2> QED
    BY <1>7, <2>1, <2>4 DEF Chunk
<1>8. ASSUME NEW w \in Workers, Replace(w) PROVE TypeOK'
  BY <1>8 DEF Replace, Ended, Control
<1>9. ASSUME NEW w \in Workers, Fails(w) PROVE TypeOK'
  BY <1>9 DEF Fails, Ended, Remove
<1>10. ASSUME NEW w \in Workers, Dies(w) PROVE TypeOK'
  BY <1>10 DEF Dies, Ended
<1>11. CASE UNCHANGED vars
  BY <1>11 DEF vars
<1> QED
  BY <1>1, <1>2, <1>3, <1>4, <1>5, <1>6, <1>7, <1>8, <1>9, <1>10, <1>11 DEF Next

(* What a worker holds follows from where it is.                           *)
LEMMA ControlStep == TypeOK /\ Control /\ [Next]_vars => Control'
<1> SUFFICES ASSUME TypeOK, Control, [Next]_vars PROVE Control'
  OBVIOUS
<1> USE FilesAssumption, NoneAssumption DEF TypeOK, Control, Live, parent, worker, disk
<1>1. ASSUME NEW w \in Workers, Spawn(w) PROVE Control'
  BY <1>1 DEF Spawn
<1>2. ASSUME NEW f \in Files, Begin(f) PROVE Control'
  BY <1>2 DEF Begin
<1>3. CASE Answer
  BY <1>3 DEF Answer, RowOf
<1>4. CASE GiveUp
  BY <1>4 DEF GiveUp, Ended, Remove
<1>5. CASE Killed
  BY <1>5 DEF Killed
<1>6. ASSUME NEW w \in Workers, Open(w) PROVE Control'
  <2>1. job[w] \in Files
    BY <1>6 DEF Open
  <2>2. fd' \in [Workers -> Inodes \cup {None}] /\ fd'[w] \in Inodes
        /\ \A v \in Workers \ {w} : fd'[v] = fd[v]
    BY <1>6 DEF Open
  <2>3. wpc' = [wpc EXCEPT ![w] = "copy"] /\ UNCHANGED <<parent, job, off>>
        /\ wpc[w] = "open"
    BY <1>6 DEF Open
  <2> QED
    BY <2>1, <2>2, <2>3
<1>7. ASSUME NEW w \in Workers, Chunk(w) PROVE Control'
  <2>1. job[w] \in Files /\ off[w] \in Nat /\ off[w] < Size[job[w]]
    BY <1>7 DEF Chunk, AtEof
  <2>2. off' = [off EXCEPT ![w] = @ + 1] /\ UNCHANGED <<parent, wpc, job, fd>>
        /\ wpc[w] = "copy"
    BY <1>7 DEF Chunk
  <2> QED
    BY <2>1, <2>2
<1>8. ASSUME NEW w \in Workers, Replace(w) PROVE Control'
  BY <1>8 DEF Replace, Ended
<1>9. ASSUME NEW w \in Workers, Fails(w) PROVE Control'
  BY <1>9 DEF Fails, Ended, Remove
<1>10. ASSUME NEW w \in Workers, Dies(w) PROVE Control'
  BY <1>10 DEF Dies, Ended
<1>11. CASE UNCHANGED vars
  BY <1>11 DEF vars
<1> QED
  BY <1>1, <1>2, <1>3, <1>4, <1>5, <1>6, <1>7, <1>8, <1>9, <1>10, <1>11 DEF Next

(* A file that is opened has no other name than the temporary one, and is  *)
(* open for no other copy.                                                 *)
LEMMA Opening ==
  ASSUME TypeOK, Control, Owned, NoTmpName, NEW w \in Workers, Open(w)
  PROVE  /\ job[w] \in Files /\ wpc[w] = "open" /\ off[w] = 0 /\ fd[w] = None
         /\ wpc' = [wpc EXCEPT ![w] = "copy"]
         /\ UNCHANGED <<row, call, current, job, off>>
         /\ late \subseteq late'
         /\ \A v \in Workers \ {w} :
              w # current /\ fd[v] # None /\ job[v] = job[w] => job[w] \in late'
         /\ \E i \in Inodes :
              /\ names' = [names EXCEPT ![Tmp[job[w]]] = i]
              /\ data' = [data EXCEPT ![i] = <<>>]
              /\ fd' = [fd EXCEPT ![w] = i]
              /\ \A n \in Names : names[n] = i => n = Tmp[job[w]]
              /\ \A v \in Workers : fd[v] = i => job[v] = job[w]
<1> USE FilesAssumption, NoneAssumption
    DEF TypeOK, Control, Owned, NamesOf, NoTmpName, parent
<1>1. job[w] \in Files /\ wpc[w] = "open" /\ off[w] = 0 /\ fd[w] = None
  BY DEF Open
<1>2. /\ wpc' = [wpc EXCEPT ![w] = "copy"]
      /\ UNCHANGED <<row, call, current, job, off>>
  BY DEF Open
<1>3. /\ late \subseteq late'
      /\ \A v \in Workers \ {w} :
           w # current /\ fd[v] # None /\ job[v] = job[w] => job[w] \in late'
  BY <1>1 DEF Open
<1>4. PICK i \in Inodes :
        /\ IF names[Tmp[job[w]]] # None THEN i = names[Tmp[job[w]]] ELSE i \notin Held
        /\ names' = [names EXCEPT ![Tmp[job[w]]] = i]
        /\ data' = [data EXCEPT ![i] = <<>>]
        /\ fd' = [fd EXCEPT ![w] = i]
  BY DEF Open
<1>5. Tmp[job[w]] \in Names
  BY <1>1
<1>6. \A n \in Names : names[n] = i => n = Tmp[job[w]]
  BY <1>4, <1>5 DEF Held
<1>7. \A v \in Workers : fd[v] = i => job[v] = job[w]
  BY <1>1, <1>4, <1>5 DEF Held
<1> QED
  BY <1>1, <1>2, <1>3, <1>4, <1>6, <1>7

(* Names and open files meet within one source file only.                  *)
LEMMA OwnedStep ==
  NoTmpName /\ TypeOK /\ Control /\ Owned /\ [Next]_vars => Owned'
<1> SUFFICES ASSUME NoTmpName, TypeOK, Control, Owned, [Next]_vars PROVE Owned'
  OBVIOUS
<1> USE FilesAssumption, NoneAssumption
    DEF TypeOK, Control, Owned, NamesOf, NoTmpName, parent, worker, disk
<1>1. ASSUME NEW w \in Workers, Spawn(w) PROVE Owned'
  BY <1>1 DEF Spawn
<1>2. ASSUME NEW f \in Files, Begin(f) PROVE Owned'
  <2>1. fd[current] = None
    BY <1>2 DEF Begin
  <2> QED
    BY <1>2, <2>1 DEF Begin
<1>3. CASE Answer
  BY <1>3 DEF Answer
<1>4. CASE GiveUp
  BY <1>4 DEF GiveUp, Ended, Remove
<1>5. CASE Killed
  BY <1>5 DEF Killed
<1>6. ASSUME NEW w \in Workers, Open(w) PROVE Owned'
  <2>1. job[w] \in Files /\ UNCHANGED job
    BY <1>6, Opening
  <2>2. PICK i \in Inodes :
          /\ names' = [names EXCEPT ![Tmp[job[w]]] = i]
          /\ fd' = [fd EXCEPT ![w] = i]
          /\ \A n \in Names : names[n] = i => n = Tmp[job[w]]
          /\ \A v \in Workers : fd[v] = i => job[v] = job[w]
    BY <1>6, Opening
  <2>3. \A n, m \in Names : names'[n] = names'[m] /\ names'[n] # None => n = m
    BY <2>1, <2>2
  <2>4. \A v \in Workers : \A n \in Names :
          fd'[v] # None /\ names'[n] = fd'[v] => n \in NamesOf(job[v])
    BY <2>1, <2>2
  <2>5. \A u, v \in Workers : fd'[u] = fd'[v] /\ fd'[u] # None => job[u] = job[v]
    BY <2>1, <2>2
  <2> QED
    BY <2>1, <2>3, <2>4, <2>5
<1>7. ASSUME NEW w \in Workers, Chunk(w) PROVE Owned'
  BY <1>7 DEF Chunk
<1>8. ASSUME NEW w \in Workers, Replace(w) PROVE Owned'
  <2> DEFINE f == job[w]
  <2>1. f \in Files /\ Dest[f] \in Names /\ Tmp[f] \in Names
    BY <1>8 DEF Replace
  <2>2. names' = [names EXCEPT ![Dest[f]] = names[Tmp[f]], ![Tmp[f]] = None]
        /\ names[Tmp[f]] # None
    BY <1>8 DEF Replace
  <2>3. fd' = [fd EXCEPT ![w] = None] /\ job' = [job EXCEPT ![w] = None]
    BY <1>8 DEF Replace, Ended
  <2>4. \A v \in Workers : fd[v] = names[Tmp[f]] => job[v] = f
    BY <2>1, <2>2
  <2> HIDE DEF f
  <2>5. \A n, m \in Names : names'[n] = names'[m] /\ names'[n] # None => n = m
    BY <2>1, <2>2
  <2>6. \A v \in Workers : \A n \in Names :
          fd'[v] # None /\ names'[n] = fd'[v] => n \in NamesOf(job'[v])
    BY <2>1, <2>2, <2>3, <2>4
  <2>7. \A u, v \in Workers : fd'[u] = fd'[v] /\ fd'[u] # None => job'[u] = job'[v]
    BY <2>3
  <2> QED
    BY <2>5, <2>6, <2>7
<1>9. ASSUME NEW w \in Workers, Fails(w) PROVE Owned'
  BY <1>9 DEF Fails, Ended, Remove
<1>10. ASSUME NEW w \in Workers, Dies(w) PROVE Owned'
  BY <1>10 DEF Dies, Ended
<1>11. CASE UNCHANGED vars
  BY <1>11 DEF vars
<1> QED
  BY <1>1, <1>2, <1>3, <1>4, <1>5, <1>6, <1>7, <1>8, <1>9, <1>10, <1>11 DEF Next

(* What opening, writing and the rest do to what a worker has written.     *)
LEMMA OpenPrefixed ==
  ASSUME TypeOK, Control, Owned, NoTmpName, NEW w \in Workers, Open(w)
  PROVE  /\ Prefixed(w)'
         /\ \A v \in Copying : job[v] # job[w] /\ Prefixed(v) => Prefixed(v)'
<1>1. PICK i \in Inodes :
        /\ data' = [data EXCEPT ![i] = <<>>]
        /\ fd' = [fd EXCEPT ![w] = i]
        /\ \A v \in Workers : fd[v] = i => job[v] = job[w]
  BY Opening
<1>2. job[w] \in Files /\ off[w] = 0 /\ job' = job /\ off' = off
  BY Opening
<1>3. Prefixed(w)'
  <2>1. data'[fd'[w]] = <<>> /\ Len(<<>>) = 0 /\ Size[job[w]] \in Nat
    BY <1>1, <1>2, EmptySeq, FilesAssumption DEF TypeOK
  <2> QED
    BY <1>2, <2>1 DEF Prefixed
<1>4. ASSUME NEW v \in Copying, job[v] # job[w], Prefixed(v)
      PROVE  Prefixed(v)'
  <2>1. fd'[v] = fd[v] /\ data'[fd[v]] = data[fd[v]]
    BY <1>1, <1>4 DEF Copying, TypeOK, Control
  <2> QED
    BY <1>2, <1>4, <2>1 DEF Prefixed
<1> QED
  BY <1>3, <1>4

LEMMA ChunkPrefixed ==
  ASSUME TypeOK, Control, Owned, NEW w \in Workers, Chunk(w),
         NEW v \in Copying, Prefixed(v)
  PROVE  Prefixed(v)'
<1> DEFINE s == data[fd[v]]
           t == Written(data[fd[w]], off[w], job[w])
           f == job[v]
<1>1. /\ job[w] \in Files /\ off[w] \in Nat /\ fd[w] \in Inodes
      /\ off[w] < Size[job[w]]
  BY FilesAssumption, NoneAssumption DEF Chunk, AtEof, TypeOK, Control
<1>2. /\ f \in Files /\ off[v] \in Nat /\ fd[v] \in Inodes /\ Size[f] \in Nat
  BY FilesAssumption, NoneAssumption DEF Copying, TypeOK, Control
<1>3. /\ data' = [data EXCEPT ![fd[w]] = t]
      /\ off' = [off EXCEPT ![w] = off[w] + 1] /\ fd' = fd /\ job' = job
  BY DEF Chunk
<1>4. CASE fd[v] # fd[w]
  <2>1. data'[fd[v]] = s /\ off'[v] = off[v]
    BY <1>2, <1>3, <1>4 DEF Copying, TypeOK
  <2> QED
    BY <1>3, <2>1 DEF Prefixed
<1>5. CASE fd[v] = fd[w]
  <2>1. job[w] = f /\ s \in Content
    BY <1>1, <1>2, <1>5, NoneAssumption DEF Owned, Copying, TypeOK, Content
  <2>2. data'[fd'[v]] = t
    BY <1>2, <1>3, <1>5 DEF TypeOK
  <2>3. /\ Len(t) = IF off[w] < Len(s) THEN Len(s) ELSE off[w] + 1
        /\ t[off[w] + 1] = f
        /\ \A n \in 1..Len(s) : n # off[w] + 1 => t[n] = s[n]
    BY <1>1, <1>2, <1>5, <2>1, WrittenContent
  <2>4. Len(s) \in off[v]..Size[f] /\ \A k \in 1..off[v] : s[k] = f
    BY DEF Prefixed
  <2>5. off'[v] = IF v = w THEN off[w] + 1 ELSE off[v]
    BY <1>3 DEF Copying, TypeOK
  <2> HIDE DEF s, t, f
  <2>6. Len(s) \in Nat /\ Len(s) <= Size[f] /\ off[v] <= Len(s)
    BY <1>2, <2>1, <2>4, LenProperties DEF Content
  <2>7. Len(t) \in off'[v]..Size[f]
    BY <1>1, <1>2, <2>1, <2>3, <2>5, <2>6
  <2>8. ASSUME NEW k \in 1..off'[v] PROVE t[k] = f
    <3>1. CASE k = off[w] + 1
      BY <2>3, <3>1
    <3>2. CASE k # off[w] + 1
      BY <1>1, <1>2, <2>3, <2>4, <2>5, <2>6, <3>2
    <3> QED
      BY <3>1, <3>2
  <2> QED
    BY <1>3, <2>2, <2>7, <2>8 DEF Prefixed, f
<1> QED
  BY <1>4, <1>5

(* At the end of its file a worker has written all of it.                  *)
LEMMA EofWhole ==
  ASSUME TypeOK, Control, NEW w \in Copying, Prefixed(w), AtEof(w)
  PROVE  data[fd[w]] = Whole(job[w])
<1>1. job[w] \in Files /\ fd[w] \in Inodes /\ Size[job[w]] \in Nat
  BY FilesAssumption, NoneAssumption DEF Copying, TypeOK, Control
<1>2. data[fd[w]] \in Content
  BY <1>1 DEF TypeOK, Content
<1>3. /\ Len(data[fd[w]]) = Size[job[w]]
      /\ \A n \in 1..Size[job[w]] : data[fd[w]][n] = job[w]
  BY <1>1, <1>2, LenProperties DEF Prefixed, AtEof, Content
<1> QED
  BY <1>1, <1>2, <1>3, AllIsWhole

(* Nobody but a late orphan touches the file that the current worker       *)
(* writes, apart from its name.                                            *)
LEMMA CurrentStep ==
  NoTmpName /\ TypeOK /\ Control /\ Owned /\ CurrentAlone /\ [Next]_vars
    => CurrentAlone'
<1> SUFFICES ASSUME NoTmpName, TypeOK, Control, Owned, CurrentAlone, [Next]_vars,
                    (current \in Copying /\ job[current] \notin late)'
             PROVE  (/\ names[Tmp[job[current]]] \in {None, fd[current]}
                     /\ Prefixed(current))'
  BY DEF CurrentAlone
<1> DEFINE Goal == (/\ names[Tmp[job[current]]] \in {None, fd[current]}
                    /\ Prefixed(current))'
<1> USE FilesAssumption, NoneAssumption DEF parent, worker, disk
<1>1. ASSUME NEW w \in Workers, Spawn(w) PROVE Goal
  BY <1>1 DEF Spawn, Copying, TypeOK
<1>2. ASSUME NEW f \in Files, Begin(f) PROVE Goal
  BY <1>2 DEF Begin, Copying, TypeOK
<1>3. CASE Answer
  BY <1>3 DEF Answer, Copying, TypeOK
<1>4. CASE GiveUp \/ Killed
  BY <1>4 DEF GiveUp, Killed, Copying
<1>5. ASSUME NEW w \in Workers, Open(w) PROVE Goal
  <2>1. PICK i \in Inodes :
          /\ names' = [names EXCEPT ![Tmp[job[w]]] = i]
          /\ fd' = [fd EXCEPT ![w] = i]
          /\ \A n \in Names : names[n] = i => n = Tmp[job[w]]
    BY <1>5, Opening
  <2>2. /\ job[w] \in Files /\ wpc' = [wpc EXCEPT ![w] = "copy"]
        /\ UNCHANGED <<current, job>> /\ late \subseteq late'
        /\ \A v \in Workers \ {w} :
              w # current /\ fd[v] # None /\ job[v] = job[w] => job[w] \in late'
    BY <1>5, Opening
  <2>3. /\ Prefixed(w)'
        /\ \A v \in Copying : job[v] # job[w] /\ Prefixed(v) => Prefixed(v)'
    BY <1>5, OpenPrefixed
  <2>4. CASE w = current
    <3>1. \A v \in Workers : v = current' => Prefixed(v)'
      BY <2>2, <2>3, <2>4
    <3>2. names'[Tmp[job'[current']]] = fd'[current']
      BY <2>1, <2>2, <2>4 DEF TypeOK
    <3> QED
      BY <2>2, <2>4, <3>1, <3>2 DEF Prefixed
  <2>5. CASE w # current
    <3>1. current \in Copying /\ job[current] \in Files \ late
      BY <2>2, <2>5 DEF Copying, TypeOK, Control
    <3>2. job[current] # job[w]
      BY <2>2, <2>5, <3>1 DEF Copying, Control, TypeOK
    <3>3. Prefixed(current) /\ names[Tmp[job[current]]] \in {None, fd[current]}
      BY <3>1 DEF CurrentAlone
    <3>4. \A v \in Workers : v = current' => Prefixed(v)'
      BY <2>2, <2>3, <3>1, <3>2, <3>3
    <3>5. /\ names'[Tmp[job[current]]] = names[Tmp[job[current]]]
          /\ fd'[current] = fd[current]
      BY <2>1, <2>2, <2>5, <3>1, <3>2 DEF TypeOK, Copying
    <3> QED
      BY <2>2, <3>1, <3>3, <3>4, <3>5 DEF Prefixed, Copying
  <2> QED
    BY <2>4, <2>5
<1>6. ASSUME NEW w \in Workers, Chunk(w) PROVE Goal
  <2>1. UNCHANGED <<current, wpc, job, fd, names, late>>
    BY <1>6 DEF Chunk
  <2>2. \A v \in Copying : Prefixed(v) => Prefixed(v)'
    BY <1>6, ChunkPrefixed
  <2>3. \A v \in Workers : v = current' => Prefixed(v)'
    BY <2>1, <2>2 DEF CurrentAlone, Copying
  <2> QED
    BY <2>1, <2>3 DEF CurrentAlone, Prefixed, Copying
<1>7. ASSUME NEW w \in Workers, Replace(w) \/ Fails(w) \/ Dies(w) PROVE Goal
  <2>1. w # current /\ UNCHANGED <<current, data, late>>
    BY <1>7 DEF Replace, Fails, Dies, Ended, Remove, Copying, TypeOK
  <2>2. /\ wpc'[current] = wpc[current] /\ job'[current] = job[current]
        /\ fd'[current] = fd[current] /\ off'[current] = off[current]
        /\ current \in Workers
    BY <1>7, <2>1 DEF Replace, Fails, Dies, Ended, TypeOK, Copying
  <2>3. current \in Copying /\ job[current] \in Files \ late /\ job[w] \in Files
    BY <1>7, <2>1, <2>2 DEF Copying, TypeOK, Control, Replace, Fails, Dies
  <2>4. names'[Tmp[job[current]]] \in {None, names[Tmp[job[current]]]}
    BY <1>7, <2>3 DEF Replace, Fails, Dies, Remove, NoTmpName, TypeOK
  <2>5. Prefixed(current) /\ names[Tmp[job[current]]] \in {None, fd[current]}
    BY <2>3 DEF CurrentAlone
  <2> QED
    BY <2>1, <2>2, <2>4, <2>5 DEF Prefixed
<1>8. CASE UNCHANGED vars
  BY <1>8 DEF vars, Copying, CurrentAlone, Prefixed
<1> QED
  BY <1>1, <1>2, <1>3, <1>4, <1>5, <1>6, <1>7, <1>8 DEF Next

(* A copy stays kept while it is whole, the temporary name is not given to *)
(* another file, and whoever writes goes on with what he has written.      *)
LEMMA Stays ==
  ASSUME NEW f \in Files, KeptOf(f), Copied(f)',
         names'[Tmp[f]] \in {None, names[Tmp[f]]},
         \A v \in Copying' : job'[v] = f =>
           /\ v \in Copying /\ job[v] = f /\ fd'[v] = fd[v]
           /\ Prefixed(v) => Prefixed(v)'
  PROVE  KeptOf(f)'
  BY DEF KeptOf, Alone

(* After a success the copy stays as it is until the next attempt.         *)
LEMMA KeptStep ==
  NoTmpName /\ TypeOK /\ Control /\ Owned /\ CurrentAlone /\ Kept /\ [Next]_vars
    => Kept'
<1> SUFFICES ASSUME NoTmpName, TypeOK, Control, Owned, CurrentAlone, Kept, [Next]_vars,
                    NEW f \in Files, Settled(f)'
             PROVE  KeptOf(f)'
  BY DEF Kept
<1> USE FilesAssumption, NoneAssumption DEF parent, worker, disk
<1>0. Dest[f] \in Names /\ Tmp[f] \in Names /\ Dest[f] # Tmp[f]
  OBVIOUS
<1>1. CASE \/ \E w \in Workers : Spawn(w)
           \/ \E g \in Files : Begin(g)
           \/ Answer \/ Killed \/ UNCHANGED vars
  <2>1. UNCHANGED <<fd, off, names, data, late>>
    BY <1>1 DEF Spawn, Begin, Answer, Killed, vars
  <2>2. Settled(f)
    BY <1>1 DEF Spawn, Begin, Answer, Killed, vars, Settled, RowOf, Control, TypeOK
  <2>3. Copying' = Copying
    BY <1>1 DEF Spawn, Begin, Answer, Killed, vars, Copying, TypeOK
  <2>4. \A v \in Copying : job'[v] = job[v]
    BY <1>1 DEF Spawn, Begin, Answer, Killed, vars, Copying, TypeOK
  <2>5. KeptOf(f)
    BY <2>2 DEF Kept
  <2>6. Copied(f)'
    BY <2>1, <2>5 DEF KeptOf, Copied, Whole
  <2>7. \A v \in Copying : Prefixed(v) => Prefixed(v)'
    BY <2>1, <2>4 DEF Prefixed
  <2> QED
    BY <2>1, <2>3, <2>4, <2>5, <2>6, <2>7, Stays
<1>2. CASE GiveUp
  <2>1. /\ names' = [names EXCEPT ![Tmp[call]] = None]
        /\ call \in Files /\ f # call /\ UNCHANGED <<data, late>>
    BY <1>2 DEF GiveUp, Remove, Settled, TypeOK
  <2>2. Settled(f)
    BY <1>2, <2>1 DEF GiveUp, Settled, TypeOK
  <2>3. KeptOf(f)
    BY <2>2 DEF Kept
  <2>4. names'[Dest[f]] = names[Dest[f]] /\ names'[Tmp[f]] = names[Tmp[f]]
    BY <1>0, <2>1 DEF NoTmpName, TypeOK
  <2>5. \A v \in Copying' : /\ v \in Copying /\ job'[v] = job[v] /\ fd'[v] = fd[v]
                            /\ off'[v] = off[v]
    BY <1>2 DEF GiveUp, Ended, Copying, TypeOK
  <2>6. \A v \in Copying' : Prefixed(v) => Prefixed(v)'
    BY <2>1, <2>5 DEF Prefixed
  <2>7. Copied(f)'
    BY <2>1, <2>3, <2>4 DEF KeptOf, Copied, Whole
  <2> QED
    BY <2>3, <2>4, <2>5, <2>6, <2>7, Stays
<1>3. ASSUME NEW w \in Workers, Open(w) PROVE KeptOf(f)'
  <2>1. /\ job[w] \in Files /\ wpc[w] = "open" /\ wpc' = [wpc EXCEPT ![w] = "copy"]
        /\ UNCHANGED <<row, call, current, job>> /\ late \subseteq late'
        /\ \A v \in Workers \ {w} :
              w # current /\ fd[v] # None /\ job[v] = job[w] => job[w] \in late'
    BY <1>3, Opening
  <2>2. PICK i \in Inodes :
          /\ names' = [names EXCEPT ![Tmp[job[w]]] = i]
          /\ data' = [data EXCEPT ![i] = <<>>]
          /\ fd' = [fd EXCEPT ![w] = i]
          /\ \A n \in Names : names[n] = i => n = Tmp[job[w]]
    BY <1>3, Opening
  <2>3. /\ Prefixed(w)'
        /\ \A v \in Copying : job[v] # job[w] /\ Prefixed(v) => Prefixed(v)'
    BY <1>3, OpenPrefixed
  <2>4. Settled(f)
    BY <2>1 DEF Settled, TypeOK, Control
  <2>5. KeptOf(f)
    BY <2>4 DEF Kept
  <2>6. names'[Dest[f]] = names[Dest[f]] /\ names[Dest[f]] # i
    BY <1>0, <2>1, <2>2 DEF NoTmpName, TypeOK
  <2>7. Copied(f)'
    BY <2>2, <2>5, <2>6 DEF KeptOf, Copied, Whole, TypeOK
  <2>8. CASE job[w] # f
    <3>1. names'[Tmp[f]] = names[Tmp[f]]
      BY <1>0, <2>1, <2>2, <2>8 DEF TypeOK
    <3>2. \A v \in Copying' : job'[v] = f =>
            v \in Copying /\ job[v] = f /\ fd'[v] = fd[v]
      BY <2>1, <2>2, <2>8 DEF Copying, TypeOK
    <3> QED
      BY <2>3, <2>5, <2>7, <2>8, <3>1, <3>2, Stays
  <2>9. CASE job[w] = f
    <3>1. w # current
      BY <2>1, <2>4, <2>9 DEF Settled, Control
    <3>2. \A v \in Copying' : job'[v] = f => v = w
      BY <2>1, <2>9, <3>1 DEF Copying, Control, TypeOK, Settled
    <3>3. fd'[w] = names'[Tmp[f]]
      BY <1>0, <2>2, <2>9 DEF TypeOK
    <3> QED
      BY <2>3, <2>7, <3>2, <3>3 DEF KeptOf, Alone
  <2> QED
    BY <2>8, <2>9
<1>4. ASSUME NEW w \in Workers, Chunk(w) PROVE KeptOf(f)'
  <2>1. /\ UNCHANGED <<parent, wpc, job, fd, names, late>>
        /\ data' = [data EXCEPT ![fd[w]] = Written(data[fd[w]], off[w], job[w])]
        /\ job[w] \in Files /\ fd[w] \in Inodes
        /\ off[w] \in Nat /\ off[w] < Size[job[w]]
    BY <1>4 DEF Chunk, AtEof, Control, TypeOK
  <2>2. Settled(f)
    BY <2>1 DEF Settled
  <2>3. KeptOf(f)
    BY <2>2 DEF Kept
  <2>4. fd[w] = names[Dest[f]] => job[w] = f
    BY <1>0, <2>1 DEF Owned, NamesOf, NoTmpName
  <2>5. Copied(f)'
    <3>1. CASE fd[w] = names[Dest[f]]
      <4>1. job[w] = f /\ data[fd[w]] = Whole(f)
        BY <2>3, <2>4, <3>1 DEF KeptOf, Copied
      <4>2. Written(Whole(f), off[w], f) = Whole(f)
        BY <2>1, <4>1, WrittenAgain
      <4>3. data'[fd[w]] = Whole(f)
        BY <2>1, <4>1, <4>2 DEF TypeOK
      <4> QED
        BY <2>1, <2>3, <3>1, <4>3 DEF KeptOf, Copied, Whole
    <3>2. CASE fd[w] # names[Dest[f]]
      BY <2>1, <2>3, <3>2 DEF KeptOf, Copied, Whole, TypeOK
    <3> QED
      BY <3>1, <3>2
  <2>6. \A v \in Copying : Prefixed(v) => Prefixed(v)'
    BY <1>4, ChunkPrefixed
  <2>7. Copying' = Copying
    BY <2>1 DEF Copying
  <2> QED
    BY <2>1, <2>3, <2>5, <2>6, <2>7, Stays
<1>5. ASSUME NEW w \in Workers, Replace(w) PROVE KeptOf(f)'
  <2>1. /\ job[w] \in Files /\ w \in Copying /\ AtEof(w) /\ names[Tmp[job[w]]] # None
        /\ names' = [names EXCEPT ![Dest[job[w]]] = names[Tmp[job[w]]],
                                  ![Tmp[job[w]]] = None]
        /\ UNCHANGED <<row, call, current, data, late>>
    BY <1>5 DEF Replace, Control, TypeOK, Copying
  <2>2. \A v \in Workers \ {w} :
          /\ wpc'[v] = wpc[v] /\ job'[v] = job[v] /\ fd'[v] = fd[v] /\ off'[v] = off[v]
    BY <1>5 DEF Replace, Ended, TypeOK
  <2>3. wpc'[w] = "done" /\ w \notin Copying'
    BY <1>5 DEF Replace, Ended, TypeOK, Copying
  <2>4. CASE job[w] # f
    <3>1. Settled(f)
      BY <2>1, <2>2, <2>3, <2>4 DEF Settled, Control, TypeOK, Copying
    <3>2. KeptOf(f)
      BY <3>1 DEF Kept
    <3>3. names'[Dest[f]] = names[Dest[f]] /\ names'[Tmp[f]] = names[Tmp[f]]
      BY <1>0, <2>1, <2>4 DEF NoTmpName, TypeOK
    <3>4. Copied(f)'
      BY <2>1, <3>2, <3>3 DEF KeptOf, Copied, Whole
    <3>5. \A v \in Copying' : /\ v \in Copying /\ job'[v] = job[v] /\ fd'[v] = fd[v]
                              /\ Prefixed(v) => Prefixed(v)'
      BY <2>1, <2>2, <2>3 DEF Copying, Prefixed
    <3> QED
      BY <3>2, <3>3, <3>4, <3>5, Stays
  <2>5. CASE job[w] = f
    <3>1. names'[Dest[f]] = names[Tmp[f]] /\ names'[Tmp[f]] = None
      BY <1>0, <2>1, <2>5 DEF TypeOK
    <3>2. names[Tmp[f]] = fd[w] /\ Prefixed(w)
      <4>1. CASE w = current
        BY <2>1, <2>5, <4>1 DEF CurrentAlone, Settled
      <4>2. CASE w # current
        <5>1. Settled(f)
          BY <2>1, <2>2, <2>3, <4>2 DEF Settled, Control, TypeOK
        <5> QED
          BY <2>1, <2>5, <5>1 DEF Kept, KeptOf, Alone
      <4> QED
        BY <4>1, <4>2
    <3>3. data[fd[w]] = Whole(f)
      BY <2>1, <2>5, <3>2, EofWhole
    <3>4. Copied(f)'
      BY <2>1, <2>5, <3>1, <3>2, <3>3 DEF Copied, Whole
    <3> QED
      BY <3>1, <3>4 DEF KeptOf
  <2> QED
    BY <2>4, <2>5
<1>6. ASSUME NEW w \in Workers, Fails(w) \/ Dies(w) PROVE KeptOf(f)'
  <2>1. job[w] \in Files /\ UNCHANGED <<row, call, current, data, late>>
    BY <1>6 DEF Fails, Dies, Remove, Control, TypeOK
  <2>2. \A v \in Workers \ {w} :
          /\ wpc'[v] = wpc[v] /\ job'[v] = job[v] /\ fd'[v] = fd[v] /\ off'[v] = off[v]
    BY <1>6 DEF Fails, Dies, Ended, TypeOK
  <2>3. wpc'[w] \in {"error", "dead"}
    BY <1>6 DEF Fails, Dies, Ended, TypeOK
  <2>4. names'[Dest[f]] = names[Dest[f]] /\ names'[Tmp[f]] \in {None, names[Tmp[f]]}
    BY <1>0, <1>6, <2>1 DEF Fails, Dies, Remove, NoTmpName, TypeOK
  <2>5. Settled(f)
    BY <2>1, <2>2, <2>3 DEF Settled, Control, TypeOK
  <2>6. KeptOf(f)
    BY <2>5 DEF Kept
  <2>7. Copied(f)'
    BY <2>1, <2>4, <2>6 DEF KeptOf, Copied, Whole
  <2>8. \A v \in Copying' : /\ v \in Copying /\ job'[v] = job[v] /\ fd'[v] = fd[v]
                            /\ Prefixed(v) => Prefixed(v)'
    BY <2>1, <2>2, <2>3 DEF Copying, Prefixed
  <2> QED
    BY <2>4, <2>6, <2>7, <2>8, Stays
<1> QED
  BY <1>1, <1>2, <1>3, <1>4, <1>5, <1>6 DEF Next

-------------------------------------------------------------------------------
(* The theorems                                                            *)

LEMMA InitInv == Init => TypeOK /\ Control /\ Owned /\ CurrentAlone /\ Kept
<1> SUFFICES ASSUME Init PROVE TypeOK /\ Control /\ Owned /\ CurrentAlone /\ Kept
  OBVIOUS
<1> USE FilesAssumption, NoneAssumption DEF Init
<1>1. TypeOK
  BY EmptySeq DEF TypeOK
<1>2. Control /\ Owned
  BY DEF Control, Owned
<1>3. CurrentAlone /\ Kept
  BY DEF CurrentAlone, Copying, Kept, Settled
<1> QED
  BY <1>1, <1>2, <1>3

LEMMA TypeInvariance == Spec => [](TypeOK /\ Control)
<1>1. TypeOK /\ Control /\ [Next]_vars => (TypeOK /\ Control)'
  BY TypeStep, ControlStep
<1> QED
  BY <1>1, InitInv, PTL DEF Spec

(* Rows, names, inodes and workers have their types, whatever orphans do   *)
(* (worker.py:35-62).                                                      *)
THEOREM TypeCorrect == Spec => []TypeOK
  BY TypeInvariance, PTL

(* Where no file is called like a temporary file, a success is whole       *)
(* unless an orphan opened the temporary file late, for any number of      *)
(* orphans and files (worker.py:46-62).                                    *)
THEOREM WholeTheorem ==
  ASSUME NoTmpName PROVE Spec => []SuccessIsWholeUnlessLate
<1> DEFINE Inv == TypeOK /\ Control /\ Owned /\ CurrentAlone /\ Kept
<1>1. Inv /\ [Next]_vars => Inv'
  BY TypeStep, ControlStep, OwnedStep, CurrentStep, KeptStep
<1>2. Init => Inv
  BY InitInv
<1>3. Inv => SuccessIsWholeUnlessLate
  BY DEF SuccessIsWholeUnlessLate, Kept, Settled, KeptOf
<1> QED
  BY <1>1, <1>2, <1>3, PTL DEF Spec
===============================================================================
