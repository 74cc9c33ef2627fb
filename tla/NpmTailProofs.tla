------------------------------- MODULE NpmTailProofs -------------------------------
(***************************************************************************)
(* Proofs about NpmTail, for any paths, lines, files and faults.            *)
(***************************************************************************)
EXTENDS NpmTail, SequenceTheorems, TLAPS

Reading == pc \in {"read", "insert", "save"}

\* The types of the log and of the rows, as sequences.
LogTypes ==
  /\ files \in [Path -> Seq(Seq(Half))]
  /\ present \in [Path -> BOOLEAN] /\ lines \in 0..MaxLines
  /\ written \in [Line -> 0..MaxClock] /\ replaced \subseteq Path

ReaderTypes ==
  /\ pc \in {"idle", "files", "read", "insert", "save"}
  /\ left \subseteq Path /\ path \in Path /\ file \in Nat /\ pos \in Nat
  /\ token \subseteq Half /\ eof \in BOOLEAN

RestTypes ==
  /\ rows \in Seq(Row) /\ torn \subseteq Line
  /\ offset \in [Path -> Nat] /\ live \in BOOLEAN
  /\ clock \in 0..MaxClock /\ faults \in 0..MaxFaults

\* A path that names a file has one, and the file that is read exists.
FilesExist ==
  /\ \A p \in Path : present[p] => files[p] # <<>>
  /\ Reading => file \in 1..Len(files[path])

\* A path whose file was never replaced has had one file at most.
SoleFile ==
  \A p \in Path \ replaced : Len(files[p]) <= 1 /\ (files[p] # <<>> => present[p])

Done(n) == Ingested(n) \/ n \in torn

\* What is behind an offset is done.
OffsetBehind ==
  \A p \in Path \ replaced :
    /\ files[p] = <<>> => offset[p] = 0
    /\ files[p] # <<>> => /\ offset[p] <= Len(Current(p))
                          /\ \A i \in 1..offset[p] : Done(Current(p)[i].line)

\* What is behind the reader is done or under construction, and nothing is at the end.
ReadBehind ==
  /\ Reading /\ path \notin replaced =>
       /\ pos <= Len(Current(path))
       /\ \A i \in 1..pos : Done(Current(path)[i].line) \/ Current(path)[i] \in token
  /\ pc = "save" => token = {}

Types == LogTypes /\ ReaderTypes /\ RestTypes

IInv == Types /\ FilesExist /\ SoleFile /\ OffsetBehind /\ ReadBehind

\* The parts of the type are the type.
LEMMA TypesTogether == Types => TypeOK
<1> SUFFICES ASSUME Types PROVE TypeOK
  OBVIOUS
<1>1. ASSUME NEW p \in Path, NEW i \in DOMAIN files[p], NEW j \in DOMAIN files[p][i]
      PROVE  files[p][i][j] \in Half
  <2>1. files[p] \in Seq(Seq(Half))
    BY DEF Types, LogTypes
  <2>2. files[p][i] \in Seq(Half)
    BY <2>1
  <2>3. QED
    BY <2>2
<1>2. \A i \in DOMAIN rows : rows[i] \in Row
  BY DEF Types, RestTypes
<1>3. QED
  BY <1>1, <1>2 DEF Types, LogTypes, ReaderTypes, RestTypes, TypeOK

-----------------------------------------------------------------------------
(* The log.                                                                *)

\* The last file of a path is given other contents.
LEMMA LastFileReplaced ==
  ASSUME LogTypes, NEW p \in Path, files[p] # <<>>, NEW c \in Seq(Half),
         files' = [files EXCEPT ![p][Len(files[p])] = c]
  PROVE  /\ files' \in [Path -> Seq(Seq(Half))]
         /\ \A q \in Path : Len(files'[q]) = Len(files[q])
         /\ \A q \in Path \ {p} : files'[q] = files[q]
         /\ \A f \in 1..Len(files[p]) : files'[p][f] = IF f = Len(files[p]) THEN c ELSE files[p][f]
<1> DEFINE fs == files[p]
           gs == [fs EXCEPT ![Len(fs)] = c]
<1>1. files \in [Path -> Seq(Seq(Half))] /\ fs \in Seq(Seq(Half)) /\ fs # <<>>
  BY DEF LogTypes
<1>2. files' = [files EXCEPT ![p] = gs]
  OBVIOUS
<1> HIDE DEF fs
<1>3. Len(fs) \in 1..Len(fs)
  BY <1>1
<1>4. /\ gs \in Seq(Seq(Half)) /\ Len(gs) = Len(fs)
      /\ \A f \in 1..Len(fs) : gs[f] = IF f = Len(fs) THEN c ELSE fs[f]
  BY <1>1, <1>3, ExceptSeq
<1> HIDE DEF gs
<1>5. files'[p] = gs /\ \A q \in Path \ {p} : files'[q] = files[q]
  BY <1>1, <1>2
<1>6. files' \in [Path -> Seq(Seq(Half))]
  BY <1>1, <1>2, <1>4
<1>7. QED
  BY <1>4, <1>5, <1>6 DEF fs

\* Halves are appended to the last file of a path.
LEMMA Appended ==
  ASSUME LogTypes, NEW p \in Path, files[p] # <<>>, NEW halves \in Seq(Half), Append2(p, halves)
  PROVE  /\ files' \in [Path -> Seq(Seq(Half))]
         /\ \A q \in Path : Len(files'[q]) = Len(files[q])
         /\ \A q \in Path \ {p} : files'[q] = files[q]
         /\ \A f \in 1..Len(files[p]) : f # Len(files[p]) => files'[p][f] = files[p][f]
         /\ Current(p)' = Current(p) \o halves
<1>1. /\ files[p] \in Seq(Seq(Half)) /\ Len(files[p]) \in 1..Len(files[p])
      /\ Current(p) \in Seq(Half)
  <2>1. files[p] \in Seq(Seq(Half))
    BY DEF LogTypes
  <2>2. Len(files[p]) \in 1..Len(files[p])
    BY <2>1
  <2>3. QED
    BY <2>1, <2>2 DEF Current
<1>2. Current(p) \o halves \in Seq(Half)
  BY <1>1
<1>3. files' = [files EXCEPT ![p][Len(files[p])] = Current(p) \o halves]
  BY DEF Append2, Current
<1>4. /\ files' \in [Path -> Seq(Seq(Half))]
      /\ \A q \in Path : Len(files'[q]) = Len(files[q])
      /\ \A q \in Path \ {p} : files'[q] = files[q]
      /\ \A f \in 1..Len(files[p]) :
           files'[p][f] = IF f = Len(files[p]) THEN Current(p) \o halves ELSE files[p][f]
  BY <1>2, <1>3, LastFileReplaced
<1>5. Current(p)' = files'[p][Len(files'[p])]
  BY DEF Current
<1>6. QED
  BY <1>1, <1>4, <1>5

\* The halves that are appended.
LEMMA HalvesWritten ==
  /\ \A n \in Line : <<FirstHalf(n), LastHalf(n)>> \in Seq(Half) /\ <<FirstHalf(n)>> \in Seq(Half)
  /\ \A n \in Line : <<LastHalf(n)>> \in Seq(Half)
BY DEF FirstHalf, LastHalf, Half

\* Steps of nginx and logrotate.
LogStep ==
  /\ UNCHANGED <<rows, reader, offset, live, clock, faults, torn>>
  /\ \E p \in Path : CreateFile(p) \/ RenameAway(p) \/ Truncate(p) \/ WriteLine(p) \/ FinishLine(p)

\* A line is written to p: halves appended at the end of its file.
Writes(p) ==
  /\ present[p]
  /\ \E halves \in Seq(Half) : Append2(p, halves)
  /\ present' = present /\ replaced' = replaced

\* What nginx writes to a file, and what it leaves.
LEMMA WritesWhat ==
  ASSUME Types, FilesExist, NEW p \in Path, WriteLine(p) \/ FinishLine(p)
  PROVE  Writes(p) /\ lines' \in 0..MaxLines /\ written' \in [Line -> 0..MaxClock]
<1>1. CASE WriteLine(p)
  <2>1. lines' \in Line /\ lines' \in 0..MaxLines
    BY <1>1, ConstantsAssumption DEF WriteLine, Types, LogTypes, Line, ConstantsAssumption
  <2>2. written' \in [Line -> 0..MaxClock]
    BY <1>1, <2>1 DEF WriteLine, Types, LogTypes, RestTypes
  <2>3. \E halves \in Seq(Half) : Append2(p, halves)
    <3>1. /\ <<FirstHalf(lines'), LastHalf(lines')>> \in Seq(Half)
          /\ <<FirstHalf(lines')>> \in Seq(Half)
      BY <2>1, HalvesWritten
    <3>2. \/ Append2(p, <<FirstHalf(lines'), LastHalf(lines')>>)
          \/ Append2(p, <<FirstHalf(lines')>>)
      BY <1>1 DEF WriteLine
    <3>3. QED
      BY <3>1, <3>2, Zenon
  <2>4. QED
    BY <1>1, <2>1, <2>2, <2>3 DEF WriteLine, Writes
<1>2. CASE FinishLine(p)
  <2>1. Current(p) \in Seq(Half) /\ Current(p) # <<>>
    <3>1. files[p] \in Seq(Seq(Half)) /\ files[p] # <<>>
      BY <1>2 DEF Types, LogTypes, FilesExist, FinishLine
    <3>2. Len(files[p]) \in 1..Len(files[p])
      BY <3>1
    <3>3. QED
      BY <1>2, <3>1, <3>2 DEF Current, FinishLine, MidLine
  <2>2. Len(Current(p)) \in 1..Len(Current(p))
    BY <2>1
  <2>3. Current(p)[Len(Current(p))].line \in Line
    <3>1. Current(p)[Len(Current(p))] \in Half
      BY <2>1, <2>2
    <3>2. QED
      BY <3>1 DEF Half
  <2>4. \E halves \in Seq(Half) : Append2(p, halves)
    BY <1>2, <2>3, HalvesWritten DEF FinishLine
  <2>5. QED
    BY <1>2, <2>4 DEF FinishLine, Writes, Types, LogTypes
<1>3. QED
  BY <1>1, <1>2

\* What a step of the log does to the files: contents grow, vanish or are replaced.
LEMMA LogTypesKept ==
  ASSUME Types, FilesExist, LogStep
  PROVE  LogTypes' /\ FilesExist'
<1>0. files \in [Path -> Seq(Seq(Half))] /\ present \in [Path -> BOOLEAN] /\ replaced \subseteq Path
  BY DEF Types, LogTypes
<1>1. PICK p \in Path : CreateFile(p) \/ RenameAway(p) \/ Truncate(p) \/ WriteLine(p) \/ FinishLine(p)
  BY DEF LogStep
<1>2. pc' = pc /\ file' = file /\ path' = path /\ path \in Path /\ file \in Nat
  BY DEF LogStep, reader, Types, ReaderTypes
<1>3. CASE CreateFile(p)
  <2>1. /\ files' = [files EXCEPT ![p] = Append(@, <<>>)] /\ <<>> \in Seq(Half)
        /\ present' = [present EXCEPT ![p] = TRUE] /\ UNCHANGED <<lines, written, replaced>>
    BY <1>3 DEF CreateFile
  <2>2. /\ Append(files[p], <<>>) \in Seq(Seq(Half))
        /\ Len(Append(files[p], <<>>)) = Len(files[p]) + 1 /\ Append(files[p], <<>>) # <<>>
    <3>1. files[p] \in Seq(Seq(Half)) /\ <<>> \in Seq(Half)
      BY <1>0, <2>1
    <3>2. QED
      BY <3>1, AppendProperties
  <2>3. /\ files' \in [Path -> Seq(Seq(Half))] /\ files'[p] = Append(files[p], <<>>)
        /\ \A q \in Path \ {p} : files'[q] = files[q]
    BY <1>0, <2>1, <2>2
  <2>4. LogTypes'
    BY <1>0, <2>1, <2>3 DEF Types, LogTypes
  <2>5. \A q \in Path : present'[q] => files'[q] # <<>>
    BY <1>0, <2>1, <2>2, <2>3 DEF FilesExist
  <2>6. ASSUME NEW q \in Path PROVE Len(files'[q]) >= Len(files[q]) /\ Len(files'[q]) \in Nat
    <3>1. Len(files[q]) \in Nat
      BY <1>0
    <3>2. Len(files'[q]) = Len(files[q]) \/ Len(files'[q]) = Len(files[q]) + 1
      BY <2>2, <2>3
    <3>3. \A x, y \in Int : x \in Nat /\ (y = x \/ y = x + 1) => y >= x /\ y \in Nat
      OBVIOUS
    <3>4. QED
      BY <3>1, <3>2, <3>3
  <2>7. Reading => file \in 1..Len(files'[path])
    BY <1>0, <1>2, <2>6 DEF FilesExist
  <2>8. QED
    BY <1>2, <2>4, <2>5, <2>7 DEF FilesExist, Reading
<1>4. CASE RenameAway(p)
  <2>1. /\ files' = files /\ present' = [present EXCEPT ![p] = FALSE]
        /\ replaced' = replaced \cup {p} /\ UNCHANGED <<lines, written>>
    BY <1>4 DEF RenameAway
  <2>2. QED
    BY <1>0, <1>2, <2>1 DEF Types, LogTypes, FilesExist, Reading
<1>5. CASE Truncate(p) \/ WriteLine(p) \/ FinishLine(p)
  <2>1. files[p] # <<>>
    BY <1>5 DEF Truncate, WriteLine, FinishLine, FilesExist
  <2>2. files' \in [Path -> Seq(Seq(Half))] /\ \A q \in Path : Len(files'[q]) = Len(files[q])
    <3>1. CASE Truncate(p)
      <4>1. files' = [files EXCEPT ![p][Len(files[p])] = <<>>] /\ <<>> \in Seq(Half)
        BY <3>1 DEF Truncate
      <4>2. QED
        BY <2>1, <4>1, LastFileReplaced DEF Types
    <3>2. CASE WriteLine(p) \/ FinishLine(p)
      BY <2>1, <3>2, WritesWhat, Appended DEF Types, Writes
    <3>3. QED
      BY <1>5, <3>1, <3>2
  <2>3. /\ present' = present /\ replaced' \subseteq Path
        /\ lines' \in 0..MaxLines /\ written' \in [Line -> 0..MaxClock]
    <3>1. CASE Truncate(p)
      BY <1>0, <3>1 DEF Truncate, Types, LogTypes
    <3>2. CASE WriteLine(p) \/ FinishLine(p)
      BY <1>0, <3>2, WritesWhat DEF Writes
    <3>3. QED
      BY <1>5, <3>1, <3>2
  <2>4. \A q \in Path : files[q] # <<>> => files'[q] # <<>>
    BY <1>0, <2>2
  <2>5. QED
    BY <1>0, <1>2, <2>2, <2>3, <2>4 DEF LogTypes, FilesExist, Reading
<1>6. QED
  BY <1>1, <1>3, <1>4, <1>5

\* The file of a path that is not replaced only grows.
LEMMA SoleFileGrows ==
  ASSUME Types, FilesExist, SoleFile, LogStep, NEW q \in Path, q \notin replaced'
  PROVE  /\ q \notin replaced
         /\ Len(files'[q]) <= 1 /\ (files'[q] # <<>> => present'[q])
         /\ files[q] # <<>> =>
              /\ files'[q] # <<>> /\ Len(Current(q)) \in Nat /\ Len(Current(q)') >= Len(Current(q))
              /\ \A i \in 1..Len(Current(q)) : Current(q)'[i] = Current(q)[i]
         /\ files[q] = <<>> /\ files'[q] # <<>> => Current(q)' = <<>>
<1>0. /\ files \in [Path -> Seq(Seq(Half))] /\ files[q] \in Seq(Seq(Half)) /\ Len(files[q]) \in Nat
      /\ present \in [Path -> BOOLEAN]
  BY DEF Types, LogTypes
<1>1. files[q] # <<>> => /\ Len(files[q]) \in 1..Len(files[q]) /\ Current(q) \in Seq(Half)
                         /\ Len(Current(q)) \in Nat
  <2> SUFFICES ASSUME files[q] # <<>>
               PROVE  /\ Len(files[q]) \in 1..Len(files[q]) /\ Current(q) \in Seq(Half)
                      /\ Len(Current(q)) \in Nat
    OBVIOUS
  <2>1. Len(files[q]) \in 1..Len(files[q])
    BY <1>0
  <2>2. Current(q) \in Seq(Half)
    BY <1>0, <2>1 DEF Current
  <2>3. QED
    BY <2>1, <2>2
<1>2. PICK p \in Path : CreateFile(p) \/ RenameAway(p) \/ Truncate(p) \/ WriteLine(p) \/ FinishLine(p)
  BY DEF LogStep
<1>3. replaced \subseteq replaced' /\ q \notin replaced
  BY <1>2, WritesWhat DEF CreateFile, RenameAway, Truncate, Writes
<1>4. Len(files[q]) <= 1 /\ (files[q] # <<>> => present[q])
  BY <1>3 DEF SoleFile
<1>5. CASE files'[q] = files[q] /\ present'[q] = present[q]
  <2>1. Current(q)' = Current(q)
    BY <1>5 DEF Current
  <2>2. QED
    BY <1>1, <1>3, <1>4, <1>5, <2>1
<1>6. CASE q = p /\ CreateFile(p)
  <2>1. ~present[p] /\ files' = [files EXCEPT ![p] = Append(@, <<>>)] /\ present' = [present EXCEPT ![p] = TRUE]
    BY <1>6 DEF CreateFile
  <2>2. files[p] = <<>>
    BY <1>4, <1>6, <2>1
  <2>3. files'[p] = <<<<>>>> /\ present'[p]
    BY <1>0, <2>1, <2>2
  <2>4. Len(files'[p]) = 1 /\ Current(p)' = <<>>
    BY <2>3 DEF Current
  <2>5. QED
    BY <1>3, <1>6, <2>2, <2>3, <2>4
<1>7. CASE q = p /\ (WriteLine(p) \/ FinishLine(p))
  <2>1. Writes(p) /\ present[p] /\ present' = present /\ files[p] # <<>>
    BY <1>7, WritesWhat DEF Writes, FilesExist
  <2>2. PICK halves \in Seq(Half) : Append2(p, halves)
    BY <2>1 DEF Writes
  <2>3. Len(files'[p]) = Len(files[p]) /\ Current(p)' = Current(p) \o halves /\ files'[p] \in Seq(Seq(Half))
    BY <2>1, <2>2, Appended DEF Types
  <2>4. /\ Len(Current(p) \o halves) = Len(Current(p)) + Len(halves)
        /\ \A i \in 1..Len(Current(p)) : (Current(p) \o halves)[i] = Current(p)[i]
        /\ Len(halves) \in Nat
    BY <1>1, <1>7, <2>1, ConcatProperties
  <2>5. files'[p] # <<>>
    BY <1>1, <1>7, <2>1, <2>3
  <2>6. Len(Current(p)') >= Len(Current(p))
    BY <1>1, <1>7, <2>1, <2>3, <2>4
  <2>7. QED
    BY <1>1, <1>3, <1>4, <1>7, <2>1, <2>3, <2>4, <2>5, <2>6
<1>8. CASE q # p \/ RenameAway(p) \/ Truncate(p)
  <2>1. q # p
    BY <1>8 DEF RenameAway, Truncate
  <2>2. CASE CreateFile(p) \/ RenameAway(p)
    BY <1>0, <1>5, <2>1, <2>2 DEF CreateFile, RenameAway
  <2>3. CASE Truncate(p)
    <3>1. /\ files' = [files EXCEPT ![p][Len(files[p])] = <<>>] /\ <<>> \in Seq(Half)
          /\ present' = present /\ files[p] # <<>>
      BY <2>3 DEF Truncate, FilesExist
    <3>2. QED
      BY <1>5, <2>1, <3>1, LastFileReplaced DEF Types
  <2>4. CASE WriteLine(p) \/ FinishLine(p)
    <3>1. Writes(p) /\ present' = present /\ files[p] # <<>>
      BY <2>4, WritesWhat DEF Writes, FilesExist
    <3>2. QED
      BY <1>5, <2>1, <3>1, Appended DEF Types, Writes
  <2>5. QED
    BY <1>2, <2>2, <2>3, <2>4
<1>9. QED
  BY <1>2, <1>6, <1>7, <1>8

\* What nginx and logrotate do keeps the invariant.
LEMMA LogStepIInv ==
  ASSUME IInv, LogStep
  PROVE  IInv'
<1>0. /\ rows' = rows /\ torn' = torn /\ offset' = offset /\ token' = token
      /\ pc' = pc /\ path' = path /\ pos' = pos /\ file' = file
  BY DEF LogStep, reader
<1>1. LogTypes' /\ FilesExist'
  BY LogTypesKept DEF IInv
<1>2. ReaderTypes' /\ RestTypes'
  BY DEF IInv, Types, ReaderTypes, RestTypes, LogStep, reader
<1>3. SoleFile'
  BY SoleFileGrows DEF IInv, SoleFile
<1>4. \A n : Done(n)' <=> Done(n)
  BY <1>0 DEF Done, Ingested
<1>5. ASSUME NEW q \in Path, q \notin replaced'
      PROVE  /\ files'[q] = <<>> => offset'[q] = 0
             /\ files'[q] # <<>> => /\ offset'[q] <= Len(Current(q)')
                                    /\ \A i \in 1..offset'[q] : Done(Current(q)'[i].line)
  <2>1. /\ q \notin replaced /\ offset'[q] = offset[q] /\ offset[q] \in Nat
        /\ files[q] = <<>> => offset[q] = 0
        /\ files[q] # <<>> => /\ offset[q] <= Len(Current(q))
                              /\ \A i \in 1..offset[q] : Done(Current(q)[i].line)
    BY <1>0, <1>5, SoleFileGrows DEF IInv, OffsetBehind, Types, RestTypes
  <2>2. CASE files[q] = <<>>
    <3>1. Len(Current(q)') >= 0 \/ files'[q] = <<>>
      BY <1>5, <2>2, SoleFileGrows DEF IInv
    <3>2. QED
      BY <2>1, <2>2, <3>1
  <2>3. CASE files[q] # <<>>
    <3>1. /\ files'[q] # <<>> /\ Len(Current(q)) \in Nat /\ Len(Current(q)') >= Len(Current(q))
          /\ \A i \in 1..Len(Current(q)) : Current(q)'[i] = Current(q)[i]
      BY <1>5, <2>3, SoleFileGrows DEF IInv
    <3>2. offset[q] <= Len(Current(q)')
      <4>1. Current(q)' \in Seq(Half)
        <5>1. files'[q] \in Seq(Seq(Half)) /\ files'[q] # <<>>
          BY <1>1, <3>1 DEF LogTypes
        <5>2. Len(files'[q]) \in 1..Len(files'[q])
          BY <5>1
        <5>3. QED
          BY <5>1, <5>2 DEF Current
      <4>2. Len(Current(q)') \in Nat
        BY <4>1
      <4>3. QED
        BY <2>1, <2>3, <3>1, <4>2
    <3>3. ASSUME NEW i \in 1..offset[q] PROVE Done(Current(q)'[i].line)
      <4>1. i \in 1..Len(Current(q))
        BY <2>1, <2>3, <3>1
      <4>2. QED
        BY <2>1, <2>3, <3>1, <4>1
    <3>4. QED
      BY <2>1, <2>3, <3>1, <3>2, <3>3
  <2>4. QED
    BY <2>2, <2>3
<1>6. OffsetBehind'
  BY <1>4, <1>5 DEF OffsetBehind
<1>7. ASSUME Reading, path \notin replaced'
      PROVE  /\ pos <= Len(Current(path)')
             /\ \A i \in 1..pos : Done(Current(path)'[i].line) \/ Current(path)'[i] \in token
  <2>1. path \in Path /\ pos \in Nat /\ files[path] # <<>>
    <3>1. path \in Path /\ pos \in Nat /\ file \in 1..Len(files[path]) /\ file \in Nat
      BY <1>7 DEF IInv, Types, ReaderTypes, FilesExist
    <3>2. files[path] \in Seq(Seq(Half))
      BY <3>1 DEF IInv, Types, LogTypes
    <3>3. QED
      BY <3>1, <3>2
  <2>2. /\ path \notin replaced /\ Len(Current(path)) \in Nat /\ Len(Current(path)') >= Len(Current(path))
        /\ \A i \in 1..Len(Current(path)) : Current(path)'[i] = Current(path)[i] 
    BY <1>0, <1>7, <2>1, SoleFileGrows DEF IInv
  <2>3. /\ pos <= Len(Current(path))
        /\ \A i \in 1..pos : Done(Current(path)[i].line) \/ Current(path)[i] \in token
    BY <1>7, <2>2 DEF IInv, ReadBehind
  <2>4. Len(Current(path)') \in Nat
    BY <1>0, <1>1, <2>1, <2>2
  <2>5. QED
    BY <2>1, <2>2, <2>3, <2>4
<1>8. ReadBehind'
  BY <1>0, <1>4, <1>7 DEF ReadBehind, Reading, IInv, Current
<1>9. QED
  BY <1>1, <1>2, <1>3, <1>6, <1>8 DEF IInv, Types

-----------------------------------------------------------------------------
(* The collector and the rest of the process.                              *)

\* Of a path that is not replaced, the file being read is its current one.
LEMMA ReadsSoleFile ==
  ASSUME IInv, Reading, path \notin replaced
  PROVE  /\ files[path] # <<>> /\ files[path][file] = Current(path)
         /\ Current(path) \in Seq(Half) /\ Len(Current(path)) \in Nat
<1>1. path \in Path /\ file \in Nat /\ files[path] \in Seq(Seq(Half)) /\ file \in 1..Len(files[path])
  BY DEF IInv, Types, LogTypes, ReaderTypes, FilesExist
<1>2. Len(files[path]) \in Nat /\ Len(files[path]) <= 1
  BY <1>1 DEF IInv, SoleFile
<1>3. file = Len(files[path]) /\ files[path] # <<>>
  BY <1>1, <1>2
<1>4. files[path][file] = Current(path) /\ files[path][file] \in Seq(Half)
  BY <1>1, <1>3 DEF Current
<1>5. QED
  BY <1>3, <1>4

\* A step that leaves the log, and what is behind the offsets, as they are.
LEMMA SameLogIInv ==
  ASSUME IInv, UNCHANGED log, offset' = offset, ReaderTypes', RestTypes',
         \A n : Done(n) => Done(n)',
         Reading' => file' \in 1..Len(files[path']),
         ReadBehind'
  PROVE  IInv'
<1>1. LogTypes' /\ SoleFile'
  BY DEF IInv, Types, LogTypes, SoleFile, log
<1>2. FilesExist'
  BY DEF IInv, FilesExist, Reading, log
<1>3. \A p \in Path : Current(p)' = Current(p)
  BY DEF Current, log
<1>4. OffsetBehind'
  BY <1>3 DEF IInv, OffsetBehind, log
<1>5. QED
  BY <1>1, <1>2, <1>4 DEF IInv, Types

\* A step after which no file is being read.
LEMMA OutsideIInv ==
  ASSUME IInv, UNCHANGED <<log, rows, torn, offset>>, ReaderTypes', RestTypes', pc' \in {"idle", "files"}
  PROVE  IInv'
<1>1. ~Reading' /\ ReadBehind'
  BY DEF Reading, ReadBehind
<1>2. \A n : Done(n) => Done(n)'
  BY DEF Done, Ingested
<1>3. QED
  BY <1>1, <1>2, SameLogIInv

\* Opening a file at its start offset keeps the invariant.
LEMMA OpenFileIInv ==
  ASSUME IInv, NEW p \in Path, OpenFile(p)
  PROVE  IInv'
<1>0. /\ UNCHANGED <<files, present, lines, written, replaced, rows, offset, live, clock, faults, torn>>
      /\ pc' = "read" /\ path' = p /\ file' = Len(files[p]) /\ pos' = StartOffset(p)
      /\ token' = {} /\ eof' = FALSE /\ left' = left \ {p} /\ present[p]
  BY DEF OpenFile, log
<1>1. /\ files[p] \in Seq(Seq(Half)) /\ files[p] # <<>> /\ offset[p] \in Nat
  BY <1>0 DEF IInv, Types, LogTypes, RestTypes, FilesExist
<1>2. Len(files[p]) \in 1..Len(files[p]) /\ Len(files[p]) \in Nat
  BY <1>1
<1>3. Current(p) \in Seq(Half) /\ Len(Current(p)) \in Nat
  BY <1>1, <1>2 DEF Current
<1>4. StartOffset(p) \in Nat /\ StartOffset(p) <= Len(Current(p)) /\ StartOffset(p) <= offset[p]
  BY <1>1, <1>3 DEF StartOffset
<1>5. ReaderTypes'
  <2>1. eof' \in BOOLEAN
    BY <1>0, Zenon
  <2>2. QED
    BY <1>0, <1>2, <1>4, <2>1 DEF IInv, Types, ReaderTypes
<1>6. RestTypes' /\ UNCHANGED log /\ (\A n : Done(n) => Done(n)')
  BY <1>0 DEF IInv, Types, RestTypes, log, Done, Ingested
<1>7. ReadBehind'
  <2>1. Current(p)' = Current(p)
    BY <1>0 DEF Current
  <2>2. ASSUME p \notin replaced, NEW i \in 1..StartOffset(p)
        PROVE  Done(Current(p)[i].line)
    <3>1. i \in 1..offset[p]
      BY <1>1, <1>4
    <3>2. QED
      BY <1>1, <2>2, <3>1 DEF IInv, OffsetBehind
  <2>3. QED
    BY <1>0, <1>4, <1>6, <2>1, <2>2 DEF ReadBehind, Current
<1>8. QED
  BY <1>0, <1>2, <1>5, <1>6, <1>7, SameLogIInv

\* Reading one half more keeps the invariant.
LEMMA ReadIInv ==
  ASSUME IInv, Read
  PROVE  IInv'
<1> DEFINE content == files[path][file]
<1>0. /\ UNCHANGED <<files, present, lines, written, replaced, rows, left, path, file, offset, live, clock, faults, torn>>
      /\ pc = "read" /\ Reading
  BY DEF Read, log, Reading
<1>1. /\ path \in Path /\ file \in Nat /\ pos \in Nat /\ token \subseteq Half
      /\ file \in 1..Len(files[path]) /\ files[path] \in Seq(Seq(Half))
  BY <1>0 DEF IInv, Types, LogTypes, ReaderTypes, FilesExist
<1>2. content \in Seq(Half) /\ Len(content) \in Nat
  BY <1>1
<1>3. /\ RestTypes' /\ UNCHANGED log /\ (\A n : Done(n) => Done(n)')
      /\ file' \in 1..Len(files[path'])
  BY <1>0, <1>1 DEF IInv, Types, RestTypes, log, Done, Ingested
<1>4. path \notin replaced =>
        /\ content = Current(path) /\ pos <= Len(content)
        /\ \A i \in 1..pos : Done(content[i].line) \/ content[i] \in token
  BY <1>0, ReadsSoleFile DEF IInv, ReadBehind
<1>5. Current(path)' = Current(path)
  BY <1>0 DEF Current
<1>6. CASE pos < Len(content)
  <2>1. /\ pos' = pos + 1 /\ token' = token \cup {content[pos + 1]}
        /\ pc' \in {"read", "insert"} /\ eof' = eof
    BY <1>6 DEF Read
  <2>2. content[pos + 1] \in Half
    BY <1>1, <1>2, <1>6
  <2>3. ReaderTypes'
    BY <1>0, <1>1, <2>1, <2>2 DEF IInv, Types, ReaderTypes
  <2>4. ASSUME path \notin replaced
        PROVE  /\ pos + 1 <= Len(content)
               /\ \A i \in 1..(pos + 1) : Done(content[i].line) \/ content[i] \in token'
    <3>1. \A i \in 1..(pos + 1) : i \in 1..pos \/ i = pos + 1
      BY <1>1
    <3>2. pos + 1 <= Len(content)
      BY <1>1, <1>2, <1>6
    <3>3. QED
      BY <1>4, <2>1, <2>4, <3>1, <3>2
  <2>5. path \notin replaced => content = Current(path)
    BY <1>4
  <2> HIDE DEF content
  <2>6. ReadBehind'
    <3>1. pc' # "save"
      BY <2>1
    <3>2. ASSUME path \notin replaced
          PROVE  /\ pos' <= Len(Current(path))
                 /\ \A i \in 1..pos' : Done(Current(path)[i].line) \/ Current(path)[i] \in token'
      BY <2>1, <2>4, <2>5, <3>2
    <3>3. QED
      BY <1>0, <1>3, <1>5, <3>1, <3>2 DEF ReadBehind, Current
  <2>7. QED
    BY <1>0, <1>3, <2>3, <2>6, SameLogIInv
<1>7. CASE ~(pos < Len(content))
  <2>1. /\ pos' = pos /\ token' = token /\ eof' = TRUE
        /\ pc' = IF token = {} THEN "save" ELSE "insert"
    BY <1>7 DEF Read
  <2>2. ReaderTypes'
    <3>1. eof' \in BOOLEAN
      BY <2>1, Zenon
    <3>2. QED
      BY <1>0, <1>1, <2>1, <3>1 DEF IInv, Types, ReaderTypes
  <2>3. ReadBehind'
    <3>1. pc' = "save" => token' = {}
      BY <2>1
    <3>2. ASSUME path \notin replaced
          PROVE  /\ pos <= Len(Current(path))
                 /\ \A i \in 1..pos : Done(Current(path)[i].line) \/ Current(path)[i] \in token
      BY <1>0, <3>2 DEF IInv, ReadBehind
    <3>3. QED
      BY <1>0, <1>3, <1>5, <2>1, <3>1, <3>2 DEF ReadBehind, Current
  <2>4. QED
    BY <1>0, <1>3, <2>2, <2>3, SameLogIInv
<1>8. QED
  BY <1>6, <1>7

\* After a line is scanned, inserted or not, what the token held is done.
LEMMA ScannedIInv ==
  ASSUME IInv, Scanned, Continue, UNCHANGED <<log, left, path, file, pos, eof, offset, live, clock, faults>>,
         rows' \in Seq(Row),
         \A n : Ingested(n) => Ingested(n)',
         \A n \in Line : token = Whole(n) => Ingested(n)'
  PROVE  IInv'
<1>0. /\ UNCHANGED <<files, present, lines, written, replaced>> /\ pc = "insert" /\ Reading
      /\ token' = {} /\ torn' = torn \cup Splits(token) /\ pc' \in {"read", "save"}
      /\ UNCHANGED <<left, path, file, pos, eof, offset, live, clock, faults>>
  BY DEF log, Scanned, Reading, Continue
<1>1. /\ path \in Path /\ token \subseteq Half /\ torn \subseteq Line
      /\ file \in 1..Len(files[path])
  BY <1>0 DEF IInv, Types, ReaderTypes, RestTypes, FilesExist
<1>2. \A h \in Half : h.line \in Line
  BY DEF Half
<1>3. Splits(token) \subseteq Line
  BY <1>1, <1>2 DEF Splits
<1>4. ReaderTypes' /\ RestTypes'
  BY <1>0, <1>1, <1>3 DEF IInv, Types, ReaderTypes, RestTypes
<1>5. \A n : Done(n) => Done(n)'
  BY <1>0 DEF Done
<1>6. \A h \in token : Done(h.line)'
  <2>1. CASE IsWhole(token)
    <3>1. PICK n \in Line : token = Whole(n)
      BY <2>1 DEF IsWhole
    <3>2. \A h \in token : h.line = n
      BY <3>1 DEF Whole, FirstHalf, LastHalf
    <3>3. Done(n)'
      BY <3>1 DEF Done
    <3>4. QED
      BY <3>2, <3>3
  <2>2. CASE ~IsWhole(token)
    BY <1>0, <2>2 DEF Splits, Done
  <2>3. QED
    BY <2>1, <2>2
<1>7. ReadBehind'
  <2>1. ASSUME path \notin replaced
        PROVE  /\ pos <= Len(Current(path))
               /\ \A i \in 1..pos : Done(Current(path)[i].line) \/ Current(path)[i] \in token
    BY <1>0, <2>1 DEF IInv, ReadBehind
  <2>2. QED
    BY <1>0, <1>5, <1>6, <2>1 DEF ReadBehind, Current
<1>8. QED
  BY <1>0, <1>1, <1>4, <1>5, <1>7, SameLogIInv

\* Inserting the line at hand keeps the invariant.
LEMMA InsertNPMIInv ==
  ASSUME IInv, InsertNPM
  PROVE  IInv'
<1> DEFINE row == [path |-> path, halves |-> token, ts |-> clock]
<1>1. rows \in Seq(Row) /\ row \in Row
  BY DEF IInv, Types, ReaderTypes, RestTypes, Row
<1>2. rows' = Append(rows, row)
  BY DEF InsertNPM
<1> HIDE DEF row
<1>3. /\ rows' \in Seq(Row) /\ Len(rows') = Len(rows) + 1 /\ Len(rows) \in Nat
      /\ \A i \in 1..Len(rows) : rows'[i] = rows[i]
      /\ rows'[Len(rows) + 1] = row
  BY <1>1, <1>2, AppendProperties
<1>4. /\ DOMAIN rows = 1..Len(rows) /\ DOMAIN rows' = 1..(Len(rows) + 1)
      /\ DOMAIN rows \subseteq DOMAIN rows' /\ Len(rows) + 1 \in DOMAIN rows'
  BY <1>1, <1>3
<1>5. \A n : Ingested(n) => Ingested(n)'
  BY <1>3, <1>4 DEF Ingested
<1>6. \A n \in Line : token = Whole(n) => Ingested(n)'
  BY <1>3, <1>4 DEF Ingested, row
<1>7. QED
  BY <1>3, <1>5, <1>6, ScannedIInv DEF InsertNPM

\* Dropping a line that does not parse keeps the invariant.
LEMMA UnparsedIInv ==
  ASSUME IInv, Unparsed
  PROVE  IInv'
<1>1. rows' \in Seq(Row) /\ rows' = rows
  BY DEF Unparsed, IInv, Types, RestTypes
<1>2. \A n : Ingested(n) => Ingested(n)'
  BY <1>1 DEF Ingested
<1>3. \A n \in Line : token = Whole(n) => Ingested(n)'
  BY DEF Unparsed, IsWhole
<1>4. QED
  BY <1>1, <1>2, <1>3, ScannedIInv DEF Unparsed

\* Saving the position as the offset keeps the invariant.
LEMMA SaveOffsetIInv ==
  ASSUME IInv, SaveOffset
  PROVE  IInv'
<1>0. /\ pc = "save" /\ Reading /\ token = {} /\ offset' = [offset EXCEPT ![path] = pos]
      /\ file' = 0 /\ pos' = 0 /\ token' = {} /\ eof' = FALSE /\ pc' = "files"
      /\ UNCHANGED <<files, present, lines, written, replaced, rows, left, path, live, clock, faults, torn>>
  BY DEF SaveOffset, SavesOffset, CloseFile, log, Reading, IInv, ReadBehind
<1>1. path \in Path /\ pos \in Nat /\ offset \in [Path -> Nat]
  BY DEF IInv, Types, ReaderTypes, RestTypes
<1>2. LogTypes' /\ SoleFile' /\ FilesExist' /\ ReadBehind'
  BY <1>0 DEF IInv, Types, LogTypes, SoleFile, FilesExist, ReadBehind, Reading
<1>3. ReaderTypes'
  <2>1. eof' \in BOOLEAN
    BY <1>0, Zenon
  <2>2. QED
    BY <1>0, <1>1, <2>1 DEF IInv, Types, ReaderTypes
<1>4. RestTypes'
  <2>1. offset' \in [Path -> Nat]
    BY <1>0, <1>1
  <2>2. QED
    BY <1>0, <2>1 DEF IInv, Types, RestTypes
<1>5. OffsetBehind'
  <2>1. path \notin replaced => files[path] # <<>>
    BY <1>0, ReadsSoleFile
  <2>2. ASSUME NEW p \in Path \ replaced
        PROVE  /\ files[p] = <<>> => offset'[p] = 0
               /\ files[p] # <<>> => /\ offset'[p] <= Len(Current(p))
                                     /\ \A i \in 1..offset'[p] : Done(Current(p)[i].line)
    <3>1. CASE p = path
      BY <1>0, <1>1, <2>1, <2>2, <3>1 DEF IInv, ReadBehind
    <3>2. CASE p # path
      <4>1. offset'[p] = offset[p]
        BY <1>0, <1>1, <2>2, <3>2
      <4>2. QED
        BY <2>2, <4>1 DEF IInv, OffsetBehind
    <3>3. QED
      BY <3>1, <3>2
  <2>3. QED
    BY <1>0, <2>2 DEF OffsetBehind, Current, Done, Ingested
<1>6. QED
  BY <1>2, <1>3, <1>4, <1>5 DEF IInv, Types

\* A restart, which forgets the offsets, keeps the invariant.
LEMMA RestartIInv ==
  ASSUME IInv, Restart
  PROVE  IInv'
<1>0. /\ offset' = [p \in Path |-> 0] /\ live' = TRUE
      /\ file' = 0 /\ pos' = 0 /\ token' = {} /\ eof' = FALSE /\ pc' = "idle" /\ left' = {}
      /\ UNCHANGED <<files, present, lines, written, replaced, rows, path, clock, torn>>
      /\ faults < MaxFaults /\ faults' = faults + 1
  BY DEF Restart, CloseFile, log, Fault
<1>1. LogTypes' /\ SoleFile' /\ FilesExist' /\ ReadBehind'
  BY <1>0 DEF IInv, Types, LogTypes, SoleFile, FilesExist, ReadBehind, Reading
<1>2. ReaderTypes'
  <2>1. eof' \in BOOLEAN
    BY <1>0, Zenon
  <2>2. QED
    BY <1>0, <2>1 DEF IInv, Types, ReaderTypes
<1>3. RestTypes'
  <2>1. live' \in BOOLEAN
    BY <1>0, Zenon
  <2>2. faults' \in 0..MaxFaults
    BY <1>0, ConstantsAssumption DEF IInv, Types, RestTypes, ConstantsAssumption
  <2>3. QED
    BY <1>0, <2>1, <2>2 DEF IInv, Types, RestTypes
<1>4. OffsetBehind'
  <2>1. ASSUME NEW p \in Path, files[p] # <<>> PROVE 0 <= Len(Current(p))
    <3>1. files[p] \in Seq(Seq(Half))
      BY DEF IInv, Types, LogTypes
    <3>2. Len(files[p]) \in 1..Len(files[p])
      BY <2>1, <3>1
    <3>3. Current(p) \in Seq(Half)
      BY <3>1, <3>2 DEF Current
    <3>4. QED
      BY <3>3
  <2>2. QED
    BY <1>0, <2>1 DEF OffsetBehind, Current
<1>5. QED
  BY <1>1, <1>2, <1>3, <1>4 DEF IInv, Types

\* The other steps keep the invariant.
LEMMA OutsideStepsIInv ==
  ASSUME IInv, Collect \/ EndCollect \/ InsertFails \/ \E p \in Path : OpenFails(p)
  PROVE  IInv'
<1>1. UNCHANGED <<log, rows, torn, offset>> /\ pc' \in {"idle", "files"}
  BY DEF Collect, EndCollect, InsertFails, SavesOffset, OpenFails
<1>2. ReaderTypes'
  <2>1. CASE InsertFails
    <3>1. eof' \in BOOLEAN
      BY <2>1, Zenon DEF InsertFails, CloseFile
    <3>2. QED
      BY <2>1, <3>1 DEF InsertFails, CloseFile, IInv, Types, ReaderTypes
  <2>2. CASE Collect \/ EndCollect \/ \E p \in Path : OpenFails(p)
    BY <2>2 DEF Collect, EndCollect, OpenFails, IInv, Types, ReaderTypes
  <2>3. QED
    BY <2>1, <2>2
<1>3. faults' \in 0..MaxFaults
  <2>1. faults \in 0..MaxFaults /\ MaxFaults \in Nat
    BY ConstantsAssumption DEF IInv, Types, RestTypes, ConstantsAssumption
  <2>2. faults' = faults \/ (faults < MaxFaults /\ faults' = faults + 1)
    BY DEF Collect, EndCollect, InsertFails, OpenFails, Fault
  <2>3. QED
    BY <2>1, <2>2
<1>4. RestTypes'
  BY <1>1, <1>3 DEF Collect, EndCollect, InsertFails, OpenFails, IInv, Types, RestTypes
<1>5. QED
  BY <1>1, <1>2, <1>4, OutsideIInv

\* Steps that concern neither the log nor the collector.
LEMMA BesideIInv ==
  ASSUME IInv, Cancel \/ Tick \/ UNCHANGED vars
  PROVE  IInv'
<1>1. UNCHANGED <<log, rows, reader, offset, torn>>
  BY DEF Cancel, Tick, vars
<1>2. live' \in BOOLEAN
  <2>1. CASE Cancel
    BY <2>1, Zenon DEF Cancel
  <2>2. CASE Tick \/ UNCHANGED vars
    BY <2>2 DEF Tick, vars, IInv, Types, RestTypes
  <2>3. QED
    BY <2>1, <2>2
<1>3. clock' \in 0..MaxClock /\ faults' \in 0..MaxFaults
  BY ConstantsAssumption DEF Cancel, Tick, Fault, vars, IInv, Types, RestTypes, ConstantsAssumption
<1>4. ReaderTypes' /\ RestTypes'
  BY <1>1, <1>2, <1>3 DEF IInv, Types, ReaderTypes, RestTypes, reader
<1>5. (Reading' => file' \in 1..Len(files[path'])) /\ \A n : Done(n) => Done(n)'
  BY <1>1 DEF IInv, FilesExist, Reading, reader, Done, Ingested
<1>6. ReadBehind'
  BY <1>1 DEF IInv, ReadBehind, Reading, reader, log, Current, Done, Ingested
<1>7. QED
  BY <1>1, <1>4, <1>5, <1>6, SameLogIInv

-----------------------------------------------------------------------------
(* The theorems.                                                           *)

\* The invariant holds at the start.
LEMMA InitIInv == Init => IInv
<1> SUFFICES ASSUME Init PROVE IInv
  OBVIOUS
<1>1. eof \in BOOLEAN /\ live \in BOOLEAN
  BY Zenon DEF Init
<1>2. present \in [Path -> BOOLEAN]
  <2>1. \A p \in Path : FALSE \in BOOLEAN
    BY Zenon
  <2>2. QED
    BY <2>1, Zenon DEF Init
<1>3. LogTypes
  BY <1>2, ConstantsAssumption DEF Init, LogTypes, ConstantsAssumption
<1>4. ReaderTypes
  BY <1>1 DEF Init, ReaderTypes
<1>5. RestTypes
  BY <1>1, ConstantsAssumption DEF Init, RestTypes, ConstantsAssumption
<1>6. FilesExist /\ SoleFile /\ OffsetBehind /\ ReadBehind
  BY DEF Init, FilesExist, SoleFile, OffsetBehind, ReadBehind, Reading
<1>7. QED
  BY <1>3, <1>4, <1>5, <1>6 DEF IInv, Types

\* IInv is inductive.
LEMMA NextIInv == IInv /\ [Next]_vars => IInv'
<1> SUFFICES ASSUME IInv, [Next]_vars PROVE IInv'
  OBVIOUS
<1>1. CASE \E p \in Path : CreateFile(p) \/ RenameAway(p) \/ Truncate(p) \/ WriteLine(p) \/ FinishLine(p)
  <2>1. LogStep
    BY <1>1 DEF LogStep, CreateFile, RenameAway, Truncate, WriteLine, FinishLine
  <2>2. QED
    BY <2>1, LogStepIInv
<1>2. CASE \E p \in Path : OpenFile(p)
  BY <1>2, OpenFileIInv
<1>3. CASE Collect \/ EndCollect \/ InsertFails \/ \E p \in Path : OpenFails(p)
  BY <1>3, OutsideStepsIInv
<1>4. CASE Read
  BY <1>4, ReadIInv
<1>5. CASE InsertNPM
  BY <1>5, InsertNPMIInv
<1>6. CASE Unparsed
  BY <1>6, UnparsedIInv
<1>7. CASE SaveOffset
  BY <1>7, SaveOffsetIInv
<1>8. CASE Restart
  BY <1>8, RestartIInv
<1>9. CASE Cancel \/ Tick \/ UNCHANGED vars
  BY <1>9, BesideIInv
<1>10. QED
  BY <1>1, <1>2, <1>3, <1>4, <1>5, <1>6, <1>7, <1>8, <1>9 DEF Next, CollectorStep

\* IInv is an invariant.
LEMMA Inductive == Spec => []IInv
<1>1. QED
  BY InitIInv, NextIInv, PTL DEF Spec

\* The variables of the collector and of the log keep their types
\* (npm.go:35-115), whatever is rotated, truncated or torn.
THEOREM TypeCorrect == Spec => []TypeOK
<1>1. IInv => TypeOK
  BY TypesTogether DEF IInv
<1>2. QED
  BY <1>1, Inductive, PTL

\* No line is forgotten: what lies behind a saved offset has its row or was
\* read cut in two, through failed inserts, cancellations and restarts
\* (npm.go:52-88), for any number of paths, lines and faults.
THEOREM NothingForgotten == Spec => []NothingSkipped
<1>1. IInv => NothingSkipped
  <2> SUFFICES ASSUME IInv, NEW p \in Path \ replaced, NEW i \in 1..offset[p]
               PROVE  Done(Current(p)[i].line)
    BY DEF NothingSkipped, Done
  <2>1. offset[p] \in Nat /\ offset[p] # 0
    BY DEF IInv, Types, RestTypes
  <2>2. QED
    BY <2>1 DEF IInv, OffsetBehind
<1>2. QED
  BY <1>1, Inductive, PTL
================================================================================
