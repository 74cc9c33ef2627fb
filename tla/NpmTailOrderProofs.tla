----------------------------- MODULE NpmTailOrderProofs -----------------------------
(***************************************************************************)
(* Proofs about what NpmTail reads, for any paths, lines, files and faults:  *)
(* each fault repeats a half at most once, and starts one more run of rows   *)
(* in order.  The argument is one order on the halves: the files of a path   *)
(* are sorted by it, so that every half has one place, and what has been     *)
(* read of the path comes before what may still be read of it.               *)
(***************************************************************************)
EXTENDS NpmTailProofs, FiniteSetTheorems

Before(g, h) == g.line < h.line \/ (g.line = h.line /\ ~g.newline /\ h.newline)

\* The halves of a path that have been read.
Seen(p) ==
  {h \in Half : \/ \E i \in DOMAIN rows : rows[i].path = p /\ h \in rows[i].halves
                \/ p = path /\ h \in token}

\* All halves that are known of a path.
OfPath(p) ==
  Seen(p) \cup {h \in Half : \E f \in DOMAIN files[p] : \E i \in DOMAIN files[p][f] : h = files[p][f][i]}

From(length, start) == IF length < start THEN 0 ELSE start

\* The i-th half of file f of p may still be read.
Unread(p, f, i) ==
  IF Reading /\ path = p
  THEN f > file \/ (f = file /\ i > From(Len(files[p][f]), pos))
  ELSE f = Len(files[p]) /\ i > From(Len(files[p][f]), offset[p])

\* The files of a path, one after the other, are sorted.
Sorted ==
  \A p \in Path : \A f, g \in DOMAIN files[p] :
    \A i \in DOMAIN files[p][f], j \in DOMAIN files[p][g] :
      f < g \/ (f = g /\ i < j) => Before(files[p][f][i], files[p][g][j])

\* Nothing read of a path comes after the last half of its last file.
SeenWritten ==
  \A p \in Path : \A x \in Seen(p), f \in DOMAIN files[p] : \A i \in DOMAIN files[p][f] :
    f = Len(files[p]) /\ i = Len(files[p][f]) => x = files[p][f][i] \/ Before(x, files[p][f][i])

LinesKnown == \A p \in Path : \A h \in OfPath(p) : h.line <= lines

\* No line is written to two paths.
OwnLines == \A p, q \in Path : p # q => \A g \in OfPath(p), h \in OfPath(q) : g.line # h.line

\* What holds of the halves written and read, whatever fails.
LogOrdered == Sorted /\ SeenWritten /\ LinesKnown /\ OwnLines

\* No cut falls between rows i and j.
SameRun(cuts, i, j) == \A k \in cuts : ~(i < k /\ k <= j)

\* The row is in the last run: no cut comes after it.
Lately(cuts, i) == \A k \in cuts : k <= i

\* The halves of a path that have been read in the last run.
SeenLately(cuts, p) ==
  {h \in Half : \/ \E i \in DOMAIN rows : Lately(cuts, i) /\ rows[i].path = p /\ h \in rows[i].halves
                \/ p = path /\ h \in token}

\* What has been read of a path in this run comes before what may still be read of it.
SeenFirst(cuts) ==
  \A p \in Path : \A x \in SeenLately(cuts, p), f \in DOMAIN files[p] : \A i \in DOMAIN files[p][f] :
    Unread(p, f, i) => Before(x, files[p][f][i])

TokenLast(cuts) ==
  \A i \in DOMAIN rows :
    Lately(cuts, i) /\ rows[i].path = path => \A g \in rows[i].halves, h \in token : Before(g, h)

RowsSorted(cuts) ==
  \A i, j \in DOMAIN rows :
    i < j /\ rows[i].path = rows[j].path /\ SameRun(cuts, i, j) =>
      \A g \in rows[i].halves, h \in rows[j].halves : Before(g, h)

\* The cuts are where a fault made the collector start over.  Once the context is done no row is
\* inserted before the restart, which is a cut.
InOrder(cuts) == RowsSorted(cuts) /\ (live => SeenFirst(cuts) /\ TokenLast(cuts))

InRuns ==
  \E cuts \in SUBSET (1..Len(rows) + 1) : Cardinality(cuts) <= faults /\ InOrder(cuts)

-----------------------------------------------------------------------------
(* The order.                                                              *)

\* Before is a strict order that refines the order of the lines.
LEMMA BeforeIsAnOrder ==
  /\ \A g \in Half : ~Before(g, g)
  /\ \A g, h, k \in Half : Before(g, h) /\ Before(h, k) => Before(g, k)
  /\ \A g, h \in Half : g.line < h.line => Before(g, h)
  /\ \A g, h \in Half : Before(g, h) => g.line <= h.line /\ g # h
BY DEF Before, Half, Line

\* Where the halves of a file are, and that they are halves.
LEMMA HalvesPlaced ==
  ASSUME Types, NEW p \in Path
  PROVE  /\ Len(files[p]) \in Nat /\ DOMAIN files[p] = 1..Len(files[p])
         /\ \A f \in DOMAIN files[p] :
              /\ Len(files[p][f]) \in Nat /\ DOMAIN files[p][f] = 1..Len(files[p][f])
              /\ \A i \in DOMAIN files[p][f] : files[p][f][i] \in Half /\ files[p][f][i] \in OfPath(p)
<1>1. files[p] \in Seq(Seq(Half))
  BY DEF Types, LogTypes
<1>2. ASSUME NEW f \in DOMAIN files[p]
      PROVE  files[p][f] \in Seq(Half)
  BY <1>1
<1>3. ASSUME NEW f \in DOMAIN files[p]
      PROVE  /\ Len(files[p][f]) \in Nat /\ DOMAIN files[p][f] = 1..Len(files[p][f])
             /\ \A i \in DOMAIN files[p][f] : files[p][f][i] \in Half
  BY <1>2, <1>3
<1>4. ASSUME NEW f \in DOMAIN files[p], NEW i \in DOMAIN files[p][f]
      PROVE  files[p][f][i] \in OfPath(p)
  BY <1>3, <1>4 DEF OfPath
<1>5. QED
  BY <1>1, <1>3, <1>4

-----------------------------------------------------------------------------
(* What may still be read.                                                 *)

\* A step that leaves the log alone makes nothing unread.
NoneUnread ==
  /\ UNCHANGED log
  /\ \A q \in Path : \A f \in DOMAIN files[q] : \A i \in DOMAIN files[q][f] :
       Unread(q, f, i)' => Unread(q, f, i)

\* A step that leaves the log and the place of the reader alone.
LEMMA StillUnread ==
  ASSUME UNCHANGED <<log, path, file, pos, offset>>, Reading' <=> Reading
  PROVE  NoneUnread
<1>0. files' = files
  BY DEF log
<1>1. QED
  BY <1>0 DEF NoneUnread, Unread

\* Opening a file: what is behind its start offset was not unread.
LEMMA OpenFileUnread ==
  ASSUME IInv, NEW p \in Path, OpenFile(p)
  PROVE  NoneUnread
<1>0. /\ UNCHANGED log /\ files' = files /\ offset' = offset
      /\ pc = "files" /\ pc' = "read" /\ path' = p /\ file' = Len(files[p]) /\ pos' = StartOffset(p)
  BY DEF OpenFile, log
<1>1. ASSUME NEW q \in Path, NEW f \in DOMAIN files[q], NEW i \in DOMAIN files[q][f], Unread(q, f, i)'
      PROVE  Unread(q, f, i)
  <2>1. ~Reading /\ Reading'
    BY <1>0 DEF Reading
  <2>2. CASE q # p
    BY <1>0, <1>1, <2>1, <2>2 DEF Unread
  <2>3. CASE q = p
    <3>1. f > Len(files[p]) \/ (f = Len(files[p]) /\ i > From(Len(files[p][f]), StartOffset(p)))
      BY <1>0, <1>1, <2>1, <2>3 DEF Unread
    <3>2. Len(files[p]) \in Nat /\ f \in 1..Len(files[p]) /\ Len(files[p][f]) \in Nat /\ offset[p] \in Nat
      BY <2>3, HalvesPlaced DEF IInv, Types, RestTypes
    <3>3. f = Len(files[p]) /\ i > From(Len(files[p][f]), StartOffset(p))
      BY <3>1, <3>2
    <3>4. StartOffset(p) = From(Len(files[p][f]), offset[p])
      BY <3>3 DEF StartOffset, From, Current
    <3>5. i > From(Len(files[p][f]), offset[p])
      BY <3>2, <3>3, <3>4 DEF From
    <3>6. QED
      BY <2>1, <2>3, <3>3, <3>5 DEF Unread
  <2>4. QED
    BY <2>2, <2>3
<1>2. QED
  BY <1>0, <1>1 DEF NoneUnread

\* Saving the position hands what was read to the offset.
LEMMA SaveOffsetUnread ==
  ASSUME IInv, SaveOffset
  PROVE  NoneUnread
<1>0. /\ UNCHANGED log /\ files' = files
      /\ offset' = [offset EXCEPT ![path] = pos] /\ Reading /\ ~Reading'
  BY DEF SaveOffset, SavesOffset, Reading, log
<1>1. ASSUME NEW q \in Path, NEW f \in DOMAIN files[q], NEW i \in DOMAIN files[q][f], Unread(q, f, i)'
      PROVE  Unread(q, f, i)
  <2>1. offset \in [Path -> Nat] /\ path \in Path /\ file \in 1..Len(files[path]) /\ pos \in Nat
    BY <1>0 DEF IInv, Types, RestTypes, ReaderTypes, FilesExist
  <2>2. f = Len(files[q]) /\ i > From(Len(files[q][f]), offset'[q])
    BY <1>0, <1>1 DEF Unread
  <2>3. CASE q # path
    <3>1. offset'[q] = offset[q]
      BY <1>0, <2>1, <2>3
    <3>2. QED
      BY <2>2, <2>3, <3>1 DEF Unread
  <2>4. CASE q = path
    <3>1. offset'[q] = pos
      BY <1>0, <2>1, <2>4
    <3>2. Len(files[path]) \in Nat
      BY <2>1, HalvesPlaced DEF IInv
    <3>3. f > file \/ f = file
      BY <2>1, <2>2, <2>4, <3>2
    <3>4. QED
      BY <1>0, <2>2, <2>4, <3>1, <3>3 DEF Unread
  <2>5. QED
    BY <2>3, <2>4
<1>2. QED
  BY <1>0, <1>1 DEF NoneUnread

\* The scanner takes the first of the halves unread, or none.
LEMMA ReadUnread ==
  ASSUME IInv, Read
  PROVE  /\ NoneUnread /\ files' = files /\ rows' = rows /\ path' = path /\ live' = live
         /\ Reading /\ path \in Path /\ file \in DOMAIN files[path]
         /\ \/ token' = token
            \/ /\ pos + 1 \in DOMAIN files[path][file]
               /\ token' = token \cup {files[path][file][pos + 1]}
               /\ Unread(path, file, pos + 1)
               /\ \A f \in DOMAIN files[path] : \A i \in DOMAIN files[path][f] :
                    Unread(path, f, i)' => file < f \/ (file = f /\ pos + 1 < i)
<1> DEFINE content == files[path][file]
<1>0. /\ files' = files /\ UNCHANGED log /\ rows' = rows /\ offset' = offset
      /\ live' = live /\ path' = path /\ file' = file /\ Reading /\ Reading'
  BY DEF Read, log, Reading
<1>1. /\ path \in Path /\ file \in Nat /\ file \in DOMAIN files[path] /\ pos \in Nat
      /\ Len(files[path]) \in Nat /\ DOMAIN files[path] = 1..Len(files[path])
      /\ Len(content) \in Nat /\ DOMAIN content = 1..Len(content)
  BY <1>0, HalvesPlaced DEF IInv, Types, ReaderTypes, FilesExist
<1>2. CASE ~(pos < Len(content))
  <2>1. pos' = pos /\ token' = token
    BY <1>2 DEF Read
  <2>2. NoneUnread
    BY <1>0, <2>1, StillUnread
  <2>3. QED
    BY <1>0, <1>1, <2>1, <2>2
<1>3. CASE pos < Len(content)
  <2>1. pos' = pos + 1 /\ token' = token \cup {content[pos + 1]}
    BY <1>3 DEF Read
  <2>2. pos + 1 \in DOMAIN content /\ Unread(path, file, pos + 1)
    BY <1>0, <1>1, <1>3 DEF Unread, From
  <2>3. ASSUME NEW f \in DOMAIN files[path], NEW i \in DOMAIN files[path][f], Unread(path, f, i)'
        PROVE  Unread(path, f, i) /\ (file < f \/ (file = f /\ pos + 1 < i))
    <3>1. Len(files[path][f]) \in Nat /\ i \in Nat /\ f \in Nat
      BY <1>1, HalvesPlaced DEF IInv
    <3>2. f > file \/ (f = file /\ i > From(Len(files[path][f]), pos + 1))
      BY <1>0, <2>1, <2>3 DEF Unread
    <3>3. f = file => From(Len(files[path][f]), pos + 1) = pos + 1 /\ From(Len(files[path][f]), pos) = pos
      BY <1>1, <1>3, <3>1 DEF From
    <3>4. f > file \/ (f = file /\ i > pos + 1)
      BY <3>2, <3>3
    <3>5. f > file \/ (f = file /\ i > From(Len(files[path][f]), pos))
      BY <1>1, <3>1, <3>3, <3>4
    <3>6. QED
      BY <1>0, <1>1, <3>1, <3>4, <3>5 DEF Unread
  <2>4. \A q \in Path \ {path} : \A f, i : Unread(q, f, i)' => Unread(q, f, i)
    BY <1>0 DEF Unread
  <2>5. NoneUnread
    BY <1>0, <2>3, <2>4 DEF NoneUnread
  <2>6. QED
    BY <1>0, <1>1, <2>1, <2>2, <2>3, <2>5
<1>4. QED
  BY <1>2, <1>3

-----------------------------------------------------------------------------
(* The log.                                                                *)

\* A step leaves a half where it is, and not unread if it was not.
Kept(q, f, i) ==
  /\ f \in DOMAIN files[q] /\ i \in DOMAIN files[q][f]
  /\ files'[q][f][i] = files[q][f][i]
  /\ f = Len(files'[q]) => f = Len(files[q])
  /\ i = Len(files'[q][f]) => i = Len(files[q][f])
  /\ Unread(q, f, i)' => Unread(q, f, i)

\* All that a step puts in the files is halves at the end of the last one of p.
Grows(p, halves) ==
  \A q \in Path : \A f \in DOMAIN files'[q] : \A i \in DOMAIN files'[q][f] :
    \/ Kept(q, f, i)
    \/ /\ q = p /\ f \in DOMAIN files[p] /\ f = Len(files[p])
       /\ \E k \in DOMAIN halves : i = Len(files[p][f]) + k /\ files'[p][f][i] = halves[k]

\* A half that stays where it was keeps what is known of it.
LEMMA StaysKept ==
  ASSUME IInv, UNCHANGED <<reader, offset>>, NEW q \in Path,
         NEW f \in DOMAIN files[q], NEW i \in DOMAIN files[q][f],
         files'[q][f][i] = files[q][f][i],
         Len(files'[q][f]) \in Nat, Len(files'[q][f]) >= Len(files[q][f]),
         f = Len(files'[q]) => f = Len(files[q])
  PROVE  Kept(q, f, i)
<1>0. /\ path' = path /\ file' = file /\ pos' = pos /\ offset' = offset /\ (Reading' <=> Reading)
      /\ pos \in Nat /\ offset[q] \in Nat
  BY DEF reader, Reading, IInv, Types, ReaderTypes, RestTypes
<1>1. Len(files[q][f]) \in Nat /\ i \in 1..Len(files[q][f])
  BY HalvesPlaced DEF IInv
<1>2. i = Len(files'[q][f]) => i = Len(files[q][f])
  BY <1>1
<1>3. \A start \in Nat : i > From(Len(files'[q][f]), start) => i > From(Len(files[q][f]), start)
  BY <1>1 DEF From
<1>4. Unread(q, f, i)' => Unread(q, f, i)
  <2>1. CASE Reading /\ path = q
    BY <1>0, <1>3, <2>1 DEF Unread
  <2>2. CASE ~(Reading /\ path = q)
    BY <1>0, <1>3, <2>2 DEF Unread
  <2>3. QED
    BY <2>1, <2>2
<1>5. QED
  BY <1>2, <1>4 DEF Kept

\* The halves that a step may write: of a new line, or the rest of the last one.
Fresh(p, halves) ==
  /\ halves \in Seq(Half) /\ lines <= lines'
  /\ \A k \in DOMAIN halves :
       /\ halves[k].line <= lines'
       /\ \/ halves[k].line > lines
          \/ \E f \in DOMAIN files[p] : \E i \in DOMAIN files[p][f] :
               /\ f = Len(files[p]) /\ i = Len(files[p][f])
               /\ halves[k].line = files[p][f][i].line
               /\ halves[k].newline /\ ~files[p][f][i].newline
  /\ \A k, l \in DOMAIN halves : k < l => Before(halves[k], halves[l])

\* What is written to a path comes after what the log holds.
LEMMA WritesFresh ==
  ASSUME IInv, LinesKnown, NEW p \in Path, WriteLine(p) \/ FinishLine(p)
  PROVE  \E halves \in Seq(Half) : Append2(p, halves) /\ Fresh(p, halves)
<1>0. /\ files[p] # <<>> /\ Len(files[p]) \in Nat /\ DOMAIN files[p] = 1..Len(files[p])
      /\ files[p] \in Seq(Seq(Half)) /\ lines \in 0..MaxLines
  BY HalvesPlaced DEF WriteLine, FinishLine, IInv, Types, LogTypes, FilesExist
<1>1. CASE WriteLine(p)
  <2> DEFINE n == lines + 1
  <2>1. lines' = n /\ n \in Line /\ lines < n
    BY <1>0, <1>1, ConstantsAssumption DEF WriteLine, Line, ConstantsAssumption
  <2>2. Append2(p, <<FirstHalf(n), LastHalf(n)>>) \/ Append2(p, <<FirstHalf(n)>>)
    BY <1>1, <2>1 DEF WriteLine
  <2> HIDE DEF n
  <2>3. <<FirstHalf(n), LastHalf(n)>> \in Seq(Half) /\ <<FirstHalf(n)>> \in Seq(Half)
    BY <2>1, HalvesWritten
  <2>4. /\ FirstHalf(n).line = n /\ LastHalf(n).line = n /\ Before(FirstHalf(n), LastHalf(n))
        /\ n <= lines' /\ n > lines /\ lines <= lines'
    BY <1>0, <2>1 DEF FirstHalf, LastHalf, Before, Line
  <2>5. Fresh(p, <<FirstHalf(n), LastHalf(n)>>)
    <3> DEFINE both == <<FirstHalf(n), LastHalf(n)>>
    <3>1. DOMAIN both = 1..2 /\ both[1] = FirstHalf(n) /\ both[2] = LastHalf(n)
      OBVIOUS
    <3>2. \A k \in DOMAIN both : both[k].line = n
      BY <2>4, <3>1
    <3>3. \A k, l \in DOMAIN both : k < l => k = 1 /\ l = 2
      BY <3>1
    <3> HIDE DEF both
    <3>4. \A k, l \in DOMAIN both : k < l => Before(both[k], both[l])
      BY <2>4, <3>1, <3>3
    <3>5. QED
      BY <2>3, <2>4, <3>2, <3>4 DEF Fresh, both
  <2>6. Fresh(p, <<FirstHalf(n)>>)
    <3> DEFINE one == <<FirstHalf(n)>>
    <3>1. DOMAIN one = 1..1 /\ one[1] = FirstHalf(n)
      OBVIOUS
    <3>2. \A k \in DOMAIN one : k = 1 /\ one[k].line = n
      BY <2>4, <3>1
    <3> HIDE DEF one
    <3>3. \A k, l \in DOMAIN one : k < l => Before(one[k], one[l])
      BY <3>2
    <3>4. QED
      BY <2>3, <2>4, <3>2, <3>3 DEF Fresh, one
  <2>7. QED
    BY <2>2, <2>3, <2>5, <2>6, Zenon
<1>2. CASE FinishLine(p)
  <2> DEFINE f == Len(files[p])
             i == Len(files[p][f])
             last == files[p][f][i]
             one == <<LastHalf(last.line)>>
  <2>1. f \in DOMAIN files[p] /\ files[p][f] \in Seq(Half)
    BY <1>0
  <2>2. Append2(p, one) /\ lines' = lines /\ ~last.newline /\ files[p][f] # <<>>
    BY <1>2 DEF FinishLine, MidLine, Current
  <2>3. i \in DOMAIN files[p][f] /\ last \in Half /\ last \in OfPath(p)
    <3>1. i \in DOMAIN files[p][f]
      <4> HIDE DEF f
      <4>1. QED
        BY <2>1, <2>2
    <3>2. QED
      BY <2>1, <3>1, HalvesPlaced DEF IInv
  <2> HIDE DEF last
  <2>4. last.line \in Line
    BY <2>3 DEF Half
  <2>5. one \in Seq(Half) /\ DOMAIN one = 1..1 /\ one[1] = LastHalf(last.line)
    BY <2>4, HalvesWritten
  <2>6. \A k \in DOMAIN one : k = 1 /\ one[k].line = last.line /\ one[k].newline
    BY <2>5 DEF LastHalf
  <2>7. last.line <= lines
    BY <2>3 DEF LinesKnown
  <2>8. \A k \in DOMAIN one :
          /\ one[k].line <= lines'
          /\ one[k].line = files[p][f][i].line /\ one[k].newline /\ ~files[p][f][i].newline
    BY <2>2, <2>6, <2>7 DEF last
  <2>9. \A k, l \in DOMAIN one : k < l => Before(one[k], one[l])
    BY <2>6
  <2>10. lines <= lines'
    BY <1>0, <2>2
  <2> HIDE DEF one
  <2>11. Fresh(p, one)
    BY <2>1, <2>3, <2>5, <2>8, <2>9, <2>10 DEF Fresh
  <2>12. QED
    BY <2>2, <2>5, <2>11
<1>3. QED
  BY <1>1, <1>2

\* The lengths of files are naturals.
LEMMA Lengths ==
  ASSUME NEW fs \in [Path -> Seq(Seq(Half))], NEW p \in Path
  PROVE  /\ Len(fs[p]) \in Nat /\ DOMAIN fs[p] = 1..Len(fs[p])
         /\ \A f \in DOMAIN fs[p] :
              Len(fs[p][f]) \in Nat /\ DOMAIN fs[p][f] = 1..Len(fs[p][f]) /\ fs[p][f] \in Seq(Half)
<1>1. fs[p] \in Seq(Seq(Half))
  OBVIOUS
<1>2. ASSUME NEW f \in DOMAIN fs[p]
      PROVE  Len(fs[p][f]) \in Nat /\ DOMAIN fs[p][f] = 1..Len(fs[p][f]) /\ fs[p][f] \in Seq(Half)
  <2>1. fs[p][f] \in Seq(Half)
    BY <1>1
  <2>2. QED
    BY <2>1
<1>3. QED
  BY <1>1, <1>2

\* A step of nginx or logrotate adds fresh halves to one path, or none.
LEMMA LogGrows ==
  ASSUME IInv, LinesKnown, LogStep
  PROVE  \E p \in Path : \E halves \in Seq(Half) : Grows(p, halves) /\ Fresh(p, halves)
<1>0. files \in [Path -> Seq(Seq(Half))] /\ files' \in [Path -> Seq(Seq(Half))] /\ lines \in 0..MaxLines
  BY LogTypesKept DEF IInv, Types, LogTypes
<1>1. UNCHANGED <<reader, offset>>
  BY DEF LogStep
<1>2. PICK p \in Path : CreateFile(p) \/ RenameAway(p) \/ Truncate(p) \/ WriteLine(p) \/ FinishLine(p)
  BY DEF LogStep
<1>3. ASSUME NEW q \in Path, files'[q] = files[q], NEW f \in DOMAIN files'[q], NEW i \in DOMAIN files'[q][f]
      PROVE  Kept(q, f, i)
  <2>1. /\ f \in DOMAIN files[q] /\ i \in DOMAIN files[q][f]
        /\ Len(files'[q][f]) \in Nat /\ Len(files'[q][f]) = Len(files[q][f])
    BY <1>0, <1>3, Lengths
  <2>2. Len(files'[q][f]) >= Len(files[q][f]) /\ files'[q][f][i] = files[q][f][i]
    BY <1>3, <2>1
  <2>3. QED
    BY <1>1, <1>3, <2>1, <2>2, StaysKept
<1>4. CASE CreateFile(p) \/ RenameAway(p) \/ Truncate(p)
  <2>1. lines' = lines /\ <<>> \in Seq(Half)
    BY <1>4 DEF CreateFile, RenameAway, Truncate
  <2>2. Fresh(p, <<>>)
    BY <1>0, <2>1 DEF Fresh
  <2>3. CASE CreateFile(p)
    <3> DEFINE fs == files[p]
    <3>1. files' = [files EXCEPT ![p] = Append(@, <<>>)]
      BY <2>3 DEF CreateFile
    <3>2. fs \in Seq(Seq(Half)) /\ Len(fs) \in Nat /\ files'[p] = Append(fs, <<>>)
      BY <1>0, <3>1
    <3>3. \A q \in Path \ {p} : files'[q] = files[q]
      BY <1>0, <3>1
    <3> HIDE DEF fs
    <3>4. /\ Len(files'[p]) = Len(fs) + 1 /\ files'[p][Len(fs) + 1] = <<>>
          /\ \A f \in 1..Len(fs) : files'[p][f] = fs[f]
      BY <2>1, <3>2, AppendProperties
    <3>5. ASSUME NEW f \in DOMAIN files'[p], NEW i \in DOMAIN files'[p][f] PROVE Kept(p, f, i)
      <4>1. f \in 1..Len(files'[p]) /\ DOMAIN files'[p][f] = 1..Len(files'[p][f])
        BY <1>0, <3>5, Lengths
      <4>2. f # Len(fs) + 1
        BY <3>4, <3>5, <4>1
      <4>3. f \in 1..Len(fs)
        BY <3>2, <3>4, <4>1, <4>2
      <4>4. f \in DOMAIN files[p] /\ files'[p][f] = files[p][f] /\ f # Len(files'[p])
        BY <3>2, <3>4, <4>3, SMTT(30) DEF fs
      <4>5. Len(files[p][f]) \in Nat
        BY <1>0, <4>4, Lengths
      <4>6. QED
        BY <1>1, <3>5, <4>4, <4>5, StaysKept
    <3>6. Grows(p, <<>>)
      BY <1>3, <3>3, <3>5 DEF Grows
    <3>7. QED
      BY <2>1, <2>2, <3>6
  <2>4. CASE RenameAway(p)
    <3>1. Grows(p, <<>>)
      BY <1>3, <2>4 DEF Grows, RenameAway
    <3>2. QED
      BY <2>1, <2>2, <3>1
  <2>5. CASE Truncate(p)
    <3>1. /\ \A q \in Path : Len(files'[q]) = Len(files[q])
          /\ \A q \in Path \ {p} : files'[q] = files[q]
          /\ \A f \in 1..Len(files[p]) : files'[p][f] = IF f = Len(files[p]) THEN <<>> ELSE files[p][f]
      <4>1. files[p] # <<>> /\ files' = [files EXCEPT ![p][Len(files[p])] = <<>>]
        BY <2>5 DEF Truncate, IInv, FilesExist
      <4>2. QED
        BY <2>1, <4>1, LastFileReplaced DEF IInv, Types
    <3>2. ASSUME NEW f \in DOMAIN files'[p], NEW i \in DOMAIN files'[p][f] PROVE Kept(p, f, i)
      <4>1. f \in 1..Len(files[p]) /\ f \in DOMAIN files[p]
        BY <1>0, <3>1, <3>2, Lengths
      <4>2. files'[p][f] # <<>>
        BY <3>2
      <4>3. files'[p][f] = files[p][f] /\ Len(files[p][f]) \in Nat
        BY <1>0, <3>1, <4>1, <4>2, Lengths
      <4>4. QED
        BY <1>1, <3>1, <3>2, <4>1, <4>3, StaysKept
    <3>3. Grows(p, <<>>)
      BY <1>3, <3>1, <3>2 DEF Grows
    <3>4. QED
      BY <2>1, <2>2, <3>3
  <2>6. QED
    BY <1>4, <2>3, <2>4, <2>5
<1>5. CASE WriteLine(p) \/ FinishLine(p)
  <2>1. PICK halves \in Seq(Half) : Append2(p, halves) /\ Fresh(p, halves)
    BY <1>5, WritesFresh
  <2>2. files[p] # <<>> /\ Len(files[p]) \in Nat /\ Len(files[p]) \in DOMAIN files[p]
    <3>1. files[p] # <<>> /\ files[p] \in Seq(Seq(Half))
      BY <1>0, <1>5 DEF WriteLine, FinishLine, IInv, FilesExist
    <3>2. QED
      BY <3>1
  <2>3. /\ \A q \in Path : Len(files'[q]) = Len(files[q])
        /\ \A q \in Path \ {p} : files'[q] = files[q]
        /\ \A f \in 1..Len(files[p]) : f # Len(files[p]) => files'[p][f] = files[p][f]
        /\ files'[p][Len(files[p])] = files[p][Len(files[p])] \o halves
    BY <2>1, <2>2, Appended DEF IInv, Types, Current
  <2> DEFINE last == files[p][Len(files[p])]
  <2>4. last \in Seq(Half) /\ Len(last) \in Nat /\ Len(halves) \in Nat /\ DOMAIN halves = 1..Len(halves)
        /\ DOMAIN last = 1..Len(last)
    BY <1>0, <2>2, Lengths
  <2> HIDE DEF last
  <2>5. /\ Len(last \o halves) = Len(last) + Len(halves)
        /\ \A i \in 1..Len(last) : (last \o halves)[i] = last[i]
        /\ \A k \in 1..Len(halves) : (last \o halves)[Len(last) + k] = halves[k]
    BY <2>4, ConcatProperties
  <2>6. ASSUME NEW f \in DOMAIN files'[p], NEW i \in DOMAIN files'[p][f]
        PROVE  \/ Kept(p, f, i)
               \/ /\ f \in DOMAIN files[p] /\ f = Len(files[p])
                  /\ \E k \in DOMAIN halves : i = Len(files[p][f]) + k /\ files'[p][f][i] = halves[k]
    <3>1. /\ f \in DOMAIN files[p] /\ f \in 1..Len(files[p])
          /\ i \in 1..Len(files'[p][f]) /\ Len(files'[p][f]) \in Nat
      BY <1>0, <2>3, <2>6, Lengths
    <3>2. CASE f # Len(files[p])
      <4>1. files'[p][f] = files[p][f] /\ Len(files[p][f]) \in Nat
        BY <1>0, <2>3, <3>1, <3>2, Lengths
      <4>2. i \in DOMAIN files[p][f] /\ files'[p][f][i] = files[p][f][i]
        BY <2>6, <4>1
      <4>3. Len(files'[p][f]) \in Nat /\ Len(files'[p][f]) >= Len(files[p][f])
        BY <4>1
      <4>4. f = Len(files'[p]) => f = Len(files[p])
        BY <2>3
      <4>5. Kept(p, f, i)
        BY <1>1, <3>1, <4>2, <4>3, <4>4, StaysKept
      <4>6. QED
        BY <4>5
    <3>3. CASE f = Len(files[p])
      <4>1. files'[p][f] = last \o halves /\ files[p][f] = last
        BY <2>3, <3>3 DEF last
      <4>2. i \in 1..(Len(last) + Len(halves)) /\ Len(files'[p][f]) = Len(last) + Len(halves)
        BY <2>5, <3>1, <4>1
      <4>3. CASE i <= Len(last)
        <5>1. i \in DOMAIN last /\ i \in 1..Len(last)
          BY <2>4, <4>2, <4>3
        <5>2. files'[p][f][i] = files[p][f][i] /\ Len(files'[p][f]) >= Len(files[p][f])
          BY <2>4, <2>5, <4>1, <4>2, <5>1
        <5>3. i \in DOMAIN files[p][f]
          BY <4>1, <5>1
        <5>4. QED
          BY <1>1, <2>3, <3>1, <3>3, <5>2, <5>3, StaysKept
      <4>4. CASE i > Len(last)
        <5>1. PICK k \in 1..Len(halves) : i = Len(last) + k
          <6>1. i - Len(last) \in 1..Len(halves) /\ i = Len(last) + (i - Len(last))
            BY <2>4, <4>2, <4>4
          <6>2. QED
            BY <6>1
        <5>2. files'[p][f][i] = halves[k] /\ i = Len(files[p][f]) + k
          BY <2>5, <4>1, <5>1
        <5>3. QED
          BY <2>4, <3>1, <3>3, <5>1, <5>2
      <4>5. QED
        BY <2>4, <4>2, <4>3, <4>4
    <3>4. QED
      BY <3>2, <3>3
  <2>7. Grows(p, halves)
    BY <1>3, <2>3, <2>6 DEF Grows
  <2>8. QED
    BY <2>1, <2>7
<1>6. QED
  BY <1>2, <1>4, <1>5

\* What is freshly written to a path comes after all that is known of it, and
\* is on no line of another path.
LEMMA FreshAfter ==
  ASSUME IInv, LogOrdered, NEW p \in Path, NEW halves \in Seq(Half), Fresh(p, halves),
         NEW k \in DOMAIN halves
  PROVE  /\ halves[k] \in Half
         /\ \A x \in OfPath(p) : Before(x, halves[k])
         /\ \A q \in Path \ {p} : \A x \in OfPath(q) : x.line # halves[k].line
<1> DEFINE h == halves[k]
<1>0. /\ h \in Half /\ lines \in Nat
      /\ \A q \in Path : \A x \in OfPath(q) : x \in Half /\ x.line <= lines
  <2>1. h \in Half /\ lines \in Nat
    BY DEF IInv, Types, LogTypes
  <2>2. \A q \in Path : \A x \in OfPath(q) : x \in Half /\ x.line <= lines
    BY DEF LogOrdered, LinesKnown, OfPath, Seen
  <2>3. QED
    BY <2>1, <2>2
<1>1. CASE h.line > lines
  <2> HIDE DEF h
  <2>1. ASSUME NEW q \in Path, NEW x \in OfPath(q)
        PROVE  x.line < h.line /\ Before(x, h) /\ x.line # h.line
    <3>1. x.line \in Int /\ h.line \in Int /\ x \in Half
      BY <1>0, <2>1 DEF Half, Line
    <3>2. x.line < h.line
      BY <1>0, <1>1, <2>1, <3>1
    <3>3. QED
      BY <3>1, <3>2 DEF Before
  <2>2. QED
    BY <1>0, <2>1 DEF h
<1>2. CASE ~(h.line > lines)
  <2>1. PICK f \in DOMAIN files[p] : \E i \in DOMAIN files[p][f] :
          /\ f = Len(files[p]) /\ i = Len(files[p][f])
          /\ h.line = files[p][f][i].line /\ h.newline /\ ~files[p][f][i].newline
    BY <1>2 DEF Fresh
  <2>2. PICK i \in DOMAIN files[p][f] :
          /\ f = Len(files[p]) /\ i = Len(files[p][f])
          /\ h.line = files[p][f][i].line /\ h.newline /\ ~files[p][f][i].newline
    BY <2>1
  <2> DEFINE last == files[p][f][i]
  <2>3. last \in Half /\ last \in OfPath(p) /\ Before(last, h)
    BY <2>2, HalvesPlaced DEF IInv, Before
  <2>4. ASSUME NEW x \in OfPath(p) PROVE x = last \/ Before(x, last)
    <3>1. CASE x \in Seen(p)
      BY <2>2, <3>1 DEF LogOrdered, SeenWritten
    <3>2. ASSUME NEW g \in DOMAIN files[p], NEW j \in DOMAIN files[p][g], x = files[p][g][j]
          PROVE  x = last \/ Before(x, last)
      <4>1. g < f \/ (g = f /\ (j < i \/ j = i))
        BY <2>2, HalvesPlaced DEF IInv
      <4>2. QED
        BY <3>2, <4>1 DEF LogOrdered, Sorted
    <3>3. QED
      BY <3>1, <3>2 DEF OfPath
  <2>5. \A x \in OfPath(p) : Before(x, h)
    BY <1>0, <2>3, <2>4, BeforeIsAnOrder
  <2>6. \A q \in Path \ {p} : \A x \in OfPath(q) : x.line # last.line
    BY <2>3 DEF LogOrdered, OwnLines
  <2>7. QED
    BY <1>0, <2>2, <2>5, <2>6
<1>3. QED
  BY <1>1, <1>2

\* The i-th half of file f of p is the k-th of those freshly written.
Added(p, halves, q, f, i) ==
  /\ q = p /\ f \in DOMAIN files[p] /\ f = Len(files[p])
  /\ \E k \in DOMAIN halves : i = Len(files[p][f]) + k /\ files'[p][f][i] = halves[k]

\* A half that nothing is known of, which comes after all that is of its path.
Unknown(p, h) ==
  /\ h \in Half
  /\ \A x \in OfPath(p) : Before(x, h)
  /\ \A q \in Path \ {p} : \A x \in OfPath(q) : x.line # h.line

\* After a step of nginx or logrotate the files hold what they held, and behind
\* it what was unknown.
LEMMA LogStepAdds ==
  ASSUME IInv, LogOrdered, LogStep
  PROVE  /\ path' = path /\ token' = token /\ rows' = rows /\ live' = live
         /\ \E p \in Path : \E halves \in Seq(Half) :
              /\ Fresh(p, halves)
              /\ \A q \in Path : \A f \in DOMAIN files'[q] : \A i \in DOMAIN files'[q][f] :
                   Kept(q, f, i) \/ Added(p, halves, q, f, i)
              /\ \A k \in DOMAIN halves : Unknown(p, halves[k])
<1>1. path' = path /\ token' = token /\ rows' = rows /\ live' = live
  BY DEF LogStep, reader
<1>2. LinesKnown
  BY DEF LogOrdered
<1>3. PICK p \in Path, halves \in Seq(Half) : Grows(p, halves) /\ Fresh(p, halves)
  BY <1>2, LogGrows
<1>4. \A q \in Path : \A f \in DOMAIN files'[q] : \A i \in DOMAIN files'[q][f] :
        Kept(q, f, i) \/ Added(p, halves, q, f, i)
  BY <1>3 DEF Grows, Added
<1>5. \A k \in DOMAIN halves : Unknown(p, halves[k])
  BY <1>3, FreshAfter DEF Unknown
<1>6. QED
  BY <1>1, <1>3, <1>4, <1>5

\* What nginx and logrotate do keeps the order of what is written.
LEMMA LogStepLogOrdered ==
  ASSUME IInv, LogOrdered, LogStep
  PROVE  LogOrdered'
<1>0. path' = path /\ token' = token /\ rows' = rows
  BY LogStepAdds
<1>1. LinesKnown /\ Sorted /\ SeenWritten /\ OwnLines
  BY DEF LogOrdered
<1>2. PICK p \in Path, halves \in Seq(Half) :
        /\ Fresh(p, halves)
        /\ \A q \in Path : \A f \in DOMAIN files'[q] : \A i \in DOMAIN files'[q][f] :
             Kept(q, f, i) \/ Added(p, halves, q, f, i)
        /\ \A k \in DOMAIN halves : Unknown(p, halves[k])
  BY LogStepAdds
<1>3. \A q \in Path : \A f \in DOMAIN files'[q] : \A i \in DOMAIN files'[q][f] :
        Kept(q, f, i) \/ Added(p, halves, q, f, i)
  BY <1>2
<1>4. \A k \in DOMAIN halves :
        /\ halves[k] \in Half
        /\ \A x \in OfPath(p) : Before(x, halves[k])
        /\ \A q \in Path \ {p} : \A x \in OfPath(q) : x.line # halves[k].line
  BY <1>2 DEF Unknown
<1>5. \A q \in Path : Seen(q)' = Seen(q) /\ Seen(q) \subseteq OfPath(q)
  BY <1>0 DEF Seen, OfPath
<1>6. ASSUME NEW q \in Path, NEW f \in DOMAIN files[q], NEW i \in DOMAIN files[q][f]
      PROVE  /\ files[q][f][i] \in OfPath(q) /\ f \in Nat /\ i \in Nat /\ i <= Len(files[q][f])
             /\ Len(files[q][f]) \in Nat /\ f <= Len(files[q]) /\ Len(files[q]) \in Nat
  BY <1>6, HalvesPlaced DEF IInv
<1>7. DOMAIN halves = 1..Len(halves) /\ Len(halves) \in Nat
  OBVIOUS
<1>8. Sorted'
  <2> SUFFICES ASSUME NEW q \in Path, NEW f \in DOMAIN files'[q], NEW g \in DOMAIN files'[q],
                      NEW i \in DOMAIN files'[q][f], NEW j \in DOMAIN files'[q][g],
                      f < g \/ (f = g /\ i < j)
               PROVE  Before(files'[q][f][i], files'[q][g][j])
    BY DEF Sorted
  <2>1. CASE Kept(q, f, i) /\ Kept(q, g, j)
    BY <1>1, <2>1 DEF Sorted, Kept
  <2>2. CASE Kept(q, f, i) /\ Added(p, halves, q, g, j)
    <3>1. files'[q][f][i] \in OfPath(q) /\ q = p
      BY <1>6, <2>2 DEF Kept, Added
    <3>2. QED
      BY <1>4, <2>2, <3>1 DEF Added
  <2>3. CASE Added(p, halves, q, f, i) /\ Kept(q, g, j)
    <3>1. q = p /\ f = Len(files[p]) /\ g \in DOMAIN files[p] /\ j \in DOMAIN files[p][g]
      BY <2>3 DEF Kept, Added
    <3>2. PICK k \in DOMAIN halves : i = Len(files[p][f]) + k
      BY <2>3 DEF Added
    <3>3. QED
      BY <1>6, <1>7, <3>1, <3>2
  <2>4. CASE Added(p, halves, q, f, i) /\ Added(p, halves, q, g, j)
    <3>1. q = p /\ f = g /\ f \in DOMAIN files[p] /\ Len(files[p][f]) \in Nat
      BY <2>4, HalvesPlaced DEF Added, IInv
    <3>2. PICK k \in DOMAIN halves : i = Len(files[p][f]) + k /\ files'[p][f][i] = halves[k]
      BY <2>4 DEF Added
    <3>3. PICK l \in DOMAIN halves : j = Len(files[p][f]) + l /\ files'[p][f][j] = halves[l]
      BY <2>4, <3>1 DEF Added
    <3>4. f \in Nat /\ i < j
      BY <3>1, HalvesPlaced DEF IInv
    <3>5. k < l
      BY <1>7, <3>1, <3>2, <3>3, <3>4
    <3>6. QED
      BY <1>2, <3>1, <3>2, <3>3, <3>5 DEF Fresh
  <2>5. QED
    BY <1>3, <2>1, <2>2, <2>3, <2>4
<1>9. SeenWritten'
  <2> SUFFICES ASSUME NEW q \in Path, NEW x \in Seen(q)', NEW f \in DOMAIN files'[q],
                      NEW i \in DOMAIN files'[q][f], f = Len(files'[q]), i = Len(files'[q][f])
               PROVE  x = files'[q][f][i] \/ Before(x, files'[q][f][i])
    BY DEF SeenWritten
  <2>1. x \in Seen(q) /\ x \in OfPath(q)
    BY <1>5
  <2>2. CASE Kept(q, f, i)
    BY <1>1, <2>1, <2>2 DEF SeenWritten, Kept
  <2>3. CASE Added(p, halves, q, f, i)
    BY <1>4, <2>1, <2>3 DEF Added
  <2>4. QED
    BY <1>3, <2>2, <2>3
<1>10. ASSUME NEW q \in Path, NEW x \in OfPath(q)'
       PROVE  x \in OfPath(q) \/ (q = p /\ \E k \in DOMAIN halves : x = halves[k])
  <2>1. CASE x \in Seen(q)'
    BY <1>5, <2>1
  <2>2. ASSUME NEW f \in DOMAIN files'[q], NEW i \in DOMAIN files'[q][f], x = files'[q][f][i]
        PROVE  x \in OfPath(q) \/ (q = p /\ \E k \in DOMAIN halves : x = halves[k])
    <3>1. CASE Kept(q, f, i)
      BY <1>6, <2>2, <3>1 DEF Kept
    <3>2. CASE Added(p, halves, q, f, i)
      BY <2>2, <3>2 DEF Added
    <3>3. QED
      BY <1>3, <3>1, <3>2
  <2>3. QED
    BY <1>10, <2>1, <2>2 DEF OfPath
<1>11. LinesKnown'
  <2> SUFFICES ASSUME NEW q \in Path, NEW x \in OfPath(q)' PROVE x.line <= lines'
    BY DEF LinesKnown
  <2>1. CASE x \in OfPath(q)
    <3>1. x.line <= lines /\ lines <= lines' /\ x.line \in Int /\ lines \in Int
      BY <1>1, <1>2, <2>1 DEF LinesKnown, Fresh, OfPath, Seen, Half, Line, IInv, Types, LogTypes
    <3>2. lines' \in Int
      BY LogTypesKept DEF IInv, LogTypes
    <3>3. QED
      BY <3>1, <3>2
  <2>2. CASE \E k \in DOMAIN halves : x = halves[k]
    BY <1>2, <2>2 DEF Fresh
  <2>3. QED
    BY <1>10, <2>1, <2>2
<1>12. OwnLines'
  <2> SUFFICES ASSUME NEW q \in Path, NEW r \in Path, q # r, NEW x \in OfPath(q)', NEW y \in OfPath(r)'
               PROVE  x.line # y.line
    BY DEF OwnLines
  <2>1. CASE x \in OfPath(q) /\ y \in OfPath(r)
    BY <1>1, <2>1 DEF OwnLines
  <2>2. CASE x \in OfPath(q) /\ r = p /\ \E k \in DOMAIN halves : y = halves[k]
    BY <1>4, <2>2
  <2>3. CASE y \in OfPath(r) /\ q = p /\ \E k \in DOMAIN halves : x = halves[k]
    BY <1>4, <2>3
  <2>4. QED
    BY <1>10, <2>1, <2>2, <2>3
<1>13. QED
  BY <1>8, <1>9, <1>11, <1>12 DEF LogOrdered

-----------------------------------------------------------------------------
(* What is written and read, whatever fails.                               *)

\* A step that reads no more than the files hold keeps their order.
LEMMA ReadsFromLog ==
  ASSUME IInv, LogOrdered, UNCHANGED log, \A p \in Path : Seen(p)' \subseteq OfPath(p)
  PROVE  LogOrdered'
<1>0. files' = files /\ lines' = lines
  BY DEF log
<1>1. LinesKnown /\ Sorted /\ SeenWritten /\ OwnLines
  BY DEF LogOrdered
<1>2. Sorted'
  BY <1>0, <1>1 DEF Sorted
<1>3. SeenWritten'
  <2> SUFFICES ASSUME NEW p \in Path, NEW x \in Seen(p)', NEW f \in DOMAIN files[p],
                      NEW i \in DOMAIN files[p][f], f = Len(files[p]), i = Len(files[p][f])
               PROVE  x = files[p][f][i] \/ Before(x, files[p][f][i])
    BY <1>0 DEF SeenWritten
  <2>1. CASE x \in Seen(p)
    BY <1>1, <2>1 DEF SeenWritten
  <2>2. ASSUME NEW g \in DOMAIN files[p], NEW j \in DOMAIN files[p][g], x = files[p][g][j]
        PROVE  x = files[p][f][i] \/ Before(x, files[p][f][i])
    <3>1. g < f \/ (g = f /\ (j < i \/ j = i))
      BY HalvesPlaced DEF IInv
    <3>2. QED
      BY <1>1, <2>2, <3>1 DEF Sorted
  <2>3. QED
    BY <2>1, <2>2 DEF OfPath
<1>4. \A p \in Path : OfPath(p)' \subseteq OfPath(p)
  BY <1>0 DEF OfPath
<1>5. LinesKnown' /\ OwnLines'
  BY <1>0, <1>1, <1>4 DEF LinesKnown, OwnLines
<1>6. QED
  BY <1>2, <1>3, <1>5 DEF LogOrdered

\* What leaves the token for a row was seen before.
LEMMA ScannedSeen ==
  ASSUME IInv, InsertNPM \/ Unparsed
  PROVE  /\ NoneUnread /\ path' = path /\ live' = live /\ faults' = faults /\ token' = {}
         /\ \A p \in Path : Seen(p)' \subseteq Seen(p)
         /\ \/ rows' = rows
            \/ /\ InsertNPM
               /\ Len(rows) \in Nat /\ DOMAIN rows = 1..Len(rows) /\ DOMAIN rows' = 1..(Len(rows) + 1)
               /\ \A i \in 1..Len(rows) : rows'[i] = rows[i]
               /\ rows'[Len(rows) + 1].path = path /\ rows'[Len(rows) + 1].halves = token
<1> DEFINE row == [path |-> path, halves |-> token, ts |-> clock]
<1>0. /\ UNCHANGED <<log, path, file, pos, offset, live, faults>> /\ path' = path
      /\ token' = {} /\ Reading /\ Reading' /\ (rows' = rows \/ (InsertNPM /\ rows' = Append(rows, row)))
  BY DEF InsertNPM, Unparsed, Scanned, Continue, Reading, log
<1>1. row.path = path /\ row.halves = token
  OBVIOUS
<1> HIDE DEF row
<1>2. NoneUnread
  BY <1>0, StillUnread
<1>3. \/ rows' = rows
      \/ /\ InsertNPM
         /\ Len(rows) \in Nat /\ DOMAIN rows = 1..Len(rows) /\ DOMAIN rows' = 1..(Len(rows) + 1)
         /\ \A i \in 1..Len(rows) : rows'[i] = rows[i]
         /\ rows'[Len(rows) + 1] = row
  BY <1>0, AppendProperties DEF IInv, Types, RestTypes
<1>4. \A i \in DOMAIN rows' : (i \in DOMAIN rows /\ rows'[i] = rows[i]) \/ rows'[i] = row
  BY <1>3
<1>5. \A p \in Path : Seen(p)' \subseteq Seen(p)
  BY <1>0, <1>1, <1>4 DEF Seen
<1>6. QED
  BY <1>0, <1>1, <1>2, <1>3, <1>5

\* No step disturbs the order of what is written and read.
LEMMA NextLogOrdered ==
  ASSUME IInv, LogOrdered, [Next]_vars
  PROVE  LogOrdered'
<1>1. CASE LogStep
  BY <1>1, LogStepLogOrdered
<1>2. ASSUME UNCHANGED log, rows' = rows, token' = {} \/ (token' = token /\ path' = path)
      PROVE  LogOrdered'
  <2>1. \A p \in Path : Seen(p)' \subseteq OfPath(p)
    BY <1>2 DEF Seen, OfPath
  <2>2. QED
    BY <1>2, <2>1, ReadsFromLog
<1>3. CASE Read
  <2>1. ASSUME NEW p \in Path, NEW x \in Seen(p)' PROVE x \in OfPath(p)
    <3>1. CASE x \in Seen(p)
      BY <3>1 DEF OfPath
    <3>2. CASE ~(x \in Seen(p))
      <4>1. p = path /\ x \in token' /\ x \notin token /\ x \in Half
        BY <1>3, <3>2, ReadUnread DEF Seen
      <4>2. /\ file \in DOMAIN files[path] /\ pos + 1 \in DOMAIN files[path][file]
            /\ x = files[path][file][pos + 1]
        BY <1>3, <4>1, ReadUnread
      <4>3. QED
        BY <4>1, <4>2 DEF OfPath
    <3>3. QED
      BY <3>1, <3>2
  <2>2. UNCHANGED log
    BY <1>3, ReadUnread DEF NoneUnread
  <2>3. QED
    BY <2>1, <2>2, ReadsFromLog
<1>4. CASE InsertNPM \/ Unparsed
  <2>1. UNCHANGED log /\ \A p \in Path : Seen(p)' \subseteq OfPath(p)
    BY <1>4, ScannedSeen DEF OfPath, NoneUnread
  <2>2. QED
    BY <2>1, ReadsFromLog
<1>5. CASE \/ Collect \/ EndCollect \/ InsertFails \/ SaveOffset \/ Cancel \/ Restart \/ Tick
           \/ \E p \in Path : OpenFile(p) \/ OpenFails(p)
           \/ UNCHANGED vars
  <2>1. UNCHANGED log /\ rows' = rows /\ (token' = {} \/ (token' = token /\ path' = path))
    BY <1>5 DEF Collect, EndCollect, InsertFails, SaveOffset, CloseFile, Cancel, Restart, Tick,
                OpenFile, OpenFails, vars, reader, log
  <2>2. QED
    BY <1>2, <2>1
<1>6. Next => \/ LogStep \/ Read \/ InsertNPM \/ Unparsed
              \/ Collect \/ EndCollect \/ InsertFails \/ SaveOffset \/ Cancel \/ Restart \/ Tick
              \/ \E p \in Path : OpenFile(p) \/ OpenFails(p)
  BY DEF Next, CollectorStep, LogStep, CreateFile, RenameAway, Truncate, WriteLine, FinishLine
<1>7. QED
  BY <1>1, <1>3, <1>4, <1>5, <1>6

\* A half is at one place of one file, and none of another path is its like.
LEMMA OnePlace ==
  ASSUME IInv, LogOrdered, NEW p \in Path, NEW q \in Path,
         NEW f \in DOMAIN files[p], NEW i \in DOMAIN files[p][f],
         NEW g \in DOMAIN files[q], NEW j \in DOMAIN files[q][g],
         files[p][f][i] = files[q][g][j]
  PROVE  p = q /\ f = g /\ i = j
<1>1. files[p][f][i] \in Half /\ files[p][f][i] \in OfPath(p) /\ files[q][g][j] \in OfPath(q)
  BY HalvesPlaced DEF IInv
<1>2. p = q
  BY <1>1 DEF LogOrdered, OwnLines
<1>3. f \in Nat /\ g \in Nat /\ i \in Nat /\ j \in Nat
  BY HalvesPlaced DEF IInv
<1>4. ~(f < g \/ (f = g /\ i < j)) /\ ~(g < f \/ (g = f /\ j < i))
  BY <1>1, <1>2, BeforeIsAnOrder DEF LogOrdered, Sorted
<1>5. QED
  BY <1>2, <1>3, <1>4

-----------------------------------------------------------------------------
(* The order of the rows.                                                  *)

\* A step that reads nothing more and makes nothing unread.
LEMMA SameOrder ==
  ASSUME NEW cuts, InOrder(cuts), NoneUnread, RowsSorted(cuts)', live' => live,
         live => TokenLast(cuts)', \A p \in Path : SeenLately(cuts, p)' \subseteq SeenLately(cuts, p)
  PROVE  InOrder(cuts)'
<1>0. files' = files
  BY DEF NoneUnread, log
<1>1. live => SeenFirst(cuts)'
  BY <1>0 DEF InOrder, SeenFirst, NoneUnread
<1>2. QED
  BY <1>1 DEF InOrder

\* A step that leaves the rows and the token alone, or drops the token.
LEMMA StillOrder ==
  ASSUME NEW cuts, InOrder(cuts), NoneUnread, rows' = rows, live' => live,
         token' = {} \/ (token' = token /\ path' = path)
  PROVE  InOrder(cuts)'
<1>1. \A p \in Path : SeenLately(cuts, p)' \subseteq SeenLately(cuts, p)
  BY DEF SeenLately
<1>2. RowsSorted(cuts)' /\ (live => TokenLast(cuts)')
  BY DEF InOrder, RowsSorted, TokenLast
<1>3. QED
  BY <1>1, <1>2, SameOrder

\* A line is inserted, or not: it leaves the token.
LEMMA ScannedOrder ==
  ASSUME IInv, NEW cuts \in SUBSET (1..Len(rows) + 1), InOrder(cuts), InsertNPM \/ Unparsed
  PROVE  InOrder(cuts)'
<1>0. NoneUnread /\ path' = path /\ live' = live /\ token' = {}
  BY ScannedSeen
<1>1. TokenLast(cuts)'
  BY <1>0 DEF TokenLast
<1>2. CASE rows' = rows
  BY <1>0, <1>2, StillOrder
<1>3. CASE rows' # rows
  <2>1. /\ InsertNPM
        /\ Len(rows) \in Nat /\ DOMAIN rows = 1..Len(rows) /\ DOMAIN rows' = 1..(Len(rows) + 1)
        /\ \A k \in 1..Len(rows) : rows'[k] = rows[k]
        /\ rows'[Len(rows) + 1].path = path /\ rows'[Len(rows) + 1].halves = token
    BY <1>3, ScannedSeen
  <2>2. live
    BY <2>1 DEF InsertNPM
  <2>3. RowsSorted(cuts)'
    <3> SUFFICES ASSUME NEW i \in DOMAIN rows', NEW j \in DOMAIN rows', i < j,
                        rows'[i].path = rows'[j].path, SameRun(cuts, i, j),
                        NEW g \in rows'[i].halves, NEW h \in rows'[j].halves
                 PROVE  Before(g, h)
      BY DEF RowsSorted, Before, SameRun
    <3>1. i \in DOMAIN rows /\ rows'[i] = rows[i]
      BY <2>1
    <3>2. CASE j \in DOMAIN rows
      BY <2>1, <3>1, <3>2 DEF InOrder, RowsSorted
    <3>3. CASE j = Len(rows) + 1
      <4>1. Lately(cuts, i)
        BY <2>1, <3>1, <3>3 DEF SameRun, Lately
      <4>2. QED
        BY <2>1, <2>2, <3>1, <3>3, <4>1 DEF InOrder, TokenLast
    <3>4. QED
      BY <2>1, <3>2, <3>3
  <2>4. ASSUME NEW p \in Path, NEW x \in SeenLately(cuts, p)' PROVE x \in SeenLately(cuts, p)
    <3>1. PICK i \in DOMAIN rows' : Lately(cuts, i) /\ rows'[i].path = p /\ x \in rows'[i].halves
      BY <1>0, <2>4 DEF SeenLately, Lately
    <3>2. x \in Half
      BY <2>4 DEF SeenLately
    <3>3. CASE i = Len(rows) + 1
      BY <2>1, <3>1, <3>2, <3>3 DEF SeenLately
    <3>4. CASE i \in DOMAIN rows
      BY <2>1, <3>1, <3>2, <3>4 DEF SeenLately
    <3>5. QED
      BY <2>1, <3>3, <3>4
  <2>5. QED
    BY <1>0, <1>1, <2>3, <2>4, SameOrder
<1>4. QED
  BY <1>2, <1>3

\* The scanner meets one more half, the first of those unread.
LEMMA ReadOrder ==
  ASSUME IInv, LogOrdered, NEW cuts, InOrder(cuts), Read
  PROVE  InOrder(cuts)'
<1> DEFINE h == files[path][file][pos + 1]
<1>0. /\ NoneUnread /\ files' = files /\ rows' = rows /\ path' = path /\ live' = live
      /\ path \in Path /\ file \in DOMAIN files[path]
  BY ReadUnread
<1>1. RowsSorted(cuts)'
  BY <1>0 DEF InOrder, RowsSorted
<1>2. CASE token' = token
  BY <1>0, <1>2, StillOrder
<1>3. CASE ~live
  BY <1>0, <1>1, <1>3 DEF InOrder
<1>4. CASE live /\ token' # token
  <2>1. /\ pos + 1 \in DOMAIN files[path][file] /\ token' = token \cup {h}
        /\ Unread(path, file, pos + 1)
        /\ \A f \in DOMAIN files[path] : \A i \in DOMAIN files[path][f] :
             Unread(path, f, i)' => file < f \/ (file = f /\ pos + 1 < i)
    BY <1>4, ReadUnread
  <2>2. \A x \in SeenLately(cuts, path) : Before(x, h)
    BY <1>0, <1>4, <2>1 DEF InOrder, SeenFirst
  <2>3. \A q \in Path : \A x \in SeenLately(cuts, q)' : x \in SeenLately(cuts, q) \/ (q = path /\ x = h)
    BY <1>0, <2>1 DEF SeenLately
  <2>4. SeenFirst(cuts)'
    <3> SUFFICES ASSUME NEW q \in Path, NEW x \in SeenLately(cuts, q)', NEW f \in DOMAIN files[q],
                        NEW i \in DOMAIN files[q][f], Unread(q, f, i)'
                 PROVE  Before(x, files[q][f][i])
      BY <1>0 DEF SeenFirst
    <3>1. CASE x \in SeenLately(cuts, q)
      BY <1>0, <1>4, <3>1 DEF InOrder, SeenFirst, NoneUnread
    <3>2. CASE q = path /\ x = h
      BY <1>0, <2>1, <3>2 DEF LogOrdered, Sorted
    <3>3. QED
      BY <2>3, <3>1, <3>2
  <2>5. TokenLast(cuts)'
    <3>1. ASSUME NEW j \in DOMAIN rows, Lately(cuts, j), rows[j].path = path, NEW g \in rows[j].halves
          PROVE  g \in SeenLately(cuts, path)
      <4>1. rows[j] \in Row
        BY DEF IInv, Types, RestTypes
      <4>2. g \in Half
        BY <4>1 DEF Row
      <4>3. QED
        BY <3>1, <4>2 DEF SeenLately
    <3> HIDE DEF h
    <3> SUFFICES ASSUME NEW j \in DOMAIN rows, Lately(cuts, j), rows[j].path = path,
                        NEW g \in rows[j].halves, NEW k \in token'
                 PROVE  Before(g, k)
      BY <1>0 DEF TokenLast, Before, Lately
    <3>2. k \in token \/ k = h
      BY <2>1
    <3>3. QED
      BY <1>4, <2>2, <3>1, <3>2 DEF InOrder, TokenLast
  <2>6. QED
    BY <1>1, <2>4, <2>5 DEF InOrder
<1>5. QED
  BY <1>2, <1>3, <1>4

\* What nginx and logrotate do leaves what was read before what may be read.
LEMMA LogStepOrder ==
  ASSUME IInv, LogOrdered, NEW cuts, InOrder(cuts), LogStep
  PROVE  InOrder(cuts)'
<1>0. path' = path /\ token' = token /\ rows' = rows /\ live' = live
  BY LogStepAdds
<1>1. PICK p \in Path, halves \in Seq(Half) :
        /\ \A q \in Path : \A f \in DOMAIN files'[q] : \A i \in DOMAIN files'[q][f] :
             Kept(q, f, i) \/ Added(p, halves, q, f, i)
        /\ \A k \in DOMAIN halves : Unknown(p, halves[k])
  BY LogStepAdds
<1>2. ASSUME live PROVE SeenFirst(cuts)'
  <2> SUFFICES ASSUME NEW q \in Path, NEW x \in SeenLately(cuts, q)', NEW f \in DOMAIN files'[q],
                      NEW i \in DOMAIN files'[q][f], Unread(q, f, i)'
               PROVE  Before(x, files'[q][f][i])
    BY DEF SeenFirst
  <2>1. x \in SeenLately(cuts, q)
    BY <1>0 DEF SeenLately
  <2>2. x \in OfPath(q)
    BY <2>1 DEF SeenLately, Seen, OfPath
  <2>3. CASE Kept(q, f, i)
    BY <1>2, <2>1, <2>3 DEF InOrder, SeenFirst, Kept
  <2>4. CASE Added(p, halves, q, f, i)
    BY <1>1, <2>2, <2>4 DEF Added, Unknown
  <2>5. QED
    BY <1>1, <2>3, <2>4
<1>3. RowsSorted(cuts)' /\ (live => TokenLast(cuts)')
  BY <1>0 DEF InOrder, RowsSorted, TokenLast
<1>4. QED
  BY <1>0, <1>2, <1>3 DEF InOrder

\* A fault starts a run: the next row is the first of it.
LEMMA FaultOrder ==
  ASSUME IInv, NEW cuts, InOrder(cuts), rows' = rows, token' = {},
         NEW more, more = cuts \cup {Len(rows) + 1}
  PROVE  InOrder(more)'
<1>1. Len(rows) \in Nat /\ DOMAIN rows = 1..Len(rows)
  BY DEF IInv, Types, RestTypes
<1>2. \A i, j : SameRun(more, i, j) => SameRun(cuts, i, j)
  BY DEF SameRun
<1>3. \A i \in DOMAIN rows : ~Lately(more, i)
  <2>1. Len(rows) + 1 \in more
    OBVIOUS
  <2>2. \A i \in DOMAIN rows : ~(Len(rows) + 1 <= i)
    BY <1>1
  <2>3. QED
    BY <2>1, <2>2 DEF Lately
<1>4. RowsSorted(more)'
  BY <1>2 DEF InOrder, RowsSorted, SameRun
<1>5. SeenFirst(more)' /\ TokenLast(more)'
  BY <1>3 DEF SeenFirst, SeenLately, TokenLast, Lately
<1>6. QED
  BY <1>4, <1>5 DEF InOrder

-----------------------------------------------------------------------------
(* How often a half is read.                                               *)

\* The half is in the token, or where it may still be read.
MayRead(h) ==
  /\ live
  /\ \/ h \in token
     \/ \E p \in Path : \E f \in DOMAIN files[p] : \E i \in DOMAIN files[p][f] :
          files[p][f][i] = h /\ Unread(p, f, i)

\* What is in the token is not to be read again.
TokenRead ==
  \A h \in token, p \in Path : \A f \in DOMAIN files[p] : \A i \in DOMAIN files[p][f] :
    files[p][f][i] = h => ~Unread(p, f, i)

\* A half that may still be read is in a row less than one that may not.
CountWithin ==
  \A h \in Half : Cardinality(RowsWith(h)) <= (IF MayRead(h) THEN faults ELSE faults + 1)

Counted == TokenRead /\ CountWithin

\* The rows with a half can be counted.
LEMMA RowsFinite ==
  ASSUME Types, NEW h
  PROVE  /\ RowsWith(h) \subseteq 1..Len(rows) /\ Len(rows) \in Nat
         /\ IsFiniteSet(RowsWith(h)) /\ Cardinality(RowsWith(h)) \in Nat
<1>1. rows \in Seq(Row)
  BY DEF Types, RestTypes
<1>2. Len(rows) \in Nat /\ RowsWith(h) \subseteq 1..Len(rows)
  BY <1>1 DEF RowsWith
<1>3. IsFiniteSet(1..Len(rows))
  BY <1>2, FS_Interval
<1>4. IsFiniteSet(RowsWith(h))
  BY <1>2, <1>3, FS_Subset
<1>5. QED
  BY <1>2, <1>4, FS_CardinalityType

\* No row holds a half that nothing is known of.
LEMMA UnknownCounted ==
  ASSUME Types, NEW p \in Path, NEW h, Unknown(p, h)
  PROVE  Cardinality(RowsWith(h)) = 0 /\ \A q \in Path : h \notin OfPath(q)
<1>1. ASSUME NEW q \in Path PROVE h \notin OfPath(q)
  BY BeforeIsAnOrder DEF Unknown
<1>2. ASSUME NEW i \in DOMAIN rows, h \in rows[i].halves PROVE FALSE
  <2>1. rows[i] \in Row
    BY DEF Types, RestTypes
  <2>2. rows[i].path \in Path /\ h \in OfPath(rows[i].path)
    BY <1>2, <2>1 DEF Row, OfPath, Seen
  <2>3. QED
    BY <1>1, <2>2
<1>3. RowsWith(h) = {}
  BY <1>2 DEF RowsWith
<1>4. QED
  BY <1>1, <1>3, FS_EmptySet

\* A step that inserts nothing: what may be read after it and not before it
\* costs a fault, or is in no row.
LEMMA SameRowsCount ==
  ASSUME IInv, CountWithin, rows' = rows, faults' = faults \/ faults' = faults + 1,
         \A h \in Half : \/ MayRead(h)' => MayRead(h)
                         \/ faults' = faults + 1
                         \/ Cardinality(RowsWith(h)) = 0
  PROVE  CountWithin'
<1> SUFFICES ASSUME NEW h \in Half
             PROVE  Cardinality(RowsWith(h)) <= (IF MayRead(h)' THEN faults' ELSE faults' + 1)
  BY DEF CountWithin, RowsWith
<1>1. Cardinality(RowsWith(h)) \in Nat /\ faults \in Nat
  BY RowsFinite DEF IInv, Types, RestTypes
<1>2. Cardinality(RowsWith(h)) <= (IF MayRead(h) THEN faults ELSE faults + 1)
  BY DEF CountWithin
<1>3. QED
  BY <1>1, <1>2

\* A step that leaves the rows alone and at most drops the token.
LEMMA StillCount ==
  ASSUME IInv, Counted, NoneUnread, rows' = rows, live' => live,
         token' = {} \/ token' = token, faults' = faults \/ faults' = faults + 1
  PROVE  Counted'
<1>0. files' = files
  BY DEF NoneUnread, log
<1>1. TokenRead'
  BY <1>0 DEF Counted, TokenRead, NoneUnread
<1>2. ASSUME NEW h \in Half, MayRead(h)' PROVE MayRead(h)
  BY <1>0, <1>2 DEF MayRead, NoneUnread
<1>3. CountWithin'
  BY <1>2, SameRowsCount DEF Counted
<1>4. QED
  BY <1>1, <1>3 DEF Counted

\* A fault allows for each half to be read once more.
LEMMA FaultCount ==
  ASSUME IInv, CountWithin, rows' = rows, token' = {},
         faults' = faults + 1 \/ (faults' = faults /\ ~live')
  PROVE  Counted'
<1>1. TokenRead'
  BY DEF TokenRead
<1>2. \A h \in Half : (MayRead(h)' => MayRead(h)) \/ faults' = faults + 1
  BY DEF MayRead
<1>3. CountWithin'
  BY <1>2, SameRowsCount
<1>4. QED
  BY <1>1, <1>3 DEF Counted

\* The scanner takes a half that may be read.
LEMMA ReadCount ==
  ASSUME IInv, LogOrdered, Counted, Read
  PROVE  Counted'
<1> DEFINE h == files[path][file][pos + 1]
<1>0. /\ NoneUnread /\ files' = files /\ rows' = rows /\ path' = path /\ live' = live
      /\ path \in Path /\ file \in DOMAIN files[path] /\ faults' = faults
  BY ReadUnread DEF Read
<1>1. CASE token' = token
  BY <1>0, <1>1, StillCount
<1>2. CASE token' # token
  <2>1. /\ pos + 1 \in DOMAIN files[path][file] /\ token' = token \cup {h}
        /\ Unread(path, file, pos + 1)
        /\ \A f \in DOMAIN files[path] : \A i \in DOMAIN files[path][f] :
             Unread(path, f, i)' => file < f \/ (file = f /\ pos + 1 < i)
    BY <1>2, ReadUnread
  <2>2. ASSUME NEW p \in Path, NEW f \in DOMAIN files[p], NEW i \in DOMAIN files[p][f],
               files[p][f][i] = h, Unread(p, f, i)'
        PROVE  FALSE
    <3>1. p = path /\ f = file /\ i = pos + 1
      BY <1>0, <2>1, <2>2, OnePlace
    <3>2. file \in Nat /\ pos + 1 \in Nat
      BY <1>0, <2>1, HalvesPlaced DEF IInv
    <3>3. QED
      BY <1>0, <2>1, <2>2, <3>1, <3>2
  <2>3. TokenRead'
    <3> SUFFICES ASSUME NEW x \in token', NEW p \in Path, NEW f \in DOMAIN files[p],
                        NEW i \in DOMAIN files[p][f], files[p][f][i] = x, Unread(p, f, i)'
                 PROVE  FALSE
      BY <1>0 DEF TokenRead
    <3>1. Unread(p, f, i)
      BY <1>0 DEF NoneUnread
    <3>2. x # h
      BY <2>2
    <3>3. QED
      BY <2>1, <3>1, <3>2 DEF Counted, TokenRead
  <2>4. ASSUME NEW x \in Half, MayRead(x)' PROVE MayRead(x)
    <3>1. CASE x = h
      BY <1>0, <2>1, <2>4, <3>1 DEF MayRead
    <3>2. CASE x # h
      BY <1>0, <2>1, <2>4, <3>2 DEF MayRead, NoneUnread
    <3>3. QED
      BY <3>1, <3>2
  <2>5. CountWithin'
    BY <1>0, <2>4, SameRowsCount DEF Counted
  <2>6. QED
    BY <2>3, <2>5 DEF Counted
<1>3. QED
  BY <1>1, <1>2

\* A line is inserted, or not: its halves have been read.
LEMMA ScannedCount ==
  ASSUME IInv, Counted, InsertNPM \/ Unparsed
  PROVE  Counted'
<1>0. /\ NoneUnread /\ files' = files /\ token' = {} /\ live' = live /\ faults' = faults
  BY ScannedSeen DEF NoneUnread, log
<1>1. CASE rows' = rows
  BY <1>0, <1>1, StillCount
<1>2. CASE rows' # rows
  <2>1. /\ InsertNPM
        /\ Len(rows) \in Nat /\ DOMAIN rows = 1..Len(rows) /\ DOMAIN rows' = 1..(Len(rows) + 1)
        /\ \A i \in 1..Len(rows) : rows'[i] = rows[i]
        /\ rows'[Len(rows) + 1].halves = token
    BY <1>2, ScannedSeen
  <2>2. live
    BY <2>1 DEF InsertNPM
  <2>3. ASSUME NEW h \in Half
        PROVE  Cardinality(RowsWith(h)') <= (IF MayRead(h)' THEN faults ELSE faults + 1)
    <3>1. /\ IsFiniteSet(RowsWith(h)) /\ Cardinality(RowsWith(h)) \in Nat /\ faults \in Nat
          /\ Cardinality(RowsWith(h)) <= (IF MayRead(h) THEN faults ELSE faults + 1)
      BY RowsFinite DEF IInv, Types, RestTypes, Counted, CountWithin
    <3>2. CASE h \in token
      <4>1. RowsWith(h)' = RowsWith(h) \cup {Len(rows) + 1}
        BY <2>1, <3>2 DEF RowsWith
      <4>2. Cardinality(RowsWith(h)') \in {Cardinality(RowsWith(h)), Cardinality(RowsWith(h)) + 1}
        <5> DEFINE S == RowsWith(h)
                   last == Len(rows) + 1
        <5>1. IsFiniteSet(S) /\ RowsWith(h)' = S \cup {last}
          BY <3>1, <4>1
        <5> HIDE DEF S, last
        <5>2. Cardinality(S \cup {last}) = IF last \in S THEN Cardinality(S) ELSE Cardinality(S) + 1
          BY <5>1, FS_AddElement
        <5>3. Cardinality(RowsWith(h)') \in {Cardinality(S), Cardinality(S) + 1}
          BY <5>1, <5>2
        <5>4. QED
          BY <5>3 DEF S
      <4>3. MayRead(h)
        BY <2>2, <3>2 DEF MayRead
      <4>4. ~MayRead(h)'
        BY <1>0, <3>2 DEF MayRead, Counted, TokenRead, NoneUnread
      <4>5. QED
        BY <3>1, <4>2, <4>3, <4>4
    <3>3. CASE h \notin token
      <4>1. RowsWith(h)' = RowsWith(h)
        BY <2>1, <3>3 DEF RowsWith
      <4>2. MayRead(h)' => MayRead(h)
        BY <1>0 DEF MayRead, NoneUnread
      <4>3. QED
        BY <3>1, <4>1, <4>2
    <3>4. QED
      BY <3>2, <3>3
  <2>4. CountWithin'
    BY <1>0, <2>3 DEF CountWithin
  <2>5. TokenRead'
    BY <1>0 DEF TokenRead
  <2>6. QED
    BY <2>4, <2>5 DEF Counted
<1>3. QED
  BY <1>1, <1>2

\* What nginx writes has not been read before.
LEMMA LogStepCount ==
  ASSUME IInv, LogOrdered, Counted, LogStep
  PROVE  Counted'
<1>0. path' = path /\ token' = token /\ rows' = rows /\ live' = live /\ faults' = faults
  BY LogStepAdds DEF LogStep
<1>1. PICK p \in Path, halves \in Seq(Half) :
        /\ \A q \in Path : \A f \in DOMAIN files'[q] : \A i \in DOMAIN files'[q][f] :
             Kept(q, f, i) \/ Added(p, halves, q, f, i)
        /\ \A k \in DOMAIN halves : Unknown(p, halves[k])
  BY LogStepAdds
<1>2. ASSUME NEW q \in Path, NEW f \in DOMAIN files'[q], NEW i \in DOMAIN files'[q][f]
      PROVE  \/ Kept(q, f, i)
             \/ /\ Cardinality(RowsWith(files'[q][f][i])) = 0
                /\ \A r \in Path : files'[q][f][i] \notin OfPath(r)
  <2>1. CASE Kept(q, f, i)
    BY <2>1
  <2>2. CASE Added(p, halves, q, f, i)
    <3>1. PICK k \in DOMAIN halves : files'[q][f][i] = halves[k]
      BY <2>2 DEF Added
    <3>2. QED
      BY <1>1, <3>1, UnknownCounted DEF IInv
  <2>3. QED
    BY <1>1, <2>1, <2>2
<1>3. TokenRead'
  <2> SUFFICES ASSUME NEW h \in token, NEW q \in Path, NEW f \in DOMAIN files'[q],
                      NEW i \in DOMAIN files'[q][f], files'[q][f][i] = h, Unread(q, f, i)'
               PROVE  FALSE
    BY <1>0 DEF TokenRead
  <2>1. h \in OfPath(path) /\ path \in Path
    BY DEF IInv, Types, ReaderTypes, OfPath, Seen
  <2>2. Kept(q, f, i)
    BY <1>2, <2>1
  <2>3. QED
    BY <2>2 DEF Kept, Counted, TokenRead
<1>4. ASSUME NEW h \in Half, MayRead(h)', Cardinality(RowsWith(h)) # 0
      PROVE  MayRead(h)
  <2>1. CASE h \in token
    BY <1>0, <1>4, <2>1 DEF MayRead
  <2>2. ASSUME NEW q \in Path, NEW f \in DOMAIN files'[q], NEW i \in DOMAIN files'[q][f],
               files'[q][f][i] = h, Unread(q, f, i)'
        PROVE  MayRead(h)
    <3>1. Kept(q, f, i)
      BY <1>2, <1>4, <2>2
    <3>2. QED
      BY <1>0, <1>4, <2>2, <3>1 DEF Kept, MayRead
  <2>3. QED
    BY <1>0, <1>4, <2>1, <2>2 DEF MayRead
<1>5. CountWithin'
  BY <1>0, <1>4, SameRowsCount DEF Counted
<1>6. QED
  BY <1>3, <1>5 DEF Counted

-----------------------------------------------------------------------------
(* The theorems.                                                           *)

\* All of it holds at the start.
LEMMA InitOrder == Init => LogOrdered /\ InRuns /\ Counted
<1> SUFFICES ASSUME Init PROVE LogOrdered /\ InRuns /\ Counted
  OBVIOUS
<1>1. /\ live /\ rows = <<>> /\ token = {} /\ faults = 0 /\ \A p \in Path : files[p] = <<>>
  BY DEF Init
<1>2. \A p \in Path : OfPath(p) = {} /\ Seen(p) = {}
  BY <1>1 DEF OfPath, Seen
<1>3. LogOrdered /\ InRuns
  <2>1. LogOrdered
    BY <1>1, <1>2 DEF LogOrdered, Sorted, SeenWritten, LinesKnown, OwnLines
  <2>2. InOrder({})
    BY <1>1 DEF InOrder, SeenFirst, SeenLately, RowsSorted, TokenLast
  <2>3. Cardinality({}) <= faults
    BY <1>1, FS_EmptySet
  <2>4. QED
    BY <2>1, <2>2, <2>3 DEF InRuns
<1>4. \A h \in Half : RowsWith(h) = {} /\ ~MayRead(h)
  BY <1>1 DEF RowsWith, MayRead
<1>5. TokenRead
  BY <1>1 DEF TokenRead
<1>6. CountWithin
  <2>1. Cardinality({}) = 0
    BY FS_EmptySet
  <2>2. \A h \in Half : Cardinality(RowsWith(h)) = 0
    BY <1>4, <2>1, Zenon
  <2>3. QED
    BY <1>1, <2>2 DEF CountWithin
<1>7. QED
  BY <1>3, <1>5, <1>6 DEF Counted

\* The steps beside those of the log and of the scanner that are no faults.
Beside ==
  \/ Collect \/ EndCollect \/ SaveOffset \/ Tick
  \/ \E p \in Path : OpenFile(p) \/ OpenFails(p)
  \/ UNCHANGED vars

\* They make nothing unread and insert nothing.
LEMMA BesideUnread ==
  ASSUME IInv, Beside
  PROVE  /\ NoneUnread /\ rows' = rows /\ live' = live /\ faults' = faults
         /\ token' = {} \/ (token' = token /\ path' = path)
<1>1. NoneUnread
  <2>1. CASE SaveOffset
    BY <2>1, SaveOffsetUnread
  <2>2. CASE \E p \in Path : OpenFile(p)
    BY <2>2, OpenFileUnread
  <2>3. CASE ~SaveOffset /\ ~\E p \in Path : OpenFile(p)
    <3>1. UNCHANGED <<log, path, file, pos, offset>> /\ (Reading' <=> Reading)
      BY <2>3 DEF Beside, Collect, EndCollect, OpenFails, Tick, vars, reader, Reading
    <3>2. QED
      BY <3>1, StillUnread
  <2>4. QED
    BY <2>1, <2>2, <2>3
<1>2. QED
  BY <1>1 DEF Beside, Collect, EndCollect, SaveOffset, CloseFile, Tick, OpenFile, OpenFails, vars, reader

\* The steps, sorted by what they do to what may be read.
LEMMA NextSorted ==
  Next => LogStep \/ Read \/ InsertNPM \/ Unparsed \/ Beside \/ InsertFails \/ Cancel \/ Restart
BY DEF Next, CollectorStep, LogStep, CreateFile, RenameAway, Truncate, WriteLine, FinishLine, Beside

\* A step keeps the order of the rows, a fault at the price of a cut.
LEMMA NextOrder ==
  ASSUME IInv, LogOrdered, NEW cuts \in SUBSET (1..Len(rows) + 1), InOrder(cuts), [Next]_vars
  PROVE  /\ faults' \in Nat
         /\ \/ InOrder(cuts)' /\ faults' >= faults
            \/ /\ faults' = faults + 1 /\ rows' = rows
               /\ \A more : more = cuts \cup {Len(rows) + 1} => InOrder(more)'
<1>0. faults \in Nat
  BY DEF IInv, Types, RestTypes
<1>1. CASE Beside
  BY <1>0, <1>1, BesideUnread, StillOrder
<1>2. CASE LogStep \/ Read \/ InsertNPM \/ Unparsed
  <2>1. faults' = faults
    BY <1>2 DEF LogStep, CreateFile, RenameAway, Truncate, WriteLine, FinishLine, Read, InsertNPM, Unparsed
  <2>2. QED
    BY <1>0, <1>2, <2>1, LogStepOrder, ReadOrder, ScannedOrder
<1>3. CASE Restart \/ (InsertFails /\ live)
  <2>1. rows' = rows /\ token' = {} /\ faults' = faults + 1
    BY <1>3 DEF Restart, InsertFails, CloseFile, Fault
  <2>2. QED
    BY <1>0, <2>1, FaultOrder
<1>4. ASSUME rows' = rows, ~live' PROVE InOrder(cuts)'
  BY <1>4 DEF InOrder, RowsSorted
<1>5. CASE Cancel
  <2>1. rows' = rows /\ ~live' /\ faults' = faults + 1
    BY <1>5 DEF Cancel, Fault
  <2>2. QED
    BY <1>0, <1>4, <2>1
<1>6. CASE InsertFails /\ ~live
  <2>1. rows' = rows /\ ~live' /\ faults' = faults
    BY <1>6 DEF InsertFails
  <2>2. QED
    BY <1>0, <1>4, <2>1
<1>7. QED
  BY <1>1, <1>2, <1>3, <1>5, <1>6, NextSorted DEF Beside

\* Rows are never taken back.
LEMMA RowsStay ==
  ASSUME IInv, [Next]_vars
  PROVE  Len(rows) \in Nat /\ Len(rows') \in Nat /\ Len(rows') >= Len(rows)
<1>1. rows \in Seq(Row) /\ Len(rows) \in Nat
  BY DEF IInv, Types, RestTypes
<1>2. rows' = rows \/ InsertNPM
  <2>1. CASE Beside
    BY <2>1, BesideUnread
  <2>2. CASE LogStep \/ Read \/ Unparsed
    BY <2>2 DEF LogStep, CreateFile, RenameAway, Truncate, WriteLine, FinishLine, Read, Unparsed
  <2>3. CASE InsertFails \/ Cancel \/ Restart
    BY <2>3 DEF InsertFails, Cancel, Restart
  <2>4. QED
    BY <2>1, <2>2, <2>3, NextSorted DEF Beside
<1>3. CASE rows' = rows
  BY <1>1, <1>3
<1>4. CASE InsertNPM
  BY <1>1, <1>4 DEF InsertNPM
<1>5. QED
  BY <1>2, <1>3, <1>4

\* Every step keeps the rows in their runs.
LEMMA NextRuns ==
  ASSUME IInv, LogOrdered, InRuns, [Next]_vars
  PROVE  InRuns'
<1>1. PICK cuts \in SUBSET (1..Len(rows) + 1) : Cardinality(cuts) <= faults /\ InOrder(cuts)
  BY DEF InRuns
<1>2. Len(rows) \in Nat /\ Len(rows') \in Nat /\ Len(rows') >= Len(rows) /\ faults \in Nat
  BY RowsStay DEF IInv, Types, RestTypes
<1>3. IsFiniteSet(cuts) /\ Cardinality(cuts) \in Nat
  <2>1. IsFiniteSet(1..Len(rows) + 1)
    BY <1>2, FS_Interval
  <2>2. IsFiniteSet(cuts)
    BY <2>1, FS_Subset
  <2>3. QED
    BY <2>2, FS_CardinalityType
<1>4. CASE InOrder(cuts)' /\ faults' >= faults
  <2>1. cuts \in SUBSET (1..Len(rows') + 1)
    BY <1>2
  <2>2. Cardinality(cuts) <= faults'
    BY <1>1, <1>2, <1>3, <1>4, NextOrder
  <2>3. QED
    BY <1>4, <2>1, <2>2 DEF InRuns
<1>5. CASE /\ faults' = faults + 1 /\ rows' = rows
           /\ \A more : more = cuts \cup {Len(rows) + 1} => InOrder(more)'
  <2>1. PICK more : more = cuts \cup {Len(rows) + 1}
    OBVIOUS
  <2>2. more \in SUBSET (1..Len(rows') + 1)
    <3>1. Len(rows) + 1 \in 1..Len(rows') + 1
      BY <1>2, <1>5
    <3>2. cuts \subseteq 1..Len(rows') + 1
      BY <1>5
    <3>3. QED
      BY <2>1, <3>1, <3>2
  <2>3. Cardinality(more) = Cardinality(cuts) \/ Cardinality(more) = Cardinality(cuts) + 1
    BY <1>3, <2>1, FS_AddElement
  <2>4. Cardinality(more) <= faults'
    BY <1>1, <1>2, <1>3, <1>5, <2>3
  <2>5. QED
    BY <1>5, <2>1, <2>2, <2>4 DEF InRuns
<1>6. QED
  BY <1>1, <1>4, <1>5, NextOrder

\* Every step keeps the count.
LEMMA NextCount ==
  ASSUME IInv, LogOrdered, Counted, [Next]_vars
  PROVE  Counted'
<1>1. CASE Beside
  BY <1>1, BesideUnread, StillCount
<1>2. CASE InsertFails \/ Restart
  <2>1. rows' = rows /\ token' = {}
    BY <1>2 DEF InsertFails, Restart, CloseFile
  <2>2. CASE live \/ Restart
    BY <1>2, <2>1, <2>2, FaultCount DEF InsertFails, Restart, Fault, Counted
  <2>3. CASE ~live /\ InsertFails
    <3>1. faults' = faults /\ ~live'
      BY <2>3 DEF InsertFails
    <3>2. QED
      BY <2>1, <3>1, FaultCount DEF Counted
  <2>4. QED
    BY <1>2, <2>2, <2>3
<1>3. CASE Cancel
  <2>1. /\ UNCHANGED <<log, path, file, pos, offset>> /\ (Reading' <=> Reading)
        /\ rows' = rows /\ ~live' /\ token' = token /\ faults' = faults + 1
    BY <1>3 DEF Cancel, Fault, reader, Reading
  <2>2. QED
    BY <2>1, StillUnread, StillCount
<1>4. QED
  BY <1>1, <1>2, <1>3, LogStepCount, ReadCount, ScannedCount, NextSorted DEF Beside

\* What is written and read is in order, and read within the count, always.
LEMMA InvariantCount == Spec => [](LogOrdered /\ Counted)
<1>1. Init => LogOrdered /\ Counted
  BY InitOrder
<1>2. IInv /\ LogOrdered /\ Counted /\ [Next]_vars => (LogOrdered /\ Counted)'
  BY NextLogOrdered, NextCount
<1>3. QED
  BY <1>1, <1>2, Inductive, PTL DEF Spec

\* The rows are in order but for a cut at each fault, always.
LEMMA InvariantOrder == Spec => []InRuns
<1>1. Init => InRuns
  BY InitOrder
<1>2. IInv /\ LogOrdered /\ Counted /\ InRuns /\ [Next]_vars => InRuns'
  BY NextRuns
<1>3. QED
  BY <1>1, <1>2, Inductive, InvariantCount, PTL DEF Spec

\* A half is in one row more than there were faults at most, across rotations,
\* truncations and lines met half written (npm.go:58-88): the offset, taken back
\* to the start of a file that has become shorter, makes the collector read
\* nothing again, and a failed insert or a restart each line once again.
THEOREM FaultsBoundRepeats == Spec => []RepeatsBounded
<1>1. IInv /\ LogOrdered /\ Counted => RepeatsBounded
  <2> SUFFICES ASSUME IInv, Counted, NEW h \in Half
               PROVE  Cardinality(RowsWith(h)) <= faults + 1
    BY DEF RepeatsBounded
  <2>1. Cardinality(RowsWith(h)) \in Nat /\ faults \in Nat
    BY RowsFinite DEF IInv, Types, RestTypes
  <2>2. Cardinality(RowsWith(h)) <= (IF MayRead(h) THEN faults ELSE faults + 1)
    BY DEF Counted, CountWithin
  <2>3. QED
    BY <2>1, <2>2
<1>2. QED
  BY <1>1, Inductive, InvariantCount, PTL

\* The rows of a path are in the order of its lines, across rotations and truncations, but for one
\* place where they start over for each fault (npm.go:35-88).
THEOREM RowsOrdered == Spec => []RowsInOrder
<1>1. IInv /\ InRuns => RowsInOrder
  <2> SUFFICES ASSUME IInv, InRuns PROVE RowsInOrder
    OBVIOUS
  <2>1. PICK cuts \in SUBSET (1..Len(rows) + 1) : Cardinality(cuts) <= faults /\ InOrder(cuts)
    BY DEF InRuns
  <2> DEFINE inside == cuts \cap DOMAIN rows
  <2>2. Len(rows) \in Nat /\ DOMAIN rows = 1..Len(rows) /\ faults \in Nat
    BY DEF IInv, Types, RestTypes
  <2>3. Cardinality(inside) <= faults
    <3>1. IsFiniteSet(1..Len(rows) + 1)
      BY <2>2, FS_Interval
    <3>2. IsFiniteSet(cuts)
      BY <3>1, FS_Subset
    <3>3. Cardinality(inside) <= Cardinality(cuts)
      BY <3>2, FS_Subset
    <3>4. Cardinality(inside) \in Nat /\ Cardinality(cuts) \in Nat
      BY <3>2, FS_Subset, FS_CardinalityType
    <3>5. QED
      BY <2>1, <2>2, <3>3, <3>4
  <2>4. ASSUME NEW i \in DOMAIN rows, NEW j \in DOMAIN rows, StartsOver(i, j)
        PROVE  \E k \in inside : i < k /\ k <= j
    <3>1. PICK g \in rows[i].halves, h \in rows[j].halves : h.line < g.line
      BY <2>4 DEF StartsOver
    <3>2. rows[i] \in Row /\ rows[j] \in Row
      BY DEF IInv, Types, RestTypes
    <3>3. g \in Half /\ h \in Half
      BY <3>2 DEF Row
    <3>4. ~Before(g, h)
      BY <3>1, <3>3 DEF Before, Half, Line
    <3>5. ~SameRun(cuts, i, j)
      BY <2>1, <2>4, <3>4 DEF InOrder, RowsSorted, StartsOver
    <3>6. PICK k \in cuts : i < k /\ k <= j
      BY <3>5 DEF SameRun
    <3>7. k \in inside
      BY <2>2, <3>6
    <3>8. QED
      BY <3>6, <3>7
  <2>5. inside \in SUBSET DOMAIN rows
    OBVIOUS
  <2> HIDE DEF inside
  <2>6. QED
    BY <2>3, <2>4, <2>5 DEF RowsInOrder
<1>2. QED
  BY <1>1, Inductive, InvariantOrder, PTL
================================================================================
