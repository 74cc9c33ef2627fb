---------------------------------- MODULE NpmTail ----------------------------------
(***************************************************************************)
(* The ingestion of the Nginx Proxy Manager access logs: the collector that *)
(* tails the files matching NPM_LOG_GLOB into npm_requests, while nginx     *)
(* appends to them, logrotate replaces or truncates them and the process    *)
(* restarts.  The collector runs in the engine's goroutine, one Collect at  *)
(* a time; its offsets live in memory, its rows in the database.            *)
(*                                                                         *)
(* A line of the log is two halves, the second with the newline, so that    *)
(* the reader can meet a line nginx has written half of.  Offsets count     *)
(* halves; lines are numbered in the order of their writing.  Lines longer  *)
(* than the 64 KiB of bufio.Scanner are not written.                        *)
(***************************************************************************)
EXTENDS Integers, Sequences, FiniteSets

CONSTANTS
  Path,          \* the files that may match the glob
  TornWrites,    \* nginx may be seen with half a line written
  MaxLines,      \* bound: lines ever written
  MaxFiles,      \* bound: files a path names one after the other
  MaxFaults,     \* bound: failed inserts, cancellations and restarts
  MaxClock,      \* bound: hours that pass
  Day            \* hours in a day

ASSUME ConstantsAssumption ==
  /\ TornWrites \in BOOLEAN
  /\ MaxLines \in Nat /\ MaxFiles \in Nat /\ MaxFaults \in Nat /\ MaxClock \in Nat
  /\ Day \in Nat \ {0}

Line == 1..MaxLines

Half == [line : Line, newline : BOOLEAN]

FirstHalf(n) == [line |-> n, newline |-> FALSE]

LastHalf(n) == [line |-> n, newline |-> TRUE]

Whole(n) == {FirstHalf(n), LastHalf(n)}

VARIABLES
  files,     \* contents of the files each path has named, the last one current
  present,   \* the path names its last file; otherwise it names none
  lines,     \* number of lines begun
  written,   \* history: hour in which each line was begun
  replaced,  \* history: paths whose file was renamed or truncated
  rows,      \* npm_requests in insertion order: path, halves read, ts
  pc,        \* where the collector stands
  left,      \* paths of the glob that Collect has not reached
  path,      \* path being read
  file,      \* index in files[path] of the file opened
  pos,       \* halves of it read
  token,     \* halves of the line under construction
  eof,       \* the scanner has met the end of the file
  offset,    \* NPM.offset, in memory
  live,      \* the engine's context is not done
  clock,     \* hours passed
  faults,    \* faults so far
  torn       \* history: lines read otherwise than whole

log    == <<files, present, lines, written, replaced>>
reader == <<pc, left, path, file, pos, token, eof>>
vars   == <<log, rows, reader, offset, live, clock, faults, torn>>

Init ==
  /\ files = [p \in Path |-> <<>>]
  /\ present = [p \in Path |-> FALSE]
  /\ lines = 0 /\ written = [n \in Line |-> 0] /\ replaced = {}
  /\ rows = <<>>
  /\ pc = "idle" /\ left = {} /\ path \in Path
  /\ file = 0 /\ pos = 0 /\ token = {} /\ eof = FALSE
  /\ offset = [p \in Path |-> 0]
  /\ live = TRUE /\ clock = 0 /\ faults = 0 /\ torn = {}

Fault == faults < MaxFaults /\ faults' = faults + 1

-----------------------------------------------------------------------------
(* nginx and logrotate.                                                    *)

Current(p) == files[p][Len(files[p])]

\* nginx has written the first half of a line and not the second.
MidLine(p) == Current(p) # <<>> /\ ~Current(p)[Len(Current(p))].newline

Append2(p, halves) == files' = [files EXCEPT ![p][Len(files[p])] = @ \o halves]

CreateFile(p) ==
  /\ ~present[p] /\ Len(files[p]) < MaxFiles
  /\ files' = [files EXCEPT ![p] = Append(@, <<>>)]
  /\ present' = [present EXCEPT ![p] = TRUE]
  /\ UNCHANGED <<lines, written, replaced, rows, reader, offset, live, clock, faults, torn>>

\* logrotate renames the file away; the collector may still hold it open.
RenameAway(p) ==
  /\ present[p]
  /\ present' = [present EXCEPT ![p] = FALSE]
  /\ replaced' = replaced \cup {p}
  /\ UNCHANGED <<files, lines, written, rows, reader, offset, live, clock, faults, torn>>

\* copytruncate: the file is emptied in place, once in this model.
Truncate(p) ==
  /\ present[p] /\ p \notin replaced
  /\ files' = [files EXCEPT ![p][Len(files[p])] = <<>>]
  /\ replaced' = replaced \cup {p}
  /\ UNCHANGED <<present, lines, written, rows, reader, offset, live, clock, faults, torn>>

\* A line is appended, whole or its first half now and the rest later.
WriteLine(p) ==
  /\ present[p] /\ ~MidLine(p)
  /\ lines < MaxLines /\ lines' = lines + 1
  /\ \/ Append2(p, <<FirstHalf(lines'), LastHalf(lines')>>)
     \/ TornWrites /\ Append2(p, <<FirstHalf(lines')>>)
  /\ written' = [written EXCEPT ![lines'] = clock]
  /\ UNCHANGED <<present, replaced, rows, reader, offset, live, clock, faults, torn>>

FinishLine(p) ==
  /\ present[p] /\ MidLine(p)
  /\ Append2(p, <<LastHalf(Current(p)[Len(Current(p))].line)>>)
  /\ UNCHANGED <<present, lines, written, replaced, rows, reader, offset, live, clock, faults, torn>>

-----------------------------------------------------------------------------
(* The collector.                                                          *)

\* NPM.Collect, on a tick: the glob lists the paths that exist.
Collect ==
  /\ pc = "idle"
  /\ pc' = "files"
  /\ left' = {p \in Path : present[p]}
  /\ UNCHANGED <<log, rows, path, file, pos, token, eof, offset, live, clock, faults, torn>>

\* The loop of Collect is over, or the context is done.
EndCollect ==
  /\ pc = "files"
  /\ left = {} \/ ~live
  /\ pc' = "idle"
  /\ left' = {}
  /\ UNCHANGED <<log, rows, path, file, pos, token, eof, offset, live, clock, faults, torn>>

\* tailFile returns: what it had in hand is gone.
CloseFile == file' = 0 /\ pos' = 0 /\ token' = {} /\ eof' = FALSE

\* Where tailFile seeks to: the saved offset, or the start of a file that
\* has become shorter.
StartOffsetMut(p) == 0

StartOffsetBack(p) == offset[p] - 1

StartOffset(p) == IF Len(Current(p)) < offset[p] THEN 0 ELSE offset[p]

\* tailFile, up to its loop: open, stat and seek.
OpenFile(p) ==
  /\ pc = "files" /\ live
  /\ p \in left /\ present[p]
  /\ left' = left \ {p}
  /\ path' = p /\ file' = Len(files[p])
  /\ pos' = StartOffset(p) /\ token' = {} /\ eof' = FALSE
  /\ pc' = "read"
  /\ UNCHANGED <<log, rows, offset, live, clock, faults, torn>>

\* The path named a file when the glob was read and names none now: the error
\* is ignored and the next path is tried.
OpenFails(p) ==
  /\ pc = "files" /\ live
  /\ p \in left /\ ~present[p]
  /\ left' = left \ {p}
  /\ UNCHANGED <<log, rows, pc, path, file, pos, token, eof, offset, live, clock, faults, torn>>

\* The scanner reads on: a newline, or the end of the file, ends the token.
Read ==
  /\ pc = "read"
  /\ LET content == files[path][file]
     IN  IF pos < Len(content)
         THEN /\ pos' = pos + 1
              /\ token' = token \cup {content[pos + 1]}
              /\ pc' = IF content[pos + 1].newline THEN "insert" ELSE "read"
              /\ UNCHANGED eof
         ELSE /\ eof' = TRUE
              /\ pc' = IF token = {} THEN "save" ELSE "insert"
              /\ UNCHANGED <<pos, token>>
  /\ UNCHANGED <<log, rows, left, path, file, offset, live, clock, faults, torn>>

IsWhole(halves) == \E n \in Line : halves = Whole(n)

Splits(halves) == IF IsWhole(halves) THEN {} ELSE {h.line : h \in halves}

Scanned ==
  /\ pc = "insert"
  /\ token' = {}
  /\ torn' = torn \cup Splits(token)

Continue == pc' = IF eof THEN "save" ELSE "read"

\* parseNPMLine yields a request: a row with the time of the ingestion.
InsertNPM ==
  /\ Scanned /\ live
  /\ rows' = Append(rows, [path |-> path, halves |-> token, ts |-> clock])
  /\ Continue
  /\ UNCHANGED <<log, left, path, file, pos, eof, offset, live, clock, faults>>

\* parseNPMLine yields nil, which a line cut in two may well do.
Unparsed ==
  /\ Scanned /\ ~IsWhole(token)
  /\ Continue
  /\ UNCHANGED <<log, rows, left, path, file, pos, eof, offset, live, clock, faults>>

\* The offset of the path moves when its file was read to the end.
SavesOffsetMut(completed) == offset' = [offset EXCEPT ![path] = pos]

SavesOffset(completed) ==
  offset' = IF completed THEN [offset EXCEPT ![path] = pos] ELSE offset

\* InsertNPM fails: tailFile returns before its offset is saved, and Collect
\* ignores the error.
InsertFails ==
  /\ pc = "insert"
  /\ IF live THEN Fault ELSE UNCHANGED faults
  /\ SavesOffset(FALSE)
  /\ CloseFile
  /\ pc' = "files"
  /\ UNCHANGED <<log, rows, left, path, live, clock, torn>>

\* The end of tailFile: what was read is saved as the offset of the path.
SaveOffset ==
  /\ pc = "save"
  /\ SavesOffset(TRUE)
  /\ CloseFile
  /\ pc' = "files"
  /\ UNCHANGED <<log, rows, left, path, live, clock, faults, torn>>

CollectorStep ==
  \/ EndCollect
  \/ \E p \in Path : OpenFile(p) \/ OpenFails(p)
  \/ Read
  \/ InsertNPM
  \/ Unparsed
  \/ InsertFails
  \/ SaveOffset

-----------------------------------------------------------------------------
(* The rest of the process.                                                *)

\* SIGTERM, or the HTTP server failing: the engine's context is cancelled.
Cancel ==
  /\ live
  /\ Fault
  /\ live' = FALSE
  /\ UNCHANGED <<log, rows, reader, offset, clock, torn>>

\* The process ends anywhere and starts again with no offsets.
Restart ==
  /\ Fault
  /\ pc' = "idle" /\ left' = {} /\ CloseFile
  /\ offset' = [p \in Path |-> 0]
  /\ live' = TRUE
  /\ UNCHANGED <<log, rows, path, clock, torn>>

Tick ==
  /\ clock < MaxClock
  /\ clock' = clock + 1
  /\ UNCHANGED <<log, rows, reader, offset, live, faults, torn>>

Next ==
  \/ \E p \in Path : CreateFile(p) \/ RenameAway(p) \/ Truncate(p) \/ WriteLine(p) \/ FinishLine(p)
  \/ Collect
  \/ CollectorStep
  \/ Cancel
  \/ Restart
  \/ Tick

Spec == Init /\ [][Next]_vars

\* The engine's ticker starts a Collect again and again, and a Collect under
\* way goes on; an insert that can go through is not the one that fails
\* forever.  Logs, faults and time are under no obligation.
FairSpec == Spec /\ WF_vars(Collect) /\ WF_vars(CollectorStep)

-----------------------------------------------------------------------------
(* Properties.                                                             *)

Row == [path : Path, halves : SUBSET Half, ts : 0..MaxClock]

\* Every variable holds values of its type.
TypeOK ==
  /\ \A p \in Path :
       \A i \in DOMAIN files[p] : \A j \in DOMAIN files[p][i] : files[p][i][j] \in Half
  /\ present \in [Path -> BOOLEAN] /\ lines \in 0..MaxLines
  /\ written \in [Line -> 0..MaxClock] /\ replaced \subseteq Path
  /\ \A i \in DOMAIN rows : rows[i] \in Row
  /\ pc \in {"idle", "files", "read", "insert", "save"}
  /\ left \subseteq Path /\ path \in Path /\ file \in Nat /\ pos \in Nat
  /\ token \subseteq Half /\ eof \in BOOLEAN
  /\ offset \in [Path -> Nat] /\ live \in BOOLEAN
  /\ clock \in 0..MaxClock /\ faults \in 0..MaxFaults /\ torn \subseteq Line

RowsWith(h) == {i \in DOMAIN rows : h \in rows[i].halves}

\* Each fault makes the collector count a line at most once more, whatever is
\* rotated, truncated or read while half written: with no fault, once.
RepeatsBounded == \A h \in Half : Cardinality(RowsWith(h)) <= faults + 1

\* Two rows of a path of which the second is of an earlier line.
StartsOver(i, j) ==
  /\ i < j /\ rows[i].path = rows[j].path
  /\ \E g \in rows[i].halves, h \in rows[j].halves : h.line < g.line

\* The rows of a path are in the order of its lines, across rotations: only a fault, an insert
\* that fails or a restart, makes them start over.  They fall in one run more than there were
\* faults at most, each in order (npm.go:58-88).
RowsInOrder ==
  LET over == {pair \in (DOMAIN rows) \X (DOMAIN rows) : StartsOver(pair[1], pair[2])}
  IN  \E cuts \in SUBSET DOMAIN rows :
        /\ Cardinality(cuts) <= faults
        /\ \A pair \in over : \E k \in cuts : pair[1] < k /\ k <= pair[2]

Ingested(n) == \E i \in DOMAIN rows : rows[i].halves = Whole(n)

\* A line behind the saved offset has its row, or was read cut in two: an
\* insert that fails takes the offset back, at the price of repeats.  Paths
\* whose file was replaced excepted.
NothingSkipped ==
  \A p \in Path \ replaced :
    \A i \in 1..offset[p] : LET n == Current(p)[i].line IN Ingested(n) \/ n \in torn

\* A line written as a whole to a file that is never replaced is ingested in
\* the end, also when inserts have failed before; a context cancelled for
\* good excepted.
LinesArrive ==
  \A p \in Path, n \in Line :
    (/\ present[p]
     /\ \E i \in DOMAIN Current(p) : Current(p)[i] = LastHalf(n))
      ~> (Ingested(n) \/ n \in torn \/ p \in replaced \/ ~live)

\* The requests that NPMStats counts for a window.
NPMStats(since) == Cardinality({i \in DOMAIN rows : rows[i].ts >= since})

WrittenSince(since) == {n \in 1..lines : written[n] >= since}

\* GET /npm/stats counts the requests of the last 24 hours (README, "Stats
\* NPM 24h").
StatsOfTheDay == NPMStats(clock - Day) <= Cardinality(WrittenSince(clock - Day))
=============================================================================
