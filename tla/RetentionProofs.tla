------------------------------ MODULE RetentionProofs ------------------------------
(***************************************************************************)
(* Theorems about Retention and their proofs.                              *)
(***************************************************************************)
EXTENDS Retention, FiniteSetTheorems, TLAPS

\* The retention in effect: the code adds minus this duration to the time.
Kept == -Wrap(-(RetentionDays * Day))

\* A purge under way holds a cutoff that is at most the one it would compute now.
CutoffPast == pc \in {"purging", "purgingFindings"} => stamp <= clock - Kept

\* The list a Docker collect works on was read at a time that has been.
ListPast == pc = "snapping" => stamp \in 0..clock

\* A finding reported once has its row still, or that row is older than the retention.
FindingKept(f) ==
  reported[f] # -1 =>
    \/ \E r \in rows["compromise_findings"] : r.what = f /\ r.ts = reported[f]
    \/ clock - reported[f] > Kept

FindingsKept == \A f \in Fingerprint : FindingKept(f)

\* The findings that wait for their INSERT carry times that have been.
NotesPast == \A s \in Scan : \A n \in noted[s] : n.ts <= clock

IInv == TypeOK /\ CutoffPast /\ ListPast /\ FindingsKept /\ NotesPast

-----------------------------------------------------------------------------

\* The retention in effect is an integer, and the cutoff is that long ago.
LEMMA KeptInt == Kept \in Int /\ Cutoff = clock + -Kept
<1>1. RetentionDays * Day \in Int /\ HalfWord \in Nat \ {0}
  BY ConstantsAssumption DEF ConstantsAssumption
<1>2. Wrap(-(RetentionDays * Day)) \in Int
  BY <1>1 DEF Wrap
<1>3. QED
  BY <1>2 DEF Kept, Cutoff

\* A retention that fits a duration is the one in effect.
LEMMA KeptIsMeant ==
  ASSUME RetentionFits
  PROVE  Kept = RetentionDays * Day
<1> DEFINE R == RetentionDays * Day
<1>1. R \in Int /\ HalfWord \in Nat \ {0} /\ -R \in -HalfWord..HalfWord - 1
  BY ConstantsAssumption DEF ConstantsAssumption, RetentionFits
<1>2. Kept = -Wrap(-R)
  BY DEF Kept
<1> HIDE DEF R
<1>3. (-R + HalfWord) % (2 * HalfWord) = -R + HalfWord
  BY <1>1
<1>4. Wrap(-R) = -R
  BY <1>1, <1>3 DEF Wrap
<1>5. QED
  BY <1>1, <1>2, <1>4 DEF R

\* What an insert puts in a table is a row, and its identifier stays within the bound.
LEMMA InsertType ==
  ASSUME TypeOK, NEW t \in Table, NEW ts \in 0..MaxClock,
         NEW what \in Level \cup Container \cup Fingerprint \cup {None}, Insert(t, ts, what)
  PROVE  rows' \in [Table -> SUBSET Row] /\ ids' \in 0..MaxRows
<1>1. ids \in 0..MaxRows /\ ids < MaxRows
  BY DEF TypeOK, Insert
<1>2. ids + 1 \in 1..MaxRows
  BY <1>1, ConstantsAssumption DEF ConstantsAssumption
<1>3. NewRow(ts, what) \in Row
  BY <1>2 DEF NewRow, Row
<1>4. rows' = [rows EXCEPT ![t] = rows[t] \cup {NewRow(ts, what)}]
  BY DEF Insert
<1>5. rows \in [Table -> SUBSET Row]
  BY DEF TypeOK
<1>6. rows[t] \cup {NewRow(ts, what)} \in SUBSET Row
  BY <1>3, <1>5
<1>7. rows' \in [Table -> SUBSET Row]
  BY <1>4, <1>5, <1>6
<1>8. QED
  BY <1>2, <1>7, ConstantsAssumption DEF Insert, ConstantsAssumption

\* A delete leaves tables of rows.
LEMMA DeleteType ==
  ASSUME TypeOK, NEW t \in Table, NEW cutoff \in Int, Delete(t, cutoff)
  PROVE  rows' \in [Table -> SUBSET Row]
<1>1. rows \in [Table -> SUBSET Row]
  BY DEF TypeOK
<1>2. rows' = [rows EXCEPT ![t] = {r \in rows[t] : ~Expired(r, cutoff)}]
  BY DEF Delete
<1>3. {r \in rows[t] : ~Expired(r, cutoff)} \in SUBSET Row
  BY <1>1
<1>4. QED
  BY <1>1, <1>2, <1>3

\* What an insert does to each table.
LEMMA InsertRows ==
  ASSUME TypeOK, NEW t \in Table, NEW ts, NEW what, Insert(t, ts, what), NEW u \in Table
  PROVE  rows'[u] = IF u = t THEN rows[u] \cup {NewRow(ts, what)} ELSE rows[u]
  BY DEF TypeOK, Insert

\* What a delete does to each table.
LEMMA DeleteRows ==
  ASSUME TypeOK, NEW t \in Table, NEW cutoff \in Int, Delete(t, cutoff), NEW u \in Table
  PROVE  rows'[u] = IF u = t THEN {r \in rows[u] : ~Expired(r, cutoff)} ELSE rows[u]
  BY DEF TypeOK, Delete

\* The row of a noted finding enters the table, with the time of the note.
Enters(n) ==
  /\ ~Recorded(n.what)
  /\ Insert("compromise_findings", n.ts, n.what)
  /\ reported' = [reported EXCEPT ![n.what] = n.ts]

\* The INSERT of a scan enters the row of its note, or changes no table.
LEMMA InsertEnds ==
  ASSUME IInv, NEW s \in Scan, InsertCompromiseFinding(s)
  PROVE  /\ noted' = [noted EXCEPT ![s] = {}]
         /\ UNCHANGED <<clock, engineVars, faults, failed, highs>>
         /\ \/ \E n \in Note : n.ts <= clock /\ Enters(n)
            \/ UNCHANGED <<rows, ids, reported>>
<1>1. PICK n \in noted[s] :
        /\ noted' = [noted EXCEPT ![s] = {}]
        /\ Enters(n) \/ UNCHANGED <<clock, rows, ids, faults, failed, reported>>
        /\ UNCHANGED <<engineVars, highs>>
  BY DEF InsertCompromiseFinding, Enters
<1>2. n \in Note /\ n.ts <= clock
  BY DEF IInv, TypeOK, NotesPast
<1>3. QED
  BY <1>1, <1>2 DEF Enters, Insert

-----------------------------------------------------------------------------
(* Type correctness.                                                       *)

\* The stamps of a purge or a collect are in range, and the rest of the type.
LEMMA InitIInv == Init => IInv
<1> SUFFICES ASSUME Init PROVE IInv
  OBVIOUS
<1>1. TypeOK
  <2>1. rows \in [Table -> SUBSET Row]
    <3>1. \A t \in Table : {} \in SUBSET Row
      OBVIOUS
    <3>2. QED
      BY <3>1, ZenonT(20) DEF Init
  <2>2. reported \in [Fingerprint -> -1..MaxClock]
    <3>1. -1 \in -1..MaxClock
      BY ConstantsAssumption DEF ConstantsAssumption
    <3>2. QED
      BY <3>1 DEF Init
  <2>3. queue \in Seq(Purgeable)
    BY DEF Init
  <2>4. clock \in 0..MaxClock /\ ids \in 0..MaxRows /\ faults \in 0..MaxFaults
    BY ConstantsAssumption DEF Init, ConstantsAssumption
  <2>5. /\ pc = "idle" /\ todo = {} /\ queue = <<>> /\ stamp = 0 /\ highs = 0
    BY DEF Init
  <2>6. /\ pc \in {"idle", "judging", "alerting", "snapping", "purging", "purgingFindings"}
        /\ todo \subseteq Container /\ (pc # "snapping" => todo = {})
        /\ (pc # "purging" => queue = <<>>)
        /\ stamp \in Int /\ highs \in Nat
    BY <2>5
  <2>7. failed \in BOOLEAN
    BY Zenon DEF Init
  <2>8. noted \in [Scan -> SUBSET Note]
    BY DEF Init
  <2>9. QED
    BY <2>1, <2>2, <2>3, <2>4, <2>5, <2>6, <2>7, <2>8, Zenon DEF TypeOK
<1>2. CutoffPast /\ ListPast /\ FindingsKept /\ NotesPast
  BY DEF Init, CutoffPast, ListPast, FindingsKept, FindingKept, NotesPast
<1>3. QED
  BY <1>1, <1>2 DEF IInv

\* Each step keeps the type.
LEMMA StepType ==
  ASSUME IInv, [Next]_vars
  PROVE  TypeOK'
<1> USE ConstantsAssumption DEF ConstantsAssumption
<1>0. TypeOK
  BY DEF IInv
<1>1. ASSUME NEW level \in Level, CollectHost(level) PROVE TypeOK'
  <2>1. clock \in 0..MaxClock
    BY <1>0 DEF TypeOK
  <2>2. Insert("host_metrics", clock, level)
    BY <1>1 DEF CollectHost
  <2>3. rows' \in [Table -> SUBSET Row] /\ ids' \in 0..MaxRows
    BY <1>0, <2>1, <2>2, InsertType DEF Table
  <2>4. highs' \in Nat
    BY <1>0, <1>1 DEF CollectHost, TypeOK, scanVars
  <2>5. QED
    BY <1>0, <1>1, <2>2, <2>3, <2>4 DEF CollectHost, Insert, TypeOK, scanVars
<1>2. CASE Judge
  BY <1>0, <1>2 DEF Judge, TypeOK, scanVars
<1>3. CASE AlertCPU
  <2>1. clock \in 0..MaxClock
    BY <1>0 DEF TypeOK
  <2>2. Insert("alerts", clock, None)
    BY <1>3 DEF AlertCPU
  <2>3. rows' \in [Table -> SUBSET Row] /\ ids' \in 0..MaxRows
    BY <1>0, <2>1, <2>2, InsertType DEF Table
  <2>4. QED
    BY <1>0, <1>3, <2>2, <2>3 DEF AlertCPU, Insert, TypeOK, scanVars
<1>4. ASSUME NEW list \in SUBSET Container, ListContainers(list) PROVE TypeOK'
  BY <1>0, <1>4 DEF ListContainers, TypeOK, scanVars
<1>5. ASSUME NEW c \in Container, Snapshot(c) PROVE TypeOK'
  <2>1. stamp \in 0..MaxClock
    BY <1>0, <1>5 DEF IInv, ListPast, Snapshot, TypeOK
  <2>2. Insert("container_snapshots", stamp, c)
    BY <1>5 DEF Snapshot
  <2>3. rows' \in [Table -> SUBSET Row] /\ ids' \in 0..MaxRows
    BY <1>0, <2>1, <2>2, InsertType DEF Table
  <2>4. QED
    BY <1>0, <1>5, <2>2, <2>3 DEF Snapshot, Insert, TypeOK, scanVars
<1>6. CASE IngestNPM
  <2>1. clock \in 0..MaxClock
    BY <1>0 DEF TypeOK
  <2>2. Insert("npm_requests", clock, None)
    BY <1>6 DEF IngestNPM
  <2>3. rows' \in [Table -> SUBSET Row] /\ ids' \in 0..MaxRows
    BY <1>0, <2>1, <2>2, InsertType DEF Table
  <2>4. QED
    BY <1>0, <1>6, <2>2, <2>3 DEF IngestNPM, Insert, TypeOK, engineVars, scanVars
<1>7. CASE StartPurge
  <2>1. queue' \in Seq(Purgeable)
    BY <1>7 DEF StartPurge, PurgedFirst, Purgeable, Table
  <2>2. stamp' \in Int
    BY <1>0, <1>7, KeptInt DEF StartPurge, Cutoff, TypeOK, scanVars
  <2>3. QED
    BY <1>0, <1>7, <2>1, <2>2 DEF StartPurge, TypeOK, scanVars
<1>8. CASE PurgeTable
  <2>1. Head(queue) \in Table /\ Tail(queue) \in Seq(Purgeable)
    BY <1>0, <1>8 DEF PurgeTable, TypeOK, Purgeable
  <2>2. rows' \in [Table -> SUBSET Row]
    BY <1>0, <1>8, <2>1, DeleteType DEF PurgeTable, TypeOK, scanVars
  <2>3. QED
    BY <1>0, <1>8, <2>1, <2>2 DEF PurgeTable, TypeOK, scanVars
<1>9. CASE PurgeCompromiseFindings
  <2>1. stamp \in Int
    BY <1>0 DEF TypeOK
  <2>2. rows' \in [Table -> SUBSET Row]
    BY <1>0, <1>9, <2>1, DeleteType DEF PurgeCompromiseFindings, Table
  <2>3. QED
    BY <1>0, <1>9, <2>2 DEF PurgeCompromiseFindings, ToIdle, TypeOK, scanVars
<1>10. CASE StatementFails
  BY <1>0, <1>10 DEF StatementFails, Fail, ToIdle, TypeOK, scanVars
<1>11. ASSUME NEW s \in Scan, InsertCompromiseFinding(s) PROVE TypeOK'
  <2>1. noted' = [noted EXCEPT ![s] = {}] /\ UNCHANGED <<clock, engineVars, faults, failed, highs>>
    BY <1>11, InsertEnds
  <2>2. noted' \in [Scan -> SUBSET Note]
    BY <1>0, <2>1 DEF TypeOK
  <2>3. ASSUME NEW n \in Note, Enters(n) PROVE TypeOK'
    <3>1. n.what \in Fingerprint /\ n.ts \in 0..MaxClock
      BY DEF Note
    <3>2. rows' \in [Table -> SUBSET Row] /\ ids' \in 0..MaxRows
      BY <1>0, <2>3, <3>1, InsertType DEF Enters, Table
    <3>3. reported' \in [Fingerprint -> -1..MaxClock]
      BY <1>0, <2>3, <3>1 DEF Enters, TypeOK
    <3>4. QED
      BY <1>0, <2>1, <2>2, <3>2, <3>3 DEF TypeOK, engineVars
  <2>4. CASE UNCHANGED <<rows, ids, reported>>
    BY <1>0, <2>1, <2>2, <2>4 DEF TypeOK, engineVars
  <2>5. QED
    BY <1>11, <2>3, <2>4, InsertEnds
<1>12. ASSUME NEW s \in Scan, NEW f \in Fingerprint, Record(s, f) PROVE TypeOK'
  <2>1. noted' \in [Scan -> SUBSET Note]
    BY <1>0, <1>12 DEF Record, TypeOK, Note
  <2>2. QED
    BY <1>0, <1>12, <2>1 DEF Record, TypeOK, engineVars
<1>13. CASE TimePasses
  BY <1>0, <1>13 DEF TimePasses, TypeOK, engineVars, scanVars
<1>14. CASE Restart
  BY <1>0, <1>14 DEF Restart, ToIdle, TypeOK
<1>15. CASE UNCHANGED vars
  BY <1>0, <1>15 DEF vars, TypeOK, engineVars, scanVars
<1>16. CASE CutFindings
  <2>1. stamp' \in Int
    BY <1>0, <1>16, KeptInt DEF CutFindings, Cutoff, TypeOK
  <2>2. QED
    BY <1>0, <1>16, <2>1 DEF CutFindings, TypeOK, scanVars
<1>17. QED
  BY <1>1, <1>2, <1>3, <1>4, <1>5, <1>6, <1>7, <1>8, <1>9, <1>10, <1>11, <1>12, <1>13, <1>14,
     <1>15, <1>16 DEF Next, EngineStep
-----------------------------------------------------------------------------
(* The rest of the inductive invariant.                                    *)

\* Rows change by an insert, by an expired row of a purge, or not at all; alerts are never
\* deleted, and findings enter only from a note.
LEMMA RowsMove ==
  ASSUME IInv, [Next]_vars
  PROVE  \/ rows' = rows
         \/ \E t \in Table \ {"compromise_findings"} :
              \A u \in Table : rows[u] \subseteq rows'[u] /\ (u # t => rows'[u] = rows[u])
         \/ \E n \in Note : n.ts <= clock /\ Enters(n)
         \/ \E t \in Table \ {"alerts"}, cutoff \in Int :
              cutoff <= clock - Kept /\ Delete(t, cutoff)
<1>0. TypeOK
  BY DEF IInv
<1>1. ASSUME NEW t \in Table \ {"compromise_findings"}, NEW ts, NEW what, Insert(t, ts, what)
      PROVE  \A u \in Table : rows[u] \subseteq rows'[u] /\ (u # t => rows'[u] = rows[u])
  BY <1>0, <1>1, InsertRows
<1>2. ASSUME NEW level \in Level, CollectHost(level)
      PROVE  Insert("host_metrics", clock, level)
  BY <1>2 DEF CollectHost
<1>3. ASSUME NEW c \in Container, Snapshot(c)
      PROVE  Insert("container_snapshots", stamp, c)
  BY <1>3 DEF Snapshot
<1>4. CASE AlertCPU
  <2>1. Insert("alerts", clock, None)
    BY <1>4 DEF AlertCPU
  <2>2. QED
    BY <1>1, <2>1 DEF Table
<1>5. CASE IngestNPM
  <2>1. Insert("npm_requests", clock, None)
    BY <1>5 DEF IngestNPM
  <2>2. QED
    BY <1>1, <2>1 DEF Table
<1>6. CASE PurgeTable
  <2>1. stamp \in Int /\ stamp <= clock - Kept
    BY <1>0, <1>6 DEF IInv, CutoffPast, PurgeTable, TypeOK
  <2>2. Head(queue) \in Purgeable /\ Delete(Head(queue), stamp)
    BY <1>0, <1>6 DEF PurgeTable, TypeOK
  <2>3. QED
    BY <2>1, <2>2 DEF Purgeable
<1>7. CASE PurgeCompromiseFindings
  <2>1. stamp \in Int /\ stamp <= clock - Kept
    BY <1>0, <1>7 DEF IInv, CutoffPast, PurgeCompromiseFindings, TypeOK
  <2>2. Delete("compromise_findings", stamp)
    BY <1>7 DEF PurgeCompromiseFindings
  <2>3. QED
    BY <2>1, <2>2 DEF Table
<1>8. QED
  BY <1>1, <1>2, <1>3, <1>4, <1>5, <1>6, <1>7, InsertEnds
  DEF Next, EngineStep, Judge, ListContainers, StartPurge, StatementFails, Fail, Record, CutFindings,
      TimePasses, Restart, vars, Table

\* Each step keeps the cutoff, the list of a collect and the notes of the scans in the past.
LEMMA StepStamps ==
  ASSUME IInv, [Next]_vars
  PROVE  CutoffPast' /\ ListPast' /\ NotesPast'
<1> USE ConstantsAssumption DEF ConstantsAssumption
<1> DEFINE R == Kept
<1>0. TypeOK /\ CutoffPast /\ ListPast /\ NotesPast /\ R \in Int
  BY KeptInt DEF IInv
<1> HIDE DEF R
<1>1. CASE StartPurge \/ CutFindings
  <2>1. stamp' = clock' - R /\ pc' \in {"purging", "purgingFindings"} /\ clock \in Int
    <3>1. /\ stamp' = Cutoff /\ clock' = clock /\ pc' \in {"purging", "purgingFindings"}
          /\ clock \in Int
      BY <1>0, <1>1 DEF StartPurge, CutFindings, TypeOK
    <3>2. Cutoff = clock + -R
      BY KeptInt DEF R
    <3>3. QED
      BY <1>0, <3>1, <3>2
  <2>2. NotesPast'
    BY <1>0, <1>1 DEF StartPurge, CutFindings, scanVars, NotesPast
  <2>3. QED
    BY <1>0, <1>1, <2>1, <2>2 DEF CutoffPast, ListPast, R, StartPurge, CutFindings
<1>2. ASSUME NEW list \in SUBSET Container, ListContainers(list)
      PROVE  CutoffPast' /\ ListPast' /\ NotesPast'
  BY <1>0, <1>2 DEF ListContainers, CutoffPast, ListPast, NotesPast, TypeOK, scanVars
<1>3. CASE TimePasses
  <2>1. /\ clock \in Int /\ clock' = clock + 1 /\ stamp' = stamp /\ pc' = pc /\ stamp \in Int
        /\ noted' = noted
    BY <1>0, <1>3 DEF TimePasses, TypeOK, engineVars, scanVars
  <2>2. CutoffPast'
    <3>1. ASSUME pc' \in {"purging", "purgingFindings"} PROVE stamp' <= clock' - R
      <4>1. stamp <= clock - R
        BY <1>0, <2>1, <3>1 DEF CutoffPast, R
      <4>2. QED
        BY <1>0, <2>1, <4>1
    <3>2. QED
      BY <3>1 DEF CutoffPast, R
  <2>3. ListPast'
    BY <1>0, <2>1 DEF ListPast
  <2>4. NotesPast'
    <3>1. \A s \in Scan : \A n \in noted[s] : n.ts \in Int
      BY <1>0 DEF TypeOK, Note
    <3>2. QED
      BY <1>0, <2>1, <3>1 DEF NotesPast
  <2>5. QED
    BY <2>2, <2>3, <2>4
<1>4. ASSUME clock' = clock,
             \/ stamp' = stamp /\ pc' = pc
             \/ pc' \notin {"purging", "purgingFindings", "snapping"}
      PROVE  CutoffPast' /\ ListPast'
  BY <1>0, <1>4 DEF CutoffPast, ListPast
<1>5. ASSUME noted' = noted, clock' = clock PROVE NotesPast'
  BY <1>0, <1>5 DEF NotesPast
<1>6. ASSUME NEW s \in Scan, NEW f \in Fingerprint, Record(s, f)
      PROVE  CutoffPast' /\ ListPast' /\ NotesPast'
  <2>1. NotesPast'
    BY <1>0, <1>6 DEF Record, NotesPast, TypeOK
  <2>2. QED
    BY <1>4, <1>6, <2>1 DEF Record, engineVars
<1>7. ASSUME NEW s \in Scan, InsertCompromiseFinding(s)
      PROVE  CutoffPast' /\ ListPast' /\ NotesPast'
  <2>1. noted' = [noted EXCEPT ![s] = {}] /\ UNCHANGED <<clock, engineVars>>
    BY <1>7, InsertEnds
  <2>2. NotesPast'
    BY <1>0, <2>1 DEF NotesPast, TypeOK
  <2>3. QED
    BY <1>4, <2>1, <2>2 DEF engineVars
<1>8. CASE Restart
  <2>1. NotesPast'
    BY <1>8 DEF Restart, NotesPast
  <2>2. QED
    BY <1>4, <1>8, <2>1 DEF Restart, ToIdle
<1>9. CASE PurgeTable
  BY <1>4, <1>5, <1>9 DEF PurgeTable, scanVars
<1>10. ASSUME NEW c \in Container, Snapshot(c) PROVE CutoffPast' /\ ListPast' /\ NotesPast'
  BY <1>4, <1>5, <1>10 DEF Snapshot, Insert, scanVars
<1>11. QED
  BY <1>1, <1>2, <1>3, <1>4, <1>5, <1>6, <1>7, <1>8, <1>9, <1>10
  DEF Next, EngineStep, CollectHost, Judge, AlertCPU, IngestNPM, PurgeCompromiseFindings,
      StatementFails, Fail, ToIdle, vars, Insert, engineVars, scanVars

\* Only a finding without a row is reported again, and the clock does not go back.
LEMMA WhoReports ==
  ASSUME IInv, [Next]_vars
  PROVE  /\ clock \in Nat /\ clock' \in Nat /\ clock' >= clock
         /\ \/ reported' = reported
            \/ \E n \in Note : n.ts <= clock /\ Enters(n)
<1>1. TypeOK /\ TypeOK'
  BY StepType DEF IInv
<1>2. clock \in Nat /\ clock' \in Nat
  BY <1>1, ConstantsAssumption DEF TypeOK, ConstantsAssumption
<1>3. clock' = clock \/ clock' = clock + 1
  BY DEF Next, EngineStep, CollectHost, Judge, AlertCPU, ListContainers, Snapshot, IngestNPM,
     StartPurge, PurgeTable, PurgeCompromiseFindings, StatementFails, Fail,
     InsertCompromiseFinding, Record, CutFindings, TimePasses, Restart, vars, Insert
<1>4. reported' = reported \/ \E n \in Note : n.ts <= clock /\ Enters(n)
  BY InsertEnds DEF Next, EngineStep, CollectHost, Judge, AlertCPU, ListContainers, Snapshot, IngestNPM,
     StartPurge, PurgeTable, PurgeCompromiseFindings, StatementFails, Fail,
     Record, CutFindings, TimePasses, Restart, vars, scanVars
<1>5. QED
  BY <1>2, <1>3, <1>4

\* Each step keeps a finding's row until it is older than the retention.
LEMMA StepFindings ==
  ASSUME IInv, [Next]_vars
  PROVE  FindingsKept'
<1> SUFFICES ASSUME NEW f \in Fingerprint PROVE FindingKept(f)'
  BY DEF FindingsKept
<1> DEFINE R == Kept
           Findings == rows["compromise_findings"]
<1>0. TypeOK /\ FindingKept(f) /\ R \in Int
  BY KeptInt DEF IInv, FindingsKept
<1>1. clock \in Nat /\ clock' \in Nat /\ clock' >= clock
  BY WhoReports
<1>2. reported[f] \in Int
  BY <1>0 DEF TypeOK
<1>3. FindingKept(f) = (reported[f] # -1 =>
                          \/ \E r \in Findings : r.what = f /\ r.ts = reported[f]
                          \/ clock - reported[f] > R)
  BY DEF FindingKept
<1>4. FindingKept(f)' = (reported'[f] # -1 =>
                           \/ \E r \in Findings' : r.what = f /\ r.ts = reported'[f]
                           \/ clock' - reported'[f] > R)
  BY DEF FindingKept
<1>5. \A r \in Findings : r.ts \in Int
  BY <1>0 DEF TypeOK, Table, Row
<1>6. ASSUME NEW n \in Note, Enters(n) PROVE FindingKept(f)'
  <2>1. Findings' = Findings \cup {NewRow(n.ts, n.what)}
    BY <1>0, <1>6, InsertRows DEF Enters, Table
  <2>2. reported' = [reported EXCEPT ![n.what] = n.ts] /\ clock' = clock
    BY <1>6 DEF Enters, Insert
  <2>3. CASE f = n.what
    <3>1. reported'[f] = n.ts
      BY <1>0, <2>2, <2>3 DEF TypeOK
    <3>2. NewRow(n.ts, n.what).what = f /\ NewRow(n.ts, n.what).ts = n.ts
      BY <2>3 DEF NewRow
    <3>3. QED
      BY <1>4, <2>1, <3>1, <3>2
  <2>4. CASE f # n.what
    <3>1. reported'[f] = reported[f]
      BY <1>0, <2>2, <2>4 DEF TypeOK
    <3>2. QED
      BY <1>0, <1>3, <1>4, <2>1, <2>2, <3>1
  <2>5. QED
    BY <2>3, <2>4
<1>7. ASSUME reported' = reported, Findings \subseteq Findings' PROVE FindingKept(f)'
  <2>1. clock - reported[f] > R => clock' - reported[f] > R
    BY <1>0, <1>1, <1>2
  <2>2. QED
    BY <1>0, <1>3, <1>4, <1>7, <2>1
<1>8. ASSUME reported' = reported, NEW t \in Table, NEW cutoff \in Int, cutoff <= clock - R,
             Delete(t, cutoff)
      PROVE  FindingKept(f)'
  <2>1. \A r \in Findings : r \in Findings' \/ r.ts < cutoff
    BY <1>0, <1>8, DeleteRows DEF Table, Expired
  <2>2. \A r \in Findings : r.ts < cutoff => clock' - r.ts > R
    BY <1>0, <1>1, <1>5, <1>8
  <2>3. clock - reported[f] > R => clock' - reported[f] > R
    BY <1>0, <1>1, <1>2
  <2>4. QED
    BY <1>0, <1>3, <1>4, <1>8, <2>1, <2>2, <2>3
<1>9. CASE reported' = reported
  <2>1. "compromise_findings" \in Table
    BY DEF Table
  <2>2. QED
    BY <1>6, <1>7, <1>8, <1>9, <2>1, RowsMove
<1>10. QED
  BY <1>6, <1>9, WhoReports

\* IInv is inductive.
LEMMA StepIInv == IInv /\ [Next]_vars => IInv'
  BY StepType, StepStamps, StepFindings DEF IInv

\* IInv is an invariant.
LEMMA Inductive == Spec => []IInv
  BY InitIInv, StepIInv, PTL DEF Spec

-----------------------------------------------------------------------------
(* Theorems.                                                               *)

\* Every reachable state of Retention is well typed.
THEOREM TypeCorrect == Spec => []TypeOK
<1>1. IInv => TypeOK
  BY DEF IInv
<1>2. QED
  BY <1>1, Inductive, PTL

\* Whatever fails, and however long the purge takes, no row is purged before it has expired;
\* for any retention that fits a duration, zero and negative ones included.
THEOREM NothingPurgedEarly == Spec => OnlyExpiredPurged
<1> DEFINE R == Kept
<1>1. ASSUME IInv, [Next]_vars, RetentionFits, NEW t \in Table, NEW r \in rows[t] \ rows'[t]
      PROVE  r.ts < clock - RetentionDays * Day
  <2>0. TypeOK /\ R \in Int /\ R = RetentionDays * Day
    BY <1>1, KeptInt, KeptIsMeant DEF IInv
  <2>1. PICK u \in Table \ {"alerts"}, cutoff \in Int : cutoff <= clock - R /\ Delete(u, cutoff)
    <3>1. ASSUME NEW n \in Note, Enters(n) PROVE FALSE
      <4>1. rows[t] \subseteq rows'[t]
        BY <2>0, <3>1, InsertRows DEF Enters, Table
      <4>2. QED
        BY <4>1
    <3>2. QED
      BY <1>1, <3>1, RowsMove
  <2>2. r.ts < cutoff
    BY <2>0, <2>1, DeleteRows DEF Expired
  <2>3. r.ts \in Int /\ clock \in Int
    BY <2>0 DEF TypeOK, Row
  <2>4. QED
    BY <2>0, <2>1, <2>2, <2>3
<1>2. IInv /\ [Next]_vars => [RetentionFits => PurgesExpired]_vars
  BY <1>1 DEF PurgesExpired
<1>3. QED
  BY <1>2, Inductive, PTL DEF Spec, OnlyExpiredPurged

\* A finding re-enters its table only once its previous row is older than the retention, however
\* many scans have noted it, however old their notes are and however the purge's statements and
\* theirs follow one another.
THEOREM LastingFindingsExpireFirst == Spec => FindingsReenterExpired
<1>1. ASSUME IInv, [Next]_vars, RetentionFits,
             NEW r \in rows'["compromise_findings"] \ rows["compromise_findings"],
             reported[r.what] # -1
      PROVE  clock - reported[r.what] > RetentionDays * Day
  <2>0. TypeOK /\ FindingsKept /\ Kept = RetentionDays * Day /\ "compromise_findings" \in Table
    BY <1>1, KeptIsMeant DEF IInv, Table
  <2>1. PICK n \in Note : Enters(n)
    <3>1. ASSUME NEW t \in Table, NEW cutoff \in Int, Delete(t, cutoff) PROVE FALSE
      BY <1>1, <2>0, <3>1, DeleteRows
    <3>2. QED
      BY <1>1, <2>0, <3>1, RowsMove
  <2>2. r = NewRow(n.ts, n.what)
    <3>1. rows'["compromise_findings"] = rows["compromise_findings"] \cup {NewRow(n.ts, n.what)}
      BY <2>0, <2>1, InsertRows DEF Enters
    <3>2. QED
      BY <3>1
  <2>3. r.what = n.what /\ n.what \in Fingerprint /\ ~Recorded(r.what)
    BY <2>1, <2>2 DEF NewRow, Note, Enters
  <2>4. FindingKept(r.what)
    BY <2>0, <2>3 DEF FindingsKept
  <2>5. QED
    BY <1>1, <2>0, <2>3, <2>4 DEF FindingKept, Recorded
<1>2. IInv /\ [Next]_vars =>
        [RetentionFits =>
           \A r \in rows'["compromise_findings"] \ rows["compromise_findings"] :
             reported[r.what] # -1 => clock - reported[r.what] > RetentionDays * Day]_vars
  BY <1>1
<1>3. QED
  BY <1>2, Inductive, PTL DEF Spec, FindingsReenterExpired

-----------------------------------------------------------------------------
(* Alerts match samples.                                                   *)

Samples == rows["host_metrics"]

Alerts == rows["alerts"]

\* Rows carry identifiers given out before and times that have been.
RowsPast == \A t \in Table : \A r \in rows[t] : r.id <= ids /\ r.ts <= clock

\* A sample above 90 % is in the table and its alert is not, yet.
Owed == pc = "alerting" \/ (pc = "judging" /\ Samples # {} /\ LatestHost.what = "high")

\* The alerts raised, and the one the engine has still to raise.
Raised == Cardinality(Alerts) + (IF Owed THEN 1 ELSE 0)

\* The alerts that may be missing: one for each fault, and one that a full disk has refused.  The
\* disk takes no sample either once it is full, so it refuses no second alert.
Spare == IF failed THEN faults + (IF ids = MaxRows /\ ~Owed THEN 1 ELSE 0) ELSE 0

AlertsMatch == IsFiniteSet(Alerts) /\ Raised <= highs /\ highs <= Raised + Spare

\* Each step keeps rows in the past.
LEMMA StepRowsPast ==
  ASSUME IInv, RowsPast, [Next]_vars
  PROVE  RowsPast'
<1>0. TypeOK /\ ids \in Int /\ clock \in Int /\ clock' \in Int /\ clock' >= clock
  BY WhoReports, ConstantsAssumption DEF IInv, TypeOK, ConstantsAssumption
<1>1. \A t \in Table : \A r \in rows[t] : r.id \in Int /\ r.ts \in Int
  BY <1>0 DEF TypeOK, Row
<1>2. ASSUME NEW t \in Table, NEW ts \in Int, NEW what, ts <= clock, clock' = clock, Insert(t, ts, what)
      PROVE  RowsPast'
  <2>1. ids' = ids + 1
    BY <1>2 DEF Insert
  <2>2. NewRow(ts, what).id = ids + 1 /\ NewRow(ts, what).ts = ts
    BY DEF NewRow
  <2>3. SUFFICES ASSUME NEW u \in Table, NEW r \in rows'[u] PROVE r.id <= ids' /\ r.ts <= clock'
    BY DEF RowsPast
  <2>4. r \in rows[u] \/ r = NewRow(ts, what)
    <3>1. rows'[u] = IF u = t THEN rows[u] \cup {NewRow(ts, what)} ELSE rows[u]
      BY <1>0, <1>2, InsertRows, Zenon
    <3>2. QED
      BY <3>1
  <2>5. CASE r \in rows[u]
    <3>1. r.id <= ids /\ r.ts <= clock /\ r.id \in Int /\ r.ts \in Int
      BY <1>1, <2>5 DEF RowsPast
    <3>2. QED
      BY <1>0, <1>2, <2>1, <3>1
  <2>6. CASE r = NewRow(ts, what)
    BY <1>0, <1>2, <2>1, <2>2, <2>6
  <2>7. QED
    BY <2>4, <2>5, <2>6
<1>3. ASSUME NEW t \in Table, NEW cutoff \in Int, Delete(t, cutoff), ids' = ids PROVE RowsPast'
  <2>1. SUFFICES ASSUME NEW u \in Table, NEW r \in rows'[u] PROVE r.id <= ids' /\ r.ts <= clock'
    BY DEF RowsPast
  <2>2. r \in rows[u]
    BY <1>0, <1>3, DeleteRows
  <2>3. QED
    BY <1>0, <1>1, <1>3, <2>2 DEF RowsPast
<1>4. ASSUME rows' = rows, ids' = ids PROVE RowsPast'
  BY <1>0, <1>1, <1>4 DEF RowsPast
<1>5. ASSUME NEW level \in Level, CollectHost(level) PROVE RowsPast'
  BY <1>0, <1>2, <1>5 DEF CollectHost, Insert, Table
<1>6. CASE AlertCPU
  BY <1>0, <1>2, <1>6 DEF AlertCPU, Insert, Table
<1>7. ASSUME NEW c \in Container, Snapshot(c) PROVE RowsPast'
  <2>1. stamp \in Int /\ stamp <= clock
    BY <1>0, <1>7 DEF IInv, ListPast, Snapshot
  <2>2. Insert("container_snapshots", stamp, c) /\ clock' = clock
    BY <1>7 DEF Snapshot, Insert
  <2>3. "container_snapshots" \in Table
    BY DEF Table
  <2>4. QED
    BY <1>2, <2>1, <2>2, <2>3
<1>8. CASE IngestNPM
  BY <1>0, <1>2, <1>8 DEF IngestNPM, Insert, Table
<1>9. ASSUME NEW s \in Scan, InsertCompromiseFinding(s) PROVE RowsPast'
  <2>1. ASSUME NEW n \in Note, n.ts <= clock, Enters(n) PROVE RowsPast'
    <3>1. n.ts \in Int
      BY DEF Note
    <3>2. Insert("compromise_findings", n.ts, n.what) /\ clock' = clock
      BY <2>1 DEF Enters, Insert
    <3>3. "compromise_findings" \in Table
      BY DEF Table
    <3>4. QED
      BY <1>2, <2>1, <3>1, <3>2, <3>3
  <2>2. QED
    BY <1>4, <1>9, <2>1, InsertEnds
<1>10. CASE PurgeTable
  <2>1. Head(queue) \in Table /\ stamp \in Int
    BY <1>0, <1>10 DEF PurgeTable, TypeOK, Purgeable
  <2>2. QED
    BY <1>3, <1>10, <2>1 DEF PurgeTable
<1>11. CASE PurgeCompromiseFindings
  <2>1. stamp \in Int
    BY <1>0 DEF TypeOK
  <2>2. QED
    BY <1>3, <1>11, <2>1 DEF PurgeCompromiseFindings, Table
<1>12. QED
  BY <1>4, <1>5, <1>6, <1>7, <1>8, <1>9, <1>10, <1>11
  DEF Next, EngineStep, Judge, ListContainers, StartPurge, StatementFails, Fail, Record, CutFindings,
      TimePasses, Restart, vars

\* The sample read back is the one just inserted.
LEMMA LatestIsNew ==
  ASSUME IInv, RowsPast, NEW level \in Level, CollectHost(level)
  PROVE  Samples' # {} /\ LatestHost'.what = level
<1> DEFINE n == NewRow(clock, level)
<1>0. TypeOK /\ ids \in Int /\ clock \in Int
  BY ConstantsAssumption DEF IInv, TypeOK, ConstantsAssumption
<1>1. Samples' = Samples \cup {n}
  BY <1>0, InsertRows DEF CollectHost, Samples, Table
<1>2. n.id = ids + 1 /\ n.ts = clock /\ n.what = level
  BY DEF NewRow
<1>3. \A r \in Samples : r.id \in Int /\ r.ts \in Int /\ r.id <= ids /\ r.ts <= clock
  BY <1>0 DEF TypeOK, RowsPast, Row, Samples, Table
<1> HIDE DEF n
<1>4. \A r \in Samples : Before(r, n) /\ ~Before(n, r)
  BY <1>0, <1>2, <1>3 DEF Before
<1>5. ~Before(n, n)
  BY <1>0, <1>2 DEF Before
<1>6. \A r \in Samples' : (\A q \in Samples' : ~Before(r, q)) <=> r = n
  BY <1>1, <1>4, <1>5
<1>7. LatestHost' = CHOOSE r \in Samples' : \A q \in Samples' : ~Before(r, q)
  BY DEF LatestHost, Samples
<1>8. LatestHost' = n
  BY <1>1, <1>6, <1>7
<1>9. QED
  BY <1>1, <1>2, <1>8

\* What the account counts is natural numbers.
LEMMA AccountType ==
  ASSUME IInv, AlertsMatch
  PROVE  /\ Cardinality(Alerts) \in Nat /\ Raised \in Nat /\ Spare \in Nat
         /\ highs \in Nat /\ faults \in Nat /\ ids \in Nat /\ MaxRows \in Nat
<1>1. faults \in Nat /\ ids \in Nat /\ MaxRows \in Nat /\ highs \in Nat
  BY ConstantsAssumption DEF IInv, TypeOK, ConstantsAssumption
<1>2. Cardinality(Alerts) \in Nat
  BY FS_CardinalityType DEF AlertsMatch
<1>3. Raised \in Nat
  BY <1>2 DEF Raised
<1>4. Spare \in Nat
  BY <1>1 DEF Spare
<1>5. QED
  BY <1>1, <1>2, <1>3, <1>4

\* The spare of a state from which the engine inserts a row is its faults: the disk is not full.
LEMMA SpareGrows ==
  ASSUME IInv, failed' = failed, faults' = faults,
         (ids < MaxRows /\ ids' = ids + 1) \/ (ids' = ids /\ (Owed' <=> Owed))
  PROVE  Spare' >= Spare
<1>1. faults \in Nat /\ ids \in Nat /\ MaxRows \in Nat
  BY ConstantsAssumption DEF IInv, TypeOK, ConstantsAssumption
<1>2. CASE ~failed
  BY <1>2 DEF Spare
<1>3. CASE failed /\ ids < MaxRows
  <2>1. Spare = faults
    BY <1>1, <1>3 DEF Spare
  <2>2. Spare' = faults \/ Spare' = faults + 1
    BY <1>1, <1>3 DEF Spare
  <2>3. QED
    BY <1>1, <2>1, <2>2
<1>4. CASE failed /\ ids' = ids /\ (Owed' <=> Owed)
  <2>1. Spare' = Spare
    BY <1>4 DEF Spare
  <2>2. Spare \in Nat
    BY <1>1 DEF Spare
  <2>3. QED
    BY <2>1, <2>2
<1>5. QED
  BY <1>2, <1>3, <1>4

\* A step that touches neither alerts nor the count of high samples, and leaves the engine owing
\* or not owing, keeps the account.
LEMMA AccountKept ==
  ASSUME IInv, AlertsMatch, Alerts' = Alerts, highs' = highs, failed' = failed, faults' = faults,
         Owed' <=> Owed, (ids < MaxRows /\ ids' = ids + 1) \/ ids' = ids
  PROVE  AlertsMatch'
<1>1. Raised' = Raised
  BY DEF Raised
<1>2. Spare' >= Spare
  BY SpareGrows
<1>3. Spare' \in Nat
  BY ConstantsAssumption DEF IInv, TypeOK, ConstantsAssumption, Spare
<1>4. QED
  BY <1>1, <1>2, <1>3, AccountType DEF AlertsMatch

\* Whether an alert is owed changes with the samples and with the engine's place only.
LEMMA OwedKept ==
  ASSUME Samples' = Samples, pc' = pc \/ {pc, pc'} \cap {"judging", "alerting"} = {}
  PROVE  Owed' <=> Owed
<1>1. LatestHost' = LatestHost
  BY DEF LatestHost, Samples
<1>2. QED
  BY <1>1 DEF Owed

\* A sample above 90 % makes the engine owe an alert, another does not.
LEMMA StepCollect ==
  ASSUME IInv, RowsPast, AlertsMatch, NEW level \in Level, CollectHost(level)
  PROVE  AlertsMatch'
<1>1. /\ Insert("host_metrics", clock, level) /\ pc = "idle" /\ pc' = "judging"
      /\ highs' = IF level = "high" THEN highs + 1 ELSE highs
      /\ failed' = failed /\ faults' = faults /\ ids < MaxRows /\ ids' = ids + 1
  BY DEF CollectHost, Insert
<1>2. Alerts' = Alerts
  BY <1>1, InsertRows DEF Alerts, IInv, TypeOK, Table
<1>3. ~Owed /\ (Owed' <=> level = "high")
  BY <1>1, LatestIsNew DEF Owed
<1>4. Raised' = IF level = "high" THEN Raised + 1 ELSE Raised
  BY <1>2, <1>3, AccountType DEF Raised
<1>5. Spare' >= Spare /\ Spare' \in Nat
  BY <1>1, SpareGrows, AccountType DEF Spare
<1>6. QED
  BY <1>1, <1>2, <1>4, <1>5, AccountType DEF AlertsMatch

\* The alert owed enters its table.
LEMMA StepAlertCPU ==
  ASSUME IInv, RowsPast, AlertsMatch, AlertCPU
  PROVE  AlertsMatch'
<1>1. /\ Insert("alerts", clock, None) /\ pc = "alerting" /\ pc' = "idle" /\ highs' = highs
      /\ failed' = failed /\ faults' = faults /\ ids < MaxRows /\ ids' = ids + 1
  BY DEF AlertCPU, Insert
<1>2. Alerts' = Alerts \cup {NewRow(clock, None)}
  BY <1>1, InsertRows DEF Alerts, IInv, TypeOK, Table
<1>3. NewRow(clock, None) \notin Alerts
  <2>1. NewRow(clock, None).id = ids + 1 /\ ids \in Nat
    BY AccountType DEF NewRow
  <2>2. \A r \in Alerts : r.id <= ids
    BY DEF RowsPast, Alerts, Table
  <2>3. QED
    BY <2>1, <2>2
<1>4. IsFiniteSet(Alerts') /\ Cardinality(Alerts') = Cardinality(Alerts) + 1
  BY <1>2, <1>3, FS_AddElement DEF AlertsMatch
<1>5. Owed /\ ~Owed'
  BY <1>1 DEF Owed
<1>6. Raised' = Raised
  BY <1>4, <1>5, AccountType DEF Raised
<1>7. Spare' >= Spare /\ Spare' \in Nat
  BY <1>1, SpareGrows, AccountType DEF Spare
<1>8. QED
  BY <1>1, <1>4, <1>6, <1>7, AccountType DEF AlertsMatch

\* A statement that fails, and a restart, cost the alert the engine owes, if it does.
LEMMA StepFault ==
  ASSUME IInv, AlertsMatch, StatementFails \/ Restart
  PROVE  AlertsMatch'
<1>1. /\ Alerts' = Alerts /\ highs' = highs /\ ids' = ids /\ failed' = TRUE
      /\ faults' = faults + 1 \/ (ids = MaxRows /\ faults' = faults)
  BY DEF StatementFails, Fail, DiskFull, Restart, Alerts
<1>2. ~Owed'
  BY DEF StatementFails, Restart, ToIdle, Owed
<1>3. Raised' = Cardinality(Alerts)
  BY <1>1, <1>2, AccountType DEF Raised
<1>4. Spare' \in Nat /\ Spare' >= faults + 1
  BY <1>1, <1>2, AccountType DEF Spare
<1>5. CASE Owed
  <2>1. Raised = Cardinality(Alerts) + 1 /\ Spare <= faults
    BY <1>5, AccountType DEF Raised, Spare
  <2>2. QED
    BY <1>1, <1>3, <1>4, <1>5, <2>1, AccountType DEF AlertsMatch
<1>6. CASE ~Owed
  <2>1. Raised = Cardinality(Alerts)
    BY <1>6, AccountType DEF Raised
  <2>2. Spare' >= Spare
    BY <1>1, <1>2, <1>6, AccountType DEF Spare
  <2>3. QED
    BY <1>1, <1>3, <1>4, <2>1, <2>2, AccountType DEF AlertsMatch
<1>7. QED
  BY <1>5, <1>6

\* Each step keeps the account of samples and alerts.
LEMMA StepAccount ==
  ASSUME IInv, RowsPast, AlertsMatch, [Next]_vars
  PROVE  AlertsMatch'
<1>0. TypeOK
  BY DEF IInv
<1>1. ASSUME NEW t \in Table \ {"host_metrics", "alerts"}, NEW ts, NEW what, Insert(t, ts, what),
             highs' = highs, pc' = pc \/ {pc, pc'} \cap {"judging", "alerting"} = {}
      PROVE  AlertsMatch'
  <2>1. Samples' = Samples /\ Alerts' = Alerts
    BY <1>0, <1>1, InsertRows DEF Samples, Alerts, Table
  <2>2. Owed' <=> Owed
    BY <1>1, <2>1, OwedKept
  <2>3. QED
    BY <1>1, <2>1, <2>2, AccountKept DEF Insert
<1>2. ASSUME NEW t \in Purgeable, NEW cutoff \in Int, Delete(t, cutoff),
             {pc, pc'} \subseteq {"purging", "purgingFindings", "idle"}, failed' = failed, highs' = highs, faults' = faults, ids' = ids
      PROVE  AlertsMatch'
  <2>1. Alerts' = Alerts
    BY <1>0, <1>2, DeleteRows DEF Purgeable, Alerts, Table
  <2>2. ~Owed /\ ~Owed'
    BY <1>2 DEF Owed
  <2>3. QED
    BY <1>2, <2>1, <2>2, AccountKept
<1>3. CASE Judge
  <2>1. Alerts' = Alerts /\ UNCHANGED <<failed, faults, highs, ids>>
    BY <1>3 DEF Judge, Alerts
  <2>2. Owed' <=> Owed
    BY <1>3 DEF Judge, Owed, Samples
  <2>3. QED
    BY <2>1, <2>2, AccountKept
<1>4. ASSUME NEW c \in Container, Snapshot(c) PROVE AlertsMatch'
  BY <1>1, <1>4 DEF Snapshot, Table
<1>5. CASE IngestNPM
  BY <1>1, <1>5 DEF IngestNPM, engineVars, Table
<1>6. ASSUME NEW s \in Scan, InsertCompromiseFinding(s) PROVE AlertsMatch'
  <2>1. UNCHANGED <<engineVars, faults, failed, highs>>
    BY <1>6, InsertEnds
  <2>2. ASSUME NEW n \in Note, Enters(n) PROVE AlertsMatch'
    BY <1>1, <2>1, <2>2 DEF Enters, engineVars, Table
  <2>3. CASE UNCHANGED <<rows, ids>>
    <3>1. Samples' = Samples /\ Alerts' = Alerts
      BY <2>3 DEF Samples, Alerts
    <3>2. QED
      BY <2>1, <2>3, <3>1, OwedKept, AccountKept DEF engineVars
  <2>4. QED
    BY <1>6, <2>2, <2>3, InsertEnds
<1>7. CASE PurgeTable
  BY <1>0, <1>2, <1>7 DEF PurgeTable, TypeOK
<1>8. CASE PurgeCompromiseFindings
  <2>1. stamp \in Int
    BY <1>0 DEF TypeOK
  <2>2. QED
    BY <1>2, <1>8, <2>1 DEF PurgeCompromiseFindings, ToIdle, Purgeable, Table
<1>9. ASSUME UNCHANGED <<rows, ids, failed, faults, highs>>,
             pc' = pc \/ {pc, pc'} \cap {"judging", "alerting"} = {}
      PROVE  AlertsMatch'
  <2>1. Samples' = Samples /\ Alerts' = Alerts
    BY <1>9 DEF Samples, Alerts
  <2>2. QED
    BY <1>9, <2>1, OwedKept, AccountKept
<1>10. QED
  BY <1>3, <1>4, <1>5, <1>6, <1>7, <1>8, <1>9, StepCollect, StepAlertCPU, StepFault
  DEF Next, EngineStep, ListContainers, StartPurge, CutFindings, Record, TimePasses, vars, engineVars

\* An idle engine has raised one alert for each sample above 90 % and no other, whatever happened
\* to the table in between: what it reads back is its own sample.  Only a fault loses an alert, at
\* most one each, and a full disk one in all.
THEOREM AlertsFollowSamples == Spec => []AlertPerHighSample
<1> DEFINE Inv == IInv /\ RowsPast /\ AlertsMatch
<1>1. Init => Inv
  <2> SUFFICES ASSUME Init PROVE Inv
    OBVIOUS
  <2>1. RowsPast
    BY DEF Init, RowsPast
  <2>2. Alerts = {} /\ highs = 0 /\ ~Owed /\ ~failed
    BY DEF Init, Alerts, Owed, Table
  <2>3. AlertsMatch
    BY <2>2, FS_EmptySet DEF AlertsMatch, Raised, Spare
  <2>4. QED
    BY <2>1, <2>3, InitIInv
<1>2. Inv /\ [Next]_vars => Inv'
  BY StepIInv, StepRowsPast, StepAccount
<1>3. Inv => AlertPerHighSample
  <2> SUFFICES ASSUME AlertsMatch, pc = "idle", IInv
               PROVE  /\ Cardinality(rows["alerts"]) <= highs
                      /\ highs <= Cardinality(rows["alerts"]) + (IF failed THEN faults + 1 ELSE 0)
    BY DEF AlertPerHighSample
  <2>1. ~Owed
    BY DEF Owed
  <2>2. Raised = Cardinality(Alerts)
    BY <2>1, AccountType DEF Raised
  <2>3. Spare <= IF failed THEN faults + 1 ELSE 0
    BY AccountType DEF Spare
  <2>4. QED
    BY <2>2, <2>3, AccountType DEF AlertsMatch, Alerts
<1>4. QED
  BY <1>1, <1>2, <1>3, PTL DEF Spec
================================================================================
