--------------------------------- MODULE Retention ---------------------------------
(***************************************************************************)
(* The time-stamped tables of the database: the host and Docker collectors  *)
(* and the NPM ingestion that fill them, the CPU alert, the findings of the *)
(* scans, the purge that empties them, and the windows the API reads.       *)
(*                                                                         *)
(* Collectors and purge are steps of the engine's goroutine, one statement  *)
(* each; scans insert findings at any point between them.  A timestamp or a *)
(* cutoff is taken before its statement gets the one connection of the      *)
(* store, so it may be old when the statement runs.  Time does not go back; *)
(* it is counted in units of a time.Duration, a few of them a day in the    *)
(* runs.  What a row says is reduced to what the readers look at: a   *)
(* host sample to whether its CPU is above 90 %.                            *)
(***************************************************************************)
EXTENDS Integers, Sequences, FiniteSets

CONSTANTS
  Container,      \* Docker containers that come and go
  Fingerprint,    \* findings the sources keep reporting
  Scan,           \* goroutine slots of Scanner.Run
  None,           \* a row that says nothing
  RetentionDays,  \* RETENTION_DAYS, of any sign
  Day,            \* 24 * time.Hour
  HalfWord,       \* 2^63: a time.Duration goes from -HalfWord to HalfWord - 1
  MaxClock,       \* bound: units of time that pass
  MaxRows,        \* bound: rows the disk takes
  MaxFaults       \* bound: failed statements and restarts

ASSUME ConstantsAssumption ==
  /\ RetentionDays \in Int
  /\ Day \in Nat \ {0} /\ HalfWord \in Nat \ {0}
  /\ MaxClock \in Nat /\ MaxRows \in Nat /\ MaxFaults \in Nat

Table == {"host_metrics", "container_snapshots", "npm_requests", "compromise_findings", "alerts"}

Level == {"high", "low"}

\* A finding whose timestamp is taken and whose INSERT waits.
Note == [what : Fingerprint, ts : 0..MaxClock]

Row == [id : 1..MaxRows, ts : 0..MaxClock, what : Level \cup Container \cup Fingerprint \cup {None}]

VARIABLES
  clock,     \* time passed
  rows,      \* rows of each table
  ids,       \* rows inserted so far
  pc,        \* the statement the engine is at, or "idle"
  todo,      \* containers listed and not yet inserted
  queue,     \* tables the purge has not reached
  stamp,     \* timestamp of the snapshots, or cutoff of the purge
  noted,     \* the finding each scan is about to insert, if any
  faults,    \* faults so far
  failed,    \* history: a statement has failed
  highs,     \* history: host samples above 90 %
  reported   \* history: timestamp of the last row of each finding, -1 without one

engineVars == <<pc, todo, queue, stamp>>
scanVars   == <<noted, reported>>
vars       == <<clock, rows, ids, engineVars, faults, failed, highs, scanVars>>

Init ==
  /\ clock = 0 /\ ids = 0
  /\ rows = [t \in Table |-> {}]
  /\ pc = "idle" /\ todo = {} /\ queue = <<>> /\ stamp = 0
  /\ faults = 0 /\ failed = FALSE /\ highs = 0
  /\ noted = [s \in Scan |-> {}]
  /\ reported = [f \in Fingerprint |-> -1]

-----------------------------------------------------------------------------
(* Statements.                                                             *)

NewRow(ts, what) == [id |-> ids + 1, ts |-> ts, what |-> what]

Insert(t, ts, what) ==
  /\ ids < MaxRows
  /\ ids' = ids + 1
  /\ rows' = [rows EXCEPT ![t] = @ \cup {NewRow(ts, what)}]
  /\ UNCHANGED <<clock, faults, failed>>

DiskFull == ids = MaxRows /\ pc \in {"idle", "alerting", "snapping"}

\* A statement fails: the context is done, the database is busy for too long or, for an insert,
\* the disk is full.
Fail ==
  /\ \/ faults < MaxFaults /\ faults' = faults + 1
     \/ DiskFull /\ faults' = faults
  /\ failed' = TRUE
  /\ UNCHANGED <<clock, rows, ids, highs, scanVars>>

ToIdleMut == pc' = "idle" /\ UNCHANGED <<todo, queue, stamp>>

ToIdle == pc' = "idle" /\ todo' = {} /\ queue' = <<>> /\ stamp' = 0

-----------------------------------------------------------------------------
(* collectHost: a sample, the latest sample, perhaps an alert.             *)

CollectHost(level) ==
  /\ pc = "idle"
  /\ Insert("host_metrics", clock, level)
  /\ highs' = IF level = "high" THEN highs + 1 ELSE highs
  /\ pc' = "judging"
  /\ UNCHANGED <<todo, queue, stamp, scanVars>>

Before(r, q) == r.ts < q.ts \/ (r.ts = q.ts /\ r.id < q.id)

LatestHostMut == CHOOSE r \in rows["host_metrics"] : \A q \in rows["host_metrics"] : ~Before(q, r)

\* ORDER BY ts DESC LIMIT 1, read off the index on ts.
LatestHost == CHOOSE r \in rows["host_metrics"] : \A q \in rows["host_metrics"] : ~Before(r, q)

Judge ==
  /\ pc = "judging"
  /\ pc' = IF rows["host_metrics"] # {} /\ LatestHost.what = "high" THEN "alerting" ELSE "idle"
  /\ UNCHANGED <<clock, rows, ids, todo, queue, stamp, faults, failed, highs, scanVars>>

AlertCPU ==
  /\ pc = "alerting"
  /\ Insert("alerts", clock, None)
  /\ pc' = "idle"
  /\ UNCHANGED <<todo, queue, stamp, highs, scanVars>>

-----------------------------------------------------------------------------
(* collectDocker and collectNPM.                                           *)

\* Whatever containers Docker lists, the list carries one timestamp; the statistics of each are
\* asked for one by one.
ListContainers(list) ==
  /\ pc = "idle" /\ list # {}
  /\ pc' = "snapping" /\ todo' = list /\ stamp' = clock
  /\ UNCHANGED <<clock, rows, ids, queue, faults, failed, highs, scanVars>>

Snapshot(c) ==
  /\ pc = "snapping" /\ c \in todo
  /\ Insert("container_snapshots", stamp, c)
  /\ todo' = todo \ {c}
  /\ pc' = IF todo' = {} THEN "idle" ELSE pc
  /\ UNCHANGED <<queue, stamp, highs, scanVars>>

IngestNPM ==
  /\ pc = "idle"
  /\ Insert("npm_requests", clock, None)
  /\ UNCHANGED <<engineVars, highs, scanVars>>

-----------------------------------------------------------------------------
(* PurgeOlderThan.                                                         *)

Wrap(n) == ((n + HalfWord) % (2 * HalfWord)) - HalfWord

CutoffMut == clock + Wrap(-RetentionDays)

\* The product is taken in the width of a time.Duration; nothing bounds RETENTION_DAYS.
Cutoff == clock + Wrap(-(RetentionDays * Day))

ExpiredMut(r, cutoff) == r.ts <= cutoff

Expired(r, cutoff) == r.ts < cutoff

Delete(t, cutoff) == rows' = [rows EXCEPT ![t] = {r \in @ : ~Expired(r, cutoff)}]

PurgedFirstMut == <<"host_metrics", "npm_requests">>

PurgedFirst == <<"host_metrics", "container_snapshots", "npm_requests">>

StartPurge ==
  /\ pc = "idle"
  /\ pc' = "purging" /\ queue' = PurgedFirst /\ stamp' = Cutoff
  /\ UNCHANGED <<clock, rows, ids, todo, faults, failed, highs, scanVars>>

PurgeTable ==
  /\ pc = "purging" /\ queue # <<>>
  /\ Delete(Head(queue), stamp)
  /\ queue' = Tail(queue)
  /\ UNCHANGED <<clock, ids, pc, todo, stamp, faults, failed, highs, scanVars>>

\* PurgeCompromiseFindings computes a cutoff of its own, and its DELETE waits like the others.
CutFindings ==
  /\ pc = "purging" /\ queue = <<>>
  /\ pc' = "purgingFindings" /\ stamp' = Cutoff
  /\ UNCHANGED <<clock, rows, ids, todo, queue, faults, failed, highs, scanVars>>

PurgeCompromiseFindings ==
  /\ pc = "purgingFindings"
  /\ Delete("compromise_findings", stamp)
  /\ ToIdle
  /\ UNCHANGED <<clock, ids, faults, failed, highs, scanVars>>

\* Whatever statement the engine is at fails: collects and purge give up until their next tick.
StatementFails == Fail /\ ToIdle

-----------------------------------------------------------------------------
(* The scans, time and restarts.                                           *)

Recorded(f) == \E r \in rows["compromise_findings"] : r.what = f

\* record takes the timestamp; whether the row exists is not known yet.
Record(s, f) ==
  /\ noted[s] = {}
  /\ noted' = [noted EXCEPT ![s] = {[what |-> f, ts |-> clock]}]
  /\ UNCHANGED <<clock, rows, ids, engineVars, faults, failed, highs, reported>>

\* INSERT OR IGNORE: only a finding without a row enters, with the time of its note, and its row
\* is not refreshed after.  The error of a failed one is logged, and the finding left for later.
InsertCompromiseFinding(s) ==
  \E n \in noted[s] :
    /\ noted' = [noted EXCEPT ![s] = {}]
    /\ \/ /\ ~Recorded(n.what)
          /\ Insert("compromise_findings", n.ts, n.what)
          /\ reported' = [reported EXCEPT ![n.what] = n.ts]
       \/ UNCHANGED <<clock, rows, ids, faults, failed, reported>>
    /\ UNCHANGED <<engineVars, highs>>

TimePasses ==
  /\ clock < MaxClock
  /\ clock' = clock + 1
  /\ UNCHANGED <<rows, ids, engineVars, faults, failed, highs, scanVars>>

Restart ==
  /\ faults < MaxFaults
  /\ faults' = faults + 1 /\ failed' = TRUE
  /\ ToIdle /\ noted' = [s \in Scan |-> {}]
  /\ UNCHANGED <<clock, rows, ids, highs, reported>>

-----------------------------------------------------------------------------

EngineStep ==
  \/ Judge \/ AlertCPU \/ PurgeTable \/ CutFindings \/ PurgeCompromiseFindings
  \/ \E c \in Container : Snapshot(c)
  \/ pc # "idle" /\ StatementFails

Next ==
  \/ EngineStep
  \/ \E level \in Level : CollectHost(level)
  \/ \E list \in SUBSET Container : ListContainers(list)
  \/ IngestNPM \/ StartPurge
  \/ pc = "idle" /\ StatementFails
  \/ \E s \in Scan : InsertCompromiseFinding(s) \/ \E f \in Fingerprint : Record(s, f)
  \/ TimePasses \/ Restart

Spec == Init /\ [][Next]_vars

\* The engine goes on, and its select takes the purge's tick sooner or later.
FairSpec == Spec /\ WF_vars(EngineStep) /\ SF_vars(StartPurge)

-----------------------------------------------------------------------------
(* Properties.                                                             *)

Purgeable == Table \ {"alerts"}

\* The shape of the state; an engine that is idle holds no list, no queue, and a purge never has
\* the alerts before it.
TypeOK ==
  /\ clock \in 0..MaxClock /\ ids \in 0..MaxRows
  /\ rows \in [Table -> SUBSET Row]
  /\ pc \in {"idle", "judging", "alerting", "snapping", "purging", "purgingFindings"}
  /\ todo \subseteq Container /\ (pc # "snapping" => todo = {})
  /\ queue \in Seq(Purgeable) /\ (pc # "purging" => queue = <<>>)
  /\ stamp \in Int
  /\ faults \in 0..MaxFaults /\ failed \in BOOLEAN
  /\ highs \in Nat
  /\ noted \in [Scan -> SUBSET Note]
  /\ reported \in [Fingerprint -> -1..MaxClock]

\* The retention fits a time.Duration: it is at most 106751 days.
RetentionFits == -(RetentionDays * Day) \in -HalfWord..HalfWord - 1

PurgesExpired ==
  \A t \in Table : \A r \in rows[t] \ rows'[t] : r.ts < clock - RetentionDays * Day

\* A row leaves its table only once it is older than the retention, whatever time the purge
\* spends between computing its cutoff and its statements (sqlite.go:306-321).
OnlyExpiredPurged == [][RetentionFits => PurgesExpired]_vars

\* A finding that lasts, however many scans note it and however long they wait for the
\* connection, enters its table again, and is alerted again, only when its previous row is older
\* than the retention at that moment (scanner.go:149-158, compromise.go:88-100, 232-236).  Of the
\* two timestamps nothing is said: the second may be taken long before its INSERT runs.
FindingsReenterExpired ==
  [][RetentionFits =>
       \A r \in rows'["compromise_findings"] \ rows["compromise_findings"] :
         reported[r.what] # -1 => clock - reported[r.what] > RetentionDays * Day]_vars

\* No alert is raised but for a sample above 90 %, and each such sample has raised its one alert
\* when the engine is idle again: the sample read back is the one inserted.  Each failed statement
\* or restart may cost one alert, and the disk, once full, one more (engine.go:95-106).
AlertPerHighSample ==
  pc = "idle" =>
    /\ Cardinality(rows["alerts"]) <= highs
    /\ highs <= Cardinality(rows["alerts"]) + (IF failed THEN faults + 1 ELSE 0)

HasExpired(t) == \E r \in rows[t] : r.ts < clock - RetentionDays * Day

\* Rows of the tables the purge names do not outlive the retention for ever, although a failed
\* DELETE gives up the rest of the sequence (sqlite.go:308-316).
ExpiredGo == \A t \in Purgeable : RetentionFits /\ HasExpired(t) ~> ~HasExpired(t)

\* RETENTION_DAYS as documented, the retention of the database: alerts do not outlive it either.
AlertsRetained == HasExpired("alerts") ~> ~HasExpired("alerts")
================================================================================
