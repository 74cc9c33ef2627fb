----------------------------- MODULE CompromiseScan -----------------------------
(***************************************************************************)
(* The compromise watch of Monitorized: the two tables compromise_targets   *)
(* and compromise_findings, the alerts raised from them, the scans that     *)
(* fill them and the API handlers that edit the targets while scans run.    *)
(*                                                                         *)
(* A scan is a goroutine running Scanner.Run.  The engine starts one per    *)
(* tick without waiting for the previous one, and POST /compromise/scan     *)
(* starts one more with a 15 minute context, so several run at once over    *)
(* the same tables.  Every SQL statement is one atomic step (the store has  *)
(* a single connection); between two statements any other goroutine runs,   *)
(* a context may end, or the process may die.                               *)
(***************************************************************************)
EXTENDS Integers, FiniteSets, Sequences

CONSTANTS
  Target,        \* (kind, value) keys a row of compromise_targets can have
  Kind,          \* kind of each target: "email", "domain" or "ip"
  Lower,         \* strings.ToLower applied to the value of a target
  ConfigIP,      \* {} or the target of COMPROMISE_SERVER_IP
  PublicIP,      \* {} or the target that detectPublicIP may return
  NpmHost,       \* domain targets that the NPM logs may hold
  Breach,        \* breach names the email sources know
  World,         \* the findings the outside sources may ever report
  EngineScan,    \* goroutine slots of Engine.runCompromise
  ManualScan,    \* goroutine slots of Server.compromiseScanNow
  None,          \* no target, no finding
  MaxFaults,     \* bound: crashes, cancelled contexts and failed statements
  MaxPurges      \* bound: times one finding row may be purged

Scan == EngineScan \cup ManualScan

-----------------------------------------------------------------------------
(* Findings.  A row is identified by its fingerprint, which names the       *)
(* provider, the target and the title; nothing else is kept of it.          *)

Providers == [email  |-> {"xposedornot", "emailrep", "breach"},
              domain |-> {"urlhaus", "threatfox", "phishtank"},
              ip     |-> {"dnsbl", "threatfox", "shodan"}]

Title(p) == CASE p \in {"xposedornot", "emailrep"} -> Breach
              [] p = "shodan" -> {"vulns", "ports"}
              [] OTHER -> {"only"}

Fingerprint(p, t, title) == [provider |-> p, target |-> t, title |-> title]

Finding == UNION { UNION { {Fingerprint(p, t, ti) : ti \in Title(p)} :
                             p \in Providers[Kind[t]] } : t \in Target }

Severity(f) ==
  CASE f.provider = "breach" \/ (f.provider = "shodan" /\ f.title = "ports") -> "info"
    [] f.provider = "shodan" /\ f.title = "vulns" -> "warning"
    [] f.provider = "threatfox" /\ Kind[f.target] = "domain" -> "warning"
    [] OTHER -> "critical"

AlertableMut(f) == TRUE

Alertable(f) == Severity(f) \in {"critical", "warning"}

ASSUME ConstantsAssumption ==
  /\ EngineScan \cap ManualScan = {}
  /\ IsFiniteSet(Scan)
  /\ Kind \in [Target -> {"email", "domain", "ip"}]
  /\ Lower \in [Target -> Target]
  /\ \A t \in Target : Lower[Lower[t]] = Lower[t] /\ Kind[Lower[t]] = Kind[t]
  /\ ConfigIP \cup PublicIP \cup NpmHost \subseteq Target
  /\ World \subseteq Finding
  /\ None \notin Target /\ None \notin Finding
  /\ MaxFaults \in Nat /\ MaxPurges \in Nat

-----------------------------------------------------------------------------
(* What the outside sources answer.  An answer is the set of findings to    *)
(* record; a failed call records nothing.                                   *)

\* One email source: it fails, or lists breach names.
SourceAnswer(p, t) ==
  [ok : {TRUE}, names : SUBSET {b \in Breach : Fingerprint(p, t, b) \in World}]
    \cup {[ok |-> FALSE, names |-> {}]}

\* BreachChecker.CheckEmail and what scanEmail records of it: the names of
\* both sources, each once and under the source that came first; nothing
\* when both failed; the "no known leak" line when no name is left.
CheckEmail(t, x, e) ==
  LET hits == {Fingerprint("xposedornot", t, b) : b \in x.names}
                \cup {Fingerprint("emailrep", t, b) : b \in e.names \ x.names}
  IN  IF hits # {} THEN hits
      ELSE IF x.ok \/ e.ok THEN {Fingerprint("breach", t, "only")}
      ELSE {}

\* The calls scanEmail, scanDomain and scanIP make, in their order.
Checks == [email  |-> <<"breach">>,
           domain |-> <<"urlhaus", "threatfox", "phishtank">>,
           ip     |-> <<"dnsbl", "threatfox", "shodan">>]

Answers(t, call) ==
  IF Kind[t] = "email"
  THEN {CheckEmail(t, x, e) : x \in SourceAnswer("xposedornot", t),
                              e \in SourceAnswer("emailrep", t)}
  ELSE SUBSET {f \in World : f.target = t /\ f.provider = call}

-----------------------------------------------------------------------------
VARIABLES
  targets,   \* compromise_targets: "absent", "enabled" or "disabled"
  findings,  \* compromise_findings: the fingerprints present
  alerts,    \* alerts of source "compromise", counted per fingerprint
  purged,    \* history: times the row of a fingerprint was purged
  pc,        \* where each scan stands
  todo,      \* targets a scan has listed and not started yet
  cur,       \* target a scan is working on
  step,      \* index in Checks of the next call for that target
  found,     \* findings of the last call, not recorded yet
  owed,      \* finding whose row is inserted and whose alert is not
  live,      \* the context of a scan is not done
  root,      \* the context of main, parent of the engine's scans, is not done
  bulk,      \* targets of a bulk import still to be upserted
  faults     \* faults so far

tables  == <<targets, findings, alerts, purged>>
context == <<live, root>>
job     == <<pc, todo, cur, step, found, owed>>
vars    == <<tables, context, job, bulk, faults>>

Init ==
  /\ targets = [t \in Target |-> "absent"]
  /\ findings = {}
  /\ alerts = [f \in Finding |-> 0]
  /\ purged = [f \in Finding |-> 0]
  /\ pc = [s \in Scan |-> "idle"]
  /\ todo = [s \in Scan |-> {}]
  /\ cur = [s \in Scan |-> None]
  /\ step = [s \in Scan |-> 1]
  /\ found = [s \in Scan |-> {}]
  /\ owed = [s \in Scan |-> None]
  /\ live = [s \in Scan |-> FALSE]
  /\ root = TRUE
  /\ bulk = {}
  /\ faults = 0

\* A statement of scan s goes through, or returns an error: always when the
\* context is done, and as a fault otherwise (lock timeout, full disk).
Fault == faults < MaxFaults /\ faults' = faults + 1

Succeeds(s) == live[s] /\ UNCHANGED faults

Fails(s) == IF live[s] THEN Fault ELSE UNCHANGED faults

-----------------------------------------------------------------------------
(* The statements of the store.                                            *)

UpsertCompromiseTargetMut(t) ==
  targets' = [targets EXCEPT ![t] = IF @ = "absent" THEN @ ELSE "enabled"]

UpsertCompromiseTargetNull(t) ==
  targets' = [targets EXCEPT ![t] = IF @ = "absent" THEN "null" ELSE "enabled"]

UpsertCompromiseTarget(t) == targets' = [targets EXCEPT ![t] = "enabled"]

ListCompromiseTargetsMut == {t \in Target : targets[t] # "absent"}

ListCompromiseTargets == {t \in Target : targets[t] = "enabled"}

\* INSERT OR IGNORE affects a row only when the fingerprint is not there.
InsertedFindingMut(f) == TRUE

InsertedFinding(f) == f \notin findings

InsertCompromiseFindingAlert(f) == alerts' = [alerts EXCEPT ![f] = @ + 1]

-----------------------------------------------------------------------------
(* One scan: Scanner.Run, from its start to its return.                    *)

Begin(s, ctx) ==
  /\ pc[s] = "idle"
  /\ pc' = [pc EXCEPT ![s] = "list"]
  /\ live' = [live EXCEPT ![s] = ctx]
  /\ UNCHANGED <<tables, root, todo, cur, step, found, owed, bulk, faults>>

\* Engine.runCompromise: at start-up and on each tick, whatever still runs.
RunCompromise(s) == s \in EngineScan /\ Begin(s, root)

\* Server.compromiseScanNow: its context hangs from context.Background.
CompromiseScanNow(s) == s \in ManualScan /\ Begin(s, TRUE)

\* buildTargets lowercases every value it adds.
NormalizeMut(S) == S

Normalize(S) == {Lower[t] : t \in S}

\* buildTargets, first query: the enabled rows, none on error.
ListTargets(s) ==
  /\ pc[s] = "list"
  /\ \/ /\ Succeeds(s)
        /\ todo' = [todo EXCEPT ![s] = Normalize(ListCompromiseTargets)]
     \/ /\ Fails(s)
        /\ UNCHANGED todo
  /\ pc' = [pc EXCEPT ![s] = "auto"]
  /\ UNCHANGED <<tables, context, cur, step, found, owed, bulk>>

\* buildTargets, the rest: the configured address, else the detected one
\* when the call answers, then the hosts the NPM logs hold by now.
AutoTargets(s) ==
  LET address == IF ConfigIP # {} THEN {ConfigIP}
                 ELSE IF live[s] THEN {{}, PublicIP} ELSE {{}}
      hosts   == IF live[s] THEN SUBSET NpmHost ELSE {{}}
  IN  {Normalize(ip \cup h) : ip \in address, h \in hosts}

AddAutoTargets(s) ==
  /\ pc[s] = "auto"
  /\ \E auto \in AutoTargets(s) : todo' = [todo EXCEPT ![s] = @ \cup auto]
  /\ pc' = [pc EXCEPT ![s] = "loop"]
  /\ UNCHANGED <<tables, context, cur, step, found, owed, bulk, faults>>

\* Head of the loop of Run: no target left, or ctx.Done.
LoopEndsMut(s) == Cardinality(todo[s]) <= 1 \/ ~live[s]

LoopEnds(s) == todo[s] = {} \/ ~live[s]

EndScan(s) ==
  /\ pc[s] = "loop"
  /\ LoopEnds(s)
  /\ pc' = [pc EXCEPT ![s] = "idle"]
  /\ todo' = [todo EXCEPT ![s] = {}]
  /\ live' = [live EXCEPT ![s] = FALSE]
  /\ UNCHANGED <<tables, root, cur, step, found, owed, bulk, faults>>

\* Head of the loop, another target: it is upserted, errors ignored.  The
\* list is sorted by kind and value with the automatic targets last; nothing
\* here depends on that order, so any remaining target may be next.
StartTarget(s, t) ==
  /\ pc[s] = "loop"
  /\ ~LoopEnds(s)
  /\ t \in todo[s]
  /\ \/ Succeeds(s) /\ UpsertCompromiseTarget(t)
     \/ Fails(s) /\ UNCHANGED targets
  /\ todo' = [todo EXCEPT ![s] = @ \ {t}]
  /\ cur' = [cur EXCEPT ![s] = t]
  /\ step' = [step EXCEPT ![s] = 1]
  /\ pc' = [pc EXCEPT ![s] = "check"]
  /\ UNCHANGED <<findings, alerts, purged, context, found, owed, bulk>>

\* The next outside call for the target; with the context done it fails.
Check(s) ==
  /\ pc[s] = "check"
  /\ step[s] <= Len(Checks[Kind[cur[s]]])
  /\ \E fs \in IF live[s] THEN Answers(cur[s], Checks[Kind[cur[s]]][step[s]])
               ELSE {{}} :
       /\ found' = [found EXCEPT ![s] = fs]
       /\ pc' = [pc EXCEPT ![s] = IF fs = {} THEN "check" ELSE "record"]
  /\ step' = [step EXCEPT ![s] = @ + 1]
  /\ UNCHANGED <<tables, context, todo, cur, owed, bulk, faults>>

\* scanEmail, scanDomain or scanIP returns.
EndTarget(s) ==
  /\ pc[s] = "check"
  /\ step[s] > Len(Checks[Kind[cur[s]]])
  /\ pc' = [pc EXCEPT ![s] = "loop"]
  /\ cur' = [cur EXCEPT ![s] = None]
  /\ step' = [step EXCEPT ![s] = 1]
  /\ UNCHANGED <<tables, context, todo, found, owed, bulk, faults>>

\* Where a scan goes once nothing is owed: the next finding of the call.
ResumeMut(rest) == "record"

Resume(rest) == IF rest = {} THEN "check" ELSE "record"

\* record, first statement: a new critical or warning row owes an alert.
Record(s, f) ==
  /\ pc[s] = "record"
  /\ f \in found[s]
  /\ found' = [found EXCEPT ![s] = @ \ {f}]
  /\ \/ /\ Succeeds(s)
        /\ findings' = findings \cup {f}
        /\ IF InsertedFinding(f) /\ Alertable(f)
           THEN /\ owed' = [owed EXCEPT ![s] = f]
                /\ pc' = [pc EXCEPT ![s] = "alert"]
           ELSE /\ pc' = [pc EXCEPT ![s] = Resume(found[s] \ {f})]
                /\ UNCHANGED owed
     \/ /\ Fails(s)
        /\ pc' = [pc EXCEPT ![s] = Resume(found[s] \ {f})]
        /\ UNCHANGED <<findings, owed>>
  /\ UNCHANGED <<targets, alerts, purged, context, todo, cur, step, bulk>>

\* record, second statement: its error is dropped, and the alert with it.
RecordAlert(s) ==
  /\ pc[s] = "alert"
  /\ \/ Succeeds(s) /\ InsertCompromiseFindingAlert(owed[s])
     \/ Fails(s) /\ UNCHANGED alerts
  /\ owed' = [owed EXCEPT ![s] = None]
  /\ pc' = [pc EXCEPT ![s] = Resume(found[s])]
  /\ UNCHANGED <<targets, findings, purged, context, todo, cur, step, found, bulk>>

ScanStep(s) ==
  \/ ListTargets(s)
  \/ AddAutoTargets(s)
  \/ EndScan(s)
  \/ \E t \in Target : StartTarget(s, t)
  \/ Check(s)
  \/ EndTarget(s)
  \/ \E f \in Finding : Record(s, f)
  \/ RecordAlert(s)

-----------------------------------------------------------------------------
(* The API handlers that edit the targets.                                 *)

\* ParseTarget lowercases emails and domains, and leaves addresses as typed.
Parsed == {t \in Target : Kind[t] = "ip" \/ Lower[t] = t}

CompromiseAddTarget(t) ==
  /\ t \in Parsed
  /\ UpsertCompromiseTarget(t)
  /\ UNCHANGED <<findings, alerts, purged, context, job, bulk, faults>>

\* The row is never removed: the scans only skip it while it is disabled.
CompromiseDeleteTarget(t) ==
  /\ targets[t] # "absent"
  /\ targets' = [targets EXCEPT ![t] = "disabled"]
  /\ UNCHANGED <<findings, alerts, purged, context, job, bulk, faults>>

\* One bulk import at a time: one upsert per line, in no transaction.
CompromiseBulkTargets(ts) ==
  /\ bulk = {}
  /\ ts # {} /\ ts \subseteq Parsed
  /\ bulk' = ts
  /\ UNCHANGED <<tables, context, job, faults>>

BulkUpsert(t) ==
  /\ t \in bulk
  /\ UpsertCompromiseTarget(t)
  /\ bulk' = bulk \ {t}
  /\ UNCHANGED <<findings, alerts, purged, context, job, faults>>

\* An upsert fails: the lines before it stay, the lines after it are dropped.
BulkFails ==
  /\ bulk # {}
  /\ Fault
  /\ bulk' = {}
  /\ UNCHANGED <<tables, context, job>>

-----------------------------------------------------------------------------
(* The rest of the process.                                                *)

\* The engine's purge drops the rows older than RETENTION_DAYS.  Ages are
\* left out: for some retention any present rows are the old ones.
PurgeCompromiseFindings(old) ==
  /\ root
  /\ old # {} /\ old \subseteq findings
  /\ \A f \in old : purged[f] < MaxPurges
  /\ findings' = findings \ old
  /\ purged' = [f \in Finding |-> IF f \in old THEN purged[f] + 1 ELSE purged[f]]
  /\ UNCHANGED <<targets, alerts, context, job, bulk, faults>>

\* The 15 minutes of a manual scan are over.
Timeout(s) ==
  /\ s \in ManualScan
  /\ pc[s] # "idle" /\ live[s]
  /\ Fault
  /\ live' = [live EXCEPT ![s] = FALSE]
  /\ UNCHANGED <<tables, root, job, bulk>>

\* SIGTERM, or the HTTP server failing: main cancels its context.
Cancel ==
  /\ root
  /\ Fault
  /\ root' = FALSE
  /\ live' = [s \in Scan |-> live[s] /\ s \notin EngineScan]
  /\ UNCHANGED <<tables, job, bulk>>

\* The process ends, wherever its goroutines stand, and is started again:
\* the tables stay, everything in memory is gone.
Restart ==
  /\ Fault
  /\ pc' = [s \in Scan |-> "idle"]
  /\ todo' = [s \in Scan |-> {}]
  /\ cur' = [s \in Scan |-> None]
  /\ step' = [s \in Scan |-> 1]
  /\ found' = [s \in Scan |-> {}]
  /\ owed' = [s \in Scan |-> None]
  /\ live' = [s \in Scan |-> FALSE]
  /\ root' = TRUE
  /\ bulk' = {}
  /\ UNCHANGED tables

Next ==
  \/ \E s \in Scan : RunCompromise(s) \/ CompromiseScanNow(s) \/ ScanStep(s) \/ Timeout(s)
  \/ \E t \in Target : CompromiseAddTarget(t) \/ CompromiseDeleteTarget(t) \/ BulkUpsert(t)
  \/ \E ts \in SUBSET Target : CompromiseBulkTargets(ts)
  \/ BulkFails
  \/ \E old \in SUBSET findings : PurgeCompromiseFindings(old)
  \/ Cancel
  \/ Restart

Spec == Init /\ [][Next]_vars

\* Goroutines are scheduled, HTTP clients time out after 8 to 20 seconds and
\* statements after 5, so a scan that can take a step takes it; nobody has to
\* start a scan, edit a target or purge.
FairSpec == Spec /\ \A s \in Scan : WF_vars(ScanStep(s))

-----------------------------------------------------------------------------
(* Properties.                                                             *)

\* Every variable holds values of its type.
TypeOK ==
  /\ targets \in [Target -> {"absent", "enabled", "disabled"}]
  /\ findings \subseteq Finding
  /\ alerts \in [Finding -> Nat]
  /\ purged \in [Finding -> Nat]
  /\ pc \in [Scan -> {"idle", "list", "auto", "loop", "check", "record", "alert"}]
  /\ todo \in [Scan -> SUBSET Target]
  /\ cur \in [Scan -> Target \cup {None}]
  /\ step \in [Scan -> Nat]
  /\ found \in [Scan -> SUBSET Finding]
  /\ owed \in [Scan -> Finding \cup {None}]
  /\ live \in [Scan -> BOOLEAN]
  /\ root \in BOOLEAN
  /\ bulk \subseteq Target
  /\ faults \in Nat

\* Scans between the two statements of record for finding f.
Owing(f) == {s \in Scan : owed[s] = f}

\* Rows ever inserted for fingerprint f: those purged and the present one.
RowsInserted(f) == purged[f] + (IF f \in findings THEN 1 ELSE 0)

\* Scans that overlap and meet the same finding raise one alert between two
\* purges of its row, counting the alerts about to be inserted: the UNIQUE
\* fingerprint and INSERT OR IGNORE elect one of them, and crashes, dead
\* contexts and failed statements can lose that alert but never repeat it.
NeverAlertedTwice ==
  \A f \in Finding : alerts[f] + Cardinality(Owing(f)) <= RowsInserted(f)

\* An info row has no alert.  Any other row has its alert or a scan about to
\* insert it, unless a fault lost it, and one fault takes at most the one
\* alert that each scan owes.  With NeverAlertedTwice, alerts and rows match
\* exactly until the first fault.
AlertsAccountedFor ==
  \A f \in Finding :
    IF Severity(f) = "info"
    THEN alerts[f] = 0 /\ Owing(f) = {}
    ELSE RowsInserted(f) <= alerts[f] + Cardinality(Owing(f)) + faults * Cardinality(Scan)

\* A finding is recorded under the lowercase value, so that two rows of
\* compromise_targets that differ only by case share their fingerprints and
\* are not reported twice.
FindingsNormalized == \A f \in findings : Lower[f.target] = f.target

\* Targets that have findings and no row of their own.
Untraceable == {t \in Target : targets[t] = "absent" /\ \E f \in findings : f.target = t}

\* A finding can be traced to a row of compromise_targets: automatic targets
\* get theirs before their first call, and deleting a target keeps the row.
\* Only a failed statement breaks the trace, and of one target at most.
FindingHasTarget == IsFiniteSet(Untraceable) /\ Cardinality(Untraceable) <= faults

\* Targets that a scan adds by itself.
Automatic == Normalize(ConfigIP \cup PublicIP \cup NpmHost)

\* No row of the target, in any case, is enabled and no scan still has it.
Forgotten(t) ==
  /\ \A u \in Target : Lower[u] = Lower[t] => targets[u] # "enabled"
  /\ \A s \in Scan : Lower[t] \notin todo[s]

UserEnables(t) ==
  \E u \in Target : Lower[u] = Lower[t] /\ (CompromiseAddTarget(u) \/ BulkUpsert(u))

\* Once every row of a target is disabled and the scans that had listed it
\* are past it, only the user brings it back, whatever the scans that start
\* later do; automatic targets excepted.
RemovalSettles ==
  [][\A t \in Target :
       Lower[t] \notin Automatic /\ Forgotten(t) /\ ~UserEnables(t) => Forgotten(t)']_vars

\* The dashboard's delete button removes a target from the watch ("Retirer
\* cette cible de la surveillance ?"): a disabled target is enabled again by
\* the user only.
OnlyTheUserReenables ==
  [][\A t \in Target :
       targets[t] = "disabled" /\ targets'[t] = "enabled" =>
         CompromiseAddTarget(t) \/ BulkUpsert(t)]_vars

\* Every scan ends, whatever fails under it: no answer, error or lost context
\* leaves Run or record waiting.
ScanEnds == \A s \in Scan : pc[s] # "idle" ~> pc[s] = "idle"

\* As long as nothing fails, a scan works on every target it has listed, also on those disabled
\* meanwhile (scanner.go:50-66): on each of a list of several (scan_mixed), and on one that another
\* scan has listed too and is working on (scan_email).
ListedIsScanned ==
  \A s \in Scan, t \in Target : t \in todo[s] ~> (cur[s] = t \/ faults > 0)

\* What AlertLedger promises: rows elect alerts, and scans only raise or lose
\* what was elected.
Ledger == INSTANCE AlertLedger WITH
            Serious <- {f \in Finding : Severity(f) # "info"},
            rows    <- findings,
            pending <- [f \in Finding |-> Cardinality(Owing(f))],
            raised  <- alerts

\* Overlapping scans, their crashes and the purge together implement the
\* ledger: record's two statements act as one election followed by one alert.
ImplementsLedger == Ledger!Spec

=============================================================================
