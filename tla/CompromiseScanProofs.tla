--------------------------- MODULE CompromiseScanProofs ---------------------------
(***************************************************************************)
(* What TLAPS checks of CompromiseScan, for any targets, scans, sources and *)
(* bounds.  The invariants of the specification are not inductive alone:    *)
(* they need what a scan knows of the work it holds (WorkKnown) and that    *)
(* owing an alert is being between the two statements of record             *)
(* (OwedWhileAlerting).                                                     *)
(***************************************************************************)
EXTENDS CompromiseScan, FiniteSetTheorems, TLAPS

\* A scan that is past StartTarget works on a target; everything it holds is
\* under lowercase values.
WorkKnown ==
  \A s \in Scan :
    /\ pc[s] \in {"check", "record", "alert"} => cur[s] # None
    /\ cur[s] # None => Lower[cur[s]] = cur[s]
    /\ \A t \in todo[s] : Lower[t] = t
    /\ \A f \in found[s] : Lower[f.target] = f.target

\* An alert is owed exactly between the two statements of record.
OwedWhileAlerting == \A s \in Scan : pc[s] = "alert" <=> owed[s] # None

\* What every step preserves together.
IInv == TypeOK /\ WorkKnown /\ OwedWhileAlerting

-----------------------------------------------------------------------------
(* The data.                                                               *)

\* The "no known leak" line of an email is a finding.
LEMMA NoLeakIsFinding ==
  ASSUME NEW t \in Target, Kind[t] = "email"
  PROVE  Fingerprint("breach", t, "only") \in Finding
<1> DEFINE Of(p, u) == {Fingerprint(p, u, ti) : ti \in Title(p)}
           About(u) == {Of(p, u) : p \in Providers[Kind[u]]}
<1>1. Fingerprint("breach", t, "only") \in Of("breach", t)
  BY DEF Title
<1>2. Of("breach", t) \in About(t)
  BY DEF Providers
<1>3. Fingerprint("breach", t, "only") \in UNION About(t)
  BY <1>1, <1>2
<1>4. Finding = UNION {UNION About(u) : u \in Target}
  BY DEF Finding
<1> HIDE DEF About
<1> QED
  BY <1>3, <1>4

\* An email source names breaches of the world only.
LEMMA NamesAreOfTheWorld ==
  ASSUME NEW p, NEW t, NEW x \in SourceAnswer(p, t), NEW b \in x.names
  PROVE  Fingerprint(p, t, b) \in World
<1> DEFINE Known == {n \in Breach : Fingerprint(p, t, n) \in World}
<1>1. x \in [ok : {TRUE}, names : SUBSET Known] \/ x = [ok |-> FALSE, names |-> {}]
  BY DEF SourceAnswer
<1>2. b \in Known
  <2> HIDE DEF Known
  <2>1. CASE x \in [ok : {TRUE}, names : SUBSET Known]
    BY <2>1
  <2>2. CASE x = [ok |-> FALSE, names |-> {}]
    BY <2>2
  <2> QED
    BY <1>1, <2>1, <2>2
<1> QED
  BY <1>2

\* Whatever the sources answer for a target, the findings are about it.
LEMMA AnswersAreFindings ==
  ASSUME NEW t \in Target, NEW call, NEW fs \in Answers(t, call), NEW f \in fs
  PROVE  f \in Finding /\ f.target = t
<1>1. World \subseteq Finding
  BY ConstantsAssumption
<1>2. CASE Kind[t] = "email"
  <2>1. PICK x \in SourceAnswer("xposedornot", t), e \in SourceAnswer("emailrep", t) :
          fs = CheckEmail(t, x, e)
    BY <1>2 DEF Answers
  <2>2. \A b \in x.names : Fingerprint("xposedornot", t, b) \in World
    BY <2>1, NamesAreOfTheWorld
  <2>3. \A b \in e.names : Fingerprint("emailrep", t, b) \in World
    BY <2>1, NamesAreOfTheWorld
  <2>4. Fingerprint("breach", t, "only") \in Finding
    BY <1>2, NoLeakIsFinding
  <2>5. \/ \E b \in x.names : f = Fingerprint("xposedornot", t, b)
        \/ \E b \in e.names : f = Fingerprint("emailrep", t, b)
        \/ f = Fingerprint("breach", t, "only")
    BY <2>1 DEF CheckEmail
  <2> QED
    BY <1>1, <2>2, <2>3, <2>4, <2>5 DEF Fingerprint
<1>3. CASE Kind[t] # "email"
  BY <1>1, <1>3 DEF Answers
<1> QED
  BY <1>2, <1>3

\* Normalize yields normalized targets.
LEMMA NormalizeLowers ==
  ASSUME NEW S \in SUBSET Target
  PROVE  Normalize(S) \subseteq Target /\ \A t \in Normalize(S) : Lower[t] = t
BY ConstantsAssumption DEF Normalize

\* Every target a scan adds by itself is one of Automatic.
LEMMA AutoTargetsAreAutomatic ==
  ASSUME NEW s \in Scan, NEW auto \in AutoTargets(s)
  PROVE  auto \subseteq Automatic
BY ConstantsAssumption DEF AutoTargets, Automatic, Normalize

-----------------------------------------------------------------------------
(* The inductive invariant.                                                *)

\* The invariant holds at the start.
LEMMA InitIInv == Init => IInv
BY ConstantsAssumption DEF Init, IInv, TypeOK, WorkKnown, OwedWhileAlerting, Finding

\* Each step, action by action.
LEMMA StepIInv == IInv /\ [Next]_vars => IInv'
<1> SUFFICES ASSUME IInv, [Next]_vars
             PROVE  IInv'
  OBVIOUS
<1> USE DEF IInv, tables, context, job
<1>1. ASSUME NEW s \in Scan, RunCompromise(s) \/ CompromiseScanNow(s)
      PROVE  IInv'
  <2>0. PICK ctx \in BOOLEAN : Begin(s, ctx)
    BY <1>1 DEF RunCompromise, CompromiseScanNow, TypeOK
  <2>1. TypeOK'
    BY <2>0 DEF Begin, TypeOK
  <2>2. WorkKnown'
    BY <2>0 DEF Begin, TypeOK, WorkKnown
  <2>3. OwedWhileAlerting'
    BY <2>0 DEF Begin, TypeOK, OwedWhileAlerting
  <2> QED
    BY <2>1, <2>2, <2>3
<1>2. ASSUME NEW s \in Scan, ListTargets(s)
      PROVE  IInv'
  <2>1. ListCompromiseTargets \subseteq Target
    BY DEF ListCompromiseTargets
  <2>2. /\ Normalize(ListCompromiseTargets) \subseteq Target
        /\ \A t \in Normalize(ListCompromiseTargets) : Lower[t] = t
    BY <2>1, NormalizeLowers
  <2> QED
    BY <1>2, <2>2 DEF ListTargets, Succeeds, Fails, Fault, TypeOK, WorkKnown, OwedWhileAlerting
<1>3. ASSUME NEW s \in Scan, AddAutoTargets(s)
      PROVE  IInv'
  <2>1. PICK auto \in AutoTargets(s) : todo' = [todo EXCEPT ![s] = @ \cup auto]
    BY <1>3 DEF AddAutoTargets
  <2>2. auto \subseteq Target /\ \A t \in auto : Lower[t] = t
    BY <2>1, AutoTargetsAreAutomatic, NormalizeLowers, ConstantsAssumption DEF Automatic
  <2> QED
    BY <1>3, <2>1, <2>2 DEF AddAutoTargets, TypeOK, WorkKnown, OwedWhileAlerting
<1>4. ASSUME NEW s \in Scan, EndScan(s)
      PROVE  IInv'
  BY <1>4 DEF EndScan, TypeOK, WorkKnown, OwedWhileAlerting
<1>5. ASSUME NEW s \in Scan, NEW t \in Target, StartTarget(s, t)
      PROVE  IInv'
  <2>1. t # None
    BY ConstantsAssumption
  <2>2. TypeOK'
    BY <1>5 DEF StartTarget, UpsertCompromiseTarget, Succeeds, Fails, Fault, TypeOK
  <2>3. WorkKnown' /\ OwedWhileAlerting'
    BY <1>5, <2>1 DEF StartTarget, TypeOK, WorkKnown, OwedWhileAlerting
  <2> QED
    BY <2>2, <2>3
<1>6. ASSUME NEW s \in Scan, Check(s)
      PROVE  IInv'
  <2> DEFINE call == Checks[Kind[cur[s]]][step[s]]
  <2>1. cur[s] \in Target /\ Lower[cur[s]] = cur[s]
    BY <1>6 DEF Check, TypeOK, WorkKnown
  <2>2. PICK fs : /\ fs \in IF live[s] THEN Answers(cur[s], call) ELSE {{}}
                  /\ found' = [found EXCEPT ![s] = fs]
                  /\ pc' = [pc EXCEPT ![s] = IF fs = {} THEN "check" ELSE "record"]
    BY <1>6 DEF Check
  <2>3. \A f \in fs : f \in Finding /\ f.target = cur[s]
    BY <2>1, <2>2, AnswersAreFindings
  <2>4. TypeOK'
    BY <1>6, <2>1, <2>2, <2>3 DEF Check, TypeOK
  <2>5. WorkKnown'
    BY <1>6, <2>1, <2>2, <2>3 DEF Check, TypeOK, WorkKnown
  <2>6. OwedWhileAlerting'
    BY <1>6, <2>2 DEF Check, TypeOK, OwedWhileAlerting
  <2> QED
    BY <2>4, <2>5, <2>6
<1>7. ASSUME NEW s \in Scan, EndTarget(s)
      PROVE  IInv'
  BY <1>7 DEF EndTarget, TypeOK, WorkKnown, OwedWhileAlerting
<1>8. ASSUME NEW s \in Scan, NEW f \in Finding, Record(s, f)
      PROVE  IInv'
  <2>1. f # None
    BY ConstantsAssumption
  <2>2. TypeOK'
    BY <1>8 DEF Record, Resume, Succeeds, Fails, Fault, TypeOK
  <2>3. WorkKnown'
    BY <1>8 DEF Record, Resume, TypeOK, WorkKnown
  <2>4. OwedWhileAlerting'
    BY <1>8, <2>1 DEF Record, Resume, TypeOK, OwedWhileAlerting
  <2> QED
    BY <2>2, <2>3, <2>4
<1>9. ASSUME NEW s \in Scan, RecordAlert(s)
      PROVE  IInv'
  <2>1. owed[s] \in Finding
    BY <1>9 DEF RecordAlert, TypeOK, OwedWhileAlerting
  <2>2. TypeOK'
    BY <1>9, <2>1 DEF RecordAlert, InsertCompromiseFindingAlert, Resume,
                      Succeeds, Fails, Fault, TypeOK
  <2>3. WorkKnown' /\ OwedWhileAlerting'
    BY <1>9 DEF RecordAlert, Resume, TypeOK, WorkKnown, OwedWhileAlerting
  <2> QED
    BY <2>2, <2>3
<1>10. ASSUME NEW s \in Scan, Timeout(s)
       PROVE  IInv'
  BY <1>10 DEF Timeout, Fault, TypeOK, WorkKnown, OwedWhileAlerting
<1>11. ASSUME NEW t \in Target,
              CompromiseAddTarget(t) \/ CompromiseDeleteTarget(t) \/ BulkUpsert(t)
       PROVE  IInv'
  BY <1>11 DEF CompromiseAddTarget, CompromiseDeleteTarget, BulkUpsert,
               UpsertCompromiseTarget, TypeOK, WorkKnown, OwedWhileAlerting
<1>12. ASSUME NEW ts \in SUBSET Target, CompromiseBulkTargets(ts)
       PROVE  IInv'
  BY <1>12 DEF CompromiseBulkTargets, TypeOK, WorkKnown, OwedWhileAlerting
<1>13. ASSUME BulkFails
       PROVE  IInv'
  BY <1>13 DEF BulkFails, Fault, TypeOK, WorkKnown, OwedWhileAlerting
<1>14. ASSUME NEW old \in SUBSET findings, PurgeCompromiseFindings(old)
       PROVE  IInv'
  BY <1>14 DEF PurgeCompromiseFindings, TypeOK, WorkKnown, OwedWhileAlerting
<1>15. ASSUME Cancel
       PROVE  IInv'
  <2>1. live' \in [Scan -> BOOLEAN]
    BY <1>15, Zenon DEF Cancel, TypeOK
  <2>2. root' \in BOOLEAN
    BY <1>15, Zenon DEF Cancel
  <2>3. faults' = faults + 1 /\ UNCHANGED <<tables, job, bulk>>
    BY <1>15 DEF Cancel, Fault
  <2>4. TypeOK'
    BY <2>1, <2>2, <2>3 DEF TypeOK
  <2>5. WorkKnown' /\ OwedWhileAlerting'
    BY <2>3 DEF WorkKnown, OwedWhileAlerting
  <2> QED
    BY <2>4, <2>5
<1>16. ASSUME Restart
       PROVE  IInv'
  BY <1>16 DEF Restart, Fault, TypeOK, WorkKnown, OwedWhileAlerting
<1>17. ASSUME UNCHANGED vars
       PROVE  IInv'
  BY <1>17 DEF vars, TypeOK, WorkKnown, OwedWhileAlerting
<1> QED
  BY <1>1, <1>2, <1>3, <1>4, <1>5, <1>6, <1>7, <1>8, <1>9, <1>10, <1>11, <1>12, <1>13,
     <1>14, <1>15, <1>16, <1>17 DEF Next, ScanStep

\* The inductive invariant holds in every reachable state.
LEMMA InvariantIInv == Spec => []IInv
BY InitIInv, StepIInv, PTL DEF Spec

\* Type correctness: every variable keeps its type, whatever overlaps.
THEOREM TypeCorrect == Spec => []TypeOK
<1>1. IInv => TypeOK
  BY DEF IInv
<1> QED
  BY InvariantIInv, <1>1, PTL

-----------------------------------------------------------------------------
(* Findings.                                                               *)

\* Only record adds findings, those it holds.
LEMMA FindingsComeFromRecord ==
  ASSUME IInv, [Next]_vars
  PROVE  \A f \in findings' : f \in findings \/ \E s \in Scan : f \in found[s]
<1>1. ASSUME NEW s \in Scan, NEW f \in Finding, Record(s, f)
      PROVE  f \in found[s] /\ findings' \subseteq findings \cup {f}
  BY <1>1 DEF Record
<1>2. ASSUME NEW s \in Scan, ScanStep(s), \A f \in Finding : ~Record(s, f)
      PROVE  UNCHANGED findings
  BY <1>2 DEF ScanStep, ListTargets, AddAutoTargets, EndScan, StartTarget, Check, EndTarget,
              RecordAlert, tables
<1>3. ASSUME NEW old \in SUBSET findings, PurgeCompromiseFindings(old)
      PROVE  findings' \subseteq findings
  BY <1>3 DEF PurgeCompromiseFindings
<1>4. ASSUME UNCHANGED vars PROVE UNCHANGED findings
  BY <1>4 DEF vars, tables
<1> QED
  BY <1>1, <1>2, <1>3, <1>4
  DEF Next, RunCompromise, CompromiseScanNow, Begin, Timeout, CompromiseAddTarget,
      CompromiseDeleteTarget, BulkUpsert, CompromiseBulkTargets, BulkFails, Cancel, Restart,
      tables

\* Findings are recorded under lowercase values only, so rows that differ by
\* case share their fingerprints.
THEOREM RecordedLowercase == Spec => []FindingsNormalized
<1>1. Init => FindingsNormalized
  BY DEF Init, FindingsNormalized
<1>2. IInv /\ FindingsNormalized /\ [Next]_vars => FindingsNormalized'
  BY FindingsComeFromRecord DEF IInv, WorkKnown, FindingsNormalized
<1> QED
  BY <1>1, <1>2, InvariantIInv, PTL DEF Spec

-----------------------------------------------------------------------------
(* Alerts.                                                                 *)

\* Owing is a finite set, and one scan entering or leaving it counts for one.
LEMMA OwingCounts ==
  ASSUME NEW f \in Finding
  PROVE  /\ IsFiniteSet(Owing(f)) /\ Cardinality(Owing(f)) \in Nat
         /\ \A s \in Scan \ Owing(f) :
              Cardinality(Owing(f) \cup {s}) = Cardinality(Owing(f)) + 1
         /\ \A s \in Owing(f) :
              /\ Cardinality(Owing(f)) > 0
              /\ Cardinality(Owing(f) \ {s}) = Cardinality(Owing(f)) - 1
<1>1. IsFiniteSet(Scan) /\ Owing(f) \subseteq Scan
  BY ConstantsAssumption DEF Owing
<1>2. IsFiniteSet(Owing(f))
  BY <1>1, FS_Subset
<1>3. Cardinality(Owing(f)) \in Nat
  BY <1>2, FS_CardinalityType
<1>4. ASSUME NEW s \in Owing(f)
      PROVE  Cardinality(Owing(f)) > 0
  BY <1>2, <1>3, <1>4, FS_EmptySet
<1> QED
  BY <1>2, <1>3, <1>4, FS_AddElement, FS_RemoveElement

\* A statement of the scan fails: a fault, or its context is done.
Hindered(s) == faults' # faults \/ ~live[s]

\* How a step moves the count of the alerts owed for a finding, with the row
\* and the alerts that go with it.
LEMMA StepOwing ==
  ASSUME IInv, [Next]_vars
  PROVE  \/ \E s \in Scan, f \in Finding :
              /\ owed[s] = None /\ f \notin findings
              /\ owed' = [owed EXCEPT ![s] = f]
              /\ findings' = findings \cup {f}
              /\ Alertable(f)
              /\ UNCHANGED <<alerts, purged>>
         \/ \E f \in Finding :
              /\ f \in findings \/ ~Alertable(f)
              /\ findings' = findings \cup {f}
              /\ UNCHANGED <<owed, alerts, purged>>
         \/ \E s \in Scan :
              /\ owed[s] \in Finding
              /\ owed' = [owed EXCEPT ![s] = None]
              /\ \/ alerts' = [alerts EXCEPT ![owed[s]] = @ + 1]
                 \/ UNCHANGED alerts /\ Hindered(s)
              /\ UNCHANGED <<findings, purged>>
         \/ /\ owed' = [s \in Scan |-> None]
            /\ UNCHANGED <<findings, alerts, purged>>
            /\ faults' # faults
         \/ \E old \in SUBSET findings :
              /\ findings' = findings \ old
              /\ purged' = [f \in Finding |-> IF f \in old THEN purged[f] + 1 ELSE purged[f]]
              /\ UNCHANGED <<owed, alerts>>
         \/ UNCHANGED <<owed, findings, alerts, purged>>
<1>1. ASSUME NEW s \in Scan, NEW f \in Finding, Record(s, f)
      PROVE  \/ /\ owed[s] = None /\ f \notin findings
                /\ owed' = [owed EXCEPT ![s] = f]
                /\ findings' = findings \cup {f}
                /\ Alertable(f)
                /\ UNCHANGED <<alerts, purged>>
             \/ /\ f \in findings \/ ~Alertable(f)
                /\ findings' = findings \cup {f}
                /\ UNCHANGED <<owed, alerts, purged>>
             \/ UNCHANGED <<owed, findings, alerts, purged>>
  BY <1>1 DEF Record, InsertedFinding, IInv, OwedWhileAlerting
<1>2. ASSUME NEW s \in Scan, RecordAlert(s)
      PROVE  /\ owed[s] \in Finding
             /\ owed' = [owed EXCEPT ![s] = None]
             /\ \/ alerts' = [alerts EXCEPT ![owed[s]] = @ + 1]
                \/ UNCHANGED alerts /\ Hindered(s)
             /\ UNCHANGED <<findings, purged>>
  <2>1. Fails(s) => Hindered(s)
    BY DEF Fails, Fault, Hindered, IInv, TypeOK, OwedWhileAlerting
  <2>2. QED
    BY <1>2, <2>1 DEF RecordAlert, InsertCompromiseFindingAlert, IInv, OwedWhileAlerting, TypeOK
<1>3. ASSUME NEW s \in Scan,
             \/ RunCompromise(s) \/ CompromiseScanNow(s) \/ Timeout(s)
             \/ ListTargets(s) \/ AddAutoTargets(s) \/ EndScan(s)
             \/ Check(s) \/ EndTarget(s) \/ \E t \in Target : StartTarget(s, t)
      PROVE  UNCHANGED <<owed, findings, alerts, purged>>
  BY <1>3 DEF RunCompromise, CompromiseScanNow, Begin, Timeout, ListTargets, AddAutoTargets,
              EndScan, Check, EndTarget, StartTarget, tables, job
<1>4. ASSUME NEW t \in Target,
             CompromiseAddTarget(t) \/ CompromiseDeleteTarget(t) \/ BulkUpsert(t)
      PROVE  UNCHANGED <<owed, findings, alerts, purged>>
  BY <1>4 DEF CompromiseAddTarget, CompromiseDeleteTarget, BulkUpsert, job
<1>5. ASSUME \/ \E ts \in SUBSET Target : CompromiseBulkTargets(ts)
             \/ BulkFails \/ Cancel \/ UNCHANGED vars
      PROVE  UNCHANGED <<owed, findings, alerts, purged>>
  BY <1>5 DEF CompromiseBulkTargets, BulkFails, Cancel, vars, tables, job
<1>6. ASSUME NEW old \in SUBSET findings, PurgeCompromiseFindings(old)
      PROVE  /\ findings' = findings \ old
             /\ purged' = [f \in Finding |-> IF f \in old THEN purged[f] + 1 ELSE purged[f]]
             /\ UNCHANGED <<owed, alerts>>
  BY <1>6 DEF PurgeCompromiseFindings, job
<1>7. ASSUME Restart
      PROVE  owed' = [s \in Scan |-> None] /\ UNCHANGED <<findings, alerts, purged>> /\ faults' # faults
  BY <1>7 DEF Restart, Fault, tables, IInv, TypeOK
<1> QED
  BY <1>1, <1>2, <1>3, <1>4, <1>5, <1>6, <1>7 DEF Next, ScanStep

\* Overlapping scans raise one alert per inserted row at most, crashes and
\* lost contexts included.
THEOREM OneAlertPerRow == Spec => []NeverAlertedTwice
<1>1. Init => NeverAlertedTwice
  <2> SUFFICES ASSUME Init, NEW f \in Finding
               PROVE  alerts[f] + Cardinality(Owing(f)) <= RowsInserted(f)
    BY DEF NeverAlertedTwice
  <2>1. Owing(f) = {}
    BY ConstantsAssumption DEF Init, Owing
  <2> QED
    BY <2>1, FS_EmptySet DEF Init, RowsInserted
<1>2. IInv /\ NeverAlertedTwice /\ [Next]_vars => NeverAlertedTwice'
  <2> SUFFICES ASSUME IInv, NeverAlertedTwice, [Next]_vars, NEW g \in Finding
               PROVE  (alerts[g] + Cardinality(Owing(g)) <= RowsInserted(g))'
    BY DEF NeverAlertedTwice
  <2> DEFINE n == Cardinality(Owing(g))
  <2>0. /\ alerts[g] + n <= RowsInserted(g)
        /\ n \in Nat /\ alerts[g] \in Nat /\ purged[g] \in Nat
        /\ alerts \in [Finding -> Nat] /\ owed \in [Scan -> Finding \cup {None}]
        /\ None \notin Finding
    BY OwingCounts, ConstantsAssumption DEF NeverAlertedTwice, IInv, TypeOK
  <2>1. ASSUME NEW s \in Scan, NEW f \in Finding,
               owed[s] = None, f \notin findings, owed' = [owed EXCEPT ![s] = f],
               findings' = findings \cup {f}, UNCHANGED <<alerts, purged>>
        PROVE  (alerts[g] + Cardinality(Owing(g)) <= RowsInserted(g))'
    <3>1. CASE g = f
      <4>1. Owing(g)' = Owing(g) \cup {s} /\ s \in Scan \ Owing(g)
        BY <2>0, <2>1, <3>1 DEF Owing
      <4>2. Cardinality(Owing(g)') = n + 1
        BY <4>1, OwingCounts
      <4> QED
        BY <2>0, <2>1, <3>1, <4>2 DEF RowsInserted
    <3>2. CASE g # f
      <4>1. Owing(g)' = Owing(g)
        BY <2>0, <2>1, <3>2 DEF Owing
      <4> QED
        BY <2>0, <2>1, <3>2, <4>1 DEF RowsInserted
    <3> QED
      BY <3>1, <3>2
  <2>2. ASSUME NEW f \in Finding, findings' = findings \cup {f},
               UNCHANGED <<owed, alerts, purged>>
        PROVE  (alerts[g] + Cardinality(Owing(g)) <= RowsInserted(g))'
    <3>1. Owing(g)' = Owing(g)
      BY <2>2 DEF Owing
    <3> QED
      BY <2>0, <2>2, <3>1 DEF RowsInserted
  <2>3. ASSUME NEW s \in Scan, owed[s] \in Finding, owed' = [owed EXCEPT ![s] = None],
               alerts' = [alerts EXCEPT ![owed[s]] = @ + 1] \/ UNCHANGED alerts,
               UNCHANGED <<findings, purged>>
        PROVE  (alerts[g] + Cardinality(Owing(g)) <= RowsInserted(g))'
    <3>1. CASE g = owed[s]
      <4>1. Owing(g)' = Owing(g) \ {s} /\ s \in Owing(g)
        BY <2>0, <2>3, <3>1 DEF Owing
      <4>2. Cardinality(Owing(g)') = n - 1
        BY <4>1, OwingCounts
      <4>3. alerts'[g] \in {alerts[g], alerts[g] + 1}
        BY <2>0, <2>3, <3>1
      <4> QED
        BY <2>0, <2>3, <4>2, <4>3 DEF RowsInserted
    <3>2. CASE g # owed[s]
      <4>1. Owing(g)' = Owing(g) /\ alerts'[g] = alerts[g]
        BY <2>0, <2>3, <3>2 DEF Owing
      <4> QED
        BY <2>0, <2>3, <4>1 DEF RowsInserted
    <3> QED
      BY <3>1, <3>2
  <2>4. ASSUME owed' = [s \in Scan |-> None], UNCHANGED <<findings, alerts, purged>>
        PROVE  (alerts[g] + Cardinality(Owing(g)) <= RowsInserted(g))'
    <3>1. Owing(g)' = {}
      BY <2>0, <2>4 DEF Owing
    <3> QED
      BY <2>0, <2>4, <3>1, FS_EmptySet DEF RowsInserted
  <2>5. ASSUME NEW old \in SUBSET findings, findings' = findings \ old,
               purged' = [f \in Finding |-> IF f \in old THEN purged[f] + 1 ELSE purged[f]],
               UNCHANGED <<owed, alerts>>
        PROVE  (alerts[g] + Cardinality(Owing(g)) <= RowsInserted(g))'
    <3>1. Owing(g)' = Owing(g)
      BY <2>5 DEF Owing
    <3>2. RowsInserted(g)' = RowsInserted(g)
      BY <2>0, <2>5 DEF RowsInserted
    <3> QED
      BY <2>0, <2>5, <3>1, <3>2
  <2>6. ASSUME UNCHANGED <<owed, findings, alerts, purged>>
        PROVE  (alerts[g] + Cardinality(Owing(g)) <= RowsInserted(g))'
    BY <2>0, <2>6 DEF Owing, RowsInserted
  <2> QED
    BY <2>1, <2>2, <2>3, <2>4, <2>5, <2>6, StepOwing
<1> QED
  BY <1>1, <1>2, InvariantIInv, PTL DEF Spec

\* Critical and warning, what record raises an alert for, is all but info.
LEMMA SeriousIsAlertable ==
  ASSUME NEW f \in Finding
  PROVE  Alertable(f) <=> Severity(f) # "info"
BY DEF Alertable, Severity

\* Scans, their failures and the purge implement the ledger.
THEOREM ScansImplementLedger == Spec => ImplementsLedger
<1> DEFINE Pending == [f \in Finding |-> Cardinality(Owing(f))]
<1>1. Init => Ledger!Init
  <2> SUFFICES ASSUME Init
               PROVE  Ledger!Init
    OBVIOUS
  <2>1. \A f \in Finding : Owing(f) = {}
    BY ConstantsAssumption DEF Init, Owing
  <2>2. \A f \in Finding : Cardinality(Owing(f)) = 0
    BY <2>1, FS_EmptySet
  <2> QED
    BY <2>2 DEF Init, Ledger!Init
<1>2. IInv /\ [Next]_vars => [Ledger!Next]_(Ledger!vars)
  <2> SUFFICES ASSUME IInv, [Next]_vars
               PROVE  Ledger!Next \/ UNCHANGED Ledger!vars
    OBVIOUS
  <2>0. /\ alerts \in [Finding -> Nat] /\ owed \in [Scan -> Finding \cup {None}]
        /\ None \notin Finding
    BY ConstantsAssumption DEF IInv, TypeOK
  <2>1. ASSUME NEW s \in Scan, NEW f \in Finding,
               owed[s] = None, f \notin findings, owed' = [owed EXCEPT ![s] = f],
               findings' = findings \cup {f}, Alertable(f), UNCHANGED <<alerts, purged>>
        PROVE  Ledger!Insert(f)
    <3>1. Owing(f)' = Owing(f) \cup {s} /\ s \in Scan \ Owing(f)
      BY <2>0, <2>1 DEF Owing
    <3>2. Cardinality(Owing(f)') = Cardinality(Owing(f)) + 1
      BY <3>1, OwingCounts
    <3>3. \A g \in Finding \ {f} : Owing(g)' = Owing(g)
      BY <2>0, <2>1 DEF Owing
    <3>4. Pending' = [Pending EXCEPT ![f] = @ + 1]
      BY <3>2, <3>3
    <3> QED
      BY <2>1, <3>4, SeriousIsAlertable DEF Ledger!Insert
  <2>2. ASSUME NEW f \in Finding, f \in findings \/ ~Alertable(f),
               findings' = findings \cup {f}, UNCHANGED <<owed, alerts, purged>>
        PROVE  Ledger!Insert(f) \/ UNCHANGED Ledger!vars
    <3>1. \A g \in Finding : Owing(g)' = Owing(g)
      BY <2>2 DEF Owing
    <3>2. Pending' = Pending
      BY <3>1
    <3> QED
      BY <2>2, <3>2, SeriousIsAlertable DEF Ledger!Insert, Ledger!vars
  <2>3. ASSUME NEW s \in Scan, NEW f \in Finding, owed[s] = f,
               owed' = [owed EXCEPT ![s] = None],
               alerts' = [alerts EXCEPT ![f] = @ + 1] \/ UNCHANGED alerts,
               UNCHANGED <<findings, purged>>
        PROVE  Ledger!Raise(f) \/ Ledger!Lose(f)
    <3>1. Owing(f)' = Owing(f) \ {s} /\ s \in Owing(f)
      BY <2>0, <2>3 DEF Owing
    <3>2. /\ Cardinality(Owing(f)) > 0
          /\ Cardinality(Owing(f)') = Cardinality(Owing(f)) - 1
      BY <3>1, OwingCounts
    <3>3. \A g \in Finding \ {f} : Owing(g)' = Owing(g)
      BY <2>0, <2>3 DEF Owing
    <3>4. Pending' = [Pending EXCEPT ![f] = @ - 1] /\ Pending[f] > 0
      BY <3>2, <3>3
    <3> QED
      BY <2>3, <3>4 DEF Ledger!Raise, Ledger!Lose
  <2>4. ASSUME owed' = [s \in Scan |-> None], UNCHANGED <<findings, alerts, purged>>
        PROVE  Ledger!LoseAll
    <3>1. \A g \in Finding : Owing(g)' = {}
      BY <2>0, <2>4 DEF Owing
    <3> QED
      BY <2>4, <3>1, FS_EmptySet DEF Ledger!LoseAll
  <2>5. ASSUME NEW old \in SUBSET findings, findings' = findings \ old,
               UNCHANGED <<owed, alerts>>
        PROVE  Ledger!Forget(old)
    <3>1. \A g \in Finding : Owing(g)' = Owing(g)
      BY <2>5 DEF Owing
    <3> QED
      BY <2>5, <3>1 DEF Ledger!Forget
  <2>6. ASSUME UNCHANGED <<owed, findings, alerts, purged>>
        PROVE  UNCHANGED Ledger!vars
    BY <2>6 DEF Owing, Ledger!vars
  <2> QED
    BY <2>1, <2>2, <2>3, <2>4, <2>5, <2>6, StepOwing DEF Ledger!Next
<1> QED
  BY <1>1, <1>2, InvariantIInv, PTL DEF Spec, ImplementsLedger, Ledger!Spec

-----------------------------------------------------------------------------
(* What a fault costs.                                                     *)

\* Faults are never forgotten.
LEMMA FaultsGrow ==
  ASSUME IInv, [Next]_vars
  PROVE  faults \in Nat /\ (faults' = faults \/ faults' = faults + 1)
<1>1. faults \in Nat
  BY DEF IInv, TypeOK
<1>2. ASSUME NEW s \in Scan, RunCompromise(s) \/ CompromiseScanNow(s) \/ ScanStep(s) \/ Timeout(s)
      PROVE  faults' = faults \/ faults' = faults + 1
  BY <1>2 DEF RunCompromise, CompromiseScanNow, Begin, ScanStep, ListTargets, AddAutoTargets,
              EndScan, StartTarget, Check, EndTarget, Record, RecordAlert, Timeout, Succeeds,
              Fails, Fault
<1>3. QED
  BY <1>1, <1>2 DEF Next, CompromiseAddTarget, CompromiseDeleteTarget, BulkUpsert,
      CompromiseBulkTargets, BulkFails, PurgeCompromiseFindings, Cancel, Restart, Fault, vars

\* One fault more allows for one more loss by every scan.
LEMMA OneMore ==
  ASSUME NEW n \in Nat, NEW k \in Nat
  PROVE  n * k \in Nat /\ (n + 1) * k = n * k + k
OBVIOUS

\* Scans that owe the alert of f and whose context is done: they will lose it.
Doomed(f) == {s \in Owing(f) : ~live[s]}

\* The alerts lost, and those about to be.
LossBounded ==
  \A f \in Finding :
    IF Severity(f) = "info"
    THEN alerts[f] = 0 /\ Owing(f) = {}
    ELSE RowsInserted(f) + Cardinality(Doomed(f))
           <= alerts[f] + Cardinality(Owing(f)) + faults * Cardinality(Scan)

\* A fault inserts no row, raises no alert and makes no scan owe one.
LEMMA FaultsOnlyLose ==
  ASSUME IInv, [Next]_vars, faults' # faults
  PROVE  UNCHANGED <<findings, alerts, purged>> /\ \A f \in Finding : Owing(f)' \subseteq Owing(f)
<1>0. None \notin Finding /\ owed \in [Scan -> Finding \cup {None}] /\ faults \in Nat
  BY ConstantsAssumption DEF IInv, TypeOK
<1>1. CASE \E s \in Scan : ScanStep(s)
  <2>1. PICK s \in Scan : ScanStep(s)
    BY <1>1
  <2>2. UNCHANGED <<findings, alerts, purged>> /\ owed' \in {owed, [owed EXCEPT ![s] = None]}
    BY <2>1 DEF ScanStep, ListTargets, AddAutoTargets, EndScan, StartTarget, Check, EndTarget,
                Record, RecordAlert, Succeeds, tables
  <2> QED
    BY <1>0, <2>2 DEF Owing
<1>2. CASE Restart
  BY <1>0, <1>2 DEF Restart, Owing, tables
<1>3. CASE UNCHANGED <<findings, alerts, purged, owed>>
  BY <1>3 DEF Owing
<1> QED
  BY <1>1, <1>2, <1>3
  DEF Next, RunCompromise, CompromiseScanNow, Begin, Timeout, CompromiseAddTarget,
      CompromiseDeleteTarget, BulkUpsert, CompromiseBulkTargets, BulkFails,
      PurgeCompromiseFindings, Cancel, vars, tables, job

\* Without a fault, no scan that owes an alert loses its context, and one
\* that has lost it does not come to owe another.
LEMMA DoomedByFaults ==
  ASSUME IInv, [Next]_vars, faults' = faults, NEW s \in Scan, owed'[s] # None, ~live'[s]
  PROVE  owed'[s] = owed[s] /\ ~live[s]
<1>0. /\ pc \in [Scan -> {"idle", "list", "auto", "loop", "check", "record", "alert"}]
      /\ owed \in [Scan -> Finding \cup {None}] /\ live \in [Scan -> BOOLEAN] /\ faults \in Nat
      /\ \A r \in Scan : pc[r] # "alert" => owed[r] = None
  BY DEF IInv, TypeOK, OwedWhileAlerting
<1>1. ASSUME NEW r \in Scan, RunCompromise(r) \/ CompromiseScanNow(r) \/ EndScan(r)
      PROVE  owed' = owed /\ pc[r] # "alert" /\ \A q \in Scan \ {r} : live'[q] = live[q]
  BY <1>0, <1>1 DEF RunCompromise, CompromiseScanNow, Begin, EndScan
<1>2. ASSUME NEW r \in Scan, NEW f \in Finding, Record(r, f)
      PROVE  /\ live' = live
             /\ owed' = owed \/ (live[r] /\ \A q \in Scan \ {r} : owed'[q] = owed[q])
  BY <1>0, <1>2 DEF Record, Succeeds, context
<1>3. ASSUME NEW r \in Scan, RecordAlert(r)
      PROVE  live' = live /\ owed' = [owed EXCEPT ![r] = None]
  BY <1>3 DEF RecordAlert, context
<1>4. ASSUME NEW r \in Scan,
             \/ ListTargets(r) \/ AddAutoTargets(r) \/ Check(r) \/ EndTarget(r)
             \/ \E t \in Target : StartTarget(r, t)
      PROVE  UNCHANGED <<live, owed>>
  BY <1>4 DEF ListTargets, AddAutoTargets, Check, EndTarget, StartTarget, context
<1>5. ASSUME NEW t \in Target, CompromiseAddTarget(t) \/ CompromiseDeleteTarget(t) \/ BulkUpsert(t)
      PROVE  UNCHANGED <<live, owed>>
  BY <1>5 DEF CompromiseAddTarget, CompromiseDeleteTarget, BulkUpsert, context, job
<1>6. ASSUME \/ \E ts \in SUBSET Target : CompromiseBulkTargets(ts)
             \/ \E old \in SUBSET findings : PurgeCompromiseFindings(old)
             \/ UNCHANGED vars
      PROVE  UNCHANGED <<live, owed>>
  BY <1>6 DEF CompromiseBulkTargets, PurgeCompromiseFindings, vars, context, job
<1>7. ~(Cancel \/ Restart \/ BulkFails \/ \E r \in Scan : Timeout(r))
  BY <1>0 DEF Cancel, Restart, BulkFails, Timeout, Fault
<1> QED
  BY <1>0, <1>1, <1>2, <1>3, <1>4, <1>5, <1>6, <1>7 DEF Next, ScanStep

\* A step, faulty or not, keeps the bound on what is lost.
LEMMA StepLoss == IInv /\ LossBounded /\ [Next]_vars => LossBounded'
<1> SUFFICES ASSUME IInv, LossBounded, [Next]_vars, NEW g \in Finding
             PROVE  IF Severity(g) = "info"
                    THEN alerts'[g] = 0 /\ Owing(g)' = {}
                    ELSE RowsInserted(g)' + Cardinality(Doomed(g)')
                           <= alerts'[g] + Cardinality(Owing(g)') + faults' * Cardinality(Scan)
  BY DEF LossBounded, Severity
<1> DEFINE n == Cardinality(Owing(g))
           k == Cardinality(Scan)
<1>0. /\ IF Severity(g) = "info" THEN alerts[g] = 0 /\ Owing(g) = {}
         ELSE RowsInserted(g) + Cardinality(Doomed(g)) <= alerts[g] + n + faults * k
      /\ alerts[g] \in Nat /\ purged[g] \in Nat /\ faults \in Nat
      /\ alerts \in [Finding -> Nat] /\ owed \in [Scan -> Finding \cup {None}]
      /\ None \notin Finding
  BY ConstantsAssumption DEF LossBounded, IInv, TypeOK
<1>1. RowsInserted(g) \in Nat
  BY <1>0 DEF RowsInserted
<1>2. IsFiniteSet(Owing(g)) /\ n \in Nat /\ k \in Nat /\ n <= k
  <2>1. IsFiniteSet(Scan) /\ Owing(g) \subseteq Scan
    BY ConstantsAssumption DEF Owing
  <2> QED
    BY <2>1, FS_Subset, FS_CardinalityType
<1>3. /\ IsFiniteSet(Doomed(g)) /\ Cardinality(Doomed(g)) \in Nat
      /\ \A S : S \subseteq Doomed(g) => /\ Cardinality(S) \in Nat
                                         /\ Cardinality(S) <= Cardinality(Doomed(g))
      /\ \A S : \A s \in Doomed(g) : S \subseteq Doomed(g) \ {s} =>
           /\ Cardinality(S) \in Nat /\ Cardinality(S) <= Cardinality(Doomed(g)) - 1
  <2>1. IsFiniteSet(Doomed(g))
    BY <1>2, FS_Subset DEF Doomed
  <2>2. \A s \in Doomed(g) : IsFiniteSet(Doomed(g) \ {s})
                             /\ Cardinality(Doomed(g) \ {s}) = Cardinality(Doomed(g)) - 1
    BY <2>1, FS_RemoveElement
  <2> QED
    BY <2>1, <2>2, FS_Subset, FS_CardinalityType
<1>4. CASE faults' # faults
  <2>1. /\ faults' = faults + 1 /\ UNCHANGED <<findings, alerts, purged>>
        /\ Owing(g)' \subseteq Owing(g)
    BY <1>4, FaultsGrow, FaultsOnlyLose
  <2>2. IsFiniteSet(Owing(g)') /\ Cardinality(Owing(g)') \in Nat
    BY <1>2, <2>1, FS_Subset, FS_CardinalityType
  <2>3. Doomed(g)' \subseteq Owing(g)'
    BY DEF Doomed
  <2>4. Cardinality(Doomed(g)') \in Nat /\ Cardinality(Doomed(g)') <= Cardinality(Owing(g)')
    BY <2>2, <2>3, FS_Subset, FS_CardinalityType
  <2>5. RowsInserted(g)' = RowsInserted(g)
    BY <2>1 DEF RowsInserted
  <2>6. faults * k \in Nat /\ faults' * k = faults * k + k
    BY <1>0, <1>2, <2>1, OneMore
  <2> HIDE DEF n, k
  <2>7. CASE Severity(g) = "info"
    BY <1>0, <2>1, <2>7
  <2>8. CASE Severity(g) # "info"
    BY <1>0, <1>1, <1>2, <1>3, <2>1, <2>2, <2>4, <2>5, <2>6, <2>8 DEF k
  <2> QED
    BY <2>7, <2>8
<1>5. CASE faults' = faults
  <2>0. faults * k \in Nat
    BY <1>0, <1>2, OneMore
  <2>a. Doomed(g)' \subseteq Doomed(g)
    BY <1>0, <1>5, DoomedByFaults DEF Doomed, Owing
  <2>b. Cardinality(Doomed(g)') \in Nat /\ Cardinality(Doomed(g)') <= Cardinality(Doomed(g))
    BY <1>3, <2>a
  <2>1. ASSUME NEW s \in Scan, NEW f \in Finding,
               owed[s] = None, f \notin findings, owed' = [owed EXCEPT ![s] = f],
               findings' = findings \cup {f}, Alertable(f), UNCHANGED <<alerts, purged>>
        PROVE  IF Severity(g) = "info" THEN alerts'[g] = 0 /\ Owing(g)' = {}
               ELSE RowsInserted(g)' + Cardinality(Doomed(g)')
                      <= alerts'[g] + Cardinality(Owing(g)') + faults' * k
    <3>1. CASE g = f
      <4>1. Owing(g)' = Owing(g) \cup {s} /\ s \in Scan \ Owing(g)
        BY <1>0, <2>1, <3>1 DEF Owing
      <4>2. Cardinality(Owing(g)') = n + 1
        BY <4>1, OwingCounts
      <4>3. Severity(g) # "info"
        BY <2>1, <3>1, SeriousIsAlertable
      <4>4. RowsInserted(g)' = RowsInserted(g) + 1
        BY <1>0, <2>1, <3>1 DEF RowsInserted
      <4> HIDE DEF n, k
      <4> QED
        BY <1>0, <1>1, <1>2, <1>3, <1>5, <2>0, <2>1, <2>b, <4>2, <4>3, <4>4
    <3>2. CASE g # f
      <4>1. Owing(g)' = Owing(g) /\ RowsInserted(g)' = RowsInserted(g)
        BY <1>0, <2>1, <3>2 DEF Owing, RowsInserted
      <4> HIDE DEF k
      <4> QED
        BY <1>0, <1>1, <1>2, <1>3, <1>5, <2>0, <2>1, <2>b, <4>1
    <3> QED
      BY <3>1, <3>2
  <2>2. ASSUME NEW f \in Finding, f \in findings \/ ~Alertable(f), findings' = findings \cup {f},
               UNCHANGED <<owed, alerts, purged>>
        PROVE  IF Severity(g) = "info" THEN alerts'[g] = 0 /\ Owing(g)' = {}
               ELSE RowsInserted(g)' + Cardinality(Doomed(g)')
                      <= alerts'[g] + Cardinality(Owing(g)') + faults' * k
    <3>1. Owing(g)' = Owing(g)
      BY <2>2 DEF Owing
    <3>2. Severity(g) = "info" \/ RowsInserted(g)' = RowsInserted(g)
      BY <2>2, SeriousIsAlertable DEF RowsInserted
    <3> HIDE DEF k
    <3> QED
      BY <1>0, <1>1, <1>2, <1>3, <1>5, <2>0, <2>2, <2>b, <3>1, <3>2
  <2>3. ASSUME NEW s \in Scan, owed[s] \in Finding, owed' = [owed EXCEPT ![s] = None],
               \/ alerts' = [alerts EXCEPT ![owed[s]] = @ + 1]
               \/ UNCHANGED alerts /\ Hindered(s),
               UNCHANGED <<findings, purged>>
        PROVE  IF Severity(g) = "info" THEN alerts'[g] = 0 /\ Owing(g)' = {}
               ELSE RowsInserted(g)' + Cardinality(Doomed(g)')
                      <= alerts'[g] + Cardinality(Owing(g)') + faults' * k
    <3>0. RowsInserted(g)' = RowsInserted(g)
      BY <2>3 DEF RowsInserted
    <3>1. CASE g = owed[s]
      <4>1. Owing(g)' = Owing(g) \ {s} /\ s \in Owing(g)
        BY <1>0, <2>3, <3>1 DEF Owing
      <4>2. Cardinality(Owing(g)') = n - 1 /\ n > 0
        BY <4>1, OwingCounts
      <4>3. Severity(g) # "info"
        BY <1>0, <4>1
      <4>4. \/ alerts'[g] = alerts[g] + 1
            \/ /\ alerts'[g] = alerts[g]
               /\ Cardinality(Doomed(g)') <= Cardinality(Doomed(g)) - 1
        <5>1. CASE alerts' = [alerts EXCEPT ![owed[s]] = @ + 1]
          BY <1>0, <3>1, <5>1
        <5>2. CASE UNCHANGED alerts /\ Hindered(s)
          <6>1. s \in Doomed(g)
            BY <1>5, <4>1, <5>2 DEF Hindered, Doomed
          <6>2. Doomed(g)' \subseteq Doomed(g) \ {s}
            BY <2>a, <4>1 DEF Doomed
          <6> QED
            BY <1>3, <5>2, <6>1, <6>2
        <5> QED
          BY <2>3, <5>1, <5>2
      <4> HIDE DEF n, k
      <4> QED
        BY <1>0, <1>1, <1>2, <1>3, <1>5, <2>0, <2>b, <3>0, <4>2, <4>3, <4>4
    <3>2. CASE g # owed[s]
      <4>1. Owing(g)' = Owing(g) /\ alerts'[g] = alerts[g]
        BY <1>0, <2>3, <3>2 DEF Owing
      <4> HIDE DEF k
      <4> QED
        BY <1>0, <1>1, <1>2, <1>3, <1>5, <2>0, <2>b, <3>0, <4>1
    <3> QED
      BY <3>1, <3>2
  <2>4. ASSUME NEW old \in SUBSET findings, findings' = findings \ old,
               purged' = [f \in Finding |-> IF f \in old THEN purged[f] + 1 ELSE purged[f]],
               UNCHANGED <<owed, alerts>>
        PROVE  IF Severity(g) = "info" THEN alerts'[g] = 0 /\ Owing(g)' = {}
               ELSE RowsInserted(g)' + Cardinality(Doomed(g)')
                      <= alerts'[g] + Cardinality(Owing(g)') + faults' * k
    <3>1. Owing(g)' = Owing(g)
      BY <2>4 DEF Owing
    <3>2. RowsInserted(g)' = RowsInserted(g)
      BY <1>0, <2>4 DEF RowsInserted
    <3> HIDE DEF k
    <3> QED
      BY <1>0, <1>1, <1>2, <1>3, <1>5, <2>0, <2>4, <2>b, <3>1, <3>2
  <2>5. ASSUME UNCHANGED <<owed, findings, alerts, purged>>
        PROVE  IF Severity(g) = "info" THEN alerts'[g] = 0 /\ Owing(g)' = {}
               ELSE RowsInserted(g)' + Cardinality(Doomed(g)')
                      <= alerts'[g] + Cardinality(Owing(g)') + faults' * k
    <3>1. Owing(g)' = Owing(g) /\ RowsInserted(g)' = RowsInserted(g)
      BY <2>5 DEF Owing, RowsInserted
    <3> HIDE DEF k
    <3> QED
      BY <1>0, <1>1, <1>2, <1>3, <1>5, <2>0, <2>5, <2>b, <3>1
  <2> QED
    BY <1>5, <2>1, <2>2, <2>3, <2>4, <2>5, StepOwing
<1> QED
  BY <1>4, <1>5

\* However many scans overlap and whatever fails, an info finding has no
\* alert, and the rows of another finding that have neither an alert nor a
\* scan about to raise it are at most one per scan and fault.
THEOREM AllAlertsRaised == Spec => []AlertsAccountedFor
<1>1. Init => LossBounded
  <2> SUFFICES ASSUME Init, NEW f \in Finding
               PROVE  /\ alerts[f] = 0 /\ Owing(f) = {}
                      /\ RowsInserted(f) + Cardinality(Doomed(f))
                           <= alerts[f] + Cardinality(Owing(f)) + faults * Cardinality(Scan)
    BY DEF LossBounded
  <2>1. Owing(f) = {} /\ Doomed(f) = {}
    BY ConstantsAssumption DEF Init, Owing, Doomed
  <2>2. Cardinality(Scan) \in Nat
    BY ConstantsAssumption, FS_CardinalityType
  <2> QED
    BY <2>1, <2>2, FS_EmptySet DEF Init, RowsInserted
<1>2. IInv /\ LossBounded => AlertsAccountedFor
  <2> SUFFICES ASSUME IInv, LossBounded, NEW f \in Finding, Severity(f) # "info"
               PROVE  RowsInserted(f)
                        <= alerts[f] + Cardinality(Owing(f)) + faults * Cardinality(Scan)
    BY DEF LossBounded, AlertsAccountedFor
  <2>1. Cardinality(Doomed(f)) \in Nat
    BY OwingCounts, FS_Subset, FS_CardinalityType DEF Doomed
  <2>2. RowsInserted(f) \in Nat
    BY DEF RowsInserted, IInv, TypeOK
  <2>3. RowsInserted(f) + Cardinality(Doomed(f))
          <= alerts[f] + Cardinality(Owing(f)) + faults * Cardinality(Scan)
    BY DEF LossBounded
  <2>4. alerts[f] \in Nat /\ Cardinality(Owing(f)) \in Nat
    BY OwingCounts DEF IInv, TypeOK
  <2>5. faults * Cardinality(Scan) \in Nat
    BY ConstantsAssumption, FS_CardinalityType, OneMore DEF IInv, TypeOK
  <2> QED
    BY <2>1, <2>2, <2>3, <2>4, <2>5
<1> QED
  BY <1>1, <1>2, StepLoss, InvariantIInv, PTL DEF Spec

\* A row of compromise_targets is never removed.
LEMMA RowsOfTargetsStay ==
  ASSUME IInv, [Next]_vars, NEW t \in Target, targets[t] # "absent"
  PROVE  targets'[t] # "absent"
<1>1. targets \in [Target -> {"absent", "enabled", "disabled"}]
  BY DEF IInv, TypeOK
<1>2. \/ UNCHANGED targets
      \/ \E u \in Target : targets' = [targets EXCEPT ![u] = "enabled"]
      \/ \E u \in Target : targets' = [targets EXCEPT ![u] = "disabled"]
  BY DEF Next, ScanStep, RunCompromise, CompromiseScanNow, Begin, Timeout, ListTargets,
         AddAutoTargets, EndScan, StartTarget, Check, EndTarget, Record, RecordAlert,
         CompromiseAddTarget, CompromiseDeleteTarget, BulkUpsert, CompromiseBulkTargets,
         BulkFails, PurgeCompromiseFindings, Cancel, Restart, UpsertCompromiseTarget, vars, tables
<1>3. QED
  BY <1>1, <1>2

\* Targets without a row that a finding, recorded or not, or a scan is about.
Loose ==
  {t \in Target :
     /\ targets[t] = "absent"
     /\ \/ \E f \in findings : f.target = t
        \/ \E s \in Scan : cur[s] = t \/ \E f \in found[s] : f.target = t}

\* There is one at most for each fault.
LooseBounded == IsFiniteSet(Loose) /\ Cardinality(Loose) <= faults

\* What a step starts to work on without a row is the one target whose upsert
\* just failed.
LEMMA StepLoose ==
  ASSUME IInv, [Next]_vars
  PROVE  \/ Loose' \subseteq Loose
         \/ faults' = faults + 1 /\ \E t \in Target : Loose' \subseteq Loose \cup {t}
<1>1. /\ cur \in [Scan -> Target \cup {None}] /\ found \in [Scan -> SUBSET Finding]
      /\ targets \in [Target -> {"absent", "enabled", "disabled"}]
  BY DEF IInv, TypeOK
<1>2. \A f \in findings' : f \in findings \/ \E s \in Scan : f \in found[s]
  BY FindingsComeFromRecord
<1>3. \A t \in Target : targets'[t] = "absent" => targets[t] = "absent"
  BY RowsOfTargetsStay
<1>4. CASE \A r \in Scan : /\ cur'[r] = cur[r] \/ cur'[r] = None
                           /\ found'[r] \subseteq found[r]
  BY <1>2, <1>3, <1>4, ConstantsAssumption DEF Loose
<1>5. ASSUME NEW r \in Scan, NEW t \in Target, StartTarget(r, t)
      PROVE  \/ Loose' \subseteq Loose
             \/ faults' = faults + 1 /\ Loose' \subseteq Loose \cup {t}
  <2>1. live[r] /\ found' = found /\ cur' = [cur EXCEPT ![r] = t]
    BY <1>5 DEF StartTarget, LoopEnds
  <2>2. Loose' \subseteq Loose \cup {t}
    BY <1>1, <1>2, <1>3, <2>1 DEF Loose
  <2>3. CASE UpsertCompromiseTarget(t)
    <3>1. targets'[t] # "absent"
      BY <1>1, <2>3 DEF UpsertCompromiseTarget
    <3> QED
      BY <2>2, <3>1 DEF Loose
  <2>4. CASE Fails(r)
    BY <2>1, <2>2, <2>4 DEF Fails, Fault
  <2> QED
    BY <1>5, <2>3, <2>4 DEF StartTarget
<1>6. ASSUME NEW r \in Scan, Check(r)
      PROVE  Loose' \subseteq Loose
  <2>1. cur[r] \in Target /\ cur' = cur
    BY <1>1, <1>6 DEF Check, IInv, WorkKnown
  <2>2. PICK fs : /\ fs \in IF live[r] THEN Answers(cur[r], Checks[Kind[cur[r]]][step[r]]) ELSE {{}}
                  /\ found' = [found EXCEPT ![r] = fs]
    BY <1>6 DEF Check
  <2>3. \A f \in fs : f.target = cur[r]
    BY <2>1, <2>2, AnswersAreFindings
  <2> QED
    BY <1>1, <1>2, <1>3, <2>1, <2>2, <2>3 DEF Loose
<1>7. ASSUME NEW s \in Scan, RunCompromise(s) \/ CompromiseScanNow(s) \/ ScanStep(s) \/ Timeout(s),
             ~Check(s), ~\E t \in Target : StartTarget(s, t), NEW r \in Scan
      PROVE  (cur'[r] = cur[r] \/ cur'[r] = None) /\ found'[r] \subseteq found[r]
  BY <1>1, <1>7 DEF RunCompromise, CompromiseScanNow, Begin, ScanStep, ListTargets, AddAutoTargets,
              EndScan, StartTarget, Check, EndTarget, Record, RecordAlert, Timeout, job
<1>8. ASSUME \/ \E t \in Target : CompromiseAddTarget(t) \/ CompromiseDeleteTarget(t) \/ BulkUpsert(t)
             \/ \E ts \in SUBSET Target : CompromiseBulkTargets(ts)
             \/ \E old \in SUBSET findings : PurgeCompromiseFindings(old)
             \/ BulkFails \/ Cancel \/ UNCHANGED vars
      PROVE  cur' = cur /\ found' = found
  BY <1>8 DEF CompromiseAddTarget, CompromiseDeleteTarget, BulkUpsert, CompromiseBulkTargets,
              PurgeCompromiseFindings, BulkFails, Cancel, vars, job
<1>9. ASSUME Restart
      PROVE  \A r \in Scan : cur'[r] = None /\ found'[r] = {}
  BY <1>9 DEF Restart
<1> QED
  BY <1>4, <1>5, <1>6, <1>7, <1>8, <1>9 DEF Next

\* Whatever fails, at most one target per fault has findings and no row of
\* compromise_targets, automatic targets and removed ones included.
THEOREM FindingsTraceable == Spec => []FindingHasTarget
<1>1. Init => LooseBounded
  <2> SUFFICES ASSUME Init
               PROVE  LooseBounded
    OBVIOUS
  <2>1. Loose = {}
    BY ConstantsAssumption DEF Init, Loose
  <2> QED
    BY <2>1, FS_EmptySet DEF Init, LooseBounded
<1>2. IInv /\ LooseBounded /\ [Next]_vars => LooseBounded'
  <2> SUFFICES ASSUME IInv, LooseBounded, [Next]_vars
               PROVE  IsFiniteSet(Loose') /\ Cardinality(Loose') <= faults'
    BY DEF LooseBounded
  <2>1. IsFiniteSet(Loose) /\ Cardinality(Loose) <= faults /\ Cardinality(Loose) \in Nat
    BY FS_CardinalityType DEF LooseBounded
  <2>2. faults \in Nat /\ (faults' = faults \/ faults' = faults + 1)
    BY FaultsGrow
  <2>3. ASSUME NEW t \in Target, faults' = faults + 1, Loose' \subseteq Loose \cup {t}
        PROVE  IsFiniteSet(Loose') /\ Cardinality(Loose') <= faults'
    <3>1. /\ IsFiniteSet(Loose \cup {t})
          /\ Cardinality(Loose \cup {t}) \in {Cardinality(Loose), Cardinality(Loose) + 1}
      BY <2>1, FS_AddElement
    <3>2. IsFiniteSet(Loose') /\ Cardinality(Loose') <= Cardinality(Loose \cup {t})
      BY <2>3, <3>1, FS_Subset
    <3>3. Cardinality(Loose') \in Nat
      BY <3>2, FS_CardinalityType
    <3> QED
      BY <2>1, <2>2, <2>3, <3>1, <3>2, <3>3
  <2>4. ASSUME Loose' \subseteq Loose
        PROVE  IsFiniteSet(Loose') /\ Cardinality(Loose') <= faults'
    <3>1. /\ IsFiniteSet(Loose') /\ Cardinality(Loose') <= Cardinality(Loose)
          /\ Cardinality(Loose') \in Nat
      BY <2>1, <2>4, FS_Subset, FS_CardinalityType
    <3> QED
      BY <2>1, <2>2, <3>1
  <2> QED
    BY <2>3, <2>4, StepLoose
<1>3. IInv /\ LooseBounded => FindingHasTarget
  <2> SUFFICES ASSUME IInv, LooseBounded
               PROVE  IsFiniteSet(Untraceable) /\ Cardinality(Untraceable) <= faults
    BY DEF FindingHasTarget
  <2>1. Untraceable \subseteq Loose
    BY DEF Untraceable, Loose
  <2>2. /\ IsFiniteSet(Untraceable) /\ Cardinality(Untraceable) <= Cardinality(Loose)
        /\ Cardinality(Untraceable) \in Nat /\ Cardinality(Loose) \in Nat
    BY <2>1, FS_Subset, FS_CardinalityType DEF LooseBounded
  <2> QED
    BY <2>2 DEF LooseBounded, IInv, TypeOK
<1> QED
  BY <1>1, <1>2, <1>3, InvariantIInv, PTL DEF Spec

-----------------------------------------------------------------------------
(* Removal.                                                                *)

\* Only the user and a scan that holds the target enable a row.
LEMMA WhoEnables ==
  ASSUME IInv, [Next]_vars, NEW u \in Target,
         targets[u] # "enabled", targets'[u] = "enabled"
  PROVE  CompromiseAddTarget(u) \/ BulkUpsert(u) \/ \E s \in Scan : u \in todo[s]
<1>0. targets \in [Target -> {"absent", "enabled", "disabled"}]
  BY DEF IInv, TypeOK
<1>1. ASSUME NEW s \in Scan, NEW t \in Target, StartTarget(s, t)
      PROVE  u = t /\ u \in todo[s]
  BY <1>0, <1>1 DEF StartTarget, UpsertCompromiseTarget
<1>2. ASSUME NEW t \in Target, CompromiseAddTarget(t) \/ BulkUpsert(t)
      PROVE  u = t
  BY <1>0, <1>2 DEF CompromiseAddTarget, BulkUpsert, UpsertCompromiseTarget
<1>3. ASSUME NEW t \in Target, CompromiseDeleteTarget(t)
      PROVE  FALSE
  BY <1>0, <1>3 DEF CompromiseDeleteTarget
<1>4. targets' # targets
  OBVIOUS
<1> QED
  BY <1>1, <1>2, <1>3, <1>4
  DEF Next, ScanStep, RunCompromise, CompromiseScanNow, Begin, Timeout, ListTargets,
      AddAutoTargets, EndScan, Check, EndTarget, Record, RecordAlert, CompromiseBulkTargets,
      BulkFails, PurgeCompromiseFindings, Cancel, Restart, vars, tables

\* A scan only takes on targets that are enabled, or automatic.
LEMMA WhatIsListed ==
  ASSUME IInv, [Next]_vars, NEW s \in Scan, NEW u \in todo'[s], u \notin todo[s]
  PROVE  u \in Automatic \/ \E v \in Target : targets[v] = "enabled" /\ u = Lower[v]
<1>0. todo \in [Scan -> SUBSET Target]
  BY DEF IInv, TypeOK
<1>1. ASSUME NEW r \in Scan, ListTargets(r)
      PROVE  \E v \in Target : targets[v] = "enabled" /\ u = Lower[v]
  BY <1>0, <1>1 DEF ListTargets, Normalize, ListCompromiseTargets
<1>2. ASSUME NEW r \in Scan, AddAutoTargets(r)
      PROVE  u \in Automatic
  <2>1. PICK auto \in AutoTargets(r) : todo' = [todo EXCEPT ![r] = @ \cup auto]
    BY <1>2 DEF AddAutoTargets
  <2> QED
    BY <1>0, <2>1, AutoTargetsAreAutomatic
<1>3. ASSUME NEW r \in Scan, NEW t \in Target, StartTarget(r, t)
      PROVE  FALSE
  BY <1>0, <1>3 DEF StartTarget
<1>4. ASSUME Restart PROVE FALSE
  BY <1>4 DEF Restart
<1>5. ASSUME NEW r \in Scan, EndScan(r)
      PROVE  FALSE
  BY <1>0, <1>5 DEF EndScan
<1>6. todo' # todo
  OBVIOUS
<1> QED
  BY <1>1, <1>2, <1>3, <1>4, <1>5, <1>6
  DEF Next, ScanStep, RunCompromise, CompromiseScanNow, Begin, Timeout, Check, EndTarget,
      Record, RecordAlert, CompromiseAddTarget, CompromiseDeleteTarget, BulkUpsert,
      CompromiseBulkTargets, BulkFails, PurgeCompromiseFindings, Cancel, vars, job

\* A removed target that no running scan still holds stays removed until the
\* user adds it again.
THEOREM RemovalIsFinal == Spec => RemovalSettles
<1>1. ASSUME IInv, [Next]_vars, NEW t \in Target,
             Lower[t] \notin Automatic, Forgotten(t), ~UserEnables(t)
      PROVE  Forgotten(t)'
  <2>1. ASSUME NEW u \in Target, Lower[u] = Lower[t], targets'[u] = "enabled"
        PROVE  FALSE
    <3>1. targets[u] # "enabled"
      BY <1>1, <2>1 DEF Forgotten
    <3>2. PICK s \in Scan : u \in todo[s]
      BY <1>1, <2>1, <3>1, WhoEnables DEF UserEnables
    <3>3. Lower[u] = u
      BY <1>1, <3>2 DEF IInv, WorkKnown
    <3> QED
      BY <1>1, <2>1, <3>2, <3>3 DEF Forgotten
  <2>2. ASSUME NEW s \in Scan, Lower[t] \in todo'[s]
        PROVE  FALSE
    <3>1. Lower[t] \notin todo[s]
      BY <1>1 DEF Forgotten
    <3>2. \E v \in Target : targets[v] = "enabled" /\ Lower[t] = Lower[v]
      BY <1>1, <2>2, <3>1, WhatIsListed
    <3> QED
      BY <1>1, <3>2 DEF Forgotten
  <2> QED
    BY <2>1, <2>2 DEF Forgotten
<1>2. IInv /\ [Next]_vars =>
        [\A t \in Target :
           Lower[t] \notin Automatic /\ Forgotten(t) /\ ~UserEnables(t) => Forgotten(t)']_vars
  BY <1>1
<1> QED
  BY <1>2, InvariantIInv, PTL DEF Spec, RemovalSettles

=============================================================================
