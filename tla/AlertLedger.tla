-------------------------------- MODULE AlertLedger --------------------------------
(***************************************************************************)
(* What the compromise watch promises of its alerts, whatever scans run,    *)
(* overlap or die: a row that enters compromise_findings elects at most one *)
(* alert, and an alert is only ever raised by such an election.  A pending  *)
(* alert may be lost, never repeated; forgetting rows takes no alert back.  *)
(***************************************************************************)
EXTENDS Naturals

CONSTANTS
  Finding,     \* what a row of compromise_findings can be
  Serious      \* the findings whose rows elect an alert

VARIABLES
  rows,        \* the findings present
  pending,     \* alerts elected and not raised yet, per finding
  raised       \* alerts raised, per finding

vars == <<rows, pending, raised>>

Init ==
  /\ rows = {}
  /\ pending = [f \in Finding |-> 0]
  /\ raised = [f \in Finding |-> 0]

Insert(f) ==
  /\ f \notin rows
  /\ rows' = rows \cup {f}
  /\ pending' = IF f \in Serious THEN [pending EXCEPT ![f] = @ + 1] ELSE pending
  /\ UNCHANGED raised

Raise(f) ==
  /\ pending[f] > 0
  /\ pending' = [pending EXCEPT ![f] = @ - 1]
  /\ raised' = [raised EXCEPT ![f] = @ + 1]
  /\ UNCHANGED rows

Lose(f) ==
  /\ pending[f] > 0
  /\ pending' = [pending EXCEPT ![f] = @ - 1]
  /\ UNCHANGED <<rows, raised>>

\* The process dies with every alert it was about to raise.
LoseAll ==
  /\ pending' = [f \in Finding |-> 0]
  /\ UNCHANGED <<rows, raised>>

Forget(old) ==
  /\ rows' = rows \ old
  /\ UNCHANGED <<pending, raised>>

Next ==
  \/ \E f \in Finding : Insert(f) \/ Raise(f) \/ Lose(f)
  \/ LoseAll
  \/ \E old \in SUBSET rows : Forget(old)

Spec == Init /\ [][Next]_vars
=============================================================================
