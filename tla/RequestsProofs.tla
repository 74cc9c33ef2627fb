------------------------------ MODULE RequestsProofs ------------------------------
(***************************************************************************)
(* Theorems about Requests and their proofs: what always holds, and, at the *)
(* end, that every request ends when the fairness of FairSpec is kept and   *)
(* nobody is stuck.                                                        *)
(***************************************************************************)
EXTENDS Requests, FiniteSetTheorems, TLAPS

Point == {"none", "check", "rules", "refuse", "limit", "auth", "work"}

\* Only a handler has statements left, and those of a block come as a pair and last.
Remaining(rest) ==
  \/ rest = <<"AlertBlocked">>
  \/ rest = <<"BlockIP", "AlertBlocked">>
  \/ \A i \in DOMAIN rest : rest[i] \notin {"BlockIP", "AlertBlocked"}

WorkRemains == \A r \in Slot : (pc[r] # "work" => todo[r] = <<>>) /\ Remaining(todo[r])

\* What has passed in a span and what could pass now are within the burst and the span's earnings.
TokensWithin == \A a \in 0..clock : passed - at[a] + tokens <= Burst + Rate * (clock - a)

\* A request that is due waits at the block list, and the list has its address.
DueBlocked == \A r \in Slot : due[r] => pc[r] = "check" /\ addr[r] \in blocked

IInv == TypeOK /\ WorkRemains /\ TokensWithin /\ DueBlocked

-----------------------------------------------------------------------------
(* Types.                                                                  *)

\* A slot is freed with values of the right types.
LEMMA EndTypes ==
  ASSUME TypeOK, NEW r \in Slot, End(r)
  PROVE  /\ pc' \in [Slot -> Point] /\ addr' \in [Slot -> Address \cup {Nobody}]
         /\ todo' \in [Slot -> Seq(Statement)]
         /\ done' \in [Slot -> BOOLEAN] /\ due' \in [Slot -> BOOLEAN]
<1>1. pc' \in [Slot -> Point] /\ addr' \in [Slot -> Address \cup {Nobody}]
  BY DEF TypeOK, End, Point
<1>2. todo' \in [Slot -> Seq(Statement)]
  BY DEF TypeOK, End
<1>3. done' \in [Slot -> BOOLEAN]
  BY DEF TypeOK, End
<1>4. due' \in [Slot -> BOOLEAN]
  BY DEF TypeOK, End
<1>5. QED
  BY <1>1, <1>2, <1>3, <1>4

\* A handler starts with statements.
LEMMA StatementsTyped ==
  ASSUME NEW route \in Route
  PROVE  /\ Statements[route] \in Seq(Statement) /\ Statements[route] # <<>>
         /\ Remaining(Statements[route]) /\ Statements[route] # <<"AlertBlocked">>
<1>1. route \in {"overview", "summary", "read", "write", "bulk", "block", "unblock"}
  BY ConstantsAssumption DEF ConstantsAssumption, Statements
<1>2. CASE route = "overview"
  <2>1. Statements[route] = <<"LatestHost", "LatestContainers", "NPMStats", "RecentAlerts",
                              "Findings7d", "Targets", "TargetCounts">>
    BY <1>2 DEF Statements
  <2>2. QED
    BY <2>1 DEF Statement, Contextless, ErrorDropped, Remaining
<1>3. CASE route = "summary"
  <2>1. Statements[route] = <<"Findings7d", "Targets", "TargetCounts">>
    BY <1>3 DEF Statements
  <2>2. QED
    BY <2>1 DEF Statement, Contextless, ErrorDropped, Remaining
<1>4. CASE route = "read"
  <2>1. Statements[route] = <<"Read">>
    BY <1>4 DEF Statements
  <2>2. QED
    BY <2>1 DEF Statement, Contextless, ErrorDropped, Remaining
<1>5. CASE route = "write"
  <2>1. Statements[route] = <<"Write">>
    BY <1>5 DEF Statements
  <2>2. QED
    BY <2>1 DEF Statement, Contextless, ErrorDropped, Remaining
<1>6. CASE route = "bulk"
  <2>1. Statements[route] = <<"Write", "Write">>
    BY <1>6 DEF Statements
  <2>2. QED
    BY <2>1 DEF Statement, Contextless, ErrorDropped, Remaining
<1>7. CASE route = "block"
  <2>1. Statements[route] = <<"BlockIP", "AlertBlocked">>
    BY <1>7 DEF Statements
  <2>2. QED
    BY <2>1 DEF Statement, Contextless, ErrorDropped, Remaining
<1>8. CASE route = "unblock"
  <2>1. Statements[route] = <<"UnblockIP">>
    BY <1>8 DEF Statements
  <2>2. QED
    BY <2>1 DEF Statement, Contextless, ErrorDropped, Remaining
<1>9. QED
  BY <1>1, <1>2, <1>3, <1>4, <1>5, <1>6, <1>7, <1>8

\* What is left after a statement or its error is again the rest of a handler.
LEMMA RestRemains ==
  ASSUME NEW rest \in Seq(Statement), rest # <<>>, Remaining(rest)
  PROVE  /\ Tail(rest) \in Seq(Statement) /\ Remaining(Tail(rest))
         /\ AfterError(rest) \in Seq(Statement) /\ Remaining(AfterError(rest))
         /\ Head(rest) = "AlertBlocked" => rest = <<"AlertBlocked">>
         /\ Head(rest) = "BlockIP" => Tail(rest) = <<"AlertBlocked">>
         /\ Head(rest) # "BlockIP" => Tail(rest) # <<"AlertBlocked">>
         /\ AfterError(rest) # <<"AlertBlocked">>
<1>1. /\ Tail(rest) \in Seq(Statement) /\ AfterError(rest) \in {Tail(rest), <<>>}
      /\ AfterError(rest) \in Seq(Statement)
  BY DEF AfterError
<1>2. Remaining(<<>>)
  BY DEF Remaining
<1>3. CASE rest = <<"AlertBlocked">>
  <2>1. Tail(rest) = <<>> /\ Head(rest) = "AlertBlocked"
    BY <1>3
  <2>2. QED
    BY <1>1, <1>2, <1>3, <2>1
<1>4. CASE rest = <<"BlockIP", "AlertBlocked">>
  <2>1. Tail(rest) = <<"AlertBlocked">> /\ Head(rest) = "BlockIP"
    BY <1>4
  <2>2. AfterError(rest) = <<>>
    BY <2>1 DEF AfterError, ErrorDropped
  <2>3. Remaining(Tail(rest))
    BY <2>1 DEF Remaining
  <2>4. QED
    BY <1>1, <1>2, <2>1, <2>2, <2>3
<1>5. CASE \A i \in DOMAIN rest : rest[i] \notin {"BlockIP", "AlertBlocked"}
  <2>1. Head(rest) = rest[1] /\ 1 \in DOMAIN rest
    OBVIOUS
  <2>2. \A i \in DOMAIN Tail(rest) : i + 1 \in DOMAIN rest /\ Tail(rest)[i] = rest[i + 1]
    OBVIOUS
  <2>3. \A i \in DOMAIN Tail(rest) : Tail(rest)[i] \notin {"BlockIP", "AlertBlocked"}
    BY <1>5, <2>2
  <2>4. ASSUME NEW tail, \A i \in DOMAIN tail : tail[i] \notin {"BlockIP", "AlertBlocked"}
        PROVE  tail # <<"AlertBlocked">>
    <3> DEFINE single == <<"AlertBlocked">>
    <3>1. 1 \in DOMAIN single /\ single[1] = "AlertBlocked"
      OBVIOUS
    <3> HIDE DEF single
    <3>2. tail # single
      BY <2>4, <3>1
    <3>3. QED
      BY <3>2 DEF single
  <2>5. Head(rest) \notin {"BlockIP", "AlertBlocked"}
    BY <1>5, <2>1
  <2>6. Remaining(Tail(rest))
    BY <2>3 DEF Remaining
  <2>7. Remaining(AfterError(rest))
    BY <1>1, <1>2, <2>6
  <2>8. Tail(rest) # <<"AlertBlocked">>
    BY <2>3, <2>4
  <2>9. <<>> # <<"AlertBlocked">>
    OBVIOUS
  <2>10. AfterError(rest) # <<"AlertBlocked">>
    BY <1>1, <2>8, <2>9
  <2>11. Head(rest) = "AlertBlocked" => rest = <<"AlertBlocked">>
    BY <2>5
  <2>12. Head(rest) = "BlockIP" => Tail(rest) = <<"AlertBlocked">>
    BY <2>5
  <2>13. QED
    BY <1>1, <2>6, <2>7, <2>8, <2>10, <2>11, <2>12
<1>6. QED
  BY <1>3, <1>4, <1>5 DEF Remaining

\* The types of everything but the connection.
Types ==
  /\ blocked \subseteq Address /\ alerts \in Nat /\ events \in Nat
  /\ pc \in [Slot -> Point] /\ addr \in [Slot -> Address \cup {Nobody}]
  /\ todo \in [Slot -> Seq(Statement)]
  /\ done \in [Slot -> BOOLEAN] /\ due \in [Slot -> BOOLEAN]
  /\ tokens \in 0..Burst /\ clock \in 0..MaxClock
  /\ passed \in Nat /\ at \in [0..MaxClock -> Nat]
  /\ arrived \in 0..MaxRequests /\ faults \in 0..MaxFaults

\* The connection and whoever holds it.
Connection ==
  /\ conn \in Slot \cup {Nobody, Engine}
  /\ running \subseteq Slot
  /\ \A r \in Slot : (conn = r <=> r \in running) /\ (conn = r => AtStatement(r))

\* The parts of the type are the type.
LEMMA TypeParts == TypeOK <=> Types /\ Connection
  BY DEF TypeOK, Types, Connection, Point

\* Each step keeps the types.
LEMMA StepTypes ==
  ASSUME IInv, [Next]_vars
  PROVE  Types'
<1> USE ConstantsAssumption DEF ConstantsAssumption
<1>0. TypeOK /\ Types /\ WorkRemains
  BY TypeParts DEF IInv
<1>1. ASSUME NEW r \in Slot, End(r),
             UNCHANGED <<blocked, events, limiter, arrived>>,
             alerts' \in Nat, faults' \in 0..MaxFaults
      PROVE  Types'
  <2>1. /\ pc' \in [Slot -> Point] /\ addr' \in [Slot -> Address \cup {Nobody}]
        /\ todo' \in [Slot -> Seq(Statement)]
        /\ done' \in [Slot -> BOOLEAN] /\ due' \in [Slot -> BOOLEAN]
    BY <1>0, <1>1, EndTypes
  <2>2. /\ blocked' = blocked /\ events' = events /\ arrived' = arrived
        /\ tokens' = tokens /\ clock' = clock /\ passed' = passed /\ at' = at
    BY <1>1 DEF limiter
  <2>3. QED
    BY <1>0, <1>1, <2>1, <2>2 DEF Types
<1>2. ASSUME NEW r \in Slot, IsBlocked(r) PROVE Types'
  <2>1. faults' \in 0..MaxFaults
    BY <1>0, <1>2 DEF IsBlocked, Succeeds, Fails, Fault, Types
  <2>2. CASE End(r)
    BY <1>0, <1>1, <1>2, <2>1, <2>2 DEF IsBlocked, store, Types
  <2>3. CASE ~End(r)
    <3>1. due' = due \/ due' = [due EXCEPT ![r] = FALSE]
      BY <1>2, <2>3 DEF IsBlocked, GoTo
    <3>2. due' \in [Slot -> BOOLEAN]
      BY <1>0, <3>1 DEF Types
    <3>3. pc' = [pc EXCEPT ![r] = "rules"] /\ UNCHANGED <<addr, todo, done>>
      BY <1>2, <2>3 DEF IsBlocked, GoTo
    <3>4. pc' \in [Slot -> Point]
      BY <1>0, <3>3 DEF Types, Point
    <3>5. QED
      BY <1>0, <1>2, <2>1, <3>2, <3>3, <3>4 DEF IsBlocked, store, limiter, Types
  <2>4. QED
    BY <2>2, <2>3
<1>3. ASSUME NEW r \in Slot, Suspicious(r) \/ PassRules(r) PROVE Types'
  <2>1. /\ UNCHANGED <<addr, todo, done, due>> /\ events' \in Nat
        /\ \E point \in {"refuse", "limit"} : pc' = [pc EXCEPT ![r] = point]
    BY <1>0, <1>3 DEF Suspicious, PassRules, GoTo, Types
  <2>2. pc' \in [Slot -> Point]
    BY <1>0, <2>1 DEF Types, Point
  <2>3. QED
    BY <1>0, <1>3, <2>1, <2>2 DEF Suspicious, PassRules, Types, store, limiter, bounds
<1>4. ASSUME NEW r \in Slot, Refuse(r) PROVE Types'
  <2>1. faults' \in 0..MaxFaults /\ alerts' \in Nat
    BY <1>0, <1>4 DEF Refuse, Succeeds, Fails, Fault, InsertAlert, Types
  <2>2. QED
    BY <1>0, <1>1, <1>4, <2>1 DEF Refuse
<1>5. ASSUME NEW r \in Slot, AnswerEarly(r) \/ AnswerWithoutStore(r) \/ Respond(r) PROVE Types'
  BY <1>0, <1>1, <1>5 DEF AnswerEarly, AnswerWithoutStore, Respond, Types, store, bounds
<1>6. ASSUME NEW r \in Slot, Allow(r) PROVE Types'
  <2>1. CASE tokens > 0
    <3>1. tokens' \in 0..Burst /\ passed' \in Nat
      BY <1>0, <1>6, <2>1 DEF Allow, Types
    <3>2. pc' = [pc EXCEPT ![r] = "auth"] /\ UNCHANGED <<addr, todo, done, due>>
      BY <1>6, <2>1 DEF Allow, GoTo
    <3>3. pc' \in [Slot -> Point]
      BY <1>0, <3>2 DEF Types, Point
    <3>4. QED
      BY <1>0, <1>6, <3>1, <3>2, <3>3 DEF Allow, Types, store, bounds
  <2>2. CASE ~(tokens > 0)
    BY <1>0, <1>1, <1>6, <2>2 DEF Allow, Types, store, bounds, limiter
  <2>3. QED
    BY <2>1, <2>2
<1>7. ASSUME NEW r \in Slot, NEW route \in Route, Handle(r, route) PROVE Types'
  <2>1. Statements[route] \in Seq(Statement)
    BY StatementsTyped
  <2>2. pc' \in [Slot -> Point] /\ todo' \in [Slot -> Seq(Statement)]
    BY <1>0, <1>7, <2>1 DEF Handle, Types, Point
  <2>3. QED
    BY <1>0, <1>7, <2>2 DEF Handle, Types, store, limiter, bounds
<1>8. ASSUME NEW r \in Slot, Execute(r) PROVE Types'
  <2>1. Tail(todo[r]) \in Seq(Statement)
    BY <1>0, <1>8, RestRemains DEF Execute, Types, WorkRemains
  <2>2. todo' \in [Slot -> Seq(Statement)] /\ UNCHANGED <<pc, addr, done, faults, limiter, arrived>>
    BY <1>0, <1>8, <2>1 DEF Execute, Continue, Types, Succeeds
  <2>3. blocked' \subseteq Address /\ alerts' \in Nat /\ events' \in Nat
    BY <1>0, <1>8 DEF Execute, Effect, BlockIP, UnblockIP, Unblocked, InsertAlert, Types, store
  <2>4. due' \in [Slot -> BOOLEAN]
    BY <1>0, <1>8 DEF Execute, Effect, BlockIP, UnblockIP, Types
  <2>5. QED
    BY <1>0, <2>2, <2>3, <2>4 DEF Types, limiter
<1>9. ASSUME NEW r \in Slot, StatementFails(r) PROVE Types'
  <2>1. AfterError(todo[r]) \in Seq(Statement)
    BY <1>0, <1>9, RestRemains DEF StatementFails, Types, WorkRemains
  <2>2. todo' \in [Slot -> Seq(Statement)] /\ UNCHANGED <<pc, addr, done>>
    BY <1>0, <1>9, <2>1 DEF StatementFails, Continue, Types
  <2>3. faults' \in 0..MaxFaults
    BY <1>0, <1>9 DEF StatementFails, Fails, Fault, Types
  <2>4. QED
    BY <1>0, <1>9, <2>2, <2>3 DEF StatementFails, Types, store, limiter
<1>10. ASSUME UNCHANGED <<store, service, limiter, bounds, events>> PROVE Types'
  BY <1>0, <1>10 DEF Types, store, service, limiter, bounds
<1>11. ASSUME NEW r \in Slot, ContextDone(r) PROVE Types'
  <2>1. done' \in [Slot -> BOOLEAN] /\ faults' \in 0..MaxFaults
    BY <1>0, <1>11 DEF ContextDone, Fault, Types
  <2>2. QED
    BY <1>0, <1>11, <2>1 DEF ContextDone, Types, store, limiter
<1>12. ASSUME NEW r \in Slot, NEW a \in Address, Arrive(r, a) PROVE Types'
  <2>1. due' \in [Slot -> BOOLEAN] /\ pc' \in [Slot -> Point]
    BY <1>0, <1>12 DEF Arrive, Types, Point
  <2>2. arrived' \in 0..MaxRequests /\ addr' \in [Slot -> Address \cup {Nobody}]
    BY <1>0, <1>12 DEF Arrive, Types
  <2>3. QED
    BY <1>0, <1>12, <2>1, <2>2 DEF Arrive, Types, store, limiter
<1>13. CASE Tick
  <2>1. tokens' \in 0..Burst /\ clock' \in 0..MaxClock /\ at' \in [0..MaxClock -> Nat]
    BY <1>0, <1>13 DEF Tick, Refill, Types
  <2>2. QED
    BY <1>0, <1>13, <2>1 DEF Tick, Types, store, service, bounds
<1>14. CASE Restart
  <2>1. done' \in [Slot -> BOOLEAN] /\ due' \in [Slot -> BOOLEAN]
    BY <1>14 DEF Restart
  <2>2. /\ pc' \in [Slot -> Point] /\ addr' \in [Slot -> Address \cup {Nobody}]
        /\ todo' \in [Slot -> Seq(Statement)]
    BY <1>14 DEF Restart, Point
  <2>3. tokens' \in 0..Burst /\ passed' \in Nat /\ at' \in [0..MaxClock -> Nat]
    BY <1>14 DEF Restart, Full
  <2>4. QED
    BY <1>0, <1>14, <2>1, <2>2, <2>3 DEF Restart, Fault, Types, store
<1>15. CASE UNCHANGED vars
  BY <1>0, <1>15 DEF vars, Types, store, service, limiter, bounds
<1>16. QED
  BY <1>2, <1>3, <1>4, <1>5, <1>6, <1>7, <1>8, <1>9, <1>10, <1>11, <1>12, <1>13, <1>14, <1>15
     DEF Next, Step, Acquire, EngineAcquires, EngineReleases

-----------------------------------------------------------------------------
(* The invariant.                                                          *)

\* Each step keeps the connection with whoever has been given it.
LEMMA StepConnection ==
  ASSUME IInv, [Next]_vars
  PROVE  Connection'
<1> USE ConstantsAssumption DEF ConstantsAssumption
<1>0. Types /\ Connection
  BY TypeParts DEF IInv
<1>1. ASSUME NEW r \in Slot, r \notin running, UNCHANGED pool,
             \A s \in Slot \ {r} : pc'[s] = pc[s] /\ todo'[s] = todo[s]
      PROVE  Connection'
  BY <1>0, <1>1 DEF Connection, pool, AtStatement
<1>2. ASSUME NEW r \in Slot, running' = running \ {r},
             conn' = (IF r \in running THEN Nobody ELSE conn),
             \A s \in Slot \ {r} : pc'[s] = pc[s] /\ todo'[s] = todo[s]
      PROVE  Connection'
  BY <1>0, <1>2 DEF Connection, AtStatement
<1>3. ASSUME NEW r \in Slot, End(r) \/ GoTo(r, "rules") \/ GoTo(r, "refuse") \/ GoTo(r, "limit")
                             \/ GoTo(r, "auth")
      PROVE  \A s \in Slot \ {r} : pc'[s] = pc[s] /\ todo'[s] = todo[s]
  BY <1>0, <1>3 DEF End, GoTo, Types
<1>4. ASSUME NEW r \in Slot, Succeeds(r) \/ Fails(r)
      PROVE  running' = running \ {r} /\ conn' = (IF r \in running THEN Nobody ELSE conn)
  BY <1>4 DEF Succeeds, Fails, Released
<1>5. ASSUME NEW r \in Slot, IsBlocked(r) PROVE Connection'
  <2>1. Succeeds(r) \/ Fails(r)
    BY <1>5 DEF IsBlocked
  <2>2. \A s \in Slot \ {r} : pc'[s] = pc[s] /\ todo'[s] = todo[s]
    BY <1>0, <1>3, <1>5 DEF IsBlocked, Types
  <2>3. QED
    BY <1>2, <1>4, <2>1, <2>2
<1>6. ASSUME NEW r \in Slot, Refuse(r) PROVE Connection'
  <2>1. Succeeds(r) \/ Fails(r)
    BY <1>6 DEF Refuse
  <2>2. QED
    BY <1>2, <1>3, <1>4, <1>6, <2>1 DEF Refuse
<1>7. ASSUME NEW r \in Slot, Execute(r) \/ StatementFails(r) PROVE Connection'
  <2>1. Succeeds(r) \/ Fails(r)
    BY <1>7 DEF Execute, StatementFails
  <2>2. \A s \in Slot \ {r} : pc'[s] = pc[s] /\ todo'[s] = todo[s]
    BY <1>0, <1>7 DEF Execute, StatementFails, Continue, Types
  <2>3. QED
    BY <1>2, <1>4, <2>1, <2>2
<1>8. ASSUME NEW r \in Slot,
             Suspicious(r) \/ AnswerEarly(r) \/ PassRules(r) \/ Allow(r) \/ AnswerWithoutStore(r)
             \/ Respond(r)
      PROVE  Connection'
  <2>1. r \notin running
    BY <1>0, <1>8 DEF Connection, AtStatement, Suspicious, AnswerEarly, PassRules, Allow,
       AnswerWithoutStore, Respond
  <2>2. UNCHANGED pool
    BY <1>8 DEF Suspicious, AnswerEarly, PassRules, Allow, AnswerWithoutStore, Respond, pool
  <2>3. \A s \in Slot \ {r} : pc'[s] = pc[s] /\ todo'[s] = todo[s]
    BY <1>3, <1>8 DEF Suspicious, AnswerEarly, PassRules, Allow, AnswerWithoutStore, Respond
  <2>4. QED
    BY <1>1, <2>1, <2>2, <2>3
<1>9. ASSUME NEW r \in Slot, NEW route \in Route, Handle(r, route) PROVE Connection'
  <2>1. r \notin running
    BY <1>0, <1>9 DEF Connection, AtStatement, Handle
  <2>2. UNCHANGED pool /\ \A s \in Slot \ {r} : pc'[s] = pc[s] /\ todo'[s] = todo[s]
    BY <1>0, <1>9 DEF Handle, pool, Types
  <2>3. QED
    BY <1>1, <2>1, <2>2
<1>10. ASSUME NEW r \in Slot, NEW a \in Address, Arrive(r, a) PROVE Connection'
  <2>1. r \notin running
    BY <1>0, <1>10 DEF Connection, AtStatement, Arrive
  <2>2. UNCHANGED pool /\ \A s \in Slot \ {r} : pc'[s] = pc[s] /\ todo'[s] = todo[s]
    BY <1>0, <1>10 DEF Arrive, pool, Types
  <2>3. QED
    BY <1>1, <2>1, <2>2
<1>11. ASSUME NEW r \in Slot, Acquire(r) PROVE Connection'
  BY <1>0, <1>11 DEF Acquire, Connection, AtStatement, service
<1>12. CASE EngineAcquires \/ EngineReleases
  BY <1>0, <1>12 DEF EngineAcquires, EngineReleases, Connection, AtStatement, service
<1>13. CASE Restart
  BY <1>0, <1>13 DEF Restart, Connection
<1>14. ASSUME UNCHANGED <<conn, running, pc, todo>> PROVE Connection'
  BY <1>0, <1>14 DEF Connection, AtStatement
<1>15. QED
  BY <1>5, <1>6, <1>7, <1>8, <1>9, <1>10, <1>11, <1>12, <1>13, <1>14
     DEF Next, Step, ContextDone, Tick, vars, pool, service

\* Each step leaves the rest of a handler in front of whoever has one.
LEMMA StepWork ==
  ASSUME IInv, [Next]_vars
  PROVE  WorkRemains'
<1>0. Types /\ WorkRemains
  BY TypeParts DEF IInv
<1>1. Remaining(<<>>)
  BY DEF Remaining
<1>2. ASSUME NEW r \in Slot, End(r) PROVE WorkRemains'
  BY <1>0, <1>1, <1>2 DEF End, WorkRemains, Types
<1>3. ASSUME NEW r \in Slot, pc[r] # "work", NEW point, pc' = [pc EXCEPT ![r] = point],
             UNCHANGED todo
      PROVE  WorkRemains'
  BY <1>0, <1>3 DEF WorkRemains, Types
<1>4. ASSUME NEW r \in Slot, IsBlocked(r) \/ Suspicious(r) \/ PassRules(r) \/ Allow(r)
      PROVE  WorkRemains'
  BY <1>2, <1>3, <1>4 DEF IsBlocked, Suspicious, PassRules, Allow, GoTo
<1>5. ASSUME NEW r \in Slot, Refuse(r) \/ AnswerEarly(r) \/ AnswerWithoutStore(r) \/ Respond(r)
      PROVE  WorkRemains'
  BY <1>2, <1>5 DEF Refuse, AnswerEarly, AnswerWithoutStore, Respond
<1>6. ASSUME NEW r \in Slot, NEW route \in Route, Handle(r, route) PROVE WorkRemains'
  BY <1>0, <1>6, StatementsTyped DEF Handle, WorkRemains, Types
<1>7. ASSUME NEW r \in Slot, Execute(r) \/ StatementFails(r) PROVE WorkRemains'
  <2>1. todo[r] \in Seq(Statement) /\ todo[r] # <<>> /\ pc[r] = "work" /\ pc' = pc
    BY <1>0, <1>7 DEF Execute, StatementFails, Continue, Types
  <2>2. \E rest : Remaining(rest) /\ todo' = [todo EXCEPT ![r] = rest]
    BY <1>0, <1>7, <2>1, RestRemains DEF Execute, StatementFails, Continue, WorkRemains
  <2>3. QED
    BY <1>0, <2>1, <2>2 DEF WorkRemains, Types
<1>8. ASSUME NEW r \in Slot, NEW a \in Address, Arrive(r, a) PROVE WorkRemains'
  BY <1>3, <1>8 DEF Arrive
<1>9. CASE Restart
  BY <1>1, <1>9 DEF Restart, WorkRemains
<1>10. ASSUME UNCHANGED <<pc, todo>> PROVE WorkRemains'
  BY <1>0, <1>10 DEF WorkRemains
<1>11. QED
  BY <1>4, <1>5, <1>6, <1>7, <1>8, <1>9, <1>10
     DEF Next, Step, Acquire, ContextDone, EngineAcquires, EngineReleases, Tick, vars, service

\* Each step keeps the bucket within its earnings.
LEMMA StepTokens ==
  ASSUME IInv, [Next]_vars
  PROVE  TokensWithin'
<1> USE ConstantsAssumption DEF ConstantsAssumption
<1>0. Types /\ TokensWithin
  BY TypeParts DEF IInv
<1>1. ASSUME UNCHANGED <<clock, at>>, passed' + tokens' = passed + tokens, passed' \in Nat,
             tokens' \in Nat
      PROVE  TokensWithin'
  <2> SUFFICES ASSUME NEW a \in 0..clock
               PROVE  passed' - at[a] + tokens' <= Burst + Rate * (clock - a)
    BY <1>1 DEF TokensWithin
  <2>1. passed - at[a] + tokens <= Burst + Rate * (clock - a)
    BY <1>0 DEF TokensWithin
  <2>2. at[a] \in Nat /\ passed \in Nat /\ tokens \in Nat
    BY <1>0 DEF Types
  <2>3. passed' - at[a] + tokens' = passed - at[a] + tokens
    <3>1. passed' \in Nat /\ tokens' \in Nat /\ passed' + tokens' = passed + tokens
      BY <1>1
    <3>2. \A p, t \in Nat : p + t = passed + tokens => p - at[a] + t = passed - at[a] + tokens
      BY <2>2
    <3>3. QED
      BY <3>1, <3>2, Zenon
  <2>4. QED
    BY <2>1, <2>3
<1>2. ASSUME NEW r \in Slot, Allow(r) PROVE TokensWithin'
  BY <1>0, <1>1, <1>2 DEF Allow, Types
<1>3. CASE Tick
  <2>1. /\ clock \in Nat /\ clock' = clock + 1 /\ passed' = passed /\ clock + 1 \in 0..MaxClock
        /\ tokens' \in Nat /\ tokens' <= tokens + Rate /\ tokens' <= Burst
    BY <1>0, <1>3 DEF Tick, Refill, Types
  <2> SUFFICES ASSUME NEW a \in 0..clock + 1
               PROVE  passed - at'[a] + tokens' <= Burst + Rate * (clock + 1 - a)
    BY <2>1 DEF TokensWithin
  <2>2. CASE a = clock + 1
    <3>1. at'[a] = passed /\ passed \in Nat
      BY <1>0, <1>3, <2>1, <2>2 DEF Tick, Types
    <3>2. Rate * (clock + 1 - a) = 0
      <4>1. clock + 1 - a = 0
        BY <2>1, <2>2
      <4>2. Rate * 0 = 0
        OBVIOUS
      <4>3. QED
        BY <4>1, <4>2
    <3>3. passed - at'[a] + tokens' = tokens'
      <4>1. \A x, t \in Nat : passed = x => passed - x + t = t
        BY <3>1
      <4>2. QED
        BY <2>1, <3>1, <4>1, Zenon
    <3>4. Burst + Rate * (clock + 1 - a) = Burst
      BY <3>2
    <3>5. QED
      BY <2>1, <3>3, <3>4
  <2>3. CASE a \in 0..clock
    <3>1. at'[a] = at[a] /\ at[a] \in Nat /\ passed \in Nat /\ tokens \in Nat
      <4>1. at \in [0..MaxClock -> Nat] /\ at' = [at EXCEPT ![clock + 1] = passed]
            /\ passed \in Nat /\ tokens \in Nat
        BY <1>0, <1>3 DEF Tick, Types
      <4>2. a \in 0..MaxClock /\ a # clock + 1
        BY <2>1, <2>3
      <4>3. QED
        BY <4>1, <4>2
    <3>2. passed - at[a] + tokens <= Burst + Rate * (clock - a)
      BY <1>0, <2>3 DEF TokensWithin
    <3>3. \A k \in Int : Rate * (k + 1) = Rate * k + Rate
      OBVIOUS
    <3>4. Rate * (clock + 1 - a) = Rate * (clock - a) + Rate /\ Rate * (clock - a) \in Int
      <4>1. clock - a \in Int /\ clock + 1 - a = (clock - a) + 1
        BY <2>1, <2>3
      <4>2. Rate * ((clock - a) + 1) = Rate * (clock - a) + Rate
        BY <3>3, <4>1
      <4>3. Rate * (clock - a) \in Int
        BY <4>1
      <4>4. QED
        BY <4>1, <4>2, <4>3
    <3>5. QED
      BY <2>1, <3>1, <3>2, <3>4
  <2>4. QED
    BY <2>1, <2>2, <2>3
<1>4. CASE Restart
  <2> SUFFICES ASSUME NEW a \in 0..clock PROVE 0 - 0 + Burst <= Burst + Rate * (clock - a)
    BY <1>0, <1>4 DEF Restart, Full, TokensWithin, Types
  <2>1. clock - a \in Nat
    BY <1>0 DEF Types
  <2>2. Rate * (clock - a) \in Nat
    BY <2>1
  <2>3. QED
    BY <2>2
<1>5. ASSUME UNCHANGED limiter PROVE TokensWithin'
  BY <1>0, <1>5 DEF TokensWithin, limiter
<1>6. QED
  BY <1>2, <1>3, <1>4, <1>5
     DEF Next, Step, IsBlocked, Suspicious, Refuse, AnswerEarly, PassRules, AnswerWithoutStore,
         Handle, Execute, StatementFails, Respond, Acquire, ContextDone, Arrive, EngineAcquires,
         EngineReleases, vars

\* Each step keeps whoever was blocked at its arrival before the block list.
LEMMA StepDue ==
  ASSUME IInv, [Next]_vars
  PROVE  DueBlocked'
<1>0. Types /\ DueBlocked
  BY TypeParts DEF IInv
<1>1. ASSUME NEW r \in Slot, End(r), UNCHANGED blocked PROVE DueBlocked'
  BY <1>0, <1>1 DEF End, DueBlocked, Types
<1>2. ASSUME NEW r \in Slot, ~due[r], UNCHANGED <<blocked, addr, due>>,
             \A s \in Slot \ {r} : pc'[s] = pc[s]
      PROVE  DueBlocked'
  BY <1>0, <1>2 DEF DueBlocked
<1>3. ASSUME NEW r \in Slot, IsBlocked(r) PROVE DueBlocked'
  <2>1. CASE End(r)
    BY <1>1, <1>3, <2>1 DEF IsBlocked, store
  <2>2. CASE GoTo(r, "rules") /\ addr[r] \notin blocked
    <3>1. ~due[r]
      BY <1>0, <2>2 DEF DueBlocked
    <3>2. QED
      BY <1>0, <1>2, <1>3, <2>2, <3>1 DEF IsBlocked, GoTo, store, Types
  <2>3. CASE due' = [due EXCEPT ![r] = FALSE] /\ pc' = [pc EXCEPT ![r] = "rules"] /\ addr' = addr
    BY <1>0, <1>3, <2>3 DEF IsBlocked, store, DueBlocked, Types
  <2>4. QED
    BY <1>3, <2>1, <2>2, <2>3 DEF IsBlocked
<1>4. ASSUME NEW r \in Slot,
             Suspicious(r) \/ PassRules(r) \/ Allow(r) \/ \E route \in Route : Handle(r, route)
      PROVE  DueBlocked'
  <2>1. ~due[r]
    BY <1>0, <1>4 DEF Suspicious, PassRules, Allow, Handle, DueBlocked
  <2>2. CASE End(r)
    BY <1>1, <1>4, <2>2 DEF Suspicious, PassRules, Allow, Handle, store
  <2>3. CASE ~End(r)
    <3>1. UNCHANGED <<blocked, addr, due>> /\ \E point : pc' = [pc EXCEPT ![r] = point]
      BY <1>4, <2>3 DEF Suspicious, PassRules, Allow, Handle, GoTo, store
    <3>2. QED
      BY <1>0, <1>2, <2>1, <3>1 DEF Types
  <2>4. QED
    BY <2>2, <2>3
<1>5. ASSUME NEW r \in Slot, Refuse(r) \/ AnswerEarly(r) \/ AnswerWithoutStore(r) \/ Respond(r)
      PROVE  DueBlocked'
  BY <1>1, <1>5 DEF Refuse, AnswerEarly, AnswerWithoutStore, Respond, store
<1>6. ASSUME NEW r \in Slot, Execute(r) PROVE DueBlocked'
  <2>1. pc' = pc /\ addr' = addr
    BY <1>6 DEF Execute, Continue
  <2>2. CASE BlockIP(r)
    BY <1>0, <2>1, <2>2 DEF BlockIP, DueBlocked
  <2>3. CASE UnblockIP(r)
    BY <1>0, <2>1, <2>3 DEF UnblockIP, Unblocked, DueBlocked
  <2>4. CASE UNCHANGED <<blocked, due>>
    BY <1>0, <2>1, <2>4 DEF DueBlocked
  <2>5. QED
    BY <1>6, <2>2, <2>3, <2>4 DEF Execute, Effect, store
<1>7. ASSUME NEW r \in Slot, NEW a \in Address, Arrive(r, a) PROVE DueBlocked'
  BY <1>0, <1>7 DEF Arrive, DueBlocked, Types, store
<1>8. CASE Restart
  BY <1>8 DEF Restart, DueBlocked
<1>9. ASSUME UNCHANGED <<blocked, pc, addr, due>> PROVE DueBlocked'
  BY <1>0, <1>9 DEF DueBlocked
<1>10. QED
  BY <1>3, <1>4, <1>5, <1>6, <1>7, <1>8, <1>9
     DEF Next, Step, StatementFails, Continue, Acquire, ContextDone, EngineAcquires, EngineReleases,
         Tick, vars, service, store

\* The invariant holds at the start.
LEMMA InitIInv == Init => IInv
<1> USE ConstantsAssumption DEF ConstantsAssumption
<1> SUFFICES ASSUME Init PROVE IInv
  OBVIOUS
<1>1. Types
  <2>1. done \in [Slot -> BOOLEAN] /\ due \in [Slot -> BOOLEAN]
    BY DEF Init
  <2>2. pc \in [Slot -> Point] /\ addr \in [Slot -> Address \cup {Nobody}]
        /\ todo \in [Slot -> Seq(Statement)]
    BY DEF Init, Point
  <2>3. QED
    BY <2>1, <2>2 DEF Init, Types, Full
<1>2. Connection
  BY DEF Init, Connection
<1>3. WorkRemains /\ DueBlocked
  BY DEF Init, WorkRemains, Remaining, DueBlocked
<1>4. TokensWithin
  <2> SUFFICES ASSUME NEW a \in 0..0 PROVE 0 - 0 + Burst <= Burst + Rate * (0 - a)
    BY DEF Init, TokensWithin, Full
  <2>1. a = 0 /\ Rate * 0 = 0
    OBVIOUS
  <2>2. Rate * (0 - a) = 0
    BY <2>1
  <2>3. QED
    BY <2>2
<1>5. QED
  BY <1>1, <1>2, <1>3, <1>4, TypeParts DEF IInv

\* IInv is an invariant.
LEMMA Inductive == Spec => []IInv
<1>1. IInv /\ [Next]_vars => IInv'
  BY StepTypes, StepConnection, StepWork, StepTokens, StepDue DEF IInv, TypeOK, Types,
     Connection, Point, AtStatement
<1>2. QED
  BY <1>1, InitIInv, PTL DEF Spec

-----------------------------------------------------------------------------
(* The alerts that are owed.                                               *)

Owes(r) == pc[r] = "refuse" \/ todo[r] = <<"AlertBlocked">>

\* A request that begins to owe an alert, or no longer does, counts for one.
LEMMA OwingCounts ==
  ASSUME NEW r \in Slot, \A s \in Slot \ {r} : pc'[s] = pc[s] /\ todo'[s] = todo[s]
  PROVE  /\ Cardinality(Owing) \in Nat /\ Cardinality(Owing)' \in Nat
         /\ (Owes(r) <=> Owes(r)') => Cardinality(Owing)' = Cardinality(Owing)
         /\ ~Owes(r) /\ Owes(r)' => Cardinality(Owing)' = Cardinality(Owing) + 1
         /\ Owes(r) /\ ~Owes(r)' => Cardinality(Owing) = Cardinality(Owing)' + 1
<1>1. IsFiniteSet(Slot) /\ Owing \subseteq Slot /\ Owing' \subseteq Slot
  BY ConstantsAssumption DEF ConstantsAssumption, Owing
<1>2. IsFiniteSet(Owing) /\ IsFiniteSet(Owing')
  BY <1>1, FS_Subset
<1>3. Cardinality(Owing) \in Nat /\ Cardinality(Owing') \in Nat
  BY <1>2, FS_CardinalityType
<1>4. (Owes(r) <=> r \in Owing) /\ (Owes(r)' <=> r \in Owing')
  BY DEF Owing, Owes
<1>5. \A s \in Slot \ {r} : s \in Owing' <=> s \in Owing
  BY DEF Owing
<1>6. (Owes(r) <=> Owes(r)') => Owing' = Owing
  BY <1>1, <1>4, <1>5
<1>7. ~Owes(r) /\ Owes(r)' => r \notin Owing /\ Owing' = Owing \cup {r}
  BY <1>1, <1>4, <1>5
<1>8. Owes(r) /\ ~Owes(r)' => r \notin Owing' /\ Owing = Owing' \cup {r}
  BY <1>1, <1>4, <1>5
<1>9. \A S, x : IsFiniteSet(S) /\ x \notin S => Cardinality(S \cup {x}) = Cardinality(S) + 1
  BY FS_AddElement
<1>10. QED
  BY <1>2, <1>3, <1>6, <1>7, <1>8, <1>9

\* Requests whose context is done and whose handler is not through: the alert they owe, or come to
\* owe, will be lost.
Doomed == {r \in Slot : done[r] /\ ~(pc[r] = "work" /\ todo[r] = <<>>)}

\* The alerts lost, and those that the doomed requests may still lose.
LossBounded ==
  events + Cardinality(Doomed) <= alerts + Cardinality(Owing) + faults * Cardinality(Slot)

Account == alerts + Cardinality(Owing) <= events /\ LossBounded

\* Fewer requests are doomed, by one at least when one of them is not any more.
LEMMA DoomedCounts ==
  ASSUME Doomed' \subseteq Doomed
  PROVE  /\ Cardinality(Doomed) \in Nat /\ Cardinality(Doomed)' \in Nat
         /\ Cardinality(Doomed)' <= Cardinality(Doomed)
         /\ \A r \in Doomed \ Doomed' : Cardinality(Doomed)' + 1 <= Cardinality(Doomed)
<1>1. IsFiniteSet(Doomed)
  BY ConstantsAssumption, FS_Subset DEF ConstantsAssumption, Doomed
<1>2. /\ Cardinality(Doomed) \in Nat /\ Cardinality(Doomed') \in Nat
      /\ Cardinality(Doomed') <= Cardinality(Doomed)
  BY <1>1, FS_Subset, FS_CardinalityType
<1>3. ASSUME NEW r \in Doomed, r \notin Doomed'
      PROVE  Cardinality(Doomed') + 1 <= Cardinality(Doomed)
  <2>1. IsFiniteSet(Doomed \ {r}) /\ Cardinality(Doomed \ {r}) = Cardinality(Doomed) - 1
    BY <1>1, FS_RemoveElement
  <2>2. Cardinality(Doomed') <= Cardinality(Doomed \ {r})
    BY <1>3, <2>1, FS_Subset
  <2>3. QED
    BY <1>2, <2>1, <2>2
<1>4. QED
  BY <1>2, <1>3

\* No step of a request dooms it or another; the end of its context does.
LEMMA StepDoomed ==
  ASSUME IInv, NEW r \in Slot, Step(r) \/ \E a \in Address : Arrive(r, a)
  PROVE  Doomed' \subseteq Doomed
<1>0. Types
  BY TypeParts DEF IInv
<1>1. \A s \in Slot \ {r} : pc'[s] = pc[s] /\ todo'[s] = todo[s] /\ done'[s] = done[s]
  BY <1>0 DEF Step, IsBlocked, Suspicious, Refuse, AnswerEarly, PassRules, Allow,
     AnswerWithoutStore, Handle, Execute, StatementFails, Respond, Continue, Arrive, End, GoTo, Types
<1>2. ASSUME End(r) PROVE ~done'[r]
  BY <1>0, <1>2 DEF End, Types
<1>3. End(r) \/ (done' = done /\ ~(pc[r] = "work" /\ todo[r] = <<>>))
  BY DEF Step, IsBlocked, Suspicious, Refuse, AnswerEarly, PassRules, Allow,
     AnswerWithoutStore, Handle, Execute, StatementFails, Respond, Continue, Arrive, GoTo
<1>4. QED
  BY <1>1, <1>2, <1>3 DEF Doomed

\* One fault more allows for one more loss by every request in service.
LEMMA OneMore ==
  ASSUME NEW n \in Nat, NEW k \in Nat
  PROVE  n * k \in Nat /\ (n + 1) * k = n * k + k
OBVIOUS

\* Each step keeps the account of the alerts.
LEMMA StepAlerts ==
  ASSUME IInv, Account, [Next]_vars
  PROVE  Account'
<1> DEFINE owed == Cardinality(Owing)
           doomed == Cardinality(Doomed)
           k == Cardinality(Slot)
           allowed == faults * k
           owedThen == Cardinality(Owing')
           doomedThen == Cardinality(Doomed')
           allowedThen == faults' * k
<1> USE ConstantsAssumption DEF ConstantsAssumption
<1>0. Types /\ WorkRemains
  BY TypeParts DEF IInv
<1>1. alerts \in Nat /\ events \in Nat /\ faults \in Nat
  BY <1>0 DEF Types
<1>a. /\ IsFiniteSet(Slot) /\ k \in Nat /\ allowed \in Nat
      /\ faults' = faults => allowedThen = allowed
      /\ faults' = faults + 1 => allowedThen = allowed + k
  BY <1>1, FS_CardinalityType, OneMore
<1>b. ASSUME NEW r \in Slot PROVE k >= 1
  BY <1>a, FS_EmptySet
<1>2. alerts + owed <= events /\ events + doomed <= alerts + owed + allowed
  BY DEF Account, LossBounded
<1>d. allowed \in Nat /\ k \in Nat
  BY <1>a
<1>3. ASSUME NEW r \in Slot, ~Owes(r), ~Owes(r)', UNCHANGED <<alerts, events>>,
             faults' = faults \/ faults' = faults + 1, Doomed' \subseteq Doomed,
             \A s \in Slot \ {r} : pc'[s] = pc[s] /\ todo'[s] = todo[s]
      PROVE  Account'
  <2>1. owedThen = owed /\ owed \in Nat
    BY <1>3, OwingCounts
  <2>2. doomed \in Nat /\ doomedThen \in Nat /\ doomedThen <= doomed
    BY <1>3, DoomedCounts
  <2>3. alerts' = alerts /\ events' = events /\ (allowedThen = allowed \/ allowedThen = allowed + k)
    BY <1>3, <1>a
  <2> HIDE DEF owed, doomed, k, allowed, owedThen, doomedThen, allowedThen
  <2>4. alerts' + owedThen <= events' /\ events' + doomedThen <= alerts' + owedThen + allowedThen
    BY <1>1, <1>2, <1>d, <2>1, <2>2, <2>3
  <2>5. QED
    BY <2>4 DEF Account, LossBounded, owedThen, doomedThen, k, allowedThen
<1>4. ASSUME NEW r \in Slot, ~Owes(r), Owes(r)', alerts' = alerts, events' = events + 1,
             faults' = faults, Doomed' \subseteq Doomed,
             \A s \in Slot \ {r} : pc'[s] = pc[s] /\ todo'[s] = todo[s]
      PROVE  Account'
  <2>1. owedThen = owed + 1 /\ owed \in Nat
    BY <1>4, OwingCounts
  <2>2. doomed \in Nat /\ doomedThen \in Nat /\ doomedThen <= doomed
    BY <1>4, DoomedCounts
  <2>3. alerts' = alerts /\ events' = events + 1 /\ allowedThen = allowed
    BY <1>4, <1>a
  <2> HIDE DEF owed, doomed, k, allowed, owedThen, doomedThen, allowedThen
  <2>4. alerts' + owedThen <= events' /\ events' + doomedThen <= alerts' + owedThen + allowedThen
    BY <1>1, <1>2, <1>d, <2>1, <2>2, <2>3
  <2>5. QED
    BY <2>4 DEF Account, LossBounded, owedThen, doomedThen, k, allowedThen
<1>5. ASSUME NEW r \in Slot, Owes(r), ~Owes(r)', events' = events, Doomed' \subseteq Doomed,
             \/ alerts' = alerts + 1 /\ faults' = faults
             \/ alerts' = alerts /\ faults' = faults + 1
             \/ alerts' = alerts /\ faults' = faults /\ r \in Doomed \ Doomed',
             \A s \in Slot \ {r} : pc'[s] = pc[s] /\ todo'[s] = todo[s]
      PROVE  Account'
  <2>1. owed = owedThen + 1 /\ owedThen \in Nat
    BY <1>5, OwingCounts
  <2>2. doomed \in Nat /\ doomedThen \in Nat /\ doomedThen <= doomed /\ events' = events
    BY <1>5, DoomedCounts
  <2>3. \/ alerts' = alerts + 1 /\ allowedThen = allowed
        \/ alerts' = alerts /\ allowedThen = allowed + k /\ k >= 1
        \/ alerts' = alerts /\ allowedThen = allowed /\ doomedThen + 1 <= doomed
    BY <1>5, <1>a, <1>b, DoomedCounts
  <2> HIDE DEF owed, doomed, k, allowed, owedThen, doomedThen, allowedThen
  <2>4. alerts' + owedThen <= events' /\ events' + doomedThen <= alerts' + owedThen + allowedThen
    BY <1>1, <1>2, <1>d, <2>1, <2>2, <2>3
  <2>5. QED
    BY <2>4 DEF Account, LossBounded, owedThen, doomedThen, k, allowedThen
<1>c. ASSUME NEW r \in Slot, Step(r) \/ \E a \in Address : Arrive(r, a)
      PROVE  Doomed' \subseteq Doomed
  BY <1>c, StepDoomed
<1>6. ASSUME NEW r \in Slot, End(r) \/ \E point : GoTo(r, point)
      PROVE  \A s \in Slot \ {r} : pc'[s] = pc[s] /\ todo'[s] = todo[s]
  BY <1>0, <1>6 DEF End, GoTo, Types
<1>7. <<>> # <<"AlertBlocked">>
  OBVIOUS
<1>8. ASSUME NEW r \in Slot, End(r) PROVE ~Owes(r)'
  <2>1. pc'[r] = "none" /\ todo'[r] = <<>>
    BY <1>0, <1>8 DEF End, Types
  <2>2. QED
    BY <1>7, <2>1 DEF Owes
<1>9. ASSUME NEW r \in Slot, Fails(r)
      PROVE  faults' = faults + 1 \/ (faults' = faults /\ WithContext(r) /\ done[r])
  BY <1>9 DEF Fails, Fault
<1>10. ASSUME NEW r \in Slot, IsBlocked(r) PROVE Account'
  <2>1. ~Owes(r) /\ UNCHANGED <<alerts, events>>
    BY <1>0, <1>7, <1>10 DEF IsBlocked, WorkRemains, Owes, store
  <2>2. faults' = faults \/ faults' = faults + 1
    BY <1>9, <1>10 DEF IsBlocked, Succeeds
  <2>3. /\ \A s \in Slot \ {r} : pc'[s] = pc[s] /\ todo'[s] = todo[s]
        /\ ~Owes(r)'
    <3>1. CASE End(r)
      BY <1>6, <1>8, <3>1
    <3>2. CASE ~End(r)
      <4>1. pc' = [pc EXCEPT ![r] = "rules"] /\ todo' = todo /\ todo[r] = <<>>
        BY <1>0, <1>10, <3>2 DEF IsBlocked, GoTo, WorkRemains
      <4>2. QED
        BY <1>0, <1>7, <4>1 DEF Types, Owes
    <3>3. QED
      BY <3>1, <3>2
  <2>4. QED
    BY <1>3, <1>c, <1>10, <2>1, <2>2, <2>3 DEF Step
<1>11. ASSUME NEW r \in Slot, Suspicious(r) PROVE Account'
  <2>1. ~Owes(r) /\ pc'[r] = "refuse"
    <3>1. pc[r] = "rules" /\ todo[r] = <<>>
      BY <1>0, <1>11 DEF Suspicious, WorkRemains
    <3>2. pc'[r] = "refuse"
      BY <1>0, <1>11 DEF Suspicious, GoTo, Types
    <3>3. QED
      BY <1>7, <3>1, <3>2 DEF Owes
  <2>2. Owes(r)'
    BY <2>1 DEF Owes
  <2>3. \A s \in Slot \ {r} : pc'[s] = pc[s] /\ todo'[s] = todo[s]
    BY <1>6, <1>11 DEF Suspicious
  <2>4. QED
    BY <1>4, <1>c, <1>11, <2>1, <2>2, <2>3 DEF Step, Suspicious, store, bounds
<1>12. ASSUME NEW r \in Slot, Refuse(r) PROVE Account'
  <2>1. Owes(r) /\ ~Owes(r)' /\ events' = events /\ Doomed' \subseteq Doomed
    BY <1>8, <1>c, <1>12 DEF Refuse, Owes, Step
  <2>2. pc[r] = "refuse" /\ ~done'[r]
    BY <1>0, <1>12 DEF Refuse, End, Types
  <2>3. \/ alerts' = alerts + 1 /\ faults' = faults
        \/ alerts' = alerts /\ faults' = faults + 1
        \/ alerts' = alerts /\ faults' = faults /\ r \in Doomed \ Doomed'
    BY <1>9, <1>12, <2>2 DEF Refuse, Succeeds, InsertAlert, Doomed
  <2>4. \A s \in Slot \ {r} : pc'[s] = pc[s] /\ todo'[s] = todo[s]
    BY <1>6, <1>12 DEF Refuse
  <2>5. QED
    BY <1>5, <2>1, <2>3, <2>4
<1>13. ASSUME NEW r \in Slot,
              AnswerEarly(r) \/ PassRules(r) \/ Allow(r) \/ AnswerWithoutStore(r) \/ Respond(r)
       PROVE  Account'
  <2>1. pc[r] # "refuse" /\ todo[r] = <<>>
    BY <1>0, <1>13 DEF AnswerEarly, PassRules, Allow, AnswerWithoutStore, Respond, WorkRemains
  <2>2. ~Owes(r) /\ UNCHANGED <<alerts, events, faults>>
    BY <1>7, <1>13, <2>1 DEF AnswerEarly, PassRules, Allow, AnswerWithoutStore, Respond, Owes,
       store, bounds
  <2>3. CASE End(r)
    BY <1>3, <1>6, <1>8, <1>c, <1>13, <2>2, <2>3 DEF Step
  <2>4. CASE ~End(r)
    <3>1. GoTo(r, "limit") \/ GoTo(r, "auth")
      BY <1>13, <2>4 DEF AnswerEarly, PassRules, Allow, AnswerWithoutStore, Respond
    <3>2. pc'[r] \in {"limit", "auth"} /\ todo'[r] = <<>>
      BY <1>0, <2>1, <3>1 DEF GoTo, Types
    <3>3. ~Owes(r)'
      BY <1>7, <3>2 DEF Owes
    <3>4. QED
      BY <1>3, <1>6, <1>c, <1>13, <2>2, <3>1, <3>3 DEF Step
  <2>5. QED
    BY <2>3, <2>4
<1>14. ASSUME NEW r \in Slot, NEW route \in Route, Handle(r, route) PROVE Account'
  <2>1. ~Owes(r) /\ UNCHANGED <<alerts, events, faults>>
    BY <1>0, <1>7, <1>14 DEF Handle, WorkRemains, Owes, store, bounds
  <2>2. pc'[r] = "work" /\ todo'[r] = Statements[route]
    BY <1>0, <1>14 DEF Handle, Types
  <2>3. ~Owes(r)'
    BY <2>2, StatementsTyped DEF Owes
  <2>4. \A s \in Slot \ {r} : pc'[s] = pc[s] /\ todo'[s] = todo[s]
    BY <1>0, <1>14 DEF Handle, Types
  <2>5. QED
    BY <1>3, <1>c, <1>14, <2>1, <2>3, <2>4 DEF Step
<1>15. ASSUME NEW r \in Slot, NEW a \in Address, Arrive(r, a) PROVE Account'
  <2>1. ~Owes(r) /\ todo'[r] = <<>> /\ UNCHANGED <<alerts, events, faults>>
    BY <1>0, <1>7, <1>15 DEF Arrive, WorkRemains, Owes, store
  <2>2. /\ pc'[r] = "check"
        /\ \A s \in Slot \ {r} : pc'[s] = pc[s] /\ todo'[s] = todo[s]
    BY <1>0, <1>15 DEF Arrive, Types
  <2>3. ~Owes(r)'
    BY <1>7, <2>1, <2>2 DEF Owes
  <2>4. QED
    BY <1>3, <1>c, <1>15, <2>1, <2>2, <2>3
<1>16. ASSUME NEW r \in Slot, Execute(r) PROVE Account'
  <2>1. /\ todo[r] \in Seq(Statement) /\ todo[r] # <<>> /\ Remaining(todo[r])
        /\ pc[r] = "work" /\ pc' = pc /\ todo' = [todo EXCEPT ![r] = Tail(todo[r])]
        /\ faults' = faults /\ Doomed' \subseteq Doomed
    BY <1>0, <1>c, <1>16 DEF Step, Execute, Continue, Succeeds, Types, WorkRemains
  <2>2. \A s \in Slot \ {r} : pc'[s] = pc[s] /\ todo'[s] = todo[s]
    BY <1>0, <2>1 DEF Types
  <2>3. (Owes(r) <=> todo[r] = <<"AlertBlocked">>) /\ (Owes(r)' <=> Tail(todo[r]) = <<"AlertBlocked">>)
    BY <1>0, <2>1 DEF Owes, Types
  <2>4. CASE Head(todo[r]) = "BlockIP"
    <3>1. Tail(todo[r]) = <<"AlertBlocked">>
      BY <2>1, <2>4, RestRemains
    <3>2. Head(<<"AlertBlocked">>) # "BlockIP"
      OBVIOUS
    <3>3. ~Owes(r) /\ Owes(r)'
      BY <2>3, <2>4, <3>1, <3>2
    <3>4. events' = events + 1 /\ alerts' = alerts
      BY <1>16, <2>4 DEF Execute, Effect, BlockIP
    <3>5. QED
      BY <1>4, <2>1, <2>2, <3>3, <3>4
  <2>5. CASE Head(todo[r]) = "AlertBlocked"
    <3>1. todo[r] = <<"AlertBlocked">>
      BY <2>1, <2>5, RestRemains
    <3>2. Tail(todo[r]) # <<"AlertBlocked">>
      BY <2>1, <2>5, RestRemains
    <3>3. Owes(r) /\ ~Owes(r)'
      BY <2>3, <3>1, <3>2
    <3>4. events' = events /\ alerts' = alerts + 1
      BY <1>16, <2>5 DEF Execute, Effect, InsertAlert
    <3>5. QED
      BY <1>5, <2>1, <2>2, <3>3, <3>4
  <2>6. CASE Head(todo[r]) \notin {"BlockIP", "AlertBlocked"}
    <3>1. Tail(todo[r]) # <<"AlertBlocked">>
      BY <2>1, <2>6, RestRemains
    <3>2. Head(<<"AlertBlocked">>) = "AlertBlocked"
      OBVIOUS
    <3>3. ~Owes(r) /\ ~Owes(r)'
      BY <2>3, <2>6, <3>1, <3>2
    <3>4. events' = events /\ alerts' = alerts
      BY <1>16, <2>6 DEF Execute, Effect, UnblockIP, store
    <3>5. QED
      BY <1>3, <2>1, <2>2, <3>3, <3>4
  <2>7. QED
    BY <2>4, <2>5, <2>6
<1>17. ASSUME NEW r \in Slot, StatementFails(r) PROVE Account'
  <2>1. /\ todo[r] \in Seq(Statement) /\ todo[r] # <<>> /\ Remaining(todo[r])
        /\ pc[r] = "work" /\ pc' = pc /\ todo' = [todo EXCEPT ![r] = AfterError(todo[r])]
        /\ UNCHANGED <<alerts, events>> /\ Doomed' \subseteq Doomed
    BY <1>0, <1>c, <1>17 DEF Step, StatementFails, Continue, Types, WorkRemains, store
  <2>2. \A s \in Slot \ {r} : pc'[s] = pc[s] /\ todo'[s] = todo[s]
    BY <1>0, <2>1 DEF Types
  <2>3. AfterError(todo[r]) # <<"AlertBlocked">>
    BY <2>1, RestRemains
  <2>4. pc'[r] = "work" /\ todo'[r] = AfterError(todo[r])
    BY <1>0, <2>1 DEF Types
  <2>5. ~Owes(r)'
    BY <2>3, <2>4 DEF Owes
  <2>6. faults' = faults + 1 \/ (faults' = faults /\ WithContext(r) /\ done[r])
    BY <1>9, <1>17 DEF StatementFails
  <2>7. CASE Owes(r)
    <3>1. todo[r] = <<"AlertBlocked">>
      BY <2>1, <2>7 DEF Owes
    <3>2. AfterError(<<"AlertBlocked">>) = <<>>
      BY DEF AfterError, ErrorDropped
    <3>3. faults' = faults => r \in Doomed \ Doomed'
      BY <1>1, <2>1, <2>4, <2>6, <3>1, <3>2 DEF Doomed
    <3>4. QED
      BY <1>1, <1>5, <2>1, <2>2, <2>5, <2>6, <2>7, <3>3
  <2>8. CASE ~Owes(r)
    BY <1>3, <2>1, <2>2, <2>5, <2>6, <2>8
  <2>9. QED
    BY <2>7, <2>8
<1>18. CASE Restart
  <2>1. /\ Owing' = {} /\ Doomed' = {}
        /\ alerts' = alerts /\ events' = events /\ faults' = faults + 1
    BY <1>7, <1>18 DEF Restart, Owing, Doomed, Fault, store
  <2>2. owedThen = 0 /\ doomedThen = 0 /\ alerts' = alerts /\ events' = events /\ allowedThen = allowed + k
    BY <1>a, <2>1, FS_EmptySet
  <2>3. owed \in Nat /\ owed <= k /\ doomed \in Nat
    <3>1. IsFiniteSet(Slot) /\ Owing \subseteq Slot /\ Doomed \subseteq Slot
      BY DEF Owing, Doomed
    <3>2. QED
      BY <3>1, FS_Subset, FS_CardinalityType
  <2> HIDE DEF owed, doomed, k, allowed, owedThen, doomedThen, allowedThen
  <2>4. alerts' + owedThen <= events' /\ events' + doomedThen <= alerts' + owedThen + allowedThen
    BY <1>1, <1>2, <1>d, <2>2, <2>3
  <2>5. QED
    BY <2>4 DEF Account, LossBounded, owedThen, doomedThen, k, allowedThen
<1>19. CASE \E r \in Slot : ContextDone(r)
  <2>1. PICK r \in Slot : ContextDone(r)
    BY <1>19
  <2>2. /\ Owing' = Owing /\ Doomed' \subseteq Doomed \cup {r}
        /\ alerts' = alerts /\ events' = events /\ faults' = faults + 1
    BY <1>0, <2>1 DEF ContextDone, Owing, Doomed, Fault, Types, store
  <2>3. doomed \in Nat /\ doomedThen \in Nat /\ doomedThen <= doomed + 1 /\ owed \in Nat /\ k >= 1
    <3>1. IsFiniteSet(Owing) /\ IsFiniteSet(Doomed)
      BY <1>a, FS_Subset DEF Owing, Doomed
    <3>2. /\ IsFiniteSet(Doomed \cup {r})
          /\ Cardinality(Doomed \cup {r}) \in {doomed, doomed + 1}
      BY <3>1, FS_AddElement
    <3>3. Cardinality(Doomed') <= Cardinality(Doomed \cup {r})
      BY <2>2, <3>2, FS_Subset
    <3>4. doomedThen \in Nat /\ doomed \in Nat /\ owed \in Nat
      BY <2>2, <3>1, <3>2, FS_Subset, FS_CardinalityType
    <3>5. k >= 1
      BY <1>b
    <3>6. QED
      BY <3>2, <3>3, <3>4, <3>5
  <2>4. owedThen = owed /\ alerts' = alerts /\ events' = events /\ allowedThen = allowed + k
    BY <1>a, <2>2
  <2> HIDE DEF owed, doomed, k, allowed, owedThen, doomedThen, allowedThen
  <2>5. alerts' + owedThen <= events' /\ events' + doomedThen <= alerts' + owedThen + allowedThen
    BY <1>1, <1>2, <1>d, <2>3, <2>4
  <2>6. QED
    BY <2>5 DEF Account, LossBounded, owedThen, doomedThen, k, allowedThen
<1>20. ASSUME UNCHANGED <<pc, todo, done, alerts, events, faults>>
       PROVE  Account'
  <2>1. Owing' = Owing /\ Doomed' = Doomed
    BY <1>20 DEF Owing, Doomed
  <2>2. QED
    BY <1>2, <1>20, <2>1 DEF Account, LossBounded
<1>21. ASSUME \/ \E r \in Slot : Acquire(r)
              \/ EngineAcquires \/ EngineReleases \/ Tick \/ UNCHANGED vars
       PROVE  Account'
  BY <1>20, <1>21 DEF Acquire, EngineAcquires, EngineReleases, Tick, vars, store, service, bounds
<1>22. QED
  BY <1>10, <1>11, <1>12, <1>13, <1>14, <1>15, <1>16, <1>17, <1>18, <1>19, <1>21 DEF Next, Step

-----------------------------------------------------------------------------
(* The theorems.                                                           *)

\* Whatever the requests, the engine and the faults do, the state has its shape and the one
\* connection belongs to whoever was given it.
THEOREM TypeCorrect == Spec => []TypeOK
<1>1. IInv => TypeOK
  BY DEF IInv
<1>2. QED
  BY <1>1, Inductive, PTL

\* A request of a blocked address stops at the block list, under every interleaving.
THEOREM BlockKeepsOut == Spec => []BlockHolds
<1>1. IInv => BlockHolds
  BY DEF IInv, DueBlocked, BlockHolds
<1>2. QED
  BY <1>1, Inductive, PTL

\* The limiter lets pass what it promises and no more, for every rate and every burst.
THEOREM RateBounded == Spec => []RateBound
<1>1. IInv => RateBound
  <2> SUFFICES ASSUME Types, TokensWithin, NEW a \in 0..clock
               PROVE  passed - at[a] <= Burst + Rate * (clock - a)
    BY TypeParts DEF IInv, RateBound
  <2>1. passed - at[a] + tokens <= Burst + Rate * (clock - a)
    BY DEF TokensWithin
  <2>2. passed \in Nat /\ at[a] \in Nat /\ tokens \in Nat /\ clock - a \in Int /\ Burst \in Nat
    BY ConstantsAssumption DEF Types, ConstantsAssumption
  <2>3. Rate * (clock - a) \in Int
    BY <2>2, ConstantsAssumption DEF ConstantsAssumption
  <2>4. QED
    BY <2>1, <2>2, <2>3
<1>2. QED
  BY <1>1, Inductive, PTL

\* No alert about a block or a suspicious request is written twice, and a fault loses those of the
\* requests in service at most.
THEOREM AlertsKept == Spec => []AlertsAccounted
<1>1. Init => Account
  <2> SUFFICES ASSUME Init PROVE Account
    OBVIOUS
  <2>1. <<>> # <<"AlertBlocked">>
    OBVIOUS
  <2>2. Owing = {} /\ Doomed = {}
    BY <2>1 DEF Init, Owing, Doomed
  <2>3. Cardinality(Owing) = 0 /\ Cardinality(Doomed) = 0
    BY <2>2, FS_EmptySet
  <2>4. Cardinality(Slot) \in Nat
    BY ConstantsAssumption, FS_CardinalityType DEF ConstantsAssumption
  <2>5. QED
    BY <2>3, <2>4 DEF Init, Account, LossBounded
<1>2. IInv /\ Account /\ [Next]_vars => Account'
  BY StepAlerts
<1>3. IInv /\ Account => AlertsAccounted
  <2> SUFFICES ASSUME IInv, Account PROVE AlertsAccounted
    OBVIOUS
  <2>1. Cardinality(Doomed) \in Nat /\ Cardinality(Owing) \in Nat /\ Cardinality(Slot) \in Nat
    <3>1. IsFiniteSet(Slot) /\ Owing \subseteq Slot /\ Doomed \subseteq Slot
      BY ConstantsAssumption DEF ConstantsAssumption, Owing, Doomed
    <3>2. QED
      BY <3>1, FS_Subset, FS_CardinalityType
  <2>2. alerts \in Nat /\ events \in Nat /\ faults \in Nat
    BY TypeParts DEF IInv, Types
  <2>3. faults * Cardinality(Slot) \in Nat
    BY <2>1, <2>2, OneMore
  <2>4. QED
    BY <2>1, <2>2, <2>3 DEF Account, LossBounded, AlertsAccounted
<1>4. QED
  BY <1>1, <1>2, <1>3, Inductive, PTL DEF Spec
-----------------------------------------------------------------------------
(* Every request ends.                                                     *)

\* The steps a request may still need before it ends: a handler its statements and the response,
\* what comes before a handler more than any handler.
StepsLeft(r) ==
  CASE pc[r] = "none"   -> 0
    [] pc[r] = "refuse" -> 1
    [] pc[r] = "work"   -> Len(todo[r]) + 1
    [] pc[r] = "auth"   -> 9
    [] pc[r] = "limit"  -> 10
    [] pc[r] = "rules"  -> 11
    [] pc[r] = "check"  -> 12

\* No handler has more than seven statements.
LEMMA HandlersShort ==
  ASSUME NEW route \in Route
  PROVE  Len(Statements[route]) \in Nat /\ Len(Statements[route]) <= 7
<1>1. route \in {"overview", "summary", "read", "write", "bulk", "block", "unblock"}
  BY ConstantsAssumption DEF ConstantsAssumption, Statements
<1>2. /\ Len(Statements["overview"]) = 7 /\ Len(Statements["summary"]) = 3
      /\ Len(Statements["bulk"]) = 2 /\ Len(Statements["block"]) = 2
      /\ \A name \in {"read", "write", "unblock"} : Len(Statements[name]) = 1
  BY DEF Statements
<1>3. Len(Statements[route]) \in {1, 2, 3, 7}
  BY <1>1, <1>2, Zenon
<1>4. \A k \in {1, 2, 3, 7} : k \in Nat /\ k <= 7
  OBVIOUS
<1>5. QED
  BY <1>3, <1>4, Zenon

\* A request has a natural number of steps left, and none just when its slot is empty.
LEMMA StepsLeftNat ==
  ASSUME TypeOK, NEW r \in Slot
  PROVE  StepsLeft(r) \in Nat /\ (StepsLeft(r) = 0 <=> pc[r] = "none")
<1>1. pc[r] \in Point /\ Len(todo[r]) \in Nat
  BY DEF TypeOK, Point
<1>2. QED
  BY <1>1 DEF StepsLeft, Point

\* And so it is after a step.
LEMMA NextStepsLeftNat == ASSUME IInv', NEW r \in Slot PROVE StepsLeft(r)' \in Nat
<1>1. pc'[r] \in Point /\ Len(todo'[r]) \in Nat
  BY DEF IInv, TypeOK, Point
<1>2. QED
  BY <1>1 DEF StepsLeft, Point

\* An error leaves fewer statements than there were.
LEMMA AfterErrorShorter ==
  ASSUME NEW rest \in Seq(Statement), rest # <<>>
  PROVE  /\ Len(Tail(rest)) \in Nat /\ Len(Tail(rest)) < Len(rest)
         /\ Len(AfterError(rest)) \in Nat /\ Len(AfterError(rest)) < Len(rest)
  BY DEF AfterError

\* A step of a request leaves it fewer steps, and a statement it held gives the connection back.
LEMMA StepLowers ==
  ASSUME IInv, NEW r \in Slot, Step(r)
  PROVE  StepsLeft(r)' < StepsLeft(r) /\ (conn = r => conn' = Nobody)
<1> USE DEF IInv
<1>1. /\ pc \in [Slot -> Point] /\ todo[r] \in Seq(Statement) /\ pc[r] \in Point
      /\ todo \in [Slot -> Seq(Statement)]
      /\ (conn = r <=> r \in running) /\ (conn = r => AtStatement(r))
  BY DEF TypeOK, Point
<1>2. Len(todo[r]) \in Nat
  BY <1>1
<1>3. End(r) => pc'[r] = "none"
  BY <1>1 DEF End
<1>4. ASSUME NEW point, GoTo(r, point) PROVE pc'[r] = point
  BY <1>1, <1>4 DEF GoTo
<1>5. Succeeds(r) \/ Fails(r) => (conn = r => conn' = Nobody)
  BY <1>1 DEF Succeeds, Fails, Released
<1>6. CASE IsBlocked(r)
  <2>1. pc'[r] \in {"none", "rules"}
    BY <1>1, <1>3, <1>4, <1>6 DEF IsBlocked
  <2>2. QED
    BY <1>5, <1>6, <2>1 DEF IsBlocked, StepsLeft
<1>7. CASE Suspicious(r) \/ PassRules(r)
  BY <1>1, <1>4, <1>7 DEF Suspicious, PassRules, StepsLeft, AtStatement
<1>8. CASE Refuse(r)
  BY <1>3, <1>5, <1>8 DEF Refuse, StepsLeft
<1>9. CASE AnswerEarly(r) \/ AnswerWithoutStore(r)
  BY <1>1, <1>3, <1>9 DEF AnswerEarly, AnswerWithoutStore, StepsLeft, AtStatement
<1>10. CASE Allow(r)
  <2>1. pc'[r] \in {"none", "auth"}
    BY <1>3, <1>4, <1>10 DEF Allow
  <2>2. QED
    BY <1>1, <1>10, <2>1 DEF Allow, StepsLeft, AtStatement
<1>11. ASSUME NEW route \in Route, Handle(r, route)
       PROVE  StepsLeft(r)' < StepsLeft(r) /\ (conn = r => conn' = Nobody)
  <2>1. pc[r] = "auth" /\ pc'[r] = "work" /\ todo'[r] = Statements[route]
    BY <1>1, <1>11 DEF Handle
  <2>2. QED
    <3>1. Len(todo'[r]) \in Nat /\ Len(todo'[r]) <= 7
      BY <2>1, HandlersShort
    <3>2. StepsLeft(r) = 9 /\ StepsLeft(r)' = Len(todo'[r]) + 1
      BY <2>1 DEF StepsLeft
    <3>3. conn # r
      BY <1>1, <2>1 DEF AtStatement
    <3>4. QED
      BY <3>1, <3>2, <3>3
<1>12. CASE Execute(r) \/ StatementFails(r)
  <2>1. pc[r] = "work" /\ pc'[r] = "work" /\ todo[r] # <<>>
        /\ todo'[r] \in {Tail(todo[r]), AfterError(todo[r])}
    BY <1>1, <1>12 DEF Execute, StatementFails, Continue
  <2>2. QED
    <3>1. Len(todo'[r]) \in Nat /\ Len(todo'[r]) < Len(todo[r])
      BY <1>1, <2>1, AfterErrorShorter
    <3>2. conn = r => conn' = Nobody
      BY <1>5, <1>12 DEF Execute, StatementFails
    <3>3. QED
      BY <1>2, <2>1, <3>1, <3>2 DEF StepsLeft
<1>13. CASE Respond(r)
  BY <1>1, <1>2, <1>3, <1>13 DEF Respond, StepsLeft, AtStatement
<1>14. QED
  BY <1>6, <1>7, <1>8, <1>9, <1>10, <1>11, <1>12, <1>13 DEF Step

\* Whatever the others do, a request keeps its place and its statements, or the process is
\* started again and its slot is empty; its context stays done, and its statement keeps the
\* connection.  An empty slot stays empty until a request arrives.
LEMMA OthersKeep ==
  ASSUME IInv, [Next]_vars, NEW r \in Slot, ~Step(r)
  PROVE  \/ pc'[r] = "none"
         \/ pc[r] = "none" /\ pc'[r] = "check"
         \/ /\ pc'[r] = pc[r] /\ todo'[r] = todo[r]
            /\ (done[r] => done'[r]) /\ (r \in running => r \in running')
<1> USE DEF IInv
<1>1. /\ pc \in [Slot -> Point] /\ todo \in [Slot -> Seq(Statement)]
      /\ done \in [Slot -> BOOLEAN]
  BY DEF TypeOK, Point
<1> DEFINE Kept == /\ pc'[r] = pc[r] /\ todo'[r] = todo[r]
                   /\ (done[r] => done'[r]) /\ (r \in running => r \in running')
<1>2. ASSUME NEW s \in Slot, s # r, Step(s) PROVE Kept
  <2>1. ASSUME End(s) PROVE pc'[r] = pc[r] /\ todo'[r] = todo[r] /\ done'[r] = done[r]
    BY <1>1, <1>2, <2>1 DEF End
  <2>2. ASSUME NEW point, GoTo(s, point)
        PROVE  pc'[r] = pc[r] /\ todo'[r] = todo[r] /\ done'[r] = done[r]
    BY <1>1, <1>2, <2>2 DEF GoTo
  <2>3. ASSUME Succeeds(s) \/ Fails(s) PROVE r \in running => r \in running'
    BY <1>2, <2>3 DEF Succeeds, Fails
  <2>4. CASE IsBlocked(s)
    BY <1>1, <1>2, <2>1, <2>2, <2>3, <2>4 DEF IsBlocked
  <2>5. CASE Suspicious(s) \/ PassRules(s) \/ Allow(s)
    BY <2>1, <2>2, <2>5 DEF Suspicious, PassRules, Allow, pool
  <2>6. CASE Refuse(s)
    BY <2>1, <2>3, <2>6 DEF Refuse
  <2>7. CASE AnswerEarly(s) \/ AnswerWithoutStore(s) \/ Respond(s)
    BY <2>1, <2>7 DEF AnswerEarly, AnswerWithoutStore, Respond, pool
  <2>8. ASSUME NEW route \in Route, Handle(s, route) PROVE Kept
    BY <1>1, <1>2, <2>8 DEF Handle, pool
  <2>9. CASE Execute(s) \/ StatementFails(s)
    BY <1>1, <1>2, <2>3, <2>9 DEF Execute, StatementFails, Continue
  <2>10. QED
    BY <1>2, <2>4, <2>5, <2>6, <2>7, <2>8, <2>9 DEF Step
<1>3. ASSUME NEW s \in Slot, Acquire(s) \/ ContextDone(s) PROVE Kept
  BY <1>1, <1>3 DEF Acquire, ContextDone, service, pool
<1>4. ASSUME NEW s \in Slot, NEW a \in Address, Arrive(s, a)
      PROVE  (pc[r] = "none" /\ pc'[r] = "check") \/ Kept
  BY <1>1, <1>4 DEF Arrive, pool
<1>5. EngineAcquires \/ EngineReleases \/ Tick => Kept
  BY DEF EngineAcquires, EngineReleases, Tick, service, pool
<1>6. Restart => pc'[r] = "none"
  BY DEF Restart
<1>7. UNCHANGED vars => Kept
  BY DEF vars, service, pool
<1>8. QED
  BY <1>2, <1>3, <1>4, <1>5, <1>6, <1>7 DEF Next

\* What the proofs below assume of a behaviour: its steps, IInv, and that nobody is stuck.
Runs == [][Next]_vars /\ []IInv /\ []NobodyStuck

\* A fair behaviour in which nobody is stuck has all three.
LEMMA FairSpecRuns == FairSpec /\ []NobodyStuck => Runs /\ Fairness
  BY Inductive, PTL DEF FairSpec, Spec, Runs

\* A statement ends and the connection is free: again and again, since the next one to take it
\* ends as well.
LEMMA ConnectionFreed == Runs /\ ConnectionServed => []<>(conn = Nobody)
<1> DEFINE Free == conn = Nobody
<1>1. IInv /\ <<StatementEnds>>_vars => Free'
  <2>1. EngineReleases => Free'
    BY DEF EngineReleases
  <2>2. QED
    BY <2>1, StepLowers DEF StatementEnds
<1>2. NobodyStuck => Free \/ ENABLED <<StatementEnds>>_vars
  BY DEF NobodyStuck
<1> HIDE DEF Free
<1>3. Runs /\ ConnectionServed => []<>Free
  BY <1>1, <1>2, PTL DEF Runs, ConnectionServed
<1>4. QED
  BY <1>3, PTL DEF Free

\* At most n steps are left to the request in a slot.
Within(r, n) == StepsLeft(r) <= n

StepTaken(r, m, n) == Within(r, m) ~> Within(r, n)

\* A request takes its next step: its statement gets the connection, or its context is done, and
\* nothing but its own step, or a restart, changes that.
LEMMA RequestMoves ==
  ASSUME NEW r \in Slot, NEW m \in Nat, NEW n \in Nat, m = n + 1
  PROVE  Runs /\ Served(r) /\ ConnectionServed => StepTaken(r, m, n)
<1> DEFINE Stage == StepsLeft(r) = m
           Below == Within(r, n)
           May   == MayStep(r)
           Free  == conn = Nobody
<1>1. ASSUME IInv, IInv', [Next]_vars, Stage
      PROVE  (Stage' \/ Below') /\ (May => May' \/ Below')
  <2>1. StepsLeft(r)' \in Nat
    BY <1>1, NextStepsLeftNat
  <2>2. pc[r] # "none"
    BY <1>1, StepsLeftNat DEF IInv
  <2>3. CASE Step(r)
    BY <1>1, <2>1, <2>3, StepLowers DEF Within
  <2>4. CASE pc'[r] = "none"
    BY <2>4 DEF Within, StepsLeft
  <2>5. CASE /\ pc'[r] = pc[r] /\ todo'[r] = todo[r]
             /\ (done[r] => done'[r]) /\ (r \in running => r \in running')
    <3>1. Stage'
      BY <1>1, <2>5 DEF StepsLeft
    <3>2. May => May'
      BY <2>5 DEF MayStep, AtStatement, WithContext
    <3>3. QED
      BY <3>1, <3>2
  <2>6. QED
    BY <1>1, <2>2, <2>3, <2>4, <2>5, OthersKeep
<1>2. ASSUME IInv, IInv', Stage, Step(r) PROVE Below'
  <2>1. StepsLeft(r)' \in Nat
    BY <1>2, StepsLeftNat, NextStepsLeftNat DEF IInv
  <2>2. QED
    BY <1>2, <2>1, StepLowers DEF Within
<1>3. IInv /\ Stage /\ Acquire(r) => May'
  BY StepsLeftNat DEF IInv, Acquire, MayStep, AtStatement, service
<1>4. NobodyStuck /\ May => ENABLED <<Step(r)>>_vars
  <2>1. NobodyStuck => CanStep(r)
    BY DEF NobodyStuck
  <2>2. QED
    BY <2>1 DEF CanStep
<1>5. NobodyStuck /\ IInv /\ Stage /\ ~May /\ Free => ENABLED <<Acquire(r)>>_vars
  <2>1. NobodyStuck => CanAcquire(r)
    BY DEF NobodyStuck
  <2>2. IInv /\ Stage => pc[r] # "none"
    BY StepsLeftNat DEF IInv
  <2>3. QED
    BY <2>1, <2>2 DEF CanAcquire
<1>6. IInv => (Within(r, m) => Stage \/ Below)
  BY StepsLeftNat DEF IInv, Within
<1>7. Runs /\ ConnectionServed => []<>Free
  BY ConnectionFreed, PTL
<1> HIDE DEF Stage, Below, May, Free
<1>8. Runs /\ Served(r) /\ ConnectionServed => (Within(r, m) ~> Below)
  BY <1>1, <1>2, <1>3, <1>4, <1>5, <1>6, <1>7, PTL DEF Runs, Served
<1>9. QED
  BY <1>8, PTL DEF Below, StepTaken

\* A request needs twelve steps at most, from the block list to the response of the longest
\* handler.
LEMMA TwelveSteps ==
  ASSUME NEW r \in Slot
  PROVE  Spec => []Within(r, 12)
<1>1. Init => Within(r, 12)
  BY DEF Init, Within, StepsLeft
<1>2. ASSUME IInv, IInv', [Next]_vars, Within(r, 12) PROVE Within(r, 12)'
  <2>1. StepsLeft(r) \in Nat /\ StepsLeft(r)' \in Nat
    BY <1>2, StepsLeftNat, NextStepsLeftNat DEF IInv
  <2>2. CASE Step(r)
    BY <1>2, <2>1, <2>2, StepLowers DEF Within
  <2>3. CASE pc'[r] \in {"none", "check"}
    BY <2>3 DEF Within, StepsLeft
  <2>4. CASE pc'[r] = pc[r] /\ todo'[r] = todo[r]
    <3>1. StepsLeft(r)' = StepsLeft(r)
      BY <2>4 DEF StepsLeft
    <3>2. QED
      BY <1>2, <3>1 DEF Within
  <2>5. QED
    BY <1>2, <2>2, <2>3, <2>4, OthersKeep
<1>3. QED
  BY <1>1, <1>2, Inductive, PTL DEF Spec

\* Every request of a fair behaviour in which nobody is stuck ends, for any number of requests in
\* service: it takes twelve steps at most, and none of them waits forever (EveryRequestEnds).
THEOREM RequestsEnd == FairSpec /\ []NobodyStuck => EveryRequestEnds
<1>1. ASSUME NEW r \in Slot PROVE FairSpec /\ []NobodyStuck => RequestEnds(r)
  <2> DEFINE Fair == Runs /\ Served(r) /\ ConnectionServed
  <2>1. FairSpec /\ []NobodyStuck => Fair
    <3>1. Fairness => Served(r) /\ ConnectionServed
      BY DEF Fairness
    <3>2. QED
      BY <3>1, FairSpecRuns, PTL
  <2>2. /\ Fair => StepTaken(r, 1, 0) /\ StepTaken(r, 2, 1) /\ StepTaken(r, 3, 2)
        /\ Fair => StepTaken(r, 4, 3) /\ StepTaken(r, 5, 4) /\ StepTaken(r, 6, 5)
        /\ Fair => StepTaken(r, 7, 6) /\ StepTaken(r, 8, 7) /\ StepTaken(r, 9, 8)
        /\ Fair => StepTaken(r, 10, 9) /\ StepTaken(r, 11, 10) /\ StepTaken(r, 12, 11)
    BY RequestMoves
  <2>3. IInv => (Within(r, 0) => pc[r] = "none")
    BY StepsLeftNat DEF IInv, Within
  <2>4. FairSpec => []Within(r, 12)
    BY TwelveSteps, PTL DEF FairSpec
  <2>5. Fair => []IInv
    BY PTL DEF Runs
  <2>6. QED
    BY <2>1, <2>2, <2>3, <2>4, <2>5, PTL DEF StepTaken, RequestEnds
<1>2. QED
  BY <1>1 DEF EveryRequestEnds
================================================================================
