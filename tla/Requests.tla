--------------------------------- MODULE Requests ---------------------------------
(***************************************************************************)
(* The request chain and the one connection of the store under it.  A       *)
(* request passes the WAF (block list, patterns, rules), CORS, one rate      *)
(* limiter for everybody and, for most routes, authentication; then its     *)
(* handler runs its statements.                                            *)
(*                                                                         *)
(* db.SetMaxOpenConns(1): a statement waits for the connection, holds it    *)
(* and gives it back; the engine and the scans take it in between.  The     *)
(* context of a request is done after 30 seconds or when its client leaves; *)
(* IsBlocked, BlockIP and UnblockIP do not look at it.                      *)
(*                                                                         *)
(* The address is the one the reverse proxy reports.  Time is counted in    *)
(* ticks in which the limiter earns Rate tokens.                            *)
(***************************************************************************)
EXTENDS Integers, Sequences, FiniteSets

CONSTANTS
  Slot,         \* requests in service at once
  Address,      \* addresses of the clients
  Route,        \* routes whose handlers use the store
  Nobody,       \* holder of a free connection, address of an empty slot
  Engine,       \* the engine and the scans, as users of the connection
  Rate, Burst,  \* of the limiter: 20 per second and 40
  MaxRequests,  \* bound: requests that arrive
  MaxClock,     \* bound: ticks that pass
  MaxFaults     \* bound: failed statements, contexts done and restarts

\* The statements of each handler, in their order.  hostHistory, containers, npmStats, alerts,
\* findings and targets read once; adding and deleting a target write once.
Statements ==
  [overview |-> <<"LatestHost", "LatestContainers", "NPMStats", "RecentAlerts",
                  "Findings7d", "Targets", "TargetCounts">>,
   summary  |-> <<"Findings7d", "Targets", "TargetCounts">>,
   read     |-> <<"Read">>,
   write    |-> <<"Write">>,
   bulk     |-> <<"Write", "Write">>,
   block    |-> <<"BlockIP", "AlertBlocked">>,
   unblock  |-> <<"UnblockIP">>]

Contextless == {"BlockIP", "UnblockIP"}

\* Their errors are dropped and the handler goes on.
ErrorDropped == {"LatestHost", "LatestContainers", "NPMStats", "RecentAlerts", "Targets",
                 "TargetCounts", "AlertBlocked"}

Statement == {"Findings7d", "Read", "Write"} \cup Contextless \cup ErrorDropped

ASSUME ConstantsAssumption ==
  /\ IsFiniteSet(Slot)
  /\ Route \subseteq DOMAIN Statements
  /\ Nobody \notin Slot \cup Address /\ Engine \notin Slot \cup {Nobody}
  /\ Rate \in Nat /\ Burst \in Nat
  /\ MaxRequests \in Nat /\ MaxClock \in Nat /\ MaxFaults \in Nat

VARIABLES
  blocked,  \* blocked_ips
  alerts,   \* rows of alerts with source "waf" or "security"
  conn,     \* who holds the connection
  running,  \* requests whose statement has been given it
  pc,       \* where a request stands: "none" for an empty slot
  addr,     \* its address
  todo,     \* statements its handler has not finished
  done,     \* its context is done
  tokens,   \* tokens of the limiter
  clock,    \* ticks passed
  arrived,  \* requests that have arrived
  faults,   \* faults so far
  passed,   \* history: requests the limiter has let pass since the start
  at,       \* history: how many had passed when each tick began
  events,   \* history: addresses blocked and requests found suspicious
  due       \* history: the address was blocked when the request arrived, and still is

store   == <<blocked, alerts>>
pool    == <<conn, running>>
service == <<pc, addr, todo, done, due>>
limiter == <<tokens, clock, passed, at>>
bounds  == <<arrived, faults>>
vars    == <<store, pool, service, limiter, bounds, events>>

Full == [a \in 0..MaxClock |-> 0]

Init ==
  /\ blocked = {} /\ alerts = 0 /\ events = 0
  /\ conn = Nobody /\ running = {}
  /\ pc = [r \in Slot |-> "none"] /\ addr = [r \in Slot |-> Nobody]
  /\ todo = [r \in Slot |-> <<>>]
  /\ done = [r \in Slot |-> FALSE] /\ due = [r \in Slot |-> FALSE]
  /\ tokens = Burst /\ clock = 0 /\ passed = 0 /\ at = Full
  /\ arrived = 0 /\ faults = 0

Fault == faults < MaxFaults /\ faults' = faults + 1

-----------------------------------------------------------------------------
(* A request arrives and ends.                                             *)

Arrive(r, a) ==
  /\ pc[r] = "none" /\ arrived < MaxRequests
  /\ arrived' = arrived + 1
  /\ pc' = [pc EXCEPT ![r] = "check"]
  /\ addr' = [addr EXCEPT ![r] = a]
  /\ due' = [due EXCEPT ![r] = a \in blocked]
  /\ UNCHANGED <<store, pool, todo, done, limiter, faults, events>>

\* The response is written and the slot is free again.
End(r) ==
  /\ pc' = [pc EXCEPT ![r] = "none"]
  /\ addr' = [addr EXCEPT ![r] = Nobody]
  /\ todo' = [todo EXCEPT ![r] = <<>>]
  /\ done' = [done EXCEPT ![r] = FALSE]
  /\ due' = [due EXCEPT ![r] = FALSE]

GoTo(r, point) ==
  /\ pc' = [pc EXCEPT ![r] = point]
  /\ UNCHANGED <<addr, todo, done, due>>

\* The 30 seconds of middleware.Timeout are over, or the client has left.
ContextDone(r) ==
  /\ pc[r] # "none" /\ ~done[r]
  /\ Fault
  /\ done' = [done EXCEPT ![r] = TRUE]
  /\ UNCHANGED <<store, pool, pc, addr, todo, due, limiter, arrived, events>>

-----------------------------------------------------------------------------
(* The connection.                                                         *)

\* A request is at a statement: waiting for the connection, or holding it.
AtStatement(r) == pc[r] \in {"check", "refuse"} \/ (pc[r] = "work" /\ todo[r] # <<>>)

\* The statement looks at the context of the request.
WithContext(r) == pc[r] = "refuse" \/ (pc[r] = "work" /\ Head(todo[r]) \notin Contextless)

Acquire(r) ==
  /\ AtStatement(r) /\ conn = Nobody
  /\ ~(WithContext(r) /\ done[r])
  /\ conn' = r /\ running' = running \cup {r}
  /\ UNCHANGED <<store, service, limiter, bounds, events>>

ReleasedMut(r) == IF pc[r] = "work" /\ Len(todo[r]) > 1 THEN r ELSE Nobody

\* The connection after a statement of r: rows are closed before the next statement begins.
Released(r) == Nobody

\* The statement of r holds the connection and goes through, unless its context is done.
Succeeds(r) ==
  /\ r \in running /\ ~(WithContext(r) /\ done[r])
  /\ conn' = Released(r) /\ running' = running \ {r}
  /\ UNCHANGED faults

FailsMut(r) ==
  /\ r \in running
  /\ running' = running \ {r} /\ conn' = Nobody
  /\ IF WithContext(r) /\ done[r] THEN UNCHANGED faults ELSE Fault

\* It returns an error: always once its context is done, with the connection or waiting for it.
Fails(r) ==
  /\ running' = running \ {r}
  /\ conn' = IF r \in running THEN Nobody ELSE conn
  /\ IF WithContext(r) /\ done[r] THEN UNCHANGED faults ELSE r \in running /\ Fault

EngineAcquires ==
  /\ conn = Nobody
  /\ conn' = Engine
  /\ UNCHANGED <<store, running, service, limiter, bounds, events>>

EngineReleases ==
  /\ conn = Engine
  /\ conn' = Nobody
  /\ UNCHANGED <<store, running, service, limiter, bounds, events>>

-----------------------------------------------------------------------------
(* The middlewares.                                                        *)

\* The block list; an error lets the request pass.
IsBlocked(r) ==
  /\ pc[r] = "check"
  /\ \/ /\ Succeeds(r)
        /\ IF addr[r] \in blocked THEN End(r) ELSE GoTo(r, "rules")
     \/ /\ Fails(r)
        /\ pc' = [pc EXCEPT ![r] = "rules"]
        /\ due' = [due EXCEPT ![r] = FALSE]
        /\ UNCHANGED <<addr, todo, done>>
  /\ UNCHANGED <<store, limiter, arrived, events>>

\* A suspicious target: an alert first, the refusal after it.
Suspicious(r) ==
  /\ pc[r] = "rules"
  /\ GoTo(r, "refuse")
  /\ events' = events + 1
  /\ UNCHANGED <<store, pool, limiter, bounds>>

InsertAlertMut(r) == UNCHANGED alerts

InsertAlert(r) == alerts' = alerts + 1

Refuse(r) ==
  /\ pc[r] = "refuse"
  /\ \/ Succeeds(r) /\ InsertAlert(r)
     \/ Fails(r) /\ UNCHANGED alerts
  /\ End(r)
  /\ UNCHANGED <<blocked, limiter, arrived, events>>

\* A rule of the list matches, or CORS answers a preflight.
AnswerEarly(r) ==
  /\ pc[r] = "rules"
  /\ End(r)
  /\ UNCHANGED <<store, pool, limiter, bounds, events>>

PassRules(r) ==
  /\ pc[r] = "rules"
  /\ GoTo(r, "limit")
  /\ UNCHANGED <<store, pool, limiter, bounds, events>>

\* limiter.Allow: a token, or 429.  One bucket serves every address and every route.
Allow(r) ==
  /\ pc[r] = "limit"
  /\ IF tokens > 0
       THEN /\ tokens' = tokens - 1 /\ passed' = passed + 1
            /\ GoTo(r, "auth")
       ELSE /\ UNCHANGED <<tokens, passed>>
            /\ End(r)
  /\ UNCHANGED <<store, pool, clock, at, bounds, events>>

\* A route without statements, no valid token, or a body that does not decode.
AnswerWithoutStore(r) ==
  /\ pc[r] = "auth"
  /\ End(r)
  /\ UNCHANGED <<store, pool, limiter, bounds, events>>

Handle(r, route) ==
  /\ pc[r] = "auth"
  /\ pc' = [pc EXCEPT ![r] = "work"]
  /\ todo' = [todo EXCEPT ![r] = Statements[route]]
  /\ UNCHANGED <<store, pool, addr, done, due, limiter, bounds, events>>

-----------------------------------------------------------------------------
(* The handlers.                                                           *)

Continue(r, rest) ==
  /\ todo' = [todo EXCEPT ![r] = rest]
  /\ UNCHANGED <<pc, addr, done>>

BlockIP(r) ==
  /\ \E a \in Address : blocked' = blocked \cup {a}
  /\ events' = events + 1
  /\ UNCHANGED <<alerts, due>>

UnblockedMut(a) == {}

\* DELETE FROM blocked_ips WHERE ip = ?
Unblocked(a) == blocked \ {a}

UnblockIP(r) ==
  /\ \E a \in Address :
       /\ blocked' = Unblocked(a)
       /\ due' = [s \in Slot |-> due[s] /\ addr[s] # a]
  /\ UNCHANGED <<alerts, events>>

\* What a statement does to the store.
Effect(r, statement) ==
  \/ statement = "BlockIP" /\ BlockIP(r)
  \/ statement = "UnblockIP" /\ UnblockIP(r)
  \/ statement = "AlertBlocked" /\ InsertAlert(r) /\ UNCHANGED <<blocked, due, events>>
  \/ /\ statement \notin {"BlockIP", "UnblockIP", "AlertBlocked"}
     /\ UNCHANGED <<store, due, events>>

Execute(r) ==
  /\ pc[r] = "work" /\ todo[r] # <<>>
  /\ Succeeds(r)
  /\ Effect(r, Head(todo[r]))
  /\ Continue(r, Tail(todo[r]))
  /\ UNCHANGED <<limiter, arrived>>

AfterErrorMut(rest) == rest

\* What is left of a handler after an error: most answer 500 and are through.
AfterError(rest) == IF Head(rest) \in ErrorDropped THEN Tail(rest) ELSE <<>>

StatementFails(r) ==
  /\ pc[r] = "work" /\ todo[r] # <<>>
  /\ Fails(r)
  /\ Continue(r, AfterError(todo[r]))
  /\ UNCHANGED <<store, due, limiter, arrived, events>>

Respond(r) ==
  /\ pc[r] = "work" /\ todo[r] = <<>>
  /\ End(r)
  /\ UNCHANGED <<store, pool, limiter, bounds, events>>

-----------------------------------------------------------------------------
(* Time and restarts.                                                      *)

RefillMut == tokens + Rate

\* The bucket earns Rate tokens in a tick and holds Burst at most.
Refill == IF tokens + Rate > Burst THEN Burst ELSE tokens + Rate

Tick ==
  /\ clock < MaxClock
  /\ clock' = clock + 1
  /\ tokens' = Refill
  /\ at' = [at EXCEPT ![clock + 1] = passed]
  /\ UNCHANGED <<store, pool, service, passed, bounds, events>>

\* The process is killed and started again: the tables stay, the limiter starts full.
Restart ==
  /\ Fault
  /\ conn' = Nobody /\ running' = {}
  /\ pc' = [r \in Slot |-> "none"] /\ addr' = [r \in Slot |-> Nobody]
  /\ todo' = [r \in Slot |-> <<>>]
  /\ done' = [r \in Slot |-> FALSE] /\ due' = [r \in Slot |-> FALSE]
  /\ tokens' = Burst /\ passed' = 0 /\ at' = Full
  /\ UNCHANGED <<store, clock, arrived, events>>

-----------------------------------------------------------------------------

Step(r) ==
  \/ IsBlocked(r) \/ Suspicious(r) \/ Refuse(r) \/ AnswerEarly(r) \/ PassRules(r)
  \/ Allow(r) \/ AnswerWithoutStore(r) \/ \E route \in Route : Handle(r, route)
  \/ Execute(r) \/ StatementFails(r) \/ Respond(r)

Next ==
  \/ \E r \in Slot : Step(r) \/ Acquire(r) \/ ContextDone(r) \/ \E a \in Address : Arrive(r, a)
  \/ EngineAcquires \/ EngineReleases
  \/ Tick \/ Restart

Spec == Init /\ [][Next]_vars

\* The statement that has the connection ends, whosever it is.
StatementEnds == EngineReleases \/ \E r \in Slot : conn = r /\ Step(r)

Served(r) == WF_vars(Step(r)) /\ SF_vars(Acquire(r))

ConnectionServed == WF_vars(StatementEnds)

\* A request that can take a step takes it, a statement that has the connection ends, and whoever
\* waits for the connection gets it sooner or later: database/sql hands it to a waiter when it is
\* given back.
Fairness == (\A r \in Slot : Served(r)) /\ ConnectionServed

FairSpec == Spec /\ Fairness

-----------------------------------------------------------------------------
(* Properties.                                                             *)

\* The shape of the state; the connection belongs to nobody, to the engine, or to a request at a
\* statement that has been given it.
TypeOK ==
  /\ blocked \subseteq Address /\ alerts \in Nat /\ events \in Nat
  /\ conn \in Slot \cup {Nobody, Engine}
  /\ running \subseteq Slot
  /\ \A r \in Slot : (conn = r <=> r \in running) /\ (conn = r => AtStatement(r))
  /\ pc \in [Slot -> {"none", "check", "rules", "refuse", "limit", "auth", "work"}]
  /\ addr \in [Slot -> Address \cup {Nobody}]
  /\ todo \in [Slot -> Seq(Statement)]
  /\ done \in [Slot -> BOOLEAN] /\ due \in [Slot -> BOOLEAN]
  /\ tokens \in 0..Burst /\ clock \in 0..MaxClock
  /\ passed \in Nat /\ at \in [0..MaxClock -> Nat]
  /\ arrived \in 0..MaxRequests /\ faults \in 0..MaxFaults

\* A request that arrives from a blocked address stops at the block list, whatever other requests
\* block and unblock while it waits for the connection; only unblocking its own address or an
\* error of the read lets it by (waf.go:51-55, sqlite.go:183-198).
BlockHolds == \A r \in Slot : due[r] => pc[r] = "check"

\* In no span of ticks do more requests pass than the burst and what the span has earned, however
\* long the limiter was idle before it (router.go:47-56).
RateBound == \A a \in 0..clock : passed - at[a] <= Burst + Rate * (clock - a)

\* Requests that owe an alert: found suspicious, or past the block they asked for.
Owing == {r \in Slot : pc[r] = "refuse" \/ todo[r] = <<"AlertBlocked">>}

\* No block and no suspicious request has a second alert, and each one has its alert, written or
\* owed, unless a fault lost it: an error, a context done or a restart between the two statements,
\* which takes the alerts of the requests in service and no other (handlers.go:125-130,
\* waf.go:58-64).
AlertsAccounted ==
  /\ alerts + Cardinality(Owing) <= events
  /\ events <= alerts + Cardinality(Owing) + faults * Cardinality(Slot)

\* A request that waits for nothing can take its next step: it is not at a statement, the statement
\* has the connection, or its context is done.
MayStep(r) == pc[r] # "none" /\ (AtStatement(r) => r \in running \/ (WithContext(r) /\ done[r]))

CanStep(r) == MayStep(r) => ENABLED <<Step(r)>>_vars

CanAcquire(r) == conn = Nobody /\ pc[r] # "none" /\ ~MayStep(r) => ENABLED <<Acquire(r)>>_vars

\* Nothing else holds a request up: with the connection, or with a context that is over, it goes
\* on, a statement that waits for a free connection can take it, and one that has it can give
\* it back (sqlite.go:28, router.go:23).
NobodyStuck ==
  /\ \A r \in Slot : CanStep(r) /\ CanAcquire(r)
  /\ conn # Nobody => ENABLED <<StatementEnds>>_vars

\* The request in a slot ends.
RequestEnds(r) == (pc[r] # "none") ~> (pc[r] = "none")

\* Every request ends, although each one needs the one connection several times and the engine
\* takes it again and again: nobody waits for it while holding it (sqlite.go:28).
EveryRequestEnds == \A r \in Slot : RequestEnds(r)
================================================================================
