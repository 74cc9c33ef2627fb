------------------------------ MODULE DashboardProofs ------------------------------
(***************************************************************************)
(* Proofs about Dashboard, for any number of handlers, refreshes, changes   *)
(* and tokens.                                                             *)
(*                                                                         *)
(* Everything rests on which calls are in flight: CallsOf relates them to   *)
(* what each task does, GoodCall says what an answer on its way may hold.   *)
(***************************************************************************)
EXTENDS Dashboard, TLAPS

Reply == {"none", "ok", "refused", "error"}

Call == [task : Task, path : LoadPath \cup Kind, token : 0..MaxLogins,
         answer : Reply, value : 0..(MaxVersion + MaxLogins)]

\* What a task may be waiting for.
Awaits(k) == IF k = "rejected" THEN LoadPath ELSE Paths(k)

\* Tasks that do K and calls C fit together.
CallsOf(K, C) ==
  /\ K \in [Task -> Kind] /\ C \subseteq Call
  /\ \A t \in Task : K[t] = "idle" <=> \A c \in C : c.task # t
  /\ \A c, d \in C : c.task = d.task /\ c.path = d.path => c = d
  /\ \A c \in C : c.path \in Awaits(K[c.task])

\* A login carries no token; its answer is one that was issued; a refused token has expired; no
\* version is ahead of the server.
GoodCall(c) ==
  /\ c.path = "login" => c.token = 0
  /\ c.path = "login" /\ c.answer = "ok" => c.value \in 1..logins
  /\ c.answer = "refused" => c.token <= expired
  /\ c.path \in {"edit", "targets"} /\ c.answer = "ok" => c.value <= targets

CallsGood == \A c \in calls : GoodCall(c)

\* The load of t has, or will get, every confirmed edit.
Current(t) ==
  /\ \A c \in calls : c.task = t /\ c.path = "targets" /\ c.answer = "ok" => c.value >= confirmed
  /\ (\A c \in calls : c.task = t => c.path # "targets") => got[t] >= confirmed

LoadsCurrent ==
  alone => /\ \A t, u \in Task : kind[t] = "load" /\ kind[u] = "load" => t = u
           /\ \A t \in Task : kind[t] = "load" => Current(t)

\* The types of everything but the tasks and their calls.
PageTypes ==
  /\ token \in 0..MaxLogins /\ view \in {"blank", "login", "dashboard"} /\ interval \in BOOLEAN
  /\ button \in {"ready", "calling", "cooling"} /\ scanLoad \in BOOLEAN
  /\ shown \in 0..MaxVersion

ServerTypes ==
  /\ targets \in 0..MaxVersion /\ logins \in 0..MaxLogins /\ expired \in 0..logins
  /\ confirmed \in 0..targets /\ alone \in BOOLEAN

GotTypes == got \in [Task -> 0..MaxVersion]

IInv ==
  /\ PageTypes /\ ServerTypes /\ GotTypes
  /\ CallsOf(kind, calls) /\ CallsGood
  /\ DashboardHasToken /\ ButtonReturns /\ LoadsCurrent /\ AloneIsCurrent

\* The invariant holds the type.
LEMMA TypesTogether == IInv => TypeOK
BY DEF IInv, PageTypes, ServerTypes, GotTypes, CallsOf, TypeOK, Call, Reply, Idle

-----------------------------------------------------------------------------
(* Paths and calls.                                                        *)

Sent == {"load", "overview", "history", "edit", "login", "scan"}

\* A load shares no path with another task, and every other task has a path of its own.
LEMMA PathsApart ==
  /\ LoadPath \cap Kind = {} /\ "targets" \in LoadPath
  /\ \A k \in Kind : k \notin {"load", "rejected"} => Awaits(k) = {k}
  /\ Awaits("load") = LoadPath /\ Awaits("rejected") = LoadPath
  /\ \A k \in Sent : Paths(k) \subseteq LoadPath \cup Kind /\ Paths(k) # {} /\ Paths(k) = Awaits(k)
  /\ Sent \subseteq Kind
BY ConstantsAssumption DEF ConstantsAssumption, LoadPath, Kind, Paths, Awaits, Sent

\* What a path says of the task that waits for it.
LEMMA PathOfKind ==
  ASSUME NEW k \in Kind, NEW p \in Awaits(k)
  PROVE  /\ p \in LoadPath <=> k \in {"load", "rejected"}
         /\ p \notin LoadPath => p = k
         /\ p = "targets" => p \in LoadPath
BY PathsApart DEF Kind

\* The calls of a task that begins.
LEMMA NewCalls ==
  ASSUME NEW t \in Task, NEW k \in Sent, NEW tok \in 0..MaxLogins
  PROVE  /\ Calls(t, k, tok) \subseteq Call
         /\ \A c \in Calls(t, k, tok) : /\ c.task = t /\ c.path \in Paths(k) /\ c.token = tok
                                        /\ c.answer = "none" /\ c.value = 0
         /\ \A c, d \in Calls(t, k, tok) : c.path = d.path => c = d
         /\ \E c \in Calls(t, k, tok) : k = "load" => c.path = "targets"
<1>0. MaxLogins \in Nat /\ MaxVersion \in Nat /\ 0 \in 0..(MaxVersion + MaxLogins)
  BY ConstantsAssumption DEF ConstantsAssumption
<1>1. \A p \in Paths(k) :
        [task |-> t, path |-> p, token |-> tok, answer |-> "none", value |-> 0] \in Call
  BY <1>0, PathsApart DEF Call, Reply
<1>2. \A c \in Calls(t, k, tok) : \E p \in Paths(k) :
        c = [task |-> t, path |-> p, token |-> tok, answer |-> "none", value |-> 0]
  BY DEF Calls
<1>3. \A c \in Calls(t, k, tok) : /\ c.task = t /\ c.path \in Paths(k) /\ c.token = tok
                                  /\ c.answer = "none" /\ c.value = 0
  BY <1>2
<1>4. \A c, d \in Calls(t, k, tok) : c.path = d.path => c = d
  BY <1>2
<1>5. \A p \in Paths(k) :
        [task |-> t, path |-> p, token |-> tok, answer |-> "none", value |-> 0] \in Calls(t, k, tok)
  BY DEF Calls
<1>6. \E c \in Calls(t, k, tok) : k = "load" => c.path = "targets"
  <2>1. PICK p \in Paths(k) : k = "load" => p = "targets"
    BY PathsApart
  <2>2. QED
    BY <2>1, <1>5
<1>7. QED
  BY <1>1, <1>2, <1>3, <1>4, <1>6

\* A task that was idle begins.
LEMMA Begun ==
  ASSUME NEW K, NEW C, CallsOf(K, C), NEW t \in Task, K[t] = "idle",
         NEW k \in Sent, NEW tok \in 0..MaxLogins
  PROVE  CallsOf([K EXCEPT ![t] = k], C \cup Calls(t, k, tok))
<1> DEFINE N == Calls(t, k, tok)
           L == [K EXCEPT ![t] = k]
<1>1. /\ N \subseteq Call /\ N # {}
      /\ \A c \in N : c.task = t /\ c.path \in Paths(k)
      /\ \A c, d \in N : c.path = d.path => c = d
  BY NewCalls
<1> HIDE DEF N
<1>2. L \in [Task -> Kind] /\ L[t] = k /\ k # "idle" /\ \A s \in Task \ {t} : L[s] = K[s]
  BY PathsApart DEF CallsOf, Sent
<1> HIDE DEF L
<1>3. \A c \in C : c \in Call /\ c.task \in Task \ {t}
  BY DEF CallsOf, Call
<1>4. \A s \in Task : L[s] = "idle" <=> \A c \in C \cup N : c.task # s
  BY <1>1, <1>2, <1>3 DEF CallsOf
<1>5. \A c, d \in C \cup N : c.task = d.task /\ c.path = d.path => c = d
  BY <1>1, <1>3 DEF CallsOf
<1>6. \A c \in C \cup N : c.path \in Awaits(L[c.task])
  BY <1>1, <1>2, <1>3, PathsApart DEF CallsOf
<1>7. CallsOf(L, C \cup N)
  BY <1>1, <1>2, <1>3, <1>4, <1>5, <1>6 DEF CallsOf
<1>8. QED
  BY <1>7 DEF L, N

\* A call is delivered: its task goes on with the others, is rejected, or is through.
LEMMA Delivered ==
  ASSUME NEW K, NEW C, CallsOf(K, C), NEW c \in C, NEW k \in Kind,
         IF \A d \in C : d.task = c.task => d = c THEN k = "idle"
         ELSE k \in {K[c.task], "rejected"}
  PROVE  CallsOf([K EXCEPT ![c.task] = k], C \ {c})
<1> DEFINE L == [K EXCEPT ![c.task] = k]
           D == C \ {c}
<1>1. c \in Call /\ c.task \in Task
  BY DEF CallsOf, Call
<1>2. L \in [Task -> Kind] /\ L[c.task] = k /\ \A s \in Task \ {c.task} : L[s] = K[s]
  BY <1>1 DEF CallsOf
<1> HIDE DEF L
<1>3. \A d \in C : d \in Call /\ d.task \in Task /\ d.path \in Awaits(K[d.task]) /\ K[d.task] # "idle"
  BY DEF CallsOf, Call
<1>4. \A s \in Task : L[s] = "idle" <=> \A d \in D : d.task # s
  BY <1>1, <1>2, <1>3 DEF CallsOf
<1>5. \A d \in D : d.path \in Awaits(L[d.task])
  <2> SUFFICES ASSUME NEW d \in D PROVE d.path \in Awaits(L[d.task])
    OBVIOUS
  <2>1. CASE d.task # c.task
    BY <1>2, <1>3, <2>1
  <2>2. CASE d.task = c.task
    <3>1. k \in {K[c.task], "rejected"} /\ L[d.task] = k
      BY <2>2, <1>2
    <3>2. d.path # c.path
      BY <2>2 DEF CallsOf
    <3>3. d.path \in Awaits(K[c.task]) /\ c.path \in Awaits(K[c.task]) /\ K[c.task] \in Kind
      BY <2>2, <1>1, <1>3 DEF CallsOf
    <3>4. d.path \in LoadPath \/ d.path = c.path
      BY <3>3, PathOfKind
    <3>5. K[c.task] # "rejected" => d.path \in Awaits(K[c.task])
      BY <3>3
    <3>6. QED
      BY <3>1, <3>2, <3>3, <3>4, PathsApart
  <2>3. QED
    BY <2>1, <2>2
<1>6. CallsOf(L, D)
  BY <1>2, <1>4, <1>5 DEF CallsOf
<1>7. QED
  BY <1>6 DEF L

\* The last call of a task is delivered and the task goes on with a new one.
LEMMA Followed ==
  ASSUME NEW K, NEW C, CallsOf(K, C), NEW c \in C, \A d \in C : d.task = c.task => d = c,
         NEW k \in Sent, NEW tok \in 0..MaxLogins
  PROVE  CallsOf([K EXCEPT ![c.task] = k], (C \ {c}) \cup Calls(c.task, k, tok))
<1> DEFINE L == [K EXCEPT ![c.task] = "idle"]
<1>1. "idle" \in Kind
  BY DEF Kind
<1>2. CallsOf(L, C \ {c})
  BY <1>1, Delivered
<1>3. c.task \in Task /\ K \in [Task -> Kind]
  BY DEF CallsOf, Call
<1>4. L[c.task] = "idle" /\ [L EXCEPT ![c.task] = k] = [K EXCEPT ![c.task] = k]
  BY <1>3
<1> HIDE DEF L
<1>5. CallsOf([L EXCEPT ![c.task] = k], (C \ {c}) \cup Calls(c.task, k, tok))
  BY <1>2, <1>3, <1>4, Begun
<1>6. QED
  BY <1>4, <1>5

\* A call is answered.
LEMMA Answered ==
  ASSUME CallsOf(kind, calls), NEW c \in calls, NEW a \in Reply,
         NEW v \in 0..(MaxVersion + MaxLogins), Answer(c, a, v)
  PROVE  CallsOf(kind, calls')
<1> DEFINE e == [task |-> c.task, path |-> c.path, token |-> IF a = "refused" THEN c.token ELSE 0,
                 answer |-> a, value |-> v]
<1>1. c \in Call /\ MaxLogins \in Nat
  BY ConstantsAssumption DEF CallsOf, ConstantsAssumption
<1>2. e \in Call /\ e.task = c.task /\ e.path = c.path
  <2>1. c.task \in Task /\ c.path \in LoadPath \cup Kind /\ c.token \in 0..MaxLogins
    BY <1>1 DEF Call
  <2>2. (IF a = "refused" THEN c.token ELSE 0) \in 0..MaxLogins
    BY <1>1, <2>1
  <2>3. QED
    BY <2>1, <2>2 DEF Call
<1>3. calls' = (calls \ {c}) \cup {e}
  BY DEF Answer
<1> HIDE DEF e
<1>4. \A d \in calls' : d = e \/ (d \in calls /\ d # c)
  BY <1>3
<1>5. \A t \in Task : kind[t] = "idle" <=> \A d \in calls' : d.task # t
  BY <1>2, <1>3 DEF CallsOf
<1>6. \A d, f \in calls' : d.task = f.task /\ d.path = f.path => d = f
  BY <1>2, <1>4 DEF CallsOf
<1>7. \A d \in calls' : d \in Call /\ d.path \in Awaits(kind[d.task])
  BY <1>2, <1>4 DEF CallsOf
<1>8. QED
  BY <1>5, <1>6, <1>7 DEF CallsOf

-----------------------------------------------------------------------------
(* Facts about one call, and what a step leaves alone.                     *)

\* What a call in flight says of its task.
LEMMA CallFacts ==
  ASSUME IInv, NEW c \in calls
  PROVE  /\ c \in Call /\ c.task \in Task /\ kind[c.task] \in Kind /\ kind[c.task] # "idle"
         /\ c.path \in LoadPath <=> kind[c.task] \in {"load", "rejected"}
         /\ c.path \notin LoadPath => c.path = kind[c.task] /\ Rest(c) = {}
         /\ c.path = "targets" => c.path \in LoadPath
         /\ Rest(c) = {} <=> \A d \in calls : d.task = c.task => d = c
<1>1. /\ c \in Call /\ c.task \in Task /\ kind[c.task] \in Kind /\ kind[c.task] # "idle"
      /\ \A d \in calls : d.path \in Awaits(kind[d.task])
      /\ \A d \in calls : c.task = d.task /\ c.path = d.path => c = d
  BY DEF IInv, CallsOf, Call
<1>2. /\ c.path \in LoadPath <=> kind[c.task] \in {"load", "rejected"}
      /\ c.path \notin LoadPath => c.path = kind[c.task]
      /\ c.path = "targets" => c.path \in LoadPath
  BY <1>1, PathOfKind
<1>3. Rest(c) = {} <=> \A d \in calls : d.task = c.task => d = c
  BY DEF Rest
<1>4. ASSUME c.path \notin LoadPath, NEW d \in calls, d.task = c.task PROVE d = c
  <2>1. Awaits(kind[c.task]) = {kind[c.task]}
    BY <1>1, <1>2, <1>4, PathsApart
  <2>2. QED
    BY <1>1, <1>2, <1>4, <2>1
<1>5. QED
  BY <1>1, <1>2, <1>3, <1>4

\* Nothing of the other tasks changes.
Elsewhere(t) ==
  \A s \in Task \ {t} :
    /\ kind'[s] = kind[s] /\ got'[s] = got[s]
    /\ \A c \in calls' : c.task = s => c \in calls
    /\ \A c \in calls : c.task = s => c \in calls'

\* Calls that are left, or are sent without a token for a login, are good.
LEMMA GoodCallsStay ==
  ASSUME IInv,
         \A c \in calls' : c \in calls \/ (c.answer = "none" /\ (c.path = "login" => c.token = 0)),
         logins' \in Nat, expired' \in Nat, targets' \in Nat,
         logins' >= logins, expired' >= expired, targets' >= targets
  PROVE  CallsGood'
<1> SUFFICES ASSUME NEW c \in calls' PROVE GoodCall(c)'
  BY DEF CallsGood
<1>1. CASE c \in calls
  <2>1. GoodCall(c) /\ c \in Call
    BY <1>1 DEF IInv, CallsGood, CallsOf
  <2>2. c.token \in Int /\ c.value \in Int
    BY <2>1, ConstantsAssumption DEF Call, ConstantsAssumption
  <2>3. logins \in Int /\ expired \in Int /\ targets \in Int
    BY ConstantsAssumption DEF IInv, ServerTypes, ConstantsAssumption
  <2>4. QED
    BY <2>1, <2>2, <2>3 DEF GoodCall
<1>2. CASE c.answer = "none" /\ (c.path = "login" => c.token = 0)
  BY <1>2 DEF GoodCall
<1>3. QED
  BY <1>1, <1>2

\* The loads under way are not touched by a step of another task.
LEMMA LoadsUntouched ==
  ASSUME IInv, NEW t \in Task, Elsewhere(t), alone' => kind'[t] # "load",
         alone' => alone, confirmed' = confirmed
  PROVE  LoadsCurrent'
<1> SUFFICES ASSUME alone'
             PROVE  /\ \A s, u \in Task : kind'[s] = "load" /\ kind'[u] = "load" => s = u
                    /\ \A s \in Task : kind'[s] = "load" => Current(s)'
  BY DEF LoadsCurrent
<1>1. \A s \in Task : kind'[s] = "load" => s \in Task \ {t} /\ kind[s] = "load"
  BY DEF Elsewhere
<1>2. \A s, u \in Task : kind[s] = "load" /\ kind[u] = "load" => s = u
  BY DEF IInv, LoadsCurrent
<1>3. ASSUME NEW s \in Task, kind'[s] = "load" PROVE Current(s)'
  <2>1. Current(s)
    BY <1>1, <1>3 DEF IInv, LoadsCurrent
  <2>2. s \in Task \ {t}
    BY <1>1, <1>3
  <2>3. /\ \A c \in calls' : c.task = s => c \in calls
        /\ \A c \in calls : c.task = s => c \in calls'
        /\ got'[s] = got[s]
    BY <2>2 DEF Elsewhere
  <2>4. QED
    BY <2>1, <2>3 DEF Current
<1>4. QED
  BY <1>1, <1>2, <1>3

\* A load begins, and says whether it is alone.
LEMMA LoadsBegin ==
  ASSUME NEW t \in Task, kind'[t] = "load",
         alone' => \A s \in Task \ {t} : kind'[s] # "load",
         \A c \in calls' : c.task = t => c.answer = "none",
         \E c \in calls' : c.task = t /\ c.path = "targets"
  PROVE  LoadsCurrent' /\ AloneIsCurrent'
<1>1. Current(t)'
  BY DEF Current
<1>2. LoadsCurrent'
  BY <1>1 DEF LoadsCurrent
<1>3. AloneIsCurrent'
  BY DEF AloneIsCurrent
<1>4. QED
  BY <1>2, <1>3

\* What is shown stays current while no load ends.
LEMMA ShownStays ==
  ASSUME IInv, alone' => alone, shown' = shown, confirmed' = confirmed,
         alone' => \A s \in Task : kind[s] = "load" => kind'[s] = "load"
  PROVE  AloneIsCurrent'
BY DEF IInv, AloneIsCurrent

\* The button is not touched while the scans under way stay the same.
LEMMA ButtonStays ==
  ASSUME IInv, \A s \in Task : kind'[s] = "scan" <=> kind[s] = "scan",
         button' = button, scanLoad' => scanLoad
  PROVE  ButtonReturns'
BY DEF IInv, ButtonReturns

-----------------------------------------------------------------------------
(* A task begins.                                                          *)

\* What holds of a task that has just sent its calls.
LEMMA BeginFacts ==
  ASSUME IInv, NEW t \in Task, Idle(t), NEW k \in Sent, Begin(t, k),
         k = "login" => token = 0, UNCHANGED server
  PROVE  /\ CallsOf(kind, calls)' /\ CallsGood' /\ GotTypes'
         /\ Elsewhere(t) /\ kind'[t] = k /\ kind[t] = "idle"
         /\ \A c \in calls' : c.task = t => c.answer = "none"
         /\ k = "load" => \E c \in calls' : c.task = t /\ c.path = "targets"
<1> DEFINE N == Calls(t, k, token)
<1>1. token \in 0..MaxLogins /\ got \in [Task -> 0..MaxVersion] /\ CallsOf(kind, calls)
  BY DEF IInv, PageTypes, GotTypes
<1>2. /\ \A c \in N : c.task = t /\ c.path \in Paths(k) /\ c.token = token /\ c.answer = "none"
      /\ \E c \in N : k = "load" => c.path = "targets"
  BY <1>1, NewCalls
<1>3. /\ kind' = [kind EXCEPT ![t] = k] /\ calls' = calls \cup N
      /\ got' = [got EXCEPT ![t] = 0] /\ kind[t] = "idle"
  BY DEF Begin, Idle
<1>4. CallsOf(kind', calls')
  BY <1>1, <1>3, Begun
<1> HIDE DEF N
<1>5. \A c \in calls : c.task # t
  BY <1>1, <1>3 DEF CallsOf
<1>6. \A c \in N : c.path = "login" => c.token = 0
  BY <1>2, PathsApart, PathOfKind DEF Sent, Paths
<1>7. CallsGood'
  <2>1. logins \in Nat /\ expired \in Nat /\ targets \in Nat
    BY ConstantsAssumption DEF IInv, ServerTypes, ConstantsAssumption
  <2>2. \A c \in calls' : c \in calls \/ (c.answer = "none" /\ (c.path = "login" => c.token = 0))
    BY <1>2, <1>3, <1>6
  <2>3. logins' = logins /\ expired' = expired /\ targets' = targets
    BY DEF server
  <2>4. QED
    BY <2>1, <2>2, <2>3, GoodCallsStay
<1>8. GotTypes'
  <2>1. 0 \in 0..MaxVersion
    BY ConstantsAssumption DEF ConstantsAssumption
  <2>2. QED
    BY <1>1, <1>3, <2>1 DEF GotTypes
<1>9. Elsewhere(t) /\ kind'[t] = k
  BY <1>1, <1>2, <1>3 DEF Elsewhere, CallsOf
<1>10. QED
  BY <1>2, <1>3, <1>4, <1>5, <1>7, <1>8, <1>9

\* A click or a timer that sends one call of its own.
LEMMA BeginIInv ==
  ASSUME IInv, NEW t \in Task, Idle(t), NEW k \in Sent, k # "load", Begin(t, k),
         k = "login" => token = 0,
         UNCHANGED <<token, view, interval, scanLoad, shown, server, history>>,
         button' \in {"ready", "calling", "cooling"}, ButtonReturns'
  PROVE  IInv'
<1>1. /\ CallsOf(kind, calls)' /\ CallsGood' /\ GotTypes'
      /\ Elsewhere(t) /\ kind'[t] = k /\ kind[t] = "idle"
  BY BeginFacts
<1>2. alone' = alone /\ confirmed' = confirmed
  BY DEF history
<1>3. LoadsCurrent'
  BY <1>1, <1>2, LoadsUntouched
<1>4. AloneIsCurrent'
  <2>1. \A s \in Task : kind[s] = "load" => kind'[s] = "load"
    BY <1>1 DEF Elsewhere
  <2>2. QED
    BY <1>2, <2>1, ShownStays
<1>5. PageTypes' /\ ServerTypes' /\ DashboardHasToken'
  BY DEF IInv, PageTypes, ServerTypes, DashboardHasToken, server, history
<1>6. QED
  BY <1>1, <1>3, <1>4, <1>5 DEF IInv

\* A load of the compromise page.
LEMMA LoadIInv ==
  ASSUME IInv, NEW t \in Task, Idle(t), Load(t),
         UNCHANGED <<token, view, interval, button, shown>>,
         scanLoad' \in BOOLEAN, scanLoad' => scanLoad
  PROVE  IInv'
<1>1. "load" \in Sent /\ Begin(t, "load") /\ UNCHANGED server /\ confirmed' = confirmed
      /\ alone' = NoLoadBut(t)
  BY DEF Load, Sent
<1>2. /\ CallsOf(kind, calls)' /\ CallsGood' /\ GotTypes'
      /\ Elsewhere(t) /\ kind'[t] = "load" /\ kind[t] = "idle"
      /\ \A c \in calls' : c.task = t => c.answer = "none"
      /\ \E c \in calls' : c.task = t /\ c.path = "targets"
  BY <1>1, BeginFacts
<1>3. LoadsCurrent' /\ AloneIsCurrent'
  <2>1. alone' => \A s \in Task \ {t} : kind'[s] # "load"
    BY <1>1, <1>2 DEF NoLoadBut, Elsewhere
  <2>2. QED
    BY <1>2, <2>1, LoadsBegin
<1>4. ButtonReturns'
  <2>1. \A s \in Task : kind'[s] = "scan" <=> kind[s] = "scan"
    BY <1>2 DEF Elsewhere
  <2>2. QED
    BY <2>1, ButtonStays
<1>5. PageTypes' /\ DashboardHasToken'
  BY DEF IInv, PageTypes, DashboardHasToken
<1>6. ServerTypes'
  <2>1. alone' \in BOOLEAN
    BY <1>1 DEF NoLoadBut
  <2>2. QED
    BY <1>1, <2>1 DEF IInv, ServerTypes, server
<1>7. QED
  BY <1>2, <1>3, <1>4, <1>5, <1>6 DEF IInv

\* A step without a call.
LEMMA QuietIInv ==
  ASSUME IInv, UNCHANGED <<shown, tasks, history>>, PageTypes', ServerTypes',
         targets' >= targets, logins' = logins, expired' >= expired,
         DashboardHasToken', ButtonReturns'
  PROVE  IInv'
<1>1. kind' = kind /\ got' = got /\ calls' = calls /\ confirmed' = confirmed /\ alone' = alone
  BY DEF tasks, history
<1>2. CallsOf(kind, calls)' /\ GotTypes' /\ LoadsCurrent' /\ AloneIsCurrent'
  BY <1>1 DEF IInv, CallsOf, GotTypes, LoadsCurrent, Current, AloneIsCurrent
<1>3. CallsGood'
  <2>1. logins' \in Nat /\ expired' \in Nat /\ targets' \in Nat /\ logins' >= logins
    BY ConstantsAssumption DEF IInv, ServerTypes, ConstantsAssumption
  <2>2. QED
    BY <1>1, <2>1, GoodCallsStay
<1>4. QED
  BY <1>2, <1>3 DEF IInv

\* What the user does keeps the invariant.
LEMMA UserIInv ==
  ASSUME IInv, NEW t \in Handler, Submit(t) \/ SwitchTab(t) \/ Edit(t) \/ Scan(t)
  PROVE  IInv'
<1>0. t \in Task
  BY DEF Task
<1>1. CASE Submit(t)
  <2>1. token = 0
    BY <1>1 DEF IInv, DashboardHasToken, Submit
  <2>2. kind' = [kind EXCEPT ![t] = "login"] /\ kind[t] = "idle" /\ kind \in [Task -> Kind]
    BY <1>1 DEF Submit, Begin, Idle, IInv, CallsOf
  <2>3. UNCHANGED <<token, view, interval, button, scanLoad, shown, server, history>>
    BY <1>1 DEF Submit, page
  <2>4. ButtonReturns'
    BY <1>0, <2>2, <2>3, ButtonStays
  <2>5. button' \in {"ready", "calling", "cooling"}
    BY <2>3 DEF IInv, PageTypes
  <2>6. "login" \in Sent /\ Begin(t, "login") /\ Idle(t)
    BY <1>1 DEF Sent, Submit
  <2>7. QED
    BY <1>0, <2>1, <2>3, <2>4, <2>5, <2>6, BeginIInv
<1>2. CASE SwitchTab(t)
  <2>1. Idle(t) /\ Load(t) /\ UNCHANGED <<token, view, interval, button, scanLoad, shown>>
    BY <1>2 DEF SwitchTab, page
  <2>2. scanLoad' \in BOOLEAN
    BY <2>1 DEF IInv, PageTypes
  <2>3. QED
    BY <1>0, <2>1, <2>2, LoadIInv
<1>3. CASE Edit(t)
  <2>2. kind' = [kind EXCEPT ![t] = "edit"] /\ kind[t] = "idle" /\ kind \in [Task -> Kind]
    BY <1>3 DEF Edit, Begin, Idle, IInv, CallsOf
  <2>3. UNCHANGED <<token, view, interval, button, scanLoad, shown, server, history>>
    BY <1>3 DEF Edit, page
  <2>4. ButtonReturns'
    BY <1>0, <2>2, <2>3, ButtonStays
  <2>5. button' \in {"ready", "calling", "cooling"}
    BY <2>3 DEF IInv, PageTypes
  <2>6. "edit" \in Sent /\ Begin(t, "edit") /\ Idle(t)
    BY <1>3 DEF Sent, Edit
  <2>7. QED
    BY <1>0, <2>3, <2>4, <2>5, <2>6, BeginIInv
<1>4. CASE Scan(t)
  <2>1. button = "ready" /\ button' = "calling" /\ scanLoad' = scanLoad
    BY <1>4 DEF Scan
  <2>2. kind' = [kind EXCEPT ![t] = "scan"] /\ kind[t] = "idle" /\ kind \in [Task -> Kind]
    BY <1>4 DEF Scan, Begin, Idle, IInv, CallsOf
  <2>3. UNCHANGED <<token, view, interval, scanLoad, shown, server, history>>
    BY <1>4 DEF Scan
  <2>4. ButtonReturns'
    <3>1. \A s \in Task : kind[s] # "scan"
      BY <2>1 DEF IInv, ButtonReturns
    <3>2. ~scanLoad
      BY <2>1 DEF IInv, ButtonReturns
    <3>3. \A s \in Task : kind'[s] = "scan" <=> s = t
      BY <1>0, <2>2, <3>1
    <3>4. QED
      BY <1>0, <2>1, <3>2, <3>3 DEF ButtonReturns
  <2>5. button' \in {"ready", "calling", "cooling"}
    BY <2>1
  <2>6. "scan" \in Sent /\ Begin(t, "scan") /\ Idle(t)
    BY <1>4 DEF Sent, Scan
  <2>7. QED
    BY <1>0, <2>3, <2>4, <2>5, <2>6, BeginIInv
<1>5. QED
  BY <1>1, <1>2, <1>3, <1>4

\* The timers of the page keep the invariant.
LEMMA TimerIInv ==
  ASSUME IInv,
         \/ \E t \in Handler : LoadAfterScan(t)
         \/ \E u \in Refresher : Refresh(u)
         \/ EnableButton
  PROVE  IInv'
<1>1. ASSUME NEW t \in Handler, LoadAfterScan(t) PROVE IInv'
  <2>1. /\ t \in Task /\ Idle(t) /\ Load(t) /\ scanLoad' = FALSE
        /\ UNCHANGED <<token, view, interval, button, shown>>
    BY <1>1 DEF LoadAfterScan, Task
  <2>2. QED
    BY <2>1, LoadIInv
<1>2. ASSUME NEW u \in Refresher, Refresh(u) PROVE IInv'
  <2>1. u \in Task /\ "overview" \in Sent /\ Begin(u, "overview") /\ Idle(u)
    BY <1>2 DEF Sent, Refresh, Task
  <2>2. kind' = [kind EXCEPT ![u] = "overview"] /\ kind[u] = "idle" /\ kind \in [Task -> Kind]
    BY <2>1 DEF Begin, Idle, IInv, CallsOf
  <2>3. UNCHANGED <<token, view, interval, button, scanLoad, shown, server, history>>
    BY <1>2 DEF Refresh, page
  <2>4. ButtonReturns'
    BY <2>1, <2>2, <2>3, ButtonStays
  <2>5. button' \in {"ready", "calling", "cooling"}
    BY <2>3 DEF IInv, PageTypes
  <2>6. QED
    BY <2>1, <2>3, <2>4, <2>5, BeginIInv
<1>3. CASE EnableButton
  <2>1. /\ button = "cooling" /\ button' = "ready" /\ ~scanLoad
        /\ UNCHANGED <<token, view, interval, scanLoad, shown, tasks, server, history>>
    BY <1>3 DEF EnableButton
  <2>2. ButtonReturns'
    BY <2>1 DEF IInv, ButtonReturns, tasks
  <2>3. PageTypes' /\ ServerTypes' /\ DashboardHasToken'
    BY <2>1 DEF IInv, PageTypes, ServerTypes, DashboardHasToken, server, history
  <2>4. targets' >= targets /\ logins' = logins /\ expired' >= expired
    BY <2>1, ConstantsAssumption DEF IInv, ServerTypes, server, ConstantsAssumption
  <2>5. QED
    BY <2>1, <2>2, <2>3, <2>4, QuietIInv
<1>4. QED
  BY <1>1, <1>2, <1>3

\* Logging out, other changes of the targets and expiry keep the invariant.
LEMMA QuietStepsIInv ==
  ASSUME IInv, Logout \/ Seed \/ Expire
  PROVE  IInv'
<1>0. /\ MaxLogins \in Nat /\ MaxVersion \in Nat /\ targets \in 0..MaxVersion
      /\ logins \in 0..MaxLogins /\ expired \in 0..logins /\ confirmed \in 0..targets
  BY ConstantsAssumption DEF ConstantsAssumption, IInv, ServerTypes
<1>1. /\ UNCHANGED <<interval, button, scanLoad, shown, tasks, history>>
      /\ logins' = logins
  BY DEF Logout, Seed, Expire, page, server
<1>2. /\ targets' \in targets..MaxVersion /\ expired' \in expired..logins
  BY <1>0 DEF Logout, Seed, Expire, server
<1>3. ServerTypes'
  <2>1. alone' = alone /\ confirmed' = confirmed /\ alone \in BOOLEAN
    BY <1>1 DEF history, IInv, ServerTypes
  <2>2. targets' \in 0..MaxVersion /\ expired' \in 0..logins /\ confirmed \in 0..targets'
    BY <1>0, <1>2
  <2>3. QED
    BY <1>0, <1>1, <2>1, <2>2 DEF ServerTypes
<1>4. (token' = 0 /\ view' = "login") \/ (token' = token /\ view' = view)
  BY DEF Logout, Seed, Expire, page
<1>5. PageTypes' /\ DashboardHasToken'
  BY <1>0, <1>1, <1>4 DEF IInv, PageTypes, DashboardHasToken
<1>6. ButtonReturns'
  BY <1>1 DEF IInv, ButtonReturns, tasks
<1>7. targets' >= targets /\ expired' >= expired
  BY <1>0, <1>2
<1>8. QED
  BY <1>1, <1>3, <1>5, <1>6, <1>7, QuietIInv

\* Opening or reloading the page keeps the invariant.
LEMMA OpenIInv ==
  ASSUME IInv, NEW t \in Handler, NEW u \in Refresher, Open(t, u)
  PROVE  IInv'
<1>0. /\ t \in Task /\ u \in Task /\ t # u /\ MaxVersion \in Nat /\ MaxLogins \in Nat
  BY ConstantsAssumption DEF ConstantsAssumption, Task
<1>1. /\ button' = "ready" /\ scanLoad' = FALSE /\ shown' = 0 /\ got' = [s \in Task |-> 0]
      /\ token' = token /\ interval' = (token # 0) /\ confirmed' = confirmed
      /\ targets' = targets /\ logins' = logins /\ expired' = expired
      /\ alone' \in BOOLEAN /\ view' \in {"login", "dashboard"}
      /\ view' = "dashboard" <=> token' # 0
  BY DEF Open, Opened, server
<1>2. PageTypes' /\ GotTypes' /\ ServerTypes' /\ DashboardHasToken'
  <2>1. GotTypes'
    BY <1>0, <1>1 DEF GotTypes
  <2>2. ServerTypes'
    BY <1>1 DEF IInv, ServerTypes
  <2>3. DashboardHasToken'
    BY <1>1 DEF DashboardHasToken
  <2>4. interval' \in BOOLEAN
    <3>1. interval' = (token # 0)
      BY <1>1
    <3>2. QED
      BY <3>1, Zenon
  <2>5. scanLoad' \in BOOLEAN /\ shown' \in 0..MaxVersion
    <3>1. scanLoad' = FALSE /\ shown' = 0
      BY <1>1
    <3>2. scanLoad' \in BOOLEAN
      BY <3>1, Zenon
    <3>3. shown' \in 0..MaxVersion
      BY <1>0, <3>1
    <3>4. QED
      BY <3>2, <3>3
  <2>6. PageTypes'
    BY <1>1, <2>4, <2>5 DEF IInv, PageTypes
  <2>7. QED
    BY <2>1, <2>2, <2>3, <2>6
<1> DEFINE K0 == [s \in Task |-> "idle"]
           K1 == [K0 EXCEPT ![t] = "load"]
           K2 == [K1 EXCEPT ![u] = "overview"]
           C1 == {} \cup Calls(t, "load", token)
           C2 == C1 \cup Calls(u, "overview", token)
<1>3. CallsOf(K0, {})
  BY DEF CallsOf, Kind
<1>4. "load" \in Sent /\ "overview" \in Sent /\ token \in 0..MaxLogins
  BY DEF Sent, IInv, PageTypes
<1>5. CallsOf(K2, C2)
  <2>1. K0[t] = "idle"
    BY <1>0
  <2>2. CallsOf(K1, C1)
    BY <1>0, <1>3, <1>4, <2>1, Begun
  <2>3. K1[u] = "idle"
    BY <1>0
  <2>4. QED
    BY <1>0, <1>4, <2>2, <2>3, Begun
<1>6. \/ kind' = K2 /\ calls' = C2 /\ token # 0
      \/ kind' = K0 /\ calls' = {} /\ alone' = FALSE
  BY <1>0 DEF Open, Opened
<1>7. CallsOf(kind, calls)'
  BY <1>3, <1>5, <1>6
<1>8. /\ \A c \in C2 : c.answer = "none" /\ c.path # "login"
      /\ \E c \in C2 : c.task = t /\ c.path = "targets"
  <2>1. /\ \A c \in Calls(t, "load", token) : c.task = t /\ c.path \in Paths("load") /\ c.answer = "none"
        /\ \E c \in Calls(t, "load", token) : c.path = "targets"
        /\ \A c \in Calls(u, "overview", token) : c.path \in Paths("overview") /\ c.answer = "none"
    BY <1>0, <1>4, NewCalls
  <2>2. "login" \notin Paths("load") /\ "login" \notin Paths("overview")
    BY PathsApart DEF Paths, Kind
  <2>3. QED
    BY <2>1, <2>2
<1>9. CallsGood'
  <2>1. logins' \in Nat /\ expired' \in Nat /\ targets' \in Nat
    BY <1>1, ConstantsAssumption DEF IInv, ServerTypes, ConstantsAssumption
  <2>2. logins' >= logins /\ expired' >= expired /\ targets' >= targets
    BY <1>1, <2>1
  <2>3. \A c \in calls' : c.answer = "none" /\ (c.path = "login" => c.token = 0)
    BY <1>6, <1>8
  <2>4. QED
    BY <2>1, <2>2, <2>3, GoodCallsStay
<1>10. \A s \in Task : kind'[s] # "scan" /\ (s # t => kind'[s] # "load")
  BY <1>0, <1>6
<1>11. ButtonReturns'
  BY <1>1, <1>10 DEF ButtonReturns
<1>12. LoadsCurrent' /\ AloneIsCurrent'
  <2>1. CASE kind' = K2 /\ calls' = C2
    <3>1. kind'[t] = "load"
      BY <1>0, <2>1
    <3>2. QED
      BY <1>0, <1>8, <1>10, <2>1, <3>1, LoadsBegin
  <2>2. CASE alone' = FALSE
    BY <2>2 DEF LoadsCurrent, AloneIsCurrent
  <2>3. QED
    BY <1>6, <2>1, <2>2
<1>13. QED
  BY <1>2, <1>7, <1>9, <1>11, <1>12 DEF IInv

-----------------------------------------------------------------------------
(* A call is answered.                                                     *)

\* What the server may answer.
LEMMA ServeAnswers ==
  ASSUME IInv, NEW c \in calls, Serve(c)
  PROVE  /\ logins' \in logins..MaxLogins /\ targets' \in targets..MaxVersion
         /\ \E a \in {"ok", "refused", "error"}, v \in 0..(MaxVersion + MaxLogins) :
              /\ Answer(c, a, v)
              /\ c.path = "login" /\ a = "ok" => v \in 1..logins'
              /\ a = "refused" => c.token <= expired
              /\ c.path \in {"edit", "targets"} /\ a = "ok" => v <= targets'
              /\ c.path = "targets" /\ a = "ok" => v >= confirmed
<1>0. /\ MaxLogins \in Nat /\ MaxVersion \in Nat /\ targets \in 0..MaxVersion
      /\ logins \in 0..MaxLogins /\ expired \in 0..logins /\ confirmed \in 0..targets
  BY ConstantsAssumption DEF ConstantsAssumption, IInv, ServerTypes
<1>1. c.path = "login" => c.token = 0
  BY DEF IInv, CallsGood, GoodCall
<1>2. /\ 0 \in 0..(MaxVersion + MaxLogins) /\ logins + 1 \in Nat
      /\ \A x \in 0..MaxVersion : x \in 0..(MaxVersion + MaxLogins)
      /\ \A x \in 0..MaxLogins : x \in 0..(MaxVersion + MaxLogins)
      /\ logins \in logins..MaxLogins /\ targets \in targets..MaxVersion /\ 0 <= expired
  BY <1>0
<1>3. CASE Refuses(c) /\ Answer(c, "refused", 0) /\ UNCHANGED <<targets, logins>>
  <2>1. c.path # "login" /\ c.token <= expired
    BY <1>3 DEF Refuses
  <2>2. QED
    BY <1>2, <1>3, <2>1
<1>4. CASE c.path = "login" /\ Answer(c, "refused", 0) /\ UNCHANGED <<targets, logins>>
  BY <1>1, <1>2, <1>4
<1>5. CASE /\ c.path = "login" /\ logins < MaxLogins /\ logins' = logins + 1
           /\ Answer(c, "ok", logins + 1) /\ targets' = targets
  <2>1. logins' \in logins..MaxLogins /\ logins + 1 \in 1..logins' /\ logins + 1 \in 0..MaxLogins
    BY <1>0, <1>5
  <2>2. QED
    BY <1>2, <1>5, <2>1
<1>6. CASE /\ c.path = "edit" /\ targets' \in {targets, targets + 1} /\ targets' <= MaxVersion
           /\ Answer(c, "ok", targets') \/ Answer(c, "error", 0)
           /\ logins' = logins
  <2>1. targets' \in targets..MaxVersion /\ targets' \in 0..MaxVersion /\ targets' <= targets'
    BY <1>0, <1>6
  <2>2. QED
    BY <1>2, <1>6, <2>1
<1>7. CASE c.path = "targets" /\ Answer(c, "ok", targets) /\ UNCHANGED <<targets, logins>>
  <2>1. targets <= targets' /\ targets >= confirmed
    BY <1>0, <1>7
  <2>2. QED
    BY <1>0, <1>2, <1>7, <2>1
<1>8. CASE /\ c.path \notin {"login", "edit", "targets"} /\ Answer(c, "ok", 0)
           /\ UNCHANGED <<targets, logins>>
  BY <1>2, <1>8
<1>9. CASE Answer(c, "error", 0) /\ UNCHANGED <<targets, logins>>
  BY <1>2, <1>9
<1>10. QED
  BY <1>3, <1>4, <1>5, <1>6, <1>7, <1>8, <1>9 DEF Serve

\* The answer of the server to a call keeps the invariant.
LEMMA ServeIInv ==
  ASSUME IInv, NEW c \in calls, Serve(c)
  PROVE  IInv'
<1>1. UNCHANGED <<page, kind, got, expired, history>>
  BY DEF Serve
<1>2. logins' \in logins..MaxLogins /\ targets' \in targets..MaxVersion
  BY ServeAnswers
<1>3. PICK a \in {"ok", "refused", "error"}, v \in 0..(MaxVersion + MaxLogins) :
              /\ Answer(c, a, v)
              /\ c.path = "login" /\ a = "ok" => v \in 1..logins'
              /\ a = "refused" => c.token <= expired
              /\ c.path \in {"edit", "targets"} /\ a = "ok" => v <= targets'
              /\ c.path = "targets" /\ a = "ok" => v >= confirmed
  BY ServeAnswers
<1> DEFINE e == [task |-> c.task, path |-> c.path, token |-> IF a = "refused" THEN c.token ELSE 0,
                 answer |-> a, value |-> v]
<1>4. /\ calls' = (calls \ {c}) \cup {e}
      /\ e.task = c.task /\ e.path = c.path /\ e.answer = a /\ e.value = v
      /\ e.token \in {c.token, 0} /\ (a = "refused" => e.token = c.token)
  BY <1>3 DEF Answer
<1> HIDE DEF e
<1>5. CallsOf(kind, calls)'
  <2>1. CallsOf(kind, calls) /\ a \in Reply
    BY DEF IInv, Reply
  <2>2. CallsOf(kind, calls')
    BY <1>3, <2>1, Answered
  <2>3. QED
    BY <1>1, <2>2
<1>6. /\ MaxLogins \in Nat /\ MaxVersion \in Nat /\ targets \in 0..MaxVersion
      /\ logins \in 0..MaxLogins /\ expired \in 0..logins /\ confirmed \in 0..targets
  BY ConstantsAssumption DEF ConstantsAssumption, IInv, ServerTypes
<1>7. CallsGood'
  <2> SUFFICES ASSUME NEW d \in calls' PROVE GoodCall(d)'
    BY DEF CallsGood
  <2>0. expired' = expired
    BY <1>1
  <2>1. CASE d = e
    <3>1. GoodCall(c)
      BY DEF IInv, CallsGood
    <3>2. QED
      BY <1>3, <1>4, <2>0, <2>1, <3>1 DEF GoodCall
  <2>2. CASE d \in calls
    <3>1. GoodCall(d) /\ d \in Call
      BY <2>2 DEF IInv, CallsGood, CallsOf
    <3>2. d.value \in Int
      BY <3>1, <1>6 DEF Call
    <3>3. /\ \A x \in Int : x \in 1..logins => x \in 1..logins'
          /\ \A x \in Int : x <= targets => x <= targets'
      BY <1>2, <1>6
    <3>4. QED
      BY <2>0, <3>1, <3>2, <3>3 DEF GoodCall
  <2>3. QED
    BY <1>4, <2>1, <2>2
<1>8. LoadsCurrent'
  <2> SUFFICES ASSUME alone', NEW t \in Task, kind'[t] = "load" PROVE Current(t)'
    BY <1>1 DEF LoadsCurrent, IInv, history
  <2>1. Current(t) /\ got' = got /\ confirmed' = confirmed
    BY <1>1 DEF IInv, LoadsCurrent, history
  <2>2. \A d \in calls' : d.task = t /\ d.path = "targets" /\ d.answer = "ok" => d.value >= confirmed
    <3> SUFFICES ASSUME NEW d \in calls', d.task = t, d.path = "targets", d.answer = "ok"
                 PROVE  d.value >= confirmed
      OBVIOUS
    <3>1. CASE d = e
      BY <1>3, <1>4, <3>1
    <3>2. CASE d \in calls
      BY <2>1, <3>2 DEF Current
    <3>3. QED
      BY <1>4, <3>1, <3>2
  <2>3. ASSUME \A d \in calls' : d.task = t => d.path # "targets" PROVE got[t] >= confirmed
    <3>1. \A d \in calls : d.task = t => d.path # "targets"
      BY <1>4, <2>3
    <3>2. QED
      BY <2>1, <3>1 DEF Current
  <2>4. QED
    BY <2>1, <2>2, <2>3 DEF Current
<1>9. AloneIsCurrent'
  BY <1>1, ShownStays DEF page, history
<1>10. ButtonReturns' /\ DashboardHasToken' /\ PageTypes' /\ GotTypes'
  BY <1>1 DEF IInv, ButtonReturns, DashboardHasToken, PageTypes, GotTypes, page
<1>11. ServerTypes'
  <2>1. alone' = alone /\ confirmed' = confirmed /\ alone \in BOOLEAN /\ expired' = expired
    BY <1>1 DEF history, IInv, ServerTypes
  <2>2. /\ targets' \in 0..MaxVersion /\ logins' \in 0..MaxLogins /\ expired \in 0..logins'
        /\ confirmed \in 0..targets'
    BY <1>2, <1>6
  <2>3. QED
    BY <2>1, <2>2 DEF ServerTypes
<1>12. QED
  BY <1>5, <1>7, <1>8, <1>9, <1>10, <1>11 DEF IInv

-----------------------------------------------------------------------------
(* The page gets an answer.                                                *)

\* The call is gone; its task is through, goes on with the others, or is rejected.
LEMMA DropFacts ==
  ASSUME IInv, NEW c \in calls, NEW k \in Kind, NEW g \in 0..MaxVersion,
         IF Rest(c) = {} THEN k = "idle" ELSE k \in {kind[c.task], "rejected"},
         kind' = [kind EXCEPT ![c.task] = k], got' = [got EXCEPT ![c.task] = g],
         calls' = calls \ {c}, UNCHANGED server
  PROVE  /\ CallsOf(kind, calls)' /\ CallsGood' /\ GotTypes'
         /\ Elsewhere(c.task) /\ kind'[c.task] = k /\ got'[c.task] = g
<1>1. /\ c.task \in Task
      /\ Rest(c) = {} <=> \A d \in calls : d.task = c.task => d = c
  BY CallFacts
<1>2. CallsOf(kind, calls) /\ got \in [Task -> 0..MaxVersion] /\ kind \in [Task -> Kind]
  BY DEF IInv, GotTypes, CallsOf
<1>3. CallsOf(kind', calls')
  BY <1>1, <1>2, Delivered
<1>4. CallsGood'
  <2>1. logins \in Nat /\ expired \in Nat /\ targets \in Nat
    BY ConstantsAssumption DEF IInv, ServerTypes, ConstantsAssumption
  <2>2. logins' = logins /\ expired' = expired /\ targets' = targets
    BY DEF server
  <2>3. \A d \in calls' : d \in calls
    OBVIOUS
  <2>4. QED
    BY <2>1, <2>2, <2>3, GoodCallsStay
<1>5. GotTypes'
  BY <1>1, <1>2 DEF GotTypes
<1>6. kind'[c.task] = k /\ got'[c.task] = g /\ Elsewhere(c.task)
  BY <1>1, <1>2 DEF Elsewhere
<1>7. QED
  BY <1>3, <1>4, <1>5, <1>6

\* The call is gone and its task goes on with other calls.
LEMMA FollowFacts ==
  ASSUME IInv, NEW c \in calls, c.path \notin LoadPath,
         NEW k \in Sent, k # "login", NEW tok \in 0..MaxLogins,
         kind' = [kind EXCEPT ![c.task] = k], got' = got,
         calls' = (calls \ {c}) \cup Calls(c.task, k, tok), UNCHANGED server
  PROVE  /\ CallsOf(kind, calls)' /\ CallsGood' /\ GotTypes'
         /\ Elsewhere(c.task) /\ kind'[c.task] = k
         /\ \A d \in calls' : d.task = c.task => d.answer = "none"
         /\ k = "load" => \E d \in calls' : d.task = c.task /\ d.path = "targets"
<1>1. /\ c.task \in Task /\ \A d \in calls : d.task = c.task => d = c
  BY CallFacts
<1>2. CallsOf(kind, calls) /\ got \in [Task -> 0..MaxVersion] /\ kind \in [Task -> Kind]
  BY DEF IInv, GotTypes, CallsOf
<1>3. CallsOf(kind', calls')
  BY <1>1, <1>2, Followed
<1>4. /\ \A d \in Calls(c.task, k, tok) : /\ d.task = c.task /\ d.path \in Paths(k)
                                           /\ d.answer = "none"
      /\ k = "load" => \E d \in Calls(c.task, k, tok) : d.path = "targets"
  BY <1>1, NewCalls
<1>5. "login" \notin Paths(k)
  BY PathsApart, PathOfKind DEF Sent, Paths, Kind
<1>6. CallsGood'
  <2>1. logins \in Nat /\ expired \in Nat /\ targets \in Nat
    BY ConstantsAssumption DEF IInv, ServerTypes, ConstantsAssumption
  <2>2. logins' = logins /\ expired' = expired /\ targets' = targets
    BY DEF server
  <2>3. \A d \in calls' : d \in calls \/ (d.answer = "none" /\ d.path # "login")
    BY <1>4, <1>5
  <2>4. QED
    BY <2>1, <2>2, <2>3, GoodCallsStay
<1>7. GotTypes'
  BY <1>2 DEF GotTypes
<1>8. kind'[c.task] = k /\ \A s \in Task \ {c.task} : kind'[s] = kind[s] /\ got'[s] = got[s]
  BY <1>1, <1>2
<1>9. /\ \A d \in calls' : d \in calls \/ (d.task = c.task /\ d.answer = "none")
      /\ \A d \in calls' : d.task = c.task => d.answer = "none"
      /\ \A d \in calls : d.task # c.task => d \in calls'
      /\ k = "load" => \E d \in calls' : d.task = c.task /\ d.path = "targets"
  <2>1. calls' = (calls \ {c}) \cup Calls(c.task, k, tok)
    OBVIOUS
  <2>2. QED
    BY <1>1, <1>4, <2>1
<1>10. Elsewhere(c.task)
  BY <1>8, <1>9 DEF Elsewhere
<1>11. QED
  BY <1>3, <1>6, <1>7, <1>8, <1>9, <1>10

\* An error, a 401 included, keeps the invariant.
LEMMA DeliverErrorIInv ==
  ASSUME IInv, NEW c \in calls, DeliverError(c), UNCHANGED server
  PROVE  IInv'
<1>0. /\ c.task \in Task /\ kind[c.task] \in Kind
      /\ c.path \in LoadPath <=> kind[c.task] \in {"load", "rejected"}
      /\ c.path \notin LoadPath => c.path = kind[c.task]
  BY CallFacts
<1> DEFINE k == IF Rest(c) = {} THEN "idle" ELSE "rejected"
<1>1. /\ kind' = [kind EXCEPT ![c.task] = k] /\ got' = [got EXCEPT ![c.task] = 0]
      /\ calls' = calls \ {c}
      /\ alone' = (alone /\ kind[c.task] # "load") /\ button' = Button(c)
      /\ UNCHANGED <<interval, scanLoad, shown, confirmed>>
      /\ (token' = 0 /\ view' = "login") \/ (token' = token /\ view' = view)
  BY DEF DeliverError, Reject
<1>2. k \in {"idle", "rejected"} /\ (IF Rest(c) = {} THEN k = "idle" ELSE k = "rejected")
  OBVIOUS
<1> HIDE DEF k
<1>3. k \in Kind /\ 0 \in 0..MaxVersion /\ MaxLogins \in Nat
  BY <1>2, ConstantsAssumption DEF Kind, ConstantsAssumption
<1>4. /\ CallsOf(kind, calls)' /\ CallsGood' /\ GotTypes'
      /\ Elsewhere(c.task) /\ kind'[c.task] = k
  BY <1>1, <1>2, <1>3, DropFacts
<1>5. alone' => alone /\ kind[c.task] # "load"
  BY <1>1, Zenon
<1>6. LoadsCurrent'
  <2>1. kind'[c.task] # "load" /\ confirmed' = confirmed
    BY <1>1, <1>2, <1>4
  <2>2. QED
    BY <1>0, <1>4, <1>5, <2>1, LoadsUntouched
<1>7. AloneIsCurrent'
  <2>1. alone' => \A s \in Task : kind[s] = "load" => kind'[s] = "load"
    BY <1>4, <1>5 DEF Elsewhere
  <2>2. QED
    BY <1>1, <1>5, <2>1, ShownStays
<1>8. ButtonReturns'
  <2>1. CASE c.path = "scan"
    <3>1. kind[c.task] = "scan"
      BY <1>0, <2>1, PathsApart DEF Kind
    <3>2. button = "calling" /\ \A s \in Task : kind[s] = "scan" => s = c.task
      BY <1>0, <3>1 DEF IInv, ButtonReturns
    <3>3. ~scanLoad /\ scanLoad' = scanLoad
      BY <1>1, <3>2 DEF IInv, ButtonReturns
    <3>4. button' = "cooling"
      BY <1>1, <2>1 DEF Button
    <3>5. \A s \in Task : kind'[s] # "scan"
      BY <1>2, <1>4, <3>2 DEF Elsewhere
    <3>6. QED
      BY <3>3, <3>4, <3>5 DEF ButtonReturns
  <2>2. CASE c.path # "scan"
    <3>1. kind[c.task] # "scan"
      BY <1>0, <2>2
    <3>2. \A s \in Task : kind'[s] = "scan" <=> kind[s] = "scan"
      BY <1>2, <1>4, <3>1 DEF Elsewhere
    <3>3. button' = button /\ scanLoad' = scanLoad
      BY <1>1, <2>2 DEF Button
    <3>4. QED
      BY <3>2, <3>3, ButtonStays
  <2>3. QED
    BY <2>1, <2>2
<1>9. DashboardHasToken'
  BY <1>1 DEF IInv, DashboardHasToken
<1>10. PageTypes'
  <2>1. token' \in 0..MaxLogins /\ view' \in {"blank", "login", "dashboard"}
    BY <1>1, <1>3 DEF IInv, PageTypes
  <2>2. button' \in {"ready", "calling", "cooling"}
    BY <1>1 DEF IInv, PageTypes, Button
  <2>3. interval' = interval /\ scanLoad' = scanLoad /\ shown' = shown
    BY <1>1
  <2>4. QED
    BY <2>1, <2>2, <2>3 DEF IInv, PageTypes
<1>11. ServerTypes'
  <2>1. alone' \in BOOLEAN
    BY <1>1, Zenon
  <2>2. confirmed' = confirmed /\ targets' = targets /\ logins' = logins /\ expired' = expired
    BY <1>1 DEF server
  <2>3. QED
    BY <2>1, <2>2 DEF IInv, ServerTypes
<1>12. QED
  BY <1>4, <1>6, <1>7, <1>8, <1>9, <1>10, <1>11 DEF IInv

\* The answer to a login keeps the invariant.
LEMMA DeliverLoginIInv ==
  ASSUME IInv, NEW c \in calls, c.path = "login", c.answer = "ok",
         NEW u \in Refresher, DeliverLogin(c, u), UNCHANGED server
  PROVE  IInv'
<1> DEFINE t == c.task
           K1 == [kind EXCEPT ![t] = "load"]
           C1 == (calls \ {c}) \cup Calls(t, "load", c.value)
<1>0. /\ t \in Task /\ u \in Task /\ kind[u] = "idle" /\ kind[t] = "login" /\ t # u
      /\ kind \in [Task -> Kind] /\ CallsOf(kind, calls)
  <2>1. c.path \notin LoadPath
    BY PathsApart DEF Kind
  <2>2. kind[t] = "login" /\ t \in Task
    BY <2>1, CallFacts
  <2>3. u \in Task /\ kind[u] = "idle"
    BY DEF DeliverLogin, Idle, Task
  <2>4. QED
    BY <2>2, <2>3 DEF IInv, CallsOf
<1>1. /\ \A d \in calls : d.task = t => d = c
  <2>1. c.path \notin LoadPath
    BY PathsApart DEF Kind
  <2>2. QED
    BY <2>1, CallFacts
<1>2. /\ token' = c.value /\ view' = "dashboard"
      /\ calls' = C1 \cup Calls(u, "overview", c.value)
      /\ kind' = [K1 EXCEPT ![u] = "overview"]
      /\ alone' = NoLoadBut(t)
      /\ UNCHANGED <<interval, button, scanLoad, shown, got, confirmed>>
  BY DEF DeliverLogin, Opened
<1>3. /\ MaxLogins \in Nat /\ logins \in 0..MaxLogins /\ c.value \in 1..logins
      /\ c.value \in 0..MaxLogins /\ c.value # 0
  <2>1. MaxLogins \in Nat /\ logins \in 0..MaxLogins /\ c.value \in 1..logins
    BY ConstantsAssumption DEF IInv, ServerTypes, CallsGood, GoodCall, ConstantsAssumption
  <2>2. QED
    BY <2>1
<1>4. "load" \in Sent /\ "overview" \in Sent
  BY DEF Sent
<1>5. CallsOf(kind', calls')
  <2>1. CallsOf(K1, C1)
    BY <1>0, <1>1, <1>3, <1>4, Followed
  <2>2. K1[u] = "idle"
    BY <1>0
  <2> HIDE DEF K1, C1
  <2>3. QED
    BY <1>0, <1>2, <1>3, <1>4, <2>1, <2>2, Begun
<1>6. /\ \A d \in Calls(t, "load", c.value) : d.task = t /\ d.answer = "none" /\ d.path # "login"
      /\ \A d \in Calls(u, "overview", c.value) : d.task = u /\ d.answer = "none" /\ d.path # "login"
      /\ \E d \in Calls(t, "load", c.value) : d.path = "targets"
  <2>1. "login" \notin Paths("load") /\ "login" \notin Paths("overview")
    BY PathsApart DEF Paths, Kind
  <2>2. QED
    BY <1>0, <1>3, <1>4, <2>1, NewCalls
<1>7. /\ \A d \in calls' : d \in calls \/ (d.answer = "none" /\ d.path # "login")
      /\ \A d \in calls' : d.task = t => d.answer = "none"
      /\ \E d \in calls' : d.task = t /\ d.path = "targets"
  BY <1>0, <1>1, <1>2, <1>6
<1>8. CallsGood'
  <2>1. logins \in Nat /\ expired \in Nat /\ targets \in Nat
    BY ConstantsAssumption DEF IInv, ServerTypes, ConstantsAssumption
  <2>2. logins' = logins /\ expired' = expired /\ targets' = targets
    BY DEF server
  <2>3. QED
    BY <1>7, <2>1, <2>2, GoodCallsStay
<1>9. /\ kind'[t] = "load" /\ kind'[u] = "overview"
      /\ \A s \in Task : s # t /\ s # u => kind'[s] = kind[s]
  BY <1>0, <1>2
<1>10. LoadsCurrent' /\ AloneIsCurrent'
  <2>1. alone' => \A s \in Task \ {t} : kind'[s] # "load"
    BY <1>2, <1>9 DEF NoLoadBut
  <2>2. QED
    BY <1>0, <1>7, <1>9, <2>1, LoadsBegin
<1>11. ButtonReturns'
  <2>1. \A s \in Task : kind'[s] = "scan" <=> kind[s] = "scan"
    BY <1>0, <1>9
  <2>2. QED
    BY <1>2, <2>1, ButtonStays
<1>12. DashboardHasToken'
  BY <1>2, <1>3 DEF DashboardHasToken
<1>13. PageTypes' /\ GotTypes'
  <2>1. token' \in 0..MaxLogins /\ view' \in {"blank", "login", "dashboard"}
    BY <1>2, <1>3
  <2>2. QED
    BY <1>2, <2>1 DEF IInv, PageTypes, GotTypes
<1>14. ServerTypes'
  <2>1. alone' \in BOOLEAN
    BY <1>2 DEF NoLoadBut
  <2>2. confirmed' = confirmed /\ targets' = targets /\ logins' = logins /\ expired' = expired
    BY <1>2 DEF server
  <2>3. QED
    BY <2>1, <2>2 DEF IInv, ServerTypes
<1>15. QED
  BY <1>5, <1>8, <1>10, <1>11, <1>12, <1>13, <1>14 DEF IInv

\* The answer to an edit keeps the invariant.
LEMMA DeliverEditIInv ==
  ASSUME IInv, NEW c \in calls, c.path = "edit", c.answer = "ok",
         DeliverEdit(c), UNCHANGED server
  PROVE  IInv'
<1>0. c.path \notin LoadPath /\ c.task \in Task /\ kind[c.task] = "edit" /\ c \in Call
  <2>1. c.path \notin LoadPath
    BY PathsApart DEF Kind
  <2>2. QED
    BY <2>1, CallFacts
<1>1. /\ kind' = [kind EXCEPT ![c.task] = "load"] /\ got' = got
      /\ calls' = (calls \ {c}) \cup Calls(c.task, "load", token)
      /\ alone' = NoLoadBut(c.task) /\ UNCHANGED page
      /\ confirmed' = IF c.value > confirmed THEN c.value ELSE confirmed
  BY DEF DeliverEdit, AfterEdit
<1>2. "load" \in Sent /\ token \in 0..MaxLogins
  BY DEF Sent, IInv, PageTypes
<1>3. /\ CallsOf(kind, calls)' /\ CallsGood' /\ GotTypes'
      /\ Elsewhere(c.task) /\ kind'[c.task] = "load"
      /\ \A d \in calls' : d.task = c.task => d.answer = "none"
      /\ \E d \in calls' : d.task = c.task /\ d.path = "targets"
  BY <1>0, <1>1, <1>2, FollowFacts
<1>4. LoadsCurrent' /\ AloneIsCurrent'
  <2>1. alone' => \A s \in Task \ {c.task} : kind'[s] # "load"
    BY <1>1, <1>3 DEF NoLoadBut, Elsewhere
  <2>2. QED
    BY <1>0, <1>3, <2>1, LoadsBegin
<1>5. ButtonReturns'
  <2>1. \A s \in Task : kind'[s] = "scan" <=> kind[s] = "scan"
    BY <1>0, <1>3 DEF Elsewhere
  <2>2. QED
    BY <1>1, <2>1, ButtonStays DEF page
<1>6. PageTypes' /\ DashboardHasToken'
  BY <1>1 DEF IInv, PageTypes, DashboardHasToken, page
<1>7. ServerTypes'
  <2>1. alone' \in BOOLEAN
    BY <1>1 DEF NoLoadBut
  <2>2. targets' = targets /\ logins' = logins /\ expired' = expired
    BY DEF server
  <2>3. confirmed \in 0..targets /\ targets \in 0..MaxVersion /\ MaxVersion \in Nat
    BY ConstantsAssumption DEF IInv, ServerTypes, ConstantsAssumption
  <2>4. c.value <= targets /\ c.value \in 0..(MaxVersion + MaxLogins) /\ MaxLogins \in Nat
    BY <1>0, ConstantsAssumption DEF IInv, CallsGood, GoodCall, Call, ConstantsAssumption
  <2>5. confirmed' \in 0..targets
    BY <1>1, <2>3, <2>4
  <2>6. QED
    BY <2>1, <2>2, <2>5 DEF IInv, ServerTypes
<1>8. QED
  BY <1>3, <1>4, <1>5, <1>6, <1>7 DEF IInv

\* The answer to a scan keeps the invariant.
LEMMA DeliverScanIInv ==
  ASSUME IInv, NEW c \in calls, c.path = "scan", DeliverScan(c), UNCHANGED server
  PROVE  IInv'
<1>0. Rest(c) = {} /\ c.task \in Task /\ kind[c.task] = "scan"
  <2>1. c.path \notin LoadPath
    BY PathsApart DEF Kind
  <2>2. QED
    BY <2>1, CallFacts
<1>1. /\ kind' = [kind EXCEPT ![c.task] = "idle"] /\ got' = [got EXCEPT ![c.task] = 0]
      /\ calls' = calls \ {c} /\ button' = "cooling" /\ scanLoad' = TRUE
      /\ UNCHANGED <<token, view, interval, shown, confirmed, alone>>
  BY DEF DeliverScan, Through, Button, history
<1>2. "idle" \in Kind /\ 0 \in 0..MaxVersion
  BY ConstantsAssumption DEF Kind, ConstantsAssumption
<1>3. /\ CallsOf(kind, calls)' /\ CallsGood' /\ GotTypes'
      /\ Elsewhere(c.task) /\ kind'[c.task] = "idle"
  BY <1>0, <1>1, <1>2, DropFacts
<1>4. LoadsCurrent'
  BY <1>0, <1>1, <1>3, LoadsUntouched
<1>5. AloneIsCurrent'
  <2>1. \A s \in Task : kind[s] = "load" => kind'[s] = "load"
    BY <1>0, <1>3 DEF Elsewhere
  <2>2. QED
    BY <1>1, <2>1, ShownStays
<1>6. ButtonReturns'
  <2>1. \A s \in Task : kind[s] = "scan" => s = c.task
    BY <1>0 DEF IInv, ButtonReturns
  <2>2. \A s \in Task : kind'[s] # "scan"
    BY <1>0, <1>3, <2>1 DEF Elsewhere
  <2>3. QED
    BY <1>1, <2>2 DEF ButtonReturns
<1>7. PageTypes' /\ DashboardHasToken'
  BY <1>1 DEF IInv, PageTypes, DashboardHasToken
<1>8. ServerTypes'
  BY <1>1 DEF IInv, ServerTypes, server
<1>9. QED
  BY <1>3, <1>4, <1>5, <1>6, <1>7, <1>8 DEF IInv

\* The two calls of a refresh.
LEMMA DeliverRefreshIInv ==
  ASSUME IInv, NEW c \in calls, UNCHANGED server,
         \/ c.path = "overview" /\ DeliverOverview(c)
         \/ c.path = "history" /\ Through(c) /\ UNCHANGED <<page, history>>
  PROVE  IInv'
<1>0. /\ c.path \notin LoadPath /\ Rest(c) = {} /\ c.task \in Task
      /\ kind[c.task] \in {"overview", "history"}
  <2>1. c.path \notin LoadPath
    BY PathsApart DEF Kind
  <2>2. QED
    BY <2>1, CallFacts
<1>1. UNCHANGED <<page, history>>
  BY DEF DeliverOverview
<1>2. /\ CallsOf(kind, calls)' /\ CallsGood' /\ GotTypes'
      /\ Elsewhere(c.task) /\ kind'[c.task] \in {"idle", "history"}
  <2>1. CASE c.path = "overview" /\ DeliverOverview(c)
    <3>1. /\ kind' = [kind EXCEPT ![c.task] = "history"] /\ got' = got
          /\ calls' = (calls \ {c}) \cup Calls(c.task, "history", token)
      BY <2>1 DEF DeliverOverview
    <3>2. "history" \in Sent /\ token \in 0..MaxLogins
      BY DEF Sent, IInv, PageTypes
    <3>3. QED
      BY <1>0, <3>1, <3>2, FollowFacts
  <2>2. CASE Through(c)
    <3>1. /\ kind' = [kind EXCEPT ![c.task] = "idle"] /\ got' = [got EXCEPT ![c.task] = 0]
          /\ calls' = calls \ {c}
      BY <2>2 DEF Through
    <3>2. "idle" \in Kind /\ 0 \in 0..MaxVersion
      BY ConstantsAssumption DEF Kind, ConstantsAssumption
    <3>3. QED
      BY <1>0, <3>1, <3>2, DropFacts
  <2>3. QED
    BY <2>1, <2>2
<1>3. LoadsCurrent'
  BY <1>0, <1>1, <1>2, LoadsUntouched DEF history
<1>4. AloneIsCurrent'
  <2>1. \A s \in Task : kind[s] = "load" => kind'[s] = "load"
    BY <1>0, <1>2 DEF Elsewhere
  <2>2. QED
    BY <1>1, <2>1, ShownStays DEF page, history
<1>5. ButtonReturns'
  <2>1. \A s \in Task : kind'[s] = "scan" <=> kind[s] = "scan"
    BY <1>0, <1>2 DEF Elsewhere
  <2>2. QED
    BY <1>1, <2>1, ButtonStays DEF page
<1>6. PageTypes' /\ DashboardHasToken' /\ ServerTypes'
  BY <1>1 DEF IInv, PageTypes, DashboardHasToken, ServerTypes, page, history, server
<1>7. QED
  BY <1>2, <1>3, <1>4, <1>5, <1>6 DEF IInv

\* What a load that is current receives with its last call, or before it, is current.
LEMMA ReceivedCurrent ==
  ASSUME IInv, NEW c \in calls, c.answer = "ok", alone, kind[c.task] = "load"
  PROVE  c.path = "targets" \/ (\A d \in calls \ {c} : d.task = c.task => d.path # "targets")
           => Received(c) >= confirmed
<1>1. Current(c.task)
  BY CallFacts DEF IInv, LoadsCurrent
<1>2. CASE c.path = "targets"
  BY <1>1, <1>2 DEF Current, Received
<1>3. CASE c.path # "targets"
  BY <1>1, <1>3 DEF Current, Received
<1>4. QED
  BY <1>2, <1>3

\* An answer to one call of a load keeps the invariant.
LEMMA DeliverPartIInv ==
  ASSUME IInv, NEW c \in calls, c.path \in LoadPath, c.answer = "ok",
         DeliverPart(c), UNCHANGED server
  PROVE  IInv'
<1> DEFINE t == c.task
           k == IF Rest(c) = {} THEN "idle" ELSE kind[t]
           g == IF Rest(c) # {} /\ kind[t] = "load" THEN Received(c) ELSE 0
<1>0. t \in Task /\ kind[t] \in {"load", "rejected"} /\ kind[t] \in Kind /\ c \in Call
  BY CallFacts
<1>1. Received(c) \in 0..MaxVersion /\ 0 \in 0..MaxVersion /\ MaxVersion \in Nat
  <2>1. /\ MaxVersion \in Nat /\ MaxLogins \in Nat /\ targets \in 0..MaxVersion
        /\ got[t] \in 0..MaxVersion /\ c.value \in 0..(MaxVersion + MaxLogins)
    BY <1>0, ConstantsAssumption DEF IInv, ServerTypes, GotTypes, Call, ConstantsAssumption
  <2>2. c.path = "targets" => c.value <= targets
    BY DEF IInv, CallsGood, GoodCall
  <2>3. c.path = "targets" => c.value \in 0..MaxVersion
    BY <2>1, <2>2
  <2>4. QED
    BY <2>1, <2>3 DEF Received
<1>2. /\ UNCHANGED <<token, view, interval, button, scanLoad, history>>
      /\ calls' = calls \ {c}
      /\ shown' = IF Rest(c) = {} /\ kind[t] = "load" THEN Received(c) ELSE shown
  BY DEF DeliverPart, Through
<1>3. kind' = [kind EXCEPT ![t] = k] /\ got' = [got EXCEPT ![t] = g]
  <2>1. kind \in [Task -> Kind]
    BY DEF IInv, CallsOf
  <2>2. CASE Rest(c) = {}
    BY <2>2 DEF DeliverPart, Through
  <2>3. CASE Rest(c) # {}
    <3>1. kind' = kind /\ got' = [got EXCEPT ![t] = IF kind[t] = "load" THEN Received(c) ELSE 0]
      BY <2>3 DEF DeliverPart
    <3>2. k = kind[t] /\ g = IF kind[t] = "load" THEN Received(c) ELSE 0
      BY <2>3
    <3>3. kind = [kind EXCEPT ![t] = kind[t]]
      BY <2>1
    <3> HIDE DEF k, g
    <3>4. QED
      BY <3>1, <3>2, <3>3
  <2>4. QED
    BY <2>2, <2>3
<1>4. /\ k \in Kind /\ g \in 0..MaxVersion
      /\ IF Rest(c) = {} THEN k = "idle" ELSE k = kind[t]
  BY <1>0, <1>1 DEF Kind
<1>5. g = IF Rest(c) # {} /\ kind[t] = "load" THEN Received(c) ELSE 0
  OBVIOUS
<1> HIDE DEF k, g
<1>6. /\ CallsOf(kind, calls)' /\ CallsGood' /\ GotTypes'
      /\ Elsewhere(t) /\ kind'[t] = k /\ got'[t] = g
  BY <1>2, <1>3, <1>4, DropFacts
<1>7. LoadsCurrent'
  <2>1. CASE k # "load"
    BY <1>0, <1>2, <1>6, <2>1, LoadsUntouched DEF history
  <2>2. CASE k = "load"
    <3> SUFFICES ASSUME alone
                 PROVE  /\ \A s, u \in Task : kind'[s] = "load" /\ kind'[u] = "load" => s = u
                        /\ \A s \in Task : kind'[s] = "load" => Current(s)'
      BY <1>2 DEF LoadsCurrent, history
    <3>1. kind[t] = "load" /\ Rest(c) # {} /\ g = Received(c)
      BY <1>4, <1>5, <2>2
    <3>2. \A s \in Task : kind'[s] = "load" => s = t
      BY <1>0, <1>6, <3>1 DEF Elsewhere, IInv, LoadsCurrent
    <3>3. Current(t)'
      <4>1. Current(t) /\ confirmed' = confirmed
        BY <1>0, <1>2, <3>1 DEF IInv, LoadsCurrent, history
      <4>2. ASSUME \A d \in calls' : d.task = t => d.path # "targets"
            PROVE  got'[t] >= confirmed'
        BY <1>2, <1>6, <3>1, <4>1, <4>2, ReceivedCurrent
      <4>3. \A d \in calls' : d.task = t /\ d.path = "targets" /\ d.answer = "ok"
                                 => d.value >= confirmed'
        BY <1>2, <4>1 DEF Current
      <4>4. QED
        BY <4>2, <4>3 DEF Current
    <3>4. QED
      BY <3>2, <3>3
  <2>3. QED
    BY <2>1, <2>2
<1>8. AloneIsCurrent'
  <2>1. CASE Rest(c) = {} /\ kind[t] = "load"
    <3> SUFFICES ASSUME alone PROVE shown' >= confirmed'
      BY <1>2 DEF AloneIsCurrent, history
    <3>1. \A d \in calls \ {c} : d.task = t => d.path # "targets"
      BY <2>1 DEF Rest
    <3>2. Received(c) >= confirmed
      BY <2>1, <3>1, ReceivedCurrent
    <3>3. QED
      BY <1>2, <2>1, <3>2 DEF history
  <2>2. CASE ~(Rest(c) = {} /\ kind[t] = "load")
    <3>1. shown' = shown
      BY <1>2, <2>2
    <3>2. \A s \in Task : kind[s] = "load" => kind'[s] = "load"
      BY <1>0, <1>4, <1>6, <2>2 DEF Elsewhere
    <3>3. QED
      BY <1>2, <3>1, <3>2, ShownStays DEF history
  <2>3. QED
    BY <2>1, <2>2
<1>9. ButtonReturns'
  <2>1. \A s \in Task : kind'[s] = "scan" <=> kind[s] = "scan"
    BY <1>0, <1>4, <1>6 DEF Elsewhere
  <2>2. QED
    BY <1>2, <2>1, ButtonStays
<1>10. DashboardHasToken' /\ ServerTypes'
  BY <1>2 DEF IInv, DashboardHasToken, ServerTypes, history, server
<1>11. PageTypes'
  <2>1. shown' \in 0..MaxVersion
    BY <1>1, <1>2 DEF IInv, PageTypes
  <2>2. QED
    BY <1>2, <2>1 DEF IInv, PageTypes
<1>12. QED
  BY <1>6, <1>7, <1>8, <1>9, <1>10, <1>11 DEF IInv

-----------------------------------------------------------------------------
(* The theorems.                                                           *)

\* The invariant holds at the start.
LEMMA InitIInv == Init => IInv
<1> SUFFICES ASSUME Init PROVE IInv
  OBVIOUS
<1>1. MaxVersion \in Nat /\ MaxLogins \in Nat \ {0} /\ "idle" \in Kind
  BY ConstantsAssumption DEF ConstantsAssumption, Kind
<1>2. PageTypes /\ ServerTypes /\ GotTypes
  <2>1. interval \in BOOLEAN /\ scanLoad \in BOOLEAN /\ alone \in BOOLEAN
    BY Zenon DEF Init
  <2>2. token \in 0..MaxLogins /\ shown \in 0..MaxVersion
    BY <1>1 DEF Init
  <2>3. /\ targets \in 0..MaxVersion /\ logins \in 0..MaxLogins /\ expired \in 0..logins
        /\ confirmed \in 0..targets
    BY <1>1 DEF Init
  <2>4. GotTypes
    BY <1>1 DEF Init, GotTypes
  <2>5. view = "blank" /\ button = "ready"
    BY DEF Init
  <2>6. QED
    BY <2>1, <2>2, <2>3, <2>4, <2>5 DEF PageTypes, ServerTypes
<1>3. CallsOf(kind, calls) /\ CallsGood
  BY <1>1 DEF Init, CallsOf, CallsGood
<1>4. DashboardHasToken /\ ButtonReturns /\ LoadsCurrent /\ AloneIsCurrent
  BY DEF Init, DashboardHasToken, ButtonReturns, LoadsCurrent, AloneIsCurrent
<1>5. QED
  BY <1>2, <1>3, <1>4 DEF IInv

\* IInv is inductive.
LEMMA NextIInv == IInv /\ [Next]_vars => IInv'
<1> SUFFICES ASSUME IInv, [Next]_vars PROVE IInv'
  OBVIOUS
<1>1. ASSUME NEW t \in Handler, User(t) PROVE IInv'
  BY <1>1, UserIInv, OpenIInv DEF User
<1>2. CASE \/ \E t \in Handler : LoadAfterScan(t)
           \/ \E u \in Refresher : Refresh(u)
           \/ EnableButton
  BY <1>2, TimerIInv
<1>3. CASE Logout \/ Seed \/ Expire
  BY <1>3, QuietStepsIInv
<1>4. ASSUME NEW c \in calls, Serve(c) PROVE IInv'
  BY <1>4, ServeIInv
<1>5. ASSUME NEW c \in calls, Deliver(c) PROVE IInv'
  <2>1. UNCHANGED server
    BY <1>5 DEF Deliver
  <2>2. CASE DeliverError(c)
    BY <2>1, <2>2, DeliverErrorIInv
  <2>3. ASSUME c.answer = "ok", c.path = "login", NEW u \in Refresher, DeliverLogin(c, u)
        PROVE  IInv'
    BY <2>1, <2>3, DeliverLoginIInv
  <2>4. CASE c.answer = "ok" /\ c.path = "edit" /\ DeliverEdit(c)
    BY <2>1, <2>4, DeliverEditIInv
  <2>5. CASE c.path = "scan" /\ DeliverScan(c)
    BY <2>1, <2>5, DeliverScanIInv
  <2>6. CASE \/ c.path = "overview" /\ DeliverOverview(c)
             \/ c.path = "history" /\ Through(c) /\ UNCHANGED <<page, history>>
    BY <2>1, <2>6, DeliverRefreshIInv
  <2>7. CASE c.answer = "ok" /\ c.path \in LoadPath /\ DeliverPart(c)
    BY <2>1, <2>7, DeliverPartIInv
  <2>8. QED
    BY <1>5, <2>2, <2>3, <2>4, <2>5, <2>6, <2>7 DEF Deliver
<1>6. CASE UNCHANGED vars
  <2>1. UNCHANGED <<page, tasks, server, history>>
    BY <1>6 DEF vars
  <2>2. PageTypes' /\ ServerTypes' /\ DashboardHasToken' /\ ButtonReturns'
    BY <2>1 DEF IInv, PageTypes, ServerTypes, DashboardHasToken, ButtonReturns,
                page, tasks, server, history
  <2>3. targets' >= targets /\ logins' = logins /\ expired' >= expired /\ shown' = shown
    BY <2>1, ConstantsAssumption DEF IInv, ServerTypes, server, page, ConstantsAssumption
  <2>4. QED
    BY <2>1, <2>2, <2>3, QuietIInv
<1>7. QED
  BY <1>1, <1>2, <1>3, <1>4, <1>5, <1>6 DEF Next

\* IInv is an invariant.
LEMMA Inductive == Spec => []IInv
BY InitIInv, NextIInv, PTL DEF Spec

\* The state of page, calls and server is well typed, and every task waits for the calls it sent,
\* each of them once.
THEOREM TypeCorrect == Spec => []TypeOK
BY Inductive, TypesTogether, PTL

\* The dashboard is shown exactly while there is a token, in whatever order answers, logouts,
\* logins and 401 come (app.js:19-27, 303-304, 311-314, 381-386).
THEOREM ViewFollowsToken == Spec => []DashboardHasToken
<1>1. IInv => DashboardHasToken
  BY DEF IInv
<1>2. QED
  BY <1>1, Inductive, PTL

\* The scan button is disabled for one call and one timer only (app.js:365-378).
THEOREM ButtonComesBack == Spec => []ButtonReturns
<1>1. IInv => ButtonReturns
  BY DEF IInv
<1>2. QED
  BY <1>1, Inductive, PTL

\* A load that overlapped no other shows every edit confirmed to the user (app.js:255-256,
\* 261-275).
THEOREM LoneLoadIsCurrent == Spec => []AloneIsCurrent
<1>1. IInv => AloneIsCurrent
  BY DEF IInv
<1>2. QED
  BY <1>1, Inductive, PTL

\* A session that is still valid never ends by an answer to one of its own calls (app.js:19-27).
THEOREM OwnCallsKeepSession == Spec => OwnAnswersKeepToken
<1> DEFINE Kept == token > expired /\ token' = 0 =>
                     \/ Logout
                     \/ \E c \in calls \ calls' : c.answer = "refused" /\ c.token # token
<1>1. IInv /\ [Next]_vars => [Kept]_vars
  <2> SUFFICES ASSUME IInv, Next, token > expired, token' = 0, ~Logout
               PROVE  \E c \in calls \ calls' : c.answer = "refused" /\ c.token # token
    OBVIOUS
  <2>1. token \in Nat /\ expired \in Nat /\ token # 0 /\ token' # token
    BY ConstantsAssumption DEF IInv, PageTypes, ServerTypes, ConstantsAssumption
  <2>2. PICK c \in calls : Deliver(c)
    BY <2>1 DEF Next, User, Submit, SwitchTab, Edit, Scan, Open, LoadAfterScan, Refresh,
                EnableButton, Serve, Seed, Expire, page
  <2>3. c.answer = "ok" => token' # 0
    <3> SUFFICES ASSUME c.answer = "ok", token' = 0 PROVE FALSE
      OBVIOUS
    <3>1. c.path = "login" /\ \E u \in Refresher : DeliverLogin(c, u)
      BY <2>1, <2>2 DEF Deliver, DeliverEdit, DeliverScan, DeliverOverview, DeliverPart, page
    <3>2. c.value \in 1..logins /\ logins \in Nat
      BY <3>1, ConstantsAssumption DEF IInv, CallsGood, GoodCall, ServerTypes, ConstantsAssumption
    <3>3. token' = c.value
      BY <3>1 DEF DeliverLogin
    <3>4. QED
      BY <3>2, <3>3
  <2>4. DeliverError(c) /\ c.answer = "refused"
    BY <2>1, <2>2, <2>3 DEF Deliver, DeliverError, EndsSession
  <2>5. c \in calls \ calls'
    BY <2>4 DEF DeliverError
  <2>6. c.token <= expired /\ c.token \in Int
    <3>1. MaxLogins \in Nat /\ c \in Call
      BY ConstantsAssumption DEF IInv, CallsOf, ConstantsAssumption
    <3>2. QED
      BY <2>4, <3>1 DEF IInv, CallsGood, GoodCall, Call
  <2>7. c.token # token
    BY <2>1, <2>6
  <2>8. QED
    BY <2>4, <2>5, <2>7
<1>2. QED
  BY <1>1, Inductive, PTL DEF Spec, OwnAnswersKeepToken
================================================================================
