------------------------------- MODULE ProcessProofs -------------------------------
(***************************************************************************)
(* Theorems about Process and their proofs: what always holds, and, at the  *)
(* end, what a fair process in which nobody is stuck comes to.             *)
(***************************************************************************)
EXTENDS Process, TLAPS

\* From Shutdown on nobody listens, and before main has booted nobody does yet.
ListenerFollowsMain ==
  /\ main \in {"draining", "returning", "returned"} => http \in {"failed", "closed"}
  /\ main = "boot" => http = "unstarted"

\* main goes past Shutdown with requests in service only when its deadline has passed, and
\* closes the store after that.
WaitedForRequests ==
  /\ main \in {"returning", "returned"} /\ requests > 0 => expired
  /\ store = "closed" => main \in {"returned", "exited"}

\* A panic in the engine is one of NewTicker's.
PanickedOverPeriods == engine = "panicked" => ~PeriodsPositive

IInv ==
  TypeOK /\ ListenerFollowsMain /\ WaitedForRequests /\ RequestsKeepStore /\ PanickedOverPeriods

-----------------------------------------------------------------------------

\* The invariant holds at the start.
LEMMA InitIInv == Init => IInv
<1> SUFFICES ASSUME Init PROVE IInv
  OBVIOUS
<1>1. sig \in BOOLEAN /\ live \in BOOLEAN /\ expired \in BOOLEAN
  BY Zenon DEF Init
<1>2. agenda \in Seq(Ticker) /\ requests \in 0..MaxRequests /\ ticks \subseteq Ticker
  BY ConstantsAssumption DEF Init, ConstantsAssumption
<1>3. TypeOK
  BY <1>1, <1>2 DEF Init, TypeOK, Idle
<1>4. ListenerFollowsMain /\ WaitedForRequests /\ RequestsKeepStore /\ PanickedOverPeriods
  BY DEF Init, ListenerFollowsMain, WaitedForRequests, RequestsKeepStore, PanickedOverPeriods
<1>5. QED
  BY <1>3, <1>4 DEF IInv

\* Each step keeps the type.
LEMMA StepType == ASSUME TypeOK, [Next]_vars PROVE TypeOK'
<1> USE ConstantsAssumption DEF ConstantsAssumption
<1>1. CASE ConfigRefused \/ BootFails \/ Boot \/ Notify \/ Signal \/ ReceiveSignal \/ BeginShutdown \/ ShutdownExpires
           \/ ShutdownReturns \/ CloseStore \/ Exit
  <2>1. CASE ConfigRefused \/ BootFails
    BY <2>1 DEF ConfigRefused, BootFails, ExitsAtBoot, TypeOK, serverVars, engineVars
  <2>2. CASE Boot
    BY <2>2 DEF Boot, TypeOK, serverVars
  <2>3. CASE Notify
    BY <2>3 DEF Notify, TypeOK, serverVars, engineVars
  <2>4. CASE Exit
    BY <2>4 DEF Exit, TypeOK, serverVars, engineVars
  <2>5. CASE Signal
    BY <2>5 DEF Signal, TypeOK, serverVars, engineVars
  <2>6. CASE ReceiveSignal
    BY <2>6 DEF ReceiveSignal, TypeOK, serverVars, engineVars
  <2>7. CASE BeginShutdown
    BY <2>7 DEF BeginShutdown, AfterShutdown, TypeOK, engineVars
  <2>8. CASE ShutdownExpires
    BY <2>8 DEF ShutdownExpires, TypeOK, serverVars, engineVars
  <2>9. CASE ShutdownReturns
    BY <2>9 DEF ShutdownReturns, TypeOK, serverVars, engineVars
  <2>10. CASE CloseStore
    BY <2>10 DEF CloseStore, TypeOK, serverVars, engineVars
  <2>11. QED
    BY <1>1, <2>1, <2>2, <2>3, <2>4, <2>5, <2>6, <2>7, <2>8, <2>9, <2>10
<1>2. CASE StartTickers \/ NewTickerPanics
  <2>1. StartupJobs \in Seq(Ticker)
    <3>1. CASE cfg.CompromiseEnabled
      <4>1. StartupJobs = <<"host", "docker", "npm", "compromise">>
        BY <3>1 DEF StartupJobs
      <4>2. QED
        BY <4>1 DEF Ticker
    <3>2. CASE ~cfg.CompromiseEnabled
      <4>1. StartupJobs = <<"host", "docker", "npm">>
        BY <3>2 DEF StartupJobs
      <4>2. QED
        BY <4>1 DEF Ticker
    <3>3. QED
      BY <3>1, <3>2
  <2>2. QED
    BY <1>2, <2>1 DEF StartTickers, NewTickerPanics, TypeOK, mainVars, serverVars
<1>3. CASE Listen \/ ListenFails
  BY <1>3 DEF Listen, ListenFails, TypeOK, mainVars, engineVars
<1>4. CASE RequestBegins \/ RequestEnds
  BY <1>4 DEF RequestBegins, RequestEnds, TypeOK, mainVars, engineVars
<1>5. CASE NextStartupJob
  <2>1. agenda # <<>> => Head(agenda) \in Ticker /\ Tail(agenda) \in Seq(Ticker)
    BY DEF TypeOK
  <2>2. \A t \in Ticker : Occupies(t) => t \in {"host", "docker", "npm", "purge"}
    BY DEF Occupies, Ticker
  <2>3. CASE agenda = <<>>
    BY <1>5, <2>3 DEF NextStartupJob, TypeOK, mainVars, serverVars
  <2>4. CASE agenda # <<>>
    <3>1. agenda' \in Seq(Ticker) /\ engine' = engine
          /\ job' \in {Idle, "host", "docker", "npm", "purge"}
      BY <1>5, <2>1, <2>2, <2>4 DEF NextStartupJob
    <3>2. QED
      BY <1>5, <3>1 DEF NextStartupJob, TypeOK, mainVars, serverVars
  <2>5. QED
    BY <2>3, <2>4
<1>6. CASE FinishJob \/ SelectDone
  BY <1>6 DEF FinishJob, SelectDone, TypeOK, mainVars, serverVars
<1>7. ASSUME NEW t \in Ticker, Tick(t) PROVE TypeOK'
  BY <1>7 DEF Tick, TypeOK, mainVars, serverVars
<1>8. ASSUME NEW t \in Ticker, SelectTick(t) PROVE TypeOK'
  <2>1. Occupies(t) => t \in {"host", "docker", "npm", "purge"}
    BY DEF Occupies, Ticker
  <2>2. QED
    BY <1>8, <2>1 DEF SelectTick, TypeOK, mainVars, serverVars
<1>9. CASE UNCHANGED vars
  BY <1>9 DEF vars, TypeOK, mainVars, serverVars, engineVars
<1>10. QED
  BY <1>1, <1>2, <1>3, <1>4, <1>5, <1>6, <1>7, <1>8, <1>9 DEF Next, MainStep, EngineWork

\* Each step keeps the order of the shutdown.
LEMMA StepShutdown ==
  ASSUME IInv, [Next]_vars
  PROVE  ListenerFollowsMain' /\ WaitedForRequests' /\ RequestsKeepStore'
<1> USE ConstantsAssumption DEF ConstantsAssumption
<1>0. TypeOK /\ ListenerFollowsMain /\ WaitedForRequests /\ RequestsKeepStore
  BY DEF IInv
<1>1. CASE ConfigRefused \/ BootFails \/ Boot \/ Notify \/ Signal \/ ReceiveSignal
  BY <1>0, <1>1 DEF ConfigRefused, BootFails, ExitsAtBoot, Boot, Notify, Signal, ReceiveSignal, Running, ListenerFollowsMain,
     WaitedForRequests, RequestsKeepStore, serverVars, TypeOK
<1>2. CASE BeginShutdown \/ ShutdownExpires
  BY <1>0, <1>2 DEF BeginShutdown, AfterShutdown, ShutdownExpires, ListenerFollowsMain,
     WaitedForRequests, RequestsKeepStore, serverVars, TypeOK
<1>3. CASE ShutdownReturns
  BY <1>0, <1>3 DEF ShutdownReturns, Drained, ListenerFollowsMain, WaitedForRequests,
     RequestsKeepStore, serverVars, TypeOK
<1>4. CASE CloseStore \/ Exit
  BY <1>0, <1>4 DEF CloseStore, Exit, ListenerFollowsMain, WaitedForRequests, RequestsKeepStore,
     serverVars, TypeOK
<1>5. CASE Listen \/ ListenFails
  BY <1>0, <1>5 DEF Listen, ListenFails, Booted, ListenerFollowsMain, WaitedForRequests,
     RequestsKeepStore, mainVars, TypeOK
<1>6. CASE RequestBegins \/ RequestEnds
  BY <1>0, <1>6 DEF RequestBegins, RequestEnds, Running, ListenerFollowsMain, WaitedForRequests,
     RequestsKeepStore, mainVars, TypeOK
<1>7. CASE mainVars' = mainVars /\ serverVars' = serverVars
  BY <1>0, <1>7 DEF mainVars, serverVars, ListenerFollowsMain, WaitedForRequests, RequestsKeepStore
<1>8. CASE NewTickerPanics
  BY <1>0, <1>8 DEF NewTickerPanics, ListenerFollowsMain, WaitedForRequests, RequestsKeepStore,
     serverVars, TypeOK
<1>9. QED
  BY <1>1, <1>2, <1>3, <1>4, <1>5, <1>6, <1>7, <1>8
  DEF Next, MainStep, EngineWork, StartTickers, NextStartupJob, FinishJob, SelectDone, Tick, SelectTick, vars

\* Each step keeps the environment, and only NewTicker makes the engine panic.
LEMMA StepPanic ==
  ASSUME IInv, [Next]_vars
  PROVE  PanickedOverPeriods'
<1>1. env' = env
  BY DEF Next, MainStep, EngineWork, ConfigRefused, BootFails, ExitsAtBoot, Boot, Notify, Signal, ReceiveSignal,
     BeginShutdown, ShutdownExpires, ShutdownReturns, CloseStore, Exit, Listen, ListenFails,
     RequestBegins, RequestEnds, StartTickers, NewTickerPanics, NextStartupJob, FinishJob,
     SelectDone, Tick, SelectTick, vars, mainVars
<1>2. PeriodsPositive' = PeriodsPositive
  BY <1>1 DEF PeriodsPositive, Tickers, Period, cfg
<1>3. engine' = "panicked" => engine = "panicked" \/ ~PeriodsPositive
  BY DEF Next, MainStep, EngineWork, ConfigRefused, BootFails, ExitsAtBoot, Boot, Notify, Signal, ReceiveSignal,
     BeginShutdown, ShutdownExpires, ShutdownReturns, CloseStore, Exit, Listen, ListenFails,
     RequestBegins, RequestEnds, StartTickers, NewTickerPanics, NextStartupJob, FinishJob,
     SelectDone, Tick, SelectTick, vars, engineVars
<1>4. QED
  BY <1>2, <1>3 DEF IInv, PanickedOverPeriods

\* IInv is an invariant.
LEMMA Inductive == Spec => []IInv
<1>1. IInv /\ [Next]_vars => IInv'
  BY StepType, StepShutdown, StepPanic DEF IInv
<1>2. QED
  BY <1>1, InitIInv, PTL DEF Spec

-----------------------------------------------------------------------------
(* Durations.                                                              *)

\* An interval in range, or its default, is a positive duration: the product does not wrap.
LEMMA SoundIsPositive ==
  ASSUME NEW setting \in Optional(Int64), SoundInterval(setting), NEW def \in 1..3600
  PROVE  DurationSec(setting, def) > 0
<1> USE WordAssumption DEF WordAssumption
<1> DEFINE n == IntEnv(setting, def)
<1>1. n \in Int /\ n >= 1 /\ n * Second < HalfWord
  <2>1. CASE setting = {}
    <3>1. n = def
      BY <2>1 DEF IntEnv, Env
    <3>2. (3600 - def) * Second >= 0
      <4>1. 3600 - def \in Nat /\ Second \in Nat
        OBVIOUS
      <4>2. \A a, b \in Nat : a * b >= 0
        OBVIOUS
      <4>3. QED
        BY <4>1, <4>2
    <3>3. def * Second = 3600 * Second - (3600 - def) * Second
      BY SMTT(30)
    <3>4. QED
      BY <3>1, <3>2, <3>3
  <2>2. CASE setting # {}
    <3>1. PICK x \in Int64 : setting = {x}
      BY <2>2 DEF Optional
    <3>2. n = x
      BY <2>2, <3>1 DEF IntEnv, Env
    <3>3. QED
      BY <3>1, <3>2 DEF SoundInterval, Int64
  <2>3. QED
    BY <2>1, <2>2
<1>2. n * Second \in Int /\ n * Second > 0
  BY <1>1
<1>3. (n * Second + HalfWord) % (2 * HalfWord) = n * Second + HalfWord
  <2> DEFINE m == n * Second + HalfWord
  <2>1. m \in 0..2 * HalfWord - 1
    BY <1>1, <1>2
  <2>2. \A k, w \in Int : w > 0 /\ k \in 0..w - 1 => k % w = k
    OBVIOUS
  <2>3. 2 * HalfWord \in Int /\ 2 * HalfWord > 0 /\ m \in Int
    BY <2>1
  <2> HIDE DEF m
  <2>4. m % (2 * HalfWord) = m
    BY <2>1, <2>2, <2>3
  <2>5. QED
    BY <2>4 DEF m
<1>4. Wrap(n * Second) = n * Second
  BY <1>2, <1>3 DEF Wrap
<1>5. QED
  BY <1>2, <1>4 DEF DurationSec

-----------------------------------------------------------------------------
(* Theorems.                                                               *)

\* Every reachable state of Process is well typed, for any number of requests.
THEOREM TypeCorrect == Spec => []TypeOK
<1>1. IInv => TypeOK
  BY DEF IInv
<1>2. QED
  BY <1>1, Inductive, PTL

\* No request loses the store before the deadline of Shutdown.
THEOREM RequestsServed == Spec => []RequestsKeepStore
<1>1. IInv => RequestsKeepStore
  BY DEF IInv
<1>2. QED
  BY <1>1, Inductive, PTL

\* No request begins after Shutdown, even if the server goroutine was not listening yet.
THEOREM NoneBeginsAfterShutdown == Spec => NoRequestAfterShutdown
<1>1. IInv /\ [Next]_vars =>
        [requests' > requests => main \in {"starting", "waiting", "cancelled"}]_vars
  <2> SUFFICES ASSUME IInv, Next, requests' > requests
               PROVE  main \in {"starting", "waiting", "cancelled"}
    OBVIOUS
  <2>0. TypeOK /\ requests \in Int
    BY ConstantsAssumption DEF IInv, TypeOK, ConstantsAssumption
  <2>1. RequestBegins
    BY <2>0 DEF Next, MainStep, EngineWork, ConfigRefused, BootFails, ExitsAtBoot, Boot, Notify, Signal,
       ReceiveSignal, BeginShutdown, ShutdownExpires, ShutdownReturns, CloseStore, Exit, Listen,
       ListenFails, RequestEnds, StartTickers, NewTickerPanics, NextStartupJob, FinishJob, SelectDone, Tick, SelectTick, serverVars, mainVars
  <2>2. QED
    BY <2>0, <2>1 DEF IInv, TypeOK, RequestBegins, Running, ListenerFollowsMain
<1>2. QED
  BY <1>1, Inductive, PTL DEF Spec, NoRequestAfterShutdown

\* The engine gets past its tickers with all intervals unset or in range, for every width of a
\* duration that holds the defaults.
THEOREM SoundEnvironmentsStart == Spec => []SoundEnvironmentStarts
<1>1. IInv => SoundEnvironmentStarts
  <2> SUFFICES ASSUME IInv, SoundEnvironment(env) PROVE engine # "panicked"
    BY DEF SoundEnvironmentStarts
  <2>1. env \in Environments
    BY ConstantsAssumption DEF ConstantsAssumption, IInv, TypeOK
  <2>2. /\ env.host \in Optional(Int64) /\ env.docker \in Optional(Int64)
        /\ env.npm \in Optional(Int64) /\ env.compromise \in Optional(Int64)
    BY <2>1 DEF Environments
  <2>3. /\ SoundInterval(env.host) /\ SoundInterval(env.docker) /\ SoundInterval(env.npm)
        /\ cfg.CompromiseEnabled => SoundInterval(env.compromise)
    BY DEF SoundEnvironment, cfg, Load
  <2>a. \A setting \in Optional(Int64), def \in {10, 15, 30, 3600} :
          SoundInterval(setting) => DurationSec(setting, def) > 0
    <3>1. \A def \in {10, 15, 30, 3600} : def \in 1..3600
      OBVIOUS
    <3>2. QED
      BY <3>1, SoundIsPositive, SMTT(30)
  <2>4. /\ DurationSec(env.host, 10) > 0 /\ DurationSec(env.docker, 15) > 0
        /\ DurationSec(env.npm, 30) > 0
    BY <2>2, <2>3, <2>a
  <2>5. ASSUME cfg.CompromiseEnabled PROVE DurationSec(env.compromise, 3600) > 0
    BY <2>2, <2>3, <2>5, <2>a
  <2>6. PeriodsPositive
    <3>1. /\ Period["host"] = DurationSec(env.host, 10)
          /\ Period["docker"] = DurationSec(env.docker, 15)
          /\ Period["npm"] = DurationSec(env.npm, 30)
          /\ Period["purge"] = 21600 * Second
          /\ Period["compromise"] = DurationSec(env.compromise, 3600)
      BY DEF Period, cfg, Load
    <3>2. 21600 * Second > 0
      BY WordAssumption DEF WordAssumption
    <3>3. \A t \in Tickers : /\ t \in {"host", "docker", "npm", "purge", "compromise"}
                             /\ t = "compromise" => cfg.CompromiseEnabled
      BY DEF Tickers, Ticker
    <3>4. QED
      BY <2>4, <2>5, <3>1, <3>2, <3>3 DEF PeriodsPositive
  <2>7. QED
    BY <2>6 DEF IInv, PanickedOverPeriods
<1>2. QED
  BY <1>1, Inductive, PTL
-----------------------------------------------------------------------------
(* main stops.                                                             *)

\* main only goes forward.
LEMMA MainMoves ==
  ASSUME [Next]_vars
  PROVE  /\ main = "waiting" /\ sig => (main' = "waiting" /\ sig') \/ main' \in {"cancelled", "exited"}
         /\ main = "cancelled" => main' \in {"cancelled", "draining", "exited"}
         /\ main = "draining" => main' \in {"draining", "returning", "exited"} /\ (expired => expired')
         /\ main = "returning" => main' \in {"returning", "returned", "exited"}
         /\ main = "returned" => main' \in {"returned", "exited"}
  BY DEF Next, MainStep, EngineWork, ConfigRefused, BootFails, ExitsAtBoot, Boot, Notify, Signal,
     ReceiveSignal, BeginShutdown, ShutdownExpires, ShutdownReturns, CloseStore, Exit, Listen,
     ListenFails, RequestBegins, RequestEnds, StartTickers, NewTickerPanics, NextStartupJob,
     FinishJob, SelectDone, Tick, SelectTick, vars, mainVars

\* A step of main, once a signal waits for it, takes it one stage further; the deadline of
\* Shutdown is one.
LEMMA MainStepMoves ==
  ASSUME MainStep
  PROVE  /\ main = "waiting" /\ sig => main' = "cancelled"
         /\ main = "cancelled" => main' = "draining"
         /\ main = "draining" => main' = "returning" \/ (main' = "draining" /\ expired' /\ ~expired)
         /\ main = "returning" => main' = "returned"
         /\ main = "returned" => main' = "exited"
  BY DEF MainStep, Boot, Notify, ReceiveSignal, BeginShutdown, ShutdownExpires, ShutdownReturns,
     CloseStore, Exit

\* A signal that reached main ends the process, for any number of requests, hanging ones included:
\* MainStep is fair, and NobodyStuck says that it stays possible at each stage.
THEOREM SignalStops == FairSpec /\ []NobodyStuck => StopsOnSignal
<1> DEFINE Fair == [][Next]_vars /\ WF_vars(MainStep) /\ []NobodyStuck
<1>1. NobodyStuck =>
        ((\/ main \in {"starting", "cancelled", "draining", "returning", "returned"}
          \/ main = "waiting" /\ sig) => ENABLED <<MainStep>>_vars)
  BY DEF NobodyStuck
<1>2. Fair => ((main = "waiting" /\ sig) ~> (main = "cancelled" \/ main = "exited"))
  <2>1. (main = "waiting" /\ sig) /\ [Next]_vars
          => (main = "waiting" /\ sig)' \/ (main = "cancelled" \/ main = "exited")'
    BY MainMoves
  <2>2. (main = "waiting" /\ sig) /\ <<MainStep>>_vars => (main = "cancelled" \/ main = "exited")'
    BY MainStepMoves
  <2>3. NobodyStuck /\ (main = "waiting" /\ sig) => ENABLED <<MainStep>>_vars
    BY <1>1
  <2>4. QED
    BY <2>1, <2>2, <2>3, PTL
<1>3. Fair => ((main = "cancelled") ~> (main = "draining" \/ main = "exited"))
  <2>1. (main = "cancelled") /\ [Next]_vars
          => (main = "cancelled")' \/ (main = "draining" \/ main = "exited")'
    BY MainMoves
  <2>2. (main = "cancelled") /\ <<MainStep>>_vars => (main = "draining" \/ main = "exited")'
    BY MainStepMoves
  <2>3. NobodyStuck /\ (main = "cancelled") => ENABLED <<MainStep>>_vars
    BY <1>1
  <2>4. QED
    BY <2>1, <2>2, <2>3, PTL
<1>4. Fair => ((main = "draining") ~> (main = "returning" \/ main = "exited"))
  <2>1. (main = "draining") /\ [Next]_vars
          => (main = "draining")' \/ (main = "returning" \/ main = "exited")'
    BY MainMoves
  <2>2. (main = "draining" /\ expired) /\ [Next]_vars
          => (main = "draining" /\ expired)' \/ (main = "returning" \/ main = "exited")'
    BY MainMoves
  <2>3. (main = "draining") /\ <<MainStep>>_vars
          => (main = "draining" /\ expired)' \/ (main = "returning" \/ main = "exited")'
    BY MainStepMoves
  <2>4. (main = "draining" /\ expired) /\ <<MainStep>>_vars
          => (main = "returning" \/ main = "exited")'
    BY MainStepMoves
  <2>5. NobodyStuck /\ (main = "draining") => ENABLED <<MainStep>>_vars
    BY <1>1
  <2>6. (main = "draining" /\ expired) => main = "draining"
    OBVIOUS
  <2>7. QED
    BY <2>1, <2>2, <2>3, <2>4, <2>5, <2>6, PTL
<1>5. Fair => ((main = "returning") ~> (main = "returned" \/ main = "exited"))
  <2>1. (main = "returning") /\ [Next]_vars
          => (main = "returning")' \/ (main = "returned" \/ main = "exited")'
    BY MainMoves
  <2>2. (main = "returning") /\ <<MainStep>>_vars => (main = "returned" \/ main = "exited")'
    BY MainStepMoves
  <2>3. NobodyStuck /\ (main = "returning") => ENABLED <<MainStep>>_vars
    BY <1>1
  <2>4. QED
    BY <2>1, <2>2, <2>3, PTL
<1>6. Fair => ((main = "returned") ~> (main = "exited"))
  <2>1. (main = "returned") /\ [Next]_vars => (main = "returned")' \/ (main = "exited")'
    BY MainMoves
  <2>2. (main = "returned") /\ <<MainStep>>_vars => (main = "exited")'
    BY MainStepMoves
  <2>3. NobodyStuck /\ (main = "returned") => ENABLED <<MainStep>>_vars
    BY <1>1
  <2>4. QED
    BY <2>1, <2>2, <2>3, PTL
<1>7. Fair => StopsOnSignal
  BY <1>2, <1>3, <1>4, <1>5, <1>6, PTL DEF StopsOnSignal
<1>8. QED
  BY <1>7, PTL DEF FairSpec, Spec, Fairness
-----------------------------------------------------------------------------
(* The engine gets to its select, again and again.                         *)

\* The process has an engine from its boot on, and it works only while it is alive.
EngineFollowsMain ==
  /\ main = "boot" => engine = "unstarted"
  /\ Booted => engine # "unstarted"
  /\ engine = "panicked" => ~Running
  /\ job # Idle => engine \in {"startup", "select"}
  /\ ticks # {} => engine \notin {"unstarted", "created"}

\* What a step does to the engine: nothing, but for a tick or a panic that ends the process, or
\* one of its own moves.
LEMMA EngineMoves ==
  ASSUME EngineFollowsMain, [Next]_vars
  PROVE  \/ ~Running'
         \/ engine' = engine /\ agenda' = agenda /\ job' = job /\ ticks \subseteq ticks'
         \/ engine = "unstarted" /\ engine' = "created" /\ main = "boot"
         \/ StartTickers \/ NextStartupJob \/ FinishJob \/ SelectDone
         \/ \E t \in Ticker : SelectTick(t)
<1>1. CASE MainStep
  <2>1. CASE Boot
    BY <2>1 DEF Boot, EngineFollowsMain
  <2>2. CASE ~Boot
    BY <1>1, <2>2 DEF MainStep, Notify, ReceiveSignal, BeginShutdown, ShutdownExpires,
       ShutdownReturns, CloseStore, Exit, engineVars
  <2>3. QED
    BY <2>1, <2>2
<1>2. CASE ConfigRefused \/ BootFails
  BY <1>2 DEF ConfigRefused, BootFails, ExitsAtBoot, Running
<1>3. CASE Signal \/ Listen \/ ListenFails \/ RequestBegins \/ RequestEnds
  BY <1>3 DEF Signal, Listen, ListenFails, RequestBegins, RequestEnds, engineVars
<1>4. CASE NewTickerPanics
  BY <1>4 DEF NewTickerPanics, Running
<1>5. ASSUME NEW t \in Ticker, Tick(t) PROVE engine' = engine /\ agenda' = agenda /\ job' = job /\ ticks \subseteq ticks'
  BY <1>5 DEF Tick
<1>6. CASE UNCHANGED vars
  BY <1>6 DEF vars, engineVars
<1>7. QED
  BY <1>1, <1>2, <1>3, <1>4, <1>5, <1>6 DEF Next, EngineWork

\* EngineFollowsMain is kept by every step.
LEMMA StepEngine == ASSUME EngineFollowsMain, [Next]_vars PROVE EngineFollowsMain'
<1> USE DEF EngineFollowsMain, Running, Booted
<1>1. CASE Boot
  BY <1>1 DEF Boot, Idle
<1>1a. CASE MainStep /\ ~Boot
  BY <1>1a DEF MainStep, Notify, ReceiveSignal, BeginShutdown, ShutdownExpires, ShutdownReturns,
     CloseStore, Exit, engineVars
<1>1b. CASE ConfigRefused \/ BootFails \/ Signal
  BY <1>1b DEF ConfigRefused, BootFails, ExitsAtBoot, Signal, engineVars
<1>2. CASE Listen \/ ListenFails \/ RequestBegins \/ RequestEnds
  BY <1>2 DEF Listen, ListenFails, RequestBegins, RequestEnds, engineVars, mainVars
<1>3. CASE EngineWork \/ SelectDone
  BY <1>3 DEF EngineWork, StartTickers, NewTickerPanics, NextStartupJob, FinishJob, SelectDone,
     Selecting, mainVars
<1>4. ASSUME NEW t \in Ticker, Tick(t) \/ SelectTick(t) PROVE EngineFollowsMain'
  BY <1>4 DEF Tick, SelectTick, Selecting, mainVars
<1>5. CASE UNCHANGED vars
  BY <1>5 DEF vars, engineVars, mainVars
<1>6. QED
  BY <1>1, <1>1a, <1>1b, <1>2, <1>3, <1>4, <1>5 DEF Next

\* A server that failed has cancelled the context, for good.
FailureCancels == http = "failed" => ~live /\ main # "boot"

\* FailureCancels is kept by every step, and the failure lasts.
LEMMA StepFailure ==
  ASSUME FailureCancels, [Next]_vars
  PROVE  FailureCancels' /\ (http = "failed" => http' = "failed")
  BY DEF FailureCancels, Next, MainStep, EngineWork, ConfigRefused, BootFails, ExitsAtBoot, Boot,
     Notify, Signal, ReceiveSignal, BeginShutdown, AfterShutdown, ShutdownExpires, ShutdownReturns,
     CloseStore, Exit, Listen, ListenFails, Booted, RequestBegins, RequestEnds, StartTickers,
     NewTickerPanics, NextStartupJob, FinishJob, SelectDone, Tick, SelectTick, vars, mainVars,
     serverVars

\* The startup has four jobs at most.
AgendaShort == Len(agenda) <= 4

\* AgendaShort is kept by every step.
LEMMA StepAgenda == ASSUME IInv, AgendaShort, [Next]_vars PROVE AgendaShort'
<1> USE DEF AgendaShort
<1>1. agenda \in Seq(Ticker)
  BY DEF IInv, TypeOK
<1>2. CASE agenda' = agenda
  BY <1>2
<1>3. CASE StartTickers
  <2>1. agenda' = <<"host", "docker", "npm", "compromise">> \/ agenda' = <<"host", "docker", "npm">>
    BY <1>3 DEF StartTickers, StartupJobs
  <2>2. Len(<<"host", "docker", "npm", "compromise">>) = 4 /\ Len(<<"host", "docker", "npm">>) = 3
    OBVIOUS
  <2>3. Len(agenda') \in {3, 4}
    BY <2>1, <2>2, Zenon
  <2>4. \A k \in {3, 4} : k <= 4
    OBVIOUS
  <2>5. QED
    BY <2>3, <2>4, Zenon DEF AgendaShort
<1>4. CASE NextStartupJob /\ agenda # <<>>
  BY <1>1, <1>4 DEF NextStartupJob
<1>5. QED
  BY <1>2, <1>3, <1>4 DEF Next, MainStep, ConfigRefused, BootFails, ExitsAtBoot, Boot, Notify, Signal,
     ReceiveSignal, BeginShutdown, ShutdownExpires, ShutdownReturns, CloseStore, Exit, Listen,
     ListenFails, RequestBegins, RequestEnds, EngineWork, NewTickerPanics, NextStartupJob,
     FinishJob, SelectDone, Tick, SelectTick, vars, engineVars

\* What the proofs of liveness know of every state.
LInv == IInv /\ EngineFollowsMain /\ FailureCancels /\ AgendaShort

\* LInv is an invariant.
LEMMA LInvariant == Spec => []LInv
<1>1. Init => EngineFollowsMain /\ FailureCancels /\ AgendaShort
  BY DEF Init, EngineFollowsMain, FailureCancels, AgendaShort, Booted, Running
<1>2. EngineFollowsMain /\ FailureCancels /\ [Next]_vars => (EngineFollowsMain /\ FailureCancels)'
  BY StepEngine, StepFailure
<1>3. IInv /\ AgendaShort /\ [Next]_vars => AgendaShort'
  BY StepAgenda
<1>4. QED
  BY <1>1, <1>2, <1>3, Inductive, PTL DEF Spec, LInv

\* What FairSpec gives to the engine, with the enabling conditions of NobodyStuck.
EngineFair ==
  /\ [][Next]_vars /\ []LInv /\ []NobodyStuck
  /\ WF_vars(EngineWork) /\ SF_vars(SelectDone)

\* A fair behaviour in which nobody is stuck is one of them.
LEMMA FairSpecEngine == FairSpec /\ []NobodyStuck => EngineFair
  BY LInvariant, PTL DEF FairSpec, Spec, Fairness, EngineFair

\* The engine has left its startup, or the process has ended.
Settled == engine \in {"select", "stopped"} \/ ~Running

\* The engine is in its startup with n jobs to begin.
StartingUp(n) == Running /\ engine = "startup" /\ Len(agenda) = n

\* One of the jobs has begun since.
Fewer(n) == n # 0 /\ StartingUp(n - 1)

JobBegins(n) == StartingUp(n) ~> (Fewer(n) \/ Settled)

\* A startup job ends, or has ended, and the next one begins.
LEMMA StartupStep ==
  ASSUME NEW n \in Nat
  PROVE  EngineFair => JobBegins(n)
<1> DEFINE Busy == StartingUp(n) /\ job # Idle
           Free == StartingUp(n) /\ job = Idle
<1>1. Busy /\ LInv /\ [Next]_vars => Busy' \/ Free' \/ Settled'
  <2> SUFFICES ASSUME Busy, LInv, [Next]_vars, Running' PROVE Busy' \/ Free'
    BY DEF Settled
  <2>1. engine' = engine /\ agenda' = agenda
    BY EngineMoves DEF LInv, EngineFollowsMain, StartingUp, StartTickers, NextStartupJob, FinishJob, SelectDone, SelectTick,
       Selecting
  <2>2. QED
    BY <2>1 DEF StartingUp
<1>2. Busy /\ <<EngineWork>>_vars => Free' \/ Settled'
  <2> SUFFICES ASSUME Busy, EngineWork PROVE Free'
    OBVIOUS
  <2>1. FinishJob
    BY DEF StartingUp, EngineWork, StartTickers, NewTickerPanics, NextStartupJob
  <2>2. QED
    BY <2>1 DEF FinishJob, StartingUp, Running, mainVars
<1>3. ASSUME Free, LInv, NextStartupJob PROVE Fewer(n)' \/ Settled'
  <2>0. agenda \in Seq(Ticker)
    BY <1>3 DEF LInv, IInv, TypeOK
  <2>1. CASE agenda = <<>>
    BY <1>3, <2>1 DEF NextStartupJob, Settled
  <2>2. CASE agenda # <<>>
    <3>1. Len(agenda) = n /\ n # 0 /\ Len(Tail(agenda)) = n - 1
      BY <1>3, <2>0, <2>2 DEF StartingUp
    <3>2. agenda' = Tail(agenda) /\ engine' = engine /\ main' = main
      BY <1>3, <2>2 DEF NextStartupJob, mainVars
    <3>3. QED
      BY <1>3, <3>1, <3>2 DEF Fewer, StartingUp, Running
  <2>3. QED
    BY <2>1, <2>2
<1>4. Free /\ LInv /\ [Next]_vars => Free' \/ Fewer(n)' \/ Settled'
  <2> SUFFICES ASSUME Free, LInv, [Next]_vars, Running' PROVE Free' \/ Fewer(n)' \/ Settled'
    BY DEF Settled
  <2>1. CASE NextStartupJob
    BY <1>3, <2>1
  <2>2. CASE ~NextStartupJob
    <3>1. engine' = engine /\ agenda' = agenda /\ job' = job
      BY <2>2, EngineMoves DEF LInv, EngineFollowsMain, StartingUp, StartTickers, FinishJob, SelectDone, SelectTick, Selecting
    <3>2. QED
      BY <3>1 DEF StartingUp
  <2>3. QED
    BY <2>1, <2>2
<1>5. Free /\ LInv /\ <<EngineWork>>_vars => Fewer(n)' \/ Settled'
  <2> SUFFICES ASSUME Free, LInv, EngineWork PROVE Fewer(n)' \/ Settled'
    OBVIOUS
  <2>1. NextStartupJob
    BY DEF StartingUp, EngineWork, StartTickers, NewTickerPanics, FinishJob
  <2>2. QED
    BY <1>3, <2>1
<1>6. NobodyStuck /\ (Busy \/ Free) => ENABLED <<EngineWork>>_vars
  BY DEF NobodyStuck, StartingUp
<1>7. StartingUp(n) => Busy \/ Free
  OBVIOUS
<1> HIDE DEF Busy, Free
<1>8. QED
  BY <1>1, <1>2, <1>4, <1>5, <1>6, <1>7, PTL DEF EngineFair, JobBegins

InStartup == Running /\ engine = "startup"

\* The startup ends: it has four jobs to begin at most.
LEMMA StartupSettles == EngineFair => (InStartup ~> Settled)
<1>1. LInv /\ InStartup => StartingUp(0) \/ StartingUp(1) \/ StartingUp(2) \/ StartingUp(3) \/ StartingUp(4)
  <2>1. LInv => Len(agenda) \in Nat /\ Len(agenda) <= 4
    BY DEF LInv, IInv, TypeOK, AgendaShort
  <2>2. \A n \in Nat : n <= 4 => n \in {0, 1, 2, 3, 4}
    OBVIOUS
  <2>3. LInv => Len(agenda) \in {0, 1, 2, 3, 4}
    BY <2>1, <2>2
  <2>4. QED
    BY <2>3 DEF InStartup, StartingUp
<1>2. /\ EngineFair => JobBegins(0) /\ JobBegins(1) /\ JobBegins(2) /\ JobBegins(3) /\ JobBegins(4)
  BY StartupStep
<1>3. /\ ~Fewer(0)
      /\ Fewer(1) => StartingUp(0)
      /\ Fewer(2) => StartingUp(1)
      /\ Fewer(3) => StartingUp(2)
      /\ Fewer(4) => StartingUp(3)
  BY DEF Fewer
<1>4. QED
  BY <1>1, <1>2, <1>3, PTL DEF EngineFair, JobBegins

\* The engine starts its tickers, or dies of them.
LEMMA TickersStart == EngineFair => ((Running /\ engine = "created") ~> (InStartup \/ Settled))
<1> DEFINE Created == Running /\ engine = "created"
<1>1. Created /\ LInv /\ [Next]_vars => Created' \/ InStartup' \/ Settled'
  <2> SUFFICES ASSUME Created, LInv, [Next]_vars, Running' PROVE Created' \/ InStartup'
    BY DEF Settled
  <2>1. engine' \in {"created", "startup"}
    BY EngineMoves DEF LInv, EngineFollowsMain, StartTickers, NextStartupJob, FinishJob, SelectDone,
       SelectTick, Selecting
  <2>2. QED
    BY <2>1 DEF InStartup
<1>2. Created /\ LInv /\ <<EngineWork>>_vars => InStartup' \/ Settled'
  <2> SUFFICES ASSUME Created, LInv, EngineWork PROVE InStartup' \/ Settled'
    OBVIOUS
  <2>1. StartTickers \/ NewTickerPanics
    BY DEF LInv, EngineFollowsMain, EngineWork, NextStartupJob, FinishJob
  <2>2. QED
    BY <2>1 DEF StartTickers, NewTickerPanics, InStartup, Settled, Running, mainVars
<1>3. NobodyStuck /\ Created => ENABLED <<EngineWork>>_vars
  BY DEF NobodyStuck
<1> HIDE DEF Created
<1>4. EngineFair => (Created ~> (InStartup \/ Settled))
  BY <1>1, <1>2, <1>3, PTL DEF EngineFair
<1>5. QED
  BY <1>4 DEF Created

InSelect == Running /\ engine = "select"

Ended == engine = "stopped" \/ ~Running

\* The loop of the engine is only left for good.
LEMMA SelectStays == ASSUME InSelect, LInv, [Next]_vars PROVE InSelect' \/ Ended'
<1>1. engine' \in {"select", "stopped"} \/ ~Running'
  BY EngineMoves DEF InSelect, LInv, EngineFollowsMain, StartTickers, NextStartupJob, FinishJob,
     SelectDone, SelectTick, Selecting
<1>2. QED
  BY <1>1 DEF InSelect, Ended

\* The job of the engine ends, and it is at its select.
LEMMA JobEnds == EngineFair => (InSelect ~> (Selecting \/ Ended))
<1> DEFINE Busy == InSelect /\ job # Idle
<1>1. Busy /\ LInv /\ [Next]_vars => Busy' \/ Selecting' \/ Ended'
  BY SelectStays DEF InSelect, Selecting
<1>2. Busy /\ <<EngineWork>>_vars => Selecting' \/ Ended'
  <2> SUFFICES ASSUME Busy, EngineWork PROVE Selecting'
    OBVIOUS
  <2>1. FinishJob
    BY DEF InSelect, EngineWork, StartTickers, NewTickerPanics, NextStartupJob
  <2>2. QED
    BY <2>1 DEF FinishJob, InSelect, Selecting, Running, mainVars
<1>3. NobodyStuck /\ Busy => ENABLED <<EngineWork>>_vars
  BY DEF NobodyStuck, InSelect
<1>4. InSelect => Busy \/ Selecting
  BY DEF InSelect, Selecting
<1> HIDE DEF Busy
<1>5. QED
  BY <1>1, <1>2, <1>3, <1>4, PTL DEF EngineFair

\* From the start of the engine on, it is at its select again and again, until it stops or the
\* process ends.
LEMMA SelectRecurs == EngineFair => ((Booted /\ engine # "unstarted") ~> (InSelect \/ Ended))
<1>1. LInv /\ Booted /\ engine # "unstarted" =>
        (Running /\ engine = "created") \/ InStartup \/ InSelect \/ Ended
  BY DEF LInv, IInv, TypeOK, EngineFollowsMain, InStartup, InSelect, Ended
<1>2. Settled => InSelect \/ Ended
  BY DEF Settled, InSelect, Ended
<1>3. QED
  BY <1>1, <1>2, StartupSettles, TickersStart, PTL DEF EngineFair

\* A server that fails stops the engine, whatever ticks keep coming: the context is done for
\* good, and a select that is reached again and again takes that case.
THEOREM HttpFailureStops == FairSpec /\ []NobodyStuck => HttpFailureStopsEngine
<1> DEFINE Failed == http = "failed"
<1>1. Failed /\ LInv /\ [Next]_vars => Failed'
  BY StepFailure DEF LInv
<1>2. Failed /\ LInv => Ended \/ (Booted /\ engine # "unstarted")
  BY DEF LInv, FailureCancels, EngineFollowsMain, Booted, Running, Ended
<1>3. Failed /\ LInv /\ NobodyStuck /\ Selecting => ENABLED <<SelectDone>>_vars
  BY DEF LInv, FailureCancels, Done, NobodyStuck
<1>4. <<SelectDone>>_vars => Ended'
  BY DEF SelectDone, Ended
<1>5. InSelect /\ LInv /\ [Next]_vars => InSelect' \/ Ended'
  BY SelectStays
<1>6. Ended => engine = "stopped" \/ ~Running
  BY DEF Ended
<1> HIDE DEF Failed
<1>7. EngineFair => (Failed ~> (engine = "stopped" \/ ~Running))
  BY <1>1, <1>2, <1>3, <1>4, <1>5, <1>6, SelectRecurs, JobEnds, PTL DEF EngineFair
<1>8. EngineFair => HttpFailureStopsEngine
  BY <1>7 DEF Failed, HttpFailureStopsEngine
<1>9. QED
  BY <1>8, FairSpecEngine, PTL

\* What a ticker needs of FairSpec.
TicksFair == \A t \in Ticker : TakenIfReady(t)

\* A ticker that fired is served, however often the others fire: the engine is at its select
\* again and again, and a case that is ready each time is taken.
THEOREM TickersServed == FairSpec /\ []NobodyStuck => TicksServed
<1>1. ASSUME NEW t \in Ticker PROVE EngineFair /\ TakenIfReady(t) => TickServed(t)
  <2> DEFINE Waits == t \in ticks
             Served == t \notin ticks \/ engine = "stopped" \/ ~Running
  <2>1. Waits /\ LInv => Served \/ InStartup \/ InSelect
    BY DEF LInv, IInv, TypeOK, EngineFollowsMain, InStartup, InSelect
  <2>2. Settled => InSelect \/ Ended
    BY DEF Settled, InSelect, Ended
  <2>3. CanTake(t) /\ Waits /\ Selecting => ENABLED <<SelectTick(t)>>_vars
    BY DEF CanTake, Ready
  <2>4. NobodyStuck => CanTake(t)
    BY DEF NobodyStuck
  <2>5. <<SelectTick(t)>>_vars => Served'
    BY DEF SelectTick
  <2>6. InSelect /\ LInv /\ [Next]_vars => InSelect' \/ Ended'
    BY SelectStays
  <2>7. Ended => Served
    BY DEF Ended
  <2>8. Waits \/ Served
    OBVIOUS
  <2> HIDE DEF Waits, Served
  <2>9. EngineFair /\ TakenIfReady(t) => (Waits ~> Served)
    BY <2>1, <2>2, <2>3, <2>4, <2>5, <2>6, <2>7, <2>8, StartupSettles, JobEnds, PTL
       DEF EngineFair, TakenIfReady
  <2>10. QED
    BY <2>9 DEF Waits, Served, TickServed
<1>2. EngineFair /\ TicksFair => TicksServed
  BY <1>1 DEF TicksFair, TicksServed
<1>3. FairSpec => TicksFair
  BY PTL DEF FairSpec, Fairness, TicksFair
<1>4. QED
  BY <1>2, <1>3, FairSpecEngine, PTL
================================================================================
