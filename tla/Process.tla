---------------------------------- MODULE Process ----------------------------------
(***************************************************************************)
(* The life of the process: main boots it, starts the engine and the HTTP   *)
(* server in goroutines of their own, waits for a signal and shuts down     *)
(* with a deadline of 10 seconds.  The engine runs its startup collects,    *)
(* then serves its tickers through a select until its context is done.      *)
(* Both start from the configuration that the environment gives (Config).   *)
(*                                                                         *)
(* What a collect or a scan does is in other modules (NpmTail,              *)
(* CompromiseScan); here it is a job that occupies the engine.  A scan      *)
(* occupies nothing: the engine starts it in a goroutine and goes on.       *)
(* NewDocker always returns a client: the branches without one are dead.    *)
(***************************************************************************)
EXTENDS Config, Sequences, FiniteSets

CONSTANTS
  Environment,  \* environments the process may be started in
  MaxRequests   \* bound: requests in service at once

ASSUME ConstantsAssumption == Environment \subseteq Environments /\ MaxRequests \in Nat

Ticker == {"host", "docker", "npm", "purge", "compromise"}

Idle == "idle"

VARIABLES
  env,       \* the environment of the process
  main,      \* where main stands
  sig,       \* a signal waits in the channel of main
  live,      \* the context of main is not done
  store,     \* the database: "unopened", "open" or "closed"
  expired,   \* the context of Shutdown is done
  http,      \* the server: "unstarted", "serving", "failed" or "closed"
  requests,  \* requests in service
  engine,    \* the engine's goroutine: "unstarted", "created", "startup", "select", "stopped" or
             \* "panicked"
  agenda,    \* startup jobs the engine has not begun
  ticks,     \* tickers whose channel, of capacity 1, holds a tick
  job        \* what the engine is doing, or Idle

mainVars   == <<env, main, sig, store, expired>>
serverVars == <<http, requests>>
engineVars == <<engine, agenda, ticks, job>>
vars       == <<mainVars, live, serverVars, engineVars>>

Init ==
  /\ env \in Environment
  /\ main = "boot" /\ sig = FALSE /\ live = TRUE /\ expired = FALSE
  /\ store = "unopened"
  /\ http = "unstarted" /\ requests = 0
  /\ engine = "unstarted" /\ agenda = <<>> /\ ticks = {} /\ job = Idle

Running == main # "exited"

cfg == Load(env)

-----------------------------------------------------------------------------
(* main.                                                                   *)

ExitsAtBoot == main' = "exited" /\ UNCHANGED <<env, sig, store, expired, live, serverVars, engineVars>>

\* config.Valid refuses the configuration: os.Exit(1).
ConfigRefused == main = "boot" /\ ~Valid(cfg) /\ ExitsAtBoot

\* The store does not open, or bcrypt refuses the password: os.Exit(1).
BootFails == main = "boot" /\ Valid(cfg) /\ ExitsAtBoot

Boot ==
  /\ main = "boot" /\ Valid(cfg)
  /\ main' = "starting" /\ store' = "open" /\ engine' = "created"
  /\ UNCHANGED <<env, sig, expired, live, serverVars, agenda, ticks, job>>

Notify ==
  /\ main = "starting"
  /\ main' = "waiting"
  /\ UNCHANGED <<env, sig, store, expired, live, serverVars, engineVars>>

\* SIGINT or SIGTERM: fatal until signal.Notify, afterwards kept in the channel or dropped.  Once
\* main has received one, nobody reads the next: it is left out.
Signal ==
  /\ main \in {"boot", "starting", "waiting"}
  /\ IF main \in {"boot", "starting"}
       THEN main' = "exited" /\ sig' = sig
       ELSE main' = main /\ sig' = TRUE
  /\ UNCHANGED <<env, store, expired, live, serverVars, engineVars>>

ReceiveSignal ==
  /\ main = "waiting" /\ sig
  /\ main' = "cancelled" /\ sig' = FALSE /\ live' = FALSE
  /\ UNCHANGED <<env, store, expired, serverVars, engineVars>>

AfterShutdownMut(h) == IF h = "serving" THEN "closed" ELSE h

\* The server after Shutdown: one that has not begun to listen never will.
AfterShutdown(h) == IF h = "failed" THEN h ELSE "closed"

BeginShutdown ==
  /\ main = "cancelled"
  /\ main' = "draining" /\ http' = AfterShutdown(http)
  /\ UNCHANGED <<env, sig, store, expired, live, requests, engineVars>>

ShutdownExpires ==
  /\ main = "draining" /\ ~expired
  /\ expired' = TRUE
  /\ UNCHANGED <<env, main, sig, store, live, serverVars, engineVars>>

DrainedMut == requests = 0

DrainedAtOnce == TRUE

\* httpSrv.Shutdown returns: every connection is idle, or its context is done.
Drained == requests = 0 \/ expired

ShutdownReturns ==
  /\ main = "draining" /\ Drained
  /\ main' = "returning"
  /\ UNCHANGED <<env, sig, store, expired, live, serverVars, engineVars>>

\* The deferred calls; Close of the Docker client does nothing.
CloseStore ==
  /\ main = "returning"
  /\ main' = "returned" /\ store' = "closed"
  /\ UNCHANGED <<env, sig, expired, live, serverVars, engineVars>>

\* main returns and takes every goroutine with it.
Exit ==
  /\ main = "returned"
  /\ main' = "exited"
  /\ UNCHANGED <<env, sig, store, expired, live, serverVars, engineVars>>

-----------------------------------------------------------------------------
(* The HTTP server.                                                        *)

Booted == main \notin {"boot", "exited"}

Listen ==
  /\ Booted /\ http = "unstarted"
  /\ http' = "serving"
  /\ UNCHANGED <<mainVars, live, requests, engineVars>>

\* The address is taken, or accept fails later: the goroutine cancels the context of main.
ListenFails ==
  /\ Booted /\ http \in {"unstarted", "serving"}
  /\ http' = "failed" /\ live' = FALSE
  /\ UNCHANGED <<mainVars, requests, engineVars>>

RequestBegins ==
  /\ Running /\ http = "serving" /\ requests < MaxRequests
  /\ requests' = requests + 1
  /\ UNCHANGED <<mainVars, live, http, engineVars>>

RequestEnds ==
  /\ Running /\ requests > 0
  /\ requests' = requests - 1
  /\ UNCHANGED <<mainVars, live, http, engineVars>>

-----------------------------------------------------------------------------
(* The engine.                                                             *)

\* The tickers of Run and their periods; the purge has a fixed one, of 6 hours.
Period == [host |-> cfg.HostInterval, docker |-> cfg.DockerInterval, npm |-> cfg.NPMInterval,
           purge |-> 21600 * Second, compromise |-> cfg.CompromiseInterval]

Tickers == IF cfg.CompromiseEnabled THEN Ticker ELSE Ticker \ {"compromise"}

\* time.NewTicker takes only positive periods.
PeriodsPositive == \A t \in Tickers : Period[t] > 0

\* The jobs of Run before its loop.
StartupJobs ==
  IF cfg.CompromiseEnabled THEN <<"host", "docker", "npm", "compromise">>
                           ELSE <<"host", "docker", "npm">>

StartTickers ==
  /\ Running /\ engine = "created" /\ PeriodsPositive
  /\ engine' = "startup" /\ agenda' = StartupJobs
  /\ UNCHANGED <<mainVars, live, serverVars, ticks, job>>

\* time.NewTicker panics: the process dies without the deferred calls of main.
NewTickerPanics ==
  /\ Running /\ engine = "created" /\ ~PeriodsPositive
  /\ engine' = "panicked" /\ main' = "exited"
  /\ UNCHANGED <<env, sig, store, expired, live, serverVars, agenda, ticks, job>>

\* A ticker fires; a tick that finds the channel full is dropped.
Tick(t) ==
  /\ Booted /\ engine \in {"startup", "select"} /\ t \in Tickers
  /\ ticks' = ticks \cup {t}
  /\ UNCHANGED <<mainVars, live, serverVars, engine, agenda, job>>

OccupiesMut(t) == TRUE

\* The engine does the job of a ticker itself, but for a scan, which has its own goroutine.
Occupies(t) == t # "compromise"

NextStartupJob ==
  /\ Running /\ engine = "startup" /\ job = Idle
  /\ IF agenda = <<>>
       THEN engine' = "select" /\ UNCHANGED <<agenda, job>>
       ELSE /\ agenda' = Tail(agenda)
            /\ job' = IF Occupies(Head(agenda)) THEN Head(agenda) ELSE Idle
            /\ engine' = engine
  /\ UNCHANGED <<mainVars, live, serverVars, ticks>>

FinishJob ==
  /\ Running /\ job # Idle
  /\ job' = Idle
  /\ UNCHANGED <<mainVars, live, serverVars, engine, agenda, ticks>>

Selecting == Running /\ engine = "select" /\ job = Idle

ReadyMut(t) == t \in ticks /\ (t # "host" => "host" \notin ticks)

\* select takes any ready case, not the first.
Ready(t) == t \in ticks

SelectTick(t) ==
  /\ Selecting /\ Ready(t)
  /\ ticks' = ticks \ {t}
  /\ job' = IF Occupies(t) THEN t ELSE Idle
  /\ UNCHANGED <<mainVars, live, serverVars, engine, agenda>>

DoneMut == ~live /\ ticks = {}

Done == ~live

\* case <-ctx.Done(): the engine returns and its tickers stop.
SelectDone ==
  /\ Selecting /\ Done
  /\ engine' = "stopped"
  /\ UNCHANGED <<mainVars, live, serverVars, agenda, ticks, job>>

-----------------------------------------------------------------------------

MainStep ==
  \/ Boot \/ Notify \/ ReceiveSignal \/ BeginShutdown \/ ShutdownExpires \/ ShutdownReturns
  \/ CloseStore \/ Exit

EngineWork == StartTickers \/ NewTickerPanics \/ NextStartupJob \/ FinishJob

Next ==
  \/ MainStep \/ ConfigRefused \/ BootFails \/ Signal
  \/ Listen \/ ListenFails \/ RequestBegins \/ RequestEnds
  \/ EngineWork \/ SelectDone
  \/ \E t \in Ticker : Tick(t) \/ SelectTick(t)

Spec == Init /\ [][Next]_vars

TakenIfReady(t) == SF_vars(SelectTick(t))

\* main is scheduled and its deadline passes; the engine is scheduled, its jobs end, and a case
\* of the select that is ready again and again is taken: Go picks among the ready cases at
\* random.  Requests may hang.
Fairness ==
  /\ WF_vars(MainStep)
  /\ WF_vars(EngineWork)
  /\ SF_vars(SelectDone)
  /\ \A t \in Ticker : TakenIfReady(t)

FairSpec == Spec /\ Fairness

-----------------------------------------------------------------------------
(* Properties.                                                             *)

\* The shape of the state; in particular a scan never occupies the engine (engine.go:84-93),
\* whatever starts it.
TypeOK ==
  /\ env \in Environment
  /\ main \in {"boot", "starting", "waiting", "cancelled", "draining", "returning", "returned",
               "exited"}
  /\ sig \in BOOLEAN /\ live \in BOOLEAN /\ expired \in BOOLEAN
  /\ store \in {"unopened", "open", "closed"}
  /\ http \in {"unstarted", "serving", "failed", "closed"}
  /\ requests \in 0..MaxRequests
  /\ engine \in {"unstarted", "created", "startup", "select", "stopped", "panicked"}
  /\ agenda \in Seq(Ticker)
  /\ ticks \subseteq Ticker
  /\ job \in {Idle, "host", "docker", "npm", "purge"}

\* The store is closed under a request only if Shutdown gave up at its deadline (main.go:82-84
\* before the deferred close of main.go:38): whoever began before the signal, or between the
\* signal and Shutdown, is waited for.
RequestsKeepStore == requests > 0 /\ store = "closed" => expired

\* Nobody begins a request once Shutdown has been called, whenever the server goroutine gets
\* to listen: a server that starts after Shutdown never serves (main.go:72, 84).
NoRequestAfterShutdown ==
  [][requests' > requests => main \in {"starting", "waiting", "cancelled"}]_vars

CanTake(t) == Selecting /\ Ready(t) => ENABLED <<SelectTick(t)>>_vars

\* No goroutine is stuck half way: main can go on to its end once it has a signal, whatever
\* requests hang (main.go:80-86); the engine can go on with its startup and its jobs, whatever
\* main does meanwhile, and take any case of its select that is ready (engine.go:50-81).
NobodyStuck ==
  /\ \/ main \in {"starting", "cancelled", "draining", "returning", "returned"}
     \/ main = "waiting" /\ sig
     => ENABLED <<MainStep>>_vars
  /\ Running /\ (engine \in {"created", "startup"} \/ job # Idle) => ENABLED <<EngineWork>>_vars
  /\ Selecting /\ Done => ENABLED <<SelectDone>>_vars
  /\ \A t \in Ticker : CanTake(t)

\* A signal that reached main ends the process, whatever requests and jobs hang (main.go:80-86).
StopsOnSignal == (main = "waiting" /\ sig) ~> (main = "exited")

\* A ticker that fired is served, whatever the other tickers do, unless the engine stops
\* (engine.go:62-81).
TickServed(t) == (t \in ticks) ~> (t \notin ticks \/ engine = "stopped" \/ ~Running)

TicksServed == \A t \in Ticker : TickServed(t)

\* An interval the user has set, from one second to the longest duration, or left alone.
SoundInterval(setting) == \A n \in setting : n >= 1 /\ n * Second < HalfWord

SoundEnvironment(e) ==
  /\ SoundInterval(e.host) /\ SoundInterval(e.docker) /\ SoundInterval(e.npm)
  /\ Env(e.enabled, "true") = "true" => SoundInterval(e.compromise)

\* Whatever is unset or malformed among the intervals, and whatever the compromise interval
\* says when the watch is disabled, the engine gets past its tickers when the others lie in
\* range.  Outside of it Valid lets through intervals that bring the process down at its
\* start (config.go:38-46, 83; engine.go:36-42).
SoundEnvironmentStarts == engine = "panicked" => ~SoundEnvironment(env)

\* A server that fails stops the engine, although ticks keep coming and no signal does
\* (main.go:74, engine.go:64).
HttpFailureStopsEngine == (http = "failed") ~> (engine = "stopped" \/ ~Running)
================================================================================
