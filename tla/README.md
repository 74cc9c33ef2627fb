# Monitorized: models, checks and proofs

This directory holds TLA+ models of Monitorized (the Go program under `src/`), the TLC
configurations that check them on small instances, and proofs checked by TLAPS. Line
references are to the files under `src/`.

## 1. Inventory of the system

One process, one SQLite database. `main` opens the store, starts the **engine** goroutine
and the **HTTP server**, then waits for a signal.

| Component | State it keeps | Operations | Hard behaviours | What makes it correct |
|---|---|---|---|---|
| Compromise watch: `internal/compromise/scanner.go`, `breach.go`, `threatintel.go`, `storage/compromise.go` | tables `compromise_targets`, `compromise_findings`, rows of `alerts`; per scan: target list, current target | `Run`, `buildTargets`, `scanEmail/Domain/IP`, `record`, store statements | scans overlap (a goroutine per tick and per click), each statement interleaves with API edits and the purge; contexts end mid-target; two-statement `record` | one alert per inserted row, one per scan forgotten at a fault, lowercase fingerprints, removed targets stay removed, scans end |
| Targets API: `api/handlers.go:173-250`, `parse.go` | the same tables | add, bulk import, delete, scan now | edits race with scans that listed the targets before; bulk import has no transaction | only the user brings a target back |
| NPM ingestion: `collector/npm.go` | offsets in memory, `npm_requests` | `Collect`, `tailFile`, `parseNPMLine` | rotation and truncation during the tail, half-written lines, insert errors mid-file, restart without offsets | one repeat and one new run per fault, nothing skipped, lines arrive |
| Engine and process: `engine/engine.go`, `cmd/monitorized/main.go` | tickers, context, goroutines | `Engine.Run`, shutdown | random `select`, capacity-1 tick channels, cancellation, store closed under running goroutines | ticks are served, shutdown ends, "arrêt propre" is clean |
| Retention and windows: `sqlite.go:264-321`, `compromise.go:128-146` | timestamps of every table | `PurgeOlderThan`, summaries, history | sequence of DELETEs stops at the first error; some tables never purged; windows over ingestion times | nothing older than the retention, nothing younger lost |
| Store connection: `sqlite.go:19-39` | one connection | every statement | everyone waits for the one connection | nobody waits for the connection while holding it |
| Collectors: `collector/host.go`, `docker.go` | previous CPU/network counters, samples | `Collect` | clocks going back, containers removed between list and stats, counter deltas | latest sample is shown, alerts belong to the sample |
| Request chain: `waf.go`, `router.go`, `auth.go` | block list, limiter bucket, tokens | middlewares, block/unblock, login | block read before the handler runs, error on the read, burst and refill, expiry | blocked addresses are refused, 20 req/s and burst 40 hold |
| Configuration: `config.go` | none | `Load`, `Valid` | durations that overflow or are not positive | an environment of sound intervals starts |
| Dashboard: `static/app.js`, `index.html` | token, target list, DOM | login, refresh, loads, edits | responses out of order, a late 401 after a new login | what is shown belongs to the session and the latest load |
| Read-only API | none | overview, lists | none beyond the windows | – |
| Style, packaging, deployment | none | – | – | – |

Interactions: the engine calls the collectors in its own goroutine and starts scans in
goroutines of their own; handlers and scans meet only in the database; the context of
`main` reaches the engine, its collectors and its scans, but not the manual scans, whose
context hangs from `context.Background` with a 15 minute timeout.

## 2. Plan

Order of work, most important behaviour first:

1. `CompromiseScan`, with `AlertLedger` as its abstract specification, and
   `CompromiseScanProofs` — done.
2. `NpmTail` — done, with `NpmTailProofs` and `NpmTailOrderProofs`.
3. `Process` over `Config`: environment, tickers, `select`, HTTP failure, signal, shutdown —
   done, with `ProcessProofs`.
4. `Retention`: time-stamped rows, collectors, findings that wait for their INSERT, the purge with
   errors — done, with `RetentionProofs`.
5. `Requests`: middlewares, limiter, block list, the statements of every handler and the one
   connection under them — done, with `RequestsProofs`.
6. `Dashboard`: sessions, loads, edits and timers of the page — done, with `DashboardProofs`.

Left out after consideration: the loop of `ParseBulk` (one lookup in a map of the targets already
seen), of which a model would only restate the code. A composition of `Process` with the scans
of `CompromiseScan` (what a shutdown can cut) would show little more than `Restart` does, which
cuts a scan anywhere; one of `Retention` with `NpmTail` puts rows with an ingestion time under
the purge.

## 3. Modules

### CompromiseScan, AlertLedger

`CompromiseScan` has one action per SQL statement and per outside call of a scan: the store
has one connection (`sqlite.go:28`), so a statement is atomic and everything between two
statements interleaves. State:

| Variable | Code |
|---|---|
| `targets` | `compromise_targets`: row absent, enabled=1, enabled=0 |
| `findings` | `compromise_findings`, by fingerprint |
| `alerts` | rows of `alerts` with source `compromise`, counted |
| `pc`, `todo`, `cur`, `step`, `found`, `owed` | where `Run`, `scanX` and `record` stand, per goroutine; `owed` is the finding between the two statements of `record` |
| `live`, `root` | the contexts: of a scan, of `main` |
| `bulk` | the lines a bulk import has still to upsert |
| `purged`, `faults` | history and bound |

Actions follow `Run`: `ListTargets` and `AddAutoTargets` (`buildTargets`), `StartTarget`
(the upsert at the head of the loop body), `Check` (one outside call), `Record` and
`RecordAlert` (the two statements of `record`), `EndTarget`, `EndScan`. `RunCompromise` and
`CompromiseScanNow` start scans; the slots of `EngineScan` and `ManualScan` bound how many
run at once. The handlers are `CompromiseAddTarget`, `CompromiseDeleteTarget`,
`CompromiseBulkTargets` with one `BulkUpsert` per line. `Restart` ends the process anywhere.
A statement whose context is done fails; any other may fail as a counted fault.

Abstracted: the payload of findings (the fingerprint is all the table is keyed by), the
exchange with each source (reduced to which findings of `World` it yields, or an error), the
`source` column, the order of the target list (nothing depends on it), timestamps (the purge
deletes any set of rows).

`AlertLedger` states what the watch promises of its alerts: a row that enters the table
elects at most one alert; an elected alert is raised once or lost. `CompromiseScan`
implements it with `pending` mapped to the number of scans that owe the alert.

### NpmTail

A file is a sequence of half lines; offsets count halves. `OpenFile` is open, stat and seek
(`npm.go:52-71`), `Read` the scanner, `InsertNPM`, `Unparsed` and `InsertFails` the three
outcomes of a token, `SaveOffset` the end of `tailFile`. nginx and logrotate are external
actions: create, rename, truncate, write whole or torn. The offset of a path is in memory
and `Restart` loses it. Each row carries the hour of its ingestion, as `parseNPMLine` stamps
`time.Now()`.

Abstracted: bytes, the regular expressions (a whole line parses, a torn one may not), the
64 KiB limit of `bufio.Scanner`, the mutex around `offset` (one goroutine uses it).

### Config, Process

`Config` is `Load` and `Valid` for the settings the start depends on. A setting is the set of the
values it parses to, `{}` when it is unset, empty or malformed; `DurationSec` multiplies by
`time.Second` and wraps around as a 64 bit `time.Duration` does (`HalfWord` and `Second` are
constants, small in the run).

`Process` extends it: `env` is the environment of the process and never changes. `main` walks
from `boot` to `exited`; the server's goroutine is `http` and the requests in service, the
engine's is `engine` with its startup `agenda`, the tickers whose channel holds a tick (`ticks`,
capacity 1: a set) and the `job` that occupies it. `ConfigRefused` and `BootFails` are the
`os.Exit(1)` of the boot. `NewTickerPanics` is `time.NewTicker` on an interval that is not
positive: `Valid` does not look at the intervals, and the panic takes the process with it.
`Signal` before `signal.Notify` kills the process. `ListenFails` cancels the context; `main` goes
on waiting for a signal. `BeginShutdown`, `ShutdownExpires` and `ShutdownReturns` are
`httpSrv.Shutdown` with its deadline; `CloseStore` the deferred closes. `SelectTick` takes any
ticker that is ready, `SelectDone` the end of the context, with nothing to prefer one over the
other.

Abstracted: what a job does, keep-alive connections (a request is a connection that is active).
`collector.NewDocker` always returns a client, so the branches without one (`main.go:41-43`,
`engine.go:51`, `69`) are dead. Strings and lists of the configuration (addresses, paths, keys,
origins) have no effect on anything modelled.

### Retention

One row set per table; a row is an identifier, a timestamp and what its readers look
at (a CPU above 90 % or not, a container, a finding). The engine's steps are `CollectHost`,
`Judge` and `AlertCPU` (`Host.Collect` and `collectHost`), `ListContainers` and `Snapshot`
(`Docker.Collect`), `IngestNPM`, and `StartPurge`, `PurgeTable`, `CutFindings` and
`PurgeCompromiseFindings` (`PurgeOlderThan`, which computes a cutoff for three tables and a second
one for the findings). `StatementFails` is the error return of any of them. A scan takes the
timestamp of a finding in one step (`Record`, `scanner.go:149`) and inserts it in another
(`InsertCompromiseFinding`, which enters the row, finds one there or fails): in between it waits for
the connection, as the purge does between a cutoff and its DELETE, and time, purges and other scans
go on. What is promised of a lasting finding is therefore about the moment of its INSERT
(`FindingsReenterExpired`): the previous row is older than the retention then. The timestamps of the
two rows may be as close as the wait makes them, and so may the alerts when the first one waited.
Host samples, CPU alerts and NPM rows are stamped and inserted in one step: the engine is alone in
writing samples and NPM rows, one after the other, and no property depends on the delay.
`Wrap` is the width of `time.Duration`, in which the retention is computed (`sqlite.go:307`);
`RetentionFits` says that the product does not leave it. The reads are not part of it, but for the
sample read back (`LatestHost`); the statistics of the NPM logs are `NPMStats` of `NpmTail`.

Abstracted: measurements, the columns nobody filters on, what Docker lists (any set of containers);
the clock does not go back; time is
counted in units of a duration, of which a day (`Day`) and the word (`HalfWord`) have few in the
runs, and timestamps are not rounded to seconds.

### Requests

A request of a slot walks through `pc`: `check` (the block list, `IsBlocked`), `rules`
(`Suspicious`, `AnswerEarly`, `PassRules`), `refuse` (the alert of a suspicious target), `limit`
(`Allow`), `auth` (`AnswerWithoutStore`, `Handle`), `work` with its `todo`, the statements its
handler has not finished (`Statements` lists them per route). `conn` is the one connection
(`SetMaxOpenConns(1)`, `sqlite.go:28`): `Acquire` gets it, `Execute` gives it back with the effect
of the statement (one operator for the statements of all handlers, which differ in what `Statements`
lists and in `Effect`), `StatementFails` goes on or answers 500 as the handler does with that error.
The engine and the scans are one more user of it, which takes it and gives it back at any time.
`ContextDone` is the 30 seconds of `middleware.Timeout` or a client that leaves: statements with
that context fail from then on, while `IsBlocked`, `BlockIP` and `UnblockIP` do not look at it.
`Tick` adds what the limiter earns; `Restart` keeps the tables and fills the limiter. `passed`,
`at`, `events` and `due` are history.

Abstracted: the patterns and rules (whether a target is suspicious is a choice), the signature and
expiry of tokens (valid or not), headers, bodies, and every table but `blocked_ips` and the
alerts of the two sources the chain writes.

### Dashboard

The page of `app.js` with the calls it has in flight. A task is a handler of a click or timer, or
a refresh of the overview; `kind` says what it does, `calls` holds its calls with the token they
were sent with. `Serve` answers a call on the server, `Deliver` hands the answer to the page, both
in any order: a load waits for all of its answers (`DeliverPart`, the `Promise.all` of
`loadCompromisePage`), an edit for its own before it loads again, a refresh draws from a second
call. Any error stops a task, and any 401 drops the token and shows the login (`EndsSession`),
whichever token the call carried; the other calls of a load stay in flight (`rejected`). `button`
and `scanLoad` are the scan button and the timer of ten seconds. `Open` loads the page or reloads
it; the browser may hold the token of an earlier visit, which has expired. `Expire` is the 24
hours of a token.

The table of targets is a version number, one per change; `Seed` stands for the changes that do
not come from this page's calls (scans adding targets, an edit of the page before it was
reloaded). `confirmed` and `alone` are history.

Abstracted: filter, search and drawing, which only read what the last load left; messages. One
tab is open: two of them share the token of `localStorage` without being told of its changes.

## 4. Runs

| Run | Instance and bounds | Shows |
|---|---|---|
| `scan_email` | 1 email, 1 breach both sources know, 1 engine + 1 manual scan, API edits, 1 fault, 1 purge of each row, fairness | `TypeOK`, `NeverAlertedTwice`, `AlertsAccountedFor`, `ImplementsLedger`, `ListedIsScanned` |
| `scan_mixed` | an address in two cases and one NPM host, automatic targets, 1 scan, API edits, 1 fault, no purge, fairness | `FindingsNormalized`, `FindingHasTarget`, `ScanEnds`, `ListedIsScanned`, `RemovalSettles` |
| `scan_reenables` | 2 user targets, 1 scan, no fault | `OnlyTheUserReenables` is violated |
| `npm_safety` | 1 path, 2 lines, 2 files, torn writes, 1 hour passing, 2 faults | `TypeOK`, `RepeatsBounded`, `RowsInOrder`, `NothingSkipped` |
| `npm_live` | 2 paths, 2 lines, 1 fault, fairness | `LinesArrive` |
| `npm_stats_day` | 1 line, a "day" of one hour | `StatsOfTheDay` is violated |
| `process` | 7 environments on 16 bit durations, 5 tickers, 1 request that may hang, fairness | `TypeOK`, `SoundEnvironmentStarts`, `RequestsKeepStore`, `NoRequestAfterShutdown`, `NobodyStuck`, `StopsOnSignal`, `TicksServed`, `HttpFailureStopsEngine` |
| `retention` | 3 rows in any tables, 1 scan with 1 finding, 4 points in time, a retention of one day of 2 units that fits the word, 1 fault, fairness | `TypeOK`, `AlertPerHighSample`, `OnlyExpiredPurged`, `FindingsReenterExpired`, `ExpiredGo` |
| `retention_alerts` | 2 rows, no fault, fairness | `AlertsRetained` is violated |
| `requests` | 2 requests at once, 3 in all, 2 addresses, 3 routes, rate 1, burst 2, 1 tick, 1 fault, fairness | `TypeOK`, `BlockHolds`, `RateBound`, `AlertsAccounted`, `NobodyStuck`, `EveryRequestEnds` |
| `dashboard` | 2 handlers, 1 refresh, 1 change of the targets, 2 tokens, failures | `TypeOK`, `DashboardHasToken`, `AloneIsCurrent`, `ButtonReturns`, `OwnAnswersKeepToken` |
| `dashboard_stale` | the same, no failure | `RemovedIsGone` is violated |

Why the bounds suffice. Two scans are the smallest overlap and every race of `record` is
between two goroutines and the purge, which lets a finding return while a scan still owes its
alert (a second purge of the same row adds nothing that two scans could tell apart, and
`CompromiseScanProofs` covers any number); one shared finding is enough for it, and two sources
that know one breach give the merge its cases. One fault puts a crash, a dead context
or a failed statement at every point, and one is enough to cost two scans the alert each of them
owes; two make the tail start over twice. Two lines and two files are what a saved offset needs to
be wrong in each way: shorter file, longer file, file renamed under the reader. One request
is enough to tell a shutdown that drains from one that expires: it ends or hangs, and the
shutdown waits for the last one whatever their number (`ProcessProofs` covers any number). Three
rows let a finding expire and return, a sample meet another or its alert, and a row of one
table outlive another's purge; a retention of two units within four leaves room before, at and
after the cutoff, and for a finding noted before a cutoff and inserted after the DELETE; the
theorems of `RetentionProofs` cover every other value, and several scans that hold notes of one
finding. The environments of `process` are
the defaults, an interval of zero, one that wraps to a negative duration, the watch disabled and
enabled with such an interval, and the two refusals of `Valid`. Two
requests and the engine are the smallest crowd on one connection; a third request meets what the
first two have left in the block list; the routes are one with dropped errors, the two that
write the block list, and `RequestsProofs` covers all of them. Two handlers are the smallest
overlap of loads; one change is what a stale load can miss; the second token is the login that a
late 401 of the first visit can hit.

The process that `process` checks ends (`exited`), so deadlock is not an error there; it is
checked in every other run.

Fairness. `scan_mixed` and `scan_email` assume weak fairness of each scan's next step: goroutines are
scheduled, outside calls time out after 8 to 20 seconds, statements after the 5 second busy
timeout. `npm_live` assumes weak fairness of starting a `Collect` (the engine's ticker) and
of its next step. `process` assumes weak fairness of `main` (it is scheduled, and the 10 seconds of
its deadline pass) and of the engine's jobs, which end (each Docker call has a 15 second
timeout, statements the busy timeout, the host is read from /proc), and strong fairness of
every case of the `select`: Go picks at random among the ready ones, so one that is ready at
every round is taken with probability one. Requests may hang for ever. `retention` assumes weak
fairness of the engine's next statement and strong fairness of the purge's tick, which is
`TicksServed`. `requests` assumes weak fairness of each request's step and of the end of the
statement that has the connection, the engine's included, and strong fairness of `Acquire`: database/sql queues its waiters and hands
them the connection as it is given back. `dashboard` assumes none: its properties are safety
properties, and that the button comes back follows from `ButtonReturns`, since while it is disabled
a call or a timer of the browser is pending. Nothing obliges users, nginx, faults or time.

Violations. Four runs check what the documentation or the page says and find the code
doing otherwise: see `findings` in PROJECT.json.

Seen while modelling, without a document that says otherwise: a wrong password is shown as an
expired session, since any 401 is (`app.js:23-26`); after a login by the form the overview is not
refreshed every 15 seconds until the page is reloaded (the interval is set at load time only);
findings of severity "warning" raise alerts of level "critical". RETENTION_DAYS is not bounded: beyond
106751 days the product wraps (`Wrap`), and 200000, meant to keep everything, puts the cutoff 37
years in the future, so that the next purge empties the tables; `RetentionFits` excludes it from the
properties. Two Docker collects within one second (a tick served late, then the next one) share the
latest timestamp, and `LatestContainers` (`sqlite.go:241-262`) lists each container twice until the next collect.

## 5. Proofs

`CompromiseScanProofs` proves, for all values of the constants under `ConstantsAssumption`:

- `TypeCorrect`: `Spec => []TypeOK`. `TypeOK` is not inductive: `Check` needs to know that a
  scan past `StartTarget` has a target, and `RecordAlert` that an alert is owed. The
  inductive invariant is `IInv == TypeOK /\ WorkKnown /\ OwedWhileAlerting`.
- `RecordedLowercase`: `WorkKnown` carries that everything a scan holds is lowercase.
- `OneAlertPerRow`: `NeverAlertedTwice` is inductive relative to `IInv`. `StepOwing` lists
  the six ways a step moves rows, owed alerts and alerts; `OwingCounts` does the counting.
- `ScansImplementLedger`: the same six ways map to steps of `AlertLedger`.
- `AllAlertsRaised` says what a fault costs: at most one alert per scan. A statement that fails or a
  crash loses the alerts owed at that moment; a context that ends leaves scans that will lose theirs
  (`Doomed`). `LossBounded` charges both to the faults: only a fault dooms a scan
  (`DoomedByFaults`) or loses an alert of one that is not doomed (`FaultsOnlyLose`, `StepLoss`), and
  it can do so to every scan at once. TLC finds the bound of one alert per fault violated.
- `FindingsTraceable`: a finding without the row of its target takes a fault of its own. At any time
  such targets, and those a scan past `StartTarget` works on without a row, are at most `faults`
  (`Loose`, `LooseBounded`): the upsert that fails is the only way in.
- `RemovalIsFinal`: from `WhoEnables` (only the user, or a scan holding the target) and
  `WhatIsListed` (only enabled or automatic targets).

`RetentionProofs` proves `TypeCorrect`, `NothingPurgedEarly`, `LastingFindingsExpireFirst` and
`AlertsFollowSamples`. The first and the last hold for every integer retention, zero and negative
ones and those that wrap around included; the other two for every one that fits a duration:
`Kept` is the retention in effect, and `KeptIsMeant` says that it is then the one asked for. The
inductive invariant adds to the types that a purge under way holds a cutoff not later than the
one it would compute now (`CutoffPast`: time passes between statements), that the timestamp of
a Docker list and those the scans have taken for their findings have been (`ListPast`, `NotesPast`),
and that a finding reported once has its row still, or that row is older than the retention
(`FindingsKept`), whenever its timestamp was taken. `InsertEnds` says how an INSERT of a scan ends,
`RowsMove` sorts the steps by what they do to the tables. For the alerts, `AlertsMatch` counts: the alerts raised and the one owed are at most the
samples above 90 %, and fall short of them by `Spare` at most, one for each fault and one for a disk
that refused an alert when it was full, after which it takes no sample either. `LatestIsNew` shows
that the row read back is the row inserted, since identifiers and times only grow (`RowsPast`).

`NpmTailProofs` proves `TypeCorrect` and `NothingForgotten` for any paths, lines, files and faults.
The inductive invariant is `IInv == Types /\ FilesExist /\ SoleFile /\ OffsetBehind /\ ReadBehind`:
a path that was never replaced has had one file at most, and what is behind its saved offset, or
behind the position of a tail of it, has its row, was cut, or is in the token at hand. Such a file
only grows, so what is behind a position stays there; a failed insert leaves the offset where it was.

`NpmTailOrderProofs` proves `FaultsBoundRepeats` and `RowsOrdered`, for any number of faults. One
order on the half lines carries both. `LogOrdered` is inductive whatever
fails: the files of a path hold their halves in increasing order, one file before the next, no line is
in two paths, and nothing read comes after the last half written; so every half has one place
(`OnePlace`), and what nginx writes is new to the collector. `Counted` then bounds the repeats. A half
that may still be read (`MayRead`: in the token, or unread while the context lives) is in at most
`faults` rows, any other in at most `faults + 1`: an insert takes its halves from the first group to
the second, and only a fault takes one back, at the price of itself. For the order, `InRuns` cuts the
rows where a fault made the collector start over: `InOrder` has what was read since the last cut before
what may still be read, as long as the context lives, and each fault adds a cut at most (`NextOrder`).
A failed insert after the context is done costs nothing: no row follows it before the restart, which
is a fault and a cut. `NoneUnread` is the fact about the code that both rest on: opening, reading
and saving never make a half behind the position or the offset readable again.

`ProcessProofs` proves `TypeCorrect`, `RequestsServed` and `NoneBeginsAfterShutdown` for any
number of requests: `ListenerFollowsMain` ties the listener to the steps of `main`,
`WaitedForRequests` the deadline to the requests left.

`SoundEnvironmentsStart` holds for every width of the durations and every set of environments: the
engine can only panic on the interval of a ticker it starts, and an interval that is positive and
whose product with the second fits the word is not changed by `Wrap`.

`RequestsProofs` proves `TypeCorrect`, `BlockKeepsOut`, `RateBounded` and `AlertsKept` for any
number of slots, addresses, routes, rate and burst. The inductive invariant is
`IInv == TypeOK /\ WorkRemains /\ TokensWithin /\ DueBlocked`: what is left of a handler is a rest
of its statements, the tokens spent and earned bound the requests passed since any tick, and an
address marked `due` is in the block list. `StepAlerts` sorts the steps by what they do to the
alerts, events and owed alerts, and `OwingCounts` does the counting. What is missing is charged to
the faults: a request whose context has ended will lose the alert it owes or comes to owe (`Doomed`),
only a fault ends contexts (`StepDoomed`), a restart all of them, and `Account` keeps the alerts lost
and to be lost within `faults * Cardinality(Slot)`. TLC finds `faults` alone violated.

`DashboardProofs` proves `TypeCorrect`, `ViewFollowsToken`, `ButtonComesBack`, `LoneLoadIsCurrent`
and `OwnCallsKeepSession` for any number of handlers, refreshes, changes and tokens. All of
`IInv` rests on which calls are in flight: `CallsOf` fits them to what their tasks do (`Begun`,
`Delivered`, `Followed` and `Answered` are what happens to them), `GoodCall` says what an answer
may hold (a refused token has expired, a login hands out a token, no version is ahead of the
server). `LoadsCurrent` adds to `AloneIsCurrent` that the load under way has, or will get, every
confirmed edit. That a login carries no token, which its 401 needs, is `DashboardHasToken` itself.

### Liveness

Four liveness properties are theorems: `SignalStops`, `HttpFailureStops` and `TickersServed` of
`ProcessProofs`, `RequestsEnd` of `RequestsProofs`. Each reads `FairSpec /\ []NobodyStuck => ...`.
Fairness speaks of `ENABLED`, about which TLAPS proves nothing, so what each proof needs to know of
it is written down as an invariant: `NobodyStuck` says, with explicit conditions on the state, when
the fair actions can be taken. It is a claim about the code of its own (`main` never waits for a
request longer than its deadline, the engine can always finish its job, a request waits for the
connection only), and TLC checks it in `process` and `requests`, on the instances of those runs;
the theorems take it from there to every value of the constants.

- `SignalStops`: the stages of `main` after a signal, each left by its weakly fair next step.
- `HttpFailureStops`: the server's failure cancels the context for good (`FailureCancels`). The
  startup has four jobs at most (`AgendaShort`), each of which ends (`StartupStep`), so the engine
  reaches its `select` (`StartupSettles`), comes back to it after every job (`SelectRecurs`), and
  strong fairness takes the end of the context, ticks or not.
- `TickersServed`: the same recurrence, for the channel of one ticker.
- `RequestsEnd`: the statement that has the connection ends and gives it back (`StepLowers`), so
  that it is free again and again (`ConnectionFreed`); a request at a statement gets it, or sees
  its context done, and goes on (`RequestMoves`). `StepsLeft` counts what a request still has
  before it: its own steps lower the count, others leave it (`OthersKeep`), and it starts at
  twelve at most (`TwelveSteps`, `HandlersShort`).

Only model-checked: both `NobodyStuck`, and the four other liveness properties. `ScanEnds`,
`ListedIsScanned`, `LinesArrive` and `ExpiredGo` need an induction whose length depends on the
data (targets listed, findings of a call, lines of a file, failures), with a temporal formula as its hypothesis; no theorem of the library can be
instantiated with one. The four above get by without because their chains of steps are bounded by
the code itself: four startup jobs, seven statements. Every other invariant, and every action
property, of a passing run is a theorem.

## 6. Not modelled

- The text of things: the patterns of the WAF, the regular expressions of the NPM log, what
  `ParseTarget` accepts, the bodies of the sources' answers. Each is reduced to its outcomes.
- `Throttle` (`scanner.go`), which only spaces out the outside calls.
- The measurements of `host.go` and `docker.go`, differences of unsigned counters included
  (`docker.go:121`), and the arithmetic of the rates.
- The list of the latest containers, the 7 day summary and the host history, whose LIMIT keeps the
  oldest samples of the window (`sqlite.go:224`): nothing says what a history that is cut off
  promises.
- The readings of `host.go` that fail without a value, whose nil dereference ends the process
  (`host.go:37`): whether they do is up to the library.
- The card of the overview that is labelled 24 h and counts one hour (`app.js:285`), the filter,
  the search and the drawing of the page, and two tabs open at once.
- Opening and migrating the database, styling, packaging and deployment.
