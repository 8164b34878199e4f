# A verification of the HyperLiquid client

The program (`src/`, Go) keeps a WebSocket session with a relay server, receives
signed trading instructions, checks them against the user's risk limits and
executes them on HyperLiquid with the user's own key. This directory models the
parts of it that decide something, checks the models on small instances with TLC
and proves the most important results for every instance with TLAPS.

Contents: [Inventory](#inventory) · [Modules](#modules) · [Runs](#runs) ·
[Fairness](#fairness) · [Proofs](#proofs) · [Findings](#findings) ·
[Not modelled](#not-modelled) · [Plan](#plan)

## Inventory

### Goroutines and what they share

| goroutine | code | what it does |
|---|---|---|
| main | `cmd/bot/cmd_run.go`, `tui.go` | reads the settings, starts the relay client, runs the event loop of the terminal UI (bubbletea), calls `Stop` |
| session | `internal/relay/client.go` `connectLoop`, `readLoop`, `handleInstruction` | dials, authenticates, reads, admits instructions |
| worker | `internal/relay/executor.go` `execWorker` | takes instructions from `execQueue` and executes them step by step |
| trip | `client.go` `NewClient` | one per trip of the circuit breaker: pauses the client |
| kill switch | `tui.go` `executeKillSwitch` | one per confirmation: cancels all orders, closes all positions |
| refresh, ping, heartbeat, signals | `cmd_run.go`, `client.go`, `heartbeat.go` | asset cache, keep-alive, health file, SIGTERM |

They share `c.conn` and `c.connected`, the pause flag, the queue (16 entries), the
validator's limits, the asset cache, the nonce, the log handler of the UI and the
files of the bot. Everybody logs, and a log line of a running UI is a synchronous
message to its event loop.

### Components

| component | state | operations | what is hard | what makes it correct |
|---|---|---|---|---|
| Duplicate filter, `relay/dedup.go` | map id → time, lost at a restart | `Check`, which also evicts | a full map must forget something; iteration order; the filter and the age limit of a message use different clocks | an id is forgotten early only after an overflow; a message that is sent again passes once |
| Session, `relay/client.go` | connection, back-off, pause flag, filter, failures | connect, authenticate, read, admit, pause, `Stop` | disconnection at any point; repeated messages; `Stop` during a dial; writes under `connMu` to a server that does not read | nothing runs twice; the client always dials again; `Stop` returns |
| Worker, `relay/executor.go` | the instruction and step in progress | execute, log, reply | unanswered requests, cancellation between steps | step order; nothing after a failure; honest results |
| Breaker, limiter, failure window, `circuitbreaker.go`, `client.go` | counters and times | `RecordSuccess/Failure`, `allow`, `recordSigFailure` | sliding windows, cooldown, trip in a goroutine of its own | no minute over the limit, no streak missed, no trip without one |
| Risk validator, `relay/validator.go` | limits | `Validate`, `ValidatePortfolio`, `UpdateLimits` | checked before the queue, used after it | nothing beyond the limits is queued; exposure is bounded |
| Exchange client, `hyperliquid/client.go` | nonce, asset cache | signed requests, queries, refresh | compare-and-swap under a clock that is set back; partial refresh | nonces unique and increasing |
| Kill switch, `tui.go`, `hyperliquid/client.go` | progress, what the screen says | cancel all, close all | the worker goes on meanwhile; partial failure | what rested is cancelled and what was open is closed, or the screen says so |
| Settings, `internal/config`, `cmd_setup.go`, `view_edit.go`, `keystore`, `selfupdate_unix.go` | `config.json`, `.env`, keystore, environment | start, setup, edit, encrypt, register, update | several sources with precedence, two files per change, crashes | never without limits or key; key and registration survive |
| Terminal UI, `tui.go`, `view_edit.go` | view, step of an edit, commands under way, pause shown | keys, results of commands, quit | a command outlives its screen or the program; three pauses that drift apart | every step that ignores the keys ends; the pause shown is the one obeyed |
| Event loop and log pipeline, `cmd_run.go`, `cmd/bot/loghandler.go`, `relay/loghandler.go`, `tradestore.go` | buffer, handler's lock, ring of trades | buffer and flush lines, send, record trades, stop | senders that hold a lock while they wait for the loop, for the validator's lock or for the server | no line lost, no freeze outside three known circles, the end of the program |
| Self-update, `selfupdate*.go` | the program, the download, the `.old` copy | checksum, download, verify, replace, restart | renames that fail, a rollback that fails, an end of the process between two steps | what is at the program's path is the old program or the verified release |
| Signer, canonical encoding, Discord notifier, audit log, heartbeat and health check, rendering | | | | see [Not modelled](#not-modelled) |

### How they interact

    server ──WebSocket──▶ session ─▶ filter, pause flag, signature, limiter, validator
                             │                                            ▲
                             │ queue (16)                    UpdateLimits │
                             ▼                                            │
    exchange ◀──HTTP──── worker ──▶ breaker ──trip──▶ pause flag      terminal UI ◀── lines, messages
        ▲                    └── result ──▶ server                        │
        └──────HTTP, the same nonce──────────── kill switch ◀─────────────┘

`PROJECT.json` lists the hazards with the line at which each bites and the
property that would notice it.

## Modules

A definition whose name starts with `Faulty` is a variant of the one after it, as
a plausible mistake would have it. The specifications do not use them; they
show that a property depends on the definition.

| module | models | state and actions against the code |
|---|---|---|
| `Clock` | the monotonic clock | `now`, shared by the modules below |
| `InstructionDedup` | `relay/dedup.go` | `seen` is the map; `Check(id)` is `Check` with expiry, the eviction of expired entries and `dropOldest`, including Go's arbitrary iteration order and the empty id; `acceptedAt` is the history the promise is about |
| `RelayClient` | `relay/client.go`, `executor.go`, breaker and pause | `connPc` is the session goroutine, `workerPc` the worker, `stopPc` the caller of `Stop`. `handleInstruction` is cut where something else can happen: at its entry (`DropPaused`, `DropUntimely`, `RejectSignature`, `AcceptInstruction`) and at its end, after an HTTP call (`RejectInstruction`, `Enqueue`, `QueueFull`). `applied` is what the exchange did, `replies` what the server was told |
| `InstructionLife` | what the relay client promises of an instruction | its status, the line it stands in, the number of its requests and its answers; an instruction is looked at, refused or queued, started in turn, executed alone and finished |
| `AdmissionGuards` | the clocks of limiter, failure window and breaker | discrete time; `Allow`, `RecordSigFailure`, `OrderExecuted` |
| `Admission` | `handleInstruction` up to the risk checks | filter, age of the message, signature and limiter in their order: `RejectDuplicate`, `Drop`, `RejectSignature`, `Limited`; `offset` is what separates the wall clock, which the age is compared with, from the monotonic one; `Restart` forgets everything in memory |
| `RiskValidator` | `relay/validator.go`, `estimateInstructionNotional` | `Valid`, `Clamped`, `Fits` on instructions of orders with price, size and trigger; then queue and execution, `UpdateLimits`, `RefreshAssets`. `open` and `positions` are the exchange: a step that trades adds to `open`, `Settle` moves it to `positions` or away; `sent` is the leverage set, for the step's asset |
| `NonceAllocator` | the nonce loop of `postExchange` | one action per atomic operation: `ReadClock`, `LoadNonce`, `Swap` or `SwapLost`, then `Return`; `clock` may be set to anything |
| `KillSwitch` | `executeKillSwitch`, `CancelAllOrders`, `CloseAllPositions` | extends `NonceAllocator`; the worker posts orders beside it; the exchange keeps `resting` and `position`, of which the queries return what lies in `Covered` |
| `BoundedLog` | what a trade store promises | the last `Cap` records |
| `TradeStore` | `cmd/bot/tradestore.go` | the ring, `Add`, `Recent`; used by `UiLoop` |
| `UiLoop` | the event loop, both log handlers, `connMu`, the validator's lock | `ui` is the main goroutine, `pc` the goroutines that log and write, `holder` who has `TUILogHandler.mu`, `reading` the validator's read lock, `link` the connection of the session: `"open"`, `"stuck"` while the server does not read, `"broken"` when it is lost or closed and the session has not noticed, `"dialing"` until `connect` has assigned the next one under `connMu`, `"ended"` once `connectLoop` has returned; who is at `"writing"`, `"asking"` or `"closing"` holds `connMu`. `Send` waits for the loop, as bubbletea's does |
| `PauseState` | the pause in the UI, in the client and on the server | `SendPause`, `ConfigUpdate`, `PauseUpdate`, `OnTrip` with the messages between them; sessions that are lost take what is on its way with them |
| `SelfUpdate` | `selfupdate.go`, `selfupdate_windows.go` | one action per step of `performUpdate`; contents are told apart by whether they are the verified release |
| `Tui` | `tuiModel.Update`, `handleEditKey` and their commands | a key or a result is one action; `view`, `step`, `command`, `killStatus`, `updateStatus` are the fields of the model; `process` ends at any quit, whatever is under way |
| `BotConfig` | `internal/config`, `cmd_run.go`, `cmd_setup.go`, `view_edit.go`, `helpers.go`, `selfupdate_unix.go` | the files, the environment, the bot's process, the wizard in the same or another process; every write can be cut by a crash |

`X_proofs` holds the theorems about `X`; `MCX` gives its constants values for TLC.

How they compose. `Admission` contains `InstructionDedup` and `AdmissionGuards` on
one `Clock` and implements the filter's specification (`AdmissionImplementsDedup`:
`Spec => DedupSpec`, proved; likewise every step is one of the guards).
`RelayClient` knows the filter by the ids it has accepted and the clocks by the
choices they leave; `Admission` says what these choices are. `KillSwitch` contains
`NonceAllocator` and implements it (`KillImplementsNonces`: `Spec => NonceSpec`,
proved). `Tui` contains `PauseState` and `SelfUpdate`: a step of the UI is a step of
each or leaves it alone. `UiLoop` contains `TradeStore` and implements `BoundedLog`
(`ImplementsLog`, with the log mapped to `Recent(Cap)`). `RelayClient` implements
`InstructionLife` (`ImplementsLife`, proved): `Status(id)` reads an instruction's
status off the handler, the queue, the worker and what has been seen and started, and
a step of session, worker, breaker, pause or `Stop` is a step in the life of one
instruction or leaves all of them alone. `RelayClient` takes logging
and writing to be instantaneous; `UiLoop` shows when they are not.

Abstractions that matter. Ids, keys, lines and orders are model values or small
numbers. Signatures are right or wrong as the environment chooses. Prices and
sizes are whole numbers; NaN and infinities, which `ParseFloat` would accept,
are outside the model. In `RiskValidator` an order that has reached the exchange is
open until it fills or goes, at once or later, whole or in parts (`Settle`), and is
worth what it was judged by: changes of prices and trades of others on the account
are left out. The account query and the list of open orders name no builder market
(`info.go:60`, `78`); whether the exchange covers such markets is not in the code, so
`Covered` in `RiskValidator` and `KillSwitch` is any set of markets. In `RelayClient`
the horizon of a behaviour lies within the
filter's TTL and capacity. In `BotConfig` `lev` stands for both limits that can be
edited, `rest` for the others and `client` for client ID and server together. In
`Tui` the views logs, trades and positions, which take the same keys, are one. What
the server does with a pause is inferred from the client, which resumes only when
the server says so.

## Runs

| run | instance and bounds | what it shows |
|---|---|---|
| `relay_steps` | an order, and an entry with its protective order; queue of 1; breaker at 2, so that a streak crosses instructions | order of requests, honest results, no trip without a streak; queue, results, reconnection and `Stop` make progress |
| `relay_queue` | three instructions, queue of 1: more than queue and handler hold; failure threshold 2 | every instruction goes through its life once and in order, whatever the server repeats; after a pause at most queue + 1 start |
| `admission` | three ids sent at time 2, a map of two entries, TTL 4, clock to 4, wall clock off by up to 1; limit 1, window, threshold, breaker and cooldown 2; three messages and five events since a start | the map overflows both while all is fresh and while some is expired, and each message is too early, in time and too late: the filter keeps its size and forgets only after an overflow, a repeated message passes once, the windows are exact at their boundary, refusals are free, no streak is missed |
| `risk_validator` | eight instructions at and beyond each limit, one of which sets leverage without a market; a main market that the account query covers and a builder market that it does not; three sets of limits (as configured, as after an edit, one position per market); the cache complete or without a price; what fills or goes at a time is 20, the worth of the smaller order | what passes is within limits at that moment; the clamp survives the queue; exposure and resting orders exceed the limit by at most what queue and worker hold and what rested at the last look |
| `kill_switch` | two orders in builder markets, one that the queries cover and one that they do not, a clock of two values, one run of the switch | nonces are unique and increasing; after a success that skipped nothing, what rested or was open where the queries look is gone; the switch always answers |
| `kill_switch_report` | a main market, which the queries cover, and a builder market | violated: see findings |
| `ui_loop` | a worker with three lines and trades, a ring of two, a session with one line and any number of validations, notifications and writes; a server that stops reading, a connection that breaks and a dial at any time | no line is lost or comes twice; the trades view holds what the log view shows; the ring is the bounded log; nothing waits for itself but in three known circles, two of which never open again, and the third only when the server reads or the connection breaks; every freeze is one of them; a quit outside of them ends the program, unless a dial in flight has outlived `Stop` |
| `ui_edit` | the same | violated: see findings |
| `tui` | two pauses or resumptions from any side, one run of the kill switch at a time, any number of sessions, edits and updates on both systems | the pauses agree once messages have arrived; the program at its path is always one that may run; every step that ignores the keys ends; screens and commands belong together |
| `bot_config` | one key, two values of the limits, three registrations; no file, the wizard's, one written by hand | never without limits, key, server; key and registration survive; limits in force are those stored |
| `hot_update`, `delete_env` | the same | violated: see findings |

Why the bounds are enough: each is the smallest at which the case the property
speaks of happens (an overflow, a full queue beside a busy handler, a streak over
two instructions, a window that slides past its first entry, a ring that wraps, a
pause that crosses the trip of the breaker, a registration replaced by a second
one). For the properties under [Proofs](#proofs) the bounds do not matter: they
hold for any number of ids, messages, pauses and runs of the kill switch.

Symmetry is used in `admission` and `relay_queue`, where the ids are alike and no
liveness is checked. Deadlock is checked in `admission`, the two `relay` runs and
the `bot_config` runs (a stopped relay client stutters explicitly; a bot may always
start again). It is switched off where the system really ends or the bound of the
model is reached: `kill_switch` (all orders placed, the switch done), `tui` (the
program ends), `risk_validator` (`MaxTotal`), `ui_loop` (the program ends, or a
circle of waiting is closed; `BlockedOnlyInCircle` takes the place of the check and
says that there is no other deadlock).

Bounds of the models: `MaxTime`, `MaxMessages` and `MaxEvents` (`admission`),
`MaxTotal` and `FillSizes` (`risk_validator`), `MaxRegs`, `MaxLines`, `MaxPauses`, `MaxKills`, and `Times`, the values
of the clock in `kill_switch`. They are guards on clocks, events and counters only.

## Fairness

* `RelayClient`: weak fairness of each goroutine's own steps. Waits for somebody
  else end by their timeouts: dial and authentication ten seconds, back-off at
  most thirty, the requests of an instruction thirty, other HTTP calls the
  client's timeout. Hence failing is fair and succeeding is not: nothing is
  assumed of the server, the network and the exchange, and an established
  session may last for ever. `Stop` is carried out once called.
* `KillSwitch`: weak fairness of each run of the switch, whose requests end
  within the context of thirty seconds.
* `UiLoop`: strong fairness of the main goroutine's own steps, of each goroutine
  that logs or writes, and of `Quit`: a mutex of Go is handed to a waiter that has
  starved, and `select` picks among ready cases at random, so whoever waits for a
  lock or for the loop gets it if it is free again and again. A session whose server
  does not read ends (`link # "open" /\ SessionEnds`): the read deadline of sixty
  seconds is moved by pings only; and one whose connection is lost or closed reads an
  error. A dial that is cancelled ends, if only by its timeout (`DialCancelled`). Nobody
  is obliged to log, edit or quit, the server neither to read nor to speak, and no
  connection to break, so a session on an open one may last for ever.
* `Tui`: weak fairness of the ends of a registration, an encryption, a deletion
  and a run of the kill switch. Their requests have timeouts (15, 10 and 30
  seconds); the requests of an update have none, and nothing is assumed of them.

## Proofs

All theorems are about every value of the constants that the named assumption of
the module allows. TLC evaluates the assumptions in the runs and checks the
invariants on their instances.

| theorem | says | by |
|---|---|---|
| `DedupTypeCorrect`, `DedupSizeBounded`, `DedupForgetsOnlyByOverflow` | across restarts: at most `MaxSize` entries; an id accepted less than TTL ago is refused unless `MaxSize` others were accepted since | `DedupInv` = types, size, the map agrees with the history (`Synced`), and what was forgotten was older than all that stayed (`Forgotten`) |
| `AdmissionImplementsDedup` | `handleInstruction` and what goes on beside it use the filter as specified, so the theorems above hold in `Admission` | step by step |
| `AdmissionPassesOnce` | a message sent again passes once, unless the filter overflowed or the bot restarted | `PassInv` = `DedupInv`, and who has passed was accepted not before its message could be in time; then `MaxAge + MaxAhead + Drift < TTL` (60 s + 10 s + the correction of the wall clock < 5 min) |
| `AdmissionNeverOverLimit`, `AdmissionBurstDisconnects`, `AdmissionDeniedOnlyWhenFull` | the sliding windows are exact for every limit, threshold and length; refusals are free | `WindowInv`: what a window lists is the end of the history, and what it has dropped is expired (`Listed`); so a time that joins a list of less than `k` is a window later than the time `k` places before it (`AppendSpaced`). `EvictDrops` says what the eviction of a prefix leaves |
| `AdmissionTypeCorrect` | types, a filter within its capacity, and clocks and windows that agree | the invariants above together |
| `AdmissionStreakTrips` | the breaker misses no streak | `BreakerInv`: the failures at the end of the history are all counted, unless it has tripped since (`Counted`) |
| `RiskLeverageWithinBound` | the leverage set on the exchange is within the limit at the check, and within the exchange's maximum when asset and market of the step are the same | `LevInv`: what is checked, queued or executed is bounded (`Held`), which the clamp establishes (`ClampBounds`) |
| `RiskOrdersWithinLimits` | what passes is within limit and price band | the same invariant for the types, and `Band` for the arithmetic |
| `RiskTypeCorrect` | capacity of the queue, no position below zero | `PricedInv`: what passed the check is worth something, in markets that are known (`Priced`) |
| `RiskExposureBounded` | the total limit is exceeded by no more than queue and worker can hold and what rested at the last look, in the markets the account query covers | `ExposureInv`: as long as nobody passed without a look, exposure and resting orders together with the worth of all that has passed and is not executed are within the bound, and each of it is worth `LargestNotional` at most |
| `RelayTypeCorrect` | types, queue capacity, counters and fields agree | inductive by itself |
| `RelayStartedOnce` | no instruction starts twice | `OnceInv`: an instruction is in one place only: handler, queue, or started, and then it has been seen |
| `RelayPauseBounded` | at most `QueueCap + 1` start after a pause | `PauseInv`: started since the pause + queue + handler ≤ `QueueCap + 1` while paused |
| `RelayRequestsInOrder` | requests in step order, none after a failure | `LogInv`: requests against step log, per place of the instruction |
| `RelayRepliesHonest` | one result at most, a refused instruction never reaches the exchange, orders and leverage reported as successes took effect | `ReplyInv`, on top of `OnceInv` and `LogInv` |
| `RelayTripsOnStreak` | the breaker trips only on a streak of failed orders, and not while it cools down | `StreakInv`, on top of `OnceInv` and `LogInv`: the counter is at most the number of orders since the last success, and the worker is at the instruction started last, so that an order that ends comes after all others |
| `RelayImplementsLife` | an instruction is looked at once, refused or queued, started in turn, executed alone with no more requests than steps, and answered at most once at its end | refinement, step by step: every instruction has one status and every place one instruction (`Places`, from `OnceInv`), the requests made are those of the log (`LogInv`), and while the worker is at a step there is a step left |
| `NonceTypeCorrect`, `NoncesAlwaysIncrease` | nonces never repeat or decrease, whatever the clock does | `NonceInv`: types, the property, and every nonce issued is at most `lastNonce`, so that the value a successful swap replaces is above all before it |
| `KillImplementsNonces`, `KillNoncesIncrease` | worker and kill switch implement the allocator; nonces increase in the composed system | refinement: a step is one of the allocator or leaves its variables alone; then the allocator's theorem |
| `KillTypeCorrect`, `KillLeavesFlat` | no position exceeds the worker's orders; a run that succeeds, skips nothing and meets nothing new leaves nothing of what rested or was open in the markets the queries cover | `KillInv` = `BookInv` (an order is in one place, and what is open and what may still fill add up to no more than was placed), and `FlattenInv`: per step of a run, what is left is in the list it still goes through |
| `TuiPausesAgree` | the pause shown is the one obeyed and kept | `PauseInv`: once the server knows everything, the last message to the client carries its state, or what has arrived does |
| `TuiBinaryKept` | the program at its path may run, a restart starts the release | `UpdateInv`: what is installed was verified, and the file is missing only between two renames or after a failed rollback; `RestartInv` |
| `TuiTypeCorrect` | screens, steps and commands belong together | `TypeInv`, which needs `UpdateInv`: what is installed is a download |
| `BotNeverUnlimited` | the bot runs only with limits, a key and a server, wherever a crash cuts a file | `IInv` = what can be read of config.json, the copy the wizard holds and what a running bot uses have all their fields, and the property |
| `BotTypeCorrect`, `BotKeySurvives`, `BotLimitsAgree`, `BotRegistrationWhole` | private key and registration survive, the limits in force are those stored | `KeptInv` = `IInv` with the types, `KeyKept` (the advice to delete .env comes after the keystore), `LimitsKept` (what a start would read is what the bot uses) and `RegistrationKept` (what .env and config.json hold of a registration agrees), with the exceptions the properties name |
| `UiTypeCorrect`, `UiLinesKept`, `UiTradesCoverLog` | the locks are held by whom the program counters say; no line is lost, doubled or out of order; the trades view holds what the log view shows | `UiInv`: a line is in one place only (`PlacesInv`: buffer, on its way, shown, or given up), buffered lines are ordered and only flushed ones may come late (`OrderInv`), the ring holds the last `Cap` records (`StoreInv`) |
| `UiImplementsLog` | the trade store in the running UI implements `BoundedLog` | refinement: `Add` appends to `Recent(Cap)`, every other step leaves the ring alone |
| `UiBlockedOnlyInCircle` | whoever waits for a lock, for the loop or for the server is not waited for by the one that holds it, except in the three circles; `Stop` waits for an idle client only where a dial has outlived it | `UiInv` says who holds which lock; `WaitInv` adds that before the program is set nobody is sending, and that the session does not send a message while it validates (`WhoGoesOn`) |
| `UiFrozenForGood` | a freeze is for good: nothing opens two of the three circles, and no step of the program the third, only a server that reads again or a connection that breaks | per action: whoever is in a circle has no step (`MainInCircle`, `LoggerInCircle`), and the steps of the others leave it closed (`OthersInCircle`) |

Why strengthening is needed: that nothing starts twice does not follow from the
list of what has started, only together with where everything else is; the pause
bound and the exposure bound follow only from sums that include the queue and the
handler; that a window is exact follows only from what it has dropped; and so on.

Sums. `Exposure`, `Worth` and `Notional` are folds, which are defined by recursion
and about which nothing can be proved by an induction theorem here.
`RiskValidator_proofs` shows what is needed of them from a smallest
counterexample: a set of counterexamples that is not empty has a least element
under inclusion (`Smallest`, from the finiteness of the set), and that one leads
to a contradiction. `SumAdds`, `SumAtMost`, `SumOfGroups` (the orders of a step, market
by market, add up to the step), `SumSubset` (some of the markets), `SumOfTail` and
`SumOfMany` rest on it.

What is assumed. `DedupForgetsOnlyByOverflow` and `AdmissionPassesOnce` assume
`EmptyId \notin Ids`: with an instruction without an id the eviction can drop a
recent entry (see below). The other assumptions are those of the modules:

* `ValidatorAssumption`: what JSON and the configuration guarantee of the data.
  Amounts are numbers, only trigger orders have a trigger price, and there are
  finitely many instructions, since a message has at most 1 MB (`client.go:277`).
* `KillAssumption`: finitely many orders.
* `ConfigAssumption`: a file that is absent or torn is not a configuration.
* `RegistrationAssumption`, for `BotRegistrationWhole`: nobody sets the two variables
  of a registration by hand in the shell, and what is found in the files at the
  first start belongs to one registration.

Only model-checked: all liveness (fairness and `ENABLED` are outside TLAPS'
reach here), that is `StopTerminates`, `ResultFollows`, `KeepsDialing`, `KillAnswers`,
`FreezesOnlyInCircle` and `BusyEnds`. What is safety in the freezes is
proved: outside of the circles somebody can go on, and of the circles only one can open
again, from outside of the program. That who can go on does, and that everybody's turn comes, is what the run adds. Every invariant and every action
property the passing runs check is proved. `RelayStartedOnce`, which `ImplementsLife`
includes, goes without a property of a run. No module declares a RECURSIVE
operator.

## Findings

Violated on purpose by what the code does; `PROJECT.json` quotes the lines.

1. `ui_edit` / `EditReturns`: an edit of the limits while a leverage is clamped
   freezes the program. `Validate` logs under the validator's read lock
   (`validator.go:98`), the line waits for the event loop (`loghandler.go:97`), and
   the loop waits in `UpdateLimits` for the write lock (`tui.go:851`).
2. `hot_update` / `EditKeepsRest`: an edit of two limits sets the four others to
   zero until the next start, so that every instruction is refused and exposure is
   no longer limited (`tui.go:851`).
3. `delete_env` / `AdviceKeepsApiKey`: "you can delete .env" loses the only copy
   of the relay's API key (`tui.go:369`).
4. `kill_switch_report` / `KillReportTrue`: "All orders cancelled and positions
   closed" although something was skipped or a closing order did not fill
   (`tui.go:387`). The queries behind it name no builder market either
   (`info.go:60`, `78`), so what is there may not be looked at.

Met while modelling, without a run of their own:

* `dedup.go:48`: the empty string is both the start value of the search for the
  oldest entry and a possible id, so with it a recent id may be dropped. The
  model has it (`DropCandidates`).
* `loghandler.go:32` says that a line sent before the program runs is dropped;
  `Send` waits, with the handler's lock, which `Init` needs before the loop runs
  (`FlushCmd`, `loghandler.go:39`). `StartCircle` in `UiLoop` is this state, and
  the liveness properties except it.
* `README.md:78-83` of the repository puts `config.json` before `.env`; the code
  loads `.env` into the environment first, so `.env` wins.
* `cmd_encrypt.go:18` offers the key of `.env`; the command does not read it.
* `tui.go:395` and `881`: "Bot is now paused." also when the request to pause
  failed. `PausesAgree` excepts what was lost (`apart`).
* `executor.go:152`, `hyperliquid/client.go:107`: a modification or a cancellation is
  reported as a success without a look at what the exchange says of each item, so
  `RepliesHonest` is about orders and leverage (`TellsAll` in `RelayClient`).
* `validator.go:95`, `executor.go:129`: leverage is bounded by the maximum of the
  instruction's market, or not when that is empty, and set for the step's asset. Where
  they differ only the configured limit holds (`LeverageWithinBound`).
* `client.go:670`, `validator.go:201`, `info.go:60`: neither orders that rest nor modified
  ones count towards the limit on total exposure, and builder markets only if the
  exchange includes them: `rested`, `unchecked` and `Covered` in `ExposureBounded`.
* `client.go:509`: no write has a deadline. A server that does not read stops every
  goroutine that writes, and the session with them, which alone in the program would
  end the connection: `PeerCircle` in `UiLoop`. The UI and `Stop` can wait in it until
  the connection breaks.
* `view_edit.go:375` reads the ticker's map in a goroutine, `tui.go:688` writes it in
  the event loop without a lock; the runtime may end the process
  (`ToggleTicker` in `Tui`).
* A restart within the age limit of a message forgets that it has run
  (`PassesOnce` says "since the start"), and a quit cuts off a run of the kill
  switch between cancelling and closing, or a registration before it is stored
  (`Quit` in `Tui`, `cmd_run.go:337`).
* `client.go:535`: `UpdateAPIKey` announces a reconnection and ends no session.
* `SaveToFile` removes a private key written into `config.json` by hand.
* `cmd_setup.go:121`: `updateRelay` saves limits that came from the environment.
* `client.go:151`: `Stop` during a dial leaves the new connection open; it returns
  when the server ends it (`raced` in `StopTerminates`, `Outlived` in `UiLoop`).

## Not modelled

* Signer, canonical encoding, Argon2 and AES-GCM: pure functions of bytes. The
  outcome of a verification is a free choice in `RelayClient`.
* Discord notifier, audit log: they follow the events of the worker and nothing
  depends on them.
* Heartbeat and health check: a file one program writes and another reads, which
  nothing in the bot reads back.
* The credentials of a session: `UpdateAPIKey` changes what a later authentication
  sends, and what the server does with an old key is not in the code.
* `runPlain`, which runs the same client without a UI.
* Rendering, prompts, wording, the file and the levels of the log handler, and the
  1000 lines after which the log view drops the oldest (`LinesKept` is about the way to
  the view; a flush under way when the program quits counts as kept).
* `encrypt-key` with `--key` or `--keystore`: a key given by hand, or stored where the
  bot does not look.
* WebSocket library, HTTP clients, exchange and server are external: whatever
  they may do may happen at any time.

## Plan

Order so far: filter, relay client, nonces and kill switch, guards, validator,
settings, UI loop; then filter and guards composed, the pause, the update, the
state machine of the UI, and the connection's lock; for each first the model, then
TLC, then proofs.

1. Proofs: that the handler of `RelayClient` allows what `Admission` does between two
   restarts. The filter of `RelayClient` never forgets and `Admission`'s may, so this
   needs the horizon of the former stated in the latter.
2. Models: heartbeat and health check; the throttle of notifications; injectivity
   of the canonical encoding on the fields that are executed.
