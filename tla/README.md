# quantlab: TLA+ models of the evolution and live trading paths

quantlab is a Go program in two processes, a command-line tool and a database.
The *SaaS* evolves trading strategies, runs the live instances of the winners,
keeps their ledger and serves the HTTP API. An *agent* next to each exchange
account dials the SaaS over a WebSocket, executes its orders and reports back.
The *datafeeder* (and a worker inside the SaaS) imports market data. This
directory models the parts where an interleaving, a crash or a lost write can
go wrong: from the import of a bar over the evolution of a strategy, its
promotion and its live decisions to the order, the fill and the kill switch.

Tools: `tlc -config X.cfg M` for the runs listed in `PROJECT.json`, `tlapm
M.tla` for the modules whose name ends in `Proofs`.

## 1. Inventory

| Component | State | Operations | Talks to | What is hard |
|---|---|---|---|---|
| Kill switch (`cmd/saas/kill*.go`, `agentmsg.go`, `repository/audit.go`) | audit rows (the latest kill/resume row is the latch), drift streak per account | Kill, Resume, maybeAutoFreeze, ClearDriftStreak, IsAccountFrozen | hub (push), handshake (lookup) | row, streak and push are three steps; three writers |
| WebSocket hub (`internal/saas/wshub`) | registry account -> connection, per connection: phase, outbox, close channel | handshake, Register/Unregister, SendFrame, heartbeat, Dispatch, SendKillSwitch | agent, message hook | reconnect races, full outbox, frames during the handshake |
| Agent session (`internal/agent/client.go`, `handshake.go`) | current connection, frozen latch, back-off | dial, handshake, read loop, end of session | hub | latch lost by a restart; connection visible before the handshake ends |
| Agent orders (`tradecommand.go`, `client.go`) | delta buffer, locals of three goroutines | handleTradeCommand, onOrderEvent, sendDeltaReport | exchange, idempotency store, hub | repeated commands, crash between steps, unknown outcome, lost update |
| Idempotency store (`idempotency*.go`) | one row per client_order_id | Get, Put, UpdateStatus, Purge | agent orders | purge against late repeats |
| Binance adapter (`internal/agent/binance`) | stream session, filters cache, rate limits | SubmitMarket/Limit, Positions, event stream | exchange | lost responses, stream gaps |
| Trade ledger (`agentmsg.go`, `repository/trade.go`, `portfolio.go`) | trade_records, spot_executions, portfolio_states, funded_at_ms | handleAck, handleOrderUpdate, handleDeltaReport, fundInstance, sweep | hub hook, Tick | duplicates, out-of-order commits, partial handlers, two writers of one table |
| Tick and dispatch (`internal/saas/instance`, `cron`, `cmd/saas/dispatcher.go`) | per-instance lock, portfolio row, runtime state, trade records | scanAndTick, Tick, Step, recordingDispatcher.Dispatch | ledger, hub, strategies | four writes without a transaction, parallel instances, a lagging feed |
| Reconciliation (`agentmsg.go`, `repository/reconciliation.go`) | discrepancy rows | reconcile, maxFlaggedDriftBps | kill switch, ledger | stale baseline, empty snapshots |
| Evolution epochs (`internal/saas/epoch`, `repository/task.go`, `sharpe_bank.go`) | task rows, per-tuple mutex, Sharpe bank, challenger rows | CreateAndRunTask, run, executeEpoch, Shutdown, SweepOrphans | engine, klines, challengers | a failure or stop between any two statements, a second load of changing data |
| Champions and instances (`repository/champion.go`, `challenger.go`, `instance.go`, `api/handlers.go`) | decision status, champion history, instance status and champion, deploy audit | promote, retire, deploy, create, start, stop, retire | Tick | check-then-act over several statements, overlapping requests |
| Data import (`internal/data`, `repository/import_job.go`, `cmd/datafeeder`) | jobs, klines, gap rows | create, cancel, ImportSymbol (fetch, insert, gap rewrite), sweep | Binance archive and API | two importers, bars that are still open, lost status writes |
| GA engine (`internal/engine`) | population, reused score buffers, convergence state | RunEpoch, evaluatePopulation, produceNextGeneration | strategies, epochs | a worker pool over shared buffers, errors and cancellation amid a pass |
| Fitness, verification, strategies, quant | per evaluation only | AggregateScoreTotal, RunReview, Step, evaluateWindow | engine, Tick | mostly floating point |
| Agent tokens, result packages, config, migrations, API rendering, web, research | - | hashing, parsing, rendering | - | - |

What makes the modelled parts correct:

* kill switch: a latched account has an agent that does not trade; a reconnect
  never loses the live connection;
* agent: an order is placed at most once and never while frozen; an accepted
  order is not later refused; fills are not dropped;
* ledger: each fill is recorded once and folded into the balances once; the
  ledger is seeded once; an order that has ended stays ended;
* live Tick: no failure repeats a buy or brings the next deadline buy forward, no
  command leaves without a record of its own instance;
* epochs: the multiple-testing correction counts each trial once; success means
  a stored challenger with an honest review; every accepted task ends;
* champions: one active champion per tuple, nothing half promoted, a retired
  instance is final;
* import: success means complete, final bars are kept, every job ends;
* GA engine: scores belong to the genes beside them, the result is the best gene
  seen, and the parallel engine implements the sequential search.

The concrete places where these could break are the `hazards` of
`PROJECT.json`, each at its line.

## 2. Modules

| Module | Models | Runs | Proofs |
|---|---|---|---|
| `KillSwitch` | latch, streak, handshake, registry, push, agent's latch | `kill_switch`, `kill_switch_state_sync` | `KillSwitchProofs` |
| `AgentOrders` | three goroutines of the agent, sqlite store, socket | `agent_orders`, `agent_orders_unknown` | `AgentOrdersProofs` |
| `TradeLedger` | ledger tables, message hook, funding, Tick, sweep | `trade_ledger`, `trade_ledger_seed` | `TradeLedgerProofs` |
| `LiveTick` | scheduler, Ticks of several instances, macro schedule, dispatcher | `live_tick`, `live_tick_monthly` | `LiveTickProofs` |
| `Champions` | promote, retire, deploy, instance handlers | `champions` | `ChampionsProofs` |
| `Epochs` | evolution tasks, their pipeline, shutdown, crash, sweep | `epochs` | `EpochsProofs` |
| `DataImport` | import jobs, worker, CLI, ImportSymbol | `data_import` | `DataImportProofs` |
| `GASearch` | abstract: what RunEpoch promises | (through `GAEngine`) | - |
| `GAEngine` | RunEpoch, worker pool, convergence; implements `GASearch` | `ga_engine` | `GAEngineProofs` |

Each has an MC module with the values of its constants or its symmetry. A
definition whose name starts with `Mut`, or whose comment says "Mutant of", is a
deliberately wrong variant of the definition after it; none is used by a
specification. It shows that a property notices the corresponding mistake.

How they fit together. `DataImport` stores the bars that `Epochs` loads (there:
`ImportBar`) and that `LiveTick` trades on (`FeedBars`). `Epochs` runs the
engine in one step, whose termination is what `GAEngine` shows, and saves the
challengers that `Champions` promotes and deploys. `LiveTick` ticks the live
instances; the records and commands it writes are the orders of `TradeLedger`
and the commands of `AgentOrders`; `KillSwitch` decides whether the agent obeys.

### KillSwitch

One account. `latched` is what `IsAccountFrozen` would answer. A connection's
goroutine is `run[c]`, one value per step of `doHandshake` that touches shared
state, then `pump`, `teardown`, `gone`; `closed[c]` is its close channel.
`down[c]` and `up[c]` are the frames on the way; outbox and socket are one queue
with the outbox's capacity. A kill or resume is a process `p` (an operator's
request, or the goroutine of the connection whose report caused the
auto-freeze) with a position `pc[p]`: row, streak or sentinel, lookup of the
target, send. Each of these is a step of its own because the code takes no lock
across them. The reconciliation is a Boolean (drift above the line or not) or
"nothing to compare". The history variables `overlapped` and `late` name the
two windows the code leaves open (section 4).

### AgentOrders

`hpc` is the position of `handleTradeCommand`, `epc` of `onOrderEvent`,
`dpc[c]` of the report ticker of session `c`, which may outlive the session when
it is past its drain. Every call of the store, of the exchange and of the
connection is a step. `Submit` is three steps: refused, or taken by the exchange
and then answered, with the answer possibly lost. The store may fail on any call
(`StoreFails`). A crash keeps the rows only, and the start purges rows older
than the retention. Fills are numbered per order; the buffer is a set, because
duplicates in it are the ledger's business. Writes block when the socket's
window is full and fail when it is closed.

External, modelled from their use: the exchange's matching, the network, the
clock, the SaaS end of the socket.

### TradeLedger

One instance, at the granularity of SQL statements. A message handler of
connection `c` is at `hpc[c]`; frames of one connection are handled in order,
those of two connections concurrently. `frame[c]` is what is left of the frame.
`DrawID` and `CommitFill` split one INSERT, because the id comes from a sequence
that is not transactional. A portfolio row is abstracted to the fills it
reflects (`applied`), its watermark (`mark`) and whether it descends from a seed
(`seeded`). Orders are named by the millisecond of their Tick, as
`client_order_id` is. Errors of any statement are `HandlerFails` and
`TickFails`; both drop the rest of the work, as the code does. `state_sync_response`
is a `delta_report` without fills here.

`TickAppend` uses a fact of the strategy that is read off `sigmoid_v1`
(`step.go`, `signal.go`): a portfolio without equity yields no order.

### LiveTick

Time is counted in scheduler intervals, an order id is a kind, an interval and
an offset in it. `tick[i]` is the Tick in flight of an instance: its position in
`Stages` (portfolio row, runtime state, records, sends), what `Step` decided, and
the order at hand. `Step` is the control of `stepCore`: macro decision and peak
window; the NAV is the close of the newest bar, and what the micro engine wants and
whether the cash suffices are free choices. Every write may fail (`GiveUp`), and a
crash may come at any point. A taken `client_order_id` ends the Tick
(`RecordOrder`): gorm runs without `TranslateError` (`store.NewDB`), so the driver's
error is not the `ErrDuplicatedKey` that `Dispatch` waits for.

The release of dead stack is left out because no live Tick releases anything: the
genesis seed (`buildSeedPortfolio`) and the fills (`applyFills`) touch `FloatBTC`
only, `DeadBTC` stays 0, `computeReleaseQty` is 0 and `evaluateRelease` never fires.

### Champions

A request is a record with a position and what it has read; every statement is a
step, so any two handlers interleave. `genes` is `decision_status`, `history` is
`champion_histories` in id order, `inst` the instances. The two partial unique
indexes are `ChampionIndexFree` and `AccountFree`. The writes of a Promote become
visible together at its commit; `Abandon` is a client that leaves, a failing
statement or a crash, with the rollback. The ghost `raced` holds the champions
deployed while a retire of them was past its gate.

### Epochs

`pc[t]` is where a task's request and then its goroutine stands. Statements run
on `baseCtx` (`BaseCtx`) except `markFailed`, which has a context of its own. A
statement may fail (`StepFails`), and a write may commit and report an error all
the same (`WriteUnconfirmed`). `proc` goes through the shutdown of `main.go`:
the HTTP server drains, `Service.Shutdown` cancels and waits, the deadline may
expire first. `klines` is the number of stored bars, which importers raise at any
time; `plan`, `trials` and `review` are the locals of `executeEpoch`, and
`Package` what it stores.

### DataImport

Two importers, the worker's and the CLI's, run the same `ImportSymbol`; `im[k]`
is the state of one. A bar is stored partial (fetched while it was open) or
final. `open` is the bar that was open when a month was fetched, `found` the gaps
a scan found, and the ghost `clean` says that no other importer wrote since that
scan. A status write may fail, or commit and report an error (`MarkRunning`). The exchange (`Tick`) and its archive server (`Publish`) are external.

### GASearch and GAEngine

`GASearch` is the sequential promise: one best score per generation, never a
worse one, a stop exactly on stagnation or at `MaxGenerations`, then the last
best, or a failure. `GAEngine` has the population, the reused `scores`, the
job feeder, the workers with their adapters, the counters and the convergence
state. An adapter that was not reset may return the score of any gene
(`Evaluations`), which is what the contract of `Reset` is for. The penalty for
unequal windows is the standard deviation (doubled) for the run's two windows; for
more, the range stands for it, and no property depends on which. Random choices
(initial population, parents, mutation) are free. The refinement mapping takes
the ghost `progress` (the best score of each ranked generation) for `hist` and
the phases of the main goroutine for `phase`.

## 3. Runs

| Run | Bounds | Shows |
|---|---|---|
| `kill_switch` | 2 connections, 1 operator, debounce 2, outbox 1, 2 rows, 1 report, 1 crash; 1.6 M states | types with the outbox bound, `LiveConnRegistered`, `HandshakeFrameOrder`, `LatchedMeansHalted`, `SuppressedOnlyWhileLatched` |
| `kill_switch_state_sync` | no operator, no crash | violated: an auto-freeze of the state-sync report does not reach its agent |
| `agent_orders` | 1 order, 2 connections, TTL 1 = retention 1, clock to 3, 2 sends, 1 crash, failing store; 0.9 M states | types, `AtMostOnce`, `FrozenNeverSubmits`, `AcceptedNeverRefused`, `FillsRetained` |
| `agent_orders_unknown` | no store failures, no crash | violated: rejected although placed |
| `trade_ledger` | 2 connections, 1 order of 2 fills, clock to 3, 2 frames, 1 fault; 1.6 M states | types, `OneRowPerFill`, `FoldedOnce`, `SkippedOnlyWhenLate`, `ExecutedHasRow`, `SeededOnce`, `FreshOrderID`, `TerminalStays` |
| `trade_ledger_seed` | 1 connection, no fault | violated: a report compared with an unseeded ledger |
| `live_tick` | 2 instances, 3 intervals over a month boundary, 2 price paths, deadline 2, 1 fault or crash; 0.75 M states | types with the peak window, `DeadlineSpaced`, `RepeatedOnlyBehind`, `SentIsRecorded` |
| `live_tick_monthly` | no fault | violated: two full monthly buys in one month |
| `champions` | 3 challengers of one tuple, 2 instances, 2 requests at once, 3 history rows; 0.5 M states | types, `OneActiveChampion`, `PromotedHasRow`, `RetiredDeployedOnlyByRace`, `RetiredIsFinal` |
| `epochs` | 2 tasks of one tuple, DSR from 2 trials on, 2 bars, 2 faults, 2 stops; 0.16 M states | types, `TrialsDistinct`, `SucceededIsBacked`, `NoSilentOrphan`; liveness: `EpochEnds` |
| `data_import` | 3 bars in 2 months, one missing, 2 jobs, 1 CLI run, 1 fault, 1 stop; 0.3 M states | types with the active index, `SuccessIsComplete`, `StoredBarsKept`; liveness: `JobEnds` |
| `ga_engine` | 5 genes in a population of 3 with 2 elites, 2 windows, 4 generations, 2 workers, 1 fault; 0.2 M states | types, `ScoresMatchGenes`, `ResultSound`; refinement: `ImplementsSearch` |

Deadlock is checked in `champions`; it is off elsewhere, because the bounds
(clock, frames, rows, faults, jobs) end the behaviour and an idle system may
stop.

*Why the bounds are enough to be interesting.* Two connections are what a
reconnect needs: the old one tears down while the new one shakes hands; a third
adds no new pair. Two audit rows give every order of a kill and a resume. An
outbox of one frame makes "full" reachable with a single push. For the agent,
TTL = retention is the tightest case of the purge, and a clock of 3 lets a row
be written, expire and be purged, with the repeated command arriving after that.
For the ledger, two fills and two frames put the same fill on both connections at
once, and three milliseconds hold a Tick, its successor and a funding between
them. For the live Tick, three intervals are the last of a month and two of the
next, a deadline of two intervals lets two deadline buys meet, a feed one interval
behind is just not stale, and the second instance meets the first in the same
millisecond. Two requests at once are every pair of
handlers; three rows let a champion be promoted, retired and succeeded. Two epochs
of a tuple are what the mutex is for, and two stops let a task survive a crash
and meet a shutdown. Two months exercise archive and API, with the second month
still open. In the engine two elites of three put a carried score at an index its
gene did not have, and four generations at a patience of two reach an
improvement, a stagnation and the last generation.

*Fairness.* The safety runs assume none. `Epochs`: weak fairness of each task's
goroutine (the runtime schedules it, every statement has a timeout or a
cancellable context, RunEpoch ends by `ImplementsSearch`), of the shutdown's steps
(the deadline is a timer) and of the restart (a supervisor starts the process
again). Nobody is obliged to create a task, and nothing is fair about faults.
`DataImport`: weak fairness of the worker loop (fetches have client timeouts and
a bounded number of retries) and of the restart; none of the CLI, the exchange or
the archive. `GAEngine`: weak fairness of the main goroutine and of each worker,
whose work is a bounded loop over bars. `EpochEnds` and `JobEnds` except exactly
the rows whose status write (or sweep) itself failed or was not confirmed: the code
logs that and goes on, and only the next start repairs it.

## 4. What the checks found

Four statements of comments, code or docs are violated by a run; the finding in
`PROJECT.json` quotes each.

1. An auto-freeze decided by the state-sync report reaches the agent on neither
   path: `auth_ok` is gone and the connection is not Ready yet.
2. Any submit error is reported as a rejection, also one with unknown outcome.
3. Funding and the Tick write the same table; the seed can be lost or shadowed.
4. The monthly buy is repeated by every Tick of a new month whose newest bar is
   still of the old one.

Met while modelling, and listed as findings without a run: a taken
`client_order_id` does not count as recorded, so of two instances that decide in
one millisecond the second stores its macro stamp and sends nothing (the second
disjunct of `RecordOrder`); an execution that commits after a Tick folded a higher id
is never folded (the exception of `SkippedOnlyWhenLate`, which TLC finds violated
without it); a resume amid an
auto-freeze leaves the streak suppressed; `handleTradeCommand`'s last `Put` undoes
a terminal status; the trade sweep cancels orders that are live on the exchange;
two rows of one challenger after overlapping promotes and a retire; a champion
retired under a deploy; `MarkStarted` without a status predicate; stored bars are
never refreshed; the mutation ramp is independent of the patience; `kline_gaps`
is read by nobody who builds plans; undispatched orders are not retried; macro
fills go to the float, so that no live release ever fires; the CLI imports beside
the worker; the cron script's flag order.

Where a passing property carries an exception, the exception is a window the code
leaves open, and the property says there is no other. `LatchedMeansHalted`: a
connection between its lookup and Ready when the row was written (`late`), and a
row written while an opposite push was pending (`overlapped`).
`SuppressedOnlyWhileLatched`: the latter. `SkippedOnlyWhenLate`: an execution
whose id was drawn before and committed after a higher one.
`RetiredDeployedOnlyByRace`: a deploy written while a retire was past its gate.
`RepeatedOnlyBehind`: the first buy was decided on bars of the old month.
`NoSilentOrphan`, `EpochEnds`, `JobEnds`: a status write that itself failed.
`SuccessIsComplete`: the gap rows, if another importer wrote meanwhile.

## 5. Proofs

Every invariant and every action property of the passing runs is proved in the
module's `Proofs` companion, for every value of the constants, bounds included;
so is the step simulation of `GASearch` by `GAEngine`.

| Module | Theorems (property of the run) |
|---|---|
| `KillSwitchProofs` | `TypeCorrect` (`TypeOK`), `RegistrySafe` (`LiveConnRegistered`), `FrameOrder` (`HandshakeFrameOrder`), `LatchReachesAgent` (`LatchedMeansHalted`), `SuppressionSafe` (`SuppressedOnlyWhileLatched`) |
| `AgentOrdersProofs` | `TypeCorrect`, `SubmittedAtMostOnce` (`AtMostOnce`), `KillSwitchStopsSubmits` (`FrozenNeverSubmits`), `AcceptedStaysAccepted` (`AcceptedNeverRefused`), `NoFillDropped` (`FillsRetained`) |
| `TradeLedgerProofs` | `Typing`, `OneRow` (`OneRowPerFill`), `FoldOnce` (`FoldedOnce`), `SkippedLate` (`SkippedOnlyWhenLate`), `ExecutedBacked` (`ExecutedHasRow`), `OneSeed` (`SeededOnce`), `FreshID` (`FreshOrderID`), `TerminalFinal` (`TerminalStays`) |
| `LiveTickProofs` | `Typing`, `DeadlineDistance` (`DeadlineSpaced`), `MonthlyRepeat` (`RepeatedOnlyBehind`), `Recorded` (`SentIsRecorded`) |
| `ChampionsProofs` | `Typing`, `OneActive` (`OneActiveChampion`), `PromotedBacked` (`PromotedHasRow`), `RetireGateHolds` (`RetiredDeployedOnlyByRace`), `RetiredInstanceFinal` (`RetiredIsFinal`) |
| `EpochsProofs` | `Typing`, `DistinctTrials` (`TrialsDistinct`), `SucceededBacked` (`SucceededIsBacked`), `OrphansAccounted` (`NoSilentOrphan`) |
| `DataImportProofs` | `Typing`, `SuccessComplete` (`SuccessIsComplete`), `BarsKept` (`StoredBarsKept`) |
| `GAEngineProofs` | `Typing`, `BufferTrue` (`ScoresMatchGenes`), `ResultTrue` (`ResultSound`), `ImplementsSafety` (the safety part of `ImplementsSearch`) |

### Assumptions

Each is an `ASSUME` of the module that declares the constant, and TLC evaluates
it in that module's runs. Apart from types and "no X is not an X" (`NoConn`,
`NULL`, `"none"`):

* debounce, outbox capacity, order quantity, socket window, `MaxNow` and `MaxTime`
  are at least one: the handler falls back to its default below one
  (`effFreezeDebounceReports`), the outbox is a channel of 32, and a behaviour has at least one
  moment;
* `TTL <= Retention` (60 seconds against days in the shipped configuration),
  without which the purge would break `AtMostOnce`;
* months follow the calendar: `MonthOf` is monotone in `LiveTick` and `DataImport`;
* an import range does not end before it starts, as `CreateImport` checks;
* `GAEngine`: a population of at least two, as `RunEpoch` checks, some worker,
  finitely many of them, and per gene and window a log-NAV path with at least its
  final value (`EvaluateWindow` refuses a window without bars). Weights,
  fingerprints and paths are arbitrary integers.

### Inductive invariants

None of the properties is inductive by itself. In every module the invariant is a
conjunction of named parts, defined beside the properties; TLC checked it over the
whole state space of the module's run before it was proved.

*KillSwitch.* `LatchedMeansHalted` says nothing of frames on their way.
`LatchOnItsWay` follows the latch: if the account is latched
without an overlap, then for the connection of the agent's session either the
frames it has still to read end in a frozen state (`WillHalt`: the last
`auth_ok` or `kill_switch` on the way freezes, or the agent is frozen and
nothing on the way thaws), or some process still has to push to it (`Pushing`).
`PushesAgree` says that all pending pushes carry the latch's value, which is
what an overlap would spoil; `SentinelAfterKill` ties a pending sentinel to a
kill; `LiveConnRegistered` makes the pushed-to connection the agent's own.
`HandshakeFrameOrder` has an invariant of its own, `FrameInv`: where the
connection's goroutine stands decides which frames the agent may have before it
(`FramesInOrder`), and no push aims at a connection whose agent is still in its
handshake. The link is the answer to the sync request: only an agent that has left
its handshake has sent one, only a goroutine that received one becomes Ready, and
only a Ready connection is a target. `UnusedClean` gives a fresh dial its empty
queues.

*AgentOrders.* At-most-once rests on a chain: the row exists from before the
submit (`HandlerOwnsOrder`) until it is purged, it is never older than the
intent by more than the TTL (`RowsFresh`), so when it is purged the command is
past its deadline (`PlacedIsKnown`) and is refused as expired.
`AcceptedIsKnown` does the same for accepted orders. `BookFollowsSubmit` and
`EventAtHand` are needed for the types; `OnlySendersHoldFills` for the fills.

*TradeLedger.* `RowSound` gives balances their meaning: every fill they reflect
has a row at or below the watermark, and every row at or below it that did not
commit late is reflected. It holds of the stored rows, of the row a Tick started
from and of a seed in preparation (`RowsSound`). `TickSound` covers the time between
a Tick's read and its append: what it read lies above the watermark, and what
committed meanwhile is late or above all it read. `IdsFresh` makes a drawn id
unique until its commit; `SeedSound` lets one handler at a time be between the
claim and the seed row; `RowBeforeOrder` (no order without the portfolio row of its
millisecond) is why an order id is fresh; `FrameSound` follows an order update from
its first fill to the status it writes.

*LiveTick.* What an instance has written lies at or before a limit that depends on
where its Tick stands (`PastSound`). `TickSound` says that what a Tick decided from
is still in the tables when it writes. `StampSound`: a macro buy that was sent is
stamped in the runtime state, so the deadline a Tick checked against its stamp is
kept against every buy that is out (`DeadlineSound`). `BarsAdvance` and
`MonthSound`: bars only move forward, so a monthly buy decided on a bar of its month
leaves the portfolio row in that month, and the next Tick does not buy.

*Champions.* `RequestSound`: what a request has read stays true as far as its
write relies on it (the rows it names exist, the status it is to replace is not
retired); the rest is checked again by the index or the predicate of the write.
`GateHolds`: once a retire is past its gate, an instance can run that champion only
if the champion is among the raced.

*Epochs.* `LockHeld`: whoever is under way owns its tuple's mutex and is alone in
it. Then `CountSound` orders the trial counts of a tuple: a stored package counted
at most the rows the bank has, and fewer than the task under way counts once its own
row is in. `StageSound` ties the position to what has been written, `ReviewSound`
the verdict to the drift of the data since the load.

*DataImport.* `OneActive` and `WorkerJob` make the job at hand the one active job.
`Covered` is the loop invariant of `ImportSymbol`: the months before the present
one are stored as far as they were closed when the import began. `CleanSound` is
that of the gap rewrite, as long as nobody else wrote.

*GAEngine.* `JobsSound` and `BufferSound` are the invariant of the worker pool: the
indices evaluated and carried hold true scores, and nobody holds an index twice.
`CountSound` ties the counters to what was evaluated. `BestSound` and `SeenSound`
carry the best across a generation, through the ranking and the elites to its new
index. `ConvSound` relates the incremental convergence state to the whole history
of reported scores: its mark is that of `GASearch`, and its counter says how long ago
it was set. That is what the refinement needs: the engine stops on a counter,
`GASearch` on a statement about the history.

### How the proofs are laid out

One step per action, and under it one per part the action can disturb. Where
actions share what they touch, a lemma states the effect first (`NextEffect` of
`LiveTickProofs` sorts every step into a few kinds, `ReturnEffect` of
`DataImportProofs` how an import ends), and the parts of the invariant follow from
the effect. The refinement proof maps each action of the engine to a step of the search
or a stutter, from `IInv`.

Recursive functions (`Mark` of `GASearch`, the sums under the community modules'
folds, the ranking as a permutation) are shown well defined, and to unfold as
they should, from the least-number principle (`LeastNat`, from the well-foundedness
of the order on naturals): a smallest counterexample is led to a contradiction. The
library's induction theorems themselves take an operator parameter, which the
installed provers cannot instantiate.

### Only model-checked

* Liveness: `EpochEnds`, `JobEnds` and the fairness part of `ImplementsSearch`
  (that RunEpoch ends). The provers handle neither liveness under fairness nor
  `ENABLED`.
* The four violated statements of section 4, which are counterexamples.

## 6. Not modelled

* Amounts: drift in basis points, fees, quantities; a balance is a set of fills,
  a NAV a small integer.
* Floating-point code: indicators, the micro signal, Sharpe, DSR, alpha, the
  bootstrap stress test, Ghost DCA. What they decide is a free choice or an
  integer in the models; their numerical correctness is not a question for TLC.
* Clock skew between the processes. The agent compares `valid_until_ms` of the
  SaaS with its own clock; the argument for `AtMostOnce` needs TTL plus skew
  within the retention, seconds against days.
* The in-memory idempotency store (a configuration for tests), and back-off
  durations.
* Encoding: JSON frames and packages, CSV archives, hashes (two plans have the
  same hash exactly if they have the same bars), request signing.
* Login, JWT and agent tokens: hashing is library code; a handshake's token check
  is one nondeterministic outcome.
* Cancelling open orders on a kill: the protocol document asks for it
  (docs/saas-ws-protocol-v1.md, section on kill_switch), the agent has no such
  call, so there is nothing to model.
* Several tuples at once in the `epochs` run: they share the bank table and
  nothing else; the lock and the count are per tuple.
* Read-only endpoints, the web console, research scripts, migrations,
  configuration parsing: nothing there changes the modelled state.

## 7. Plan

1. `OrderPath`: an abstract order (intended, placed, executed, ended) and its
   refinement by `LiveTick`, agent and ledger composed.
2. The four hazards without a property: a delta report written but not handled,
   empty positions, the lost update of an order row, the halting of an agent that
   keeps reconnecting.
3. Pure operators against reference definitions: drift and its flags, lot-size
   rounding, back-off.
