# btc-ob-trader in TLA+

TLA+ modules, TLC configurations and TLAPS proofs about the trading bot of this
repository: a Go program that reads Coincheck's order book, turns its imbalance
into signals, places and follows limit orders, and records everything in
TimescaleDB. Around it are a report generator, an optimizer in Python and
dashboards.

To check: `tlc -config X.cfg M` for a run of `PROJECT.json`, `tlapm M.tla` for a
module whose name ends in `Proofs`.

## 1. Inventory

Paths are relative to the repository. For each component: its state, its operations,
whom it talks to, what is hard about it, and what makes it correct.

### The live bot (`cmd/bot`, `internal`)

**Live execution engine** (`internal/engine/execution_engine.go`,
`internal/position`, `internal/pnl`). State: the position (size, average entry
price), the realized PnL, the partial-exit flag. Operations: `PlaceOrder` (balance,
drawdown check, position check, request, polling until a transaction is seen or
the deadline passes, booking or cancellation), `CancelOrder`,
`CheckAndTriggerPartialExit`, `SetPartialExitStatus`. Called by the signal loop, by
TWAP goroutines and by the two monitors, at the same time and without a common
lock. Hard: checks and bookings of concurrent calls interleave; the exchange may
execute an order whose reply is lost; the deadline races the fill; the process may
exit at any point. Correct when each accepted order has one outcome, when the books
are the sum of the bookings, when the risk limits hold, and when every call returns.

**TWAP execution and partial exits** (`cmd/bot/main.go`, `executeTwapOrder`,
`positionMonitor`). State: each goroutine's loop, and the engine's partial-exit flag,
which the monitor sets and every TWAP goroutine clears. Hard: entries and exits
overlap, and any of them may be cut short by an error or by shutdown. Correct when the
flag has an owner while it is set and is always released, when no second exit starts
beside the first, when the slices add up to the order, and when none is larger than the limit.

**Signal engine** (`internal/signal/signal.go`, `processSignalsAndExecute`). State:
current signal and since when, last triggered signal, OBI history, latest result.
`Evaluate` is called on a timer with the latest OBI result, fresh or not. Hard: a state
machine over time, fed with repeated and skipped inputs. Correct when a signal is
confirmed only after it has held, once, and when none that has held is missed.

**Order book and OBI calculator** (`internal/indicator/orderbook.go`, `obi.go`). State:
two maps under a `sync.RWMutex`, an output channel. The WebSocket reader applies
differential updates; a ticker calculates; the monitors read the best prices. Hard:
reads under separate locks, a read lock taken twice, a full channel. Correct when
each result describes one book, when the book is the exchange's, and when nobody blocks.

**Database writer** (`internal/dbwriter/writer.go`). State: three buffers, the ticker
goroutine. Rows are saved by any goroutine; the goroutine that fills a buffer, the ticker
and `Close` flush all three. Hard: the decision to flush and the flush are two critical
sections; batch inserts fail; the process exits. Correct when each row is written at
most once, in order, and none stays behind. `SaveTradePnL` reads the last cumulative
sum and inserts the next one outside any lock.

**Order monitor** (`orderMonitor`). Every 15 s it cancels open orders that are not
competitive and places what was pending again, in its own `PlaceOrder` call, while
the call that placed the order still polls. Correct when an amount is never ordered twice.

**WebSocket client** (`internal/exchange/coincheck/websocket.go`, `runMainLoop`). State: the
connection, a reader goroutine per connection, the channels `done`, `reconnect`,
`c.interrupt` and `ready`. `Connect` dials with backoff, subscribes, closes `ready`, and calls itself
after an unexpected close; `main` waits for `ready`, then for a signal. Hard: `ready` is closed
again on the second connection; other read errors end `Connect` without a
reconnection; the ping and the reader share a channel of capacity one that only the loop
empties. Correct when one goroutine reads, when a loss is noticed, when the feed comes back, and when a
signal ends the process.

**REST client** (`order.go`). Nonces, signatures, 10 s timeout. **Configuration**
(`internal/config`). Read once, and again when the file changes; readers take the
current pointer at different times. **Indicators** (`ofi.go`, `volatility.go`,
`microprice.go`, `regime.go`, `pkg/cvd`): windows and statistics. **Benchmark, alerts,
logger, HTTP handlers**: input and output.

### Around it

**Replay engine and simulation** (`ReplayExecutionEngine`, `runSimulation`,
`datastore/csv_reader.go`). The same signals against recorded data, with take profit and stop
loss: a reader goroutine, the simulation and `main`, joined by channels of capacity zero or one. Hard:
the event and the error channel are closed one after the other, the summary and two self-sent signals
go through small channels, the best price of an empty side is 0. Correct when the simulation
sees the events of the file, all of them and in order, when its summary follows from its
trades, and when the process ends.

**Simulation server and its client** (`runServerMode`, `optimizer/batch_simulation.py`). A pool of
goroutines behind a semaphore and a results channel; three pipes to a Python client that
reads one line. Hard: panics in the pool, a full pipe nobody reads, answers the client
does not recognize. Correct when each trial is answered once and both sides end.

**Report generator** (`cmd/report`, `internal/report`). A watermark over trades that are
inserted meanwhile, FIFO matching, statistics. Hard: ids and times need not agree, queries fail,
the last id is taken by time. Correct when each trade is in one report and the totals add up.

**Optimizer** (`optimizer/*.py`). A drift monitor writes a job file, the optimizer
consumes it, runs simulations and writes the parameter file that the bot's watcher
reloads. Hard: files are truncated and written in two steps while others read or remove
them, runs last for hours and may crash or hang, a reload may fail, and the signal engine has a copy of its own.
Correct when a job is run, and when the bot comes to trade with the last parameters.

**Export command, schema, dashboards, deployment.**

The list with the state of each part is `components` in `PROJECT.json`; everything
hard to test, at its line, is `hazards`.

## 2. Modules

| module | models | composes with |
|---|---|---|
| `Position` | `Position.Update`, `UpdateRealizedPnL` in exact fractions | extended by `LiveEngine`, `ReplayEngine` |
| `OrderOutcome` | abstract: what `PlaceOrder` promises of an order | refined by `LiveEngine`, assumed by `TwapExecution` |
| `LiveEngine` | `PlaceOrder`, `CancelOrder`, the exchange, the exit of the process | `Position` |
| `TwapExecution` | `executeTwapOrder`, `positionMonitor`, the flag, the signal loop's choice | a `PlaceOrder` is one step, by `OrderOutcome` |
| `SignalEngine` | `Evaluate` and the loop around it | |
| `MarketFeed` | `OrderBook`, `OBICalculator`, the readers, `sync.RWMutex` | its channel feeds `SignalEngine`'s `Publish` |
| `WebSocketClient` | `Connect`, its readers, `main` and its signals | extended by `BotProcess` |
| `OrderMonitor` | `orderMonitor`, the exchange's orders, the callers' deadlines | extended by `BotProcess` |
| `BotProcess` | the live process: feed, monitor, shutdown | `WebSocketClient`, `OrderMonitor` |
| `DBWriter` | buffers, flushes, ticker, `Close`, exit, `SaveTradePnL` | |
| `TradeAnalysis` | `AnalyzeTrades` as pure operators, and the reference `FifoPnL` | extended by `ReplayEngine`, `Report` |
| `ReplayEngine` | `ReplayExecutionEngine` and the summary, as operators on a record | `Position`, `TradeAnalysis` |
| `Simulation` | reader of the file, `runSimulation`, `main` | `ReplayEngine` |
| `SimulationServer` | `runServerMode`, its pool, the pipes, the `BatchSimulator` | |
| `Backtest` | the flags' choice of one of the two | `Simulation`, `SimulationServer` |
| `Report` | the report generator and the inserts beside it | `TradeAnalysis` |
| `Optimizer` | drift monitor, optimizer, the bot's watcher and reload | |
| `ArithmeticProofs` | lemmas on sums and folds, theorems on `Position` | extended by `LiveEngineProofs`, `BotProcessProofs`, `DBWriterProofs`, `SignalEngineProofs`, `OfflineProofs` |
| `OfflineProofs` | theorems about `Report`, `Simulation`, `Optimizer` and `SimulationServer`, the programs beside the bot | extends all four |
| other `*Proofs` | theorems | each extends its module |
| `MC*` | TLC instances; `MCOffline` is one of `Report` and `Optimizer` | |

### Correspondence to the code

`map` in `PROJECT.json` names the lines of every definition. The main choices:

*LiveEngine.* `call[c].pc` is where goroutine `c` stands in `PlaceOrder`; a step is one
access to something another goroutine or the exchange can change: read the balance
(`Call`), the realized PnL (`CheckDrawdown`), the position (`CheckPosition`), send the
order (`SubmitAccepted`, `SubmitReplyLost`, `SubmitRefused`), poll (`PollHit`, `PollMiss`),
book the trade (`BookTrade`: `SaveTrade` and `position.Update`, which no other code reads
together, are one step), add the realized PnL (`BookPnl`), and at the deadline
cancel and record (`CancelReached`, `CancelFailed`, `RecordCancelled`). The exchange is
external: it accepts what the account can pay, executes orders in parts at their
own rate, and loses requests and replies. `CancelOrder` is the order monitor's
cancellation at any time; its new order is another `Call`. Risk limits and order
sizes are constants. Amounts are lots and prices yen as integers; an average price
is a fraction, so that the accounting identity is exact where the code has `float64`.
Alerts, logs and the two PnL tables are left out.

*TwapExecution.* `twap[i]` holds the locals of one `executeTwapOrder`; `Chunk`, `Sleep`,
`LastChunk`, `Abort` and `Defer` are its loop, its wait, its remainder, its early returns
and its deferred call. `PlaceOrder` is one step with the outcomes `OrderOutcome` allows:
the position moves by the amount, or there was an error and it does not.
`Twap.Enabled` may flip at any time (configuration reload). The exit amount, a real number
in the code, is rounded up to a lot.

*SignalEngine.* `result` is the latest OBI result (the state of `marketState`), replaced
by `Publish` and evaluated by `Tick` as often as the timer wants. `config` is the engine's
configuration and the inputs that go with it, chosen once from `Configs`. OBI is a small
integer; OFI, CVD and the micro price enter the score as an arbitrary number per
evaluation. `log` is a history of evaluations. The market regime is left out
because `Evaluate` never reads it (docs/bot/README.md:205 says otherwise).

*MarketFeed.* The lock is Go's: a writer that waits (`waiting`) holds back new readers
(`queued`) and lets them in when it unlocks. A critical section is one step.
The messages are what differs between two books of the exchange. `past` is the history of
the bot's book, which `ResultIsOneBook` looks up. The levels 8 and 16 of OBI are one
`Depth`; the two monitors are one reader.

*WebSocketClient.* `pc` is the goroutine that called `Connect`; a recursive call is a jump back to
`dial`, with a new `reconnect` and `c.interrupt`. Connections are numbered and each has a
reader, which ends (and so closes `done`) when `ReadMessage` fails. How a connection is lost decides whether
the reader asks for another: `dropped` for a close code the code takes for unexpected, `closed` for
all else. Timers are left to the interleaving. `Close` has no caller.

*OrderMonitor, BotProcess.* The exchange's orders are a sequence; an order has the `origin` it
descends from. A tick lists the open orders with their pending amounts, in any order (the code sorts nothing and
nothing is known of the answer); for each, in turn, the
monitor keeps, cancels, replaces and follows it. Whether an order is competitive is any answer, so
prices are left out. In `BotProcess` ticks need a book (`fed`) and end with the context, and
nothing moves once the process has ended.

*DBWriter.* `Save` appends under the mutex and notes in `due` that the buffer was full;
`SaverFlush` is the flush after the mutex was released. Each batch insert may fail,
in which case the code logs and forgets the rows (`dropped`). `SaveTradePnL` is two steps: `ReadTotal`,
which takes any of the rows of the latest time as the last one, and `InsertProfit`.

*ReplayEngine, TradeAnalysis.* One goroutine owns a replay engine, so its methods are operators from
record to record. A position is opened by one trade and closed whole, so its average price is an
integer. Times and the ratios made of these figures are left out.

*Simulation.* A row of the file is what the reader makes of it: a level, a trade, a row it skips, a row
that ends it. The event channel is unbuffered: `out` is what the reader is about to send. The signal
engine is reduced to its state of emission (`Evaluated`); which raw signal a score gives is any
answer. `select` may take any case that is ready (`EventsClosed`, `ErrClosed`, `ErrReceived`).
Levels are distances from the price of the order (`OrderFor`), a stop loss without its sign (the configuration has it negative); `oneSided` is
history: whether a side of the book was empty when the position was opened.

*SimulationServer.* stderr is a count of lines in a pipe of `PipeSize`; a log call waits for room in it. A
simulation of the pool is its log lines and its end, or a panic and its recovery.
The client is the Python class, with its one request and what it does with the answer.

*Report.* The table is the order of insertion; a query sees what is there. Cancelled rows
carry the id of the order, executed ones that of the transaction, so both orders of ids occur. The
inventory a report leaves open is dropped, as in the code.

*Optimizer.* `open(.., 'w')` truncates and the contents follow: two steps (`TriggerOptimization` and
`WriteJob`, `OpenParams` and `WriteParams`). A monitor whose file was removed writes into a file nobody
sees (`linked`). Opening, reading and writing of the job file and of the parameter file may fail (`OpenJobFails`, `WriteJobFails`, `ReadJobFails`,
`SaveFails`); a parameter file whose writing failed counts as empty. The bot loads its configuration and then starts its watcher
(`Restart`, `StartWatching`), so a change in between is no event for it. The watcher takes an event and reloads later what
the file holds then, or fails and keeps the old configuration until another event (`ReloadFails`, which any
file may cause at any time, the application configuration included). The bot has two copies of its parameters: `trade`, the global configuration, which is
reloaded, and `strategy`, what the signal engine copied when the bot started. Events of the application configuration would only add reloads. Which
parameters are found is left out: they carry the number of their job.

## 3. Runs

| run | question | bounds |
|---|---|---|
| `live_engine` | Do concurrent calls give every order one outcome, keep the books, and implement `OrderOutcome`? | 2 goroutines, 3 orders (a purchase of 2 lots, sales of 1 and 3) |
| `live_engine_single` | Do the risk checks bind, and does every call return, with one caller? | 1 goroutine, 3 orders |
| `twap_execution` | Has the flag an owner, is it released, do slices add up and stay within the limit? | 2 TWAPs, 3 lots in chunks of 2 |
| `signal_engine` | Is a confirmed signal held, confirmed once, and none missed? Do the slope filter and the clamps, in order or crossed, do what they are for? | 6 evaluations, 4 time units, hold 2; 5 evaluations, slope period 3; 3 evaluations with crossed clamps |
| `market_feed` | Is each result one book's, is the book current, does only the nested lock block? | 3 updates among 4 books, 2 readers |
| `market_feed_deadlock` | violated: is a received update applied? | as above |
| `bot_process` | Does one goroutine read, is a loss noticed, does a signal end the process, and is an amount ordered twice? | 2 dial attempts, 2 connections, orders of 2 lots and 1, one replacement |
| `feed_reconnect` | violated: does a reconnection succeed? | 2 connections |
| `db_writer` | Is each row written once, in order, and flushed by `Close`? When do cumulative profits add up? | 2 savers, 3 rows or profits, batches of 2 |
| `backtest` | Does the simulation see the file, is its summary explained, does each closing realize its level, is each trial answered, and what keeps either process from ending? | every file of up to 4 rows of 6 kinds, and 4 longer ones; levels 1 and 4 from orders 1 beyond the quote; 3 trials on 2 goroutines, a pipe of 4 lines |
| `offline` | Which trades are reported once, and when do totals add up? Which jobs may be lost, which changes of the parameters may be overlooked, are the others loaded? | 4 histories of 3 to 5 trades, 3 reports; 2 folds, 2 jobs, 1 crash |
| `strategy_reload` | violated: do reloaded parameters reach the strategy? | 1 fold, 1 job |

**Why the bounds are enough.** Two goroutines are what an interleaving of one
check with another's booking needs; three orders let a position open, grow or be reduced,
and flip, and let one order be lost while others are booked. A purchase of two lots has partial
fills. Chunks of two for three lots have a full chunk and a remainder. In the writer, two
savers may both be between append and flush while the ticker flushes; three
rows fill a buffer and leave one over, and three profits are the least whose order of insertion may
differ from that of their times in the middle. Six evaluations hold a confirmation, a
neutral score and a second signal held to the end. Three updates fall between
the calculator's three reads, one of which empties a side. Two connections are a loss and a
recovery, during which the first reader may still run; two attempts are one retry. Two orders let the
list grow old while the first is replaced, and one replacement is listed and cancelled in its
turn. Four rows are a group of levels, the change of time that flushes it, and a trade or a bad row
after it; the longer files open, close and open again with a profit and with a loss, and empty a side while
a position is open or before it is opened; with a take profit nearer than the spread and a stop loss beyond it, both levels are hit, by quotes and by empty sides. Three trials on two goroutines need the semaphore, and with five log lines or more against a pipe of four they
may fill it or not. Three reports are a report after one that left
inventory, and one after that. Two jobs are one that waits or runs and one written over it; with the initial ones that makes
three sets of parameters. Reports and tuning loop share no state, so `MCOffline` runs one while the other stands still.
The theorems of section 4 hold for every value of them. Symmetry is used over callers only, in a run with
safety properties only.

**Fairness.** Each is weak fairness of one goroutine's steps. `LiveEngine`: `Proceed` and
`Expire`, since every request ends within the HTTP client's 10 s timeout and the context
of an order has a deadline; nothing is assumed of the exchange or of a poll finding
anything, so `CallsReturn` rests on the deadline alone. `TwapExecution`: each TWAP goroutine,
because `PlaceOrder` returns (`CallsReturn`) and sleeps end. `DBWriter`: the ticker. `MarketFeed`:
readers within a round, and the WebSocket reader once it has a message; neither the
exchange nor the tickers have to do anything. `WebSocketClient`: `Connect` up to its loop, the loop, each
reader, `main`; dials and writes end within network timeouts; losses, messages and signals need not
happen, and within `Connect` no branch is favoured, so `LossIsNoticed` does not assume that a dial
succeeds. `Backtest`: reader, simulation, `main`; server, pool and client; no signal of a user.
`Optimizer`: the bot's watcher alone; nothing of the optimizer, whose simulations have no timeout, nor of a
restart, which may find files that cannot be read.

**What the runs found.** Three disagreements between the code and what the repository
says of it, listed with their lines in `findings`: the order book blocked for good
(`market_feed_deadlock`), because `Calculate` takes the read lock it holds, while `OnlyNestedLockBlocks`
says that nothing else blocks it; a reconnection that panics (`feed_reconnect`), because `ready` is closed twice;
and parameters that the repository's README promises to the trading strategy at once and that the signal engine
never reads (`strategy_reload`): after a reload a bot orders the new amount by the old thresholds and levels, until it
is restarted.

Other properties hold only with an exception the code needs. The exceptions are the result:

- `OnlyUnreadyIgnoresSignals`: a signal ends the process unless `Connect` was over before the
  subscriptions; then `main` waits for a `ready` nobody closes.
- `LossIsNoticed`: a loss takes `Connect` out of its loop unless a failed ping filled `reconnect` first: then the
  reader waits for room and never closes `done`, or the loop blocks on its own channel.
- `OrderedOnceButForDrift`: an order and its replacements add up to what was wanted, plus what
  was executed between the monitor's list and its cancellation.
- `AtMostOneExitWithoutEntryTwap`: there is one exit at a time until an entry is sliced, because every TWAP goroutine
  clears the flag.
- `TotalsAddUp`: cumulative profits are sums when no two fills are saved at once and they come in
  the order of distinct times.
- `ClosingsRealizeLevels`: a position realizes the distance of its take profit or stop loss, even when it is closed by the
  price 0 of an empty side, which a trade event trades on. The exception is a position opened while a side was empty: its levels are those of
  the last quote with two sides, its entry price is not.
- `SimulateModeEnds`: the process ends, or `main` blocks on its own signal because another (of the simulation or
  of a user) fills the channel. `ServeModeEnds`: the client ends, or one of three hangs keeps it:
  a full stderr pipe, an answer without an end of line, a read of the stderr of a server that lives on.
- `EachTradeReportedOnce`, `ReportsAddUp`: trades inserted after a report with a larger id are passed by; those of
  the second a report ended with may be reported again; totals add up, whatever was passed by, when no report but
  the last left something open, none restarted and no two executed trades share a second.
- `JobsAreRun`: a job may be lost when another is written over it, when it is written while the
  optimizer works, when the optimizer reads the file half written, or when an I/O error keeps it from being
  written or read. `ConfigFollowsFile`: the global configuration is what the file holds or a reload is due, but for a change
  made between `LoadConfig` and the start of the watcher and one whose reload failed, which nothing tries again
  (`unseen`). `LastParamsLoaded` has the same exceptions, and says that the reload which is due comes.

What the model violates without a run of its own: `CancelledRowsNotFilled` and `BookedOrdersAreFilled`
(LiveEngine: a filled order may be recorded as cancelled, and the first partial execution books the
whole order); `AtMostOneExit` (TwapExecution); `NoSpikeConfirmed` (SignalEngine: a score well beyond the threshold
is confirmed at once); `ExitLosesNothing` (DBWriter: `main` never calls `Close`); `SimulationEnds`
(Simulation); `TradingNotInterrupted` (Optimizer: a reload that finds the parameter file truncated leaves a trading bot
without parameters, which the next confirmed signal dereferences). And with two callers the risk limits do not hold: both may pass the checks before either books,
which is why `LongPositionWithinRatio` and `NoOrderBeyondDrawdown` are checked with one.

## 4. Proofs

All for every value of the constants, from their named assumptions only. Those are on types and
signs, and: finitely many callers and savers (`CallersAssumption`, `SaversAssumption`), integer profits and
times (`ProfitsAssumption`; a saved profit is a number of yen), and in a configuration of `SignalEngine` at most one
set of dynamic factors (`ConfigsAssumption`; the code has one struct, the set is how its absence is written). The
exchange numbers its transactions in the order of their times (`HistoriesAssumption`, about the executed trades of
`Report`), which the query by transaction id relies on, and a trade has a positive size and a price in whole numbers of
their smallest units (`BotTrades`, of which histories are sets); a file has rows of the four kinds (`FilesAssumption`).

**ArithmeticProofs.** What the other proofs have in common. *Induction:* the library's induction theorems take
an operator, which the provers cannot instantiate, so `SetInduction` and `SubsetInduction` are derived from `WFMin`,
which takes a set: the set of the counterexamples has a least element. *Folds over sequences:* the fold of
the library takes the last index first; `FoldingPrefix` and `FoldingOfPrefix` say what it returns for every prefix, so that an
induction over the elements of one sequence is an induction over numbers. `FoldLeft` takes an operator as well, so no lemma can be about
all of its uses; for each, a short lemma shows that what it unfolds is a function over the subsets of the indices
(`Unfolds`), and `FoldSteps` gives from that the value at the empty sequence, its type, and the value at a sequence with one more element. *Sums:* from these, what
`SumFunctionOnSet` does when an element is taken out, changed or compared (`SumPick`, `SumUpdate`,
`SumMonotone`, ...), and the same for sums of fractions (`YenSumPick`, ...). `SeqInduction` is induction over sequences by `Append`; the sum of two
sequences one after the other is that of their sums (`SumConcat`). A sum over a sequence adds up as its prefixes do (`SumOfSequence`), and
if one sequence never falls and another never rises, n times the sum of their products is at most the product of
their sums (`OppositeSums`, `FallingSums`). *Position:* `Update` maps positions to
positions (`UpdateType`), adds the sizes (`UpdateSize`), and keeps the books (`UpdateKeepsCost`: cost
after = cost before + amount paid + realized PnL) whether the trade opens, increases, reduces, closes or flips.

**LiveEngineProofs.** The inductive invariant is `IInv`: `TypeOK`, and five facts
about who knows which order. `FollowsPlaced` and `OneFollower`: a call follows an accepted
order, and no two calls the same one. `Unreported`: an order whose reply was lost is followed
by none and has no row. `Settled`: an order followed and unsettled has no row yet, one that is settled
has one row. `Fresh`: orders not accepted yet have no trace. `OneOutcomePerOrder` alone is not
inductive: it does not say that the call about to book an order is the one that follows it.
From `IInv` follow `TypeCorrectness` (types), `OutcomeUniqueness` (`OneOutcomePerOrder`) and
`Refinement` (`Spec => Outcomes!Spec`: each action is a step of `OrderOutcome` or leaves its variables
alone).

Three more rest on it. `BalancedBooks` (`BooksBalance`, any number of callers): `BInv` adds `Carried`, which
says that a realized PnL is on its way in the calls that are between `position.Update` and `UpdateRealizedPnL` and in
no other; then each booking adds the same to both sides, by `UpdateKeepsCost` and the lemmas on sums.
`DrawdownKept` (`NoOrderBeyondDrawdown`): `Sound`, a call past the check would still pass it. `RatioKept`
(`LongPositionWithinRatio`): `RInv` has the account as a sum over the orders (`Ledger`), so that no balance read exceeds
what was ever held (`Known`), and the check's inequality from the check to the booking (`Vetted`). The last two have the
hypothesis that there is one caller, as the run they generalize; with two callers they are false, which is the
race of check and booking described in section 3.

**TwapExecutionProofs.** `IInv` adds to `TypeOK`: `Chunks` (at each label, the lots placed so
far in terms of the loop index), `FlagHasOwner`, and `Exclusive` (until an entry is sliced, the flag
is set while an exit runs and no two exits run). Results: `FlagOwnership`, `SingleExit`,
`WholeAmount` (`WholeAmountPlaced`, about the steps: every order is at most the limit while slicing is enabled, by `Chunks` for chunks and remainder, and by the choice of
the signal loop and the monitor for what they place themselves); it rests on lemmas about quotient and remainder.

**SignalEngineProofs.** The engine remembers three values, the properties speak of the whole history; `SignalInv` says what
the three stand for. `CurrentIsLatest`: the current signal is the last raw one. `SinceIsStart`: its time is that
of the first evaluation of its run. `LastIsStanding`: the signal remembered is a confirmation that nothing has cancelled,
and one that is forgotten was cancelled. With these, `ConfirmedIsHeld`, `ConfirmedOnce` and `HeldIsConfirmed` are inductive together
(`ConfirmedWasHeld`, `OneSignalOneOrder`, `NoSignalMissed`). `ThresholdsClamped` (`WithinClamps`) is about the arithmetic of the
two clamps, which are applied in opposite orders for the two sides; nothing validates the configuration, so
the clamps may be crossed, and the property is stated for that too. `SignalFollowsObi` (`FollowsObi`) is about the slope
filter. The sums the regression adds up are sums of sequences (`RegressionSums`); times rise, so if the OBI rose nowhere in
the window the numerator of the slope is not positive (`OppositeSums`), and the denominator is positive when it is used
(`SlopeSign`). `HistoryIsLog` makes the engine's bounded history the end of the log of all evaluations.

**MarketFeedProofs.** `BookInv`: each side of the book is within the exchange's. An update keeps it
(`MergeType`), because what it does not name has not changed. `LockInv` says how many read locks the calculator has at each
place, one less while the waiting writer holds it back; so the book is fixed from the best bid to the best
ask. `QuoteInv` says which book the prices read so far belong to. Results: `BookFollowsExchange`, and
`ResultsAreConsistent`, for which `ResultIsOneBook` says nothing of the steps before the result is
complete. That amounts are positive is used (`SolidIsAll`): the imbalance looks at the same levels as the best prices.

**BotProcessProofs.** `FeedInv` adds to the client's types that a reader that reads is that of the current
connection and that none does while `Connect` dials; the step that matters is
the reconnection, which waits for `done`. `ClientOneReader` is about the client, `ProcessOneReader`
about `BotProcess`, whose steps are the client's or leave it alone. `OrderedOnce` (`OrderedOnceButForDrift`) is about the
order monitor: `Accounted` adds to what a family of orders asks for the amount the monitor has cancelled and is about to
place again. Without it the property is not inductive: between the two steps the family asks for less than is
wanted, and nothing would say by how much the replacement may raise it. Each cancellation moves into `drift` what was executed since the list.

**DBWriterProofs.** `IInv`: table and buffer of a kind, one after the other, are increasing and below the number
of rows saved, and the two properties about buffers. A flush, whoever makes it, appends the buffer to the table
or drops it (`FlushedTables`). Results: `WrittenInOrder`, `BoundedBuffers` (which needs
finitely many savers) and `CloseFlushes`. `RowsInv` says where the rows are: those held and those dropped have
no number in common and every number up to `saved` (`RowsOnce`, for `EachRowOnce`; that a number occurs once in a
buffer is `IInv`'s increase). `TotalsInv` adds to `TotalsAddUp` what a saver between its two queries has read:
the sum of all profits so far, if no other saver came between (`TotalsKept`).

**OfflineProofs.** *The reports:* `ReportInv` says of each report which rows it was made from: those among the first `known`
of the table beyond the `Watermark` of the report before (`FromWatermark`); watermarks do not fall (`Rising`), because a saved
report ends with the last of its executed trades (`LastExecuted`); and what is at or below one is in a report or was inserted too
late (`Covered`). That a trade in two reports has the time of the first one's last trade (`ReportedOnce`) then needs the order of ids and
times (`HistoriesAssumption`). Result: `ReportedTrades`.

*Their totals:* `ReportsAddUp` compares the loops of `AnalyzeTrades`, which match trades of
any sizes against two queues, with `FifoPnL`, which pairs the k-th unit sold with the k-th unit bought. `Matched` is what holds after
every trade: the units of each side are those matched so far followed by those in its queue, as many bought as sold have been
matched, one queue is empty, and the matches earned what the matched units pair to. Inside the inner loop `MetBy` says the same of one
trade and the queue it meets (`MetByNoMore`, `MetByMore`), `OwnSide` of what is left of it. Hence `MatchedIsFifo` and, for one report,
`TotalIsFifo`. For several: a trade of one report is earlier than those of the next (`ReportsInTime`, `CoveredBefore`), so the reports' executed trades one
after another are the covered ones in the order of their times (`Lists`), and there is one such order (`ClimbsOnce`); and
where nothing is left open, profits of lists one after the other add up (`FifoConcat`). Result: `ReportedTotals`.

*The simulation:* `SimInv` relates the reader to what loading its rows so far gives
(`Follows`): events taken and in the channel, open group and time are those of `Parsed`, and events only grow with the
rows (`LoadGrows`); once the channels are closed nothing is left in them, so a summary is of all events. Result: `StreamLoaded`, of `Backtest`.

*Its levels:* `LevelInv` adds to `SimInv` that the order of a trading step is made of the quote, which while both sides of the book are there is the
book's own (`Current`), and that the levels of an open position not `oneSided` are at their distances from its
average price (`AtDistances`): an order that opens it puts them there (`OpensAtDistances`), one refused leaves them, and one
that closes it books the distance (`ClosesAtDistance`). The property alone is not inductive: the closing
uses levels an order of any age has set. Result: `LevelsRealized` (`ClosingsRealizeLevels`).

*The replay engine:* `EngineInv` says that an open position is the one trade which waits in the
analysis' queue of its side (`Waits`), and that realized profit, closings and statistics are those of the matches (`Agrees`). The
property alone is not inductive: what the next closing is matched with depends on the queues. The trade that opens a position finds the queues empty
(`TakeOpening`), the one that closes it meets exactly that trade (`TakeClosing`), at the profit the engine books
(`ClosingIsMatch`); a closing without profit is a match but no closing of the summary, and `AccountType` shows that it changes no figure.
Result: `TradesExplained`, for any file, levels and order size.

*The loop:* `JobInv` adds to `JobsAreRun` where the job of the optimizer is (`AtWork`: in the file, or replaced,
and what is in the file instead was written during the run), that it is recorded before the file is removed
(`AtRest`), and what a half-written file means (`HalfWritten`). Result: `JobsSurvive`. `ConfigFollowsFile` is inductive but for types (`ParamsInv`): a change of the
file is an event of the watcher or recorded in `unseen` (`ChangeIsDue`), an event leads to a reload, and a reload takes over the file or is recorded.
Result: `ConfigFollows`.

*The server:* `PoolInv`: trials not launched are new, and there
are as many results as trials that are done, one of each; so the slots suffice and printed results are
complete (`TrialsAnswered`).

**Only model-checked.** Liveness (`CallsReturn`, `ExitEnds`, `RowsLeaveBuffer`, `OnlyNestedLockBlocks`,
`OnlyUnreadyIgnoresSignals`, `LossIsNoticed`, `SimulateModeEnds`, `ServeModeEnds`, `LastParamsLoaded`), which the
prover does not do under fairness. Every invariant and every action property the passing runs check is a theorem.

## 5. Plan

Done: the live engine, TWAP execution, the signal engine, the market feed and the database writer;
then the feed client, the order monitor and their composition, `SaveTradePnL`, the simulation and its server, the
reports and the optimizer, each with its runs; and proofs about all of them. Next, in this order:

1. `OrderMonitor` with `LiveEngine`'s `PlaceOrder` in place of its outcomes.
2. The nonces of concurrent requests, and the CVD window as a function checked against a definition.

## 6. Not modelled

Floating point and its rounding; formats, logs, metrics, dashboards and deployment;
the statistics of the optimizer and of the indicators (`ofi.go`, `volatility.go`, `microprice.go`, `regime.go`,
`pkg/cvd`), which are formulas over a window whose values enter as any answer; SQL and the HTTP surface; the
benchmark service, one forwarding call; the export command, one query; a request the simulation server
cannot read (an error of its scanner ends it, main.go:1015). Operations nothing calls: `Close` of the
WebSocket client, `ApplySnapshot` and `CalculateDepth` of the order book. `study.py`'s
`analyze_and_validate` and `analyze_and_validate_for_daemon`, which nothing calls: both take the pair that
`run_simulation` returns for a dictionary (`study.py:254` and `:359`), so neither could accept a candidate. The parts of modelled
components that are left out are named in `components`.
