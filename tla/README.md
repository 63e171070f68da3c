# A TLA+ model of `cracked`

`cracked` watches the trades of chosen wallets on the Hyperliquid exchange,
stores the large ones in PostgreSQL and alerts a Telegram chat
(`wallet_tracker`); on request it copies token prices into BigQuery; and it has
two research packages that turn candles into trade signals (`pa_engine` and its
older copy `price_action`). The modules here model the parts with logic of their
own, TLC checks them on small instances, and TLAPS proves the main safety
properties for every value of the constants. `PROJECT.json` lists the runs, the
mutants, the source lines behind each definition, the findings, the hazards and
the theorems.

## 1. Inventory

| Component | State it keeps | Operations | Module |
|---|---|---|---|
| `HyperliquidWebSocketManager` | connection, addresses, time of last event, backoff, heartbeat task | start, stop, connect and subscribe, heartbeat, reconnect, callback | `WsManager` |
| `HyperliquidListener` | none (delegates) | parse a message into an event | `Fills`, `EventFlow` |
| `TransactionProcessor`, `TransactionsRepository`, `TelegramAlertSender` | one task per message; the pool, the table, the chat | filter, store, evaluate, alert | `Processor` |
| `WalletActivityLimiter` | a deque and a blacklist entry per wallet | look up, record and check | `ActivityLimiter` |
| strategies | wallets per token and action | evaluate an event | `Strategies`, `EventFlow` |
| `BlockchainMonitorService`, `main.py` | running flag, pool, listener task | start, stop, startup, shutdown | `MonitorService`, `Shutdown` |
| `TokenPriceSyncService`, `DexScreenerClient`, `TokenDataCache` | the shared cache | sync, clean up | `PriceSync` |
| `CoinMarketCapClient` | time of the last request, the shared cache | get prices | `CoinMarketCap` |
| `SignalJob` of `pa_engine` and `price_action`, with client, features, policy, risk manager; the scheduler | none between runs | run once, run on a schedule | `SignalJob` |
| `pa_engine` back-test | none between runs | run a back-test | `Backtest` |

How they interact: `main.py` opens a connection pool and starts the service with
it. The service builds processor and listener and leaves the listener running in
a background task. The SDK's thread calls back with a message; the websocket
manager notes the time and hands the message to the event loop, where a new task
parses it and runs `process()`. That task shares the limiter, the pool, the table
and the chat with all the other tasks. At shutdown the service is marked stopped
and the pool closed, while the listener and its tasks go on until the loop ends. Price syncs are HTTP requests; they share
only `token_cache`. The signal jobs run in processes of their own.

What makes it hard:

* **Interleaving.** Tasks give way at every `await`; the SDK's thread, the
  heartbeat and the clock move between the steps of an attempt to connect;
  overlapping syncs share a cache that expires under them.
* **Redelivery and crashes.** Each reconnection replays recent fills. The process
  may die anywhere; the table and the chat survive it, and a statement whose
  client is gone may still commit.
* **Partial failure.** A row stored and its reply lost, a connection with half of
  its subscriptions, one strategy of several failing.
* **Timers.** Window and ban, heartbeat and staleness, backoff, cache lifetime.
* **Boundaries.** Windows that are open on one side, rounding to the cent, slices
  that end with the current candle.

What makes each component correct is stated in section 3; every hazard, with its
line and the properties that watch it, is in `PROJECT.json`.

## 2. Plan

The core came first: `ActivityLimiter`, `Processor`, `WsManager`,
`MonitorService`; then what feeds it and what stands beside it: `Fills` and
`Strategies`, composed in `EventFlow`; `PriceSync`, `CoinMarketCap`; `Backtest`,
`SignalJob`; and last `Shutdown`, which puts the pipeline into an application that
closes the pool under it. Compositions: `Processor` contains an instance of
`ActivityLimiter`, `Shutdown` extends `Processor`, `EventFlow` extends `Strategies`,
which extends `Fills`. Abstract specifications and what implements them:
`SlidingWindow` by `ActivityLimiter`, `AlertLedger` by `Processor`.

What may still be added:

1. *Extend.* An abstract "supervised connection" refined by `WsManager`; the
   synchronous half of `TokenDataCache`, once something calls it.
2. *Prove.* The refinement of that abstract connection; more about single
   operators (what `Rounded` may lose, how long `Doubled` grows).

## 3. Modules and runs

Conventions. One action is the code from one `await` (or blocking point) to the
next, so an action contains everything a handler does up to there. `MC*` modules
give constants their values. A name `Definition_Fault` is a faulty variant of
`Definition`; no specification uses it, and `PROJECT.json` says which property it
breaks when it takes the definition's place. Variables marked *history* are read
by properties only.

### Activity limiter: `ActivityLimiter`, `SlidingWindow`

`activity` and `blacklisted` are the two dictionaries; `log` is history: the
deque without pruning. `IsBlacklisted` and `RecordAndCheck` are the two methods,
`Recorded` the append with its `popleft` loop, `Verdict` the returned value.
`SlidingWindow` states the rule on the whole log with nothing pruned.

* `MCActivityLimiter`: two wallets, window 2, limit 2, ban 3, clock to 7, six
  records each: enough to fill the deque, ban, serve the ban, return and be
  banned again, with entries exactly on every boundary. Besides the refinement
  `ImplementsRule`, it checks that a ban is neither cut short nor prolonged
  (`BanServedInFull`) and leaves nothing that counts against the wallet afterwards
  (`CleanSlate`).

`Window <= TTL` is assumed, as in the defaults (60 and 7200): without it a wallet
could return from its ban with entries that still count. The clock is monotone;
`time.time()` stepping back is not modelled. `MaxTime` and `MaxRecords` bound the
behaviour.

### Transaction pipeline: `Processor`, `AlertLedger`

Each task carries a program counter from "queued" to "done" (returned), "failed"
(raised) or "lost" (the process died). `Begin` is the synchronous head of
`process()`, limiter included (an instance of `ActivityLimiter`); `Acquire`,
`Insert`, `Duplicate`, `StoreFails`, `Saved` are the repository call with its
pooled connection; `Evaluate` is one turn of the loop over the strategies;
`Decide`, `Post`, `SendEnds` the alert. `Crash` empties memory and leaves table
and chat; `LateCommit` is the server executing a statement whose client is gone.
What a strategy answers is free here (`Strategies` says what they do answer).
`AlertLedger` is the promise: a hash is stored once, an alert is sent once, only
for a stored hash.

The service's list of strategies is empty at present, so today `ShouldAlert` is
never true in production; the model keeps their number as a constant.

* `MCProcessor`: three tasks, two hashes (one shared by two wallets), one
  transaction below the threshold, one connection, two strategies, one crash.
  `AlertedOnce`, `AlertBacked`, `SilentMeansStored`, `PoolAccounted`,
  `ImplementsLedger`. Three tasks let two race for a hash while a third replays
  it after the crash; one connection makes every task wait for another. The same
  run checks `EveryTaskEnds`, with weak fairness of each task's steps: the loop
  runs ready tasks, the pool hands free connections on, the database and Telegram
  answer or fail. Nothing is assumed of faults, crashes or the clock.
* `MCProcessorSpam` (violation): see findings.

### Connection: `WsManager`

`main` is the caller of `start()`, `hb` the heartbeat task, `phase` the step of
`_connect_and_subscribe`. Connecting blocks the loop, so within an attempt only
the SDK's thread (`Fill`), the network (`Drop`) and the clock (`Tick`) move.
`silence` is `time.time() - _last_event_ts`, capped where it stops mattering.
`leaked` counts open connections that were `self.info` once and are no longer.
Timers are exact: a task whose sleep is over runs before the clock moves on.

The SDK is not in the repository. The module assumes that a constructor `Info(...)`
that raises (line 116) leaves no connection that delivers fills. An SDK that starts its
websocket before it raises would leave one behind at each such attempt, which
`self.info` never names and nothing closes. It carries no subscription, so it
delivers nothing; it is not counted in `leaked`, and `NoStrayConnection` and
`StoppedIsQuiet` do not speak of it.

* `MCWsManager`: two addresses (so that a subscription can break between them),
  interval 3, threshold 5 (not a multiple of each other, so that silence falls
  between two heartbeats), backoff 1 to 4 (two doublings and the cap), one close
  that raises. Deadlock is checked. `NoStrayConnection`, `WatchedIsComplete`,
  `SilenceBounded`, `BackoffPaced`, `StoppedIsQuiet`, `DropIsRepaired`. The
  fairness of the last is weak for the loop and the clock, and strong for creating
  a connection and for each subscription on an open one: the exchange, asked again
  and again, accepts some day. Without that no client can promise anything; with
  weak fairness alone every single attempt could fail. A connection whose close
  raised is excepted: if it goes on delivering fills, the heartbeat sees no
  silence and leaves the dead one alone.
* `MCWsManagerInitial` (violation), under the same fairness.

### Service: `MonitorService`

`StartShared` is `start(pool)`, which is atomic; `StartOwn` followed by
`OwnPoolReady` or `OwnPoolFails` is `start()`, which awaits `create_pool`. A
listener is seen from outside: scheduled, running, ended. The application itself
calls `start()` once and `stop()` once; further calls are legal uses of the
class. `StopService` is written as the code is, with its test for a missing
attribute.

* `MCMonitorService` (both kinds of start, three calls, two stops):
  `RunningOnOpenPool`, `OneListenerPerStart`. Two overlapping calls with pools of
  their own both pass the test of `_running`, and one that fails marks the service
  stopped under the other; the second property says how many listeners this may
  cost, and that nothing else costs any.

### Shutdown: `Shutdown`

`shutdown_event` stops the service, which touches neither listener nor handlers,
and awaits `pool.close()`. `BeginShutdown` notes which handlers hold a connection
and which are queueing; from then on a handler that asks anew is refused
(`Refuse`, which the handler sees as any failed acquisition), those in the queue
are still served, and `Over` ends the loop once the connections held at the
beginning are back. All other actions are those of `Processor`. How asyncpg's pool
behaves while it closes is external; the model follows its `close()`, which waits
for the holders in use and does not cancel waiters.

* `MCShutdown`: two tasks on one connection, so that one can hold it and the other
  queue for it; three events of two hashes; two shutdowns or crashes; deliveries
  after restarts. `ShutdownEnds` (fairness: the handlers' steps, refusals, and the
  end of the loop when nothing holds it up): closing the pool ends. `OrderlyEnd`: it
  does not end too early. Of the handlers that the end of the loop catches in the
  database, with a row whose fate is then open, each was queueing for its connection
  when closing began; one that had a connection then has finished with it, and one
  that asked later never got any. Handlers in the strategies or at Telegram are cut
  off in any case, as by a crash.

### From fill to strategy: `Fills`, `Strategies`, `EventFlow`

`Fills` holds the pure part of the parser (direction to action, rounding, legs,
early returns, and the token an alert names). Prices are in cents and quantities
in hundredths; a tie in `round` may go either way, as it depends on the binary form
of the product. `Strategies` holds the three strategies on the legs the parser
wrote; `tracked` is the dictionary of the batched-wallet strategy, a set of wallet
and time per key (the code keeps a list, but asks it only for the time of each entry
and for the distinct wallets), and exceptions are contained as in the processor's
loop. `RawFill` is a fill as it may come in, each field perhaps missing or not a
number. `EventFlow` puts them together: `Parse`
or `Drop` for each message, a bag of events whose handlers are under way
(`Processor` says what happens to them there), and `Evaluate` in whatever order the
handlers get through. `seen` is history.

* `MCEventFlow`: three messages, of two wallets and two coins, in every direction,
  below a cent, on a tie and above, each field wrong in turn, messages of no,
  one and two fills; timestamps over more than a window; threshold 2.
  `LegsBalance` and `AlertNamesCoin` speak of each event (that is, of the first fill of
  each message), `BatchIsExact` of the whole way from the fills to the answer: it
  counts the wallets that made the same move with the same *coin* within the window,
  while the strategy only sees legs and keeps what its prunings left. Three events let
  two meet in a window, or be kept apart by one on another key or by a late one.

`BatchIsExact` has two hypotheses, because the strategy answers exactly for a batch
only under them. The event is an opened long: closing longs and opening shorts never
get an answer, since building it raises, and closing shorts of all coins are counted
together. And the event is not late, that is, no younger event of its coin and
action was evaluated before it; what order the others came in does not matter. For a late event the answer is neither sound nor
complete: it counts entries any amount newer than itself, and misses those that a
younger event has pruned. All this is in the table of disagreements below.

### Price sync: `PriceSync`

Requests run `Start` (positions, cache look-ups, first batch sent), then
`Answered` and `Resume` per batch, and `Write` at the end. The cache's lock is
never held across a wait and the BigQuery client blocks, so these are the only
points where requests interleave. `todo` lists the tokens the cache did not have, in
the order of the request (`Keeps`). An answer is priced, an error, or "odd" (a null
among the numbers). The branch that retries a batch is absent because no exception
reaches it. An insert that raises has written nothing or everything (its reply was
lost).

* `MCPriceSync`: two requests, two mints, batches of one, lifetime 1, clock to 3:
  overlapping and successive requests, entries that expire between look-up and
  write. `RowMatchesToken`, `EveryTokenAnswered`, `WrittenIsFresh`. Mints and
  requests are interchangeable, hence the symmetry. With batches of one no batch is
  partial in this run; the theorems cover any batch size. Freshness is that of the
  look-up; the code does not bound how long the batches after it may take.

### CoinMarketCap: `CoinMarketCap`

`get_prices` gives way in the sleep of the rate limit and while it waits for the
answer. `Call` runs up to the first of these: look-ups, and the request if no sleep
is due; `Wake` sends it after the sleep; `Respond`, `BreakOff` (an odd entry in the
response raises half way through the loop) and `Fail` end it. `began` and `sent`
are history.

* `MCCoinMarketCap`: two symbols, three calls, interval 2, lifetime 2, clock to 5:
  a third call may come while two sleep, and an entry may expire and be asked for
  again. `CrowdedOnlyByOverlap`, `KnownIsNotAsked`. That calls which overlap do
  crowd is what the code does (`time.time()` is read before the sleep and not
  again); the first property says that nothing else does.

### Signal job: `SignalJob`

One action is one symbol's turn in `run_once`: `Skip`, `Recommend`, `Decline` or
`Raise`; `Report` ends a run and `WakeUp` is the scheduler. `app` says which of the
two copies runs. A market is what the exchange and pandas make of a symbol: its
candles (full, short, failing, garbled, with holes), close, support, ATR, and per
other condition whether it is met or missing. Support and ATR may be missing too
(`price_action` goes on with 0.0), and the ATR may be zero. Prices are in half ticks and
leverage in halves.

As shipped, `price_action` gets no candles: its client calls `info.candle_snapshot`
without an interval, `pa_engine`'s calls `info.candles_snapshot` with one, and of the two
only the latter can be the SDK's. The call then raises, the job prints the error and goes
on with the next symbol. Of `FetchedByPriceAction` this is the branch "raises"; "full",
"short" and "holey" are what the code after the call would do with an answer.

* `MCSignalJob`: three symbols, each with one of thirty-one markets, prices at
  the bounds of the distance and volatility tests; sl_atr_mult, tp_rr, distance and
  leverages as in the two `thresholds.yaml`. `TypeOK` says that stop, entry and target of
  a trade are one price only if the ATR is zero or missing (both jobs do recommend such
  a trade). `ReportIsExact` speaks of the whole
  run: whatever happened to other symbols, each gets the trade of `BuildTrade` or none;
  it does not judge the trade's numbers. `StopBeforeMarginIsGone` relates
  distance, stop and leverage, which three places compute, in the configured values.
  `Prudent` says which configurations and markets make it hold; the configured
  values and the markets of this run do (`PrudentAssumption`).

### Back-test: `Backtest`

Support, the distance test, the trade and its simulation are computed; ATR takes
any value of a set and the indicators that only gate a signal are free choices.
Prices are in half ticks so that half an ATR is an integer.

* `MCBacktest`: all series of four candles over three prices. `StopAfterEntry`,
  `WonOnlyUnstopped`, and the ranges in `BacktestTypeOK`. Four candles allow a window, a signal,
  and two candles to hold the trade.

`CHECK_DEADLOCK FALSE` is set where the bound on events, calls or the clock ends a
behaviour, or where the system really stops (the application has exited).

### Findings

Each is a run expected to be violated, with the quoted line in `PROJECT.json`:
sub-threshold transactions never reach the limiter (`SpammerBlacklisted`); a
failed first connection is final (`InitialFailureRetried`).

### Disagreements without a run

The models below behave as the code does; that a document or comment says
otherwise was seen by reading, and no run is spent on it.

| Code | What it does | What is said |
| --- | --- | --- |
| `blockchain_monitor_service.py:103` | `stop()` never closes a dedicated pool: it tests for an attribute `start()` always sets (`StopService`) | line 101: "Close database connection pool only if we created it ourselves" |
| `blockchain_monitor_service.py:95` | `stop()` does not stop the listener (`StopService`) | `BLOCKCHAIN_INTEGRATION.md:48-50`: "All resources are cleaned up" |
| `blockchain_monitor_service.py:114` | the listener swallows the exception the error branch waits for, and the service goes on to report running (`ListenerEnds`) | line 121: "Mark listener as not running on fatal loop error" |
| `DexScreenerClient.py:100` | `gather(return_exceptions=True)` turns every failure into a result, so nothing is retried (`Answered`) | line 89: "Process a batch of tokens with exponential backoff retries" |
| `CoinMarketCapClient.py:62` | calls that sleep at the same time wake together (`Wake`) | line 61: "ensure minimum time between requests" |
| `pa_engine/app.py:9`, `price_action/app.py:7` | import classes that do not exist (`CcxtOhlcvClient`, `BinanceOhlcvClient`), so that the entry points fail at once; the model has the jobs with the Hyperliquid clients that do exist | `price_action/app.py:45`: "Initialize OHLCV client (Binance for now)" |
| `hyperliquid.py:81` | only the first fill of a message counts (`Parse`) | `HYPERLIQUID_LISTENER.md:45`: "Aggregate multiple fills by coin" |
| `price_action/data/ohlcv_client.py:100` | asks for `candle_snapshot` without an interval, where `pa_engine/data/ohlcv_client.py:83` asks for `candles_snapshot` with one; the call raises and no symbol has candles (`FetchedByPriceAction`) | line 83: "Fetch recent candles from Hyperliquid." |
| `batched_wallet.py:40` | closing shorts of all coins share the key of USDC (`KeyOf`) | line 26: "Track by token identifier (ID or symbol) and action" |
| `batched_wallet.py:70` | a late event keeps entries newer than itself, so more than a window can be counted; and it misses entries a younger event pruned (`Kept`) | line 100: "Multiple wallets ... in {self.time_window}s" |
| `size.py:32`, `batched_wallet.py:87`, `volume.py:69` | reading a field the event does not have raises (`ReadLegs`, `HighVolume`) | `size.py:23`: "StrategyResult if transaction exceeds threshold, None otherwise" |
| `price_sync.py:170` | the coroutine is not awaited, CoinMarketCap is never asked (`HyperliquidPrices`) | `api/routes/sync.py:14`: "from DexScreener and CoinMarketCap" |
| `cache.py:88` | only the route calls the clean-up (`CleanUp`) | `CACHING_STRATEGY.md:59`: "Background task removes expired entries every 5 minutes" |
| `backtester.py:70` | the simulation begins with the candle of the entry (`Exits`) | line 90: "Candles after entry" |
| `support_resistance.py:25` | the slice holds `window + 1` candles (`NearestSupport`) | line 9: "within last `window` candles" |

## 4. What is proved

All proofs hold for every value of the constants under the named assumptions of
the modules (`LimiterAssumption`, `ProcessorAssumption`, `WsAssumption`,
`ServiceAssumption`, `CoinMarketCapAssumption`, `SignalJobAssumption`,
`PriceSyncAssumption`, `FillsAssumption`, `StrategiesAssumption`,
`EventFlowAssumption`, `BacktestAssumption`), which TLC evaluates in the runs.
Every safety invariant and every action property a passing run checks is a theorem;
so are the two refinements. One theorem, `JobStopsWithinMargin`, has a further
hypothesis, `Prudent`.

* `ActivityLimiterProofs`. The inductive invariant `LimiterInv` adds to
  `DequeBound`, `CleanSlate` and `BlacklistJustified` that the deque is sorted and
  nothing lies in the future. The heart is a lemma about `Prune`: what is left of a sorted deque is its suffix inside the
  window. `DequeBound` and `CleanSlate` need each other: the deque stays bounded
  because after a ban all of it is pruned, and that is so because a banned
  wallet's entries end with its ban and `Window <= TTL`. `BanServedInFull` is an
  action property from the same invariant. `LimiterImplementsRule` rests on
  `DequeIsSuffix`: the deque is the history without a prefix that lies outside the
  window, so the entries of the history inside the window are an interval of
  indices as long as the pruned deque, and the two verdicts agree.
* `PipelineProofs`, the pipeline. `LedgerInv`: the row of a hash belongs to the one task that
  inserted it (`OwnsRow`, `RowOwner`), that task has not posted before it is
  "posted" (`NotYetAlerted`), and only matched, large transactions get that far
  (`Qualified`). `AlertedOnce` alone is not inductive: it needs the owner of the
  row to be unique, which the constraint gives. From it follow `AlertBacked`,
  `SilentMeansStored`, and the refinement `PipelineImplementsLedger`;
  `PoolAccounted` has an argument of its own, by cardinality of the holders.
  `PipelineLimiterIdle` shows that the limiter never acts in this pipeline, which
  is the general form of the finding `SpammerBlacklisted`.
* `WsManagerProofs`. `WsInv` says that at most one attempt is under way and whose
  it is, that an attempt past its `Disconnect` holds an open connection only if
  closing raised, and that the rest of the sleep and the silence so far together
  stay within the bound (`SilenceBudget`), which makes `SilenceBounded`
  inductive. `WsBackoffPaced` is an action property from `WsInv` and a second
  invariant, `Paced`: the delay is `Doubled(fails)` until an attempt fails and
  `Doubled(fails - 1)` after it, and the time passed and the time left of a sleep are
  together no less. It needs two facts about powers of two, that 2^(n+1) is twice
  2^n and that 2^n is at least n + 1 (the failures are counted up to `MaxBackoff`, so
  by then the delay must have reached it). `PowerOfTwo` gets both without induction, by
  counting: 2^n is the number of subsets of 1..n.
* `MonitorServiceProofs`. `PoolsInv` says that the shared pool is open while the
  application is up and that a service running on it has not been told to stop.
  `OneListenerPerStart` follows from an account kept by cardinality: each step that
  adds a listener also adds a stop, a raised call or a dedicated pool, or finds
  the service stopped for the first time.
* `PipelineProofs`, the shutdown. Each action of `Shutdown` is an action of `Processor` with
  a further guard or leaves its variables alone, so what is proved of the pipeline
  carries over (`ShutdownAlertsOnce`, `ShutdownLosesNothingInSilence`); this is so by
  construction and says nothing of the shutdown itself. `ShutdownOrderlyEnd` does: while the
  pool is being closed a connection is held only by a handler that had one when closing
  began or was queueing then (`Expected`), and closing waits for the former.
* `CoinMarketCapProofs`. `RateInv`: a sleeping call keeps its distance from every
  request sent before it was made, and what is sent while it sleeps overlaps with
  it (`SleepersKeepDistance`); no request is younger than `last_request_time`
  (`CallsInOrder`). `CrowdedOnlyByOverlap` is inductive only with both.
* `EventFlowProofs`. `FlowInv`: events under way or evaluated are what the parser
  makes of some usable fill (`Parsed`), which gives `FlowLegsBalance` and
  `FlowAlertNamesCoin` by going through the directions; what a key tracks was seen
  under it (`TrackedWasSeen`); and what was seen is still tracked unless an event was
  seen under the same key that is younger by a window (`SeenIsTracked`).
  `BatchIsExact` speaks of coins and the strategy of the legs' symbols: for an opened long
  the first two conjuncts show that whoever is counted belongs to the batch, and the
  third that nobody of the batch is missing, because what pruned an entry was no
  younger than an event that is not late.
* `SignalProofs`, the jobs. `JobInv`: symbols done with have what they deserve, the
  others nothing, and a run that reports is done with all. `JobStopsWithinMargin`
  needs that a recommended trade is a deserved one, hence within the distance, and
  the arithmetic of `RiskBelowMargin`: distance and stop in percent of the price,
  times the leverage of the volatility band, stay below all of it. The band of
  the least leverage needs only that the stop is above zero.
* `SignalProofs`, the back-test. `BacktestInv`: every result is the outcome of the
  trade built on the candle it names. The support is the least low of a window that
  contains this candle (`SupportBelow`), so the stop lies below its low
  (`StopBelowCandle`); `OutcomeSound` says what the simulation returns for such
  a trade. The least element of a set of prices is taken by the well-foundedness
  of < on the naturals.
* `PriceSyncProofs`. `PriceInv`: an entry of the cache is the answer for its own
  mint and at most one batch older than it says; a result stands at the place of its
  token and was fresh when it was looked up; a request that waits waits no longer
  than a batch may take; every token without a result is still in `todo`
  (`NoneForgotten`). Rows are results, so they inherit
  the first two; a request is done when `todo` is empty, and has every answer then.

Only model-checked: liveness (`EveryTaskEnds`, `DropIsRepaired`, `ShutdownEnds`),
which rests on fairness and so on `ENABLED`, out of the prover's reach, and the two
findings, which TLC refutes by a behaviour. What the model leaves to a recursive
operator of a community module is not proved about either (induction over data):
the proofs use only which elements `SetToSeqs`, `Append` and `SubSeq` give.

## 5. Not modelled

The strategies repository (switched off), the routes that only read, indicators
(pandas_ta, floating point), the candle repositories (nothing calls them, so that
no code says which candles are saved, and when), `price_action`'s back-tester (a
placeholder), the variants of the cache without callers, migrations, settings,
logging, constants, error formatting, tests and scripts. External and modelled only by how the code uses them: PostgreSQL,
Telegram, the Hyperliquid SDK, DexScreener, BigQuery, the clock.
