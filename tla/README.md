# Vikeur: a TLA+ model of the trading platform

The platform (`src/backend`, Python, asyncio) collects market data, turns it into
features, fuses the opinions of its engines into decisions, judges each decision by a
list of risk rules and executes what passes in backtest, paper or real mode. Beside
it, services trade cash-and-carry pairs, follow the portfolio, evict losing
strategies, recalibrate probabilities, watch the others and notify the operator.

Everything is connected by PostgreSQL tables, Redis channels and a few Redis keys.
Almost no code runs in a transaction, there are no locks, and each process is a loop of
`await`s whose exceptions are logged before the next turn. The properties worth stating
are about what happens *between* two awaits: another service writes, the operator
changes the mode or sets the kill switch, the exchange fills or cancels, a call raises
before or after it took effect, the container dies.

## 1. Inventory

| Component | State | Operations | Hard behaviours |
|---|---|---|---|
| `pair_execution` | `pair_decisions`, `pair_incidents`, leg rows in `decisions`, paper `positions` | assess, persist, draw both legs, open, retry, compensate, settle | abandoned pairs, partial executions, shared positions |
| `execution_engine/positions` | `positions` | `apply_fill`, `record_conditional_order_ids` | SELECT then write, two writers |
| `risk_engine` | `risk_checks`; reads positions, capital, book, kill switch | judge every pending decision of a batch | stale batch, interrupted rows, two reads of the mode |
| `execution_engine` | `orders`, `positions`, the exchange | loop, execute in three modes, poll, stop-loss, reconcile | crash around a real order, rejected or forgotten orders, naked positions, orphan stops |
| `execution_mode_governance` | `execution_mode_state`, attestations | request a mode, evaluate prerequisites | concurrent requests, evaluation going stale |
| `strategy_lifecycle` | `strategy_lifecycle_state` and `_history` | register, evict, resurrect | windows that straddle a transition, trades closing under the batch |
| `calibration` | `calibration_runs` | gather, fit, replace the active run | a moment with none active |
| `decision_engine`, `meta_engine` | `decisions`, `meta_decisions`, opinions | collect opinions, fuse by market, derive a verdict, insert | statuses, mode and calibration read at different times; a signal that waits |
| `regime_engine` | regimes | classify | percentiles at their limits |
| `data_collector` | connections | connect, listen, notice silence, wait, retry | silent outages, refused handshakes |
| `data_normalizer` | buffers, caches of identifiers, last times | deduplicate, tell gaps, flush by size and by time | lost batches, bounded deduplication, two writers, messages of several trades |
| `journal`, `notifications`, `monitoring` | `events_journal`, a queue, cooldowns | subscribe, persist, debounce, send, alert | fire-and-forget events, full queue, silenced alerts |
| `portfolio` | `portfolio_snapshots` | snapshot, reconcile | mode changed since the last snapshot |
| `api` | none of its own | kill switch, mode, allocation, attestations, reads | races with every loop above |
| `feature_engine`, `strategies`, `cost_model`, `ml_engine`, `optimization`, `backtesting`, `paper_trading`, `liquidation_ingest`, `backup`, frontend | tables they alone write, or none | numerical or sequential work, input and output | none that interleave |

How they interact. `decision_engine` and `pair_execution` insert rows in `decisions`;
the execution engine's loop calls the risk engine, which takes every row with verdict
`signal` that has no row in `risk_checks`. The execution modes and `pair_execution`
both call `apply_fill`; what it closes are the trades `strategy_lifecycle` and
`calibration` learn from, and the two tables these write are what `decision_engine`
reads next. The API writes the kill switch (Redis, `risk:kill_switch`) and the execution
mode, which the loops read. Every module publishes on the Redis channel
`events:journal`, to which `journal` and `notifications` subscribe; `monitoring` reads
the table `journal` writes and publishes alerts on the same channel.

What makes the modelled components correct:

- **pairs**: a row that says it is settled tells what became of the positions; no second
  pair over an unresolved partial execution; one incident per partial execution; a
  pair nobody interrupts is settled; an abandoned pair is never written again;
- **risk and execution**: one order at most per decision, only after a complete and
  favourable verdict; an interrupted verdict is final; pair legs are not filled twice;
  the kill switch stops what is not judged; no decision waits for ever;
- **real orders**: a row that says `filled` tells what the exchange did; the spot book
  claims no more than the account holds unless the rows say why; a futures position is
  protected, or its lack of protection was announced, or its stop was triggered and ended
  it; a stop left alone on the exchange is on record; no order blocks the loop;
- **governance**: real money only after an uninterrupted segment of paper trading that
  lasted and traded enough, with an allocation on every exchange; de-risking is never
  refused;
- **learning**: no batch promotes a strategy to a live status (but `under_review`); a
  strategy comes back only over new trades; ruin is acted upon; there is no gap in the
  active calibration but between two statements;
- **decision**: a signal of the real mode rests on a validated calibration and eligible
  strategies, stale by no more than a cycle;
- **market data**: an accepted trade is stored once or lost with a known failure; a gap
  in what was accepted is told;
- **alerts**: an outage that lasts keeps being told to the operator.

## 2. Modules

| Module | Models | Kind |
|---|---|---|
| `PositionBook` | `positions.py` | operators only |
| `PairExecution` | `pair_execution/main.py`, `state_machine.py` | state machine, EXTENDS `PositionBook` |
| `PairExecutionProofs` | theorems about it | proofs, EXTENDS `PairExecution` |
| `Orchestrator` | `risk_engine/main.py` and rules, `execution_engine/main.py`, the three modes | state machine, EXTENDS `PositionBook` |
| `DecisionLedger` | what the road from decision to order promises | abstract specification of `Orchestrator` |
| `RealExecution` | `modes/real.py`, its adapters, the reconciliation, the exchange | state machine, EXTENDS `PositionBook` |
| `EntryProtection` | what real mode promises of a futures position | abstract specification of `RealExecution` |
| `FuturesMargin` | `shared/futures_margin.py` | operators only |
| `ModeGovernance` | `execution_mode_governance/main.py`, its checks, the routes that feed it | state machine |
| `ClosedTrades` | the closed positions and `strategy_lifecycle/metrics.py` | one variable and operators |
| `StrategyLifecycle` | `strategy_lifecycle/` | process, EXTENDS `ClosedTrades` |
| `Calibration` | `calibration/`, `shared/confidence_lifecycle.py` | process, EXTENDS `ClosedTrades` |
| `Learning` | the two processes over the same trades | composition |
| `LearningContract` | what they promise to `decision_engine` | abstract specification of `Learning`, environment of `DecisionEngine` |
| `MetaEngine` | fusion, ranks, costs, regimes, verdicts | operators only |
| `DecisionEngine` | `decision_engine/main.py` | state machine, EXTENDS `MetaEngine` |
| `Collector` | `data_collector`, adapters of HTX and Binance | process, one variable |
| `MarketData` | `data_normalizer/main.py` behind the collector | composition, EXTENDS `Collector` |
| `Alerts` | `journal`, `monitoring`, `notifications` behind the collector | composition, EXTENDS `Collector` |
| `OrchestratorProofs`, `RealExecutionProofs`, `ModeGovernanceProofs`, `LearningProofs`, `DecisionEngineProofs` | theorems about the module each is named after, about `FuturesMargin` and `PositionBook` (`RealExecutionProofs`), about `MetaEngine` (`DecisionEngineProofs`) | proofs, each EXTENDS its module |
| `CollectorProofs` | theorems about `MarketData`, which it EXTENDS, and about `Alerts`, which it takes by INSTANCE | proofs |
| `ProofFacts` | none: finite sets, least numbers, lists, sums | lemmas the proofs share |
| `MC*` | constants for TLC | |

Mutants (wrong variants of a definition, each called so in its comment) stand just
before the definition they vary; no specification uses them.

### PairExecution

One process. `run` holds the step it is at and the locals it carries; each step is one
`await` that matters:

| Code (`pair_execution/main.py`) | Action |
|---|---|
| statuses of open pairs, blocked or not (622-625) | `CheckSymbol` |
| no quantity or no assessment (628, 636) | `SkipSymbol` |
| `build_pair_assessment` | `AssessPair` (side, quantity and acceptance are free) |
| `_persist_pair_assessment` | `PersistPair` |
| rejected by the quality score (642-654) | `RefusePair` |
| two simulated FOK orders (353-358) | `DrawLegs` |
| `_insert_leg_decision`, `apply_fill` | `InsertLegDecision`, `FillLeg` (`Fill`) |
| retry (416-433) | `MarkCompleting`, `RetryMissingLeg` |
| compensation (451-465) | `MarkCompensating`, `CloseLeg`, `RecordIncident`, `FinishPair` |
| `except` of the loop (692) | `CycleError` |
| the container dies and restarts | `Crash`, `Restart` |

`book` has the position of each symbol and market, which all pairs share: a fill opens,
reinforces, closes what is there, or does nothing. `deals` records, for the properties
only, what each pair is made of, the positions of its symbol when its row was inserted
(`found`) and after its last fill (`left`).

`CycleError` and `Crash` are possible before every await. The completion decision is
taken with the edge the pair was accepted with and no attempt made (407-411), so
`DecideCompletionAttempt` is always true there and the branch that refuses the
attempt is dead; the operator is modelled with its arguments all the same.

### Orchestrator and DecisionLedger

`FetchMode`, `FetchBatch`, then `ReadContext`, `ReadKillSwitch`, one `InsertRuleRow`
per rule and `InsertFinalVerdict` for each decision of the batch (or `BlockDecision`
when the capital is unknown), then the execution of what passed: `ExecuteSimulated`
and `Fill` in paper mode, `PlaceOrder`, `Confirm`, `Fill`, `InsertOrderRow` in real
mode. The mode read by `FetchMode` is `run.mode`; the one `ReadContext` reads again is
`run.ctx.mode`. `Around` is everybody else: `InsertSignal` (decision_engine),
`InsertPairLeg` (pair_execution), `SetKillSwitch`, `ChangeMode`. `RejectOrder`,
`LoopError`, `Crash` and `Restart` are the failures.

Quantities are units: a decision asks for one, and `ExposureCap` counts units. The
rules that read prices, profits or the order book are one rule, `market_conditions`,
which answers freely. `RiskReward` and `MaxRiskFraction` keep what matters of position
sizing: a fused decision always reaches the ceiling (its ratio is at least 1.5, a tenth
of which is above 2 %), a pair leg has ratio 0 and fails.

`DecisionLedger` is the promise, decision by decision: absent, pending, judging, then
refused, approved or lost; approved, then ordered or lost. An interruption loses the
decision under judgement and the approved ones, and may order the one at hand.
`Orchestrator` implements it under the mapping `Stage`.

### RealExecution, EntryProtection and FuturesMargin

`Orchestrator` decides *whether* an order is sent; `RealExecution` is about *how*. The
exchange is a second database: `resting` and `executed` are what it knows of each spot
order, `stops` the conditional orders that live on it, `held` the futures units it holds,
and calls that write it can fail before or after they take effect. A triggered stop closes
what is held in its direction; `triggered` remembers it for the properties, for no code
asks. HTX keeps purchases and sales of futures apart where `held` nets them; it has no stops,
and nothing else is compared with `held`.

| Code (`modes/real.py` unless said) | Action |
|---|---|
| the batch is judged before its first order (`execution_engine/main.py:102`, `rules/spot_no_shorting.py`) | `JudgeBatch` (`sellable`: where a spot sale passed) |
| `execute`, road by `market_type` | `Execute`, `PassGate`, `RefuseAtGate` (futures gate) |
| `place_order` | `PlaceSpot` (a limit order that rests), `RefuseSale`, `PlaceFutures` |
| `_poll_fill_confirmation` | `Poll`, `PollWithoutSymbol` (`BinanceAdapter.get_order_status` raises without the symbol, which is not passed) |
| `apply_fill` | `ApplyFillToBook` |
| stop attached after the entry | `LackStopCapability`, `PlaceStop`, `MissStop`, `RecordStop` |
| stop of a closed position | `CancelStop`, `MissCancellation` |
| `finally`: the row of `orders` | `InsertOrderRow`, `RowIsLost` |
| `except` of the order | `CallRaises` |
| the container dies; the reconciliation only reads and counts | `Crash`, `Restart` |
| the exchange | `ExecuteUnit`, `CancelRest`, `TriggerStop` |

A sale of the batch may come after another that closed the position: it is placed, or
refused by the exchange, and its fill changes nothing in the book.

`EntryProtection` is the promise for each exchange: flat, exposed for a while, then
protected or announced to be without protection; an interruption may leave it unknown. A
protected position is stopped once its stop is triggered (`Fire`): the row stays, the
exchange holds nothing in its direction. A later order over that row may leave it bare
(`Reinforce`), and what is bare may be sold or stopped again (`Unwind`). The stage is read
off `stops` and `held`, not off the identifier in the row.

`FuturesMargin` has the prices of a futures entry in exact integers.

### ModeGovernance

`history` is the table of modes, oldest first. Each request is a coroutine with its own
step and locals: `ReadMode`, then for the real mode the queries of
`_build_governance_context` one by one (`ReadContextMode` reads the mode again,
`ReadLastDifferent`, `ReadSegment`, `ReadTrades`, `ReadAllocation`, `ReadOtherFacts`)
and `InsertRow`. `evidence` records, for the properties only, what each row of the real
mode was granted on. Rows have distinct times (`changed_at` is a microsecond clock); the
duration is measured on a coarse clock, `now`.

### StrategyLifecycle, Calibration, Learning and LearningContract

`trades` is the table of closed positions, with the set of strategies each trade is
attributed to and its profit in currency and in basis points, which may disagree. The
batch reads a status (`ReadStatus`, after the missing row was created), judges eviction
over the last trades whatever their age (`JudgeEviction`), then resurrection over the
trades closed since the last transition (`JudgeResurrection`), and writes the row with its
history line in one transaction (`ApplyTransition`); `FailEvaluation` is the `except`
around one strategy. A calibration cycle is `Calibrate` (gather and fit), `Deactivate`,
`InsertRun`, with `InterruptCalibration` between any two. `Learning` runs both while
trades close and the first snapshot is taken.

`LearningContract` is what a reader of the two tables may count upon: a strategy moves
down by `Evictions`, up only to `experimental`; the active calibration may become anything
at any time.

### DecisionEngine and MetaEngine

`Start` registers the strategies, `FetchStatuses` begins a cycle, then for each symbol
`ReadMode`, `CollectOpinions` (or `NoOpinion`), and for each market `FuseMarket`,
`DeriveTheVerdict` (which reads the active calibration) and `Persist`. `SkipSymbol` is a
missing or stale feature, or the `except` around a symbol; `Crash` an error anywhere
else. `Learn` is any step of `LearningContract`, `ChangeMode` the operator,
`TakeSignal` the orchestrator. Scores are percentages, so that `Fuse` computes exactly what
the code computes in floats; cost, probability and value of a fusion are free booleans in
the state machine and operators of their own in `MetaEngine`.

### Collector, MarketData and Alerts

`link` is the state of each feed's connection: `Connect`, `FailToConnect`,
`RefuseHandshake` (an answer that is no upgrade is neither `ConnectionClosed` nor
`OSError`: it ends the process with all its feeds), `LoseConnection`, `CloseCleanly`
(Binance: `async for` returns and the loop connects at once), `GoSilent`,
`NoticeSilence`, `Retry`, `RestartCollector`. The two modules that extend it add what those
steps carry.

`MarketData`: `Trade` and `Resend` publish messages when the feed is open, of one trade for
Binance, of several for HTX. `Receive` takes a message from the channel; `Read` is
`normalize_trade_message` trade by trade, with nothing of the normalizer in between, since
the loop awaits nothing. The size of the buffer is tested after the last trade, as in the code,
so that a batch may exceed `BATCH_MAX_SIZE` by the rest of a message; a flush by size blocks
the loop until `Insert("loop")`.
`FlushPeriodically` is the task, `Insert("task")` the end of its insertion. `LoseTask` is a
failed periodic insertion, which kills the task for good; `EndNormalizer` one in the loop.

`Alerts`: `Say` is a publication that the journal writes or loses and that notifications hears
if it runs (`Hear`: route, debounce, enqueue); `Disconnection` and `Silence` are the names each
adapter has for an outage, hence the key of its debounce window; `RunChecks`, `SendAlert`,
`HoldAlert`, `SetCooldown`, `FailChecks` are a cycle of monitoring; `TakeNotification`,
`Deliver`, `RefuseNotification`, `EndService` the sending loop.

## 3. Runs

| Run | Bounds | Shows |
|---|---|---|
| `pair_execution` | 2 symbols, 2 pairs, quantities 1 and 2, spot leg bought or sold | the seven properties of PairExecution hold |
| `pair_residual` | 1 symbol, 2 pairs | **violated**: an abandoned `executing` pair with one leg open does not block its symbol |
| `pair_compensation` | 1 symbol, 2 pairs | **violated**: compensation closes what earlier pairs hold |
| `orchestrator` | 2 decisions, batch of 1, 1 symbol, cap 1, 1 interruption, paper and real, routing on | the eight properties hold, the refinement among them |
| `orchestrator_capital` | 1 decision, no interruption | **violated**: a real order sized on paper capital |
| `orchestrator_exposure` | 2 decisions, cap 1, routing off | **violated**: two purchases of a batch pass a cap of one |
| `mode_governance` | 2 requests at a time, 3 modes, 1 exchange, 4 rows, 1 closed position, 1 tick | the five properties hold |
| `real_execution` | 3 orders, HTX without conditional orders and Binance with them, 2 units of spot, 1 of futures, 2 polls, 1 failure | what rows, book and stops may claim of the exchange; `EntryProtection` is implemented |
| `learning` | 2 strategies, 4 kinds of trade, 3 trades, windows of 1 and 2, 1 failure | `LearningContract` is implemented; resurrection, ruin and the calibration gap |
| `decision` | 2 spot engines and a futures one, 2 symbols, 2 changes | what a signal rests on, when it is decided and when it is executed; five assumptions compare the pure operators with reference statements |
| `market_data` | 3 trades of one HTX feed, messages of 1 or 2, one in the channel, cache of 2, batches of 2, threshold 1, each trade accepted twice at most, 2 failures | conservation of trades, gaps told |
| `alerts` | 1 feed of each exchange, each with its own events, queue of 2, 1 loss | an outage keeps being told |

Why the bounds are enough.

- *Pairs.* Interference is between two pairs: of one symbol, the second finds what the
  first left, of either side and of another quantity, so that its legs open, reinforce,
  close or do nothing; of two symbols, one pair is created beside an abandoned one.
- *Orchestrator.* Two decisions and a batch of one: `LIMIT` cuts the queue, and the second
  decision is judged only if the first leaves its head. One interruption at any await,
  followed by a restart, is every single-fault behaviour. A cap of one makes
  `max_exposure` refuse. Two decisions share a batch in `orchestrator_exposure`, and in the
  theorems, which hold for any limit.
- *Governance.* Four rows hold paper, real, paper, real (or a backtest in between),
  with two requests in flight: enough for one evaluation to be overtaken by a full
  return. One tick and one trade are the thresholds themselves.
- *Real execution.* Three orders open, reinforce and close a position, open, close and open
  again over an orphan stop, or open, reinforce after the stop was triggered and close; a
  purchase and two sales of one batch meet the second sale without a position; two units can be
  executed in part before a poll, between two, after the last or before a cancellation; two
  polls make the last one different from the first. One failure at any call is every
  single-fault behaviour.
- *Learning.* An eviction window of one and a quarantine of two let the window look back
  over a transition while the quarantine may not; a third trade closes under the batch.
- *Decision.* Two spot engines can agree and disagree, the futures one is fused apart; two
  symbols share one read of the statuses; two changes allow a status and the mode, or the
  mode twice. One signal waits at a time; the real queue orders several but mixes nothing
  between them.
- *Market data.* Two identifiers in the cache and three trades make a resend fall in or out
  of it; a message of two trades over a buffer of one is a batch longer than its limit, and
  the task may hold earlier rows meanwhile. Two failures end the task, then the loop. Messages
  of two are those of HTX; one of Binance is a message of one.
- *Alerts.* Two feeds are the least for one to be heard while the other is out. Two places
  in the queue are filled by one outage of HTX, and are the least the property can do with:
  in a queue of one, an alert of another kind would displace what tells of the outage each
  time.

The proofs of section 5 remove these bounds for every safety property.

`CHECK_DEADLOCK FALSE` is used in two runs, whose models stop at their bounds with
nothing left to do: `mode_governance` (rows, trades and time) and `market_data` (trades).

What each property excludes is in its comment, the hazard it answers in
`PROJECT.json` ("hazards"); every property is shown to fail on a plausible bug
("mutants").

## 4. Fairness

- `PairExecution`: weak fairness of `Work`, the steps of a cycle. The event loop resumes
  a coroutine whose await has returned. Nothing is assumed of `CycleError`, `Crash` or
  `StartCycle`: the liveness property says "settled *or abandoned*".
- `Orchestrator`: weak fairness of `Loop`, which includes `Restart` because the container
  has a restart policy. Interruptions are finitely many (`MaxInterrupts`), and
  `EveryDecisionIsJudged` is about runs of that kind. The other processes owe nothing.
- `ModeGovernance`: weak fairness of each request's `Progress`, one coroutine each.
- `RealExecution`: weak fairness of `Work`. The adapters' HTTP clients have timeouts, so a
  call answers or raises. The exchange owes nothing: it may never fill.
- `EntryProtection`: weak fairness of closing the window of exposure, implemented by the
  above.
- `Learning`: weak fairness of the steps of each process: they sleep and run again.
- `Alerts`: weak fairness of each feed that is not open (it retries, waits, notices silence),
  of monitoring, of notifications and of the passing of the freshness threshold; strong
  fairness of the end of some debounce window and of the cooldown of the freshness alert (less
  than the clock gives), because time passes although they can only be *seen* to end with an
  empty queue. That is the one assumption on time:
  windows of 15 and 30 minutes outlast the emptying of a queue that is sent one message
  after the other. Without it a queue that is always full could drop every message that
  tells of the outage. No connection is owed, nor the delivery of any one message.
- `DecisionEngine` and `MarketData` have safety properties only and assume no fairness.

## 5. Proofs

The theorems hold for every value of the constants that satisfies the named assumptions of
the modules (`...Assumption`), which say no more than what the constants are: non-empty
sets, positive bounds. In each module the argument is the same: an inductive invariant,
`Inductive`, holds initially and is preserved by every step, one lemma per action or per
part of it; it implies the properties. TLC checked each invariant on the bounds of the run
before it was proved. What has to be added to a property to make it inductive is the
interesting part:

| Module | Theorems | What the invariant adds, and why |
|---|---|---|
| `PairExecutionProofs` | every safety property of `pair_execution` | below |
| `OrchestratorProofs` | every safety property of `orchestrator`, `LedgerRefinement` | `BatchIsFresh`, `ResultsComplete`, `OutcomesAreDue`: the next order depends on what the process carries in memory, not on the tables the properties speak of |
| `RealExecutionProofs` | every safety property of `real_execution`, `ProtectionSafety`, the stop | below |
| `ModeGovernanceProofs` | every safety property of `mode_governance`, the safety core of `ReducingRiskIsNeverDenied` | `Rests`: what a request knows at each step is still true at the next, because the tables only grow; `OnlyRealIsJudged` |
| `LearningProofs` | every safety property of `learning`, `ContractRefinement` | `VerdictIsATransition`, `VerdictIsJudged`: the verdict carried to `ApplyTransition` fits the status it was reached on, and is what the rules answer to the newest trades of an earlier moment, which no later closing changes |
| `DecisionEngineProofs` | every property of `decision`; fusion, ranks, regimes, costs and verdicts of `MetaEngine` | `KnownIsFresh`, `SpeakersAreEligible`, `VerdictIsProven`, `ModeIsCurrent`, `PendingIsProven`: each read of the chain is right, but for what moved since (`moved`, `switched`) |
| `CollectorProofs` | every property of `market_data`, every safety property of `alerts` | `CacheIsASet`, `LetInOrForgotten`: a cache that holds no trade twice forgets it as often as it lets it in again; `ClockIsRight`; `EventsWaitOnce` |

### Pairs

`PairExecutionProofs` holds for any non-empty sequence of symbols, any number of pairs, any
set of sides and of quantities.

- `TypeCorrect`: `TypeOK` is inductive as it stands.
- `AtMostOnePartial`, `NoPairOverPartial`, `OnlyTheCurrentMoves` rest on `Inductive`, the
  conjunction of `TypeOK` with
  - `RowsInOrder`: the rows inserted so far are `1..pairCount`, and the pair at hand is
    among them, unsettled, and of the symbol being visited. It is what makes a new pair
    new;
  - `NoRival`: while the process works on a symbol, past the check of the blocking
    statuses, no *other* pair of that symbol is in an unresolved partial execution.
    Without it, the pair at hand could enter `partial_execution` beside another one: the
    property alone is not inductive, because the check happened many steps earlier;
  - `AtMostOneUnresolvedPartial` itself.
- `SettledPairsAccount` and `OneIncidentPerPartial` rest on `InductiveAccounts`, which
  adds `StageFitsStep` (what the locals can be at each step) and `Accounts` (which legs and
  incidents the pair at hand has at each step, and what it has done so far to the position
  of each market). `SettledPairsAccountForTheirLegs` compares positions, not calls: a leg that is
  kept has added its quantity, or closed what it found; a leg that was compensated leaves
  nothing, except that reversing a sale that had closed a position opens one of the other side;
  and each pair found the positions as the previous pair of its symbol left them, without
  which a leg could be accounted for twice.

### The road to an order

`Inductive` says of each decision that its rows in `risk_checks` are the beginning of a
judgement, a whole one, or a refusal (`TablesAreInOrder`); that the batch holds different
decisions nothing was written about (`BatchIsFresh`); that the rows written and the results
still to be written make one judgement (`ResultsComplete`); that the outcomes are different
favourable decisions, none but the first ordered (`OutcomesAreDue`); and that a decision the
kill switch covers is about to receive no favourable verdict (`HaltedIsHeld`).

`LedgerRefinement` is the full refinement: `DecisionLedger` has no fairness, so its
specification is `Init` and the box. An interruption moves several decisions at once (the
one judged, those approved, perhaps the one at hand); each goes its own way, and the lemmas
take them one by one.

### Real orders

- `Executions` ties an order to the exchange: what was executed is at most what was asked,
  and all of it when the exchange says so. With `AtHand` (what the coroutine may count on at
  each step) it gives `FilledRowsTellTheExecution`.
- `Accounts` gives `SpotBookIsBacked`: while every execution is told of, or still may be
  (`Told`), the book holds no more than what was delivered minus what is `InProgress`. The
  property alone is not inductive: between the execution and the row the book is behind, and
  a sale the book has not seen must already count. `Available(e) >= 0` is needed beside it, for
  a sale may be placed while another rests.
- `Entries` and `Window` follow the futures position from its fill to its row, and `Holdings`
  says of every triggered stop that what the exchange still holds in its direction comes from a
  later order; they give `FilledEntriesAreProtectedOrAnnounced`. A stop that was triggered
  counts only while that is so: the property does not say that a position reinforced over a
  triggered stop is protected, because it is not (section 6, item 6).
- `StopsAreKnown` lists why a stop may still be on the exchange, `NeverRecorded` being the
  orders whose row will never say filled. A closing order is of that kind from the moment
  its call raised, hence `OrphanStopsAreOnRecord`.
- `ProtectionSafety` is the safety half of `ImplementsProtection`: each step is a step of
  `EntryProtection` or leaves every stage as it is. A position is protected only while its stop
  lives on the exchange, and bare only after an order over a row whose stop was triggered. The
  liveness half (the window of exposure is closed) stays with TLC.
- `StopPrecedesLiquidation`: the stop is reached before the liquidation price, long or
  short, at any leverage up to 237, for every entry price. `compute_max_loss_stop_price`
  leaves this to its caller (`futures_margin.py:118`), and real mode, the caller, does not
  verify it: the lemma says it need not. `StopCapsTheLoss`: what the stop loses is 5 % of
  the margin engaged, at any leverage.

- `BookFollowsWholeFills`: what `apply_fill` does to a row is what happened on the exchange
  exactly when the fill opens, reinforces, or closes all there is. A fill in the other
  direction with another quantity ends the row all the same, which is the arithmetic behind
  the divergences 2 and 6 of section 6. A row is never turned over, and a spot row never
  becomes short.

### Governance

- `RealRowsRestOnASegment` and `BacktestEarnsNothing` need the evaluation step by step
  (`Rests`): a request that reads the last row of another mode, then the segment, then the
  trades, knows of an uninterrupted segment ending where the request *began*, and of enough
  time and trades in it, whatever rows others insert meanwhile. Trades of a backtest do not
  exist (the backtest writes no closed position).
- `ReducingRiskIsNotJudged` and `ReducingRiskIsNotRefused` are the safety core of
  `ReducingRiskIsNeverDenied` (`execution_mode_governance/main.py:12`): a request for paper or
  backtest never reads a prerequisite and never reaches a refusal. That it is granted at all
  needs fairness and stays with TLC.

### Learning

- `NoEvictionWithoutALoss`, `NoResurrectionWithoutAWin` open the sums of the metrics: none of
  the three ways to condemn (drawdown, mean, ratio of gains to losses) can be met without a
  trade that lost, in money or in basis points, and no sample earns a return without a trade
  above `MinEdge`. Both need a full window; `NewestFillTheWindow` says that the window
  is full whenever there are enough trades, and holds the newest.
- `VerdictsAreTheRules` carries this to the table: every transition is what the rules answered
  to the newest trades of a past moment. The invariant is needed because trades close between
  the judgement and the write, possibly of the strategy at hand: the verdict is then no longer
  what the rules would say, but `RulesForgetLaterTrades` shows that it is still what they said.
- `ResurrectionIsPaidFor` follows: a full quarantine closed since the last transition, and a win
  in it.
- `ContractRefinement` needs none of this: which strategies fall is free, what a fall may be is
  not. `Inherited`, the statuses the tables hold at first, is any set of assignments of known
  statuses (`InheritedAssumption`), here and in `DecisionEngine`.

### Decisions

- `SignalsGoverned` and `UnprovenMoneyWaited` are action properties: the step that inserts
  or takes the signal is judged in the state the invariant describes.
- Fusion, for any finite set of engines and any percentages: it elects one side at most
  (`FusionElectsAtMostOne`), prefers none (`FusionHasNoSide`: mirrored opinions give the mirrored
  fusion), does not hear an engine without confidence (`SilenceIsNoVote`), elects a side that has
  all the confidence and none without any (`FusionFollowsItsBackers`), and its score is a mean
  (`StrongFusionHasAStrongEngine`: the 75 % a bootstrap asks for are those of one engine at
  least).
- `RanksFollowMomentum`, `RegimesAreRelative`, `CostsAgree`, `BootstrapIsStricter` are the
  reference statements of `MCDecisionEngine`, for symbols, histories and rates of any
  number and size. `RegimesAreRelative` adds that the regime of volatility grows with
  volatility.

### Market data and alerts

- `TypeCorrectness` bounds what the code bounds: the cache, the buffer between two messages
  (below `BATCH_MAX_SIZE`), and a batch by the buffer plus one message, for any size of message.
- `TradesConserved` counts: the number of occurrences of a trade in buffer and batches,
  in the cache, stored, lost and forgotten. `GapsTold` follows from `ClockIsRight`: no gap between
  the newest trades is hidden. A false one is told only after an older trade was accepted
  behind a newer one and took the clock back: forgotten by the cache and sent again, or missed
  and sent late.
- `AlertingTypeCorrectness` and `EventsNeverPileUp` are about `Alerts` over the same links
  (`faults` becomes `losses`, beside the one of `MarketData`) and any positive `QueueSize`. The
  first bounds the queue and says that a process that is down holds none. The second says that
  the debouncer does its work: an event of a connection waits or is being sent once at most,
  and is remembered while it does. Only alerts, which are not debounced, push notifications
  out of a full queue. The second rests on the assumption on time of section 4.

### Lemmas

`ProofFacts` has what several proofs need and the library lacks in usable form: the least
member of a set of numbers, the list of a finite set in increasing order, the sum of a
function over a finite set (it exists, is unique, changes by what one member changes, leaves
out zeros, lies between the sums of its bounds, counts when its terms are ones, and owes its
sign to a term).
The library's induction theorems take an operator and cannot be used; a smallest
counterexample (`SmallestMember`, `SmallestSubset`) takes the place of induction.

### What is only model-checked

- Liveness, which is beyond the prover (fairness, ENABLED):
  `PairAtHandIsSettledOrAbandoned`, `EveryDecisionIsJudged`, `ReducingRiskIsNeverDenied`,
  `OrdersNeverBlockTheLoop`, `RuinIsActedUpon`, `OutagesKeepBeingTold`, and the liveness
  half of `ImplementsProtection`.
- How high a sum goes beyond these theorems: the exact metrics of a window and the exact
  weights of a fusion are defined by folds, hence by induction over data. The theorems use
  what bounds them.
- A short history gives an unknown regime, paper and backtest decide alike: read off the
  definitions, and checked in `MCDecisionEngine`.

## 6. Where the code does not do what it says

Shown by a run:

1. `ResidualExposureKeepsOtherPairsOut` (`state_machine.py:40-43`). `executing` is not
   a blocking status and nothing resumes a pair: an error between two leg openings
   leaves a naked leg, and the next cycle opens another pair on top of it.
2. `CompensationClosesTheLegItOpened` (`main.py:566`). An opposite fill closes the
   whole position of the symbol, so compensating one pair strips the earlier ones of
   their leg.
3. `RealOrdersAreSizedOnRealCapital` (`risk_engine/main.py:270-273, 310-311`). The mode
   is read twice per iteration.
4. `ExposureStaysUnderTheCap` (`rules/max_exposure.py:10-12`). A batch is judged whole
   before it is executed. For the same reason the second sale of a batch may find no
   position (`sellable` in `RealExecution`): `positions.py:123-132`, which "ne devrait jamais
   arriver" and is "jamais silencieuse", then does nothing, silently, for no caller gives it a
   publisher.

Built into the models, and visible in what the properties that hold have to except:

5. `BinanceAdapter.get_order_status` raises without a symbol (`binance.py:253-260`) and
   `_poll_fill_confirmation` passes none: every real spot order on Binance is recorded
   rejected, whatever it executed (`PollWithoutSymbol`). Likewise an order cancelled after
   it was executed in part, or left pending after the last poll, never becomes a position.
   `SpotBookIsBacked` says that at least the rows then show it.
6. A position that is reinforced keeps its first stop; an opposite futures order closes the
   whole row; a stop that triggers is never learnt by the code, and its row stays open. A later
   order in the same direction is then taken for a reinforcement, which gets no stop
   (`real.py:272`): the exchange holds a bare position that nothing tells of, contrary to
   "jamais une position réelle sans filet de sécurité signalée silencieusement"
   (`real.py:82-83`). It is the third disjunct of `FilledEntriesAreProtectedOrAnnounced` and the
   stage "bare" of `EntryProtection`; both say that it is the only road there.
7. A mode evaluation is not one step with its insertion: a stale one can be granted after a
   change to real and back (`checks/minimum_duration.py:1`). `RealRowsRestOnASegment`
   says what is left: the segment was uninterrupted when the request *began*.
8. `calibration/main.py:89-93` excludes any return to no active calibration; the UPDATE is
   committed before the INSERT, and an interruption there lasts until the next cycle
   (`CalibrationGapNeedsInterruption`).
9. `under_review` is eligible for real money (`states.py:45-53`), and a batch may move a
   strategy into it, though only down.
10. The opinions of the side that lost a fusion are among the contributors of the decision
    (`decision_engine/main.py:466-490`), so their strategies are later credited with its
    trade (`Signal`, `ClosedTrades`).
11. A bootstrap signal is "jamais utilisée en mode réel" (`thresholds.py:27`), but waits in
    the queue without its mode: a change of mode sends it
    (`UnprovenMoneyNeedsAModeChange`).
12. `data_collector` publishes only connections and disconnections, so its freshness check
    is a false alarm on a healthy collector after some minutes. It is also what tells of the
    outages that publish nothing.
13. The rate of disconnections counts `collector.disconnected` (`monitoring/main.py:107`), while
    Binance publishes `ws_disconnected`. The debouncer's key is the event type alone, so one
    feed's disconnection silences those of the other feeds of its exchange; `mark_resolved` is
    never called. An exception of the HTTP client ends notifications with its queue. A handshake
    refused to one feed restarts the collector for ever, in silence as long as another feed
    manages to connect: the third disjunct of `OutagesKeepBeingTold`, which exempts such a feed
    as a whole.
14. A pair sells its spot leg when funding is positive (`pair_execution/main.py:256`), but a
    spot sale opens nothing: over an empty row it changes nothing and says nothing
    (`positions.py:123-132`, without a publisher), over the row of an earlier pair it closes
    it. The pair is `both_filled` with a futures leg alone (`TakesOff`, `Kept`), and
    compensating such a leg buys a position that was never there (`Compensated`).
15. `BATCH_MAX_SIZE` bounds no batch: all trades of an HTX message enter the buffer before its
    size is tested (`data_normalizer/main.py:243-245`; `MaxBatch`).

## 7. Not modelled, and why

- Prices, profits, fees, probabilities and the arithmetic of features: real numbers. The
  rules that use them answer freely, and what can be compared by cross-multiplication
  (fusion, expectancy, costs, percentiles) is an operator.
- `portfolio`: sums of money over positions. Its one interleaving is listed as a hazard
  without a property.
- `feature_engine`, `strategies`, `cost_model`: stateless computations, or one writer of one
  table. `ml_engine`, `optimization`, `backtesting`, `paper_trading`: offline and
  sequential. `liquidation_ingest`: one insertion per event.
- Reading routes of the API, the frontend, backups, migrations other than the seed row:
  input and output.
- Journal events published by the other services: nothing they do depends on them, but the
  announcements of `RealExecution`, which are recorded.
- Inside `_build_risk_context`, the database reads are one step: they run on one connection,
  back to back, and the mode they share is read first; the kill switch is a step of its
  own.
- `apply_fill` SELECTs and then writes; every model applies a fill in one step. In real mode
  one coroutine calls it. In paper mode `pair_execution` calls it too: two open rows for a
  symbol would take two fills within one round trip to the database, and an index would
  forbid them.
- The growing delay between two attempts to connect.
- A missing chat of alerts (`notifications/main.py:100`): every notification would be dropped
  with a warning. `Alerts` takes it as configured.
- Fees taken in the asset that is bought: the account would hold a little less than
  `Holding` says.
- Whether a strategy's code differs from its declared version (`strategies/registry`).

## 8. Plan

The plan is carried out: every component named above is modelled, every safety property of a
run is a theorem for every value of the constants, and so are the rules by which opinions are
fused, symbols ranked and strategies judged. What remains with TLC is what the provers cannot
reach (fairness) and what section 5 lists. The hazards without a property say why in
`PROJECT.json`; those a later version could take up are `portfolio` across a change of mode and
two writers of one paper position, which needs a finer `apply_fill`.
