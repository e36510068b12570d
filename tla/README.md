# Formal model of stock-trading-agent

TLA+ specifications of the trading agent under `src/`, the TLC configurations
that model-check them, and proofs that TLAPS checks.  Paths below are relative
to `src/src/` unless they start with `tests/`.

## 1. Inventory

The agent is one asyncio process (FastAPI under uvicorn) with a PostgreSQL
database, a Redis cache, a Telegram bot that polls for updates, an APScheduler
instance, LLM services and a broker (KIS over HTTP, or an in-memory broker).
Every database helper opens a session of its own and commits, so coroutines
interleave at every `await`; there are no locks and no transactions that span
two helpers.

| Component | State | Operations | Interacts with |
|---|---|---|---|
| `execution/executor.py` OrderExecutor | rows of `orders`, `executions`; local variables of one coroutine per order | `execute_entry`, `execute_exit` | web verification, approval, risk rules, broker, positions |
| `execution/approval.py` ApprovalManager | rows of `approval_requests`, approval columns of `orders`; dictionaries of events and results in memory | `initialize`, `request_approval`, `_handle_callback`, `_wait_for_response`, `_handle_timeout` | Telegram bot (callback slot), executor (awaits it) |
| `notification/telegram.py` TelegramBot | one callback slot, chat messages with buttons | `send_approval_request`, `register_callback_handler`, `_on_callback_query` | approval managers, the user |
| `api/routes/orders.py` | none of its own | `execute_order` (builds a new ApprovalManager and executor), `respond_to_approval` | database, the bot's slot |
| `strategy/position_manager.py` | rows of `positions` | `create`, `close`, `update_trailing_stop` | executor, sweeps |
| `execution/web_verify.py` | none | `verify` | LLM router |
| `execution/exit_executor.py` | none | `process_exit_signals` | executor |
| `scheduler/` engine, jobs, factory, monitor | registered jobs, `_paused`, rows of `job_executions`, alert marks in Redis | `create_scheduler`, `register_job`, `start`, `stop`, `pause_all`, `resume_all`, `run_job_now`, `_wrap_job`, jobs | everything above |
| `strategy/` risk_manager, sizing, exit_calculator, exit_checker | none | `check`, `calculate`, `check_*` | portfolio state |
| `strategy/portfolio_state.py` | rows of `portfolio_snapshots`, sector cache | `get_current_state`, `save_snapshot`, `get_peak_value` | broker, database |
| `agent/` orchestrator, agents, recorder | rows of `decision_log` | `execute`, `analyze`, `record` | LLM router, tools |
| `llm/` router, cost_tracker, providers | rows of `llm_usage`, `agent_model_config`, cached configuration | `route`, `route_structured`, `record_usage`, `get_budget_status`, `update_config`, `reset_configs` | Redis, vendors |
| `broker/kis/` client, auth; `broker/registry.py`, `mock.py` | token in Redis, semaphore, registered brokers | `connect`, `_request`, `place_order`, `get_balance`, `get_daily_ohlcv`, `get_token`, `register` | the exchange |
| `backtest/` engine, simulator, walk_forward | cash, simulated positions, pending signals, `backtest_runs` row | `run`, `place_order`, `generate_windows` | price history |
| `data/` collector, providers, cache | tables of bars, stocks, filings, indicators, news; entries in Redis | `collect_*`, `sync_*`, `fetch_*`, `clear_namespace` | vendors, KIS client |
| `analysis/`, `report/`, read-only `api/` | none of their own | formulas, aggregation, text | database |

What makes this system hard: an answer from a person travels through a task of
its own, over three awaits, to a coroutine that may have given up meanwhile;
the answer can also come through the API, which does not reach the coroutine at
all; one bot slot serves several approval managers; order, execution, position
and approval rows are separate transactions that fail and are cut off by a crash
separately; the exchange goes on without the process.  Jobs overlap with jobs of other
accounts and with the same job started by hand; caches are filled from reads
that a commit has overtaken; one access token serves all requests of an account;
a simulated account is kept twice, by the engine and by its broker.
`PROJECT.json` lists each hazard at its line, with the properties that cover it
or the reason why none does.  Some of these are gaps the code has: the second
signal of a symbol with two open positions, a sale that was not recorded, two
instances of one job, a crash during a job, the late fill of a cache.  A history
variable takes such cases out of the property in question, which then says that
there is no other; these hazards are listed without a property, or with a note.

## 2. Modules

| Module | What it models |
|---|---|
| `OrderState` | constants and their assumptions, the variables the order pipeline shares, their types, the initial state |
| `ApprovalManager` | `execution/approval.py`, the buttons and the callback slot of `notification/telegram.py`, the approval route of `api/routes/orders.py` |
| `OrderExecutor` | `execution/executor.py` with `strategy/position_manager.py`, the broker's replies, crash and restart; `Next`, the specification, the properties |
| `OrderLifecycle` | abstract specification: the life of an order as its row and the exchange show it |
| `PositionLifecycle` | abstract specification: the life of a row of `positions` under the scheduler's jobs |
| `OrderExecutorProofs` | inductive invariant, theorems, refinement proof |
| `MCOrderExecutor` | instances for TLC |
| `RiskRules` | `strategy/risk_manager.py` and `strategy/sizing.py` as operators |
| `EntryGate` | `generate_signals` of both strategies with `strategy/portfolio_state.py`, and `run_strategy` of `api/routes/strategy.py` |
| `EntryGateProofs` | theorems about the rules and about `EntryGate` |
| `MCEntryGate` | instance for TLC: what the broker reports, computed from holdings, a price and cash |
| `ExitRules` | `strategy/exit_checker.py`, `strategy/exit_calculator.py`, and the places that combine them, as operators |
| `SimulatedBroker` | the account of `backtest/simulator.py` |
| `BacktestEngine` | `backtest/engine.py` on `SimulatedBroker` with `ExitRules` and `RiskRules`, the run route of `api/routes/backtest.py`, `backtest/walk_forward.py`, the drawdown of `report/metrics.py` |
| `Scheduler` | `scheduler/`, `execution/exit_executor.py`, the snapshots of `strategy/portfolio_state.py`, `api/routes/control.py` |
| `LLMRouter` | `llm/router.py`, `llm/cost_tracker.py`, the retries of `llm/providers/`, `api/admin/llm_config.py` |
| `AgentPipeline` | `agent/orchestrator.py`, `agent/agents/`, `agent/decision_recorder.py`, `api/routes/pipeline.py`; extends `LLMRouter` |
| `KisClient` | `broker/kis/client.py`, `broker/kis/auth.py` |
| `DataCollection` | `data/collector.py`, `data/providers/`, `data/cache.py`; extends `KisClient` |
| `SetProofs` | facts about minima, maxima, sums and sizes of finite sets that the proofs use |
| `BacktestProofs`, `SchedulerProofs`, `PipelineProofs`, `DataCollectionProofs` | inductive invariants and theorems about the module of that name |
| `KisClientProofs` | the invariant of the client's steps, which `DataCollectionProofs` extends |
| `MCBacktestEngine`, `MCScheduler`, `MCAgentPipeline`, `MCDataCollection` | instances for TLC |

### 2.1 State and actions

An order of the model is one run of `execute_entry` or `execute_exit`.  `pc[o]`
says between which two awaits its coroutine stands; `decision`, `quantity` and
`createdId` are its local variables.  `orderStatus`, `approvalStatus`,
`webResult`, `modifiedQty` and `positionId` are columns of its `orders` row;
`requestStatus` is the status of its `approval_requests` row and `expired`
whether `expires_at` has passed; `executed` says there is an `executions` row;
`positionStatus` and `exitOrder` are columns of `positions`.  `exchange` and
`tradedQty` are the truth at the exchange.  `event` and `pendingResult` are
`_pending_events` and `_pending_results`; `handler` is the bot's callback slot;
`task` holds the local variables of tasks that carry an answer.  `clicked` and
`vetted` are history variables only properties read.

Every action is the code between two awaits, with the one database transaction
or external call it makes.  `MayRaise` names the awaits that can raise with
nothing written; where a transaction may have been committed before the
exception (a `refresh` after the `commit`), the action itself has the outcome
"written, and raised".  `PlaceOrder` sends the order and takes the reply in one
step: nothing else the coroutine does can come between, and the replies include
"the exchange has it, the reply was lost".  A crash forgets the memory and keeps
rows and exchange; a coroutine that was under way becomes `lost`, since no code
resumes an order.  `StopCoroutine` is the graceful half of that:
`SchedulerEngine.stop` cancels the running jobs, the cancellation passes every
`except Exception`, and the process, its handler and its armed requests live on.

Not steps, because they change nothing the model keeps: clicks without a
handler, clicks a handler drops (`not_pending`), the bare `modify` button,
notifications, `decision_log` rows, the copy of the approval status in Redis
(written, never read).  The `modify:{n}` branch of `_handle_callback` is not
reachable: only `send_quantity_prompt` would lead to it and nothing calls it.

### 2.2 The abstract specification

`OrderLifecycle` says what an observer of the order's row and of the exchange
may see: a row appears `pending`, may be screened by web verification, cleared
by consent, sent to the exchange only once cleared, and settles in `filled`,
`failed` or `cancelled`, where `filled` needs the exchange to have filled it and
`cancelled` needs the exchange to have nothing.  `Lifecycle` in `OrderExecutor`
instantiates it, mapping `phase` to a function of the order status, the local
decision and the verification result; `ImplementsLifecycle` is checked by TLC
and proved.

`PositionLifecycle` says the same of a row of `positions` under the scheduler: it
is opened once, its shares are sold once and while it is open, it is closed only
after that sale.  An open row may come into doubt, after which nothing is
promised of it; a row that is not open may not.  `Life` in `Scheduler` maps
`phase` to the row's status and `sales` to the history variable `soldFor`, and a
row whose `excused` is not empty to `doubted`.  `ImplementsLife` says of steps
what `SoldOnce` says of states: a closed row is never reopened, closed again or
sold again, and nothing that happens later brings it into doubt.

### 2.3 Strategy runs

A run of `EntryGate` is one request to `POST /api/strategy/run` after the agent
pipeline has answered: `todo` are the symbols it decided on (each
once: a request that names a symbol twice is not modelled).  `sizingTotal` is the
`total_value` read before the loop;
`candidate` the decision in hand with its sized quantity; `seen` what `check()`
has read of the portfolio so far, since `get_current_state` awaits the balance,
the positions, the peak and the row count one after another; `signals` what
passed; `rows` what has been written to `positions`.  Whether a decision survives
the confidence, fundamental and technical conditions is a free choice
(`DropDecision`).  The account at the broker is external: any member of
`Portfolios`, changing at any time.  Both strategies take the same steps; they
differ in the conditions and in the stop's distance from the entry, which is any
member of `StopDistances`.

Amounts are integers in a unit fine enough for prices and stops; percentages are
multiplied out.  The code uses 28-digit `Decimal`s and `int()`, which on such
amounts is the truncated exact quotient (`Room`).  The sector rule is the one
place where the code rounds quotients before it compares them: it adds two
rounded percentages, and computes its cap from the rounded numbers.  `Rounded`,
`Share` and `SectorCap` do the same with `UNITS` to the whole where the code
keeps 28 significant digits; `PrecisionAssumption` says that this is fine enough
for the amounts.  The verdict and the cap then differ where the share meets the
limit: 7 shares at 40,000 beside 620,000 of 3,000,000 pass at 30 %, and are cut
to 6.  `existing_position_value` of the sizer is
left out because no caller passes it.  Rule 7 only warns.

### 2.4 Backtests

A behaviour of `BacktestEngine` is one call of a caller: the request that
inserts a `backtest_runs` row and leaves the run to a background task, or a
walk-forward analysis that runs the parts of its windows one after another on
one engine and one broker.  `account` (cash, shares, their value) is the
broker's, `positions` the engine's; `pending` are the signals of the last day.
A day is `BeginDay`, one `ExecuteExit` per position that meets a rule,
`ExecutePending` for each signal at the open, `GenerateSignal` for each
configured symbol and `RecordSnapshot`.  Whether a symbol's indicators ask for
an entry, its ATR, and the stored decision of a replay are free choices; sizing and checks
are those of `RiskRules`.  The trailing percentage is part of the request; a
position that reaches one that is not positive makes `trailing_stop_price` raise,
and `BeginDay` fails the run.  Amounts are integers; slippage and commission are the
code's quotients, rounded half up as `quantize` does.  `capital` is a history variable.

### 2.5 The scheduler

`inst` holds the coroutines that run at one time, `Slots` how many there can be.
`create_scheduler` loads the active accounts, or makes up a default one when the
list is empty, for whatever reason; it prepares one account after another and may
fail for each; a
job is bound to the account's context of that moment.  `Fire` is a trigger
(never while paused, never beside another instance of its job), `RunJobNow` the
control route (neither restriction).  An instance writes its row, runs, and
updates its row; each of the three can fail.  The sweep reads its positions,
prices them one by one, hands its signals over by urgency, and then checks the
alerts; an analysis job runs the pipeline and enters what it was told to buy;
the daily report reads the state and saves the snapshot.  An order is here the
sale at the broker followed by the closing of the row, with the failures between
them that `OrderExecutor` establishes.

What goes wrong and what is done by hand draws on `mishaps`, so that there are
finitely many of both, and liveness properties speak of what happens after the
last.  The history variables say why a property may fail to hold in a known way:
`excused` (a position of a symbol with another open position of the account, a
second sweep started by hand, a sale that was not recorded), `doubtful` (Redis
failed around an alert, or two checks of it overlapped), `mixed` (two daily
reports of one account overlapped).  Each is set by the step that opens the way,
never by the violation.

### 2.6 The analysis pipeline and the LLM router

A task of `AgentPipeline` is the coroutine of one symbol, or of the market
analysis, of one execution; it is a caller of `LLMRouter`, which takes it through
`route_structured`: configuration from Redis, from the table, or by default;
the primary model with the provider's retries; the usage row; then, in
escalation mode, budget status, second model, second usage row.  An answer is
its confidence and "go" or "stop".  The budget counts answers.  The endpoints
that change a configuration commit first and delete the entry afterwards:
`clearing` is in between, for any number of requests side by side, and a reset
deletes its entries in batches of any sizes.  `raced` and `late` are history variables: entries
filled too late or not deleted, and escalations sent although the budget was
used up.  Prompts and what the tools collect for them are left out, since any
answer may follow any prompt.

### 2.7 The KIS client and the data collection

`KisClient` follows each call of `_request` under its semaphore: token from
Redis or a new one, the request, the answer, the single retry after a rejected
token.  A token is the number of its issue; the exchange may revoke one at any
time; an order that arrives counts in `reached` whether its answer does or not.
`DataCollection` is one machine for all providers, because all do the same
steps: download, one transaction, deletion of cache entries; and on the other
side cache, table, cache.  What differs is in one record per sync method (whether
its constraint finds the existing row, what it deletes) and in one key per fetch
method.  Bars are downloaded through the client, page by page; the stock master
file by file.  An item's content is a version number.

## 3. Runs

| Run | Instance | Shows |
|---|---|---|
| `order_approval` | 1 entry, 2 managers, 2 tasks, all broker replies | all safety properties, finality, the refinement (2.1 million states) |
| `order_exits` | a stop-loss exit and an ordinary exit of one position, 2 managers | books and stop-loss rule with two exits of one position at once (65 thousand states) |
| `order_liveness` | 1 entry, 1 task, fair coroutines and tasks | orders end; an accepted click ends the wait (215 thousand states) |
| `order_api_answer` | 1 entry, 1 task | violation: an API answer does not end the wait |
| `order_submitted` | 1 entry, KIS replies only | violation: an order recorded as failed is live at the exchange |
| `order_double_exit` | 2 stop losses of one position | violation: the second exit overwrites the first |
| `entry_gate` | 1 request, 2 symbols of one sector, 7 portfolios, 2 prices, 2 stop distances | signals keep the limits, a passing check takes off one share at most, sizer and check agree (616 thousand states) |
| `entry_daily_trades` | 1 request, 2 symbols | violation: one batch exceeds `MAX_DAILY_TRADES` |
| `backtest` | 2 symbols (one configured twice), 4 days, 13 histories, both strategies and modes, request and walk-forward | the ledger, the two books, the exit rules and the order of a day (87 thousand states) |
| `scheduler` | 2 accounts, 2 positions, 2 slots, 7 scenarios | one sale per position, the life of its row, alerts, snapshots, job rows, stops (167 thousand states) |
| `pipeline` | 2 executions, 2 symbols, 5 scenarios | audit trail, budget, configuration cache, termination (190 thousand states) |
| `data_collection` | 2 orders, 3 paged reads, 8 items, 1 reader, 11 scenarios | the truth about orders, the token, the stock master, the cache (596 thousand states) |

*Bounds.*  In the order and entry modules nothing is counted, so the only bounds
are the sizes of the sets.  Orders interact through three things: the callback
slot (which a second manager takes over in every run), the position they close (two exits in `order_exits`)
and the tasks.  Two tasks are needed for two answers in flight, which is where
answers overtake each other; a third adds an answer that behaves like one of the
two.  Two quantities are enough: the properties only compare "the strategy's"
with "another".  In `entry_gate` the portfolios include all cash, a symbol held up to
its cap, a blocking loss, a blocking drawdown, an empty account, and a sector share
that meets its limit only when rounded, so that a passing order is cut; the prices
one below and one above the position cap; the stops one at a distance and one
clipped to 1.  A second request would add nothing a moving portfolio and
`ExecutorEnters` do not (`MaxOtherRows` bounds the latter).  The proofs of section 5
remove these bounds, and the scenarios of the other modules, for every safety
property.

The other four modules start from a member of `Scenarios`: which jobs, calls,
positions and configuration changes take part, and how many mishaps there are.
Every scenario brings together the parts that interact, with one to three
mishaps (one to spoil a step, a second to spoil its repair); separate
scenarios instead of one large one keep the runs small and lose only
combinations of parts that share no state.  `LastDay` is 2 in the scheduler (a
second day starts new alert keys, a new snapshot and runs out a holding period)
and 4 in the backtest (signal, entry, exit and one day to enter again; one window
of two and two days).  The histories contain a rise that gives way (trailing
stop), a fall through the stop, a rise to the target, gaps, a share no cap
allows, and no data at all.  `sent` and `soldFor` count up to 2, which is where
the properties fail.  `Confidences` has one value on each side of the threshold,
`Budget` is used up by the third answer, `MaxRetries` is 1 as one retry shows
what a retry does.  `LastVersion` bounds what a source publishes: 2 gives an old
and a new version; the stock master has 3, so that a stock can be delisted and
listed again.

*Fairness.*  `Fairness` is weak fairness of each coroutine, each answering task
and each `initialize()`: the event loop runs whatever is ready.  Nothing is
assumed of users, of the exchange, of crashes, or of time; `EveryOrderEnds`
states in its antecedent that time passes, `ClickEndsWait` holds without it.
The scheduler assumes that the process is started, that coroutines go on, and
that the trigger of each sweep keeps firing while it can, which is what
APScheduler's interval trigger does; the pipeline that coroutines go on, that
Redis expires its entries, and that an endpoint that has committed goes on to
the cache.  Prices, people, failures and configuration changes are not fair.
`BacktestEngine` is fair to its own steps, but no property of it needs that.

*Deadlock* is checked in the order and entry runs and in `scheduler`: there is
always a step sooner or later, and TLC finds no state without one.  It is not
checked where the system really may stop: a finished backtest, a finished set of
executions, of calls or of collections.

## 4. Properties

- `TradeNeedsConsent`, `RefusedNeverTrades`: consent is tied to the order, over
  every race of clicks, timeouts and API answers.
- `BooksMatchExchange`: rows of separate transactions agree with the exchange.
- `ModifiedQuantityIsVetted`: no check-then-use gap for the changed quantity.
- `ArmedRequestHasWaiter`: registered requests are waited on; the exception
  (timeout handling that raised halfway, a waiter cancelled at shutdown) is part
  of the statement because the code leaves the entry behind.
- `StopLossNeverWaits`: the exemptions of two classes and three settings agree.
- `EndIsFinal`: an ended order is never changed again, by anyone.
- `EveryOrderEnds`, `ClickEndsWait`: liveness.
- `SignalsKeepLimits`: sizing with a stale total, truncation and blocking rules
  together never let a signal past a limit of the state its check read.
- `PassingCutsOneShareAtMost`: the adjustment the strategies apply concerns orders
  that passed only, and takes off no more than what rounding lost.
- `SizerAgreesWithCheck`: two classes that compute the same limits differently
  agree, except on the one-share minimum, which rule 1 then refuses.
- `LedgerBalances`: cash, cost of holdings, profits and buy commissions account
  for the whole capital, although four pieces of code change them separately.
- `BooksAgree`: engine and broker hold the same, so no exit is refused, which
  would fail the run: a run with trades fails for a trailing percentage that is
  not positive, and for nothing else.
- `HeldWithinRules`, `TrailingLocksGain`, `NoSameDayRoundTrip`: what the order of
  the checks and of the day's phases must not break.
- `DrawdownsAgree`: two computations of the peak from different starting points.
- `BacktestTypeOK` includes that cash stays nonnegative, which the risk check
  alone does not give: it ignores slippage and commission.
- `SoldOnce`: a position is sold once and closed exactly when sold, over sweeps,
  failures and restarts, the code's known gaps excepted (`excused`).  `ImplementsLife`:
  the same of steps, by refinement of `PositionLifecycle`.
- `AlertOncePerDay`, `PeakCoversHistory`: check-then-act on Redis, and an upsert
  that may run several times a day.
- `RowSettles`, `StopIsSold`: liveness of job rows and of stops.
- `AuditTrailComplete`: decisions, their parents and the result of an execution
  agree, whichever stages of whichever symbols failed.
- `EscalationOvershoot`: how far concurrent calls can overrun the budget.
- `StaleNeedsRace`, `StaleConfigEnds`: commit and deletion are in an order that
  leaves a stale configuration to late fills and failed deletions alone, and it
  ends; `ExecutionEnds`: termination.
- `AnswerMatchesExchange`: an order is placed at most once, and an error other
  than a lost answer means it was not.
- `TokenRejectedTwice`: overlapping refreshes never retry with the rejected token.
- `ListedIsActive`: the stock master after a complete copy, over delisting,
  listing again and two copies at once.
- `EntryNeedsRace`: where a sync updates its row, a cache entry is that row, but
  for late fills and failed deletions.  Annual reports are left out: their rows
  accumulate, and a fetch may cache an old one with no race at all.  So are news,
  whose entries no sync deletes.

The violation runs and `PROJECT.json` "findings" say where documentation and
code disagree.

## 5. Proofs

Every safety property of every passing run is a theorem, for all values of the
constants that satisfy the assumptions of the modules; the list is in
`PROJECT.json`.  No safety property is inductive by itself, so each module has an
invariant that is: it holds at first, every step keeps it (one lemma per action
or group of actions), and the properties follow from it.  TLC checked each of
these invariants on the runs' instances before it was proved.

*Orders.*  `OrderExecutorProofs` proves `Spec => []IInv`, from it every safety
property of `order_approval` and `order_exits`, the action property
`EndIsFinal`, and that `Spec` implements `OrderLifecycle`.  Whether an order may
be sent depends on how the coroutine came to where it stands, so `IInv` has
these parts:

- `TypeInv`: the variables that other parts take apart have their types;
- `RightBranch`: entries are never at an exit's step and the reverse;
- `StageInv`: what the web result, the decision and the order status are at each
  `pc`;
- `AnswerInv`: an answer carried by a task, or stored as a pending result, is
  one the user clicked for that very order;
- `DecisionInv`: where a decision comes from;
- `MarketInv`: what the exchange can have at each `pc`;
- `BookInv`: rows against the exchange;
- `QuantityInv`: the quantity at hand is the strategy's or was passed;
- `ArmedInv`: which requests are registered; `StopLossInv`: the two exemptions.

`Control` (who stands where and why) is proved inductive on its own, `Trade`
(exchange and books) relative to it: `ControlStep` and `TradeStep` have one
lemma step per action.  `StepImplements` maps each action to a step of
`OrderLifecycle` or to a stutter.

*Strategy runs.*  `EntryGateProofs` rests on `RoomIsLargest`: a truncated quotient is the largest
number of units that still fit.  From it `CapsAreExact` (rules 1 and 2 hold up to
their caps and no further).  Rule 4 is not exact; from `RoundedBounds`, half a
unit in each rounding, `SectorRule` shows what is left: rounding never hides an
excess, neither in the verdict nor in the cap, and what passes is at most one
share above the cap.  Together they give `AdjustedWithinOneShare` (up to the
adjusted quantity every limit holds exactly, and what passes is at most one share
more).  `SizedPassesAmounts` says that what the sizer proposes passes the rules it
anticipates.  All hold for all settings, prices and portfolio states.
`GateInv` adds to the types that the decision in hand was sized with the run's own
total, that a signal keeps the limits of the state it carries and had passed there
as it was sized, and that the total is read before the run has issued anything
(otherwise "the sized quantity" would change under a signal).

*Scheduler.*  `SchedulerInv` says what a job has in hand at each `pc` (`InstOK`),
and of each position that nothing is known to have gone wrong with (`SaleInv`)
that one sweep at most has it in hand, alone with its symbol, and that it is
unsold as long as that sweep wants to sell it.  That a signal is matched by
symbol, with the list read before, is why the rest of the list has to be part of
it.  `AlertInv` is the same for an alert between the look at its mark and the
mark; `SnapshotsInv` says that a report about to be saved has read a peak that
covers every snapshot of its account.  What comes of crashes and of overlapping
jobs is in the history variables.  `PositionsLive` is the refinement of
`PositionLifecycle`: `LifeStep` maps each step of the scheduler to a step of one
row, or to rows that come into doubt, possibly none.  It needs one more invariant,
`ClosingInv`, that a row whose sale is still to be recorded is open: it excludes
that two jobs close it.

*Pipeline.*  `PipelineInv` joins `RouterInv` (a row on its way into the cache is the
present one, or its agent is marked as overtaken), `RunningInv` (a task is inside
of `route_structured` exactly while it is analysed) and `TrailInv` (the rows of
the log, by stage).  `EscalationOvershoot` needs counting: `SlotInv` says that an
execution runs at most `concurrency` coroutines, so `n` executions at most
`n * concurrency`; `BudgetInv` that once the budget is used up, the late
escalations and the coroutines that have read the budget and not sent yet are
together fewer than that.  Nobody joins the second group any more, and who sends
leaves it for the first; the coroutine whose answer used the budget up is in
neither.

*Client and collection.*  In `KisClientProofs` the retry with a new token needs a
fact about all calls at once: a token that was issued and not yet stored in Redis
(`NewTokensInv`) is known to its issuer only, so that storing it replaces the
rejected one for everybody.  `DataCollectionProofs` adds for the cache that a
value a reader is about to write was a row when it read it, and for the stock
master that the files copied so far agree with what is listed, unless a newer
version is out.

*Backtest.*  `BacktestInv`: types, with cash that never goes below zero
(`TypeInv`); what is to be sold today is held, once, for a reason (`ExitInv`);
what is held and not to be sold is within its rules (`RulesInv`); a waiting
signal is for a symbol neither held nor waiting twice nor sold today
(`WaitingInv`); the days of entries and exits (`DaysInv`); the two books
(`BooksInv`); the peaks (`PeakInv`, which needs that nothing is traded before the
first snapshot).  `LedgerBalances` is inductive given these.

`SetProofs` has what the proofs about sums, minima and counts need.  Its
inductions are over the size of a set, carried out as the choice of a least
counterexample: the library's induction theorems have an operator as a parameter,
which the provers cannot instantiate.  Sums are those of the fold
`SumFunctionOnSet`; `SumRemove` takes out any one element.

*What is assumed.*  Of the constants, what the modules' ASSUMEs say: ranges of the
settings, numbers that are natural, disjointness of the kinds of orders, that
sets are finite where something is counted or summed, the four agents, that an
administrator's changes leave a configuration one, that a price table has
positive prices.  Nothing about the number of orders, users, tasks, accounts,
jobs at one time, symbols, executions, calls, items, days, mishaps, or about
which of them take part: a member of `Scenarios` may be any combination.
The trailing percentage of a request may be any integer: its default is 5.0 and
nothing checks it, so `TrailingStopsGain` has to show that one that is not positive
sells nothing (the run fails first), and `BooksAlwaysAgree` says when that is.

*Only model-checked:* liveness (`EveryOrderEnds`, `ClickEndsWait`, `RowSettles`,
`StopIsSold`, `StaleConfigEnds`, `ExecutionEnds`), which rests on fairness and
ENABLED and is out of reach of the prover.  Not proved and not checked: what the
violation runs refute.

## 6. Plan

The parts of the system that keep state and make decisions are modelled, and
their safety is proved.  What is left:

1. Abstract specifications of more components, with their refinements: an order
   at the broker (placed at most once, the answer final), a cached configuration
   (present or known to be behind).
2. Facts about the rules that hold for all amounts and are used informally here:
   what a trailing stop of a sweep may sell at, how far a batch of signals may
   exceed each limit.

## 7. Not modelled

- Agent memory: rows of text that nothing in the application reads or writes.
- Analysis: floating-point formulas over price series, without control.
- Prompts, templates, pages, statistics and reports: wording and read-only
  aggregation.  Handlers that insert or update one `accounts` row: the scheduler
  reads them once, at its start.
- Conversions of vendor formats and dates.
- Configuration: settings enter as CONSTANTS.
- Within modelled parts: re-registering a broker (`registry.register` is called
  with fresh ids only, at start), `_handle_next_session_signal` (no job produces
  such a signal), collectors other than the one for bars have no caller in the
  application and are modelled as their providers define them; a commit that is
  carried out and whose acknowledgement is lost, where nothing but the commit
  follows in its transaction (`DecisionRecorder.record`); a cached configuration
  that fails its validation (entries are written from valid ones only); request
  parameters of a backtest that are not numbers, or negative numbers of days.
