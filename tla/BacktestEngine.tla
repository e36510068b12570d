--------------------------- MODULE BacktestEngine ---------------------------
(***************************************************************************)
(* backtest/engine.py on a SimulatedBroker, as its two callers use it: one *)
(* run behind POST /api/backtest/run (api/routes/backtest.py), with its    *)
(* row, and the in-sample and out-of-sample runs of a walk-forward         *)
(* analysis (backtest/walk_forward.py) on one and the same broker.         *)
(*                                                                         *)
(* Days are 1..LastDay; a month of the walk-forward analysis is a number   *)
(* of days.  `bars` is what HistoricalDataLoader holds.  Whether the       *)
(* indicators of a symbol ask for an entry, and its ATR, is a free choice. *)
(***************************************************************************)
EXTENDS SimulatedBroker, Sequences

CONSTANTS
    LastDay,
    Histories,                 \* possible contents of the price table
    Configs,                   \* requests, with trailing_stop_pct of their parameters
    SymbolOrder,               \* config.symbols; a symbol may occur twice
    MaxDays,                   \* max_holding_days per strategy
    StopPct, TpPct,            \* fixed percentages of the swing strategy
    Atrs, AtrStopMult, AtrTpMult,
    MinBars,                   \* bars the position, swing and ATR formulas need
    MinConfidence, Confidences,
    WindowDays, OosDays        \* window_months, oos_months

ASSUME BacktestAssumption ==
    /\ LastDay \in Nat \ {0} /\ WindowDays \in Nat \ {0} /\ OosDays \in Nat \ {0}
    /\ SymbolOrder \in Seq(Symbols)
    /\ Configs \subseteq [strategy : {"position", "swing"}, mode : {"technical", "llm_replay"},
                         driver : {"api", "walk_forward"}, trailing : Int]

\* A row of the price table; prices are positive.
PriceBars == [open : Prices, close : Prices]

\* What the engine records of a position.
PositionType ==
    [quantity : Nat \ {0}, entry : Prices, entryDay : 1 .. LastDay, stop : Nat,
     target : Nat, trailing : Int \union {None}, maxDays : Nat, highest : Nat]

\* Parameters of a request are percentages, factors and numbers of days.
ASSUME ParametersAssumption ==
    /\ Histories \subseteq [1 .. LastDay -> [Symbols -> PriceBars \union {None}]]
    /\ MaxDays \in [{"position", "swing"} -> Nat]
    /\ StopPct \in 0 .. 100 /\ TpPct \in Nat
    /\ Atrs \subseteq Nat /\ AtrStopMult \in Nat /\ AtrTpMult \in Nat
    /\ None \notin Int /\ None \notin PositionType /\ None \notin ExitReasons
    /\ None \notin PriceBars

VARIABLES
    bars, config,
    plan,          \* spans of days still to be run
    runs,          \* runs finished on this broker
    pc, day,
    positions,     \* the engine's own record of what it holds
    toExit,        \* _check_exits: what is to be sold, and why
    pending,       \* _pending_signals
    scan,          \* next of config.symbols to look at for a signal
    dailyTrades, dailyPnl,
    peak,
    snapshots,
    closed,        \* _closed_positions
    tradeCount,    \* len(_trades)
    buyFees,       \* commissions of the recorded BUY trades
    capital,       \* cash when the run began (history, for properties)
    row            \* the backtest_runs row: its status

daily == <<dailyTrades, dailyPnl>>
records == <<peak, snapshots, closed, tradeCount, buyFees>>
fixed == <<bars, config, capital>>
vars == <<account, bars, config, plan, runs, pc, day, positions, toExit, pending, scan,
          daily, records, capital, row>>

\* backtest_runs.status; "none" as long as there is no row.
RowStatuses == {"none", "pending", "running", "completed", "failed"}

Held == {s \in Symbols : positions[s] # None}

\* get_trading_dates within the span: days on which some symbol has a bar.
TradingDates(span) ==
    {d \in span.first .. span.last : \E s \in Symbols : bars[d][s] # None}
DatesLeft == {d \in TradingDates(Head(plan)) : d > day}

\* get_ohlcv_range from the first date of the loader to today.
BarsSoFar(s) == Cardinality({d \in 1 .. day : bars[d][s] # None})

\* generate_windows: window k starts where the out-of-sample part of window
\* k - 1 did; a window whose out-of-sample part is not complete is left out.
GenerateWindows ==
    LET complete == {k \in 1 .. LastDay : k * WindowDays + OosDays <= LastDay}
    IN  [k \in 1 .. Cardinality(complete) |->
          [is |-> [first |-> 1 + (k - 1) * WindowDays, last |-> k * WindowDays],
           oos |-> [first |-> 1 + k * WindowDays, last |-> k * WindowDays + OosDays]]]

\* The runs a caller makes: the whole period, or both parts of each window.
Spans(driver) ==
    IF driver = "api"
        THEN << [first |-> 1, last |-> LastDay] >>
        ELSE [i \in 1 .. 2 * Len(GenerateWindows) |->
               IF i % 2 = 1 THEN GenerateWindows[(i + 1) \div 2].is
                            ELSE GenerateWindows[i \div 2].oos]

EngineReset ==
    /\ positions' = [s \in Symbols |-> None]
    /\ toExit' = {} /\ pending' = <<>> /\ scan' = 1
    /\ dailyTrades' = 0 /\ dailyPnl' = 0
    /\ snapshots' = <<>> /\ closed' = <<>> /\ tradeCount' = 0 /\ buyFees' = 0

\* HistoricalDataLoader.load, before the run: the bars of the period.
Load == bars \in Histories

Init ==
    /\ AccountInit
    /\ Load /\ config \in Configs
    /\ plan = Spans(config.driver) /\ runs = 0
    /\ pc = IF config.driver = "api" THEN "new" ELSE "idle"
    /\ day = 0
    /\ positions = [s \in Symbols |-> None]
    /\ toExit = {} /\ pending = <<>> /\ scan = 1
    /\ dailyTrades = 0 /\ dailyPnl = 0
    /\ peak = 0 /\ snapshots = <<>> /\ closed = <<>> /\ tradeCount = 0 /\ buyFees = 0
    /\ capital = InitialCapital
    /\ row = "none"

---------------------------------------------------------------------------
(* The API around a run                                                    *)

\* run_backtest: the row is committed, the task is queued.
QueueRun ==
    /\ pc = "new"
    /\ row' = "pending" /\ pc' = "queued"
    /\ UNCHANGED <<account, fixed, plan, runs, day, positions, toExit, pending, scan,
                    daily, records>>

\* _execute_backtest up to engine.run: the row says running, prices are loaded.
StartTask ==
    /\ pc = "queued"
    /\ row' \in {"pending", "running"}
    /\ \/ row' = "running" /\ pc' = "idle"
       \/ pc' = "raised"
    /\ UNCHANGED <<account, fixed, plan, runs, day, positions, toExit, pending, scan,
                    daily, records>>

\* The result and all trades are written in one transaction.
SaveResult ==
    /\ pc \in {"completed", "failed"} /\ config.driver = "api"
    /\ \/ row' = pc /\ pc' = "done"
       \/ row' = row /\ pc' = "raised"
    /\ UNCHANGED <<account, fixed, plan, runs, day, positions, toExit, pending, scan,
                    daily, records>>

\* except Exception: the row is marked, unless that raises too.
MarkFailed ==
    /\ pc = "raised"
    /\ \/ row' = "failed" /\ pc' = "done"
       \/ row' = row /\ pc' = "abandoned"
    /\ UNCHANGED <<account, fixed, plan, runs, day, positions, toExit, pending, scan,
                    daily, records>>

\* The process dies with the task.
Crash ==
    /\ config.driver = "api" /\ pc \notin {"new", "done", "abandoned", "lost"}
    /\ pc' = "lost"
    /\ UNCHANGED <<account, fixed, plan, runs, day, positions, toExit, pending, scan, daily,
                   records, row>>

---------------------------------------------------------------------------
(* engine.run                                                              *)

\* _reset_state leaves the broker alone.  In llm_replay mode the decision log
\* is read, which may raise; a span without trading dates has no result to compute.
StartRun ==
    /\ pc = "idle" /\ plan # <<>>
    /\ EngineReset
    /\ peak' = InitialCapital /\ capital' = cash
    /\ day' = Head(plan).first - 1
    /\ \/ pc' = IF TradingDates(Head(plan)) = {} THEN "completed" ELSE "day"
       \/ config.mode = "llm_replay" /\ pc' = "failed"
    /\ UNCHANGED <<account, bars, config, plan, runs, row>>

\* Whether a check of _check_exits fires for a held symbol on day d.
ExitOf(s, d) ==
    LET p == positions[s]
        highest == Most(p.highest, bars[d][s].close)
    IN  BacktestExit(p, bars[d][s].close, highest, d)

\* The date is set, positions are valued at the close, the exits are chosen.
\* Choosing may raise, which fails the run before the first of the day's exits;
\* the peaks noted until then are never looked at again.
BeginDay ==
    LET d == Min(DatesLeft)
        checked == {s \in Held : bars[d][s] # None}
        raises == \E s \in checked : TrailingStopRaises(positions[s], bars[d][s].close)
    IN
    /\ pc = "day" /\ DatesLeft # {}
    /\ day' = d
    /\ Revalue(bars[d])
    /\ dailyTrades' = 0 /\ dailyPnl' = 0
    /\ positions' = [s \in Symbols |->
         IF s \in checked
           THEN [positions[s] EXCEPT !.highest = Most(@, bars[d][s].close)]
           ELSE positions[s]]
    /\ toExit' = IF raises THEN {}
                 ELSE {[symbol |-> s, reason |-> ExitOf(s, d)] :
                         s \in {t \in checked : ExitOf(t, d) # None}}
    /\ pc' = IF raises THEN "failed" ELSE "exits"
    /\ UNCHANGED <<cash, shares, fixed, plan, runs, pending, scan, records, row>>

\* _execute_exit: a LIMIT SELL at today's close.  Without a close nothing is
\* sold; a refused order raises and fails the whole run.
ExecuteExit(x) ==
    LET p == positions[x.symbol]
        bar == bars[day][x.symbol]
        pnl == (bar.close - p.entry) * p.quantity - SellCommission(bar.close * p.quantity)
    IN
    /\ pc \in {"exits", "close"} /\ x \in toExit
    /\ toExit' = toExit \ {x}
    /\ pc' = IF bar # None /\ ~ CanSell(x.symbol, p.quantity) THEN "failed" ELSE pc
    /\ IF bar # None /\ CanSell(x.symbol, p.quantity)
         THEN /\ ExecuteSell(x.symbol, bar.close, p.quantity)
              /\ positions' = [positions EXCEPT ![x.symbol] = None]
              /\ closed' = Append(closed,
                   [symbol |-> x.symbol, entry |-> p.entry, entryDay |-> p.entryDay,
                    exit |-> bar.close, exitDay |-> day, reason |-> x.reason, pnl |-> pnl])
              /\ dailyPnl' = dailyPnl + pnl
              /\ dailyTrades' = dailyTrades + 1
              /\ tradeCount' = tradeCount + 1
              /\ UNCHANGED <<peak, snapshots, buyFees>>
         ELSE UNCHANGED <<account, positions, daily, records>>
    /\ UNCHANGED <<fixed, plan, runs, day, pending, scan, row>>

\* Exits are done: on to yesterday's signals, or to the result.
ExitsDone ==
    /\ pc \in {"exits", "close"} /\ toExit = {}
    /\ pc' = IF pc = "exits" THEN "entries" ELSE "completed"
    /\ UNCHANGED <<account, fixed, plan, runs, day, positions, toExit, pending, scan, daily,
                   records, row>>

\* Faulty: the record takes the quantity of the signal, not the adjusted one.
NewPositionUnadjusted(signal, quantity, price) ==
    [quantity |-> signal.quantity, entry |-> price, entryDay |-> day,
     stop |-> signal.stop, target |-> signal.target,
     trailing |-> IF config.strategy = "position" THEN config.trailing ELSE None,
     maxDays |-> MaxDays[config.strategy], highest |-> price]

\* _risk_check: 0 when the signal is dropped, else the quantity to buy.
RiskCheck(s, quantity, price) ==
    IF \/ Cardinality(Held) >= MAX_PORTFOLIO_POSITIONS
       \/ dailyTrades >= MAX_DAILY_TRADES
       \/ s \in Held
      THEN 0
      ELSE Least(quantity,
                 Least(Room(TotalValue * MAX_POSITION_PCT, 0, 100 * price),
                       Least(Room(MAX_POSITION_SIZE_KRW, 0, price), Room(cash, 0, price))))

\* The PositionRecord of an entry.
NewPosition(signal, quantity, price) ==
    [quantity |-> quantity, entry |-> price, entryDay |-> day,
     stop |-> signal.stop, target |-> signal.target,
     trailing |-> IF config.strategy = "position" THEN config.trailing ELSE None,
     maxDays |-> MaxDays[config.strategy], highest |-> price]

\* _execute_pending_signals, one signal: a MARKET BUY at today's open.
ExecutePending ==
    LET signal == Head(pending)
        s == signal.symbol
        bar == bars[day][s]
        quantity == RiskCheck(s, signal.quantity, bar.open)
        price == SlippedPrice(bar.open)
    IN
    /\ pc = "entries" /\ pending # <<>>
    /\ pending' = Tail(pending)
    /\ IF bar # None /\ s \notin Held /\ quantity > 0 /\ CanBuy(price, quantity)
         THEN /\ ExecuteBuy(s, price, quantity)
              /\ positions' = [positions EXCEPT ![s] = NewPosition(signal, quantity, price)]
              /\ dailyTrades' = dailyTrades + 1
              /\ tradeCount' = tradeCount + 1
              /\ buyFees' = buyFees + BuyCommission(price * quantity)
         ELSE UNCHANGED <<account, positions, dailyTrades, tradeCount, buyFees>>
    /\ UNCHANGED <<fixed, plan, runs, pc, day, toExit, scan, dailyPnl, peak, snapshots, closed, row>>

EntriesDone ==
    /\ pc = "entries" /\ pending = <<>>
    /\ pc' = "signals" /\ scan' = 1
    /\ UNCHANGED <<account, fixed, plan, runs, day, positions, toExit, pending, daily, records, row>>

\* ExitPriceCalculator.atr_based and fixed_percentage, on multiples of 100.
AtrExits(price, atr) ==
    [stop |-> StopPrice(price, atr * AtrStopMult), target |-> price + atr * AtrTpMult]
FixedExits(price) ==
    [stop |-> (price * (100 - StopPct)) \div 100, target |-> (price * (100 + TpPct)) \div 100]

\* The stop and target a signal would carry, for each outcome of the formulas.
PossibleExits(s) ==
    LET price == bars[day][s].close
    IN  IF config.strategy = "position"
          THEN {AtrExits(price, atr) : atr \in Atrs} ELSE {FixedExits(price)}

EnoughBars(s) ==
    BarsSoFar(s) >= IF config.mode = "technical" THEN MinBars[config.strategy]
                    ELSE IF config.strategy = "position" THEN MinBars["atr"] ELSE 0

\* LLMReplayProvider: the most confident decision of the day, if it is a BUY
\* and confident enough.
ReplayBuys(decisions) ==
    \E best \in decisions :
        /\ \A other \in decisions : other.confidence <= best.confidence
        /\ best.action = "buy" /\ best.confidence >= MinConfidence

\* A mode's reasons to ask for an entry: indicators (free), or logged decisions.
WantsEntry(s) ==
    IF config.mode = "technical" THEN BOOLEAN
    ELSE {ReplayBuys(decisions) : decisions \in
            SUBSET [action : {"buy", "sell", "hold"}, confidence : Confidences]}

\* Faulty: only waiting symbols are passed over.
MaySignalHeld(s) == \A i \in DOMAIN pending : pending[i].symbol # s

\* _try_*_signal: held and waiting symbols are passed over.
MaySignal(s) == s \notin Held /\ \A i \in DOMAIN pending : pending[i].symbol # s

\* _generate_signals, one symbol: the signal is sized with the day's total value.
GenerateSignal ==
    LET s == SymbolOrder[scan] IN
    /\ pc = "signals" /\ scan <= Len(SymbolOrder)
    /\ scan' = scan + 1
    /\ \E wants \in WantsEntry(s) :
         IF wants /\ MaySignal(s) /\ EnoughBars(s) /\ bars[day][s] # None
           THEN \E x \in PossibleExits(s) :
                  LET price == bars[day][s].close
                      quantity == SizedQuantity(TotalValue, price, x.stop)
                  IN pending' = IF Sizable(TotalValue, price, x.stop) /\ quantity > 0
                       THEN Append(pending, [symbol |-> s, quantity |-> quantity,
                                             stop |-> x.stop, target |-> x.target])
                       ELSE pending
           ELSE UNCHANGED pending
    /\ UNCHANGED <<account, fixed, plan, runs, pc, day, positions, toExit, daily, records, row>>

\* Faulty: today's value does not count for today's peak.
NewPeakLate == peak
NewPeak == Most(peak, TotalValue)

\* _record_snapshot; after the last date all positions are to be closed.
RecordSnapshot ==
    LET valued == {s \in Held : bars[day][s] # None}
        total == TotalValue
    IN
    /\ pc = "signals" /\ scan > Len(SymbolOrder)
    /\ peak' = NewPeak
    /\ snapshots' = Append(snapshots,
         [day |-> day, total |-> total, cash |-> cash, peak |-> NewPeak,
          unrealized |-> SumFunction([s \in valued |->
              (bars[day][s].close - positions[s].entry) * positions[s].quantity]),
          realized |-> dailyPnl, trades |-> dailyTrades, held |-> Held])
    /\ pc' = IF DatesLeft = {} THEN "close" ELSE "day"
    /\ toExit' = IF DatesLeft = {}
                   THEN {[symbol |-> s, reason |-> "backtest_end"] : s \in Held} ELSE {}
    /\ UNCHANGED <<account, fixed, plan, runs, day, positions, pending, scan, daily, closed,
                   tradeCount, buyFees, row>>

\* WalkForwardAnalyzer.run: the next part of the plan, on the same broker.
NextRun ==
    /\ pc \in {"completed", "failed"} /\ config.driver = "walk_forward"
    /\ plan' = Tail(plan) /\ runs' = runs + 1
    /\ pc' = IF Tail(plan) = <<>> THEN "done" ELSE "idle"
    /\ UNCHANGED <<account, fixed, day, positions, toExit, pending, scan, daily, records, row>>

Engine ==
    \/ StartRun \/ BeginDay \/ ExitsDone \/ ExecutePending \/ EntriesDone
    \/ GenerateSignal \/ RecordSnapshot \/ NextRun
    \/ \E x \in toExit : ExecuteExit(x)
Api == QueueRun \/ StartTask \/ SaveResult \/ MarkFailed
Next == Engine \/ Api \/ Crash

Spec == Init /\ [][Next]_vars /\ WF_vars(Engine \/ Api)

---------------------------------------------------------------------------
(* report/metrics.py                                                       *)

\* calculate_max_drawdown starts from the first snapshot ...
PeakUpTo(j) == Max({snapshots[i].total : i \in 1 .. j})

---------------------------------------------------------------------------
(* Properties                                                              *)

\* Types: cash never goes below zero although the risk check ignores slippage
\* and commission.
BacktestTypeOK ==
    /\ cash \in Nat /\ shares \in [Symbols -> Nat] /\ value \in [Symbols -> Nat]
    /\ \A s \in Held : positions[s] \in PositionType
    /\ pending \in Seq([symbol : Symbols, quantity : Nat \ {0}, stop : Nat, target : Nat])
    /\ row \in RowStatuses
    /\ pc \in {"new", "queued", "idle", "day", "exits", "entries", "signals", "close",
               "completed", "failed", "raised", "done", "abandoned", "lost"}

\* No won is lost: cash and the cost of what the engine holds are the cash the
\* run began with, plus the profits it reports, less the commissions of its buys
\* (which realized_pnl leaves out), over entries, refusals, exits and resets.
LedgerBalances ==
    cash + SumFunction([s \in Held |-> positions[s].entry * positions[s].quantity])
      = capital + SumFunction([i \in DOMAIN closed |-> closed[i].pnl]) - buyFees

\* The engine's positions are the broker's, kept in two places and changed by
\* different code; on a broker used before, the broker may hold more.  Otherwise
\* an exit would be refused, which fails the whole run: a run fails after a trade
\* only for a trailing percentage that is not positive.
BooksAgree ==
    /\ \A s \in Symbols :
         LET own == IF s \in Held THEN positions[s].quantity ELSE 0
         IN  IF runs = 0 THEN shares[s] = own ELSE shares[s] >= own
    /\ pc = "failed" => \/ tradeCount = 0
                        \/ config.strategy = "position" /\ config.trailing <= 0

\* Once the day's exits are done, what was held before and has a price today is
\* above its stop, below its target and within its time, whatever the order of
\* the checks.
HeldWithinRules ==
    pc = "signals" =>
      \A s \in Held :
        (positions[s].entryDay < day /\ bars[day][s] # None) =>
          /\ bars[day][s].close > positions[s].stop
          /\ bars[day][s].close < positions[s].target
          /\ day - positions[s].entryDay < positions[s].maxDays

\* A symbol is never bought and sold on one day, in either order, but for the
\* closing of everything at the end: exits come before entries, and a held
\* symbol is never signalled.
NoSameDayRoundTrip ==
    \A i \in DOMAIN closed :
      /\ closed[i].reason # "backtest_end" => closed[i].exitDay > closed[i].entryDay
      /\ closed[i].symbol \in Held =>
           positions[closed[i].symbol].entryDay > closed[i].exitDay

\* A trailing stop of a backtest only ever locks in a gain, whatever percentage
\* the request asked for: it waits for that gain, and a percentage that is not
\* positive fails the run.
TrailingLocksGain ==
    \A i \in DOMAIN closed :
      closed[i].reason = "trailing_stop" => closed[i].exit > closed[i].entry

\* The drawdown of the snapshots and the one the metrics compute from them start
\* from different peaks (the configured capital, the first snapshot) and agree,
\* as long as the broker is new.
DrawdownsAgree ==
    runs = 0 => \A j \in DOMAIN snapshots : snapshots[j].peak = PeakUpTo(j)
=============================================================================
