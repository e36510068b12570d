----------------------------- MODULE EntryGate -----------------------------
(***************************************************************************)
(* POST /api/strategy/run (api/routes/strategy.py): runs of a strategy's   *)
(* generate_signals (strategy/swing_trading.py, position_trading.py) that  *)
(* size and check BUY decisions against a portfolio that moves meanwhile,  *)
(* and then write a position row per signal.                               *)
(*                                                                         *)
(* The account at the broker is external: `portfolio` is any of            *)
(* Portfolios and may change at any time.  get_current_state reads it in   *)
(* pieces (balance, positions, peak), with awaits between, and counts      *)
(* today's position rows last.  The model covers one day.                  *)
(***************************************************************************)
EXTENDS RiskRules

CONSTANTS
    Runs,                 \* requests being served
    Accounts,
    DefaultAccount,       \* account_id="default"
    AccountOf,            \* the account a request names
    Portfolios,           \* what the broker may report
    EntryPrices,          \* decision.price or analysis.current_price
    StopDistances,        \* percentage or ATR multiple, as an amount
    MaxOtherRows,         \* bound on rows that order executors write
    None                  \* no value yet

PortfolioType ==
    [total : Nat, pnl : Int, pnlPct : Int, held : SUBSET Symbols,
     value : [Symbols -> Nat], sector : [Sectors -> Nat], recordedPeak : Nat]

\* What the broker and the settings of a request look like.
ASSUME GateAssumption ==
    /\ DefaultAccount \in Accounts
    /\ AccountOf \in [Runs -> Accounts]
    /\ Portfolios \subseteq PortfolioType /\ Portfolios # {}
    /\ EntryPrices \subseteq Prices
    /\ StopDistances \subseteq Nat \ {0}
    /\ MaxOtherRows \in Nat

\* 28 digits tell any two amounts of an account apart.
ASSUME PrecisionAssumption ==
    \A p \in Portfolios, price \in EntryPrices : 100 * (p.total + price) < UNITS

VARIABLES
    portfolio,     \* the account at the broker
    otherRows,     \* rows of `positions` entered today by order executors
    rows,          \* rows of `positions` entered today by these runs
    pc,            \* where a run stands
    todo,          \* symbols whose decision generate_signals has yet to take up
    sizingTotal,   \* total_value of the state read before the loop
    candidate,     \* the decision in hand, sized
    seen,          \* the state check() has read so far
    signals        \* signals not yet written as rows

vars == <<portfolio, otherRows, rows, pc, todo, sizingTotal, candidate, seen, signals>>

CandidateType == [symbol : Symbols, quantity : Nat, price : Prices, stop : Prices]
StateType ==
    [total : Nat, pnl : Int, pnlPct : Int, held : SUBSET Symbols,
     value : [Symbols -> Nat], sector : [Sectors -> Nat], peak : Nat, trades : Nat]
SignalType == [order : CandidateType, state : StateType]

\* One type invariant: of the model's state, per run.
TypeOK ==
    /\ portfolio \in Portfolios
    /\ otherRows \in [Accounts -> Nat]
    /\ rows \subseteq [run : Runs, signal : SignalType] /\ IsFiniteSet(rows)
    /\ pc \in [Runs -> {"start", "next", "check", "positions", "trades",
                        "create", "done", "failed"}]
    /\ todo \in [Runs -> SUBSET Symbols]
    /\ sizingTotal \in [Runs -> Nat]
    /\ candidate \in [Runs -> CandidateType \union {None}]
    /\ seen \in [Runs -> StateType \union {None}]
    /\ signals \in [Runs -> SUBSET SignalType]

Init ==
    /\ portfolio \in Portfolios
    /\ otherRows = [a \in Accounts |-> 0]
    /\ rows = {}
    /\ pc = [r \in Runs |-> "start"]
    /\ todo \in [Runs -> SUBSET Symbols]
    /\ sizingTotal = [r \in Runs |-> 0]
    /\ candidate = [r \in Runs |-> None]
    /\ seen = [r \in Runs |-> None]
    /\ signals = [r \in Runs |-> {}]

\* get_daily_trade_count(date.today()): rows of the account with that entry_date.
TradesToday(a) ==
    otherRows[a] + IF a = DefaultAccount THEN Cardinality(rows) ELSE 0

Goto(r, label) == pc' = [pc EXCEPT ![r] = label]

---------------------------------------------------------------------------
(* generate_signals                                                        *)

\* portfolio_state = await get_current_state(): only total_value is used.
ReadSizingTotal(r) ==
    /\ pc[r] = "start"
    /\ sizingTotal' = [sizingTotal EXCEPT ![r] = portfolio.total]
    /\ Goto(r, "next")
    /\ UNCHANGED <<portfolio, otherRows, rows, todo, candidate, seen, signals>>

\* A decision that is no BUY, or that a confidence, fundamental or technical
\* condition drops.
DropDecision(r, sym) ==
    /\ pc[r] = "next" /\ sym \in todo[r]
    /\ todo' = [todo EXCEPT ![r] = @ \ {sym}]
    /\ UNCHANGED <<portfolio, otherRows, rows, pc, sizingTotal, candidate, seen, signals>>

\* The decision is sized with the total read before the loop; calculate raises
\* on input it does not accept, and quantity 0 drops the decision.
SizeDecision(r, sym, price, distance) ==
    LET stop == StopPrice(price, distance)
        quantity == SizedQuantity(sizingTotal[r], price, stop)
    IN
    /\ pc[r] = "next" /\ sym \in todo[r]
    /\ todo' = [todo EXCEPT ![r] = @ \ {sym}]
    /\ IF ~ Sizable(sizingTotal[r], price, stop)
         THEN Goto(r, "failed") /\ UNCHANGED candidate
         ELSE IF quantity <= 0
           THEN UNCHANGED <<pc, candidate>>
           ELSE /\ candidate' = [candidate EXCEPT ![r] =
                     [symbol |-> sym, quantity |-> quantity, price |-> price, stop |-> stop]]
                /\ Goto(r, "check")
    /\ UNCHANGED <<portfolio, otherRows, rows, sizingTotal, seen, signals>>

\* check(): get_balance ...
ReadBalance(r) ==
    /\ pc[r] = "check"
    /\ seen' = [seen EXCEPT ![r] =
         [total |-> portfolio.total, pnl |-> portfolio.pnl, pnlPct |-> portfolio.pnlPct,
          held |-> {}, value |-> [s \in Symbols |-> 0],
          sector |-> [s \in Sectors |-> 0], peak |-> 0, trades |-> 0]]
    /\ Goto(r, "positions")
    /\ UNCHANGED <<portfolio, otherRows, rows, todo, sizingTotal, candidate, signals>>

\* ... get_positions, their sectors and get_peak_value ...
ReadPositions(r) ==
    /\ pc[r] = "positions"
    /\ seen' = [seen EXCEPT ![r] =
         [@ EXCEPT !.held = portfolio.held, !.value = portfolio.value,
                   !.sector = portfolio.sector,
                   !.peak = Most(portfolio.recordedPeak, seen[r].total)]]
    /\ Goto(r, "trades")
    /\ UNCHANGED <<portfolio, otherRows, rows, todo, sizingTotal, candidate, signals>>

\* Faulty: an order that fails the check goes through with the adjusted quantity.
JudgeAdjusted(r) ==
    LET s == [seen[r] EXCEPT !.trades = TradesToday(AccountOf[r])]
        adjusted == AdjustedQuantity(s, candidate[r])
    IN
    /\ pc[r] = "trades"
    /\ signals' = [signals EXCEPT ![r] =
         IF adjusted > 0
           THEN @ \union {[order |-> [candidate[r] EXCEPT !.quantity = adjusted], state |-> s]}
           ELSE @]
    /\ candidate' = [candidate EXCEPT ![r] = None]
    /\ seen' = [seen EXCEPT ![r] = None]
    /\ Goto(r, "next")
    /\ UNCHANGED <<portfolio, otherRows, rows, todo, sizingTotal>>

\* ... get_daily_trade_count, and the verdict.
Judge(r) ==
    LET s == [seen[r] EXCEPT !.trades = TradesToday(AccountOf[r])]
        adjusted == AdjustedQuantity(s, candidate[r])
    IN
    /\ pc[r] = "trades"
    /\ signals' = [signals EXCEPT ![r] =
         IF Passed(s, candidate[r]) /\ adjusted > 0
           THEN @ \union {[order |-> [candidate[r] EXCEPT !.quantity = adjusted], state |-> s]}
           ELSE @]
    /\ candidate' = [candidate EXCEPT ![r] = None]
    /\ seen' = [seen EXCEPT ![r] = None]
    /\ Goto(r, "next")
    /\ UNCHANGED <<portfolio, otherRows, rows, todo, sizingTotal>>

---------------------------------------------------------------------------
(* run_strategy                                                            *)

\* generate_signals returns when every decision has been taken up.
SignalsReady(r) ==
    /\ pc[r] = "next" /\ todo[r] = {}
    /\ Goto(r, "create")
    /\ UNCHANGED <<portfolio, otherRows, rows, todo, sizingTotal, candidate, seen, signals>>

\* position_manager.create: a row of the default account (no account_id is
\* passed), and no order; the refresh after the commit may raise.
CreateRow(r, sig) ==
    /\ pc[r] = "create" /\ sig \in signals[r]
    /\ rows' = rows \union {[run |-> r, signal |-> sig]}
    /\ signals' = [signals EXCEPT ![r] = @ \ {sig}]
    /\ \/ UNCHANGED pc
       \/ Goto(r, "failed")
    /\ UNCHANGED <<portfolio, otherRows, todo, sizingTotal, candidate, seen>>

Respond(r) ==
    /\ pc[r] = "create" /\ signals[r] = {}
    /\ Goto(r, "done")
    /\ UNCHANGED <<portfolio, otherRows, rows, todo, sizingTotal, candidate, seen, signals>>

\* Any of the awaits may raise: a 500, with the rows written so far kept.
Raise(r) ==
    /\ pc[r] \notin {"done", "failed"}
    /\ Goto(r, "failed")
    /\ UNCHANGED <<portfolio, otherRows, rows, todo, sizingTotal, candidate, seen, signals>>

---------------------------------------------------------------------------
(* Everybody else                                                          *)

\* Fills, deposits and prices change what the broker reports.
PortfolioMoves ==
    /\ portfolio' \in Portfolios
    /\ UNCHANGED <<otherRows, rows, pc, todo, sizingTotal, candidate, seen, signals>>

\* An order executor enters a position of an account.
ExecutorEnters(a) ==
    /\ otherRows[a] < MaxOtherRows
    /\ otherRows' = [otherRows EXCEPT ![a] = @ + 1]
    /\ UNCHANGED <<portfolio, rows, pc, todo, sizingTotal, candidate, seen, signals>>

RunStep(r) ==
    \/ ReadSizingTotal(r)
    \/ \E sym \in Symbols : DropDecision(r, sym)
    \/ \E sym \in Symbols, price \in EntryPrices, distance \in StopDistances :
          SizeDecision(r, sym, price, distance)
    \/ ReadBalance(r)
    \/ ReadPositions(r)
    \/ Judge(r)
    \/ SignalsReady(r)
    \/ \E sig \in signals[r] : CreateRow(r, sig)
    \/ Respond(r)
    \/ Raise(r)

Next ==
    \/ \E r \in Runs : RunStep(r)
    \/ PortfolioMoves
    \/ \E a \in Accounts : ExecutorEnters(a)

Spec == Init /\ [][Next]_vars

---------------------------------------------------------------------------
(* Properties                                                              *)

IssuedSignals(r) == signals[r] \union {row.signal : row \in {x \in rows : x.run = r}}

\* An order that keeps the three amount limits in state s.
KeepsAmounts(s, c) ==
    /\ 100 * (c.quantity * RiskPerShare(c.price, c.stop)) <= RISK_PER_TRADE_PCT * s.total
    /\ 100 * (s.value[c.symbol] + c.quantity * c.price) <= MAX_POSITION_PCT * s.total
    /\ s.value[c.symbol] + c.quantity * c.price <= MAX_POSITION_SIZE_KRW
    /\ 100 * (s.sector[SectorOf[c.symbol]] + c.quantity * c.price)
         <= SECTOR_CONCENTRATION_PCT * s.total

\* No signal, whatever the sizer proposed from a total read long before, breaks
\* a limit in the state its check read; and it is for at least one share.
SignalsKeepLimits ==
    \A r \in Runs : \A sig \in IssuedSignals(r) :
        /\ sig.order.quantity > 0
        /\ KeepsAmounts(sig.state, sig.order)
        /\ sig.state.trades < MAX_DAILY_TRADES
        /\ \/ sig.order.symbol \in sig.state.held
           \/ Cardinality(sig.state.held) < MAX_PORTFOLIO_POSITIONS

\* generate_signals takes the adjusted quantity, but of orders that passed only: what
\* the sizer proposed had passed, and the signal is for that quantity or one share
\* less, where the rounded share of rule 4 meets its limit and the cap computed from
\* it is truncated.
PassingCutsOneShareAtMost ==
    \A r \in Runs : \A sig \in IssuedSignals(r) :
        LET sized == SizedQuantity(sizingTotal[r], sig.order.price, sig.order.stop)
        IN  /\ Passed(sig.state, [sig.order EXCEPT !.quantity = sized])
            /\ sig.order.quantity \in {sized - 1, sized}

\* PositionSizer and AlgoRiskManager agree: for a symbol the state shows no value
\* of, and a total that has not shrunk since the sizing, the check refuses the
\* sized quantity on rule 2 never and on rule 1 only for the one-share minimum.
SizerAgreesWithCheck ==
    \A r \in Runs :
        /\ pc[r] = "trades"
        /\ seen[r].total >= sizingTotal[r]
        /\ seen[r].value[candidate[r].symbol] = 0
        => /\ ~ PositionViolated(seen[r], candidate[r])
           /\ candidate[r].quantity > 1 => ~ RiskViolated(seen[r], candidate[r])

\* config.py's MAX_DAILY_TRADES, "일일 최대 거래 횟수" (the greatest number of
\* trades a day): no account gets more rows a day.
DailyTradesCapped == \A a \in Accounts : TradesToday(a) <= MAX_DAILY_TRADES
=============================================================================
