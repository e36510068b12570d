-------------------------- MODULE BacktestProofs --------------------------
(***************************************************************************)
(* Theorems about BacktestEngine, for every price table, list of symbols,  *)
(* period and setting: the books of the engine and of its broker, the      *)
(* ledger, the exits and the drawdowns.                                    *)
(***************************************************************************)
EXTENDS BacktestEngine, SetProofs, SequenceTheorems

Trading == {"day", "exits", "entries", "signals", "close"}
Fresh == {"new", "queued", "idle"}
AllPcs == Trading \union Fresh \union {"completed", "failed", "raised", "done", "abandoned", "lost"}

SpanType == [first : 1 .. LastDay, last : 1 .. LastDay]
SignalType == [symbol : Symbols, quantity : Nat \ {0}, stop : Nat, target : Nat]
Reasons == ExitReasons \union {"backtest_end"}
ExitType == [symbol : Symbols, reason : Reasons]
ClosedType ==
    [symbol : Symbols, entry : Nat, entryDay : 1 .. LastDay, exit : Nat, exitDay : 1 .. LastDay,
     reason : Reasons, pnl : Int]
SnapshotType ==
    [day : 1 .. LastDay, total : Nat, cash : Nat, peak : Nat, unrealized : Int, realized : Int,
     trades : Nat, held : SUBSET Symbols]

AccountOK == cash \in Nat /\ shares \in [Symbols -> Nat] /\ value \in [Symbols -> Nat]
InputsOK ==
    /\ bars \in Histories /\ config \in Configs /\ plan \in Seq(SpanType) /\ runs \in Nat
    /\ row \in RowStatuses
ControlOK ==
    /\ pc \in AllPcs /\ day \in 0 .. LastDay /\ scan \in Nat \ {0}
    /\ pc \in {"exits", "entries", "signals", "close"} => day >= 1
    /\ pc \in Trading \union {"completed", "failed"} => plan # <<>>
RecordsOK ==
    /\ positions \in [Symbols -> PositionType \union {None}]
    /\ pending \in Seq(SignalType) /\ toExit \subseteq ExitType
    /\ dailyTrades \in Nat /\ dailyPnl \in Int /\ peak \in Nat /\ capital \in Nat
    /\ snapshots \in Seq(SnapshotType) /\ closed \in Seq(ClosedType)
    /\ tradeCount \in Nat /\ buyFees \in Nat
TypeInv == AccountOK /\ InputsOK /\ ControlOK /\ RecordsOK

\* What is to be sold is held, once; on a day it has a price, and a trailing
\* stop has a gain.
ExitInv ==
    /\ pc \in {"exits", "close"} =>
         /\ \A x \in toExit : x.symbol \in Held
         /\ \A x, y \in toExit : x.symbol = y.symbol => x = y
    /\ pc = "exits" => \A x \in toExit :
         /\ x.reason # "backtest_end"
         /\ x.reason = "trailing_stop" =>
              bars[day][x.symbol].close > positions[x.symbol].entry
    /\ pc = "close" => \A x \in toExit : x.reason = "backtest_end"

\* A held symbol is within its rules today.
Within(s) ==
    bars[day][s] # None =>
        /\ bars[day][s].close > positions[s].stop
        /\ bars[day][s].close < positions[s].target
        /\ day - positions[s].entryDay < positions[s].maxDays
RulesInv ==
    /\ pc = "exits" => \A s \in Held : Within(s) \/ \E x \in toExit : x.symbol = s
    /\ pc = "exits" => \A x \in toExit : bars[day][x.symbol] # None
    /\ pc \in {"entries", "signals"} => \A s \in Held : positions[s].entryDay < day => Within(s)

\* Nothing that waits is held, and nothing that waits was sold today when the
\* entries come.
WaitingInv ==
    pc \in Trading \ {"close"} =>
        /\ \A i \in DOMAIN pending : pending[i].symbol \notin Held
        /\ \A i, j \in DOMAIN pending : pending[i].symbol = pending[j].symbol => i = j
        /\ pc \in {"exits", "entries"} =>
             \A i \in DOMAIN closed : \A j \in DOMAIN pending :
               closed[i].symbol = pending[j].symbol => closed[i].exitDay < day
DaysInv ==
    /\ pc \in Trading => /\ \A s \in Held : positions[s].entryDay <= day
                         /\ \A i \in DOMAIN closed : closed[i].exitDay <= day
    /\ pc = "exits" => \A s \in Held : positions[s].entryDay < day
    /\ NoSameDayRoundTrip
    /\ TrailingLocksGain

\* The trailing percentage of a position is the one of the request.
BooksInv ==
    /\ BooksAgree
    /\ \A s \in Held : positions[s].trailing # None =>
         config.strategy = "position" /\ positions[s].trailing = config.trailing
    /\ pc \in Fresh /\ runs = 0 => Held = {} /\ cash = InitialCapital

\* Until the first snapshot of the first run nothing is traded.
PeakInv ==
    runs = 0 =>
        /\ pc \in Trading /\ snapshots = <<>> =>
             /\ Held = {} /\ cash = InitialCapital /\ peak = InitialCapital
             /\ pc # "signals" => pending = <<>>
             /\ pc # "close"
        /\ pc \in Trading /\ snapshots # <<>> => peak = PeakUpTo(Len(snapshots))
        /\ DrawdownsAgree

BacktestInv ==
    /\ TypeInv /\ ExitInv /\ RulesInv /\ WaitingInv /\ DaysInv /\ BooksInv /\ PeakInv
    /\ LedgerBalances

---------------------------------------------------------------------------
(* Amounts                                                                 *)

\* A rounded quotient of amounts is an amount, at most half a unit too large.
LEMMA RoundFacts ==
    ASSUME NEW n \in Nat, NEW d \in Nat \ {0}
    PROVE  RoundHalfUp(n, d) \in Nat /\ 2 * d * RoundHalfUp(n, d) <= 2 * n + d
<1>1. 2 * n + d \in Nat /\ 2 * d \in Nat \ {0}
    OBVIOUS
<1> QED
    BY <1>1 DEF RoundHalfUp

\* A commission is an amount; the one of a sale is no more than the sale.
LEMMA CommissionFacts ==
    ASSUME NEW amount \in Nat
    PROVE  /\ BuyCommission(amount) \in Nat /\ SellCommission(amount) \in Nat
           /\ SellCommission(amount) <= amount
<1>1. PICK c : c = CommissionSell
    OBVIOUS
<1>2. c \in Nat /\ c <= 100000 /\ CommissionBuy \in Nat
    BY <1>1, BrokerAssumption
<1>3. amount * c \in Nat /\ amount * CommissionBuy \in Nat
    BY <1>2
<1>4. amount * c <= amount * 100000
    BY <1>2
<1>5. PICK r : r = RoundHalfUp(amount * c, 100000)
    OBVIOUS
<1>6. r \in Nat /\ 2 * 100000 * r <= 2 * (amount * c) + 100000
    <2>1. PICK n : n = amount * c
        OBVIOUS
    <2>2. RoundHalfUp(n, 100000) \in Nat /\ 2 * 100000 * RoundHalfUp(n, 100000) <= 2 * n + 100000
        BY <1>3, <2>1, RoundFacts
    <2> QED
        BY <1>5, <2>1, <2>2
<1>7. r <= amount
    BY <1>3, <1>4, <1>6
<1>8. BuyCommission(amount) \in Nat
    BY <1>3, RoundFacts DEF BuyCommission
<1> QED
    BY <1>1, <1>5, <1>6, <1>7, <1>8 DEF SellCommission

\* A price with slippage is a price.
LEMMA SlippedFacts ==
    ASSUME NEW open \in Prices
    PROVE  SlippedPrice(open) \in Nat \ {0}
<1>1. PICK n : n = open * (10000 + SlippageBps)
    OBVIOUS
<1>2. open \in Nat /\ open >= 1 /\ SlippageBps \in Nat
    BY BrokerAssumption DEF Prices
<1>3. n \in Nat
    BY <1>1, <1>2
<1>4. n >= 10000
    BY <1>1, <1>2
<1>5. (2 * n + 10000) \div (2 * 10000) >= 1
    BY <1>3, <1>4
<1>6. RoundHalfUp(n, 10000) \in Nat
    BY <1>3, RoundFacts
<1> QED
    BY <1>1, <1>5, <1>6 DEF SlippedPrice, RoundHalfUp

\* The room below a limit is a number, negative when the limit is passed.
LEMMA RoomFacts ==
    ASSUME NEW limit \in Int, NEW unit \in Nat \ {0}
    PROVE  Room(limit, 0, unit) \in Int
BY DEF Room

\* The quantity the sizer proposes is a number.
LEMMA SizedFacts ==
    ASSUME NEW total \in Nat, NEW price \in Nat, NEW stop \in Nat, Sizable(total, price, stop)
    PROVE  SizedQuantity(total, price, stop) \in Int
<1>1. PICK unit : unit = 100 * RiskPerShare(price, stop)
    OBVIOUS
<1>2. unit \in Nat \ {0} /\ 100 * price \in Nat \ {0} /\ price \in Nat \ {0}
    BY <1>1 DEF Sizable, RiskPerShare
<1>3. total * RISK_PER_TRADE_PCT \in Int /\ total * MAX_POSITION_PCT \in Int
    BY SettingsAssumption
<1>4. PICK a, b, c : /\ a = Room(total * RISK_PER_TRADE_PCT, 0, unit)
                     /\ b = Room(total * MAX_POSITION_PCT, 0, 100 * price)
                     /\ c = Room(MAX_POSITION_SIZE_KRW, 0, price)
    OBVIOUS
<1>5. a \in Int /\ b \in Int /\ c \in Int
    BY <1>2, <1>3, <1>4, RoomFacts, SettingsAssumption
<1>6. SizedQuantity(total, price, stop) = Least(Most(1, a), Least(b, c))
    BY <1>1, <1>4 DEF SizedQuantity
<1> QED
    BY <1>5, <1>6 DEF Least, Most

\* The account is worth something, and its cash when it holds nothing.
LEMMA TotalFacts ==
    ASSUME AccountOK
    PROVE  /\ TotalValue \in Nat
           /\ (\A s \in Symbols : shares[s] = 0) => TotalValue = cash
<1> DEFINE own == {s \in Symbols : shares[s] > 0}
<1>1. IsFiniteSet(own)
    BY FS_Subset, SettingsAssumption
<1>2. \A s \in own : value[s] \in Nat
    BY DEF AccountOK
<1>3. SumFunctionOnSet(value, own) \in Nat
    BY <1>1, <1>2, SumNat
<1>4. (\A s \in Symbols : shares[s] = 0) => own = {}
    OBVIOUS
<1>5. own = {} => SumFunctionOnSet(value, own) = 0
    BY SumEmpty
<1> HIDE DEF own
<1>6. TotalValue = cash + SumFunctionOnSet(value, own)
    BY DEF TotalValue, own
<1>7. cash \in Nat
    BY DEF AccountOK
<1> QED
    BY <1>3, <1>4, <1>5, <1>6, <1>7

---------------------------------------------------------------------------
(* Exits                                                                   *)

\* No reason to sell is a position within its rules; a trailing stop that does
\* not raise needs a gain.
LEMMA ExitFacts ==
    ASSUME NEW p \in PositionType, NEW price \in Nat, NEW highest, NEW d, NEW reason,
           reason = BacktestExit(p, price, highest, d)
    PROVE  /\ reason \in ExitReasons \union {None}
           /\ reason = None => /\ price > p.stop /\ price < p.target
                               /\ ~ (d - p.entryDay >= p.maxDays)
           /\ reason = "trailing_stop" => TrailingStopRaises(p, price) \/ price > p.entry
<1>1. /\ p.stop \in Nat /\ p.target \in Nat /\ p.maxDays \in Nat /\ p.entry \in Nat
      /\ p.entry > 0 /\ p.trailing \in Int \union {None}
    BY DEF PositionType, Prices
<1>2. p.target # None /\ p.maxDays # None
    BY <1>1, ParametersAssumption
<1>3. reason \in ExitReasons \union {None}
    BY DEF BacktestExit, ExitReasons
<1>4. reason = None => ~ StopLossHit(p, price) /\ ~ TakeProfitHit(p, price) /\ ~ TimeUp(p, d)
    BY ParametersAssumption, Zenon DEF BacktestExit, ExitReasons
<1>5. reason = "trailing_stop" =>
        ~ StopLossHit(p, price) /\ p.trailing # None /\ Gained(p, price, p.trailing)
    BY ParametersAssumption, Zenon DEF BacktestExit, ExitReasons
<1>6. ASSUME reason = "trailing_stop", ~ TrailingStopRaises(p, price)
      PROVE  price > p.entry
    <2>1. PICK e, t : e = p.entry /\ t = p.trailing
        OBVIOUS
    <2>2. t \in Int /\ t > 0
        BY <1>1, <1>5, <1>6, <2>1 DEF TrailingStopRaises
    <2>3. 100 * (price - e) >= t * e /\ e \in Nat /\ e > 0
        BY <1>1, <1>5, <1>6, <2>1 DEF Gained
    <2>4. PICK m : m = t * e
        OBVIOUS
    <2>5. m \in Int /\ m > 0
        BY <2>2, <2>3, <2>4
    <2>6. 100 * (price - e) >= m
        BY <2>3, <2>4
    <2>7. price > e
        BY <2>3, <2>5, <2>6
    <2> QED
        BY <2>1, <2>7
<1> QED
    BY <1>1, <1>2, <1>3, <1>4, <1>6 DEF StopLossHit, TakeProfitHit, TimeUp

\* A row of the price table that is there has positive prices.
LEMMA BarFacts ==
    ASSUME NEW table \in Histories, NEW d \in 1 .. LastDay, NEW s \in Symbols, table[d][s] # None
    PROVE  /\ table[d][s].open \in Prices /\ table[d][s].close \in Prices
           /\ table[d][s].open \in Nat /\ table[d][s].close \in Nat
<1>1. table \in [1 .. LastDay -> [Symbols -> PriceBars \union {None}]]
    BY ParametersAssumption
<1>2. table[d] \in [Symbols -> PriceBars \union {None}]
    BY <1>1
<1>3. table[d][s] \in PriceBars
    BY <1>2
<1> QED
    BY <1>3 DEF PriceBars, Prices

---------------------------------------------------------------------------
(* The ledger                                                              *)

Cost(book) ==
    SumFunction([s \in {t \in Symbols : book[t] # None} |-> book[s].entry * book[s].quantity])
Profit(trades) == SumFunction([i \in DOMAIN trades |-> trades[i].pnl])
Books == [Symbols -> PositionType \union {None}]

\* The ledger in terms of the two sums.
LEMMA LedgerForm ==
    LedgerBalances <=> cash + Cost(positions) = capital + Profit(closed) - buyFees
BY DEF LedgerBalances, Cost, Profit, Held

\* The cost of the positions is a number, and a position can be taken out of it.
LEMMA CostFacts ==
    ASSUME NEW book \in Books
    PROVE  /\ Cost(book) \in Int
           /\ \A s \in Symbols : book[s] # None =>
                Cost(book) = book[s].entry * book[s].quantity + Cost([book EXCEPT ![s] = None])
<1> DEFINE H == {t \in Symbols : book[t] # None}
           f == [s \in H |-> book[s].entry * book[s].quantity]
<1>1. IsFiniteSet(H)
    BY FS_Subset, SettingsAssumption
<1>2. \A s \in H : f[s] \in Int
    <2> SUFFICES ASSUME NEW s \in H PROVE f[s] \in Int
        OBVIOUS
    <2>1. book[s] \in PositionType
        BY DEF Books
    <2>2. book[s].entry \in Nat /\ book[s].quantity \in Nat
        BY <2>1 DEF PositionType, Prices
    <2> QED
        BY <2>2
<1>3. Cost(book) = SumFunctionOnSet(f, H)
    BY DEF Cost, SumFunction
<1>4. ASSUME NEW s \in H
      PROVE  Cost(book) = book[s].entry * book[s].quantity + Cost([book EXCEPT ![s] = None])
    <2> DEFINE less == [book EXCEPT ![s] = None]
               G == {t \in Symbols : less[t] # None}
               g == [t \in G |-> less[t].entry * less[t].quantity]
    <2>1. G = H \ {s}
        BY DEF Books
    <2>2. \A t \in G : g[t] = f[t]
        BY <2>1 DEF Books
    <2>3. IsFiniteSet(G)
        BY <1>1, <2>1, FS_Subset
    <2>4. Cost(less) = SumFunctionOnSet(g, G)
        BY DEF Cost, SumFunction
    <2>5. f[s] = book[s].entry * book[s].quantity
        OBVIOUS
    <2> HIDE DEF less, G, g, f, H
    <2>6. SumFunctionOnSet(g, G) = SumFunctionOnSet(f, G)
        BY <2>2, <2>3, SumSame
    <2>7. SumFunctionOnSet(f, H) = f[s] + SumFunctionOnSet(f, H \ {s})
        BY <1>1, <1>2, SumRemove
    <2>8. Cost(book) = f[s] + Cost(less)
        BY <1>3, <2>1, <2>4, <2>6, <2>7
    <2> QED
        BY <2>5, <2>8 DEF less
<1>5. SumFunctionOnSet(f, H) \in Int
    <2> HIDE DEF f, H
    <2> QED
        BY <1>1, <1>2, SumRemove
<1> QED
    BY <1>3, <1>4, <1>5

\* The cost depends on entry and quantity only.
LEMMA CostSame ==
    ASSUME NEW book, NEW other,
           \A s \in Symbols : /\ book[s] # None <=> other[s] # None
                              /\ book[s] # None => /\ book[s].entry = other[s].entry
                                                   /\ book[s].quantity = other[s].quantity
    PROVE  Cost(book) = Cost(other)
<1> DEFINE H == {t \in Symbols : book[t] # None}
           f == [s \in H |-> book[s].entry * book[s].quantity]
           G == {t \in Symbols : other[t] # None}
           g == [s \in G |-> other[s].entry * other[s].quantity]
<1>1. H = G
    OBVIOUS
<1>2. f = g
    BY <1>1
<1> QED
    BY <1>2 DEF Cost

\* Nothing held costs nothing.
LEMMA CostEmpty == Cost([s \in Symbols |-> None]) = 0
<1> DEFINE book == [s \in Symbols |-> None]
           H == {t \in Symbols : book[t] # None}
           f == [s \in H |-> book[s].entry * book[s].quantity]
<1>1. H = {}
    OBVIOUS
<1>2. Cost(book) = SumFunctionOnSet(f, H)
    BY DEF Cost, SumFunction
<1> HIDE DEF f, book, H
<1>3. SumFunctionOnSet(f, {}) = 0
    BY SumEmpty
<1> QED
    BY <1>1, <1>2, <1>3 DEF book

\* The profit is a number, and one more trade adds its own.
LEMMA ProfitFacts ==
    ASSUME NEW trades \in Seq(ClosedType)
    PROVE  /\ Profit(trades) \in Int
           /\ \A c \in ClosedType : Profit(Append(trades, c)) = Profit(trades) + c.pnl
<1> DEFINE D == DOMAIN trades
           f == [i \in D |-> trades[i].pnl]
           n == Len(trades)
<1>0. n \in Nat /\ D = 1 .. n
    OBVIOUS
<1>1. IsFiniteSet(D)
    BY <1>0, FS_Interval
<1>2. \A i \in D : f[i] \in Int
    <2> SUFFICES ASSUME NEW i \in D PROVE f[i] \in Int
        OBVIOUS
    <2>1. trades[i] \in ClosedType
        BY <1>0
    <2>2. trades[i].pnl \in Int
        BY <2>1 DEF ClosedType
    <2> QED
        BY <2>2
<1>3. Profit(trades) = SumFunctionOnSet(f, D)
    BY DEF Profit, SumFunction
<1>4. SumFunctionOnSet(f, D) \in Int
    <2> HIDE DEF f, D
    <2> QED
        BY <1>1, <1>2, SumRemove
<1>5. ASSUME NEW c \in ClosedType PROVE Profit(Append(trades, c)) = Profit(trades) + c.pnl
    <2> DEFINE more == Append(trades, c)
               E == DOMAIN more
               g == [i \in E |-> more[i].pnl]
    <2>1. more \in Seq(ClosedType) /\ Len(more) = n + 1
        OBVIOUS
    <2>2. E = 1 .. (n + 1)
        BY <2>1
    <2>3. /\ \A i \in D : more[i] = trades[i]
          /\ more[n + 1] = c
        BY <1>0
    <2>4. n + 1 \in E /\ E \ {n + 1} = D
        BY <1>0, <2>2
    <2>5. \A i \in D : g[i] = f[i]
        BY <2>3, <2>4
    <2>6. g[n + 1] = c.pnl /\ c.pnl \in Int
        BY <2>3, <2>4 DEF ClosedType
    <2>7. IsFiniteSet(E)
        BY <1>0, <2>2, FS_Interval
    <2>8. \A i \in E : g[i] \in Int
        BY <1>2, <2>4, <2>5, <2>6
    <2>9. Profit(more) = SumFunctionOnSet(g, E)
        BY DEF Profit, SumFunction
    <2> HIDE DEF more, E, g, f, D, n
    <2>10. SumFunctionOnSet(g, E) = g[n + 1] + SumFunctionOnSet(g, E \ {n + 1})
        BY <2>4, <2>7, <2>8, SumRemove
    <2>11. SumFunctionOnSet(g, D) = SumFunctionOnSet(f, D)
        BY <1>1, <2>5, SumSame
    <2>12. Profit(more) = c.pnl + Profit(trades)
        BY <1>3, <2>4, <2>6, <2>9, <2>10, <2>11
    <2> QED
        BY <1>3, <1>4, <2>6, <2>12 DEF more
<1> QED
    BY <1>3, <1>4, <1>5

\* No trades, no profit.
LEMMA ProfitEmpty == Profit(<<>>) = 0
<1> DEFINE none == <<>>
           f == [i \in DOMAIN none |-> none[i].pnl]
<1>1. DOMAIN none = {}
    OBVIOUS
<1>2. Profit(none) = SumFunctionOnSet(f, DOMAIN none)
    BY DEF Profit, SumFunction
<1> HIDE DEF f, none
<1>3. SumFunctionOnSet(f, {}) = 0
    BY SumEmpty
<1> QED
    BY <1>1, <1>2, <1>3 DEF none

---------------------------------------------------------------------------
(* The spans of a plan                                                     *)

\* Every part of every window lies within the period.
LEMMA WindowFacts ==
    /\ Len(GenerateWindows) \in Nat
    /\ \A k \in 1 .. Len(GenerateWindows) :
         GenerateWindows[k].is \in SpanType /\ GenerateWindows[k].oos \in SpanType
<1> DEFINE complete == {k \in 1 .. LastDay : k * WindowDays + OosDays <= LastDay}
           c == Cardinality(complete)
<1>1. LastDay \in Nat /\ WindowDays \in Nat \ {0} /\ OosDays \in Nat \ {0}
    BY BacktestAssumption
<1>2. IsFiniteSet(complete)
    <2>1. IsFiniteSet(1 .. LastDay)
        BY <1>1, FS_Interval
    <2> QED
        BY <2>1, FS_Subset
<1>3. c \in Nat
    BY <1>2, FS_CardinalityType
<1>4. GenerateWindows = [k \in 1 .. c |->
          [is |-> [first |-> 1 + (k - 1) * WindowDays, last |-> k * WindowDays],
           oos |-> [first |-> 1 + k * WindowDays, last |-> k * WindowDays + OosDays]]]
    BY DEF GenerateWindows
<1>5. ASSUME NEW k \in Nat \ {0}, NEW j \in complete, k <= j PROVE k \in complete
    <2>1. k * WindowDays <= j * WindowDays
        <3>1. PICK w : w = WindowDays
            OBVIOUS
        <3>2. w \in Nat /\ j \in Nat /\ j - k \in Nat
            BY <1>1, <1>5, <3>1
        <3>3. (j - k) * w \in Nat /\ k * w \in Nat /\ j * w = k * w + (j - k) * w
            BY <3>2
        <3> QED
            BY <3>1, <3>2, <3>3
    <2>2. k * WindowDays \in Nat /\ j * WindowDays \in Nat
        BY <1>1
    <2> QED
        BY <1>1, <1>5, <2>1, <2>2
<1>6. ASSUME NEW k \in 1 .. c PROVE k \in complete
    <2> SUFFICES ASSUME k \notin complete PROVE FALSE
        OBVIOUS
    <2>1. k \in Nat \ {0} /\ k - 1 \in Nat
        BY <1>3
    <2>2. complete \subseteq 1 .. (k - 1)
        BY <1>1, <1>5, <2>1
    <2> HIDE DEF complete
    <2>3. Cardinality(1 .. (k - 1)) = k - 1 /\ IsFiniteSet(1 .. (k - 1))
        BY <2>1, FS_Interval
    <2>4. c <= k - 1
        BY <2>2, <2>3, FS_Subset
    <2> QED
        BY <1>3, <2>1, <2>4
<1>7. Len(GenerateWindows) = c
    <2> HIDE DEF c
    <2> QED
        BY <1>3, <1>4
<1>8. ASSUME NEW k \in 1 .. c
      PROVE  GenerateWindows[k].is \in SpanType /\ GenerateWindows[k].oos \in SpanType
    <2>1. PICK m : m = k * WindowDays
        OBVIOUS
    <2>2. m \in Nat /\ m >= WindowDays /\ m + OosDays <= LastDay
        BY <1>1, <1>3, <1>6, <2>1
    <2>3. (k - 1) * WindowDays = m - WindowDays
        BY <1>1, <1>3, <2>1
    <2>4. /\ GenerateWindows[k].is = [first |-> 1 + (m - WindowDays), last |-> m]
          /\ GenerateWindows[k].oos = [first |-> 1 + m, last |-> m + OosDays]
        BY <1>4, <2>1, <2>3
    <2>5. /\ 1 + (m - WindowDays) \in 1 .. LastDay /\ m \in 1 .. LastDay
          /\ 1 + m \in 1 .. LastDay /\ m + OosDays \in 1 .. LastDay
        BY <1>1, <2>2
    <2> QED
        BY <2>4, <2>5 DEF SpanType
<1> QED
    BY <1>3, <1>7, <1>8

\* The runs of a caller are runs within the period; the request has one.
LEMMA SpansFacts ==
    ASSUME NEW driver
    PROVE  Spans(driver) \in Seq(SpanType) /\ (driver = "api" => Spans(driver) # <<>>)
<1>1. CASE driver = "api"
    <2>1. [first |-> 1, last |-> LastDay] \in SpanType
        BY BacktestAssumption DEF SpanType
    <2> QED
        BY <1>1, <2>1 DEF Spans
<1>2. CASE driver # "api"
    <2>1. PICK n : n = 2 * Len(GenerateWindows)
        OBVIOUS
    <2>2. n \in Nat
        BY <2>1, WindowFacts
    <2> DEFINE f == [i \in 1 .. n |->
               IF i % 2 = 1 THEN GenerateWindows[(i + 1) \div 2].is
                            ELSE GenerateWindows[i \div 2].oos]
    <2>3. Spans(driver) = f
        BY <1>2, <2>1 DEF Spans
    <2>4. ASSUME NEW i \in 1 .. n PROVE f[i] \in SpanType
        <3>1. PICK w : w = Len(GenerateWindows)
            OBVIOUS
        <3>2. i \in Nat /\ 1 <= i /\ i <= 2 * w /\ w \in Nat
            BY <2>1, <2>2, <3>1, WindowFacts
        <3>3. i % 2 = 1 => (i + 1) \div 2 \in 1 .. w
            BY <3>2
        <3>4. i % 2 # 1 => i \div 2 \in 1 .. w
            BY <3>2
        <3> QED
            BY <3>1, <3>3, <3>4, WindowFacts
    <2>5. f \in [1 .. n -> SpanType]
        BY <2>4
    <2>6. f \in Seq(SpanType)
        <3> HIDE DEF f
        <3> QED
            BY <2>2, <2>5, SeqDef
    <2> QED
        BY <1>2, <2>3, <2>6
<1> QED
    BY <1>1, <1>2

---------------------------------------------------------------------------
(* The invariant                                                           *)

\* The invariant holds before a caller begins.
LEMMA InitInv == Init => BacktestInv
<1> SUFFICES ASSUME Init PROVE BacktestInv
    OBVIOUS
<1>1. /\ cash = InitialCapital /\ shares = [s \in Symbols |-> 0] /\ value = [s \in Symbols |-> 0]
      /\ positions = [s \in Symbols |-> None] /\ capital = InitialCapital
      /\ closed = <<>> /\ snapshots = <<>> /\ pending = <<>> /\ toExit = {}
      /\ buyFees = 0 /\ runs = 0 /\ tradeCount = 0 /\ dailyTrades = 0 /\ dailyPnl = 0
      /\ peak = 0 /\ scan = 1 /\ day = 0 /\ row = "none"
    BY DEF Init, AccountInit
<1>2. bars \in Histories /\ config \in Configs /\ plan = Spans(config.driver)
    BY DEF Init, Load
<1>3. pc \in {"new", "idle"}
    BY DEF Init
<1>4. Held = {}
    BY <1>1 DEF Held
<1>5. InitialCapital \in Nat /\ LastDay \in Nat
    BY BrokerAssumption, BacktestAssumption
<1>6. AccountOK
    BY <1>1, <1>5 DEF AccountOK
<1>7. InputsOK
    BY <1>1, <1>2, SpansFacts DEF InputsOK, RowStatuses
<1>8. ControlOK
    BY <1>1, <1>3, <1>5 DEF ControlOK, AllPcs, Fresh, Trading
<1>9. RecordsOK
    BY <1>1, <1>5 DEF RecordsOK
<1>10. ExitInv /\ RulesInv /\ WaitingInv
    BY <1>3 DEF ExitInv, RulesInv, WaitingInv, Trading
<1>11. DaysInv
    BY <1>1, <1>3 DEF DaysInv, NoSameDayRoundTrip, TrailingLocksGain, Trading
<1>12. BooksInv
    BY <1>1, <1>3, <1>4 DEF BooksInv, BooksAgree
<1>13. PeakInv
    BY <1>1, <1>3 DEF PeakInv, DrawdownsAgree, Trading
<1>14. LedgerBalances
    BY <1>1, <1>5, LedgerForm, CostEmpty, ProfitEmpty
<1> QED
    BY <1>6, <1>7, <1>8, <1>9, <1>10, <1>11, <1>12, <1>13, <1>14 DEF BacktestInv, TypeInv

\* Everything but the program counter and the row.
rest == <<account, fixed, plan, runs, day, positions, toExit, pending, scan, daily, records>>

\* A step outside of the engine only moves the program counter and the row.
LEMMA PcStep ==
    ASSUME BacktestInv, UNCHANGED rest, row' \in RowStatuses,
           pc' \in AllPcs \ (Trading \union {"completed", "failed"}),
           pc' \in Fresh => pc \in Fresh
    PROVE  BacktestInv'
<1>1. /\ UNCHANGED <<cash, shares, value, bars, config, capital, plan, runs, day, positions>>
      /\ UNCHANGED <<toExit, pending, scan, dailyTrades, dailyPnl, peak, snapshots, closed>>
      /\ UNCHANGED <<tradeCount, buyFees>>
    BY DEF rest, account, fixed, daily, records
<1>2. pc' \notin Trading /\ pc' \notin {"completed", "failed"} /\ pc' \in AllPcs
    OBVIOUS
<1>3. pc' \notin {"exits", "close", "entries", "signals", "failed"}
    BY <1>2 DEF Trading
<1>4. TypeInv'
    BY <1>1, <1>2, <1>3 DEF BacktestInv, TypeInv, AccountOK, InputsOK, ControlOK, RecordsOK
<1>5. (ExitInv /\ RulesInv /\ WaitingInv)'
    BY <1>2, <1>3 DEF ExitInv, RulesInv, WaitingInv
<1>6. Held' = Held
    BY <1>1 DEF Held
<1>7. DaysInv'
    BY <1>1, <1>2, <1>3, <1>6 DEF BacktestInv, DaysInv, NoSameDayRoundTrip, TrailingLocksGain
<1>8. BooksInv'
    BY <1>1, <1>3, <1>6 DEF BacktestInv, BooksInv, BooksAgree
<1>9. DrawdownsAgree'
    BY <1>1 DEF BacktestInv, PeakInv, DrawdownsAgree, PeakUpTo
<1>10. PeakInv'
    BY <1>2, <1>9 DEF PeakInv
<1>11. LedgerBalances'
    BY <1>1, <1>6 DEF BacktestInv, LedgerBalances
<1> QED
    BY <1>4, <1>5, <1>7, <1>8, <1>10, <1>11 DEF BacktestInv

\* Callers and crashes touch the row and the program counter only.
LEMMA ApiInv == BacktestInv /\ (Api \/ Crash) => BacktestInv'
<1> SUFFICES ASSUME BacktestInv, Api \/ Crash PROVE BacktestInv'
    OBVIOUS
<1>1. row \in RowStatuses
    BY DEF BacktestInv, TypeInv, InputsOK
<1>2. UNCHANGED rest
    BY DEF Api, QueueRun, StartTask, SaveResult, MarkFailed, Crash, rest, fixed, records, daily
<1>3. row' \in RowStatuses
    BY <1>1 DEF Api, QueueRun, StartTask, SaveResult, MarkFailed, Crash, RowStatuses
<1>4. pc' \in AllPcs \ (Trading \union {"completed", "failed"})
    BY DEF Api, QueueRun, StartTask, SaveResult, MarkFailed, Crash, AllPcs, Trading, Fresh
<1>5. pc' \in Fresh => pc \in Fresh
    BY DEF Api, QueueRun, StartTask, SaveResult, MarkFailed, Crash, Fresh
<1> QED
    BY <1>2, <1>3, <1>4, <1>5, PcStep

\* The same of the next state.
LEMMA LedgerFormNext ==
    LedgerBalances' <=> cash' + Cost(positions') = capital' + Profit(closed') - buyFees'
BY DEF LedgerBalances, Cost, Profit, Held

\* The first day of a span is a day of the period.
LEMMA HeadFacts ==
    ASSUME plan \in Seq(SpanType), plan # <<>>
    PROVE  Head(plan) \in SpanType /\ Tail(plan) \in Seq(SpanType)
BY HeadTailProperties

\* A run starts with nothing held, and with the capital it was given.
LEMMA StartRunInv == BacktestInv /\ StartRun => BacktestInv'
<1> SUFFICES ASSUME BacktestInv, StartRun PROVE BacktestInv'
    OBVIOUS
<1>1. /\ UNCHANGED <<cash, shares, value, bars, config, plan, runs, row>>
      /\ positions' = [s \in Symbols |-> None] /\ capital' = cash
      /\ closed' = <<>> /\ snapshots' = <<>> /\ pending' = <<>> /\ toExit' = {}
      /\ buyFees' = 0 /\ tradeCount' = 0 /\ dailyTrades' = 0 /\ dailyPnl' = 0
      /\ peak' = InitialCapital /\ scan' = 1 /\ day' = Head(plan).first - 1
    BY DEF StartRun, EngineReset, account
<1>2. pc = "idle" /\ plan # <<>> /\ pc' \in {"completed", "day", "failed"}
    BY DEF StartRun
<1>3. Held' = {}
    BY <1>1 DEF Held
<1>4. AccountOK /\ InputsOK /\ LastDay \in Nat /\ InitialCapital \in Nat
    BY BacktestAssumption, BrokerAssumption DEF BacktestInv, TypeInv
<1>5. AccountOK' /\ InputsOK'
    BY <1>1, <1>4 DEF AccountOK, InputsOK
<1>6. day' \in 0 .. LastDay
    <2>1. Head(plan) \in SpanType
        BY <1>2, <1>4, HeadFacts DEF InputsOK
    <2>2. Head(plan).first \in 1 .. LastDay
        BY <2>1 DEF SpanType
    <2> QED
        BY <1>1, <1>4, <2>2
<1>7. ControlOK'
    BY <1>1, <1>2, <1>6 DEF ControlOK, AllPcs, Trading, Fresh
<1>8. RecordsOK'
    BY <1>1, <1>4 DEF RecordsOK, AccountOK
<1>9. (ExitInv /\ RulesInv /\ WaitingInv)'
    BY <1>1, <1>2, <1>3 DEF ExitInv, RulesInv, WaitingInv
<1>10. DaysInv'
    BY <1>1, <1>2, <1>3 DEF DaysInv, NoSameDayRoundTrip, TrailingLocksGain
<1>11. runs = 0 => Held = {} /\ cash = InitialCapital
    BY <1>2 DEF BacktestInv, BooksInv, Fresh
<1>12. BooksInv'
    <2>1. \A s \in Symbols : IF runs = 0 THEN shares[s] = 0 ELSE shares[s] >= 0
        BY <1>4, <1>11 DEF BacktestInv, BooksInv, BooksAgree, AccountOK
    <2> QED
        BY <1>1, <1>2, <1>3, <2>1 DEF BooksInv, BooksAgree, Fresh
<1>13. PeakInv'
    BY <1>1, <1>2, <1>3, <1>11 DEF PeakInv, DrawdownsAgree
<1>14. LedgerBalances'
    BY <1>1, <1>4, LedgerFormNext, CostEmpty, ProfitEmpty DEF AccountOK
<1> QED
    BY <1>5, <1>7, <1>8, <1>9, <1>10, <1>12, <1>13, <1>14 DEF BacktestInv, TypeInv

\* The next run of a walk-forward analysis starts anew on the same account.
LEMMA NextRunInv == BacktestInv /\ NextRun => BacktestInv'
<1> SUFFICES ASSUME BacktestInv, NextRun PROVE BacktestInv'
    OBVIOUS
<1>1. /\ UNCHANGED <<cash, shares, value, bars, config, capital, day, positions>>
      /\ UNCHANGED <<toExit, pending, scan, dailyTrades, dailyPnl, peak, snapshots, closed>>
      /\ UNCHANGED <<tradeCount, buyFees, row>>
    BY DEF NextRun, account, fixed, daily, records
<1>2. /\ pc \in {"completed", "failed"} /\ pc' \in {"done", "idle"}
      /\ plan' = Tail(plan) /\ runs' = runs + 1
    BY DEF NextRun
<1>3. AccountOK /\ InputsOK /\ ControlOK /\ RecordsOK
    BY DEF BacktestInv, TypeInv
<1>4. plan' \in Seq(SpanType)
    BY <1>2, <1>3, HeadFacts DEF InputsOK, ControlOK
<1>5. runs' \in Nat /\ runs' # 0
    BY <1>2, <1>3 DEF InputsOK
<1>6. TypeInv'
    BY <1>1, <1>2, <1>3, <1>4, <1>5
    DEF TypeInv, AccountOK, InputsOK, ControlOK, RecordsOK, AllPcs, Trading, Fresh
<1>7. Held' = Held
    BY <1>1 DEF Held
<1>8. (ExitInv /\ RulesInv /\ WaitingInv)'
    BY <1>2 DEF ExitInv, RulesInv, WaitingInv, Trading
<1>9. DaysInv'
    BY <1>1, <1>2, <1>7 DEF BacktestInv, DaysInv, NoSameDayRoundTrip, TrailingLocksGain, Trading
<1>10. BooksInv'
    <2>1. \A s \in Symbols : shares[s] >= IF s \in Held THEN positions[s].quantity ELSE 0
        BY <1>3 DEF BacktestInv, BooksInv, BooksAgree, AccountOK
    <2> QED
        BY <1>1, <1>2, <1>5, <1>7, <2>1 DEF BacktestInv, BooksInv, BooksAgree, Fresh
<1>11. PeakInv'
    BY <1>5 DEF PeakInv
<1>12. LedgerBalances'
    BY <1>1, <1>7 DEF BacktestInv, LedgerBalances
<1> QED
    BY <1>6, <1>8, <1>9, <1>10, <1>11, <1>12 DEF BacktestInv

\* The exits or the entries of a day are over.
LEMMA DoneInv == BacktestInv /\ (ExitsDone \/ EntriesDone) => BacktestInv'
<1> SUFFICES ASSUME BacktestInv, ExitsDone \/ EntriesDone PROVE BacktestInv'
    OBVIOUS
<1>1. /\ UNCHANGED <<cash, shares, value, bars, config, capital, plan, runs, day, positions>>
      /\ UNCHANGED <<toExit, pending, dailyTrades, dailyPnl, peak, snapshots, closed>>
      /\ UNCHANGED <<tradeCount, buyFees, row>>
    BY DEF ExitsDone, EntriesDone, account, fixed, daily, records
<1>2. \/ pc = "exits" /\ toExit = {} /\ pc' = "entries"
      \/ pc = "close" /\ pc' = "completed"
      \/ pc = "entries" /\ pending = <<>> /\ pc' = "signals"
    BY DEF ExitsDone, EntriesDone
<1>3. AccountOK /\ InputsOK /\ ControlOK /\ RecordsOK
    BY DEF BacktestInv, TypeInv
<1>4. scan' \in Nat \ {0}
    BY <1>3 DEF ExitsDone, EntriesDone, ControlOK
<1>5. TypeInv'
    <2>1. ControlOK'
        BY <1>1, <1>2, <1>3, <1>4 DEF ControlOK, AllPcs, Trading, Fresh
    <2> QED
        BY <1>1, <1>3, <2>1 DEF TypeInv, AccountOK, InputsOK, RecordsOK
<1>6. Held' = Held /\ \A s \in Symbols : Within(s)' <=> Within(s)
    BY <1>1 DEF Held, Within
<1>7. ExitInv'
    BY <1>1, <1>2 DEF ExitInv
<1>8. RulesInv'
    <2>1. RulesInv /\ Held \subseteq Symbols
        BY DEF BacktestInv, Held
    <2>2. CASE pc = "exits" /\ toExit = {} /\ pc' = "entries"
        BY <1>1, <1>6, <2>1, <2>2 DEF RulesInv
    <2>3. CASE pc = "close" /\ pc' = "completed"
        BY <2>3 DEF RulesInv
    <2>4. CASE pc = "entries" /\ pc' = "signals"
        BY <1>1, <1>6, <2>1, <2>4 DEF RulesInv
    <2> QED
        BY <1>2, <2>2, <2>3, <2>4
<1>9. WaitingInv'
    BY <1>1, <1>2, <1>6 DEF BacktestInv, WaitingInv, Trading
<1>10. DaysInv'
    BY <1>1, <1>2, <1>6 DEF BacktestInv, DaysInv, NoSameDayRoundTrip, TrailingLocksGain, Trading
<1>11. BooksInv'
    BY <1>1, <1>2, <1>6 DEF BacktestInv, BooksInv, BooksAgree, Fresh
<1>12. DrawdownsAgree' <=> DrawdownsAgree
    BY <1>1 DEF DrawdownsAgree, PeakUpTo
<1>13. PeakInv'
    <2>1. PeakUpTo(Len(snapshots))' = PeakUpTo(Len(snapshots))
        BY <1>1 DEF PeakUpTo
    <2> QED
        BY <1>1, <1>2, <1>6, <1>12, <2>1 DEF BacktestInv, PeakInv, Trading
<1>14. LedgerBalances'
    BY <1>1, <1>6 DEF BacktestInv, LedgerBalances
<1> QED
    BY <1>5, <1>7, <1>8, <1>9, <1>10, <1>11, <1>13, <1>14 DEF BacktestInv

\* The stop and the target of an entry are prices.
LEMMA ExitPriceFacts ==
    ASSUME TypeInv, day \in 1 .. LastDay, NEW s \in Symbols, bars[day][s] # None,
           NEW x \in PossibleExits(s)
    PROVE  x.stop \in Nat /\ x.target \in Nat
<1>1. PICK price : price = bars[day][s].close
    OBVIOUS
<1>2. price \in Nat /\ price > 0
    BY <1>1, BarFacts DEF TypeInv, InputsOK, Prices
<1>3. CASE config.strategy = "position"
    <2>1. PICK atr \in Atrs : x = AtrExits(price, atr)
        BY <1>1, <1>3 DEF PossibleExits
    <2>2. PICK a, b : a = atr * AtrStopMult /\ b = atr * AtrTpMult
        OBVIOUS
    <2>3. a \in Nat /\ b \in Nat
        BY <2>2, ParametersAssumption
    <2>4. x.stop = StopPrice(price, a) /\ x.target = price + b
        BY <2>1, <2>2 DEF AtrExits
    <2> QED
        BY <1>2, <2>3, <2>4 DEF StopPrice
<1>4. CASE config.strategy # "position"
    <2>1. x = FixedExits(price)
        BY <1>1, <1>4 DEF PossibleExits
    <2>2. PICK a, b : a = 100 - StopPct /\ b = 100 + TpPct
        OBVIOUS
    <2>3. a \in Nat /\ b \in Nat
        BY <2>2, ParametersAssumption
    <2>4. x.stop = (price * a) \div 100 /\ x.target = (price * b) \div 100
        BY <2>1, <2>2 DEF FixedExits
    <2>5. price * a \in Nat /\ price * b \in Nat
        BY <1>2, <2>3
    <2>6. PICK m, n : m = price * a /\ n = price * b
        OBVIOUS
    <2>7. m \div 100 \in Nat /\ n \div 100 \in Nat
        BY <2>5, <2>6
    <2> QED
        BY <2>4, <2>6, <2>7
<1> QED
    BY <1>3, <1>4

\* A signal is added to those that wait, for a symbol that is neither held nor
\* waiting.
LEMMA GenerateSignalInv == BacktestInv /\ GenerateSignal => BacktestInv'
<1> SUFFICES ASSUME BacktestInv, GenerateSignal PROVE BacktestInv'
    OBVIOUS
<1>1. /\ UNCHANGED <<cash, shares, value, bars, config, capital, plan, runs, day, positions>>
      /\ UNCHANGED <<toExit, pc, dailyTrades, dailyPnl, peak, snapshots, closed>>
      /\ UNCHANGED <<tradeCount, buyFees, row>>
    BY DEF GenerateSignal, account, fixed, daily, records
<1>2. pc = "signals" /\ scan <= Len(SymbolOrder) /\ scan' = scan + 1
    BY DEF GenerateSignal
<1>3. TypeInv /\ AccountOK /\ InputsOK /\ ControlOK /\ RecordsOK
    BY DEF BacktestInv, TypeInv
<1>4. scan \in Nat \ {0} /\ day \in 1 .. LastDay /\ LastDay \in Nat
    BY <1>2, <1>3, BacktestAssumption DEF ControlOK
<1>5. PICK s : s = SymbolOrder[scan]
    OBVIOUS
<1>6. s \in Symbols
    BY <1>2, <1>4, <1>5, BacktestAssumption
<1>7. \/ pending' = pending
      \/ \E c \in SignalType : c.symbol = s /\ MaySignal(s) /\ pending' = Append(pending, c)
    <2>1. PICK wants \in WantsEntry(s) :
         IF wants /\ MaySignal(s) /\ EnoughBars(s) /\ bars[day][s] # None
           THEN \E x \in PossibleExits(s) :
                  LET price == bars[day][s].close
                      quantity == SizedQuantity(TotalValue, price, x.stop)
                  IN pending' = IF Sizable(TotalValue, price, x.stop) /\ quantity > 0
                       THEN Append(pending, [symbol |-> s, quantity |-> quantity,
                                             stop |-> x.stop, target |-> x.target])
                       ELSE pending
           ELSE UNCHANGED pending
        BY <1>5 DEF GenerateSignal
    <2>2. CASE ~ (wants /\ MaySignal(s) /\ EnoughBars(s) /\ bars[day][s] # None)
        BY <2>1, <2>2
    <2>3. CASE wants /\ MaySignal(s) /\ EnoughBars(s) /\ bars[day][s] # None
        <3>1. PICK price : price = bars[day][s].close
            OBVIOUS
        <3>2. PICK x \in PossibleExits(s) :
                pending' = IF /\ Sizable(TotalValue, price, x.stop)
                              /\ SizedQuantity(TotalValue, price, x.stop) > 0
                       THEN Append(pending, [symbol |-> s,
                                   quantity |-> SizedQuantity(TotalValue, price, x.stop),
                                   stop |-> x.stop, target |-> x.target])
                       ELSE pending
            BY <2>1, <2>3, <3>1
        <3>3. x.stop \in Nat /\ x.target \in Nat
            BY <1>3, <1>4, <1>6, <2>3, ExitPriceFacts
        <3>4. PICK t, q : t = TotalValue /\ q = SizedQuantity(TotalValue, price, x.stop)
            OBVIOUS
        <3>5. t \in Nat /\ price \in Nat
            BY <1>3, <1>4, <1>6, <2>3, <3>1, <3>4, TotalFacts, BarFacts DEF InputsOK
        <3>6. Sizable(t, price, x.stop) => q \in Int
            BY <3>3, <3>4, <3>5, SizedFacts
        <3>7. CASE Sizable(t, price, x.stop) /\ q > 0
            <4> DEFINE c == [symbol |-> s, quantity |-> q, stop |-> x.stop, target |-> x.target]
            <4>1. q \in Nat \ {0}
                BY <3>6, <3>7
            <4>2. c \in SignalType
                BY <1>6, <3>3, <4>1 DEF SignalType
            <4>3. pending' = Append(pending, c)
                BY <3>2, <3>4, <3>7
            <4> QED
                BY <2>3, <4>2, <4>3
        <3>8. CASE ~ (Sizable(t, price, x.stop) /\ q > 0)
            BY <3>2, <3>4, <3>8
        <3> QED
            BY <3>7, <3>8
    <2> QED
        BY <2>2, <2>3
<1>8. pending \in Seq(SignalType)
    BY <1>3 DEF RecordsOK
<1>9. pending' \in Seq(SignalType)
    BY <1>7, <1>8, AppendProperties
<1>10. TypeInv'
    BY <1>1, <1>2, <1>3, <1>4, <1>9 DEF TypeInv, AccountOK, InputsOK, ControlOK, RecordsOK
<1>11. Held' = Held
    BY <1>1 DEF Held
<1>12. ExitInv' /\ DaysInv' /\ BooksInv'
    BY <1>1, <1>2, <1>11
    DEF BacktestInv, ExitInv, DaysInv, BooksInv, BooksAgree, NoSameDayRoundTrip, TrailingLocksGain
<1>13. RulesInv'
    BY <1>1, <1>2, <1>11 DEF BacktestInv, RulesInv, Within
<1>14. WaitingInv'
    <2>1. /\ \A i \in DOMAIN pending : pending[i].symbol \notin Held
          /\ \A i, j \in DOMAIN pending : pending[i].symbol = pending[j].symbol => i = j
        BY <1>2 DEF BacktestInv, WaitingInv, Trading
    <2>2. CASE pending' = pending
        BY <1>1, <1>2, <1>11, <2>1, <2>2 DEF WaitingInv
    <2>3. ASSUME NEW c \in SignalType, c.symbol = s, MaySignal(s), pending' = Append(pending, c)
          PROVE  WaitingInv'
        <3>1. s \notin Held /\ \A i \in DOMAIN pending : pending[i].symbol # s
            BY <2>3 DEF MaySignal
        <3>2. PICK n : n = Len(pending)
            OBVIOUS
        <3>3. /\ n \in Nat /\ DOMAIN pending = 1 .. n /\ DOMAIN pending' = 1 .. (n + 1)
              /\ \A i \in 1 .. n : pending'[i] = pending[i]
              /\ pending'[n + 1] = c
            BY <1>8, <2>3, <3>2
        <3>4. \A i \in 1 .. (n + 1) : i \in 1 .. n \/ i = n + 1
            BY <3>3
        <3>5. \A i \in DOMAIN pending' : pending'[i].symbol \notin Held
            BY <2>1, <2>3, <3>1, <3>3, <3>4
        <3>6. \A i, j \in DOMAIN pending' : pending'[i].symbol = pending'[j].symbol => i = j
            BY <2>1, <2>3, <3>1, <3>3, <3>4
        <3> QED
            BY <1>1, <1>2, <1>11, <3>5, <3>6 DEF WaitingInv
    <2> QED
        BY <1>7, <2>2, <2>3
<1>15. PeakInv'
    <2>1. DrawdownsAgree' <=> DrawdownsAgree
        BY <1>1 DEF DrawdownsAgree, PeakUpTo
    <2>2. PeakUpTo(Len(snapshots))' = PeakUpTo(Len(snapshots))
        BY <1>1 DEF PeakUpTo
    <2> QED
        BY <1>1, <1>2, <1>11, <2>1, <2>2 DEF BacktestInv, PeakInv
<1>16. LedgerBalances'
    BY <1>1, <1>11 DEF BacktestInv, LedgerBalances
<1> QED
    BY <1>10, <1>12, <1>13, <1>14, <1>15, <1>16 DEF BacktestInv

---------------------------------------------------------------------------
(* Peaks                                                                   *)

PeakOf(days, j) == Max({days[i].total : i \in 1 .. j})

\* One snapshot more: earlier peaks stay, the last one is raised to the new total.
LEMMA PeakAppend ==
    ASSUME NEW days \in Seq(SnapshotType), NEW x \in SnapshotType
    PROVE  /\ \A j \in 1 .. Len(days) : PeakOf(Append(days, x), j) = PeakOf(days, j)
           /\ days = <<>> => PeakOf(Append(days, x), Len(days) + 1) = x.total
           /\ days # <<>> => PeakOf(Append(days, x), Len(days) + 1)
                               = Most(PeakOf(days, Len(days)), x.total)
<1> DEFINE n == Len(days)
           more == Append(days, x)
           Totals(d, j) == {d[i].total : i \in 1 .. j}
<1>1. n \in Nat /\ more[n + 1] = x /\ \A i \in 1 .. n : more[i] = days[i] /\ days[i] \in SnapshotType
    OBVIOUS
<1>2. x.total \in Nat /\ \A i \in 1 .. n : days[i].total \in Nat
    BY <1>1 DEF SnapshotType
<1>3. days # <<>> => n >= 1
    OBVIOUS
<1>4. \A j \in 1 .. n : Totals(more, j) = Totals(days, j)
    <2> SUFFICES ASSUME NEW j \in 1 .. n PROVE Totals(more, j) = Totals(days, j)
        OBVIOUS
    <2>1. \A i \in 1 .. j : i \in 1 .. n
        BY <1>1
    <2> HIDE DEF more, n
    <2> QED
        BY <1>1, <2>1
<1>5. Totals(more, n + 1) = Totals(days, n) \union {x.total}
    <2> HIDE DEF more, n
    <2>1. \A i \in 1 .. (n + 1) : i \in 1 .. n \/ i = n + 1
        BY <1>1
    <2>2. n + 1 \in 1 .. (n + 1) /\ \A i \in 1 .. n : i \in 1 .. (n + 1)
        BY <1>1
    <2>3. \A i \in 1 .. n : more[i].total = days[i].total
        BY <1>1
    <2> QED
        BY <1>1, <2>1, <2>2, <2>3
<1>6. ASSUME days = <<>> PROVE PeakOf(more, n + 1) = x.total
    <2>1. n = 0
        BY <1>6
    <2>2. Totals(days, n) = {}
        <3>1. 1 .. n = {}
            BY <2>1
        <3> HIDE DEF n
        <3> QED
            BY <3>1
    <2>3. Totals(more, n + 1) = {x.total}
        BY <1>5, <2>2
    <2>4. Max({x.total}) = x.total
        <3>1. PICK T : T = {x.total}
            OBVIOUS
        <3>2. T \in SUBSET Nat /\ T # {} /\ IsFiniteSet(T)
            BY <1>2, <3>1, FS_Singleton
        <3>3. Max(T) \in T
            BY <3>2, MaxFacts
        <3> QED
            BY <3>1, <3>3
    <2> QED
        BY <2>3, <2>4 DEF PeakOf
<1>7. ASSUME days # <<>> PROVE PeakOf(more, n + 1) = Most(PeakOf(days, n), x.total)
    <2>1. PICK A : A = Totals(days, n)
        OBVIOUS
    <2>2. PICK B : B = A \union {x.total}
        OBVIOUS
    <2>3. IsFiniteSet(A)
        <3>1. IsFiniteSet(1 .. n)
            <4>1. n \in Int
                BY <1>1
            <4> HIDE DEF n
            <4> QED
                BY <4>1, FS_Interval
        <3> DEFINE f == [i \in 1 .. n |-> days[i].total]
        <3>2. f \in Surjection(1 .. n, A)
            BY <2>1 DEF Surjection
        <3> HIDE DEF f, n
        <3> QED
            BY <3>1, <3>2, FS_Surjection
    <2>4. A \in SUBSET Nat /\ A # {}
        BY <1>1, <1>2, <1>3, <1>7, <2>1
    <2>5. B \in SUBSET Nat /\ B # {} /\ IsFiniteSet(B)
        BY <1>2, <2>2, <2>3, <2>4, FS_AddElement
    <2>6. Max(A) \in A /\ \A y \in A : Max(A) >= y
        BY <2>3, <2>4, MaxFacts
    <2>7. Max(B) \in B /\ \A y \in B : Max(B) >= y
        BY <2>5, MaxFacts
    <2>8. PICK a, b, t : a = Max(A) /\ b = Max(B) /\ t = x.total
        OBVIOUS
    <2>9. /\ a \in Nat /\ b \in Nat /\ t \in Nat
          /\ a \in B /\ t \in B /\ (b \in A \/ b = t)
        BY <1>2, <2>2, <2>4, <2>5, <2>6, <2>7, <2>8
    <2>10. b >= a /\ b >= t /\ (b <= a \/ b = t)
        BY <2>6, <2>7, <2>8, <2>9
    <2>11. b = Most(a, t)
        BY <2>9, <2>10 DEF Most
    <2>12. PeakOf(more, n + 1) = Max(B) /\ PeakOf(days, n) = Max(A)
        BY <1>5, <2>1, <2>2 DEF PeakOf
    <2> QED
        BY <2>8, <2>11, <2>12
<1>8. \A j \in 1 .. n : PeakOf(more, j) = PeakOf(days, j)
    BY <1>4 DEF PeakOf
<1> QED
    BY <1>6, <1>7, <1>8

\* The snapshot that is taken, and what becomes of the peak.
LEMMA SnapshotFacts ==
    ASSUME BacktestInv, RecordSnapshot
    PROVE  \E x \in SnapshotType :
             /\ snapshots' = Append(snapshots, x) /\ x.total = TotalValue
             /\ x.peak = Most(peak, TotalValue) /\ peak' = Most(peak, TotalValue)
<1> DEFINE valued == {s \in Held : bars[day][s] # None}
           g == [s \in valued |-> (bars[day][s].close - positions[s].entry) * positions[s].quantity]
           u == SumFunction(g)
           x == [day |-> day, total |-> TotalValue, cash |-> cash, peak |-> NewPeak,
                 unrealized |-> u, realized |-> dailyPnl, trades |-> dailyTrades, held |-> Held]
<1>1. snapshots' = Append(snapshots, x) /\ peak' = NewPeak /\ pc = "signals"
    BY DEF RecordSnapshot
<1>2. AccountOK /\ InputsOK /\ ControlOK /\ RecordsOK
    BY DEF BacktestInv, TypeInv
<1>3. TotalValue \in Nat
    BY <1>2, TotalFacts
<1>4. NewPeak = Most(peak, TotalValue) /\ peak \in Nat
    BY <1>2 DEF NewPeak, RecordsOK
<1>5. NewPeak \in Nat
    BY <1>3, <1>4 DEF Most
<1>6. day \in 1 .. LastDay
    BY <1>1, <1>2, BacktestAssumption DEF ControlOK
<1>7. Held \subseteq Symbols
    BY DEF Held
<1>8. IsFiniteSet(valued)
    BY <1>7, SettingsAssumption, FS_Subset
<1>9. \A s \in valued : g[s] \in Int
    <2> SUFFICES ASSUME NEW s \in valued PROVE g[s] \in Int
        OBVIOUS
    <2>1. positions[s] \in PositionType
        BY <1>2 DEF RecordsOK, Held
    <2>2. PICK e, q, c : e = positions[s].entry /\ q = positions[s].quantity /\ c = bars[day][s].close
        OBVIOUS
    <2>3. e \in Int /\ q \in Int
        BY <2>1, <2>2 DEF PositionType, Prices
    <2>4. c \in Int
        BY <1>2, <1>6, <1>7, <2>2, BarFacts DEF InputsOK
    <2>5. (c - e) * q \in Int
        BY <2>3, <2>4
    <2> QED
        BY <2>2, <2>5
<1>10. u \in Int
    <2>1. DOMAIN g = valued
        OBVIOUS
    <2> HIDE DEF g, valued
    <2> QED
        BY <1>8, <1>9, <2>1, SumRemove DEF SumFunction
<1>11. x \in SnapshotType
    <2>1. cash \in Nat /\ dailyPnl \in Int /\ dailyTrades \in Nat /\ Held \in SUBSET Symbols
        BY <1>2, <1>7 DEF AccountOK, RecordsOK
    <2> HIDE DEF u
    <2> QED
        BY <1>3, <1>5, <1>6, <1>10, <2>1 DEF SnapshotType
<1>12. x.total = TotalValue /\ x.peak = NewPeak
    OBVIOUS
<1> HIDE DEF x
<1> QED
    BY <1>1, <1>4, <1>11, <1>12

\* The day ends with its snapshot.
LEMMA RecordSnapshotInv == BacktestInv /\ RecordSnapshot => BacktestInv'
<1> SUFFICES ASSUME BacktestInv, RecordSnapshot PROVE BacktestInv'
    OBVIOUS
<1>1. /\ UNCHANGED <<cash, shares, value, bars, config, capital, plan, runs, day, positions>>
      /\ UNCHANGED <<pending, scan, dailyTrades, dailyPnl, closed, tradeCount, buyFees, row>>
    BY DEF RecordSnapshot, account, fixed, daily
<1>2. /\ pc = "signals"
      /\ \/ pc' = "close" /\ toExit' = {[symbol |-> s, reason |-> "backtest_end"] : s \in Held}
         \/ pc' = "day" /\ toExit' = {}
    BY DEF RecordSnapshot
<1>3. AccountOK /\ InputsOK /\ ControlOK /\ RecordsOK
    BY DEF BacktestInv, TypeInv
<1>4. PICK x \in SnapshotType :
             /\ snapshots' = Append(snapshots, x) /\ x.total = TotalValue
             /\ x.peak = Most(peak, TotalValue) /\ peak' = Most(peak, TotalValue)
    BY SnapshotFacts
<1>5. snapshots \in Seq(SnapshotType) /\ snapshots' \in Seq(SnapshotType) /\ snapshots' # <<>>
    BY <1>3, <1>4, AppendProperties DEF RecordsOK
<1>6. peak' \in Nat
    BY <1>3, <1>4, TotalFacts DEF Most, RecordsOK
<1>7. toExit' \subseteq ExitType
    BY <1>2 DEF ExitType, Reasons, Held
<1>8. TypeInv'
    <2>1. ControlOK'
        BY <1>1, <1>2, <1>3 DEF ControlOK, AllPcs, Trading, Fresh
    <2> QED
        BY <1>1, <1>3, <1>5, <1>6, <1>7, <2>1 DEF TypeInv, AccountOK, InputsOK, RecordsOK
<1>9. Held' = Held
    BY <1>1 DEF Held
<1>10. ExitInv'
    BY <1>1, <1>2, <1>9 DEF ExitInv
<1>11. RulesInv'
    BY <1>2 DEF RulesInv
<1>12. WaitingInv'
    BY <1>1, <1>2, <1>9 DEF BacktestInv, WaitingInv, Trading
<1>13. DaysInv'
    BY <1>1, <1>2, <1>9 DEF BacktestInv, DaysInv, NoSameDayRoundTrip, TrailingLocksGain, Trading
<1>14. BooksInv'
    BY <1>1, <1>2, <1>9 DEF BacktestInv, BooksInv, BooksAgree, Fresh
<1>15. PeakInv'
    <2> SUFFICES ASSUME runs = 0
                 PROVE  peak' = PeakUpTo(Len(snapshots))' /\ DrawdownsAgree'
        BY <1>1, <1>5 DEF PeakInv
    <2>1. PICK n : n = Len(snapshots)
        OBVIOUS
    <2>2. /\ n \in Nat /\ Len(snapshots') = n + 1 /\ DOMAIN snapshots = 1 .. n
          /\ DOMAIN snapshots' = 1 .. (n + 1)
          /\ \A i \in 1 .. n : snapshots'[i] = snapshots[i]
          /\ snapshots'[n + 1] = x
        BY <1>4, <1>5, <2>1
    <2>3. peak' = PeakOf(snapshots', n + 1)
        <3>1. CASE snapshots = <<>>
            <4>1. Held = {} /\ cash = InitialCapital /\ peak = InitialCapital
                BY <1>2, <3>1 DEF BacktestInv, PeakInv, Trading
            <4>2. \A s \in Symbols : shares[s] = 0
                BY <4>1 DEF BacktestInv, BooksInv, BooksAgree
            <4>3. TotalValue = cash
                BY <1>3, <4>2, TotalFacts
            <4>4. peak' = TotalValue
                BY <1>4, <4>1, <4>3 DEF Most
            <4> QED
                BY <1>4, <1>5, <2>1, <3>1, <4>4, PeakAppend
        <3>2. CASE snapshots # <<>>
            <4>1. peak = PeakOf(snapshots, n)
                BY <1>2, <2>1, <3>2 DEF BacktestInv, PeakInv, Trading, PeakUpTo, PeakOf
            <4> QED
                BY <1>4, <1>5, <2>1, <3>2, <4>1, PeakAppend
        <3> QED
            BY <3>1, <3>2
    <2>4. PeakUpTo(Len(snapshots))' = PeakOf(snapshots', n + 1)
        BY <2>2 DEF PeakUpTo, PeakOf
    <2>5. ASSUME NEW j \in DOMAIN snapshots' PROVE snapshots'[j].peak = PeakOf(snapshots', j)
        <3>1. CASE j = n + 1
            BY <1>4, <2>2, <2>3, <3>1
        <3>2. CASE j # n + 1
            <4>1. j \in 1 .. n
                BY <2>2, <3>2
            <4>2. snapshots[j].peak = PeakOf(snapshots, j)
                BY <2>2, <4>1 DEF BacktestInv, PeakInv, DrawdownsAgree, PeakUpTo, PeakOf
            <4>3. PeakOf(snapshots', j) = PeakOf(snapshots, j)
                BY <1>4, <1>5, <2>1, <4>1, PeakAppend
            <4> QED
                BY <2>2, <4>1, <4>2, <4>3
        <3> QED
            BY <3>1, <3>2
    <2>6. DrawdownsAgree'
        BY <2>5 DEF DrawdownsAgree, PeakUpTo, PeakOf
    <2> QED
        BY <2>3, <2>4, <2>6
<1>16. LedgerBalances'
    BY <1>1, <1>9 DEF BacktestInv, LedgerBalances
<1> QED
    BY <1>8, <1>10, <1>11, <1>12, <1>13, <1>14, <1>15, <1>16 DEF BacktestInv

---------------------------------------------------------------------------
(* A day                                                                   *)

\* The next date is a later day of the period.
LEMMA NextDate ==
    ASSUME BacktestInv, BeginDay, NEW d, d = Min(DatesLeft)
    PROVE  d \in 1 .. LastDay /\ day < d /\ day \in Nat
<1>1. pc = "day" /\ DatesLeft # {}
    BY DEF BeginDay
<1>2. plan \in Seq(SpanType) /\ plan # <<>> /\ day \in 0 .. LastDay
    BY <1>1 DEF BacktestInv, TypeInv, InputsOK, ControlOK, Trading
<1>3. Head(plan) \in SpanType
    BY <1>2, HeadFacts
<1>4. Head(plan).first \in 1 .. LastDay /\ Head(plan).last \in 1 .. LastDay /\ LastDay \in Nat
    BY <1>3, BacktestAssumption DEF SpanType
<1>5. \A e \in DatesLeft : e \in 1 .. LastDay /\ e > day
    BY <1>4 DEF DatesLeft, TradingDates
<1>6. DatesLeft \in SUBSET Nat
    BY <1>4, <1>5
<1>7. d \in DatesLeft
    BY <1>1, <1>6, MinFacts
<1> QED
    BY <1>2, <1>4, <1>5, <1>7

\* A check of the day raises.
DayRaises(d) ==
    \E s \in Held : bars[d][s] # None /\ TrailingStopRaises(positions[s], bars[d][s].close)

\* A new day changes the values of the holdings and the peaks of the positions.
LEMMA DayFacts ==
    ASSUME BacktestInv, BeginDay, NEW d, d = Min(DatesLeft)
    PROVE  /\ UNCHANGED <<cash, shares, bars, config, capital, plan, runs, pending, scan, peak>>
           /\ UNCHANGED <<snapshots, closed, tradeCount, buyFees, row>>
           /\ pc = "day" /\ day' = d /\ dailyTrades' = 0 /\ dailyPnl' = 0
           /\ d \in 1 .. LastDay /\ day < d /\ day \in Nat /\ LastDay \in Nat /\ d \in Nat
           /\ value' \in [Symbols -> Nat] /\ Held' = Held
           /\ positions' \in [Symbols -> PositionType \union {None}]
           /\ \A s \in Symbols : positions[s] # None =>
                /\ positions'[s].entry = positions[s].entry
                /\ positions'[s].entryDay = positions[s].entryDay
                /\ positions'[s].stop = positions[s].stop
                /\ positions'[s].target = positions[s].target
                /\ positions'[s].maxDays = positions[s].maxDays
           /\ BooksInv' /\ LedgerBalances'
<1>1. d = Min(DatesLeft)
    OBVIOUS
<1> DEFINE checked == {s \in Held : bars[d][s] # None}
<1>2. /\ UNCHANGED <<cash, shares, bars, config, capital, plan, runs, pending, scan, peak>>
      /\ UNCHANGED <<snapshots, closed, tradeCount, buyFees, row>>
    BY DEF BeginDay, fixed, records
<1>3. /\ pc = "day" /\ day' = d /\ dailyTrades' = 0 /\ dailyPnl' = 0
      /\ positions' = [s \in Symbols |->
           IF s \in checked
             THEN [positions[s] EXCEPT !.highest = Most(@, bars[d][s].close)]
             ELSE positions[s]]
      /\ value' = [s \in Symbols |-> IF shares[s] > 0 /\ bars[d][s] # None
                     THEN bars[d][s].close * shares[s] ELSE value[s]]
    BY <1>1 DEF BeginDay, Revalue
<1>4. d \in 1 .. LastDay /\ day < d /\ day \in Nat /\ LastDay \in Nat /\ d \in Nat
    BY <1>1, NextDate, BacktestAssumption
<1>5. AccountOK /\ InputsOK /\ ControlOK /\ RecordsOK
    BY DEF BacktestInv, TypeInv
<1>6. \A s \in Symbols : bars[d][s] # None =>
         bars[d][s].close \in Nat
    BY <1>4, <1>5, BarFacts DEF InputsOK
<1>7. value' \in [Symbols -> Nat]
    <2>1. ASSUME NEW s \in Symbols
          PROVE  (IF shares[s] > 0 /\ bars[d][s] # None
                    THEN bars[d][s].close * shares[s] ELSE value[s]) \in Nat
        BY <1>5, <1>6 DEF AccountOK
    <2> QED
        BY <1>3, <2>1
<1>8. \A s \in Held : positions[s] \in PositionType /\ s \in Symbols
    BY <1>5 DEF RecordsOK, Held
<1>9. ASSUME NEW s \in Symbols
      PROVE  /\ positions'[s] \in PositionType \union {None}
             /\ positions'[s] = None <=> positions[s] = None
             /\ positions[s] # None =>
                  /\ positions'[s].entry = positions[s].entry
                  /\ positions'[s].quantity = positions[s].quantity
                  /\ positions'[s].entryDay = positions[s].entryDay
                  /\ positions'[s].stop = positions[s].stop
                  /\ positions'[s].target = positions[s].target
                  /\ positions'[s].maxDays = positions[s].maxDays
                  /\ positions'[s].trailing = positions[s].trailing
    <2>1. CASE s \notin checked
        BY <1>3, <1>5, <2>1 DEF RecordsOK
    <2>2. CASE s \in checked
        <3>1. PICK p : p = positions[s]
            OBVIOUS
        <3>2. PICK h : h = Most(p.highest, bars[d][s].close)
            OBVIOUS
        <3>3. p \in PositionType
            BY <1>8, <2>2, <3>1
        <3>4. p.highest \in Nat
            BY <3>3 DEF PositionType
        <3>5. h \in Nat
            BY <1>6, <2>2, <3>2, <3>4 DEF Most
        <3>6. positions'[s] = [p EXCEPT !.highest = h]
            BY <1>3, <2>2, <3>1, <3>2
        <3>7. [p EXCEPT !.highest = h] \in PositionType
            BY <3>3, <3>5 DEF PositionType
        <3>8. /\ [p EXCEPT !.highest = h].entry = p.entry
              /\ [p EXCEPT !.highest = h].quantity = p.quantity
              /\ [p EXCEPT !.highest = h].entryDay = p.entryDay
              /\ [p EXCEPT !.highest = h].stop = p.stop
              /\ [p EXCEPT !.highest = h].target = p.target
              /\ [p EXCEPT !.highest = h].maxDays = p.maxDays
              /\ [p EXCEPT !.highest = h].trailing = p.trailing
            BY <3>3 DEF PositionType
        <3>9. positions'[s] # None /\ positions[s] # None
            BY <3>1, <3>3, <3>6, <3>7, ParametersAssumption
        <3> QED
            BY <3>1, <3>6, <3>7, <3>8, <3>9
    <2> QED
        BY <2>1, <2>2
<1>10. positions' \in [Symbols -> PositionType \union {None}]
    <2>1. DOMAIN positions' = Symbols /\ positions' = [s \in Symbols |-> positions'[s]]
        BY <1>3
    <2> QED
        BY <1>9, <2>1
<1>11. Held' = Held
    BY <1>9 DEF Held
<1>12. \A s \in Held : /\ positions[s] # None /\ s \in Symbols
                       /\ positions'[s].quantity = positions[s].quantity
                       /\ positions'[s].trailing = positions[s].trailing
    BY <1>9 DEF Held
<1>13. BooksInv'
    <2>1. pc' \in {"exits", "failed"} /\ (pc' = "failed" => DayRaises(d))
        BY <1>1 DEF BeginDay, DayRaises
    <2>2. DayRaises(d) => config.strategy = "position" /\ config.trailing <= 0
        BY DEF DayRaises, TrailingStopRaises, BacktestInv, BooksInv
    <2> QED
        BY <1>2, <1>11, <1>12, <2>1, <2>2 DEF BacktestInv, BooksInv, BooksAgree, Fresh
<1>14. LedgerBalances'
    <2>1. Cost(positions') = Cost(positions)
        BY <1>9, CostSame
    <2> QED
        BY <1>2, <2>1, LedgerForm, LedgerFormNext DEF BacktestInv
<1> QED
    BY <1>2, <1>3, <1>4, <1>7, <1>9, <1>10, <1>11, <1>13, <1>14

\* A day on which a check raises ends the run, with nothing sold.
LEMMA DayFailsInv ==
    ASSUME BacktestInv, BeginDay, DayRaises(Min(DatesLeft))
    PROVE  BacktestInv'
<1>1. PICK d : d = Min(DatesLeft)
    OBVIOUS
<1>2. pc' = "failed" /\ toExit' = {}
    BY DEF BeginDay, DayRaises
<1>3. /\ UNCHANGED <<cash, shares, bars, config, capital, plan, runs, pending, scan, peak>>
      /\ UNCHANGED <<snapshots, closed, tradeCount, buyFees, row>>
      /\ pc = "day" /\ day' = d /\ dailyTrades' = 0 /\ dailyPnl' = 0 /\ d \in 1 .. LastDay
      /\ value' \in [Symbols -> Nat] /\ Held' = Held
      /\ positions' \in [Symbols -> PositionType \union {None}]
      /\ \A s \in Symbols : positions[s] # None => positions'[s].entryDay = positions[s].entryDay
      /\ BooksInv' /\ LedgerBalances'
    BY <1>1, DayFacts
<1>4. AccountOK /\ InputsOK /\ ControlOK /\ RecordsOK
    BY DEF BacktestInv, TypeInv
<1>5. TypeInv'
    <2>1. ControlOK'
        BY <1>2, <1>3, <1>4 DEF ControlOK, AllPcs, Trading
    <2>2. RecordsOK'
        BY <1>2, <1>3, <1>4 DEF RecordsOK
    <2> QED
        BY <1>3, <1>4, <2>1, <2>2 DEF TypeInv, AccountOK, InputsOK
<1>6. (ExitInv /\ RulesInv /\ WaitingInv)'
    BY <1>2 DEF ExitInv, RulesInv, WaitingInv, Trading
<1>7. DaysInv'
    <2>1. NoSameDayRoundTrip'
        BY <1>3 DEF BacktestInv, DaysInv, NoSameDayRoundTrip, Held
    <2> QED
        BY <1>2, <1>3, <2>1 DEF BacktestInv, DaysInv, TrailingLocksGain, Trading
<1>8. PeakInv'
    <2>1. DrawdownsAgree' <=> DrawdownsAgree
        BY <1>3 DEF DrawdownsAgree, PeakUpTo
    <2> QED
        BY <1>2, <1>3, <2>1 DEF BacktestInv, PeakInv, Trading
<1> QED
    BY <1>3, <1>5, <1>6, <1>7, <1>8 DEF BacktestInv

\* Any other day begins with the exits it asks for.
LEMMA DayBeginsInv ==
    ASSUME BacktestInv, BeginDay, ~ DayRaises(Min(DatesLeft))
    PROVE  BacktestInv'
<1>1. PICK d : d = Min(DatesLeft)
    OBVIOUS
<1> DEFINE checked == {s \in Held : bars[d][s] # None}
<1>2. /\ UNCHANGED <<cash, shares, bars, config, capital, plan, runs, pending, scan, peak>>
      /\ UNCHANGED <<snapshots, closed, tradeCount, buyFees, row>>
    BY <1>1, DayFacts
<1>3. /\ pc = "day" /\ pc' = "exits" /\ day' = d /\ dailyTrades' = 0 /\ dailyPnl' = 0
      /\ toExit' = {[symbol |-> s, reason |-> ExitOf(s, d)] :
                      s \in {t \in checked : ExitOf(t, d) # None}}
    BY <1>1 DEF BeginDay, DayRaises
<1>4. d \in 1 .. LastDay /\ day < d /\ day \in Nat /\ LastDay \in Nat /\ d \in Nat
    BY <1>1, DayFacts
<1>5. AccountOK /\ InputsOK /\ ControlOK /\ RecordsOK
    BY DEF BacktestInv, TypeInv
<1>6. \A s \in Symbols : bars[d][s] # None => bars[d][s].close \in Nat
    BY <1>4, <1>5, BarFacts DEF InputsOK
<1>7. value' \in [Symbols -> Nat]
    BY <1>1, DayFacts
<1>8. \A s \in Held : positions[s] \in PositionType /\ s \in Symbols
    BY <1>5 DEF RecordsOK, Held
<1>9. \A s \in Symbols : positions[s] # None =>
        /\ positions'[s].entry = positions[s].entry
        /\ positions'[s].entryDay = positions[s].entryDay
        /\ positions'[s].stop = positions[s].stop
        /\ positions'[s].target = positions[s].target
        /\ positions'[s].maxDays = positions[s].maxDays
    BY <1>1, DayFacts
<1>10. positions' \in [Symbols -> PositionType \union {None}]
    BY <1>1, DayFacts
<1>11. Held' = Held
    BY <1>1, DayFacts
<1>12. ASSUME NEW s \in checked
       PROVE  /\ ExitOf(s, d) \in ExitReasons \union {None}
              /\ ExitOf(s, d) = None =>
                   /\ bars[d][s].close > positions[s].stop
                   /\ bars[d][s].close < positions[s].target
                   /\ d - positions[s].entryDay < positions[s].maxDays
              /\ ExitOf(s, d) = "trailing_stop" =>
                   bars[d][s].close > positions[s].entry
    <2>1. PICK p, price, highest, reason :
             /\ p = positions[s] /\ price = bars[d][s].close
             /\ highest = Most(positions[s].highest, bars[d][s].close) /\ reason = ExitOf(s, d)
        OBVIOUS
    <2>2. reason = BacktestExit(p, price, highest, d)
        BY <2>1 DEF ExitOf
    <2>3. p \in PositionType /\ price \in Nat
        BY <1>6, <1>8, <2>1
    <2>4. p.entryDay \in Nat /\ p.maxDays \in Nat
        BY <1>4, <2>3 DEF PositionType
    <2>5. /\ reason \in ExitReasons \union {None}
          /\ reason = None => /\ price > p.stop /\ price < p.target
                              /\ ~ (d - p.entryDay >= p.maxDays)
          /\ reason = "trailing_stop" => TrailingStopRaises(p, price) \/ price > p.entry
        BY <2>2, <2>3, ExitFacts
    <2>6. reason = None => d - p.entryDay < p.maxDays
        BY <1>4, <2>4, <2>5
    <2>7. ~ TrailingStopRaises(p, price)
        BY <1>1, <2>1 DEF DayRaises
    <2> QED
        BY <2>1, <2>5, <2>6, <2>7
<1>13. \A x \in toExit' :
         /\ x.symbol \in checked /\ x.reason = ExitOf(x.symbol, d) /\ x.reason # None
         /\ x = [symbol |-> x.symbol, reason |-> x.reason]
    BY <1>3
<1>14. checked \subseteq Held /\ Held \subseteq Symbols
    BY DEF Held
<1>15. toExit' \subseteq ExitType
    <2> SUFFICES ASSUME NEW x \in toExit' PROVE x \in ExitType
        OBVIOUS
    <2>1. x.symbol \in Symbols /\ x.reason \in ExitReasons
        BY <1>12, <1>13, <1>14
    <2> QED
        BY <1>13, <2>1 DEF ExitType, Reasons
<1> HIDE DEF checked
<1>16. TypeInv'
    <2>1. AccountOK' /\ InputsOK'
        BY <1>2, <1>5, <1>7 DEF AccountOK, InputsOK
    <2>2. ControlOK'
        BY <1>2, <1>3, <1>4, <1>5 DEF ControlOK, AllPcs, Trading
    <2>3. RecordsOK'
        BY <1>2, <1>3, <1>5, <1>10, <1>15 DEF RecordsOK
    <2> QED
        BY <2>1, <2>2, <2>3 DEF TypeInv
<1>17. ExitInv'
    <2>1. \A x \in toExit' : x.symbol \in Held'
        BY <1>11, <1>13, <1>14
    <2>2. \A x, y \in toExit' : x.symbol = y.symbol => x = y
        BY <1>13
    <2>3. ASSUME NEW x \in toExit'
          PROVE  /\ x.reason # "backtest_end"
                 /\ x.reason = "trailing_stop" =>
                      bars'[day'][x.symbol].close > positions'[x.symbol].entry
        <3>1. x.reason \in ExitReasons
            BY <1>12, <1>13
        <3>2. x.reason # "backtest_end"
            BY <3>1 DEF ExitReasons
        <3>3. positions'[x.symbol].entry = positions[x.symbol].entry
            BY <1>9, <1>13, <1>14 DEF Held
        <3> QED
            BY <1>2, <1>3, <1>12, <1>13, <3>2, <3>3
    <2> QED
        BY <1>3, <2>1, <2>2, <2>3 DEF ExitInv
<1>18. RulesInv'
    <2>1. ASSUME NEW s \in Held', ~ \E x \in toExit' : x.symbol = s
          PROVE  Within(s)'
        <3>1. s \in Held /\ s \in Symbols /\ positions[s] # None
            BY <1>11, <2>1 DEF Held
        <3>2. CASE bars[d][s] = None
            BY <1>2, <1>3, <3>2 DEF Within
        <3>3. CASE bars[d][s] # None
            <4>1. s \in checked
                BY <3>1, <3>3 DEF checked
            <4>2. ExitOf(s, d) = None
                <5> SUFFICES ASSUME ExitOf(s, d) # None PROVE FALSE
                    OBVIOUS
                <5>1. [symbol |-> s, reason |-> ExitOf(s, d)] \in toExit'
                    BY <1>3, <4>1
                <5> QED
                    BY <2>1, <5>1
            <4>3. /\ bars[d][s].close > positions[s].stop
                  /\ bars[d][s].close < positions[s].target
                  /\ d - positions[s].entryDay < positions[s].maxDays
                BY <1>12, <4>1, <4>2
            <4> QED
                BY <1>2, <1>3, <1>9, <3>1, <4>3 DEF Within
        <3> QED
            BY <3>2, <3>3
    <2>2. \A x \in toExit' : bars'[day'][x.symbol] # None
        BY <1>2, <1>3, <1>13 DEF checked
    <2> QED
        BY <1>3, <2>1, <2>2 DEF RulesInv
<1>19. \A i \in DOMAIN closed : closed[i].exitDay \in Nat /\ closed[i].exitDay < d
    <2> SUFFICES ASSUME NEW i \in DOMAIN closed
                 PROVE  closed[i].exitDay \in Nat /\ closed[i].exitDay < d
        OBVIOUS
    <2>1. closed[i] \in ClosedType
        BY <1>5 DEF RecordsOK
    <2>2. closed[i].exitDay \in Nat
        BY <1>4, <2>1 DEF ClosedType
    <2>3. closed[i].exitDay <= day
        BY <1>3 DEF BacktestInv, DaysInv, Trading
    <2> QED
        BY <1>4, <2>2, <2>3
<1>20. WaitingInv'
    BY <1>2, <1>3, <1>11, <1>19 DEF BacktestInv, WaitingInv, Trading
<1>21. DaysInv'
    <2>1. \A s \in Held : positions'[s].entryDay = positions[s].entryDay
        BY <1>9, <1>14 DEF Held
    <2>2. \A s \in Held : positions[s].entryDay < d
        <3> SUFFICES ASSUME NEW s \in Held PROVE positions[s].entryDay < d
            OBVIOUS
        <3>1. positions[s].entryDay \in Nat
            BY <1>4, <1>8 DEF PositionType
        <3>2. positions[s].entryDay <= day
            BY <1>3 DEF BacktestInv, DaysInv, Trading
        <3> QED
            BY <1>4, <3>1, <3>2
    <2>3. \A s \in Held : positions[s].entryDay <= d
        <3> SUFFICES ASSUME NEW s \in Held PROVE positions[s].entryDay <= d
            OBVIOUS
        <3>1. positions[s].entryDay \in Nat
            BY <1>4, <1>8 DEF PositionType
        <3> QED
            BY <1>4, <2>2, <3>1
    <2>4. NoSameDayRoundTrip'
        BY <1>2, <1>11, <2>1 DEF BacktestInv, DaysInv, NoSameDayRoundTrip
    <2>5. TrailingLocksGain'
        BY <1>2 DEF BacktestInv, DaysInv, TrailingLocksGain
    <2>6. \A i \in DOMAIN closed : closed[i].exitDay <= d
        BY <1>4, <1>19
    <2> QED
        BY <1>2, <1>3, <1>11, <2>1, <2>2, <2>3, <2>4, <2>5, <2>6 DEF DaysInv
<1>22. BooksInv' /\ LedgerBalances'
    BY <1>1, DayFacts
<1>23. PeakInv'
    <2>1. DrawdownsAgree' <=> DrawdownsAgree
        BY <1>2 DEF DrawdownsAgree, PeakUpTo
    <2>2. PeakUpTo(Len(snapshots))' = PeakUpTo(Len(snapshots))
        BY <1>2 DEF PeakUpTo
    <2> QED
        BY <1>2, <1>3, <1>11, <2>1, <2>2 DEF BacktestInv, PeakInv, Trading
<1> QED
    BY <1>16, <1>17, <1>18, <1>20, <1>21, <1>22, <1>23 DEF BacktestInv

LEMMA BeginDayInv == BacktestInv /\ BeginDay => BacktestInv'
BY DayFailsInv, DayBeginsInv

\* The quantity the risk check leaves is a number.
LEMMA RiskCheckFacts ==
    ASSUME AccountOK, NEW s, NEW quantity \in Nat, NEW price \in Prices
    PROVE  RiskCheck(s, quantity, price) \in Int
<1>1. price \in Nat \ {0} /\ 100 * price \in Nat \ {0} /\ cash \in Int
    BY DEF Prices, AccountOK
<1>2. TotalValue \in Nat
    BY TotalFacts
<1>3. TotalValue * MAX_POSITION_PCT \in Int /\ MAX_POSITION_SIZE_KRW \in Int
    BY <1>2, SettingsAssumption
<1>4. PICK a, b, c : /\ a = Room(TotalValue * MAX_POSITION_PCT, 0, 100 * price)
                     /\ b = Room(MAX_POSITION_SIZE_KRW, 0, price)
                     /\ c = Room(cash, 0, price)
    OBVIOUS
<1>5. a \in Int /\ b \in Int /\ c \in Int
    BY <1>1, <1>3, <1>4, RoomFacts
<1>6. Least(quantity, Least(a, Least(b, c))) \in Int
    BY <1>5 DEF Least
<1>7. \/ RiskCheck(s, quantity, price) = 0
      \/ RiskCheck(s, quantity, price) = Least(quantity, Least(a, Least(b, c)))
    BY <1>4 DEF RiskCheck
<1> QED
    BY <1>6, <1>7

\* What is left of the signals when the first is taken off.
LEMMA TailFacts ==
    ASSUME BacktestInv, pc = "entries", pending # <<>>
    PROVE  /\ Head(pending) \in SignalType /\ Tail(pending) \in Seq(SignalType)
           /\ Head(pending).symbol \notin Held
           /\ \A i \in DOMAIN closed :
                closed[i].symbol = Head(pending).symbol => closed[i].exitDay < day
           /\ \A i \in DOMAIN Tail(pending) :
                /\ i + 1 \in DOMAIN pending /\ Tail(pending)[i] = pending[i + 1]
                /\ Tail(pending)[i].symbol # Head(pending).symbol
<1>1. pending \in Seq(SignalType)
    BY DEF BacktestInv, TypeInv, RecordsOK
<1>2. PICK n : n = Len(pending)
    OBVIOUS
<1>3. n \in Nat \ {0} /\ DOMAIN pending = 1 .. n /\ Head(pending) = pending[1] /\ 1 \in 1 .. n
    BY <1>1, <1>2
<1>4. /\ Tail(pending) \in Seq(SignalType) /\ DOMAIN Tail(pending) = 1 .. (n - 1)
      /\ \A i \in 1 .. (n - 1) : Tail(pending)[i] = pending[i + 1]
    BY <1>1, <1>2, HeadTailProperties
<1>5. /\ \A i \in DOMAIN pending : pending[i].symbol \notin Held
      /\ \A i, j \in DOMAIN pending : pending[i].symbol = pending[j].symbol => i = j
      /\ \A i \in DOMAIN closed : \A j \in DOMAIN pending :
               closed[i].symbol = pending[j].symbol => closed[i].exitDay < day
    BY DEF BacktestInv, WaitingInv, Trading
<1>6. \A i \in 1 .. (n - 1) : i + 1 \in 1 .. n /\ i + 1 # 1
    BY <1>3
<1>7. Head(pending) \in SignalType
    BY <1>1, <1>3
<1> QED
    BY <1>3, <1>4, <1>5, <1>6, <1>7

\* An entry at the open: what the buy costs leaves the cash and is a cost of the
\* position.
LEMMA ExecutePendingInv == BacktestInv /\ ExecutePending => BacktestInv'
<1> SUFFICES ASSUME BacktestInv, ExecutePending PROVE BacktestInv'
    OBVIOUS
<1>1. /\ UNCHANGED <<bars, config, capital, plan, runs, pc, day, toExit, scan, dailyPnl, peak>>
      /\ UNCHANGED <<snapshots, closed, row>>
    BY DEF ExecutePending, fixed
<1>2. pc = "entries" /\ pending # <<>> /\ pending' = Tail(pending)
    BY DEF ExecutePending
<1>3. AccountOK /\ InputsOK /\ ControlOK /\ RecordsOK
    BY DEF BacktestInv, TypeInv
<1>4. day \in 1 .. LastDay /\ LastDay \in Nat /\ day \in Nat
    BY <1>2, <1>3, BacktestAssumption DEF ControlOK
<1>5. PICK signal : signal = Head(pending)
    OBVIOUS
<1>6. PICK s : s = signal.symbol
    OBVIOUS
<1>7. signal \in SignalType /\ s \in Symbols /\ s \notin Held
    BY <1>2, <1>5, <1>6, TailFacts DEF SignalType
<1>8. \A i \in DOMAIN pending' : /\ i + 1 \in DOMAIN pending /\ pending'[i] = pending[i + 1]
                                 /\ pending'[i].symbol # s
    BY <1>2, <1>5, <1>6, TailFacts
<1>9. pending' \in Seq(SignalType)
    BY <1>2, TailFacts
<1>10. DrawdownsAgree' /\ PeakInv'
    <2>1. DrawdownsAgree' <=> DrawdownsAgree
        BY <1>1 DEF DrawdownsAgree, PeakUpTo
    <2>2. PeakUpTo(Len(snapshots))' = PeakUpTo(Len(snapshots))
        BY <1>1 DEF PeakUpTo
    <2>3. runs = 0 => snapshots # <<>>
        BY <1>2 DEF BacktestInv, PeakInv, Trading
    <2> QED
        BY <1>1, <1>2, <2>1, <2>2, <2>3 DEF BacktestInv, PeakInv, DrawdownsAgree
<1>11. ExitInv'
    BY <1>1, <1>2 DEF ExitInv
<1>12. \A i \in DOMAIN pending' : pending'[i].symbol \notin Held
    BY <1>2, <1>8 DEF BacktestInv, WaitingInv, Trading
<1>13. \A i, j \in DOMAIN pending' : pending'[i].symbol = pending'[j].symbol => i = j
    <2> SUFFICES ASSUME NEW i \in DOMAIN pending', NEW j \in DOMAIN pending',
                        pending'[i].symbol = pending'[j].symbol
                 PROVE  i = j
        OBVIOUS
    <2>1. i + 1 = j + 1
        BY <1>2, <1>8 DEF BacktestInv, WaitingInv, Trading
    <2>2. i \in Nat /\ j \in Nat
        BY <1>9
    <2> QED
        BY <2>1, <2>2
<1>14. \A i \in DOMAIN closed : \A j \in DOMAIN pending' :
               closed[i].symbol = pending'[j].symbol => closed[i].exitDay < day
    BY <1>2, <1>8 DEF BacktestInv, WaitingInv, Trading
<1>15. CASE UNCHANGED <<cash, shares, value, positions, dailyTrades, tradeCount, buyFees>>
    <2>1. TypeInv'
        BY <1>1, <1>3, <1>9, <1>15 DEF TypeInv, AccountOK, InputsOK, ControlOK, RecordsOK
    <2>2. Held' = Held
        BY <1>15 DEF Held
    <2>3. RulesInv'
        BY <1>1, <1>2, <1>15, <2>2 DEF BacktestInv, RulesInv, Within
    <2>4. WaitingInv'
        BY <1>1, <1>12, <1>13, <1>14, <2>2 DEF WaitingInv
    <2>5. DaysInv' /\ BooksInv'
        BY <1>1, <1>2, <1>15, <2>2
        DEF BacktestInv, DaysInv, BooksInv, BooksAgree, NoSameDayRoundTrip, TrailingLocksGain
    <2>6. LedgerBalances'
        BY <1>1, <1>15, <2>2 DEF BacktestInv, LedgerBalances
    <2> QED
        BY <1>10, <1>11, <2>1, <2>3, <2>4, <2>5, <2>6 DEF BacktestInv
<1>16. PICK price, quantity : /\ price = SlippedPrice(bars[day][s].open)
                              /\ quantity = RiskCheck(s, signal.quantity, bars[day][s].open)
    OBVIOUS
<1>17. CASE /\ bars[day][s] # None /\ quantity > 0 /\ CanBuy(price, quantity)
            /\ ExecuteBuy(s, price, quantity)
            /\ positions' = [positions EXCEPT ![s] = NewPosition(signal, quantity, price)]
            /\ dailyTrades' = dailyTrades + 1
            /\ tradeCount' = tradeCount + 1
            /\ buyFees' = buyFees + BuyCommission(price * quantity)
    <2>1. bars[day][s].open \in Prices
        BY <1>3, <1>4, <1>7, <1>17, BarFacts DEF InputsOK
    <2>2. price \in Nat \ {0}
        BY <1>16, <2>1, SlippedFacts
    <2>3. quantity \in Int
        BY <1>3, <1>7, <1>16, <2>1, RiskCheckFacts DEF SignalType
    <2>4. quantity \in Nat \ {0}
        BY <1>17, <2>3
    <2>5. PICK amount, fee : amount = price * quantity /\ fee = BuyCommission(price * quantity)
        OBVIOUS
    <2>6. amount \in Nat /\ fee \in Nat
        BY <2>2, <2>4, <2>5, CommissionFacts
    <2>7. cash \in Nat /\ cash' = cash - (amount + fee) /\ amount + fee <= cash
        BY <1>3, <1>17, <2>5 DEF CanBuy, BuyCost, ExecuteBuy, AccountOK
    <2>8. cash' \in Nat
        BY <2>6, <2>7
    <2>9. /\ shares' = [shares EXCEPT ![s] = shares[s] + quantity]
          /\ value' = [value EXCEPT ![s] = price * (shares[s] + quantity)]
        BY <1>17 DEF ExecuteBuy
    <2>10. AccountOK'
        <3>1. shares[s] + quantity \in Nat
            BY <1>3, <1>7, <2>4 DEF AccountOK
        <3>2. price * (shares[s] + quantity) \in Nat
            BY <2>2, <3>1
        <3> QED
            BY <1>3, <2>8, <2>9, <3>1, <3>2 DEF AccountOK
    <2>11. PICK p : p = NewPosition(signal, quantity, price)
        OBVIOUS
    <2>12. /\ p.quantity = quantity /\ p.entry = price /\ p.entryDay = day
        BY <2>11 DEF NewPosition
    <2>13. p \in PositionType
        <3>1. signal.stop \in Nat /\ signal.target \in Nat
            BY <1>7 DEF SignalType
        <3>2. MaxDays[config.strategy] \in Nat
            BY <1>3, BacktestAssumption, ParametersAssumption DEF InputsOK
        <3>3. config.trailing \in Int
            BY <1>3, BacktestAssumption DEF InputsOK
        <3> QED
            BY <1>4, <2>2, <2>4, <2>11, <3>1, <3>2, <3>3 DEF NewPosition, PositionType, Prices
    <2>14. p # None /\ positions' = [positions EXCEPT ![s] = p]
        BY <1>17, <2>11, <2>13, ParametersAssumption
    <2>15. positions \in [Symbols -> PositionType \union {None}]
        BY <1>3 DEF RecordsOK
    <2>16. /\ positions' \in [Symbols -> PositionType \union {None}]
           /\ positions'[s] = p /\ \A t \in Symbols : t # s => positions'[t] = positions[t]
        BY <1>7, <2>13, <2>14, <2>15
    <2>17. Held' = Held \union {s}
        BY <1>7, <2>14, <2>16 DEF Held
    <2>18. TypeInv'
        <3>1. InputsOK' /\ ControlOK'
            BY <1>1, <1>3 DEF InputsOK, ControlOK
        <3>2. dailyTrades' \in Nat /\ tradeCount' \in Nat /\ buyFees' \in Nat
            BY <1>3, <1>17, <2>5, <2>6 DEF RecordsOK
        <3>3. RecordsOK'
            BY <1>1, <1>3, <1>9, <2>16, <3>2 DEF RecordsOK
        <3> QED
            BY <2>10, <3>1, <3>3 DEF TypeInv
    <2>19. \A t \in Held : t # s /\ t \in Symbols /\ positions'[t] = positions[t]
        BY <1>7, <2>16 DEF Held
    <2>20. RulesInv'
        <3>1. \A t \in Held : Within(t)' <=> Within(t)
            BY <1>1, <2>19 DEF Within
        <3>2. \A t \in Held : positions[t].entryDay < day => Within(t)
            BY <1>2 DEF BacktestInv, RulesInv
        <3>3. ~ (positions'[s].entryDay < day)
            BY <1>4, <2>12, <2>16
        <3>4. \A t \in Held' : positions'[t].entryDay < day' => Within(t)'
            BY <1>1, <2>17, <2>19, <3>1, <3>2, <3>3
        <3> QED
            BY <1>1, <1>2, <3>4 DEF RulesInv
    <2>21. WaitingInv'
        BY <1>1, <1>8, <1>12, <1>13, <1>14, <2>17 DEF WaitingInv
    <2>22. DaysInv'
        <3>1. \A t \in Held' : positions'[t].entryDay <= day
            BY <1>2, <1>4, <2>12, <2>16, <2>17, <2>19 DEF BacktestInv, DaysInv, Trading
        <3>2. \A i \in DOMAIN closed : closed[i].symbol = s => closed[i].exitDay < day
            BY <1>2, <1>5, <1>6, TailFacts
        <3>3. \A i \in DOMAIN closed : closed[i].symbol = s => day > closed[i].exitDay
            <4> SUFFICES ASSUME NEW i \in DOMAIN closed, closed[i].symbol = s
                         PROVE  day > closed[i].exitDay
                OBVIOUS
            <4>1. closed[i] \in ClosedType
                BY <1>3 DEF RecordsOK
            <4>2. closed[i].exitDay \in Nat
                BY <1>4, <4>1 DEF ClosedType
            <4> QED
                BY <1>4, <3>2, <4>2
        <3>4. NoSameDayRoundTrip'
            BY <1>1, <2>12, <2>16, <2>17, <2>19, <3>3 DEF BacktestInv, DaysInv, NoSameDayRoundTrip
        <3>5. TrailingLocksGain'
            BY <1>1 DEF BacktestInv, DaysInv, TrailingLocksGain
        <3> QED
            BY <1>1, <1>2, <3>1, <3>4, <3>5 DEF BacktestInv, DaysInv, Trading
    <2>23. BooksInv'
        <3>1. /\ shares'[s] = shares[s] + quantity
              /\ \A t \in Symbols : t # s => shares'[t] = shares[t]
            BY <1>3, <1>7, <2>9 DEF AccountOK
        <3>2. IF runs = 0 THEN shares[s] = 0 ELSE shares[s] >= 0
            BY <1>7 DEF BacktestInv, BooksInv, BooksAgree
        <3>3. IF runs = 0 THEN shares'[s] = quantity ELSE shares'[s] >= quantity
            BY <1>3, <1>7, <2>4, <3>1, <3>2 DEF AccountOK
        <3>4. ASSUME NEW t \in Symbols
              PROVE  LET own == IF t \in Held' THEN positions'[t].quantity ELSE 0
                     IN  IF runs' = 0 THEN shares'[t] = own ELSE shares'[t] >= own
            <4>1. CASE t = s
                BY <1>1, <2>12, <2>16, <2>17, <3>3, <4>1
            <4>2. CASE t # s
                BY <1>1, <2>17, <2>19, <3>1, <4>2 DEF BacktestInv, BooksInv, BooksAgree
            <4> QED
                BY <4>1, <4>2
        <3>5. p.trailing # None => config.strategy = "position" /\ p.trailing = config.trailing
            BY <2>11 DEF NewPosition
        <3>6. \A t \in Held' : positions'[t].trailing # None =>
                 config'.strategy = "position" /\ positions'[t].trailing = config'.trailing
            BY <1>1, <2>16, <2>17, <2>19, <3>5 DEF BacktestInv, BooksInv
        <3> QED
            BY <1>1, <1>2, <3>4, <3>6 DEF BooksInv, BooksAgree, Fresh
    <2>24. LedgerBalances'
        <3>1. [positions' EXCEPT ![s] = None] = positions
            BY <1>7, <2>14, <2>15 DEF Held
        <3>2. Cost(positions') = amount + Cost(positions)
            BY <1>7, <2>5, <2>12, <2>14, <2>16, <3>1, CostFacts DEF Books
        <3>3. Cost(positions) \in Int /\ Profit(closed) \in Int /\ capital \in Nat /\ buyFees \in Nat
            BY <1>3, <2>15, CostFacts, ProfitFacts DEF Books, RecordsOK
        <3>4. cash + Cost(positions) = capital + Profit(closed) - buyFees
            BY LedgerForm DEF BacktestInv
        <3>5. cash' + Cost(positions') = capital + Profit(closed) - (buyFees + fee)
            BY <2>6, <2>7, <3>2, <3>3, <3>4
        <3> QED
            BY <1>1, <1>17, <2>5, <3>5, LedgerFormNext
    <2> QED
        BY <1>10, <1>11, <2>18, <2>20, <2>21, <2>22, <2>23, <2>24 DEF BacktestInv
<1> QED
    <2>1. \/ UNCHANGED <<cash, shares, value, positions, dailyTrades, tradeCount, buyFees>>
          \/ /\ bars[day][s] # None /\ quantity > 0 /\ CanBuy(price, quantity)
             /\ ExecuteBuy(s, price, quantity)
             /\ positions' = [positions EXCEPT ![s] = NewPosition(signal, quantity, price)]
             /\ dailyTrades' = dailyTrades + 1
             /\ tradeCount' = tradeCount + 1
             /\ buyFees' = buyFees + BuyCommission(price * quantity)
        BY <1>5, <1>6, <1>16 DEF ExecutePending, account
    <2> QED
        BY <1>15, <1>17, <2>1

\* An exit: what the sale brings is the cost of the position and the profit of
\* the trade.
LEMMA ExecuteExitInv ==
    ASSUME BacktestInv, NEW x \in toExit, ExecuteExit(x)
    PROVE  BacktestInv'
<1>1. /\ UNCHANGED <<bars, config, capital, plan, runs, day, pending, scan, row>>
      /\ pc \in {"exits", "close"} /\ toExit' = toExit \ {x}
    BY DEF ExecuteExit, fixed
<1>2. AccountOK /\ InputsOK /\ ControlOK /\ RecordsOK
    BY DEF BacktestInv, TypeInv
<1>3. day \in 1 .. LastDay /\ LastDay \in Nat /\ day \in Nat
    BY <1>1, <1>2, BacktestAssumption DEF ControlOK
<1>4. PICK s : s = x.symbol
    OBVIOUS
<1>5. x \in ExitType /\ s \in Held /\ s \in Symbols
    BY <1>1, <1>2, <1>4 DEF BacktestInv, ExitInv, RecordsOK, Held
<1>6. PICK p : p = positions[s]
    OBVIOUS
<1>7. p \in PositionType /\ positions \in [Symbols -> PositionType \union {None}]
    BY <1>2, <1>5, <1>6 DEF RecordsOK, Held
<1>8. p.quantity \in Nat \ {0} /\ p.entry \in Nat /\ p.entryDay \in 1 .. LastDay
    BY <1>7 DEF PositionType, Prices
<1>9. shares[s] \in Nat /\ shares[s] >= p.quantity
    BY <1>2, <1>5, <1>6, <1>8 DEF BacktestInv, BooksInv, BooksAgree, AccountOK
<1>10. CanSell(s, p.quantity)
    BY <1>8, <1>9 DEF CanSell
<1>11. pc' = pc
    BY <1>4, <1>6, <1>10 DEF ExecuteExit
<1>12. runs = 0 => snapshots # <<>>
    BY <1>1, <1>5 DEF BacktestInv, PeakInv, Trading
<1>13. CASE UNCHANGED <<cash, shares, value, positions, dailyTrades, dailyPnl, peak, snapshots,
                        closed, tradeCount, buyFees>> /\ bars[day][s] = None
    <2>1. TypeInv'
        BY <1>1, <1>2, <1>11, <1>13 DEF TypeInv, AccountOK, InputsOK, ControlOK, RecordsOK
    <2>2. Held' = Held
        BY <1>13 DEF Held
    <2>3. pc = "close"
        BY <1>1, <1>4, <1>13 DEF BacktestInv, RulesInv
    <2>4. ExitInv'
        BY <1>1, <1>11, <2>2, <2>3 DEF BacktestInv, ExitInv
    <2>5. RulesInv' /\ WaitingInv'
        BY <1>11, <2>3 DEF RulesInv, WaitingInv
    <2>6. DaysInv' /\ BooksInv'
        BY <1>1, <1>11, <1>13, <2>2
        DEF BacktestInv, DaysInv, BooksInv, BooksAgree, NoSameDayRoundTrip, TrailingLocksGain
    <2>7. PeakInv'
        <3>1. DrawdownsAgree' <=> DrawdownsAgree
            BY <1>1, <1>13 DEF DrawdownsAgree, PeakUpTo
        <3>2. PeakUpTo(Len(snapshots))' = PeakUpTo(Len(snapshots))
            BY <1>13 DEF PeakUpTo
        <3> QED
            BY <1>1, <1>11, <1>12, <1>13, <3>1, <3>2 DEF BacktestInv, PeakInv
    <2>8. LedgerBalances'
        BY <1>1, <1>13, <2>2 DEF BacktestInv, LedgerBalances
    <2> QED
        BY <2>1, <2>4, <2>5, <2>6, <2>7, <2>8 DEF BacktestInv
<1>14. PICK close : close = bars[day][s].close
    OBVIOUS
<1>15. PICK pnl : pnl = (close - p.entry) * p.quantity - SellCommission(close * p.quantity)
    OBVIOUS
<1> DEFINE trade == [symbol |-> s, entry |-> p.entry, entryDay |-> p.entryDay,
                     exit |-> close, exitDay |-> day, reason |-> x.reason, pnl |-> pnl]
<1>16. CASE /\ bars[day][s] # None
            /\ ExecuteSell(s, close, p.quantity)
            /\ positions' = [positions EXCEPT ![s] = None]
            /\ closed' = Append(closed, trade)
            /\ dailyPnl' = dailyPnl + pnl
            /\ dailyTrades' = dailyTrades + 1
            /\ tradeCount' = tradeCount + 1
            /\ UNCHANGED <<peak, snapshots, buyFees>>
    <2>1. close \in Nat
        BY <1>2, <1>3, <1>5, <1>14, <1>16, BarFacts DEF InputsOK
    <2>2. PICK amount, fee, cost : /\ amount = close * p.quantity /\ cost = p.entry * p.quantity
                                   /\ fee = SellCommission(close * p.quantity)
        OBVIOUS
    <2>3. amount \in Nat /\ cost \in Nat
        BY <1>8, <2>1, <2>2
    <2>4. fee \in Nat /\ fee <= amount
        BY <2>2, <2>3, CommissionFacts
    <2>5. (close - p.entry) * p.quantity = amount - cost
        BY <1>8, <2>1, <2>2
    <2>6. pnl = amount - cost - fee
        BY <1>15, <2>2, <2>5
    <2>7. pnl \in Int
        BY <2>3, <2>4, <2>6
    <2>8. cash \in Nat /\ cash' = cash + amount - fee
        BY <1>2, <1>16, <2>2 DEF ExecuteSell, AccountOK
    <2>9. /\ shares' = [shares EXCEPT ![s] = shares[s] - p.quantity]
          /\ value' = [value EXCEPT ![s] = close * (shares[s] - p.quantity)]
        BY <1>16 DEF ExecuteSell
    <2>10. AccountOK'
        <3>1. shares[s] - p.quantity \in Nat
            BY <1>8, <1>9
        <3>2. close * (shares[s] - p.quantity) \in Nat
            BY <2>1, <3>1
        <3>3. cash' \in Nat
            BY <2>3, <2>4, <2>8
        <3> QED
            BY <1>2, <2>9, <3>1, <3>2, <3>3 DEF AccountOK
    <2>11. x.reason \in Reasons
        BY <1>5 DEF ExitType
    <2>12. trade \in ClosedType
        BY <1>3, <1>5, <1>8, <2>1, <2>7, <2>11 DEF ClosedType
    <2>13. /\ trade.symbol = s /\ trade.entry = p.entry /\ trade.entryDay = p.entryDay
           /\ trade.exit = close /\ trade.exitDay = day /\ trade.reason = x.reason
           /\ trade.pnl = pnl
        OBVIOUS
    <2> HIDE DEF trade
    <2>14. closed \in Seq(ClosedType)
        BY <1>2 DEF RecordsOK
    <2>15. PICK n : n = Len(closed)
        OBVIOUS
    <2>16. /\ n \in Nat /\ DOMAIN closed = 1 .. n /\ DOMAIN closed' = 1 .. (n + 1)
           /\ \A i \in 1 .. n : closed'[i] = closed[i]
           /\ closed'[n + 1] = trade /\ closed' \in Seq(ClosedType)
        BY <1>16, <2>12, <2>14, <2>15
    <2>17. \A i \in DOMAIN closed' :
             \/ i \in DOMAIN closed /\ closed'[i] = closed[i]
             \/ closed'[i] = trade
        BY <2>16
    <2>18. /\ positions' \in [Symbols -> PositionType \union {None}] /\ positions'[s] = None
           /\ \A t \in Symbols : t # s => positions'[t] = positions[t]
        BY <1>5, <1>7, <1>16
    <2>19. Held' = Held \ {s} /\ Held \subseteq Symbols
        BY <2>18 DEF Held
    <2>20. \A t \in Held' : t \in Held /\ t # s /\ positions'[t] = positions[t]
        BY <2>18, <2>19
    <2>21. TypeInv'
        <3>1. InputsOK' /\ ControlOK'
            BY <1>1, <1>2, <1>11 DEF InputsOK, ControlOK
        <3>2. dailyTrades' \in Nat /\ tradeCount' \in Nat /\ dailyPnl' \in Int
            BY <1>2, <1>16, <2>7 DEF RecordsOK
        <3>3. RecordsOK'
            BY <1>1, <1>2, <1>16, <2>16, <2>18, <3>2 DEF RecordsOK
        <3> QED
            BY <2>10, <3>1, <3>3 DEF TypeInv
    <2>22. \A y \in toExit' : y \in toExit /\ y.symbol # s
        BY <1>1, <1>4 DEF BacktestInv, ExitInv
    <2>23. ExitInv'
        <3>1. \A y \in toExit' : y.symbol \in Held'
            BY <1>1, <2>19, <2>22 DEF BacktestInv, ExitInv
        <3>2. \A y \in toExit' : positions'[y.symbol] = positions[y.symbol]
            BY <2>20, <3>1
        <3> QED
            BY <1>1, <1>11, <2>22, <3>1, <3>2 DEF BacktestInv, ExitInv
    <2>24. RulesInv'
        <3>1. CASE pc = "exits"
            <4>1. \A t \in Held' : Within(t)' <=> Within(t)
                BY <1>1, <2>20 DEF Within
            <4>2. \A t \in Held' : Within(t) \/ \E y \in toExit : y.symbol = t
                BY <2>20, <3>1 DEF BacktestInv, RulesInv
            <4>3. \A t \in Held' : Within(t)' \/ \E y \in toExit' : y.symbol = t
                BY <1>1, <1>4, <2>20, <4>1, <4>2
            <4>4. \A y \in toExit' : bars'[day'][y.symbol] # None
                BY <1>1, <2>22, <3>1 DEF BacktestInv, RulesInv
            <4> QED
                BY <1>11, <3>1, <4>3, <4>4 DEF RulesInv
        <3>2. CASE pc = "close"
            BY <1>11, <3>2 DEF RulesInv
        <3> QED
            BY <1>1, <3>1, <3>2
    <2>25. WaitingInv'
        <3>1. CASE pc = "exits"
            <4>1. \A i \in DOMAIN pending : pending[i].symbol \notin Held
                BY <3>1 DEF BacktestInv, WaitingInv, Trading
            <4>2. \A i, j \in DOMAIN pending : pending[i].symbol = pending[j].symbol => i = j
                BY <3>1 DEF BacktestInv, WaitingInv, Trading
            <4>3. \A i \in DOMAIN closed : \A j \in DOMAIN pending :
                     closed[i].symbol = pending[j].symbol => closed[i].exitDay < day
                BY <3>1 DEF BacktestInv, WaitingInv, Trading
            <4>4. \A i \in DOMAIN closed' : \A j \in DOMAIN pending :
                     closed'[i].symbol = pending[j].symbol => closed'[i].exitDay < day
                BY <1>5, <2>13, <2>17, <4>1, <4>3
            <4> QED
                BY <1>1, <2>19, <4>1, <4>2, <4>4 DEF WaitingInv
        <3>2. CASE pc = "close"
            BY <1>11, <3>2 DEF WaitingInv
        <3> QED
            BY <1>1, <3>1, <3>2
    <2>26. DaysInv'
        <3>1. pc \in Trading
            BY <1>1 DEF Trading
        <3>2. /\ \A t \in Held' : positions'[t].entryDay <= day
              /\ pc = "exits" => \A t \in Held' : positions'[t].entryDay < day
            BY <2>20, <3>1 DEF BacktestInv, DaysInv
        <3>3. \A i \in DOMAIN closed' : closed'[i].exitDay <= day
            BY <1>3, <2>13, <2>17, <3>1 DEF BacktestInv, DaysInv
        <3>4. NoSameDayRoundTrip'
            <4>1. x.reason # "backtest_end" => pc = "exits"
                BY <1>1 DEF BacktestInv, ExitInv
            <4>2. x.reason # "backtest_end" => p.entryDay < day
                BY <1>5, <1>6, <4>1 DEF BacktestInv, DaysInv
            <4>3. x.reason # "backtest_end" => day > p.entryDay
                BY <1>3, <1>8, <4>2
            <4>4. NoSameDayRoundTrip
                BY DEF BacktestInv, DaysInv
            <4>5. ASSUME NEW i \in DOMAIN closed'
                  PROVE  /\ closed'[i].reason # "backtest_end" => closed'[i].exitDay > closed'[i].entryDay
                         /\ closed'[i].symbol \in Held' =>
                              positions'[closed'[i].symbol].entryDay > closed'[i].exitDay
                <5>1. CASE closed'[i] = trade
                    BY <2>13, <2>19, <4>3, <5>1
                <5>2. CASE i \in DOMAIN closed /\ closed'[i] = closed[i]
                    BY <2>20, <4>4, <5>2 DEF NoSameDayRoundTrip
                <5> QED
                    BY <2>17, <5>1, <5>2
            <4> QED
                BY <4>5 DEF NoSameDayRoundTrip
        <3>5. TrailingLocksGain'
            <4>1. ASSUME x.reason = "trailing_stop" PROVE close > p.entry
                <5>1. pc = "exits"
                    BY <1>1, <4>1 DEF BacktestInv, ExitInv
                <5> QED
                    BY <1>4, <1>6, <1>14, <4>1, <5>1 DEF BacktestInv, ExitInv
            <4>2. TrailingLocksGain
                BY DEF BacktestInv, DaysInv
            <4> QED
                BY <2>13, <2>17, <4>1, <4>2 DEF TrailingLocksGain
        <3> QED
            BY <1>1, <1>11, <3>2, <3>3, <3>4, <3>5 DEF DaysInv
    <2>27. BooksInv'
        <3>1. /\ shares'[s] = shares[s] - p.quantity
              /\ \A t \in Symbols : t # s => shares'[t] = shares[t]
            BY <1>2, <1>5, <2>9 DEF AccountOK
        <3>2. runs = 0 => shares[s] = p.quantity
            BY <1>5, <1>6 DEF BacktestInv, BooksInv, BooksAgree
        <3>3. IF runs = 0 THEN shares'[s] = 0 ELSE shares'[s] >= 0
            BY <1>8, <1>9, <3>1, <3>2
        <3>4. ASSUME NEW t \in Symbols
              PROVE  LET own == IF t \in Held' THEN positions'[t].quantity ELSE 0
                     IN  IF runs' = 0 THEN shares'[t] = own ELSE shares'[t] >= own
            <4>1. CASE t = s
                BY <1>1, <2>19, <3>3, <4>1
            <4>2. CASE t # s
                BY <1>1, <2>19, <2>20, <3>1, <4>2 DEF BacktestInv, BooksInv, BooksAgree
            <4> QED
                BY <4>1, <4>2
        <3>5. \A t \in Held' : positions'[t].trailing # None =>
                 config'.strategy = "position" /\ positions'[t].trailing = config'.trailing
            BY <1>1, <2>20 DEF BacktestInv, BooksInv
        <3> QED
            BY <1>1, <1>11, <3>4, <3>5 DEF BooksInv, BooksAgree, Fresh
    <2>28. PeakInv'
        <3>1. DrawdownsAgree' <=> DrawdownsAgree
            BY <1>1, <1>16 DEF DrawdownsAgree, PeakUpTo
        <3>2. PeakUpTo(Len(snapshots))' = PeakUpTo(Len(snapshots))
            BY <1>16 DEF PeakUpTo
        <3> QED
            BY <1>1, <1>11, <1>12, <1>16, <3>1, <3>2 DEF BacktestInv, PeakInv
    <2>29. LedgerBalances'
        <3>1. Cost(positions) = cost + Cost(positions')
            BY <1>5, <1>6, <1>7, <1>16, <2>2, CostFacts DEF Books, Held
        <3>2. Profit(closed') = Profit(closed) + pnl
            BY <1>16, <2>12, <2>13, <2>14, ProfitFacts
        <3>3. /\ Cost(positions') \in Int /\ Profit(closed) \in Int /\ capital \in Nat
              /\ buyFees \in Nat
            BY <1>2, <2>14, <2>18, CostFacts, ProfitFacts DEF Books, RecordsOK
        <3>4. cash + Cost(positions) = capital + Profit(closed) - buyFees
            BY LedgerForm DEF BacktestInv
        <3>5. cash' + Cost(positions') = capital + Profit(closed') - buyFees
            BY <2>3, <2>4, <2>6, <2>8, <3>1, <3>2, <3>3, <3>4
        <3> QED
            BY <1>1, <1>16, <3>5, LedgerFormNext
    <2> QED
        BY <2>21, <2>23, <2>24, <2>25, <2>26, <2>27, <2>28, <2>29 DEF BacktestInv
<1> QED
    <2>1. \/ UNCHANGED <<cash, shares, value, positions, dailyTrades, dailyPnl, peak, snapshots,
                         closed, tradeCount, buyFees>> /\ bars[day][s] = None
          \/ /\ bars[day][s] # None
             /\ ExecuteSell(s, close, p.quantity)
             /\ positions' = [positions EXCEPT ![s] = None]
             /\ closed' = Append(closed, trade)
             /\ dailyPnl' = dailyPnl + pnl
             /\ dailyTrades' = dailyTrades + 1
             /\ tradeCount' = tradeCount + 1
             /\ UNCHANGED <<peak, snapshots, buyFees>>
        BY <1>4, <1>6, <1>10, <1>14, <1>15 DEF ExecuteExit, account, daily, records
    <2> QED
        BY <1>13, <1>16, <2>1

---------------------------------------------------------------------------
(* The theorems                                                            *)

\* The invariant holds of every step of the engine, of its callers and of a crash.
THEOREM BacktestInvariant == Spec => []BacktestInv
<1>1. BacktestInv /\ [Next]_vars => BacktestInv'
    <2> SUFFICES ASSUME BacktestInv, [Next]_vars PROVE BacktestInv'
        OBVIOUS
    <2>1. CASE Engine
        BY <2>1, StartRunInv, BeginDayInv, DoneInv, ExecutePendingInv, GenerateSignalInv,
           RecordSnapshotInv, NextRunInv, ExecuteExitInv DEF Engine
    <2>2. CASE Api \/ Crash
        BY <2>2, ApiInv
    <2>3. CASE UNCHANGED vars
        <3>1. UNCHANGED rest /\ UNCHANGED <<pc, row>>
            BY <2>3 DEF vars, rest, fixed
        <3>2. /\ UNCHANGED <<cash, shares, value, bars, config, capital, plan, runs, day, positions>>
              /\ UNCHANGED <<toExit, pending, scan, dailyTrades, dailyPnl, peak, snapshots, closed>>
              /\ UNCHANGED <<tradeCount, buyFees, pc, row>>
            BY <3>1 DEF rest, account, fixed, daily, records
        <3>3. Held' = Held
            BY <3>2 DEF Held
        <3>4. TypeInv'
            BY <3>2 DEF BacktestInv, TypeInv, AccountOK, InputsOK, ControlOK, RecordsOK
        <3>5. ExitInv' /\ RulesInv' /\ WaitingInv'
            BY <3>2, <3>3 DEF BacktestInv, ExitInv, RulesInv, WaitingInv, Within
        <3>6. DaysInv' /\ BooksInv'
            BY <3>2, <3>3
            DEF BacktestInv, DaysInv, BooksInv, BooksAgree, NoSameDayRoundTrip, TrailingLocksGain
        <3>7. DrawdownsAgree' <=> DrawdownsAgree
            BY <3>2 DEF DrawdownsAgree, PeakUpTo
        <3>8. PeakUpTo(Len(snapshots))' = PeakUpTo(Len(snapshots))
            BY <3>2 DEF PeakUpTo
        <3>9. PeakInv'
            BY <3>2, <3>3, <3>7, <3>8 DEF BacktestInv, PeakInv
        <3>10. LedgerBalances'
            BY <3>2, <3>3 DEF BacktestInv, LedgerBalances
        <3> QED
            BY <3>4, <3>5, <3>6, <3>9, <3>10 DEF BacktestInv
    <2> QED
        BY <2>1, <2>2, <2>3 DEF Next
<1> QED
    BY <1>1, InitInv, PTL DEF Spec

\* Types: cash never goes below zero, whatever the prices, although the risk
\* check of an entry knows nothing of slippage and commission.
THEOREM BacktestTypes == Spec => []BacktestTypeOK
<1>1. BacktestInv => BacktestTypeOK
    <2> SUFFICES ASSUME BacktestInv PROVE BacktestTypeOK
        OBVIOUS
    <2>1. AccountOK /\ InputsOK /\ ControlOK /\ RecordsOK
        BY DEF BacktestInv, TypeInv
    <2> QED
        BY <2>1 DEF BacktestTypeOK, AccountOK, InputsOK, ControlOK, RecordsOK, AllPcs, Trading,
                    Fresh, SignalType, Held
<1> QED
    BY <1>1, BacktestInvariant, PTL

\* No won is lost between the cash, the cost of what is held, the reported
\* profits and the commissions of the buys.
THEOREM LedgerAlwaysBalances == Spec => []LedgerBalances
<1>1. BacktestInv => LedgerBalances
    BY DEF BacktestInv
<1> QED
    BY <1>1, BacktestInvariant, PTL

\* The engine's positions and the broker's never drift apart, so that no exit is
\* refused: a run fails before its first trade, or for a trailing percentage that
\* is not positive.
THEOREM BooksAlwaysAgree == Spec => []BooksAgree
<1>1. BacktestInv => BooksAgree
    BY DEF BacktestInv, BooksInv
<1> QED
    BY <1>1, BacktestInvariant, PTL

\* After the exits of a day nothing is held beyond its stop, its target or its time.
THEOREM RulesAreKept == Spec => []HeldWithinRules
<1>1. BacktestInv => HeldWithinRules
    BY DEF BacktestInv, RulesInv, Within, HeldWithinRules
<1> QED
    BY <1>1, BacktestInvariant, PTL

\* No symbol is bought and sold on one day, but at the end of the period.
THEOREM NoRoundTrips == Spec => []NoSameDayRoundTrip
<1>1. BacktestInv => NoSameDayRoundTrip
    BY DEF BacktestInv, DaysInv
<1> QED
    BY <1>1, BacktestInvariant, PTL

\* A trailing stop of a backtest only locks in a gain, whatever its percentage.
THEOREM TrailingStopsGain == Spec => []TrailingLocksGain
<1>1. BacktestInv => TrailingLocksGain
    BY DEF BacktestInv, DaysInv
<1> QED
    BY <1>1, BacktestInvariant, PTL

\* On a new broker the drawdown of the snapshots is the one of the metrics.
THEOREM DrawdownsAlwaysAgree == Spec => []DrawdownsAgree
<1>1. BacktestInv => DrawdownsAgree
    BY DEF BacktestInv, PeakInv, DrawdownsAgree
<1> QED
    BY <1>1, BacktestInvariant, PTL
=============================================================================
