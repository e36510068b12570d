----------------------------- MODULE RiskRules -----------------------------
(***************************************************************************)
(* strategy/risk_manager.py and strategy/sizing.py as operators: the rules *)
(* a BUY is checked against, the quantity AlgoRiskManager.check adjusts to *)
(* and the quantity PositionSizer.calculate proposes.                      *)
(*                                                                         *)
(* Amounts are integers: multiples of a unit small enough for every price. *)
(* The code computes with Decimal (28 digits) and truncates quotients with *)
(* int().  The quotient of two amounts of this size, truncated, is the     *)
(* exact one, and a comparison with a percentage is multiplied out by 100. *)
(* The shares of rule 4 are sums of rounded quotients: they are counted in *)
(* UNITS to the whole, and every product and quotient of shares is rounded *)
(* to such a unit, where the code keeps 28 significant digits.             *)
(*                                                                         *)
(* A portfolio state s has the fields of PortfolioState the rules read:    *)
(* total, pnl, pnlPct (signed), held (symbols), value (per symbol), sector *)
(* (value per sector), peak and trades.  A candidate c has symbol,         *)
(* quantity, price and stop.                                               *)
(***************************************************************************)
EXTENDS Integers, FiniteSets

CONSTANTS
    Symbols, Sectors,
    SectorOf,                  \* StockMaster.sector of a symbol
    RISK_PER_TRADE_PCT, MAX_POSITION_PCT, MAX_POSITION_SIZE_KRW,
    MAX_PORTFOLIO_POSITIONS, SECTOR_CONCENTRATION_PCT, MAX_DRAWDOWN_PCT,
    DAILY_LOSS_LIMIT_PCT, DAILY_LOSS_LIMIT_KRW, MAX_DAILY_TRADES,
    UNITS                      \* precision of a share

\* The settings are non-negative numbers, and every symbol has a sector.
ASSUME SettingsAssumption ==
    /\ IsFiniteSet(Symbols)
    /\ SectorOf \in [Symbols -> Sectors]
    /\ RISK_PER_TRADE_PCT \in Nat /\ MAX_POSITION_PCT \in Nat
    /\ MAX_POSITION_SIZE_KRW \in Nat /\ MAX_PORTFOLIO_POSITIONS \in Nat
    /\ SECTOR_CONCENTRATION_PCT \in Nat /\ MAX_DRAWDOWN_PCT \in Nat
    /\ DAILY_LOSS_LIMIT_PCT \in Nat /\ DAILY_LOSS_LIMIT_KRW \in Nat
    /\ MAX_DAILY_TRADES \in Nat
    /\ UNITS \in Nat \ {0}

Prices == Nat \ {0}

Least(a, b) == IF a <= b THEN a ELSE b
Most(a, b) == IF a <= b THEN b ELSE a

\* Distance of entry and stop: what one share can lose.
RiskPerShare(price, stop) == IF price <= stop THEN stop - price ELSE price - stop

\* How many times unit fits between used and limit.
Room(limit, used, unit) == IF limit <= used THEN 0 ELSE (limit - used) \div unit

\* The whole number next to a / b; halfway, the even one (ROUND_HALF_EVEN).
Rounded(a, b) ==
    LET q == a \div b
        twice == 2 * (a % b)
    IN  IF twice > b \/ (twice = b /\ q % 2 = 1) THEN q + 1 ELSE q

---------------------------------------------------------------------------
(* The limits, in hundredths of the unit of amounts.                       *)

RiskLimit(s) == s.total * RISK_PER_TRADE_PCT
PositionLimit(s) == Least(s.total * MAX_POSITION_PCT, 100 * MAX_POSITION_SIZE_KRW)

(* Rules 1, 2 and 4: violated or not, and the cap they put on the quantity *)
(* whether violated or not.  Rule 1 is skipped (no cap) when entry and     *)
(* stop coincide; strategies and the executor always pass a stop.          *)

RiskViolated(s, c) ==
    100 * (c.quantity * RiskPerShare(c.price, c.stop)) > RiskLimit(s)
RiskCap(s, c) ==
    IF c.price = c.stop
        THEN c.quantity
        ELSE Room(RiskLimit(s), 0, 100 * RiskPerShare(c.price, c.stop))

\* Faulty: rule 2 forgets what is held already.
PositionViolatedAlone(s, c) == 100 * (c.quantity * c.price) > PositionLimit(s)

PositionViolated(s, c) ==
    100 * (s.value[c.symbol] + c.quantity * c.price) > PositionLimit(s)
PositionCap(s, c) == Room(PositionLimit(s), 100 * s.value[c.symbol], 100 * c.price)

\* get_sector_allocations, and the share an order adds.
Share(s, amount) == Rounded(amount * UNITS, s.total)
CurrentShare(s, c) == Share(s, s.sector[SectorOf[c.symbol]])
NewShare(s, c) == CurrentShare(s, c) + Share(s, c.quantity * c.price)

SectorViolated(s, c) == 100 * NewShare(s, c) > SECTOR_CONCENTRATION_PCT * UNITS

\* The rounded share that is left, as an amount, as a number of shares of the
\* stock: it can fall short of a quantity whose rounded share just fits.
SectorCap(s, c) ==
    LET allowed == SECTOR_CONCENTRATION_PCT * UNITS - 100 * CurrentShare(s, c)
    IN  IF allowed <= 0
          THEN 0
          ELSE Rounded(Rounded(allowed * s.total, 100), c.price) \div UNITS

(* Rules 3, 5, 6 and 8 block: their cap is 0 when they are violated.       *)

HoldingsViolated(s, c) ==
    /\ c.symbol \notin s.held
    /\ Cardinality(s.held) >= MAX_PORTFOLIO_POSITIONS

DrawdownViolated(s) ==
    IF s.peak > 0
        THEN 100 * (s.peak - s.total) >= MAX_DRAWDOWN_PCT * s.peak
        ELSE 0 >= MAX_DRAWDOWN_PCT

DailyLossViolated(s) ==
    \/ s.pnlPct < - DAILY_LOSS_LIMIT_PCT
    \/ s.pnl < - DAILY_LOSS_LIMIT_KRW

\* Faulty: one trade too many.
DailyTradesViolatedLate(s) == s.trades > MAX_DAILY_TRADES

DailyTradesViolated(s) == s.trades >= MAX_DAILY_TRADES

BlockingRuleViolated(s, c) ==
    \/ HoldingsViolated(s, c)
    \/ DrawdownViolated(s)
    \/ DailyLossViolated(s)
    \/ DailyTradesViolated(s)

---------------------------------------------------------------------------
(* AlgoRiskManager.check for a BUY.                                        *)

Passed(s, c) ==
    /\ s.total > 0
    /\ ~ RiskViolated(s, c)
    /\ ~ PositionViolated(s, c)
    /\ ~ SectorViolated(s, c)
    /\ ~ BlockingRuleViolated(s, c)

\* has_block: a violated rule with cap 0.
Blocked(s, c) ==
    \/ RiskViolated(s, c) /\ RiskCap(s, c) = 0
    \/ PositionViolated(s, c) /\ PositionCap(s, c) = 0
    \/ SectorViolated(s, c) /\ SectorCap(s, c) = 0
    \/ BlockingRuleViolated(s, c)

AdjustedQuantity(s, c) ==
    IF s.total <= 0 \/ Blocked(s, c)
        THEN 0
        ELSE Least(c.quantity,
                   Least(RiskCap(s, c), Least(PositionCap(s, c), SectorCap(s, c))))

---------------------------------------------------------------------------
(* PositionSizer.calculate, as the strategies call it: existing value 0.   *)

\* calculate raises ValueError on any other input.
Sizable(total, price, stop) == total > 0 /\ price > 0 /\ stop > 0 /\ price # stop

\* Faulty: the minimum of one share is applied after the caps.
SizedQuantityFloorLast(total, price, stop) ==
    Most(1, Least(Room(total * RISK_PER_TRADE_PCT, 0, 100 * RiskPerShare(price, stop)),
                  Least(Room(total * MAX_POSITION_PCT, 0, 100 * price),
                        Room(MAX_POSITION_SIZE_KRW, 0, price))))

SizedQuantity(total, price, stop) ==
    LET raw == Room(total * RISK_PER_TRADE_PCT, 0, 100 * RiskPerShare(price, stop))
    IN  Least(Most(1, raw),
              Least(Room(total * MAX_POSITION_PCT, 0, 100 * price),
                    Room(MAX_POSITION_SIZE_KRW, 0, price)))

\* ExitPriceCalculator: the stop at a distance below the entry (a percentage
\* of it, or a multiple of the ATR), and 1 where that would not be positive.
StopPrice(price, distance) == IF distance < price THEN price - distance ELSE 1
=============================================================================
