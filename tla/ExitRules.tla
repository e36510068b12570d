----------------------------- MODULE ExitRules -----------------------------
(***************************************************************************)
(* strategy/exit_checker.py and strategy/exit_calculator.py as operators,  *)
(* and the three places that put the checks together: the backtest's       *)
(* _check_exits, the strategies' check_exit_conditions and the scheduler's *)
(* job_stop_loss_check.                                                    *)
(*                                                                         *)
(* A position p has entry (price), entryDay, stop, target (a price or      *)
(* None), trailing (a percentage or None) and maxDays (or None).           *)
(* Percentages are multiplied out by 100, as in RiskRules.                 *)
(***************************************************************************)
EXTENDS Integers

CONSTANT None                      \* Python's None

ExitReasons == {"stop_loss", "trailing_stop", "take_profit", "time_based"}

StopLossHit(p, price) == price <= p.stop

TakeProfitHit(p, price) == p.target # None /\ price >= p.target

\* check_trailing_stop against trailing_stop_price(highest, pct).
TrailingStopHit(price, highest, pct) == 100 * price <= highest * (100 - pct)

TimeUp(p, today) == p.maxDays # None /\ today - p.entryDay >= p.maxDays

\* unrealized_pnl_pct >= pct
Gained(p, price, pct) == 100 * (price - p.entry) >= pct * p.entry

\* The backtest's check asks for the trailing stop of a position that has gained
\* as much; trailing_stop_price raises when the percentage is not positive.
TrailingStopRaises(p, price) ==
    /\ ~ StopLossHit(p, price)
    /\ p.trailing # None /\ Gained(p, price, p.trailing)
    /\ p.trailing <= 0

\* Faulty: the trailing stop is active from the entry on.
BacktestExitEager(p, price, highest, today) ==
    IF StopLossHit(p, price) THEN "stop_loss"
    ELSE IF p.trailing # None /\ TrailingStopHit(price, highest, p.trailing)
      THEN "trailing_stop"
    ELSE IF TakeProfitHit(p, price) THEN "take_profit"
    ELSE IF TimeUp(p, today) THEN "time_based"
    ELSE None

\* Faulty: a position with a trailing stop is not looked at any further.
BacktestExitTrailingOnly(p, price, highest, today) ==
    IF StopLossHit(p, price) THEN "stop_loss"
    ELSE IF p.trailing # None
      THEN IF Gained(p, price, p.trailing) /\ TrailingStopHit(price, highest, p.trailing)
             THEN "trailing_stop" ELSE None
    ELSE IF TakeProfitHit(p, price) THEN "take_profit"
    ELSE IF TimeUp(p, today) THEN "time_based"
    ELSE None

\* BacktestEngine._check_exits: the first check that fires gives the reason.
BacktestExit(p, price, highest, today) ==
    IF StopLossHit(p, price) THEN "stop_loss"
    ELSE IF /\ p.trailing # None /\ Gained(p, price, p.trailing)
            /\ TrailingStopHit(price, highest, p.trailing) THEN "trailing_stop"
    ELSE IF TakeProfitHit(p, price) THEN "take_profit"
    ELSE IF TimeUp(p, today) THEN "time_based"
    ELSE None

\* Faulty: a position is left alone on the day of its entry.
SweepExitNextDay(p, price, today) ==
    IF today = p.entryDay THEN None
    ELSE IF StopLossHit(p, price) THEN "stop_loss" ELSE None

\* job_stop_loss_check: profit is taken before the trailing stop is looked at,
\* which hangs from the entry price and needs no gain.
SweepExit(p, price, today) ==
    IF StopLossHit(p, price) THEN "stop_loss"
    ELSE IF TakeProfitHit(p, price) THEN "take_profit"
    ELSE IF p.trailing # None /\ TrailingStopHit(price, p.entry, p.trailing)
      THEN "trailing_stop"
    ELSE IF TimeUp(p, today) THEN "time_based"
    ELSE None
=============================================================================
