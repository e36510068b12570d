-------------------------- MODULE SimulatedBroker --------------------------
(***************************************************************************)
(* backtest/simulator.py: the account a backtest trades on.  Amounts are   *)
(* whole won.  A bar is [open, close]; None stands for a symbol without    *)
(* data on a day.  Left out is what no step of a backtest reads:           *)
(* average_cost and the profit fields of a position, the list of orders.   *)
(***************************************************************************)
EXTENDS RiskRules, ExitRules, FiniteSetsExt, Functions

CONSTANTS
    InitialCapital,
    SlippageBps,
    CommissionBuy, CommissionSell   \* in hundredths of a thousandth (0.015% = 15)

ASSUME BrokerAssumption ==
    /\ InitialCapital \in Nat
    /\ SlippageBps \in Nat /\ SlippageBps <= 10000
    /\ CommissionBuy \in Nat
    /\ CommissionSell \in Nat /\ CommissionSell <= 100000

VARIABLES
    cash,
    shares,       \* quantity per symbol
    value         \* market_value per symbol

account == <<cash, shares, value>>

AccountInit ==
    /\ cash = InitialCapital
    /\ shares = [s \in Symbols |-> 0]
    /\ value = [s \in Symbols |-> 0]

\* quantize(1, ROUND_HALF_UP) of n / d, for n >= 0.
RoundHalfUp(n, d) == (2 * n + d) \div (2 * d)

\* calculate_slippage of a BUY.
SlippedPrice(open) == RoundHalfUp(open * (10000 + SlippageBps), 10000)

\* calculate_commission
BuyCommission(amount) == RoundHalfUp(amount * CommissionBuy, 100000)
SellCommission(amount) == RoundHalfUp(amount * CommissionSell, 100000)

\* get_total_value
TotalValue == cash + SumFunctionOnSet(value, {s \in Symbols : shares[s] > 0})

\* set_current_date: a symbol without a bar keeps its last value.
Revalue(bar) ==
    value' = [s \in Symbols |->
                IF shares[s] > 0 /\ bar[s] # None THEN bar[s].close * shares[s] ELSE value[s]]

\* place_order, MARKET BUY: filled at the open with slippage, or refused.
BuyCost(price, quantity) == price * quantity + BuyCommission(price * quantity)
\* Faulty: the commission is not part of the question.
CanBuyBeforeFees(price, quantity) == price * quantity <= cash
CanBuy(price, quantity) == BuyCost(price, quantity) <= cash
ExecuteBuy(s, price, quantity) ==
    /\ cash' = cash - BuyCost(price, quantity)
    /\ shares' = [shares EXCEPT ![s] = @ + quantity]
    /\ value' = [value EXCEPT ![s] = price * (shares[s] + quantity)]

\* place_order, LIMIT SELL: filled at the given price, or refused.
\* Faulty: the account is not charged the commission of a sale.
ExecuteSellFree(s, price, quantity) ==
    /\ cash' = cash + price * quantity
    /\ shares' = [shares EXCEPT ![s] = @ - quantity]
    /\ value' = [value EXCEPT ![s] = price * (shares[s] - quantity)]
CanSell(s, quantity) == shares[s] > 0 /\ quantity <= shares[s]
ExecuteSell(s, price, quantity) ==
    /\ cash' = cash + price * quantity - SellCommission(price * quantity)
    /\ shares' = [shares EXCEPT ![s] = @ - quantity]
    /\ value' = [value EXCEPT ![s] = price * (shares[s] - quantity)]
=============================================================================
