----------------------------- MODULE MCEntryGate -----------------------------
(* Instances of EntryGate for TLC: what the broker reports is computed from *)
(* holdings, a price and cash.                                              *)
EXTENDS EntryGateProofs, FiniteSetsExt, TLC

CONSTANTS s1, s2, r1, r2, tech, acc

MCSectorOf == (s1 :> tech) @@ (s2 :> tech)
MCAccountOf == [r \in Runs |-> IF r = r2 THEN acc ELSE DefaultAccount]

Worth(S, shares, price) == MapThenSumSet(LAMBDA s : shares[s] * price, S)

Report(shares, price, cash, pnl) ==
    [total |-> cash + Worth(Symbols, shares, price), pnl |-> pnl, pnlPct |-> pnl,
     held |-> {s \in Symbols : shares[s] > 0},
     value |-> [s \in Symbols |-> shares[s] * price],
     sector |-> [t \in Sectors |->
         Worth({s \in Symbols : SectorOf[s] = t}, shares, price)],
     recordedPeak |-> 40]

Nothing == [s \in Symbols |-> 0]

\* All cash; one symbol held; a loss and a drawdown that block; an empty account;
\* sector shares that meet their limit only when rounded.
MCPortfolios ==
    {Report(Nothing, 3, 42, 0),
     Report([Nothing EXCEPT ![s1] = 2], 3, 36, -1),
     Report([Nothing EXCEPT ![s1] = 3], 4, 36, 1),
     Report(Nothing, 3, 39, -4),
     Report([Nothing EXCEPT ![s2] = 2], 3, 24, 0),
     Report([Nothing EXCEPT ![s1] = 1, ![s2] = 4], 1, 30, 0),
     Report(Nothing, 3, 0, 0)}
=============================================================================
