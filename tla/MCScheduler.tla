---------------------------- MODULE MCScheduler ----------------------------
(* An instance of Scheduler for TLC: two accounts, one symbol.             *)
EXTENDS Scheduler, TLC

CONSTANTS a1, a2, s1

MCStrategyOf == (a1 :> "swing") @@ (a2 :> "position")

MCRules == [status |-> "open", account |-> a1, symbol |-> s1, entry |-> 100, entryDay |-> 1,
            stop |-> 90, target |-> 120, trailing |-> None, maxDays |-> None]
MCTrailing == [MCRules EXCEPT !.stop = 50, !.target = None, !.trailing = 10]

OnePerAccount == (1 :> MCRules) @@ (2 :> [MCRules EXCEPT !.account = a2, !.maxDays = 1])
OneAlone == (1 :> MCRules) @@ (2 :> NoPosition)
TwoOfOneSymbol == (1 :> MCTrailing) @@ (2 :> [MCRules EXCEPT !.stop = 100])

Quiet == [MCRules EXCEPT !.stop = 50, !.target = None]
QuietPair == (1 :> Quiet) @@ (2 :> [Quiet EXCEPT !.account = a2])

Scenario(agenda_, positions_, due_, mishaps_) ==
    [agenda |-> agenda_, positions |-> positions_, due |-> due_, mishaps |-> mishaps_]
MCScenarios ==
    {Scenario({Sweep(a1), Sweep(a2)}, OnePerAccount, {}, 1),
     Scenario({Sweep(a1)}, TwoOfOneSymbol, {}, 2),
     Scenario({Sweep(a1), Sweep(a2)}, QuietPair, {<<"llm_budget", None>>}, 1),
     Scenario({Sweep(a2)}, QuietPair, {<<"portfolio_drawdown", a2>>}, 2),
     Scenario({Sweep(a1), <<"swing_analysis", a1>>}, OneAlone, {}, 1),
     Scenario({<<"position_analysis", a2>>, <<"weekly_report", None>>}, OnePerAccount, {}, 2),
     Scenario({<<"daily_report", a1>>}, OneAlone, {}, 2)}
=============================================================================
