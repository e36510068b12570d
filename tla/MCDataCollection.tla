------------------------- MODULE MCDataCollection -------------------------
(* An instance of DataCollection for TLC.                                  *)
EXTENDS DataCollection, TLC

CONSTANTS o1, o2, balance, first, second, r, bars, master, filing, year, half, rate, gold,
          article, x, y

MCFeedOf == (bars :> "ohlcv") @@ (master :> "master") @@ (filing :> "disclosures")
            @@ (year :> "annual") @@ (half :> "quarterly") @@ (rate :> "indicator")
            @@ (gold :> "series") @@ (article :> "news")
MCMarketOf == (x :> "kospi") @@ (y :> "kosdaq")
MCMaxPages == (balance :> 2) @@ (first :> 2) @@ (second :> 1)

MCScenario(tasks_, one, two, item, mishaps_) ==
    [tasks |-> tasks_, groups |-> (first :> one) @@ (second :> two),
     reads |-> (r :> item), mishaps |-> mishaps_]
MCLastVersion == [i \in Items |-> IF i = master THEN 3 ELSE 2]
MCReports == (x :> <<year, half>>)
MCMaster == CollectStockMaster(master)
MCScenarios ==
    {MCScenario({o1, o2}, <<>>, <<>>, None, 3),
     MCScenario({o1, balance}, <<>>, <<>>, None, 3),
     MCScenario({first, o1}, CollectDailyOHLCV(<<bars>>), <<>>, None, 2),
     MCScenario({first}, CollectDailyOHLCV(<<bars, bars>>), <<>>, bars, 1),
     MCScenario({}, MCMaster \o MCMaster \o MCMaster, <<>>, master, 1),
     MCScenario({}, MCMaster, MCMaster, None, 1),
     MCScenario({}, <<<<filing>>, <<filing>>>>, <<<<year>>>>, filing, 2),
     MCScenario({}, <<>>, CollectFinancials(<<x, x>>, MCReports), year, 2),
     MCScenario({}, SyncAll(<<rate, rate>>), SyncAll(<<gold>>), rate, 1),
     MCScenario({}, <<>>, SyncAll(<<gold, gold>>), gold, 1),
     MCScenario({}, CollectNews(<<article, article>>), <<>>, article, 1)}
=============================================================================
