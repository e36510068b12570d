-------------------------- MODULE MCAgentPipeline --------------------------
(* An instance of AgentPipeline for TLC.                                   *)
EXTENDS AgentPipeline, TLC

CONSTANTS s1, s2, x, y, small, large, claude

MCCallers == {s1, s2} \X {x, y, Market}
MCAgents == {"market_analyst", "stock_analyst", "risk_manager", "trader"}
MCProviderOf == (small :> "google") @@ (large :> "openai") @@ (claude :> "anthropic")
MCFixed == [mode |-> "fixed", primary |-> large, escalation |-> None, threshold |-> None,
            active |-> TRUE]
MCEscalation == [mode |-> "escalation", primary |-> small, escalation |-> large, threshold |-> 2,
                 active |-> TRUE]
MCDefaults == [a \in MCAgents |-> IF a = "stock_analyst" THEN MCEscalation ELSE MCFixed]
MCNoRows == [a \in MCAgents |-> None]
MCClaude == <<"risk_manager", [primary |-> claude]>>
MCInactive == <<"stock_analyst", [active |-> FALSE]>>

MCScenario(one, two, concurrency_, rows_, updates_, mishaps_) ==
    [symbols |-> (s1 :> one) @@ (s2 :> two), concurrency |-> concurrency_, rows |-> rows_,
     updates |-> updates_, mishaps |-> mishaps_]
MCScenarios ==
    {MCScenario({x, y}, None, 1, MCNoRows, {}, 1),
     MCScenario({x, y}, None, 2, MCNoRows, {}, 0),
     MCScenario({x}, {y}, 1, MCNoRows, {}, 0),
     MCScenario({x}, None, 1, MCDefaults, {MCInactive, MCClaude}, 1),
     MCScenario({x}, None, 1, MCNoRows, {MCInactive, Reset}, 0)}
=============================================================================
