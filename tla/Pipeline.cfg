\* The analysis pipeline, the LLM router and its configuration.
SPECIFICATION Spec
CONSTANTS
    s1 = s1
    s2 = s2
    x = x
    y = y
    small = small
    large = large
    claude = claude
    None = None
    Market = Market
    Sessions = {s1, s2}
    Symbols = {x, y}
    Callers <- MCCallers
    Agents <- MCAgents
    ProviderOf <- MCProviderOf
    ApiKeys = {"openai", "google"}
    Defaults <- MCDefaults
    Confidences = {1, 2}
    Budget = 3
    MaxRetries = 1
    Scenarios <- MCScenarios
INVARIANTS
    PipelineTypeOK
    AuditTrailComplete
    EscalationOvershoot
    StaleNeedsRace
PROPERTIES
    StaleConfigEnds
    ExecutionEnds
CHECK_DEADLOCK FALSE
