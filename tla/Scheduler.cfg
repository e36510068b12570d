\* Two accounts with a position each, or two positions of one symbol; two jobs at a time.
CONSTANTS
    a1 = a1
    a2 = a2
    s1 = s1
    None = None
    Accounts = {a1, a2}
    Symbols = {s1}
    PositionIds = {1, 2}
    Slots = {1, 2}
    ActiveAccounts = {a1, a2}
    DefaultAccount = a1
    KisAppKey = TRUE
    UseMockBroker = FALSE
    StrategyOf <- MCStrategyOf
    EntryRules <- MCRules
    PriceRange = {80, 100}
    TotalRange = {1, 2}
    Scenarios <- MCScenarios
    LastDay = 2
SPECIFICATION Spec
INVARIANTS
    SchedulerTypeOK
    SoldOnce
    AlertOncePerDay
    PeakCoversHistory
PROPERTIES
    RowSettles
    StopIsSold
    ImplementsLife
