\* Two symbols over four days: a request, and a walk-forward analysis with one window.
CONSTANTS
    s1 = s1
    s2 = s2
    tech = tech
    None = None
    Symbols = {s1, s2}
    Sectors = {tech}
    SectorOf <- MCSectorOf
    RISK_PER_TRADE_PCT = 10
    MAX_POSITION_PCT = 60
    MAX_POSITION_SIZE_KRW = 500
    MAX_PORTFOLIO_POSITIONS = 2
    SECTOR_CONCENTRATION_PCT = 100
    MAX_DRAWDOWN_PCT = 20
    DAILY_LOSS_LIMIT_PCT = 3
    DAILY_LOSS_LIMIT_KRW = 3
    MAX_DAILY_TRADES = 2
    UNITS = 100
    InitialCapital = 1000
    SlippageBps = 200
    CommissionBuy = 1000
    CommissionSell = 2000
    LastDay = 4
    Histories <- MCHistories
    Configs <- MCConfigs
    SymbolOrder <- MCOrder
    MaxDays <- MCMaxDays
    StopPct = 10
    TpPct = 60
    Atrs = {10, 20}
    AtrStopMult = 2
    AtrTpMult = 3
    MinBars <- MCMinBars
    MinConfidence = 5
    Confidences = {4, 6}
    WindowDays = 2
    OosDays = 2
SPECIFICATION Spec
INVARIANTS
    BacktestTypeOK
    LedgerBalances
    BooksAgree
    HeldWithinRules
    NoSameDayRoundTrip
    TrailingLocksGain
    DrawdownsAgree
CHECK_DEADLOCK FALSE
