\* One request over two symbols and nobody else: can a batch exceed the daily limit?
CONSTANTS
    s1 = s1
    s2 = s2
    r1 = r1
    r2 = r2
    tech = tech
    acc = acc
    Symbols = {s1, s2}
    Sectors = {tech}
    SectorOf <- MCSectorOf
    RISK_PER_TRADE_PCT = 5
    MAX_POSITION_PCT = 25
    MAX_POSITION_SIZE_KRW = 10
    MAX_PORTFOLIO_POSITIONS = 2
    SECTOR_CONCENTRATION_PCT = 40
    MAX_DRAWDOWN_PCT = 20
    DAILY_LOSS_LIMIT_PCT = 3
    DAILY_LOSS_LIMIT_KRW = 3
    MAX_DAILY_TRADES = 1
    UNITS = 10000
    Runs = {r1}
    Accounts = {default}
    DefaultAccount = default
    AccountOf <- MCAccountOf
    Portfolios <- MCPortfolios
    EntryPrices = {3}
    StopDistances = {1, 5}
    MaxOtherRows = 0
    None = None
SPECIFICATION Spec
INVARIANT
    DailyTradesCapped
