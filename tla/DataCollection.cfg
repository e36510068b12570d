\* Two orders and paged reads through one client; collections of every feed beside a reader.
SPECIFICATION Spec
CONSTANTS
    o1 = o1
    o2 = o2
    balance = balance
    first = first
    second = second
    r = r
    bars = bars
    master = master
    filing = filing
    year = year
    half = half
    rate = rate
    gold = gold
    article = article
    x = x
    y = y
    None = None
    Orders = {o1, o2}
    Reads = {balance, first, second}
    MaxPages <- MCMaxPages
    Items = {bars, master, filing, year, half, rate, gold, article}
    FeedOf <- MCFeedOf
    Jobs = {first, second}
    Readers = {r}
    Stocks = {x, y}
    MarketOf <- MCMarketOf
    LastVersion <- MCLastVersion
    Scenarios <- MCScenarios
INVARIANTS
    AnswerMatchesExchange
    TokenRejectedTwice
    ListedIsActive
    EntryNeedsRace
CHECK_DEADLOCK FALSE
