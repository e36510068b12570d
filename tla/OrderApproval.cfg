\* One entry that needs approval; two answers in flight; an API request may take the bot over.
CONSTANTS
    Entries = {entry}
    Exits = {}
    Held = {held}
    Position = held
    TargetOf <- MCTargetOf
    Sells = {}
    ProtectiveExits = {}
    StopLosses = {}
    Managers = {scheduler, api}
    Scheduler = scheduler
    ManagerOf <- MCManagerOf
    Tasks = {t1, t2}
    OriginalQty = 2
    OtherQty = {1}
    HumanApprovalRequired = TRUE
    SkipOnStopLoss = TRUE
    BrokerReplies = {"filled", "submitted", "reply_lost", "refused"}
    None = None
SPECIFICATION Spec
INVARIANTS
    TypeOK
    TradeNeedsConsent
    RefusedNeverTrades
    BooksMatchExchange
    ModifiedQuantityIsVetted
    ArmedRequestHasWaiter
PROPERTIES
    EndIsFinal
    ImplementsLifecycle
