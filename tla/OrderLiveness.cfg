\* One entry; fair coroutines and tasks.
CONSTANTS
    Entries = {entry}
    Exits = {}
    Held = {held}
    Position = held
    TargetOf <- MCTargetOf
    Sells = {}
    ProtectiveExits = {}
    StopLosses = {}
    Managers = {scheduler, api}
    Scheduler = scheduler
    ManagerOf <- MCManagerOf
    Tasks = {t1}
    OriginalQty = 2
    OtherQty = {1}
    HumanApprovalRequired = TRUE
    SkipOnStopLoss = TRUE
    BrokerReplies = {"filled", "submitted", "reply_lost", "refused"}
    None = None
SPECIFICATION FairSpec
PROPERTIES
    EveryOrderEnds
    ClickEndsWait
