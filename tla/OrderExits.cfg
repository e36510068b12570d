\* A stop-loss exit and an exit that may need approval, of the one position held; nobody answers.
CONSTANTS
    Entries = {}
    Exits = {exit1, exit2}
    Held = {held}
    Position = held
    TargetOf <- MCTargetOf
    Sells = {exit1, exit2}
    ProtectiveExits = {exit1}
    StopLosses = {exit1}
    Managers = {scheduler, api}
    Scheduler = scheduler
    ManagerOf <- MCManagerOf
    Tasks = {}
    OriginalQty = 2
    OtherQty = {1}
    HumanApprovalRequired = TRUE
    SkipOnStopLoss = TRUE
    BrokerReplies = {"filled", "submitted", "reply_lost", "refused"}
    None = None
SPECIFICATION Spec
INVARIANTS
    BooksMatchExchange
    StopLossNeverWaits
