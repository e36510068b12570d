\* Two stop-loss exits of the one position held.
CONSTANTS
    Entries = {}
    Exits = {exit1, exit2}
    Held = {held}
    Position = held
    TargetOf <- MCTargetOf
    Sells = {exit1, exit2}
    ProtectiveExits = {exit1, exit2}
    StopLosses = {exit1, exit2}
    Managers = {scheduler, api}
    Scheduler = scheduler
    ManagerOf <- MCManagerOf
    Tasks = {t1}
    OriginalQty = 2
    OtherQty = {1}
    HumanApprovalRequired = TRUE
    SkipOnStopLoss = TRUE
    BrokerReplies = {"filled"}
    None = None
SPECIFICATION Spec
PROPERTIES
    ClosedPositionKeepsItsExit
