----------------------------- MODULE OrderState -----------------------------
(***************************************************************************)
(* The state the order pipeline of src/execution shares between its parts: *)
(* the database rows of an order (orders, approval_requests, executions,   *)
(* positions), what the exchange holds, the Telegram chat, the clock, and  *)
(* the memory of the one asyncio process that runs it all.                 *)
(*                                                                         *)
(* An order of the model stands for one run of OrderExecutor.execute_entry *)
(* or OrderExecutor.execute_exit and for the rows that run creates.  Every *)
(* await of the code ends a step here: each helper that touches the        *)
(* database opens its own session and commits, so other coroutines run     *)
(* between any two of them.                                                *)
(***************************************************************************)
EXTENDS Naturals

CONSTANTS
    Entries,        \* orders placed by execute_entry
    Exits,          \* orders placed by execute_exit
    Held,           \* positions that are open at the start
    TargetOf,       \* TargetOf[o]: the held position exit order o is to close
    Sells,          \* orders whose side is SELL
    ProtectiveExits,\* exits whose action is STOP_LOSS or TAKE_PROFIT
    StopLosses,     \* protective exits whose reason is STOP_LOSS
    Managers,       \* ApprovalManager instances
    ManagerOf,      \* ManagerOf[o]: the instance that serves order o
    Tasks,          \* tasks that may handle a click or an API answer
    OriginalQty,    \* the quantity the strategy asked for
    OtherQty,       \* quantities a user may substitute for it
    HumanApprovalRequired,  \* the setting HUMAN_APPROVAL_REQUIRED
    SkipOnStopLoss, \* the setting WEB_VERIFY_SKIP_ON_STOP_LOSS
    BrokerReplies,  \* how the broker in use can answer place_order
    None            \* SQL NULL, an empty slot

Orders == Entries \union Exits

\* execute_entry creates a position of its own, named here after the order.
Positions == Entries \union Held

Quantities == {OriginalQty} \union OtherQty

ASSUME OrdersAssumption ==
    /\ Entries \intersect Exits = {}
    /\ Entries \intersect Held = {}
    /\ TargetOf \in [Exits -> Held]
    /\ ManagerOf \in [Orders -> Managers]
    /\ Exits \subseteq Sells
    /\ Sells \subseteq Orders
    /\ StopLosses \subseteq ProtectiveExits
    /\ ProtectiveExits \subseteq Exits

ASSUME ValuesAssumption ==
    /\ OriginalQty \notin OtherQty
    /\ None \notin Orders \union Positions \union Managers \union Quantities
    /\ None \notin {"clear", "blocked", "auto_approved", "approved", "rejected", "timeout"}
    /\ HumanApprovalRequired \in BOOLEAN
    /\ SkipOnStopLoss \in BOOLEAN
    /\ BrokerReplies \subseteq {"filled", "submitted", "reply_lost", "refused"}

VARIABLES
    \* orders
    orderStatus, approvalStatus, webResult, modifiedQty, positionId,
    \* approval_requests, executions, positions
    requestStatus, executed, positionStatus, exitOrder,
    \* outside the process: the exchange, the chat and the clock
    exchange, tradedQty, buttons, expired,
    \* the process
    running, handler, managerState, selected,
    \* one coroutine per order: where it stands and its local variables
    pc, decision, quantity, createdId,
    \* ApprovalManager._pending_events and _pending_results, by order
    event, pendingResult,
    \* tasks that carry a user's answer
    task,
    \* history, read by properties only: the buttons a user clicked and the
    \* quantities the risk manager passed
    clicked, vetted

rows == <<orderStatus, approvalStatus, webResult, modifiedQty, positionId>>
requests == <<requestStatus, expired>>
books == <<executed, positionStatus, exitOrder>>
market == <<exchange, tradedQty>>
process == <<running, handler, managerState, selected>>
locals == <<decision, quantity, createdId>>
registry == <<event, pendingResult>>
history == <<clicked, vetted>>

vars == <<rows, requests, books, market, buttons, process, pc, locals,
          registry, task, history>>

-----------------------------------------------------------------------------
(* The values of each column and slot.                                     *)

Terminal == {"cancelled", "failed", "filled"}
OrderStatus == {"absent", "pending"} \union Terminal
Answers == {"approved", "rejected"}
Consents == {"auto_approved", "approved"}
Refusals == {"rejected", "timeout"}
ApprovalStatus == Consents \union Refusals
RequestStatus == ApprovalStatus \union {"absent", "pending"}

\* Where the coroutine of an order stands.
PC == {"idle", "verifying", "blocked", "authorising",
       "asking", "registering", "waiting", "timing_out", "timeout_recorded",
       "approved", "refused", "risk_check", "risk_refused",
       "placing", "not_filled", "recording",
       "opening", "closing", "close_commit", "completing",
       "raised", "done", "lost"}

\* What a task carries: the answer to one request, on its way through
\* _handle_callback ("checked", "recorded") or respond_to_approval ("read").
Carried == [stage : {"checked", "recorded", "read"}, order : Orders,
            answer : Answers, qty : OtherQty \union {None}]

TypeOK ==
    /\ orderStatus \in [Orders -> OrderStatus]
    /\ approvalStatus \in [Orders -> ApprovalStatus]
    /\ webResult \in [Orders -> {None, "clear", "blocked"}]
    /\ modifiedQty \in [Orders -> Quantities \union {None}]
    /\ positionId \in [Orders -> Positions \union {None}]
    /\ requestStatus \in [Orders -> RequestStatus]
    /\ expired \in [Orders -> BOOLEAN]
    /\ executed \in [Orders -> BOOLEAN]
    /\ positionStatus \in [Positions -> {"absent", "open", "closed"}]
    /\ exitOrder \in [Positions -> Exits \union {None}]
    /\ exchange \in [Orders -> {"none", "live", "filled"}]
    /\ tradedQty \in [Orders -> Quantities \union {None}]
    /\ buttons \in [Orders -> BOOLEAN]
    /\ running \in BOOLEAN
    /\ handler \in Managers \union {None}
    /\ managerState \in [Managers -> {"absent", "registered", "cleaning", "ready"}]
    /\ selected \in [Managers -> SUBSET Orders]
    /\ pc \in [Orders -> PC]
    /\ decision \in [Orders -> ApprovalStatus \union {None}]
    /\ quantity \in [Orders -> Quantities]
    /\ createdId \in [Orders -> Positions \union {None}]
    /\ event \in [Orders -> {"absent", "unset", "set"}]
    /\ pendingResult \in [Orders -> Answers \union {None}]
    /\ task \in [Tasks -> Carried \union {None}]
    /\ clicked \in [Orders -> SUBSET Answers]
    /\ vetted \in [Orders -> SUBSET Quantities]

Init ==
    /\ orderStatus = [o \in Orders |-> "absent"]
    /\ approvalStatus = [o \in Orders |-> "auto_approved"]
    /\ webResult = [o \in Orders |-> None]
    /\ modifiedQty = [o \in Orders |-> None]
    /\ positionId = [o \in Orders |-> None]
    /\ requestStatus = [o \in Orders |-> "absent"]
    /\ expired = [o \in Orders |-> FALSE]
    /\ executed = [o \in Orders |-> FALSE]
    /\ positionStatus = [p \in Positions |-> IF p \in Held THEN "open" ELSE "absent"]
    /\ exitOrder = [p \in Positions |-> None]
    /\ exchange = [o \in Orders |-> "none"]
    /\ tradedQty = [o \in Orders |-> None]
    /\ buttons = [o \in Orders |-> FALSE]
    /\ running = TRUE
    /\ handler = None
    /\ managerState = [m \in Managers |-> "absent"]
    /\ selected = [m \in Managers |-> {}]
    /\ pc = [o \in Orders |-> "idle"]
    /\ decision = [o \in Orders |-> None]
    /\ quantity = [o \in Orders |-> OriginalQty]
    /\ createdId = [o \in Orders |-> None]
    /\ event = [o \in Orders |-> "absent"]
    /\ pendingResult = [o \in Orders |-> None]
    /\ task = [t \in Tasks |-> None]
    /\ clicked = [o \in Orders |-> {}]
    /\ vetted = [o \in Orders |-> {}]

\* The coroutine of order o goes from one await to the next.
Goto(o, from, to) ==
    /\ pc[o] = from
    /\ pc' = [pc EXCEPT ![o] = to]
=============================================================================
