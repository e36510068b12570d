------------------------- MODULE OrderExecutorProofs -------------------------
(***************************************************************************)
(* Proofs about OrderExecutor: its safety properties hold, and it          *)
(* implements OrderLifecycle, for every set of orders, positions, managers *)
(* and tasks and every broker.                                             *)
(*                                                                         *)
(* Each property but the type invariant depends on facts about where the   *)
(* coroutines stand, so they are all drawn from one inductive invariant,   *)
(* IInv.  Its parts are mutually dependent: what the market holds follows  *)
(* from the decision of the coroutine, the decision from the answers on    *)
(* their way, the books from the market.                                   *)
(***************************************************************************)
EXTENDS OrderExecutor, TLAPS

(***************************************************************************)
(* Where a coroutine can stand, by what it has done so far.                *)
(***************************************************************************)
Armed     == {"waiting", "timing_out", "timeout_recorded"}
Asking    == {"asking", "registering"} \union Armed
Undecided == {"idle", "verifying", "blocked", "authorising"} \union Asking
Cleared   == {"approved", "risk_check", "risk_refused", "placing"}
Unsent    == Undecided \union Cleared \union {"refused"}
Booking   == {"opening", "closing", "close_commit", "completing"}

(***************************************************************************)
(* The inductive invariant.                                                *)
(***************************************************************************)
\* Only entries open a position and only exits close one, so the names these
\* steps write are names of positions.
RightBranch ==
    \A o \in Orders :
        /\ pc[o] = "opening" => o \in Entries
        /\ pc[o] \in {"closing", "close_commit"} => o \in Exits

TypeInv == TypeOK /\ RightBranch

\* The row exists once the coroutine has started, its status is final only
\* once the coroutine has ended, and nothing is cleared before verification.
StageInv ==
    \A o \in Orders :
        /\ orderStatus[o] = "absent" <=> pc[o] = "idle"
        /\ orderStatus[o] \in Terminal => pc[o] = "done"
        /\ pc[o] \in {"idle", "verifying"} => webResult[o] # "clear"

\* Any answer on its way to a coroutine is one the user clicked for its order.
AnswerInv ==
    /\ \A o \in Orders :
        /\ pendingResult[o] # None => pendingResult[o] \in clicked[o]
        /\ event[o] = "set" => pendingResult[o] # None
    /\ \A t \in Tasks :
        task[t] # None /\ task[t].stage \in {"checked", "recorded"} =>
            task[t].answer \in clicked[task[t].order]

\* The decision belongs to the stage, and has its reason.
DecisionInv ==
    \A o \in Orders :
        /\ pc[o] \in Undecided => decision[o] = None
        /\ pc[o] \in Cleared => decision[o] \in Consents
        /\ pc[o] = "refused" => decision[o] \in Refusals
        /\ pc[o] \in Asking \union {"authorising"} \/ decision[o] # None =>
                webResult[o] = "clear"
        /\ decision[o] = "auto_approved" => \E small \in BOOLEAN : CheckAutoApprove(o, small)
        /\ decision[o] = "approved" => "approved" \in clicked[o]

\* Nothing is in the market before a decision to trade, and the steps that
\* book a fill follow a fill.
MarketInv ==
    \A o \in Orders :
        /\ pc[o] \in Unsent => exchange[o] = "none"
        /\ pc[o] \in Booking \union {"recording"} => exchange[o] = "filled"
        /\ exchange[o] # "none" => decision[o] \in Consents
        /\ orderStatus[o] = "cancelled" => exchange[o] = "none"

\* Every step after the execution row finds it there; what a local variable
\* or a column names exists.
BookInv ==
    /\ \A o \in Orders : pc[o] \in Booking => executed[o]
    /\ \A o \in Entries : createdId[o] # None => positionStatus[o] # "absent"
    /\ BooksMatchExchange

\* The quantity on its way to the broker is the strategy's or was vetted.
QuantityInv ==
    \A o \in Entries :
        /\ pc[o] \in Undecided \union {"approved"} => quantity[o] = OriginalQty
        /\ pc[o] = "placing" /\ quantity[o] # OriginalQty => quantity[o] \in vetted[o]
        /\ exchange[o] # "none" /\ tradedQty[o] # OriginalQty => tradedQty[o] \in vetted[o]

\* A registered request is waited for, timed out, or left by a cancelled wait.
ArmedInv ==
    \A o \in Orders :
        /\ event[o] # "absent" =>
            \/ pc[o] \in Armed
            \/ pc[o] \in {"raised", "done"} /\ expired[o] /\ decision[o] = None
            \/ pc[o] = "lost" /\ decision[o] = None
        /\ pc[o] \in {"timing_out", "timeout_recorded"} => expired[o]

\* No part of the machinery of requests ever holds a stop loss.
StopLossInv ==
    \A o \in StopLosses :
        /\ pc[o] \notin Asking
        /\ SkipOnStopLoss => webResult[o] # "blocked"
        /\ requestStatus[o] \in {"absent", "auto_approved"}
        /\ event[o] = "absent"
        /\ \A m \in Managers : o \notin selected[m]
        /\ \A t \in Tasks : task[t] # None => task[t].order # o

Control == StageInv /\ AnswerInv /\ DecisionInv /\ ArmedInv /\ StopLossInv
Trade == MarketInv /\ BookInv /\ QuantityInv

IInv == TypeInv /\ Control /\ Trade

\* What EndIsFinal keeps of an order.
Kept(o) ==
    /\ orderStatus'[o] = orderStatus[o]
    /\ executed'[o] = executed[o]
    /\ tradedQty'[o] = tradedQty[o]

USE DEF rows, requests, books, market, process, locals, registry, history,
        Orders, Positions, Quantities, OrderStatus, Terminal, Answers, Consents,
        Refusals, ApprovalStatus, RequestStatus, PC, Carried, Goto

-----------------------------------------------------------------------------
\* The initial states satisfy the invariant.
LEMMA InitIInv == Init => IInv
<1> SUFFICES ASSUME Init PROVE IInv
    OBVIOUS
<1> USE OrdersAssumption, ValuesAssumption DEF Init
<1>1. TypeInv
    BY DEF TypeInv, TypeOK, RightBranch
<1>2. StageInv /\ AnswerInv /\ DecisionInv
    BY DEF StageInv, AnswerInv, DecisionInv, Asking, Armed, Cleared, Undecided
<1>3. MarketInv /\ BookInv
    BY DEF MarketInv, BookInv, BooksMatchExchange, Booking
<1>4. QuantityInv /\ ArmedInv /\ StopLossInv
    BY DEF QuantityInv, ArmedInv, StopLossInv, Asking, Armed
<1> QED
    BY <1>1, <1>2, <1>3, <1>4 DEF IInv, Control, Trade

\* Every step keeps the types: each action writes a value of the right set,
\* and only entries reach the step that opens a position.
LEMMA TypeInvStep == TypeInv /\ [Next]_vars => TypeInv'
<1> SUFFICES ASSUME TypeInv, [Next]_vars PROVE TypeInv'
    OBVIOUS
<1> USE DEF TypeInv, TypeOK, RightBranch
<1>1. ASSUME NEW m \in Managers, RegisterHandler(m) PROVE TypeInv'
    BY <1>1 DEF RegisterHandler
<1>2. ASSUME NEW m \in Managers, SelectExpired(m) PROVE TypeInv'
    BY <1>2 DEF SelectExpired
<1>3. ASSUME NEW m \in Managers, CleanupExpired(m) PROVE TypeInv'
    BY <1>3 DEF CleanupExpired
<1>4. ASSUME NEW o \in Orders, CreateOrder(o) PROVE TypeInv'
    BY <1>4 DEF CreateOrder
<1>5. ASSUME NEW o \in Orders, VerifyWeb(o) PROVE TypeInv'
    <2>1. /\ pc' \in [Orders -> PC]
          /\ webResult' \in [Orders -> {None, "clear", "blocked"}]
        BY <1>5 DEF VerifyWeb
    <2>2. pc'[o] \in {"authorising", "blocked"} /\ \A q \in Orders \ {o} : pc'[q] = pc[q]
        BY <1>5 DEF VerifyWeb
    <2> QED
        BY <1>5, <2>1, <2>2 DEF VerifyWeb
<1>6. ASSUME NEW o \in Orders, CancelOrder(o) PROVE TypeInv'
    BY <1>6 DEF CancelOrder
<1>7. ASSUME NEW o \in Orders, AutoApprove(o) PROVE TypeInv'
    BY <1>7 DEF AutoApprove
<1>8. ASSUME NEW o \in Orders, InsertRequest(o) PROVE TypeInv'
    BY <1>8 DEF InsertRequest
<1>9. ASSUME NEW o \in Orders, SendApprovalRequest(o) PROVE TypeInv'
    BY <1>9 DEF SendApprovalRequest
<1>10. ASSUME NEW o \in Orders, AwaitResponse(o) PROVE TypeInv'
    BY <1>10 DEF AwaitResponse
<1>11. ASSUME NEW o \in Orders, WakeUp(o) PROVE TypeInv'
    BY <1>11 DEF WakeUp, Forget
<1>12. ASSUME NEW o \in Orders, TimeoutFires(o) PROVE TypeInv'
    BY <1>12 DEF TimeoutFires
<1>13. ASSUME NEW o \in Orders, RecordTimeout(o) PROVE TypeInv'
    BY <1>13 DEF RecordTimeout
<1>14. ASSUME NEW o \in Orders, FinishTimeout(o) PROVE TypeInv'
    BY <1>14 DEF FinishTimeout, Forget
<1>15. ASSUME NEW o \in Orders, ReadApprovedOrder(o) PROVE TypeInv'
    BY <1>15 DEF ReadApprovedOrder
<1>16. ASSUME NEW o \in Orders, CheckRisk(o) PROVE TypeInv'
    BY <1>16 DEF CheckRisk
<1>17. ASSUME NEW o \in Orders, PlaceOrder(o) PROVE TypeInv'
    BY <1>17 DEF PlaceOrder, QuantityToTrade, CountsAsFilled
<1>18. ASSUME NEW o \in Orders, FailUnfilled(o) PROVE TypeInv'
    BY <1>18 DEF FailUnfilled
<1>19. ASSUME NEW o \in Orders, RecordExecution(o) PROVE TypeInv'
    BY <1>19 DEF RecordExecution
<1>20. ASSUME NEW o \in Orders, OpenPosition(o) PROVE TypeInv'
    <2>1. o \in Entries
        BY <1>20 DEF OpenPosition
    <2>2. pc' \in [Orders -> PC]
        BY <1>20 DEF OpenPosition
    <2>3. positionStatus' \in [Positions -> {"absent", "open", "closed"}]
        BY <1>20, <2>1 DEF OpenPosition
    <2>4. createdId' \in [Orders -> Positions \union {None}]
        BY <1>20, <2>1 DEF OpenPosition
    <2>5. RightBranch'
        BY <1>20 DEF OpenPosition
    <2> QED
        BY <1>20, <2>2, <2>3, <2>4, <2>5 DEF OpenPosition
<1>21. ASSUME NEW o \in Orders, ReadPosition(o) PROVE TypeInv'
    BY <1>21 DEF ReadPosition
<1>22. ASSUME NEW o \in Orders, ClosePosition(o) PROVE TypeInv'
    <2>1. o \in Exits /\ TargetOf[o] \in Positions
        BY <1>22, OrdersAssumption DEF ClosePosition
    <2>2. pc' \in [Orders -> PC]
        BY <1>22 DEF ClosePosition
    <2>3. positionStatus' \in [Positions -> {"absent", "open", "closed"}]
        BY <1>22, <2>1 DEF ClosePosition
    <2>4. exitOrder' \in [Positions -> Exits \union {None}]
        BY <1>22, <2>1 DEF ClosePosition
    <2>5. RightBranch'
        BY <1>22 DEF ClosePosition
    <2> QED
        BY <1>22, <2>2, <2>3, <2>4, <2>5 DEF ClosePosition
<1>23. ASSUME NEW o \in Orders, CompleteOrder(o) PROVE TypeInv'
    BY <1>23, OrdersAssumption DEF CompleteOrder
<1>24. ASSUME NEW o \in Orders, Raise(o) PROVE TypeInv'
    BY <1>24 DEF Raise, MayRaise
<1>25. ASSUME NEW o \in Orders, HandleException(o) PROVE TypeInv'
    BY <1>25 DEF HandleException
<1>26. ASSUME NEW o \in Orders, Expire(o) PROVE TypeInv'
    BY <1>26 DEF Expire
<1>27. ASSUME NEW o \in Orders, ExchangeFills(o) PROVE TypeInv'
    BY <1>27 DEF ExchangeFills
<1>28. ASSUME NEW t \in Tasks, RecordClick(t) PROVE TypeInv'
    <2>1. task[t] \in Carried
        BY <1>28 DEF RecordClick, At
    <2>2. task' \in [Tasks -> Carried \union {None}]
        BY <1>28, <2>1 DEF RecordClick
    <2>3. /\ requestStatus' \in [Orders -> RequestStatus]
          /\ approvalStatus' \in [Orders -> ApprovalStatus]
        BY <1>28, <2>1 DEF RecordClick, WriteStatus
    <2> QED
        BY <1>28, <2>2, <2>3 DEF RecordClick
<1>29. ASSUME NEW t \in Tasks, SignalClick(t) PROVE TypeInv'
    <2>1. task[t] \in Carried
        BY <1>29 DEF SignalClick, At
    <2>2. task' \in [Tasks -> Carried \union {None}]
        BY <1>29 DEF SignalClick
    <2>3. event' \in [Orders -> {"absent", "unset", "set"}]
        BY <1>29, <2>1 DEF SignalClick, Signal
    <2>4. pendingResult' \in [Orders -> Answers \union {None}]
        BY <1>29, <2>1 DEF SignalClick, Signal
    <2>5. buttons' \in [Orders -> BOOLEAN]
        BY <1>29, <2>1 DEF SignalClick
    <2> QED
        BY <1>29, <2>2, <2>3, <2>4, <2>5 DEF SignalClick
<1>30. ASSUME NEW t \in Tasks, WriteAnswer(t) PROVE TypeInv'
    BY <1>30 DEF WriteAnswer, At, WriteStatus
<1>31. ASSUME NEW t \in Tasks, NEW o \in Orders, NEW answer \in Answers,
             Click(t, o, answer) PROVE TypeInv'
    BY <1>31 DEF Click, TakeUp
<1>32. ASSUME NEW t \in Tasks, NEW o \in Orders, NEW answer \in Answers,
             NEW qty \in OtherQty \union {None}, ReadRequest(t, o, answer, qty) PROVE TypeInv'
    BY <1>32 DEF ReadRequest, TakeUp
<1>33. CASE Crash
    BY <1>33 DEF Crash
<1>34. CASE Restart
    BY <1>34 DEF Restart
<1>35. ASSUME NEW o \in Orders, StopCoroutine(o) PROVE TypeInv'
    BY <1>35 DEF StopCoroutine
<1>36. CASE UNCHANGED vars
    BY <1>36 DEF vars
<1> QED
    <2> HIDE DEF TypeInv
    <2> QED
        BY <1>1, <1>2, <1>3, <1>4, <1>5, <1>6, <1>7, <1>8, <1>9, <1>10,
           <1>11, <1>12, <1>13, <1>14, <1>15, <1>16, <1>17, <1>18, <1>19,
           <1>20, <1>21, <1>22, <1>23, <1>24, <1>25, <1>26, <1>27, <1>28,
           <1>29, <1>30, <1>31, <1>32, <1>33, <1>34, <1>35, <1>36
        DEF Next, Execute, Initialize, Answer

\* Every step keeps decisions, answers and requests in order.
LEMMA ControlStep == TypeInv /\ Control /\ TypeInv' /\ [Next]_vars => Control'
<1> SUFFICES ASSUME TypeInv, Control, TypeInv', [Next]_vars PROVE Control'
    OBVIOUS
<1> StopLosses \subseteq Orders /\ StopLosses \subseteq ProtectiveExits
    BY OrdersAssumption
<1> USE ValuesAssumption
    DEF TypeInv, TypeOK, Control, StageInv, AnswerInv, DecisionInv, ArmedInv, StopLossInv,
        Armed, Asking, Undecided, Cleared
<1>1. ASSUME NEW m \in Managers, RegisterHandler(m) PROVE Control'
    BY <1>1 DEF RegisterHandler
<1>2. ASSUME NEW m \in Managers, SelectExpired(m) PROVE Control'
    BY <1>2 DEF SelectExpired
<1>3. ASSUME NEW m \in Managers, CleanupExpired(m) PROVE Control'
    BY <1>3 DEF CleanupExpired
<1>4. ASSUME NEW o \in Orders, CreateOrder(o) PROVE Control'
    BY <1>4 DEF CreateOrder
<1>5. ASSUME NEW o \in Orders, VerifyWeb(o) PROVE Control'
    BY <1>5 DEF VerifyWeb
<1>6. ASSUME NEW o \in Orders, CancelOrder(o) PROVE Control'
    BY <1>6 DEF CancelOrder
<1>7. ASSUME NEW o \in Orders, AutoApprove(o) PROVE Control'
    BY <1>7 DEF AutoApprove
<1>8. ASSUME NEW o \in Orders, InsertRequest(o) PROVE Control'
    BY <1>8 DEF InsertRequest, CheckAutoApprove
<1>9. ASSUME NEW o \in Orders, SendApprovalRequest(o) PROVE Control'
    BY <1>9 DEF SendApprovalRequest
<1>10. ASSUME NEW o \in Orders, AwaitResponse(o) PROVE Control'
    BY <1>10 DEF AwaitResponse
<1>11. ASSUME NEW o \in Orders, WakeUp(o) PROVE Control'
    BY <1>11 DEF WakeUp, Forget
<1>12. ASSUME NEW o \in Orders, TimeoutFires(o) PROVE Control'
    BY <1>12 DEF TimeoutFires
<1>13. ASSUME NEW o \in Orders, RecordTimeout(o) PROVE Control'
    BY <1>13 DEF RecordTimeout
<1>14. ASSUME NEW o \in Orders, FinishTimeout(o) PROVE Control'
    BY <1>14 DEF FinishTimeout, Forget
<1>15. ASSUME NEW o \in Orders, ReadApprovedOrder(o) PROVE Control'
    BY <1>15 DEF ReadApprovedOrder
<1>16. ASSUME NEW o \in Orders, CheckRisk(o) PROVE Control'
    BY <1>16 DEF CheckRisk
<1>17. ASSUME NEW o \in Orders, PlaceOrder(o) PROVE Control'
    BY <1>17 DEF PlaceOrder, QuantityToTrade, CountsAsFilled
<1>18. ASSUME NEW o \in Orders, FailUnfilled(o) PROVE Control'
    BY <1>18 DEF FailUnfilled
<1>19. ASSUME NEW o \in Orders, RecordExecution(o) PROVE Control'
    BY <1>19 DEF RecordExecution
<1>20. ASSUME NEW o \in Orders, OpenPosition(o) PROVE Control'
    BY <1>20 DEF OpenPosition
<1>21. ASSUME NEW o \in Orders, ReadPosition(o) PROVE Control'
    BY <1>21 DEF ReadPosition
<1>22. ASSUME NEW o \in Orders, ClosePosition(o) PROVE Control'
    BY <1>22 DEF ClosePosition
<1>23. ASSUME NEW o \in Orders, CompleteOrder(o) PROVE Control'
    BY <1>23 DEF CompleteOrder
<1>24. ASSUME NEW o \in Orders, Raise(o) PROVE Control'
    BY <1>24 DEF Raise, MayRaise
<1>25. ASSUME NEW o \in Orders, HandleException(o) PROVE Control'
    BY <1>25 DEF HandleException
<1>26. ASSUME NEW o \in Orders, Expire(o) PROVE Control'
    BY <1>26 DEF Expire
<1>27. ASSUME NEW o \in Orders, ExchangeFills(o) PROVE Control'
    BY <1>27 DEF ExchangeFills
<1>28. ASSUME NEW t \in Tasks, RecordClick(t) PROVE Control'
    BY <1>28 DEF RecordClick, At, WriteStatus
<1>29. ASSUME NEW t \in Tasks, SignalClick(t) PROVE Control'
    <2>1. /\ task[t] \in Carried
          /\ task[t].answer \in clicked[task[t].order]
        BY <1>29 DEF SignalClick, At
    <2>2. task' = [task EXCEPT ![t] = None]
        BY <1>29 DEF SignalClick
    <2>3. AnswerInv'
        <3>1. \A u \in Tasks : task'[u] = task[u] \/ task'[u] = None
            BY <2>2
        <3>2. \A q \in Orders :
                \/ event'[q] = event[q] /\ pendingResult'[q] = pendingResult[q]
                \/ /\ q = task[t].order
                   /\ event'[q] = "absent" <=> event[q] = "absent"
                   /\ pendingResult'[q] = task[t].answer
            BY <1>29, <2>1 DEF SignalClick, Signal
        <3>3. clicked' = clicked
            BY <1>29 DEF SignalClick
        <3>4. \A u \in Tasks :
                task'[u] # None /\ task'[u].stage \in {"checked", "recorded"} =>
                    task'[u].answer \in clicked'[task'[u].order]
            BY <3>1, <3>3
        <3>5. \A q \in Orders :
                /\ pendingResult'[q] # None => pendingResult'[q] \in clicked'[q]
                /\ event'[q] = "set" => pendingResult'[q] # None
            BY <2>1, <3>2, <3>3
        <3> QED
            BY <3>4, <3>5
    <2>4. ArmedInv' /\ StopLossInv'
        BY <1>29, <2>1, <2>2 DEF SignalClick, Signal
    <2>5. StageInv' /\ DecisionInv'
        BY <1>29 DEF SignalClick
    <2> QED
        BY <2>3, <2>4, <2>5
<1>30. ASSUME NEW t \in Tasks, WriteAnswer(t) PROVE Control'
    BY <1>30 DEF WriteAnswer, At, WriteStatus
<1>31. ASSUME NEW t \in Tasks, NEW o \in Orders, NEW answer \in Answers,
             Click(t, o, answer) PROVE Control'
    BY <1>31 DEF Click, TakeUp, Expects
<1>32. ASSUME NEW t \in Tasks, NEW o \in Orders, NEW answer \in Answers,
             NEW qty \in OtherQty \union {None}, ReadRequest(t, o, answer, qty) PROVE Control'
    BY <1>32 DEF ReadRequest, TakeUp
<1>33. CASE Crash
    BY <1>33 DEF Crash
<1>34. CASE Restart
    BY <1>34 DEF Restart
<1>35. ASSUME NEW o \in Orders, StopCoroutine(o) PROVE Control'
    BY <1>35 DEF StopCoroutine
<1>36. CASE UNCHANGED vars
    BY <1>36 DEF vars
<1> QED
    <2> HIDE DEF Control
    <2> QED
        BY <1>1, <1>2, <1>3, <1>4, <1>5, <1>6, <1>7, <1>8, <1>9, <1>10,
           <1>11, <1>12, <1>13, <1>14, <1>15, <1>16, <1>17, <1>18, <1>19,
           <1>20, <1>21, <1>22, <1>23, <1>24, <1>25, <1>26, <1>27, <1>28,
           <1>29, <1>30, <1>31, <1>32, <1>33, <1>34, <1>35, <1>36
        DEF Next, Execute, Initialize, Answer

\* Every step keeps the market, the books and the quantities in order.
LEMMA TradeStep == TypeInv /\ Control /\ Trade /\ TypeInv' /\ [Next]_vars => Trade'
<1> SUFFICES ASSUME TypeInv, Control, Trade, TypeInv', [Next]_vars PROVE Trade'
    OBVIOUS
<1> /\ Entries \intersect Exits = {} /\ Entries \intersect Held = {}
    /\ TargetOf \in [Exits -> Held]
    /\ None \notin Orders
    BY OrdersAssumption, ValuesAssumption
<1> USE DEF TypeInv, TypeOK, RightBranch, Control, StageInv, DecisionInv, Trade, MarketInv,
            BookInv, BooksMatchExchange, QuantityInv, Armed, Asking, Undecided, Cleared,
            Unsent, Booking
<1>1. ASSUME NEW m \in Managers, RegisterHandler(m) PROVE Trade'
    BY <1>1 DEF RegisterHandler
<1>2. ASSUME NEW m \in Managers, SelectExpired(m) PROVE Trade'
    BY <1>2 DEF SelectExpired
<1>3. ASSUME NEW m \in Managers, CleanupExpired(m) PROVE Trade'
    BY <1>3 DEF CleanupExpired
<1>4. ASSUME NEW o \in Orders, CreateOrder(o) PROVE Trade'
    BY <1>4 DEF CreateOrder
<1>5. ASSUME NEW o \in Orders, VerifyWeb(o) PROVE Trade'
    BY <1>5 DEF VerifyWeb
<1>6. ASSUME NEW o \in Orders, CancelOrder(o) PROVE Trade'
    BY <1>6 DEF CancelOrder
<1>7. ASSUME NEW o \in Orders, AutoApprove(o) PROVE Trade'
    BY <1>7 DEF AutoApprove
<1>8. ASSUME NEW o \in Orders, InsertRequest(o) PROVE Trade'
    BY <1>8 DEF InsertRequest, CheckAutoApprove
<1>9. ASSUME NEW o \in Orders, SendApprovalRequest(o) PROVE Trade'
    BY <1>9 DEF SendApprovalRequest
<1>10. ASSUME NEW o \in Orders, AwaitResponse(o) PROVE Trade'
    BY <1>10 DEF AwaitResponse
<1>11. ASSUME NEW o \in Orders, WakeUp(o) PROVE Trade'
    BY <1>11 DEF WakeUp, Forget
<1>12. ASSUME NEW o \in Orders, TimeoutFires(o) PROVE Trade'
    BY <1>12 DEF TimeoutFires
<1>13. ASSUME NEW o \in Orders, RecordTimeout(o) PROVE Trade'
    BY <1>13 DEF RecordTimeout
<1>14. ASSUME NEW o \in Orders, FinishTimeout(o) PROVE Trade'
    BY <1>14 DEF FinishTimeout, Forget
<1>15. ASSUME NEW o \in Orders, ReadApprovedOrder(o) PROVE Trade'
    BY <1>15 DEF ReadApprovedOrder
<1>16. ASSUME NEW o \in Orders, CheckRisk(o) PROVE Trade'
    BY <1>16 DEF CheckRisk
<1>17. ASSUME NEW o \in Orders, PlaceOrder(o) PROVE Trade'
    BY <1>17 DEF PlaceOrder, QuantityToTrade, CountsAsFilled
<1>18. ASSUME NEW o \in Orders, FailUnfilled(o) PROVE Trade'
    BY <1>18 DEF FailUnfilled
<1>19. ASSUME NEW o \in Orders, RecordExecution(o) PROVE Trade'
    BY <1>19 DEF RecordExecution
<1>20. ASSUME NEW o \in Orders, OpenPosition(o) PROVE Trade'
    BY <1>20 DEF OpenPosition
<1>21. ASSUME NEW o \in Orders, ReadPosition(o) PROVE Trade'
    BY <1>21 DEF ReadPosition
<1>22. ASSUME NEW o \in Orders, ClosePosition(o) PROVE Trade'
    <2>1. executed[o] /\ o # None /\ TargetOf[o] \in Held
        BY <1>22 DEF ClosePosition
    <2>2. BookInv'
        BY <1>22, <2>1 DEF ClosePosition
    <2>3. MarketInv' /\ QuantityInv'
        BY <1>22 DEF ClosePosition
    <2> QED
        BY <2>2, <2>3
<1>23. ASSUME NEW o \in Orders, CompleteOrder(o) PROVE Trade'
    BY <1>23 DEF CompleteOrder
<1>24. ASSUME NEW o \in Orders, Raise(o) PROVE Trade'
    BY <1>24 DEF Raise, MayRaise
<1>25. ASSUME NEW o \in Orders, HandleException(o) PROVE Trade'
    BY <1>25 DEF HandleException
<1>26. ASSUME NEW o \in Orders, Expire(o) PROVE Trade'
    BY <1>26 DEF Expire
<1>27. ASSUME NEW o \in Orders, ExchangeFills(o) PROVE Trade'
    BY <1>27 DEF ExchangeFills
<1>28. ASSUME NEW t \in Tasks, RecordClick(t) PROVE Trade'
    BY <1>28 DEF RecordClick, At, WriteStatus
<1>29. ASSUME NEW t \in Tasks, SignalClick(t) PROVE Trade'
    BY <1>29 DEF SignalClick, At, Signal
<1>30. ASSUME NEW t \in Tasks, WriteAnswer(t) PROVE Trade'
    BY <1>30 DEF WriteAnswer, At, WriteStatus
<1>31. ASSUME NEW t \in Tasks, NEW o \in Orders, NEW answer \in Answers,
             Click(t, o, answer) PROVE Trade'
    BY <1>31 DEF Click, TakeUp, Expects
<1>32. ASSUME NEW t \in Tasks, NEW o \in Orders, NEW answer \in Answers,
             NEW qty \in OtherQty \union {None}, ReadRequest(t, o, answer, qty) PROVE Trade'
    BY <1>32 DEF ReadRequest, TakeUp
<1>33. CASE Crash
    BY <1>33 DEF Crash
<1>34. CASE Restart
    BY <1>34 DEF Restart
<1>35. ASSUME NEW o \in Orders, StopCoroutine(o) PROVE Trade'
    BY <1>35 DEF StopCoroutine
<1>36. CASE UNCHANGED vars
    BY <1>36 DEF vars
<1> QED
    <2> HIDE DEF Trade
    <2> QED
        BY <1>1, <1>2, <1>3, <1>4, <1>5, <1>6, <1>7, <1>8, <1>9, <1>10,
           <1>11, <1>12, <1>13, <1>14, <1>15, <1>16, <1>17, <1>18, <1>19,
           <1>20, <1>21, <1>22, <1>23, <1>24, <1>25, <1>26, <1>27, <1>28,
           <1>29, <1>30, <1>31, <1>32, <1>33, <1>34, <1>35, <1>36
        DEF Next, Execute, Initialize, Answer

\* IInv is an invariant of the pipeline.
THEOREM Invariance == Spec => []IInv
<1>1. IInv /\ [Next]_vars => IInv'
    BY TypeInvStep, ControlStep, TradeStep DEF IInv
<1> QED
    BY InitIInv, <1>1, PTL DEF Spec

\* Only a coroutine that has not ended changes the status, the execution or
\* the trade of its order.
LEMMA EndStep ==
    ASSUME TypeInv, [Next]_vars, NEW q \in Orders, pc[q] \in {"done", "lost"}
    PROVE  Kept(q)
<1> USE DEF TypeInv, TypeOK, Kept
<1>1. ASSUME NEW m \in Managers, RegisterHandler(m) PROVE Kept(q)
    BY <1>1 DEF RegisterHandler
<1>2. ASSUME NEW m \in Managers, SelectExpired(m) PROVE Kept(q)
    BY <1>2 DEF SelectExpired
<1>3. ASSUME NEW m \in Managers, CleanupExpired(m) PROVE Kept(q)
    BY <1>3 DEF CleanupExpired
<1>4. ASSUME NEW o \in Orders, CreateOrder(o) PROVE Kept(q)
    BY <1>4 DEF CreateOrder
<1>5. ASSUME NEW o \in Orders, VerifyWeb(o) PROVE Kept(q)
    BY <1>5 DEF VerifyWeb
<1>6. ASSUME NEW o \in Orders, CancelOrder(o) PROVE Kept(q)
    BY <1>6 DEF CancelOrder
<1>7. ASSUME NEW o \in Orders, AutoApprove(o) PROVE Kept(q)
    BY <1>7 DEF AutoApprove
<1>8. ASSUME NEW o \in Orders, InsertRequest(o) PROVE Kept(q)
    BY <1>8 DEF InsertRequest, CheckAutoApprove
<1>9. ASSUME NEW o \in Orders, SendApprovalRequest(o) PROVE Kept(q)
    BY <1>9 DEF SendApprovalRequest
<1>10. ASSUME NEW o \in Orders, AwaitResponse(o) PROVE Kept(q)
    BY <1>10 DEF AwaitResponse
<1>11. ASSUME NEW o \in Orders, WakeUp(o) PROVE Kept(q)
    BY <1>11 DEF WakeUp, Forget
<1>12. ASSUME NEW o \in Orders, TimeoutFires(o) PROVE Kept(q)
    BY <1>12 DEF TimeoutFires
<1>13. ASSUME NEW o \in Orders, RecordTimeout(o) PROVE Kept(q)
    BY <1>13 DEF RecordTimeout
<1>14. ASSUME NEW o \in Orders, FinishTimeout(o) PROVE Kept(q)
    BY <1>14 DEF FinishTimeout, Forget
<1>15. ASSUME NEW o \in Orders, ReadApprovedOrder(o) PROVE Kept(q)
    BY <1>15 DEF ReadApprovedOrder
<1>16. ASSUME NEW o \in Orders, CheckRisk(o) PROVE Kept(q)
    BY <1>16 DEF CheckRisk
<1>17. ASSUME NEW o \in Orders, PlaceOrder(o) PROVE Kept(q)
    BY <1>17 DEF PlaceOrder, QuantityToTrade, CountsAsFilled
<1>18. ASSUME NEW o \in Orders, FailUnfilled(o) PROVE Kept(q)
    BY <1>18 DEF FailUnfilled
<1>19. ASSUME NEW o \in Orders, RecordExecution(o) PROVE Kept(q)
    BY <1>19 DEF RecordExecution
<1>20. ASSUME NEW o \in Orders, OpenPosition(o) PROVE Kept(q)
    BY <1>20 DEF OpenPosition
<1>21. ASSUME NEW o \in Orders, ReadPosition(o) PROVE Kept(q)
    BY <1>21 DEF ReadPosition
<1>22. ASSUME NEW o \in Orders, ClosePosition(o) PROVE Kept(q)
    BY <1>22 DEF ClosePosition
<1>23. ASSUME NEW o \in Orders, CompleteOrder(o) PROVE Kept(q)
    BY <1>23 DEF CompleteOrder
<1>24. ASSUME NEW o \in Orders, Raise(o) PROVE Kept(q)
    BY <1>24 DEF Raise, MayRaise
<1>25. ASSUME NEW o \in Orders, HandleException(o) PROVE Kept(q)
    BY <1>25 DEF HandleException
<1>26. ASSUME NEW o \in Orders, Expire(o) PROVE Kept(q)
    BY <1>26 DEF Expire
<1>27. ASSUME NEW o \in Orders, ExchangeFills(o) PROVE Kept(q)
    BY <1>27 DEF ExchangeFills
<1>28. ASSUME NEW t \in Tasks, RecordClick(t) PROVE Kept(q)
    BY <1>28 DEF RecordClick, At, WriteStatus
<1>29. ASSUME NEW t \in Tasks, SignalClick(t) PROVE Kept(q)
    BY <1>29 DEF SignalClick, At, Signal
<1>30. ASSUME NEW t \in Tasks, WriteAnswer(t) PROVE Kept(q)
    BY <1>30 DEF WriteAnswer, At, WriteStatus
<1>31. ASSUME NEW t \in Tasks, NEW o \in Orders, NEW answer \in Answers,
             Click(t, o, answer) PROVE Kept(q)
    BY <1>31 DEF Click, TakeUp, Expects
<1>32. ASSUME NEW t \in Tasks, NEW o \in Orders, NEW answer \in Answers,
             NEW qty \in OtherQty \union {None}, ReadRequest(t, o, answer, qty) PROVE Kept(q)
    BY <1>32 DEF ReadRequest, TakeUp
<1>33. CASE Crash
    BY <1>33 DEF Crash
<1>34. CASE Restart
    BY <1>34 DEF Restart
<1>35. ASSUME NEW o \in Orders, StopCoroutine(o) PROVE Kept(q)
    BY <1>35 DEF StopCoroutine
<1>36. CASE UNCHANGED vars
    BY <1>36 DEF vars
<1> QED
    <2> HIDE DEF Kept
    <2> QED
        BY <1>1, <1>2, <1>3, <1>4, <1>5, <1>6, <1>7, <1>8, <1>9, <1>10,
           <1>11, <1>12, <1>13, <1>14, <1>15, <1>16, <1>17, <1>18, <1>19,
           <1>20, <1>21, <1>22, <1>23, <1>24, <1>25, <1>26, <1>27, <1>28,
           <1>29, <1>30, <1>31, <1>32, <1>33, <1>34, <1>35, <1>36
        DEF Next, Execute, Initialize, Answer

-----------------------------------------------------------------------------
(***************************************************************************)
(* The safety properties.                                                  *)
(***************************************************************************)

\* Every variable keeps its type: statuses, decisions, quantities and the
\* carried answers are always among the values the code knows.
THEOREM TypeCorrect == Spec => []TypeOK
<1>1. IInv => TypeOK
    BY DEF IInv, TypeInv
<1> QED
    BY Invariance, <1>1, PTL

\* No order is sent without web clearance and the consent the rules ask for.
THEOREM ConsentBeforeTrade == Spec => []TradeNeedsConsent
<1>1. IInv => TradeNeedsConsent
    BY ValuesAssumption DEF IInv, Control, DecisionInv, Trade, MarketInv, TradeNeedsConsent
<1> QED
    BY Invariance, <1>1, PTL

\* A refused or cancelled order never reaches the exchange.
THEOREM RefusalIsRespected == Spec => []RefusedNeverTrades
<1>1. IInv => RefusedNeverTrades
    BY DEF IInv, Trade, MarketInv, RefusedNeverTrades
<1> QED
    BY Invariance, <1>1, PTL

\* Executions, FILLED orders and positions reflect fills of the exchange.
THEOREM BooksAreTrue == Spec => []BooksMatchExchange
<1>1. IInv => BooksMatchExchange
    BY DEF IInv, Trade, BookInv
<1> QED
    BY Invariance, <1>1, PTL

\* A stop loss waits neither for a person nor for web verification.
THEOREM StopLossGoesThrough == Spec => []StopLossNeverWaits
<1>1. IInv => StopLossNeverWaits
    BY DEF IInv, Control, StopLossInv, StopLossNeverWaits
<1> QED
    BY Invariance, <1>1, PTL

\* An entry trades the strategy's quantity or one the risk manager passed.
THEOREM QuantityIsVetted == Spec => []ModifiedQuantityIsVetted
<1>1. IInv => ModifiedQuantityIsVetted
    BY DEF IInv, Trade, QuantityInv, ModifiedQuantityIsVetted
<1> QED
    BY Invariance, <1>1, PTL

\* A request that accepts clicks is waited for or has timed out.
THEOREM ArmedIsAwaited == Spec => []ArmedRequestHasWaiter
<1>1. IInv => ArmedRequestHasWaiter
    BY DEF IInv, Control, ArmedInv, ArmedRequestHasWaiter, Armed
<1> QED
    BY Invariance, <1>1, PTL

\* A coroutine that ended or died is final.
THEOREM FinalityOfEnd == Spec => EndIsFinal
<1>1. IInv /\ [Next]_vars =>
        [\A o \in Orders : pc[o] \in {"done", "lost"} => Kept(o)]_vars
    BY EndStep DEF IInv
<1> QED
    BY Invariance, <1>1, PTL DEF Spec, EndIsFinal, Kept

-----------------------------------------------------------------------------
(***************************************************************************)
(* OrderExecutor implements OrderLifecycle.                                *)
(***************************************************************************)

\* The phase of one order under the refinement mapping, and the steps of the
\* abstract specification in terms of it.
phaseOf(o) ==
    IF orderStatus[o] # "pending" THEN orderStatus[o]
    ELSE IF decision[o] \in Consents THEN "cleared"
    ELSE IF webResult[o] = "clear" THEN "screened"
    ELSE "pending"

Same ==
    /\ \A q \in Orders : phaseOf(q)' = phaseOf(q)
    /\ exchange' = exchange

Moved(o, to) ==
    /\ phaseOf(o)' = to
    /\ \A q \in Orders \ {o} : phaseOf(q)' = phaseOf(q)
    /\ exchange' = exchange

Follows == Lifecycle!Next \/ Same

\* The abstract phases are equal when each of them is.
LEMMA PhaseKept ==
    ASSUME \A q \in Orders : phaseOf(q)' = phaseOf(q)
    PROVE  [o \in Orders |-> phaseOf(o)]' = [o \in Orders |-> phaseOf(o)]
    OBVIOUS

\* A move of one order is the abstract move of that order.
LEMMA MovedStep ==
    ASSUME NEW o \in Orders, NEW from, NEW to, phaseOf(o) \in from, Moved(o, to)
    PROVE  Lifecycle!Move(o, from, to)
    BY DEF Moved, Lifecycle!Move, phaseOf

\* The initial states are abstract initial states.
LEMMA InitImplements == Init => Lifecycle!Init
    BY DEF Init, Lifecycle!Init

\* Each step is an abstract step of one order, or changes nothing of it.
LEMMA StepImplements == IInv /\ [Next]_vars => Follows
<1> SUFFICES ASSUME IInv, [Next]_vars PROVE Follows
    OBVIOUS
<1> USE ValuesAssumption DEF IInv, TypeInv, TypeOK, Control, StageInv, DecisionInv, AnswerInv,
        Trade, MarketInv, BookInv, phaseOf, Same, Moved, Armed, Asking, Undecided, Cleared, Unsent, Booking
<1>1. ASSUME NEW m \in Managers, RegisterHandler(m) PROVE Follows
    BY <1>1 DEF RegisterHandler, Follows
<1>2. ASSUME NEW m \in Managers, SelectExpired(m) PROVE Follows
    BY <1>2 DEF SelectExpired, Follows
<1>3. ASSUME NEW m \in Managers, CleanupExpired(m) PROVE Follows
    BY <1>3 DEF CleanupExpired, Follows
<1>4. ASSUME NEW o \in Orders, CreateOrder(o) PROVE Follows
    <2>1. phaseOf(o) \in {"absent"}
        BY <1>4 DEF CreateOrder
    <2>2. Moved(o, "pending")
        BY <1>4 DEF CreateOrder
    <2> HIDE DEF phaseOf, Moved
    <2> QED
        BY <2>1, <2>2, MovedStep DEF Follows, Lifecycle!Next, Lifecycle!Submit
<1>5. ASSUME NEW o \in Orders, VerifyWeb(o) PROVE Follows
    <2>1. phaseOf(o) \in {"pending"}
        BY <1>5 DEF VerifyWeb
    <2>2. Moved(o, "screened") \/ Same
        BY <1>5 DEF VerifyWeb
    <2> HIDE DEF phaseOf, Moved
    <2> QED
        BY <2>1, <2>2, MovedStep DEF Follows, Lifecycle!Next, Lifecycle!Screen
<1>6. ASSUME NEW o \in Orders, CancelOrder(o) PROVE Follows
    <2>1. phaseOf(o) \in Lifecycle!Open /\ exchange[o] = "none"
        BY <1>6 DEF CancelOrder, Lifecycle!Open
    <2>2. Moved(o, "cancelled")
        BY <1>6 DEF CancelOrder
    <2> HIDE DEF phaseOf, Moved
    <2> QED
        BY <2>1, <2>2, MovedStep DEF Follows, Lifecycle!Next, Lifecycle!Cancel
<1>7. ASSUME NEW o \in Orders, AutoApprove(o) PROVE Follows
    <2>1. phaseOf(o) \in {"screened"}
        BY <1>7 DEF AutoApprove
    <2>2. Moved(o, "cleared")
        BY <1>7 DEF AutoApprove
    <2> HIDE DEF phaseOf, Moved
    <2> QED
        BY <2>1, <2>2, MovedStep DEF Follows, Lifecycle!Next, Lifecycle!Clear
<1>8. ASSUME NEW o \in Orders, InsertRequest(o) PROVE Follows
    BY <1>8 DEF InsertRequest, Follows
<1>9. ASSUME NEW o \in Orders, SendApprovalRequest(o) PROVE Follows
    BY <1>9 DEF SendApprovalRequest, Follows
<1>10. ASSUME NEW o \in Orders, AwaitResponse(o) PROVE Follows
    BY <1>10 DEF AwaitResponse, Follows
<1>11. ASSUME NEW o \in Orders, WakeUp(o) PROVE Follows
    <2>1. phaseOf(o) \in {"screened"}
        BY <1>11 DEF WakeUp
    <2>2. Moved(o, "cleared") \/ Same
        BY <1>11 DEF WakeUp, Forget
    <2> HIDE DEF phaseOf, Moved
    <2> QED
        BY <2>1, <2>2, MovedStep DEF Follows, Lifecycle!Next, Lifecycle!Clear
<1>12. ASSUME NEW o \in Orders, TimeoutFires(o) PROVE Follows
    BY <1>12 DEF TimeoutFires, Follows
<1>13. ASSUME NEW o \in Orders, RecordTimeout(o) PROVE Follows
    BY <1>13 DEF RecordTimeout, Follows
<1>14. ASSUME NEW o \in Orders, FinishTimeout(o) PROVE Follows
    BY <1>14 DEF FinishTimeout, Follows
<1>15. ASSUME NEW o \in Orders, ReadApprovedOrder(o) PROVE Follows
    BY <1>15 DEF ReadApprovedOrder, Follows
<1>16. ASSUME NEW o \in Orders, CheckRisk(o) PROVE Follows
    BY <1>16 DEF CheckRisk, Follows
<1>17. ASSUME NEW o \in Orders, PlaceOrder(o) PROVE Follows
    <2>1. phaseOf(o) = "cleared" /\ exchange[o] = "none"
        BY <1>17 DEF PlaceOrder
    <2>2. \A q \in Orders : phaseOf(q)' = phaseOf(q)
        BY <1>17 DEF PlaceOrder
    <2>3. \/ exchange' = exchange
          \/ \E v \in {"live", "filled"} : exchange' = [exchange EXCEPT ![o] = v]
        BY <1>17 DEF PlaceOrder
    <2>4. CASE exchange' = exchange
        BY <2>2, <2>4 DEF Follows, Same
    <2>5. CASE \E v \in {"live", "filled"} : exchange' = [exchange EXCEPT ![o] = v]
        BY <2>1, <2>2, <2>5, PhaseKept DEF Follows, Lifecycle!Next, Lifecycle!Send
    <2> QED
        BY <2>3, <2>4, <2>5
<1>18. ASSUME NEW o \in Orders, FailUnfilled(o) PROVE Follows
    <2>1. phaseOf(o) \in Lifecycle!Open
        BY <1>18 DEF FailUnfilled, Lifecycle!Open
    <2>2. Moved(o, "failed")
        BY <1>18 DEF FailUnfilled
    <2> HIDE DEF phaseOf, Moved
    <2> QED
        BY <2>1, <2>2, MovedStep DEF Follows, Lifecycle!Next, Lifecycle!Fail
<1>19. ASSUME NEW o \in Orders, RecordExecution(o) PROVE Follows
    BY <1>19 DEF RecordExecution, Follows
<1>20. ASSUME NEW o \in Orders, OpenPosition(o) PROVE Follows
    BY <1>20 DEF OpenPosition, Follows
<1>21. ASSUME NEW o \in Orders, ReadPosition(o) PROVE Follows
    BY <1>21 DEF ReadPosition, Follows
<1>22. ASSUME NEW o \in Orders, ClosePosition(o) PROVE Follows
    BY <1>22 DEF ClosePosition, Follows
<1>23. ASSUME NEW o \in Orders, CompleteOrder(o) PROVE Follows
    <2>1. phaseOf(o) \in {"cleared"} /\ exchange[o] = "filled"
        BY <1>23 DEF CompleteOrder
    <2>2. Moved(o, "filled")
        BY <1>23 DEF CompleteOrder
    <2> HIDE DEF phaseOf, Moved
    <2> QED
        BY <2>1, <2>2, MovedStep DEF Follows, Lifecycle!Next, Lifecycle!Settle
<1>24. ASSUME NEW o \in Orders, Raise(o) PROVE Follows
    BY <1>24 DEF Raise, Follows
<1>25. ASSUME NEW o \in Orders, HandleException(o) PROVE Follows
    <2>1. phaseOf(o) \in Lifecycle!Open
        BY <1>25 DEF HandleException, Lifecycle!Open
    <2>2. Moved(o, "failed") \/ Same
        BY <1>25 DEF HandleException
    <2> HIDE DEF phaseOf, Moved
    <2> QED
        BY <2>1, <2>2, MovedStep DEF Follows, Lifecycle!Next, Lifecycle!Fail
<1>26. ASSUME NEW o \in Orders, Expire(o) PROVE Follows
    BY <1>26 DEF Expire, Follows
<1>27. ASSUME NEW o \in Orders, ExchangeFills(o) PROVE Follows
    <2>1. \A q \in Orders : phaseOf(q)' = phaseOf(q)
        BY <1>27 DEF ExchangeFills
    <2> QED
        BY <1>27, <2>1, PhaseKept DEF ExchangeFills, Follows, Lifecycle!Next, Lifecycle!VenueFills
<1>28. ASSUME NEW t \in Tasks, RecordClick(t) PROVE Follows
    BY <1>28 DEF RecordClick, Follows
<1>29. ASSUME NEW t \in Tasks, SignalClick(t) PROVE Follows
    BY <1>29 DEF SignalClick, Follows
<1>30. ASSUME NEW t \in Tasks, WriteAnswer(t) PROVE Follows
    BY <1>30 DEF WriteAnswer, Follows
<1>31. ASSUME NEW t \in Tasks, NEW o \in Orders, NEW answer \in Answers,
             Click(t, o, answer) PROVE Follows
    BY <1>31 DEF Click, Follows
<1>32. ASSUME NEW t \in Tasks, NEW o \in Orders, NEW answer \in Answers,
             NEW qty \in OtherQty \union {None}, ReadRequest(t, o, answer, qty) PROVE Follows
    BY <1>32 DEF ReadRequest, Follows
<1>33. CASE Crash
    BY <1>33 DEF Crash, Follows
<1>34. CASE Restart
    BY <1>34 DEF Restart, Follows
<1>35. ASSUME NEW o \in Orders, StopCoroutine(o) PROVE Follows
    BY <1>35 DEF StopCoroutine, Follows
<1>36. CASE UNCHANGED vars
    BY <1>36 DEF vars, Follows
<1> QED
    BY <1>1, <1>2, <1>3, <1>4, <1>5, <1>6, <1>7, <1>8, <1>9, <1>10,
       <1>11, <1>12, <1>13, <1>14, <1>15, <1>16, <1>17, <1>18, <1>19,
       <1>20, <1>21, <1>22, <1>23, <1>24, <1>25, <1>26, <1>27, <1>28,
       <1>29, <1>30, <1>31, <1>32, <1>33, <1>34, <1>35, <1>36
        DEF Next, Execute, Initialize, Answer

\* Whatever answers, faults and crashes do, an order lives as OrderLifecycle
\* says.
THEOREM Implementation == Spec => ImplementsLifecycle
<1>1. IInv /\ [Next]_vars => [Lifecycle!Next]_(Lifecycle!vars)
    <2>1. Same => UNCHANGED Lifecycle!vars
        BY PhaseKept DEF Same, Lifecycle!vars, phaseOf
    <2> QED
        BY <2>1, StepImplements DEF Follows
<1> QED
    BY InitImplements, Invariance, <1>1, PTL DEF Spec, ImplementsLifecycle, Lifecycle!Spec

=============================================================================
