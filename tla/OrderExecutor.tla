---------------------------- MODULE OrderExecutor ----------------------------
(***************************************************************************)
(* execution/executor.py (OrderExecutor.execute_entry and execute_exit)    *)
(* with the position rows of strategy/position_manager.py, the broker as   *)
(* broker/base.py promises it and broker/kis/client.py and                 *)
(* broker/mock/client.py implement it, and the start and death of the      *)
(* process (main.py).  Extends the approval steps to the whole pipeline.   *)
(*                                                                         *)
(* An exception on the way does not skip the rest of the code: it lands in *)
(* the handler at the end of the coroutine, which marks the order FAILED   *)
(* if it can.  Notifications and decision_log entries that swallow their   *)
(* own errors change no state here.                                        *)
(***************************************************************************)
EXTENDS ApprovalManager

-----------------------------------------------------------------------------
(* Before approval.                                                        *)

\* _create_order commits the row and reads it back; if the read fails the
\* row stays and the coroutine ends without knowing its id.
CreateOrder(o) ==
    /\ running
    /\ managerState[ManagerOf[o]] = "ready"
    /\ \E to \in {"verifying", "done"} : Goto(o, "idle", to)
    /\ orderStatus' = [orderStatus EXCEPT ![o] = "pending"]
    /\ UNCHANGED <<approvalStatus, webResult, modifiedQty, positionId, requests,
                   books, market, buttons, process, locals, registry, task,
                   history>>

\* Faulty: BLOCKED is only logged, like WARNING.
VerifyWebWarning(o) ==
    /\ Goto(o, "verifying", "authorising")
    /\ \E result \in {"clear", "blocked"} : webResult' = [webResult EXCEPT ![o] = result]
    /\ UNCHANGED <<orderStatus, approvalStatus, modifiedQty, positionId, requests,
                   books, market, buttons, process, locals, registry, task,
                   history>>

\* WebSearchVerifier.verify never raises, and skips stop losses if told so.
VerifyWeb(o) ==
    /\ \/ Goto(o, "verifying", "authorising") /\ webResult' = [webResult EXCEPT ![o] = "clear"]
       \/ /\ ~(o \in StopLosses /\ SkipOnStopLoss)
          /\ Goto(o, "verifying", "blocked")
          /\ webResult' = [webResult EXCEPT ![o] = "blocked"]
    /\ UNCHANGED <<orderStatus, approvalStatus, modifiedQty, positionId, requests,
                   books, market, buttons, process, locals, registry, task,
                   history>>

\* The three ways to an order CANCELLED: web verification, the approval, the
\* second risk check.
CancelOrder(o) ==
    /\ \E from \in {"blocked", "refused", "risk_refused"} : Goto(o, from, "done")
    /\ orderStatus' = [orderStatus EXCEPT ![o] = "cancelled"]
    /\ UNCHANGED <<approvalStatus, webResult, modifiedQty, positionId, requests,
                   books, market, buttons, process, locals, registry, task,
                   history>>

-----------------------------------------------------------------------------
(* From approval to the broker.                                            *)

\* execute_entry reads the order again for a modified quantity; execute_exit
\* goes on with the quantity it had.
ReadApprovedOrder(o) ==
    /\ \/ /\ o \in Entries
          /\ modifiedQty[o] # None
          /\ Goto(o, "approved", "risk_check")
          /\ quantity' = [quantity EXCEPT ![o] = modifiedQty[o]]
       \/ /\ o \in Exits \/ modifiedQty[o] = None
          /\ Goto(o, "approved", "placing")
          /\ UNCHANGED quantity
    /\ UNCHANGED <<rows, requests, books, market, buttons, process, decision,
                   createdId, registry, task, history>>

\* AlgoRiskManager.check on the modified quantity; a SELL always passes, and
\* a check that passes leaves the quantity as it is.
CheckRisk(o) ==
    /\ \/ /\ Goto(o, "risk_check", "placing")
          /\ vetted' = [vetted EXCEPT ![o] = @ \union {quantity[o]}]
       \/ /\ o \notin Sells
          /\ Goto(o, "risk_check", "risk_refused")
          /\ UNCHANGED vetted
    /\ UNCHANGED <<rows, requests, books, market, buttons, process, locals,
                   registry, task, clicked>>

\* Faulty: the modified quantity is read once more when the order is sent.
QuantityToTradeReread(o) == IF modifiedQty[o] = None THEN quantity[o] ELSE modifiedQty[o]

\* effective_quantity: the one checked, not the one the row has by now.
QuantityToTrade(o) == quantity[o]

\* Faulty: a submitted order is taken for a filled one.
CountsAsFilledSubmitted(reply) == reply \in {"filled", "submitted"}

\* The statuses after which the order is booked.
CountsAsFilled(reply) == reply = "filled"

\* place_order.  KIS answers SUBMITTED or, after the order reached it, not at
\* all; the in-memory broker fills the order or raises.
PlaceOrder(o) ==
    /\ \E reply \in BrokerReplies :
        /\ Goto(o, "placing",
                IF reply \in {"reply_lost", "refused"} THEN "raised"
                ELSE IF CountsAsFilled(reply) THEN "recording" ELSE "not_filled")
        /\ IF reply = "refused" THEN UNCHANGED market
           ELSE /\ exchange' = [exchange EXCEPT ![o] =
                        IF reply = "filled" THEN "filled" ELSE "live"]
                /\ tradedQty' = [tradedQty EXCEPT ![o] = QuantityToTrade(o)]
    /\ UNCHANGED <<rows, requests, books, buttons, process, locals, registry,
                   task, history>>

\* A reply that is neither FILLED nor PARTIALLY_FILLED.
FailUnfilled(o) ==
    /\ Goto(o, "not_filled", "done")
    /\ orderStatus' = [orderStatus EXCEPT ![o] = "failed"]
    /\ UNCHANGED <<approvalStatus, webResult, modifiedQty, positionId, requests,
                   books, market, buttons, process, locals, registry, task,
                   history>>

\* Outside the program: a live order is filled by the exchange.
ExchangeFills(o) ==
    /\ exchange[o] = "live"
    /\ exchange' = [exchange EXCEPT ![o] = "filled"]
    /\ UNCHANGED <<rows, requests, books, tradedQty, buttons, process, pc,
                   locals, registry, task, history>>

-----------------------------------------------------------------------------
(* After a fill.                                                           *)

\* _record_execution commits the row and reads it back, which may raise.
RecordExecution(o) ==
    /\ \E to \in {IF o \in Entries THEN "opening" ELSE "closing", "raised"} :
            Goto(o, "recording", to)
    /\ executed' = [executed EXCEPT ![o] = TRUE]
    /\ UNCHANGED <<rows, requests, positionStatus, exitOrder, market, buttons,
                   process, locals, registry, task, history>>

\* PositionManager.create; the executor logs a failure and goes on.  The row
\* may be there although create raised, when only the read back failed.
OpenPosition(o) ==
    /\ Goto(o, "opening", "completing")
    /\ \/ /\ positionStatus' = [positionStatus EXCEPT ![o] = "open"]
          /\ \/ createdId' = [createdId EXCEPT ![o] = o]
             \/ UNCHANGED createdId
       \/ UNCHANGED <<positionStatus, createdId>>
    /\ UNCHANGED <<rows, requests, executed, exitOrder, market, buttons, process,
                   decision, quantity, registry, task, history>>

\* PositionManager.close reads the row (no lock) and raises if it is closed.
ReadPosition(o) ==
    /\ \/ /\ Goto(o, "closing", "close_commit")
          /\ positionStatus[TargetOf[o]] # "closed"
       \/ Goto(o, "closing", "completing")
    /\ UNCHANGED <<rows, requests, books, market, buttons, process, locals,
                   registry, task, history>>

\* PositionManager.close commits the row it read; a failed commit is logged.
ClosePosition(o) ==
    /\ Goto(o, "close_commit", "completing")
    /\ LET p == TargetOf[o] IN
        \/ /\ positionStatus' = [positionStatus EXCEPT ![p] = "closed"]
           /\ exitOrder' = [exitOrder EXCEPT ![p] = o]
        \/ UNCHANGED <<positionStatus, exitOrder>>
    /\ UNCHANGED <<rows, requests, executed, market, buttons, process, locals,
                   registry, task, history>>

\* The order becomes FILLED.  An exit always names the position it was asked
\* to close, an entry only the position create returned.
CompleteOrder(o) ==
    /\ Goto(o, "completing", "done")
    /\ orderStatus' = [orderStatus EXCEPT ![o] = "filled"]
    /\ positionId' = [positionId EXCEPT ![o] =
            IF o \in Exits THEN TargetOf[o] ELSE createdId[o]]
    /\ UNCHANGED <<approvalStatus, webResult, modifiedQty, requests, books,
                   market, buttons, process, locals, registry, task, history>>

-----------------------------------------------------------------------------
(* Errors, crashes, restarts.                                              *)

\* Awaits that may raise with nothing written: the database, the portfolio
\* read, Redis, and the recorder and the chat where the call is not guarded.
MayRaise(o) ==
    \/ pc[o] \in {"verifying", "blocked", "authorising", "asking", "timing_out",
                  "timeout_recorded", "refused", "risk_refused", "not_filled",
                  "recording", "completing"}
    \/ pc[o] = "approved" /\ (o \in Entries \/ decision[o] = "auto_approved")
    \/ pc[o] = "risk_check" /\ o \notin Sells
    \/ pc[o] = "registering" /\ buttons[o]

Raise(o) ==
    /\ MayRaise(o)
    /\ pc' = [pc EXCEPT ![o] = "raised"]
    /\ UNCHANGED <<rows, requests, books, market, buttons, process, locals,
                   registry, task, history>>

\* except Exception: _update_order_safe swallows its own failure.
HandleException(o) ==
    /\ Goto(o, "raised", "done")
    /\ \/ orderStatus' = [orderStatus EXCEPT ![o] = "failed"]
       \/ UNCHANGED orderStatus
    /\ UNCHANGED <<approvalStatus, webResult, modifiedQty, positionId, requests,
                   books, market, buttons, process, locals, registry, task,
                   history>>

\* The process dies: its memory is gone, the rows and the exchange stay.  No
\* code resumes an order afterwards.
Crash ==
    /\ running
    /\ running' = FALSE
    /\ handler' = None
    /\ managerState' = [m \in Managers |-> "absent"]
    /\ selected' = [m \in Managers |-> {}]
    /\ pc' = [o \in Orders |-> IF pc[o] \in {"idle", "done"} THEN pc[o] ELSE "lost"]
    /\ event' = [o \in Orders |-> "absent"]
    /\ pendingResult' = [o \in Orders |-> None]
    /\ task' = [t \in Tasks |-> None]
    /\ UNCHANGED <<rows, requests, books, market, buttons, locals, history>>

\* SchedulerEngine.stop: the shutdown of APScheduler cancels the coroutines of
\* running jobs.  CancelledError is no Exception, so nothing handles it, and the
\* rest of the process goes on until it dies.
StopCoroutine(o) ==
    /\ pc[o] \notin {"idle", "done", "lost"}
    /\ pc' = [pc EXCEPT ![o] = "lost"]
    /\ UNCHANGED <<rows, requests, books, market, buttons, process, locals,
                   registry, task, history>>

Restart ==
    /\ ~running
    /\ running' = TRUE
    /\ UNCHANGED <<rows, requests, books, market, buttons, handler, managerState,
                   selected, pc, locals, registry, task, history>>

-----------------------------------------------------------------------------
(* The steps of the coroutine that runs order o.                           *)
Execute(o) ==
    \/ VerifyWeb(o) \/ CancelOrder(o)
    \/ AutoApprove(o) \/ InsertRequest(o) \/ SendApprovalRequest(o)
    \/ AwaitResponse(o) \/ WakeUp(o) \/ TimeoutFires(o)
    \/ RecordTimeout(o) \/ FinishTimeout(o)
    \/ ReadApprovedOrder(o) \/ CheckRisk(o) \/ PlaceOrder(o) \/ FailUnfilled(o)
    \/ RecordExecution(o) \/ OpenPosition(o) \/ ReadPosition(o) \/ ClosePosition(o)
    \/ CompleteOrder(o) \/ Raise(o) \/ HandleException(o)

\* The steps of initialize() after its first await.
Initialize(m) == SelectExpired(m) \/ CleanupExpired(m)

\* The steps of the task that carries an answer.
Answer(t) == RecordClick(t) \/ SignalClick(t) \/ WriteAnswer(t)

Next ==
    \/ \E m \in Managers : RegisterHandler(m) \/ Initialize(m)
    \/ \E o \in Orders :
        CreateOrder(o) \/ Execute(o) \/ Expire(o) \/ ExchangeFills(o) \/ StopCoroutine(o)
    \/ \E t \in Tasks : Answer(t)
    \/ \E t \in Tasks, o \in Orders, answer \in Answers :
        \/ Click(t, o, answer)
        \/ \E qty \in OtherQty \union {None} : ReadRequest(t, o, answer, qty)
    \/ Crash
    \/ Restart

Spec == Init /\ [][Next]_vars

\* What the event loop and the clock provide: a coroutine whose await returned
\* is scheduled, and so is a task that carries an answer.  Nothing is assumed of
\* the users, the exchange, crashes, or (except where a property says so) time.
Fairness ==
    /\ \A o \in Orders : WF_vars(Execute(o))
    /\ \A t \in Tasks : WF_vars(Answer(t))
    /\ \A m \in Managers : WF_vars(Initialize(m))

FairSpec == Spec /\ Fairness

-----------------------------------------------------------------------------
(* Safety.                                                                 *)

\* Nothing reaches the exchange unless web verification cleared the order
\* and either a rule of _check_auto_approve applied or the user clicked
\* "approve" on that very order: a wake-up meant for another request, a late
\* click or an answer left over from a timeout never releases an order.
TradeNeedsConsent ==
    \A o \in Orders : exchange[o] # "none" =>
        /\ webResult[o] = "clear"
        /\ \/ decision[o] = "auto_approved" /\ \E small \in BOOLEAN : CheckAutoApprove(o, small)
           \/ decision[o] = "approved" /\ "approved" \in clicked[o]

\* An order refused by the user, by the clock, by web verification or by the
\* second risk check has sent nothing, at whatever point it is read.
RefusedNeverTrades ==
    \A o \in Orders :
        orderStatus[o] = "cancelled" \/ decision[o] \in Refusals =>
            exchange[o] = "none"

\* The books agree with the exchange: an order FILLED, an execution row and a
\* position opened by an entry or closed by an exit each imply the exchange
\* filled that order and its execution row is there, although these rows are
\* written in separate transactions that fail or are cut off separately.
BooksMatchExchange ==
    /\ \A o \in Orders :
        /\ executed[o] => exchange[o] = "filled"
        /\ orderStatus[o] = "filled" => executed[o]
    /\ \A o \in Entries :
        /\ positionStatus[o] # "absent" => executed[o]
        /\ positionId[o] # None => positionStatus[o] # "absent"
    /\ \A p \in Held : positionStatus[p] = "closed" =>
        exitOrder[p] # None /\ executed[exitOrder[p]]

\* A stop loss goes to the broker without waiting for a person, whatever the
\* settings, and is not blocked by web verification if that is to be skipped.
StopLossNeverWaits ==
    \A o \in StopLosses :
        /\ requestStatus[o] \in {"absent", "auto_approved"}
        /\ SkipOnStopLoss => webResult[o] # "blocked"

\* A quantity other than the strategy's is traded by an entry only if the risk
\* manager passed that quantity, even if an API answer replaces it meanwhile.
ModifiedQuantityIsVetted ==
    \A o \in Entries :
        exchange[o] # "none" /\ tradedQty[o] # OriginalQty =>
            tradedQty[o] \in vetted[o]

\* A request the process would accept a click for is one a coroutine waits
\* on, or one whose timeout handling failed halfway or whose coroutine was
\* cancelled, which leaves it registered without a decision.
ArmedRequestHasWaiter ==
    \A o \in Orders : event[o] # "absent" =>
        \/ pc[o] \in {"waiting", "timing_out", "timeout_recorded"}
        \/ pc[o] \in {"raised", "done"} /\ expired[o] /\ decision[o] = None
        \/ pc[o] = "lost" /\ decision[o] = None

\* A coroutine that ended, or died with the process, is final: later clicks,
\* API answers, cleanups and restarts neither change the order's status nor
\* send or book anything more for it.
EndIsFinal ==
    [][\A o \in Orders : pc[o] \in {"done", "lost"} =>
        /\ orderStatus'[o] = orderStatus[o]
        /\ executed'[o] = executed[o]
        /\ tradedQty'[o] = tradedQty[o]]_vars

\* The pipeline implements the life of an order that OrderLifecycle states.
Lifecycle == INSTANCE OrderLifecycle WITH
    phase <- [o \in Orders |->
        IF orderStatus[o] # "pending" THEN orderStatus[o]
        ELSE IF decision[o] \in Consents THEN "cleared"
        ELSE IF webResult[o] = "clear" THEN "screened"
        ELSE "pending"],
    venue <- exchange

ImplementsLifecycle == Lifecycle!Spec

-----------------------------------------------------------------------------
(* Liveness.                                                               *)

\* A coroutine that starts comes to its end or dies with the process, as long
\* as time passes: no order waits for an answer for ever.
EveryOrderEnds ==
    (\A o \in Orders : WF_vars(Expire(o))) =>
        \A o \in Orders : pc[o] = "verifying" ~> pc[o] \in {"done", "lost"}

\* A click that the handler accepts ends the wait of its order even if time
\* stands still: the wake-up is not lost between the check, the transaction
\* and the signal.
ClickEndsWait ==
    \A t \in Tasks, o \in Orders :
        (task[t] # None /\ task[t].stage \in {"checked", "recorded"}
            /\ task[t].order = o) ~> pc[o] # "waiting"

-----------------------------------------------------------------------------
(* What the documentation says and the code does not do.                   *)

\* orders.py calls the API route an alternative to Telegram, and approval.py's
\* state machine has a wait end in APPROVED or REJECTED once answered: a wait
\* whose request was answered through the API alone does not time out.
ApiAnswerEndsWait ==
    [][\A o \in Orders :
        pc[o] = "waiting" /\ clicked[o] = {} /\ requestStatus[o] \in Answers
            => pc'[o] # "timing_out"]_vars

\* base.py: place_order "returns the execution result", so an order recorded
\* as failed is not in the market.
FailedOrderIsNotInMarket ==
    \A o \in Orders : orderStatus[o] = "failed" => exchange[o] = "none"

\* position_manager.py: close raises if the position is already closed, so
\* the first exit to close it stays its exit.
ClosedPositionKeepsItsExit ==
    [][\A p \in Held :
        positionStatus[p] = "closed" => exitOrder'[p] = exitOrder[p]]_vars
=============================================================================
