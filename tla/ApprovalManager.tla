--------------------------- MODULE ApprovalManager ---------------------------
(***************************************************************************)
(* execution/approval.py (ApprovalManager), the approval buttons of        *)
(* notification/telegram.py (TelegramBot), and the two routes of           *)
(* api/routes/orders.py that touch approvals.                              *)
(*                                                                         *)
(* A request is answered on one of two paths.  A click on a button reaches *)
(* whichever ApprovalManager registered its handler with the bot last; if  *)
(* that instance has an event for the request, a task writes the answer to *)
(* the database and then wakes the waiting coroutine.  An API answer only  *)
(* writes the database.  Clicks the code ignores (no handler, a handler    *)
(* that does not know the request, the bare "modify" button) change no     *)
(* state and are not steps.  The handler's "modify:{n}" branch is reached  *)
(* only after TelegramBot.send_quantity_prompt, which nothing under src/   *)
(* calls, so no click of the model carries a quantity.                     *)
(***************************************************************************)
EXTENDS OrderState

-----------------------------------------------------------------------------
(* Life of an ApprovalManager instance.                                    *)

\* initialize(), up to its first await: the bot has one slot for a handler,
\* and the new instance takes it from whoever held it.
RegisterHandler(m) ==
    /\ running
    /\ managerState[m] = "absent"
    /\ managerState' = [managerState EXCEPT ![m] = "registered"]
    /\ handler' = m
    /\ UNCHANGED <<rows, requests, books, market, buttons, running, selected, pc,
                   locals, registry, task, history>>

\* initialize()'s SELECT of the pending requests that have expired.
SelectExpired(m) ==
    /\ managerState[m] = "registered"
    /\ managerState' = [managerState EXCEPT ![m] = "cleaning"]
    /\ selected' = [selected EXCEPT ![m] =
            {o \in Orders : requestStatus[o] = "pending" /\ expired[o]}]
    /\ UNCHANGED <<rows, requests, books, market, buttons, running, handler, pc,
                   locals, registry, task, history>>

\* initialize(), after its SELECT: the rows found expired become "timeout",
\* whatever happened to them since they were read.
CleanupExpired(m) ==
    /\ managerState[m] = "cleaning"
    /\ managerState' = [managerState EXCEPT ![m] = "ready"]
    /\ requestStatus' = [o \in Orders |->
            IF o \in selected[m] THEN "timeout" ELSE requestStatus[o]]
    /\ approvalStatus' = [o \in Orders |->
            IF o \in selected[m] THEN "timeout" ELSE approvalStatus[o]]
    /\ selected' = [selected EXCEPT ![m] = {}]
    /\ UNCHANGED <<orderStatus, webResult, modifiedQty, positionId, expired,
                   books, market, buttons, running, handler, pc, locals,
                   registry, task, history>>

-----------------------------------------------------------------------------
(* request_approval.                                                       *)

\* small: the order's share of the portfolio is at most
\* AUTO_EXECUTE_MAX_PORTFOLIO_PCT.
CheckAutoApprove(o, small) ==
    \/ ~HumanApprovalRequired
    \/ o \in ProtectiveExits
    \/ o \in Sells /\ small

\* _handle_auto_approve's transaction.  The decision_log entry and the chat
\* message that follow change no state here but may raise.
AutoApprove(o) ==
    /\ Goto(o, "authorising", "approved")
    /\ \E small \in BOOLEAN : CheckAutoApprove(o, small)
    /\ requestStatus' = [requestStatus EXCEPT ![o] = "auto_approved"]
    /\ approvalStatus' = [approvalStatus EXCEPT ![o] = "auto_approved"]
    /\ decision' = [decision EXCEPT ![o] = "auto_approved"]
    /\ UNCHANGED <<orderStatus, webResult, modifiedQty, positionId, expired,
                   books, market, buttons, process, quantity, createdId,
                   registry, task, history>>

\* _handle_manual_approve inserts the pending request.
InsertRequest(o) ==
    /\ Goto(o, "authorising", "asking")
    /\ \E small \in BOOLEAN : ~CheckAutoApprove(o, small)
    /\ requestStatus' = [requestStatus EXCEPT ![o] = "pending"]
    /\ UNCHANGED <<rows, expired, books, market, buttons, process, locals,
                   registry, task, history>>

\* The message with the buttons; send_approval_request swallows the failure
\* of the chat service and then returns no message id.
SendApprovalRequest(o) ==
    /\ Goto(o, "asking", "registering")
    /\ \E sent \in BOOLEAN : buttons' = [buttons EXCEPT ![o] = sent]
    /\ UNCHANGED <<rows, requests, books, market, process, locals, registry,
                   task, history>>

\* Only now does the process know the request: a click before is dropped.
AwaitResponse(o) ==
    /\ Goto(o, "registering", "waiting")
    /\ event' = [event EXCEPT ![o] = "unset"]
    /\ UNCHANGED <<rows, requests, books, market, buttons, process, locals,
                   pendingResult, task, history>>

\* Faulty: the entries stay after the wait.
ForgetNothing(o) == UNCHANGED <<event, pendingResult>>

\* _handle_manual_approve drops the request's entries when its wait is over.
Forget(o) ==
    /\ event' = [event EXCEPT ![o] = "absent"]
    /\ pendingResult' = [pendingResult EXCEPT ![o] = None]

\* Faulty: whatever was signalled counts as an approval.
WakeUpApproved(o) ==
    /\ event[o] = "set"
    /\ Goto(o, "waiting", "approved")
    /\ decision' = [decision EXCEPT ![o] = "approved"]
    /\ Forget(o)
    /\ UNCHANGED <<rows, requests, books, market, buttons, process, quantity,
                   createdId, task, history>>

\* _wait_for_response returns the answer that was signalled.
WakeUp(o) ==
    /\ event[o] = "set"
    /\ Goto(o, "waiting",
            IF pendingResult[o] = "approved" THEN "approved" ELSE "refused")
    /\ decision' = [decision EXCEPT ![o] = pendingResult[o]]
    /\ Forget(o)
    /\ UNCHANGED <<rows, requests, books, market, buttons, process, quantity,
                   createdId, task, history>>

\* Faulty: only a request whose buttons are shown times out.
TimeoutFiresWithButtons(o) ==
    /\ expired[o]
    /\ buttons[o]
    /\ Goto(o, "waiting", "timing_out")
    /\ UNCHANGED <<rows, requests, books, market, buttons, process, locals,
                   registry, task, history>>

\* _wait_for_response gives up.  The wait starts after expires_at is fixed,
\* so the request has expired by then.  A signal that came in the same round
\* of the event loop does not help: wait_for has cancelled the wait.
TimeoutFires(o) ==
    /\ expired[o]
    /\ Goto(o, "waiting", "timing_out")
    /\ UNCHANGED <<rows, requests, books, market, buttons, process, locals,
                   registry, task, history>>

\* _handle_timeout's transaction.
RecordTimeout(o) ==
    /\ Goto(o, "timing_out", "timeout_recorded")
    /\ requestStatus' = [requestStatus EXCEPT ![o] = "timeout"]
    /\ approvalStatus' = [approvalStatus EXCEPT ![o] = "timeout"]
    /\ UNCHANGED <<orderStatus, webResult, modifiedQty, positionId, expired,
                   books, market, buttons, process, locals, registry, task,
                   history>>

\* Faulty: the executor takes only REJECTED for a refusal.
FinishTimeoutApproved(o) ==
    /\ Goto(o, "timeout_recorded", "approved")
    /\ decision' = [decision EXCEPT ![o] = "timeout"]
    /\ Forget(o)
    /\ UNCHANGED <<rows, requests, books, market, buttons, process, quantity,
                   createdId, task, history>>

\* The rest of _handle_timeout, and the return with TIMEOUT.
FinishTimeout(o) ==
    /\ Goto(o, "timeout_recorded", "refused")
    /\ \E removed \in BOOLEAN :
            buttons' = [buttons EXCEPT ![o] = @ /\ ~removed]
    /\ decision' = [decision EXCEPT ![o] = "timeout"]
    /\ Forget(o)
    /\ UNCHANGED <<rows, requests, books, market, process, quantity, createdId,
                   task, history>>

\* The clock passes the request's expires_at.
Expire(o) ==
    /\ requestStatus[o] \notin {"absent", "auto_approved"}
    /\ ~expired[o]
    /\ expired' = [expired EXCEPT ![o] = TRUE]
    /\ UNCHANGED <<rows, requestStatus, books, market, buttons, process, pc,
                   locals, registry, task, history>>

-----------------------------------------------------------------------------
(* Answers.                                                                *)

\* The handler that receives clicks has an event for the request of o.
Expects(o) == handler = ManagerOf[o] /\ event[o] # "absent"

\* A task takes up an answer; a free task carries None.
TakeUp(t, stage, o, answer, qty) ==
    /\ running
    /\ task[t] = None
    /\ task' = [task EXCEPT ![t] =
            [stage |-> stage, order |-> o, answer |-> answer, qty |-> qty]]

\* The task is at the given stage of carrying its answer.
At(t, stage) == task[t] # None /\ task[t].stage = stage

\* _handle_callback, up to its transaction.
Click(t, o, answer) ==
    /\ buttons[o]
    /\ Expects(o)
    /\ TakeUp(t, "checked", o, answer, None)
    /\ clicked' = [clicked EXCEPT ![o] = @ \union {answer}]
    /\ UNCHANGED <<rows, requests, books, market, buttons, process, pc, locals,
                   registry, vetted>>

\* The answer in both tables, as one transaction writes it.
WriteStatus(o, answer) ==
    /\ requestStatus' = [requestStatus EXCEPT ![o] = answer]
    /\ approvalStatus' = [approvalStatus EXCEPT ![o] = answer]

\* _handle_callback's transaction; a database error is logged and ignored.
RecordClick(t) ==
    /\ At(t, "checked")
    /\ task' = [task EXCEPT ![t] = [task[t] EXCEPT !.stage = "recorded"]]
    /\ \/ WriteStatus(task[t].order, task[t].answer)
       \/ UNCHANGED <<requestStatus, approvalStatus>>
    /\ UNCHANGED <<orderStatus, webResult, modifiedQty, positionId, expired,
                   books, market, buttons, process, pc, locals, registry,
                   history>>

\* Faulty: the result is stored and the event is not set.
StoreWithoutSignal(o, answer) ==
    /\ event' = event
    /\ pendingResult' = [pendingResult EXCEPT ![o] = answer]

\* The result is stored and the waiting coroutine woken, if there still is
\* one: without its event a KeyError ends the task.
Signal(o, answer) ==
    /\ event' = [event EXCEPT ![o] = IF @ = "absent" THEN @ ELSE "set"]
    /\ pendingResult' = [pendingResult EXCEPT ![o] = answer]

\* The end of _handle_callback: the buttons go, then the signal is given.
SignalClick(t) ==
    /\ At(t, "recorded")
    /\ task' = [task EXCEPT ![t] = None]
    /\ LET o == task[t].order IN
        /\ Signal(o, task[t].answer)
        /\ \E removed \in BOOLEAN :
                buttons' = [buttons EXCEPT ![o] = @ /\ ~removed]
    /\ UNCHANGED <<rows, requests, books, market, process, pc, locals, history>>

\* respond_to_approval, up to its UPDATEs: only a pending row is answered.
ReadRequest(t, o, answer, qty) ==
    /\ requestStatus[o] = "pending"
    /\ TakeUp(t, "read", o, answer, qty)
    /\ UNCHANGED <<rows, requests, books, market, buttons, process, pc, locals,
                   registry, history>>

\* Faulty: the word of the request body is stored as the status.
WriteAnswerUnmapped(t) ==
    /\ At(t, "read")
    /\ task' = [task EXCEPT ![t] = None]
    /\ WriteStatus(task[t].order, IF task[t].qty = None THEN task[t].answer ELSE "modify")
    /\ UNCHANGED <<orderStatus, webResult, modifiedQty, positionId, expired,
                   books, market, buttons, process, pc, locals, registry,
                   history>>

\* Faulty: a rejection through the API also settles the order's status.
WriteAnswerCancelling(t) ==
    /\ At(t, "read")
    /\ task' = [task EXCEPT ![t] = None]
    /\ WriteStatus(task[t].order, task[t].answer)
    /\ orderStatus' = [orderStatus EXCEPT ![task[t].order] = "cancelled"]
    /\ UNCHANGED <<webResult, modifiedQty, positionId, expired, books, market,
                   buttons, process, pc, locals, registry, history>>

\* respond_to_approval's commit.  A quantity is stored with any answer.
WriteAnswer(t) ==
    /\ At(t, "read")
    /\ task' = [task EXCEPT ![t] = None]
    /\ WriteStatus(task[t].order, task[t].answer)
    /\ modifiedQty' = IF task[t].qty = None THEN modifiedQty
                      ELSE [modifiedQty EXCEPT ![task[t].order] = task[t].qty]
    /\ UNCHANGED <<orderStatus, webResult, positionId, expired, books, market,
                   buttons, process, pc, locals, registry, history>>
=============================================================================
