--------------------------- MODULE AgentPipeline ---------------------------
(***************************************************************************)
(* agent/orchestrator.py: one execution analyses the market, then its      *)
(* symbols side by side, each through stock analyst, risk manager and      *)
(* trader (agent/agents), with every judgment in decision_log              *)
(* (agent/decision_recorder.py).  The executions of the scheduler and of   *)
(* api/routes/pipeline.py run in one process and share the tables of       *)
(* module LLMRouter.                                                       *)
(*                                                                         *)
(* A task is the coroutine of one symbol, or of the market, of one         *)
(* execution.  What the tools collect for a prompt (agent/tools) reaches   *)
(* the model of language only: here an answer is any answer.               *)
(***************************************************************************)
EXTENDS LLMRouter

CONSTANTS Sessions, Symbols, Market,
    Scenarios        \* [symbols, concurrency, rows, updates, mishaps]: the symbols of every
                     \* execution, max_concurrency, the table and the requests to change
                     \* it, the failures

Tasks == Sessions \X (Symbols \union {Market})
Stages == {"market", "stock", "risk", "trade"}

ASSUME PipelineAssumption ==
    /\ Callers = Tasks /\ Market \notin Symbols
    /\ IsFiniteSet(Sessions) /\ IsFiniteSet(Symbols)
    /\ Agents = {"market_analyst", "stock_analyst", "risk_manager", "trader"}

ASSUME ScenariosAssumption ==
    \A x \in Scenarios :
        /\ x.symbols \in [Sessions -> (SUBSET Symbols) \union {None}]
        /\ \E s \in Sessions : x.symbols[s] # None
        /\ x.concurrency \in Nat \ {0}
        /\ x.rows \in [Agents -> Configs \union {None}]
        /\ \A u \in x.updates \ {Reset} : u[1] \in Agents /\ Allowed(u[2])

VARIABLES
    session,      \* per execution: "new", "market", "symbols", "done" or "aborted"
    symbolsOf,    \* per execution: its symbols
    concurrency,  \* max_concurrency
    task,         \* per task: its stage and status
    log           \* table decision_log

pipeline == <<session, symbolsOf, concurrency, task, log>>
vars == <<routerVars, pipeline>>

Of(s) == {<<s, x>> : x \in symbolsOf[s]}
AgentOf(stage) ==
    CASE stage = "market" -> "market_analyst"
      [] stage = "stock" -> "stock_analyst"
      [] stage = "risk" -> "risk_manager"
      [] stage = "trade" -> "trader"

Init ==
    /\ RouterInit
    /\ \E x \in Scenarios : symbolsOf = x.symbols /\ concurrency = x.concurrency
                               /\ configs = x.rows /\ updates = x.updates
                               /\ mishaps = x.mishaps
    /\ session = [s \in Sessions |-> "new"]
    /\ task = [t \in Tasks |-> [stage |-> None, status |-> "pending"]]
    /\ log = {}

---------------------------------------------------------------------------
(* BaseAgent.analyze: _prepare_data and the call of the router; then       *)
(* _post_process and the recorder.                                         *)

Analyze(t, stage) ==
    /\ task' = [task EXCEPT ![t] = [stage |-> stage, status |-> "running"]]
    /\ Route(t, AgentOf(stage))

\* Faulty: the assessment is filed under the market analysis.
ParentToMarket(t, stage) ==
    CASE stage = "market" -> None
      [] stage \in {"stock", "risk"} -> <<<<t[1], Market>>, "market">>
      [] stage = "trade" -> <<t, "risk">>

\* parent_id: the judgment this one rests on.
Parent(t, stage) ==
    CASE stage = "market" -> None
      [] stage = "stock" -> <<<<t[1], Market>>, "market">>
      [] stage = "risk" -> <<t, "stock">>
      [] stage = "trade" -> <<t, "risk">>

\* DecisionRecorder.record
Decision(t, stage) ==
    [id |-> <<t, stage>>, parent |-> Parent(t, stage), decision |-> call[t].verdict]

\* A stage fails: with the exception of the router, or because its judgment
\* cannot be recorded.
StageFails(t) ==
    \/ RaisedBy(t) /\ NoMishap
    \/ Answered(t) /\ Mishap

\* Its judgment is recorded.
StageRecorded(t) ==
    /\ Answered(t)
    /\ log' = log \union {Decision(t, task[t].stage)}

Done(t, status) ==
    /\ task' = [task EXCEPT ![t].status = status]
    /\ call' = [call EXCEPT ![t] = Idle]

---------------------------------------------------------------------------
(* PipelineOrchestrator.execute                                            *)

\* job_swing_analysis, job_position_analysis or POST /api/pipeline/run, if the
\* scenario has this execution.
Execute(s) ==
    /\ session[s] = "new" /\ symbolsOf[s] # None
    /\ session' = [session EXCEPT ![s] = "market"]
    /\ Analyze(<<s, Market>>, "market")
    /\ UNCHANGED <<symbolsOf, concurrency, log, table, spending, mishaps>>

\* The analysis of the market is there: whatever it says, the symbols follow.
MarketDone(s) ==
    LET t == <<s, Market>>
    IN
    /\ task[t].status = "running"
    /\ StageRecorded(t)
    /\ Done(t, "ok")
    /\ session' = [session EXCEPT ![s] = "symbols"]
    /\ UNCHANGED <<symbolsOf, concurrency, table, spending, mishaps>>

\* Without it the execution ends.
MarketFails(s) ==
    LET t == <<s, Market>>
    IN
    /\ task[t].status = "running"
    /\ StageFails(t)
    /\ Done(t, "error")
    /\ session' = [session EXCEPT ![s] = "aborted"]
    /\ UNCHANGED <<symbolsOf, concurrency, log, table, spending>>

\* Faulty: a task that fails keeps the semaphore.
HoldsSemaphoreLeaky(t) == task[t].status \in {"running", "error"}

\* async with semaphore
HoldsSemaphore(t) == task[t].status = "running"

\* Faulty: no semaphore.
AdmittedAlways(s) == TRUE

Admitted(s) == Cardinality({t \in Of(s) : HoldsSemaphore(t)}) < concurrency

StartSymbol(t) ==
    /\ session[t[1]] = "symbols" /\ t \in Of(t[1])
    /\ task[t].status = "pending" /\ Admitted(t[1])
    /\ Analyze(t, "stock")
    /\ UNCHANGED <<session, symbolsOf, concurrency, log, table, spending, mishaps>>

\* HOLD of the stock analyst and the refusal of the risk manager end a symbol
\* early, the trader ends it in any case.
EndsAt(stage, verdict) == stage = "trade" \/ verdict = "stop"

NextStage(stage) == IF stage = "stock" THEN "risk" ELSE "trade"

\* _run_symbol_pipeline
SymbolStageDone(t) ==
    /\ t[2] # Market /\ task[t].status = "running"
    /\ StageRecorded(t)
    /\ IF EndsAt(task[t].stage, call[t].verdict) THEN Done(t, "ok")
       ELSE Analyze(t, NextStage(task[t].stage))
    /\ UNCHANGED <<session, symbolsOf, concurrency, table, spending, mishaps>>

SymbolStageFails(t) ==
    /\ t[2] # Market /\ task[t].status = "running"
    /\ StageFails(t)
    /\ Done(t, "error")
    /\ UNCHANGED <<session, symbolsOf, concurrency, log, table, spending>>

\* gather has all results: they are sorted into symbols_analyzed and
\* symbols_skipped, and the cost is summed up, or not.
Finish(s) ==
    /\ session[s] = "symbols"
    /\ \A t \in Of(s) : task[t].status \in {"ok", "error"}
    /\ session' = [session EXCEPT ![s] = "done"]
    /\ UNCHANGED <<symbolsOf, concurrency, task, log, routerVars>>

Analyzed(s) == {t \in Of(s) : task[t].status = "ok"}
Skipped(s) == {t \in Of(s) : task[t].status = "error"}
TradeDecisions(s) == {t \in Analyzed(s) : task[t].stage = "trade"}

TaskStep(t) ==
    \/ RouterStep(t) /\ UNCHANGED pipeline
    \/ StartSymbol(t) \/ SymbolStageDone(t) \/ SymbolStageFails(t)
SessionStep(s) == MarketDone(s) \/ MarketFails(s) \/ Finish(s)

Next ==
    \/ \E t \in Tasks : TaskStep(t)
    \/ \E s \in Sessions : Execute(s) \/ SessionStep(s)
    \/ AdminStep /\ UNCHANGED pipeline

\* The event loop goes on with every coroutine; Redis drops what has expired,
\* and an endpoint that has committed goes on to the cache.
Fairness ==
    /\ \A t \in Tasks : WF_vars(TaskStep(t))
    /\ \A s \in Sessions : WF_vars(SessionStep(s))
    /\ WF_vars(ClearCache /\ UNCHANGED pipeline)
    /\ \A a \in Agents : WF_vars(Expire(a) /\ UNCHANGED pipeline)

Spec == Init /\ [][Next]_vars /\ Fairness

---------------------------------------------------------------------------
(* Properties                                                              *)

\* Types; a symbol that is being analysed is inside the router, and no other is.
PipelineTypeOK ==
    /\ RouterTypeOK
    /\ session \in [Sessions -> {"new", "market", "symbols", "done", "aborted"}]
    /\ \A t \in Tasks : /\ task[t].stage \in Stages \union {None}
                        /\ task[t].status \in {"pending", "running", "ok", "error"}
                        /\ task[t].status = "running" <=> call[t].pc # "idle"
    /\ \A d \in log : d.id \in Tasks \X Stages /\ d.decision \in Verdicts

Filed(id) == \E d \in log : d.id = id
Judged(id, decision) == \E d \in log : d.id = id /\ d.decision = decision

\* The audit trail is complete: a judgment is filed under the one it rests on, of the same
\* execution and symbol, and that one told the pipeline to go on; a trade decision in the
\* result of an execution has all four; a symbol is skipped only with its last judgment
\* missing.
AuditTrailComplete ==
    /\ \A d \in log :
         LET t == d.id[1]
             stage == d.id[2]
         IN  CASE stage = "market" -> d.parent = None
               [] stage = "stock" -> d.parent[1][1] = t[1] /\ Filed(d.parent)
               [] stage = "risk" -> d.parent = <<t, "stock">> /\ Judged(d.parent, "go")
               [] stage = "trade" -> d.parent = <<t, "risk">> /\ Judged(d.parent, "go")
    /\ \A s \in Sessions : session[s] = "done" =>
         /\ \A t \in TradeDecisions(s) :
              /\ Filed(<<t, "trade">>) /\ Judged(<<t, "risk">>, "go") /\ Judged(<<t, "stock">>, "go")
              /\ Filed(<<<<s, Market>>, "market">>)
         /\ \A t \in Analyzed(s) : Filed(<<t, task[t].stage>>)
         /\ \A t \in Skipped(s) : ~ Filed(<<t, task[t].stage>>)

\* The budget is read before an escalation and charged after it, so escalations can still
\* be sent when it is used up: at most one for every coroutine but the one that used it up,
\* over all executions that run at the time.
EscalationOvershoot ==
    late <= Cardinality({s \in Sessions : symbolsOf[s] # None}) * concurrency - 1

\* An execution that has begun ends, whatever fails.
ExecutionEnds ==
    \A s \in Sessions : session[s] # "new" ~> session[s] \in {"done", "aborted"}
=============================================================================
