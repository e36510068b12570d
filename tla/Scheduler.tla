----------------------------- MODULE Scheduler -----------------------------
(***************************************************************************)
(* The scheduler and its jobs: scheduler/factory.py builds the jobs of     *)
(* every account, scheduler/engine.py runs them and keeps job_executions,  *)
(* scheduler/jobs.py says what they do, with execution/exit_executor.py,   *)
(* scheduler/monitor.py and strategy/portfolio_state.py behind them, and   *)
(* api/routes/control.py and main.py from outside.                         *)
(*                                                                         *)
(* A job is a coroutine; one action is what it does between two awaits     *)
(* that matter.  Slots hold the coroutines that run at one time.  An order *)
(* is here its sale at the broker and the closing of its row: how the      *)
(* executor gets there is module OrderExecutor.  A position is one share.  *)
(*                                                                         *)
(* Everything that goes wrong (an exception, a refused order, a lost       *)
(* connection, a crash) and everything a person does by hand draws on one  *)
(* budget, mishaps, so there are finitely many in a behaviour.             *)
(***************************************************************************)
EXTENDS ExitRules, FiniteSets, FiniteSetsExt

CONSTANTS
    Accounts, Symbols, PositionIds, Slots,
    ActiveAccounts,            \* rows of accounts with is_active
    DefaultAccount, KisAppKey, \* the account of the environment, if there is one
    UseMockBroker,
    StrategyOf,                \* strategy_type of an account
    EntryRules,                \* entry, stop, target, trailing, maxDays of a new position
    PriceRange, TotalRange,
    Scenarios,                 \* [agenda, positions, due, mishaps]: the triggers that
                               \* fire, the positions at the start, the alerts whose
                               \* condition holds, the budget below
    LastDay

ASSUME SchedulerAssumption ==
    /\ ActiveAccounts \subseteq Accounts /\ DefaultAccount \in Accounts
    /\ StrategyOf \in [Accounts -> {"swing", "position"}]
    /\ PositionIds \subseteq Nat /\ IsFiniteSet(PositionIds)
    /\ Slots \subseteq Nat /\ LastDay \in Nat \ {0}
    /\ TotalRange \subseteq Nat /\ TotalRange # {} /\ IsFiniteSet(TotalRange)

\* Table positions: an id is not used, or has a row.
NoPosition == [status |-> "none"]
PositionRows ==
    [status : {"open", "closed"}, account : Accounts, symbol : Symbols, entry : Nat, entryDay : Nat,
     stop : Nat, target : Nat \union {None}, trailing : Nat \union {None},
     maxDays : Nat \union {None}]

ASSUME ScenariosAssumption ==
    /\ EntryRules \in PositionRows /\ EntryRules.status = "open"
    /\ \A x \in Scenarios :
         /\ x.positions \in [PositionIds -> PositionRows \union {NoPosition}]
         /\ \A p \in PositionIds : x.positions[p].status # "closed"
         /\ x.mishaps \in Nat

VARIABLES
    life,          \* of the process: "down", "preparing", "up"
    loaded,        \* accounts still to be prepared by create_scheduler
    contexts,      \* accounts with an AccountContext
    jobFns,        \* _job_fns: which account's context each job is bound to
    paused,        \* _paused
    agenda, due,   \* of the scenario
    inst,          \* per slot, the job instance in it
    positions,     \* table positions
    shares,        \* held at the broker, per account and symbol
    price, total,  \* prices, and the total value of each account
    today,
    snapshots,     \* table portfolio_snapshots, per account and date
    mixed,         \* accounts two of whose daily reports overlapped (history)
    marks,         \* Redis: alert keys marked as sent
    sent,          \* how often an alert was handed to Telegram, up to 2 (history)
    doubtful,      \* alerts whose check or mark was disturbed (history)
    soldFor,       \* how often a position was sold, up to 2 (history)
    excused,       \* what went wrong around a position (history)
    mishaps        \* failures and manual acts still to come

factory == <<loaded, contexts, jobFns>>
scenario == <<agenda, due>>
records == <<snapshots, mixed>>
market == <<price, total, today>>
books == <<positions, shares, soldFor, excused>>
alerting == <<marks, sent, doubtful>>
vars == <<life, factory, paused, scenario, inst, books, market, records, alerting, mishaps>>

Sweep(a) == <<"stop_loss_check", a>>
Common == {<<k, None>> : k \in {"weekly_report", "monthly_report", "llm_cost_report"}}
            \union (IF UseMockBroker THEN {} ELSE {<<"market_data_collect", None>>})
\* _register_account_jobs: what an account's strategy and broker call for.
JobsOf(a) ==
    {Sweep(a), <<"daily_report", a>>}
      \union {<<IF StrategyOf[a] = "swing" THEN "swing_analysis" ELSE "position_analysis", a>>}
      \union (IF UseMockBroker THEN {} ELSE {<<"token_refresh", a>>})

Idle == [job |-> None, by |-> None, account |-> None, pc |-> "idle", row |-> "none",
         list |-> {}, todo |-> {}, cur |-> None]
Ended == {"idle", "unrecorded", "dead"}
Active(i) == inst[i].pc \notin Ended
Free(i) == ~ Active(i) /\ \A k \in Slots : k < i => Active(k)
Mishap == mishaps > 0 /\ mishaps' = mishaps - 1

Open == {p \in PositionIds : positions[p].status = "open"}
OpenOf(a) == {p \in Open : positions[p].account = a}

\* Sold, and the row not closed yet; about to be sent, or to be marked.
Closing(p) == \E i \in Slots : inst[i].pc = "closing" /\ inst[i].cur = p
Alerting(k) == {i \in Slots : inst[i].pc \in {"send", "mark"} /\ inst[i].cur = k}

\* The keys of _is_alert_sent_today: the budget is everybody's.
AlertsOf(a) == {<<"portfolio_drawdown", a>>, <<"llm_budget", None>>}
AlertKeys == {<<k, d>> : k \in UNION {AlertsOf(a) : a \in Accounts}, d \in 1 .. LastDay}

Init ==
    /\ life = "down" /\ loaded = {} /\ contexts = {} /\ jobFns = << >> /\ paused = FALSE
    /\ \E x \in Scenarios : agenda = x.agenda /\ positions = x.positions /\ due = x.due
                               /\ mishaps = x.mishaps
    /\ inst = [i \in Slots |-> Idle]
    /\ shares = [a \in Accounts |-> [s \in Symbols |->
         Cardinality({p \in OpenOf(a) : positions[p].symbol = s})]]
    /\ price = [s \in Symbols |-> Max(PriceRange)]
    /\ total = [a \in Accounts |-> Max(TotalRange)]
    /\ today = 1
    /\ snapshots = [a \in Accounts |-> [d \in 1 .. LastDay |-> None]] /\ mixed = {}
    /\ marks = {} /\ sent = [k \in AlertKeys |-> 0] /\ doubtful = {}
    /\ soldFor = [p \in PositionIds |-> 0]
    /\ excused = [p \in PositionIds |-> {}]

---------------------------------------------------------------------------
(* main.lifespan and SchedulerFactory.create_scheduler                     *)

\* Without accounts one is made up from the environment.
OrDefault(accounts) ==
    IF accounts = {} /\ KisAppKey THEN {DefaultAccount} ELSE accounts

\* _load_active_accounts gives an empty list on an error.
LoadAccounts ==
    /\ life = "down"
    /\ \/ loaded' = OrDefault(ActiveAccounts) /\ UNCHANGED mishaps
       \/ loaded' = OrDefault({}) /\ Mishap
    /\ life' = "preparing" /\ contexts' = {} /\ paused' = FALSE
    /\ UNCHANGED <<jobFns, scenario, inst, books, market, records, alerting>>

\* Broker registration and _build_account_context: an account that fails in
\* either is left out.
PrepareAccount(a) ==
    /\ life = "preparing" /\ a \in loaded
    /\ loaded' = loaded \ {a}
    /\ \/ contexts' = contexts \union {a} /\ UNCHANGED mishaps
       \/ UNCHANGED contexts /\ Mishap
    /\ UNCHANGED <<life, jobFns, paused, scenario, inst, books, market, records, alerting>>

\* Faulty: the jobs look their account up when they run and find the last one.
BoundContextLate(job) == CHOOSE a \in contexts : TRUE

\* partial(...): a job is bound to the context of its account.
BoundContext(job) == job[2]

\* The jobs are registered and the engine is started.
RegisterJobs ==
    /\ life = "preparing" /\ loaded = {}
    /\ jobFns' = [job \in Common \union UNION {JobsOf(a) : a \in contexts} |->
                    IF job \in Common THEN None ELSE BoundContext(job)]
    /\ life' = "up"
    /\ UNCHANGED <<loaded, contexts, paused, scenario, inst, books, market, records, alerting,
                   mishaps>>

\* The process ends, by itself or with SchedulerEngine.stop, which cancels the
\* jobs at their next await: their rows stay as they are.
Crash ==
    /\ life = "up" /\ Mishap
    /\ life' = "down"
    /\ inst' = [i \in Slots |-> IF Active(i) THEN [Idle EXCEPT !.pc = "dead", !.row = inst[i].row]
                                ELSE inst[i]]
    /\ excused' = [p \in PositionIds |-> IF Closing(p) THEN excused[p] \union {"unrecorded"}
                                         ELSE excused[p]]
    /\ doubtful' = doubtful \union {k \in AlertKeys : Alerting(k) # {}}
    /\ UNCHANGED <<factory, paused, scenario, positions, shares, soldFor, market, records, marks,
                   sent>>

\* pause_all and resume_all stop and start the triggers, not the jobs.
PauseAll ==
    /\ life = "up" /\ ~ paused /\ Mishap
    /\ paused' = TRUE
    /\ UNCHANGED <<life, factory, scenario, inst, books, market, records, alerting>>
ResumeAll ==
    /\ life = "up" /\ paused
    /\ paused' = FALSE
    /\ UNCHANGED <<life, factory, scenario, inst, books, market, records, alerting, mishaps>>

---------------------------------------------------------------------------
(* SchedulerEngine._wrap_job                                               *)

FirstStep(job) ==
    CASE job[1] = "stop_loss_check" -> "positions"
      [] job[1] = "position_analysis" -> "positions"
      [] job[1] = "swing_analysis" -> "pipeline"
      [] job[1] = "daily_report" -> "state"
      [] OTHER -> "once"

\* The row is inserted; a failure of that does not stop the job.
Begin(i, job, by, row) ==
    inst' = [inst EXCEPT ![i] =
      [Idle EXCEPT !.job = job, !.by = by, !.account = jobFns[job], !.pc = FirstStep(job),
                   !.row = row]]

\* A trigger fires: max_instances is one.
Fire(i, job) ==
    /\ life = "up" /\ ~ paused /\ job \in agenda \cap DOMAIN jobFns
    /\ Free(i)
    /\ \A k \in Slots : ~ (Active(k) /\ inst[k].job = job /\ inst[k].by = "trigger")
    /\ \/ Begin(i, job, "trigger", "running") /\ UNCHANGED mishaps
       \/ Begin(i, job, "trigger", "none") /\ Mishap
    /\ UNCHANGED <<life, factory, paused, scenario, books, market, records, alerting>>

\* run_job_now, whether paused or not and whatever runs already.
RunJobNow(i, job) ==
    /\ life = "up" /\ job \in agenda \cap DOMAIN jobFns
    /\ Free(i) /\ Mishap
    /\ Begin(i, job, "api", "running")
    /\ UNCHANGED <<life, factory, paused, scenario, books, market, records, alerting>>

\* How a body ends.
Returned(x) == [x EXCEPT !.pc = "update", !.cur = "success", !.list = {}, !.todo = {}]
Raised(x) == [x EXCEPT !.pc = "update", !.cur = "failed", !.list = {}, !.todo = {}]

\* A sweep goes on, when there is nothing left to do, from prices to signals, from
\* signals to the monitor, from the monitor to its end.
Monitoring(x) ==
    LET left == AlertsOf(x.account) \cap due
    IN  IF left = {} THEN Returned(x)
        ELSE [x EXCEPT !.pc = "alerts", !.list = {}, !.todo = left, !.cur = None]
Advance(x) ==
    CASE x.todo # {} -> x
      [] x.pc = "price" /\ x.todo = {} ->
           IF x.cur = {} THEN Monitoring(x) ELSE [x EXCEPT !.pc = "exit", !.todo = x.cur, !.cur = None]
      [] x.pc = "exit" /\ x.todo = {} -> Monitoring(x)
      [] x.pc \in {"alerts", "entry"} /\ x.todo = {} -> Returned(x)
      [] OTHER -> x

\* Faulty: the exception of a job goes through the wrapper.
UpdateRowAfterSuccess(i) ==
    /\ inst[i].pc = "update"
    /\ \/ /\ inst' = [inst EXCEPT ![i] = [Idle EXCEPT !.row =
               IF inst[i].row = "running" /\ inst[i].cur = "success" THEN "success" ELSE inst[i].row]]
          /\ UNCHANGED mishaps
       \/ /\ inst[i].row = "running" /\ Mishap
          /\ inst' = [inst EXCEPT ![i] = [Idle EXCEPT !.pc = "unrecorded", !.row = "running"]]
    /\ UNCHANGED <<life, factory, paused, scenario, books, market, records, alerting>>

\* The row, if there is one, says how the job ended, unless that cannot be written.
UpdateRow(i) ==
    /\ inst[i].pc = "update"
    /\ \/ /\ inst' = [inst EXCEPT ![i] = [Idle EXCEPT !.row =
               IF inst[i].row = "running" THEN inst[i].cur ELSE "none"]]
          /\ UNCHANGED mishaps
       \/ /\ inst[i].row = "running" /\ Mishap
          /\ inst' = [inst EXCEPT ![i] = [Idle EXCEPT !.pc = "unrecorded", !.row = "running"]]
    /\ UNCHANGED <<life, factory, paused, scenario, books, market, records, alerting>>

\* A body raises at one of its awaits that is not guarded.
Unguarded == {"positions", "pipeline", "state", "snapshot", "report", "once"}
Raise(i) ==
    /\ inst[i].pc \in Unguarded /\ Mishap
    /\ inst' = [inst EXCEPT ![i] = Raised(inst[i])]
    /\ UNCHANGED <<life, factory, paused, scenario, books, market, records, alerting>>

\* The reports of all accounts, the token refresh and the data collection.
RunOnce(i) ==
    /\ inst[i].pc = "once"
    /\ inst' = [inst EXCEPT ![i] = Returned(inst[i])]
    /\ UNCHANGED <<life, factory, paused, scenario, books, market, records, alerting, mishaps>>

---------------------------------------------------------------------------
(* job_stop_loss_check                                                     *)

\* Faulty: positions are selected whatever their status.
GetOpenAll(a) == {p \in PositionIds : positions[p].status # "none" /\ positions[p].account = a}

\* PositionManager.get_open
GetOpen(a) == OpenOf(a)

Sweeping(i, a) ==
    inst[i].job = Sweep(a) /\ inst[i].pc \in {"price", "exit", "closing"}
Twin(p) ==
    \E q \in Open \ {p} : /\ positions[q].account = positions[p].account
                          /\ positions[q].symbol = positions[p].symbol

\* The list of positions is read; a job without positions is done.
ReadPositions(i) ==
    LET a == inst[i].account
        list == GetOpen(a)
        next == IF inst[i].job[1] = "stop_loss_check" THEN "price" ELSE "pipeline"
        overlap == next = "price" /\ \E k \in Slots \ {i} : Sweeping(k, a)
    IN
    /\ inst[i].pc = "positions"
    /\ inst' = [inst EXCEPT ![i] =
         IF list = {} THEN Returned(inst[i])
         ELSE [@ EXCEPT !.pc = next, !.list = list, !.todo = IF next = "price" THEN list ELSE {},
                        !.cur = {}]]
    /\ excused' = [p \in PositionIds |-> excused[p]
         \union (IF p \in list /\ next = "price" /\ Twin(p) THEN {"twin"} ELSE {})
         \union (IF p \in OpenOf(a) /\ overlap THEN {"overlap"} ELSE {})]
    /\ UNCHANGED <<life, factory, paused, scenario, positions, shares, soldFor, market,
                   records, alerting, mishaps>>

\* The price of a position is fetched and its exit conditions are checked; an
\* exception passes the position over.
PricePosition(i) ==
    /\ inst[i].pc = "price" /\ inst[i].todo # {}
    /\ LET p == Min(inst[i].todo)
           reason == SweepExit(positions[p], price[positions[p].symbol], today)
           found == IF reason = None THEN {}
                    ELSE {[symbol |-> positions[p].symbol, reason |-> reason, from |-> p]}
           rest == [inst[i] EXCEPT !.todo = @ \ {p}]
       IN \/ /\ inst' = [inst EXCEPT ![i] = Advance([rest EXCEPT !.cur = @ \union found])]
             /\ UNCHANGED mishaps
          \/ inst' = [inst EXCEPT ![i] = Advance(rest)] /\ Mishap
    /\ UNCHANGED <<life, factory, paused, scenario, books, market, records, alerting>>

\* sorted by urgency: losses and trailing stops first.
Urgency(signal) == IF signal.reason \in {"stop_loss", "trailing_stop"} THEN 0 ELSE 1

\* _match_signal_to_position: the first of the list with the symbol, whose
\* status is the one it had when the list was read.
MatchSignalToPosition(signal, list) ==
    Min({p \in list : positions[p].symbol = signal.symbol})

\* process_exit_signals, one signal: execute_exit sends the order.  It is
\* refused when the account has no share; the answer may be lost, or say
\* SUBMITTED, which the executor takes for a failure.
ExecuteSignal(i, signal) ==
    LET p == MatchSignalToPosition(signal, inst[i].list)
        a == inst[i].account
        rest == [inst[i] EXCEPT !.todo = @ \ {signal}]
        Sold == /\ shares[a][signal.symbol] > 0
                /\ shares' = [shares EXCEPT ![a][signal.symbol] = @ - 1]
                /\ soldFor' = [soldFor EXCEPT ![p] = Min({@ + 1, 2})]
    IN
    /\ inst[i].pc = "exit" /\ signal \in inst[i].todo
    /\ \A other \in inst[i].todo : Urgency(signal) <= Urgency(other)
    /\ \/ /\ Sold
          /\ inst' = [inst EXCEPT ![i] = [rest EXCEPT !.pc = "closing", !.cur = p]]
          /\ UNCHANGED <<excused, mishaps>>
       \/ /\ Sold /\ Mishap
          /\ inst' = [inst EXCEPT ![i] = Advance(rest)]
          /\ excused' = [excused EXCEPT ![p] = @ \union {"unrecorded"}]
       \/ /\ shares[a][signal.symbol] = 0
          /\ inst' = [inst EXCEPT ![i] = Advance(rest)]
          /\ UNCHANGED <<shares, soldFor, excused, mishaps>>
       \/ /\ Mishap
          /\ inst' = [inst EXCEPT ![i] = Advance(rest)]
          /\ UNCHANGED <<shares, soldFor, excused>>
    /\ UNCHANGED <<life, factory, paused, scenario, positions, market, records, alerting>>

\* PositionManager.close at the end of execute_exit; it raises when the position
\* is closed already, and the executor goes on to the next signal.
ClosePosition(i) ==
    LET p == inst[i].cur IN
    /\ inst[i].pc = "closing"
    /\ inst' = [inst EXCEPT ![i] = Advance([@ EXCEPT !.pc = "exit", !.cur = None])]
    /\ \/ /\ positions' = [positions EXCEPT ![p].status = "closed"]
          /\ UNCHANGED <<excused, mishaps>>
       \/ /\ Mishap
          /\ excused' = [excused EXCEPT ![p] = @ \union {"unrecorded"}]
          /\ UNCHANGED positions
    /\ UNCHANGED <<life, factory, paused, scenario, shares, soldFor, market, records, alerting>>

\* A check of TradingMonitor whose condition holds: it fails on the way, or the
\* alert was sent already today, or it is to be sent.  Redis failing means not sent.
CheckAlert(i, kind) ==
    LET k == <<kind, today>>
        skip == [inst[i] EXCEPT !.todo = @ \ {kind}]
        send == [skip EXCEPT !.pc = "send", !.cur = k]
    IN
    /\ inst[i].pc = "alerts" /\ kind \in inst[i].todo
    /\ \/ inst' = [inst EXCEPT ![i] = Advance(skip)] /\ Mishap /\ UNCHANGED doubtful
       \/ k \in marks /\ inst' = [inst EXCEPT ![i] = Advance(skip)] /\ UNCHANGED <<doubtful, mishaps>>
       \/ /\ k \notin marks
          /\ inst' = [inst EXCEPT ![i] = send]
          /\ doubtful' = IF Alerting(k) # {} THEN doubtful \union {k} ELSE doubtful
          /\ UNCHANGED mishaps
       \/ /\ k \in marks /\ Mishap
          /\ inst' = [inst EXCEPT ![i] = send]
          /\ doubtful' = doubtful \union {k}
    /\ UNCHANGED <<life, factory, paused, scenario, books, market, records, marks, sent>>

\* _send_alert: an error of the chat is swallowed, any other one ends the check.
SendAlert(i) ==
    LET k == inst[i].cur IN
    /\ inst[i].pc = "send"
    /\ sent' = [sent EXCEPT ![k] = Min({@ + 1, 2})]
    /\ \/ inst' = [inst EXCEPT ![i].pc = "mark"] /\ UNCHANGED <<doubtful, mishaps>>
       \/ /\ inst' = [inst EXCEPT ![i] = Advance([@ EXCEPT !.pc = "alerts", !.cur = None])]
          /\ doubtful' = doubtful \union {k} /\ Mishap
    /\ UNCHANGED <<life, factory, paused, scenario, books, market, records, marks>>

\* Faulty: the mark does not last until the next sweep.
MarkAlertLost(i) ==
    /\ inst[i].pc = "mark"
    /\ inst' = [inst EXCEPT ![i] = Advance([@ EXCEPT !.pc = "alerts", !.cur = None])]
    /\ UNCHANGED <<marks, doubtful, mishaps>>
    /\ UNCHANGED <<life, factory, paused, scenario, books, market, records, sent>>

\* _mark_alert_sent; an error of Redis is swallowed.
MarkAlert(i) ==
    /\ inst[i].pc = "mark"
    /\ inst' = [inst EXCEPT ![i] = Advance([@ EXCEPT !.pc = "alerts", !.cur = None])]
    /\ \/ marks' = marks \union {inst[i].cur} /\ UNCHANGED <<doubtful, mishaps>>
       \/ doubtful' = doubtful \union {inst[i].cur} /\ Mishap /\ UNCHANGED marks
    /\ UNCHANGED <<life, factory, paused, scenario, books, market, records, sent>>

---------------------------------------------------------------------------
(* job_swing_analysis and job_position_analysis                            *)

\* _get_watchlist_symbols, read when the scheduler is built, and the holdings.
Universe(x) ==
    IF x.job[1] = "swing_analysis" THEN Symbols ELSE {positions[p].symbol : p \in x.list}

\* orchestrator.execute gives the symbols to buy; they are bought if the market
\* is open when the analysis ends.
RunPipeline(i) ==
    /\ inst[i].pc = "pipeline"
    /\ \E buys \in SUBSET Universe(inst[i]), marketOpen \in BOOLEAN :
         inst' = [inst EXCEPT ![i] = IF buys = {} \/ ~ marketOpen THEN Returned(inst[i])
                    ELSE [@ EXCEPT !.pc = "entry", !.todo = buys, !.list = {}]]
    /\ UNCHANGED <<life, factory, paused, scenario, books, market, records, alerting, mishaps>>

\* _execute_buy_decisions, one decision: execute_entry buys and opens a position,
\* or buys and fails to record it, or does nothing.
ExecuteEntry(i, s) ==
    LET a == inst[i].account
        free == {p \in PositionIds : positions[p].status = "none"}
        rest == [inst[i] EXCEPT !.todo = @ \ {s}]
        Bought == shares' = [shares EXCEPT ![a][s] = @ + 1]
    IN
    /\ inst[i].pc = "entry" /\ s \in inst[i].todo
    /\ inst' = [inst EXCEPT ![i] = Advance(rest)]
    /\ \/ /\ free # {} /\ Bought
          /\ positions' = [positions EXCEPT ![Min(free)] =
               [EntryRules EXCEPT !.account = a, !.symbol = s, !.entryDay = today]]
          /\ UNCHANGED mishaps
       \/ free # {} /\ Bought /\ Mishap /\ UNCHANGED positions
       \/ UNCHANGED <<shares, positions, mishaps>>
    /\ UNCHANGED <<life, factory, paused, scenario, soldFor, excused, market, records, alerting>>

---------------------------------------------------------------------------
(* job_daily_report                                                        *)

SnapshotTotals(a) == {snapshots[a][d].total : d \in {e \in 1 .. LastDay : snapshots[a][e] # None}}

\* get_peak_value looks at total_value, not at peak_value.
PeakValue(a) == Max(SnapshotTotals(a) \union {0})

\* Faulty: the peak is the one of the account now.
CurrentPeakAlone(a) == total[a]

\* get_current_state
CurrentPeak(a) == Max({PeakValue(a), total[a]})

ReadState(i) ==
    LET a == inst[i].account IN
    /\ inst[i].pc = "state"
    /\ inst' = [inst EXCEPT ![i].pc = "snapshot",
         ![i].cur = [total |-> total[a], peak |-> CurrentPeak(a), date |-> today]]
    /\ mixed' = IF \E k \in Slots \ {i} : inst[k].pc = "snapshot" /\ inst[k].account = a
                  THEN mixed \union {a} ELSE mixed
    /\ UNCHANGED <<life, factory, paused, scenario, books, market, snapshots, alerting, mishaps>>

\* save_snapshot: one row per account and date, the last one wins.
SaveSnapshot(i) ==
    LET x == inst[i].cur IN
    /\ inst[i].pc = "snapshot"
    /\ snapshots' = [snapshots EXCEPT ![inst[i].account][x.date] =
                       [total |-> x.total, peak |-> x.peak]]
    /\ inst' = [inst EXCEPT ![i].pc = "report", ![i].cur = None]
    /\ UNCHANGED <<life, factory, paused, scenario, books, market, mixed, alerting, mishaps>>

SendReport(i) ==
    /\ inst[i].pc = "report"
    /\ inst' = [inst EXCEPT ![i] = Returned(inst[i])]
    /\ UNCHANGED <<life, factory, paused, scenario, books, market, records, alerting, mishaps>>

---------------------------------------------------------------------------
(* Prices, values and days                                                 *)

Reads(kind) == \E job \in agenda : job[1] = kind

\* What no job of the agenda reads stands still.
PriceMoves(s) ==
    /\ Reads("stop_loss_check")
    /\ \E x \in PriceRange \ {price[s]} : price' = [price EXCEPT ![s] = x]
    /\ UNCHANGED <<life, factory, paused, scenario, inst, books, total, today, records, alerting,
                   mishaps>>
ValueMoves(a) ==
    /\ <<"daily_report", a>> \in agenda
    /\ \E x \in TotalRange \ {total[a]} : total' = [total EXCEPT ![a] = x]
    /\ UNCHANGED <<life, factory, paused, scenario, inst, books, price, today, records, alerting,
                   mishaps>>
NextDay ==
    /\ \/ Reads("daily_report") \/ due # {}
       \/ \E p \in Open : positions[p].maxDays # None
    /\ today < LastDay /\ today' = today + 1
    /\ UNCHANGED <<life, factory, paused, scenario, inst, books, price, total, records, alerting,
                   mishaps>>

---------------------------------------------------------------------------

Startup == LoadAccounts \/ RegisterJobs \/ (\E a \in Accounts : PrepareAccount(a))
Body(i) ==
    \/ ReadPositions(i) \/ PricePosition(i) \/ ClosePosition(i)
    \/ SendAlert(i) \/ MarkAlert(i)
    \/ RunPipeline(i) \/ ReadState(i) \/ SaveSnapshot(i) \/ SendReport(i)
    \/ RunOnce(i) \/ Raise(i) \/ UpdateRow(i)
    \/ \E signal \in inst[i].todo : ExecuteSignal(i, signal)
    \/ \E kind \in inst[i].todo : CheckAlert(i, kind)
    \/ \E s \in inst[i].todo : ExecuteEntry(i, s)
Environment ==
    \/ NextDay
    \/ \E s \in Symbols : PriceMoves(s)
    \/ \E a \in Accounts : ValueMoves(a)
Manual == Crash \/ PauseAll \/ ResumeAll

Next ==
    \/ Startup \/ Manual \/ Environment
    \/ \E i \in Slots, job \in agenda : Fire(i, job) \/ RunJobNow(i, job)
    \/ \E i \in Slots : Body(i)

\* Coroutines are run, the process is started, triggers fire.
Fairness ==
    /\ WF_vars(Startup)
    /\ \A i \in Slots : WF_vars(Body(i))
    /\ \A a \in Accounts : WF_vars(\E i \in Slots : Fire(i, Sweep(a)))
Spec == Init /\ [][Next]_vars /\ Fairness

---------------------------------------------------------------------------
(* Properties                                                              *)

Pcs == {"positions", "price", "exit", "closing", "alerts", "send", "mark", "pipeline", "entry",
        "state", "snapshot", "report", "once", "update"} \union Ended

\* Types; a broker never holds less than nothing, and a job bound to an account
\* belongs to it and to one that was prepared.
SchedulerTypeOK ==
    /\ life \in {"down", "preparing", "up"} /\ contexts \subseteq Accounts
    /\ \A i \in Slots : /\ inst[i].pc \in Pcs
                        /\ inst[i].row \in {"none", "running", "success", "failed"}
                        /\ Active(i) => inst[i].account = inst[i].job[2]
    /\ life = "up" => \A a \in contexts : Sweep(a) \in DOMAIN jobFns
    /\ \A a \in Accounts : shares[a] \in [Symbols -> Nat]
    /\ marks \subseteq AlertKeys /\ mishaps \in Nat

\* A position is sold once, and closed exactly when it was, over any number of
\* sweeps, failures and restarts.  The known ways out: another open position of
\* the symbol, a second sweep started by hand, a sale nobody recorded.
SoldOnce ==
    \A p \in PositionIds :
      excused[p] = {} =>
        /\ soldFor[p] <= 1
        /\ soldFor[p] = 1 <=> (Closing(p) \/ positions[p].status = "closed")

\* A row of positions lives as PositionLifecycle says: a clean row is sold while
\* it is open, closed only after that sale, and neither reopened nor touched again,
\* although sale and row are written separately by overlapping jobs.
PhaseOf(p) ==
    IF excused[p] # {} THEN "doubted"
    ELSE IF positions[p].status = "none" THEN "unused" ELSE positions[p].status
SalesOf(p) == IF excused[p] # {} THEN 0 ELSE soldFor[p]
Life == INSTANCE PositionLifecycle WITH phase <- [p \in PositionIds |-> PhaseOf(p)],
                                        sales <- [p \in PositionIds |-> SalesOf(p)]
ImplementsLife == Life!Spec

\* An alert goes out at most once a day and account, and the budget alert once a
\* day for all accounts, unless Redis failed, two checks of it overlapped or one
\* was cut off between sending and marking.
AlertOncePerDay == \A k \in AlertKeys : sent[k] > 1 => k \in doubtful

\* The peak of a day's snapshot is no lower than the total of any earlier day,
\* however often the report runs on a day, unless two reports overlapped.
PeakCoversHistory ==
    \A a \in Accounts \ mixed : \A d, e \in 1 .. LastDay :
      (e < d /\ snapshots[a][e] # None /\ snapshots[a][d] # None) =>
        snapshots[a][d].peak >= snapshots[a][e].total

\* With the triggers on, no position of a prepared account stays open at or below
\* its stop for ever, whatever failed before, unless a sale of its symbol went
\* wrong: it may have been made with its share.
Exposed(p) ==
    /\ life = "up" /\ ~ paused /\ positions[p].status = "open"
    /\ positions[p].account \in contexts /\ Sweep(positions[p].account) \in agenda
    /\ StopLossHit(positions[p], price[positions[p].symbol])
Disturbed(p) ==
    \E q \in PositionIds :
      /\ excused[q] # {}
      /\ positions[q].account = positions[p].account /\ positions[q].symbol = positions[p].symbol
StopIsSold ==
    \A p \in PositionIds : <>[]Exposed(p) => <>(positions[p].status = "open" /\ Disturbed(p))

\* A row that says RUNNING comes to say how its job ended, unless the process
\* ended first or the row could not be written.
RowSettles ==
    \A i \in Slots :
      (inst[i].row = "running" /\ Active(i)) ~>
        (inst[i].row \in {"success", "failed"} \/ inst[i].pc \in {"dead", "unrecorded"})
=============================================================================
