-------------------------- MODULE SchedulerProofs --------------------------
(***************************************************************************)
(* Theorems about Scheduler, for every set of accounts, positions, jobs at *)
(* a time and days: the sales of the sweeps, the alerts and the peaks of   *)
(* the snapshots.                                                          *)
(***************************************************************************)
EXTENDS Scheduler, SetProofs

JobIds == Common \union UNION {JobsOf(a) : a \in Accounts}
RowStates == {"none", "running", "success", "failed"}
Signals == [symbol : Symbols, reason : ExitReasons, from : PositionIds]
Selling == {"price", "exit", "closing"}
Alarming == {"alerts", "send", "mark"}
\* The days up to one, and what a report has read.
States(day) == [total : Nat, peak : Nat, date : 1 .. day]

\* What a job has in hand, by where it stands.
InstOK(x) ==
    /\ x \in [job : JobIds \union {None}, by : {None, "trigger", "api"},
              account : Accounts \union {None}, pc : Pcs, row : RowStates,
              list : SUBSET PositionIds, todo : {x.todo}, cur : {x.cur}]
    /\ x.pc \notin Ended => x.job \in JobIds /\ x.account = x.job[2]
    /\ x.pc \notin Ended \union {"once", "update"} => x.account \in Accounts
    /\ x.pc \in Selling \union Alarming => x.job = Sweep(x.account)
    /\ x.pc = "price" => x.todo \subseteq x.list /\ x.cur \subseteq Signals
    /\ x.pc \in {"exit", "closing"} => x.todo \subseteq Signals
    /\ x.pc = "closing" => x.cur \in x.list
    /\ x.pc \in Alarming => x.todo \subseteq AlertsOf(x.account)
    /\ x.pc \in {"send", "mark"} => x.cur \in AlertKeys
    /\ x.pc = "entry" => x.todo \subseteq Symbols
    /\ x.pc = "update" => x.cur \in {"success", "failed"}

FactoryInv ==
    /\ life \in {"down", "preparing", "up"}
    /\ contexts \subseteq Accounts /\ loaded \subseteq Accounts
    /\ DOMAIN jobFns \subseteq JobIds
    /\ \A job \in DOMAIN jobFns : jobFns[job] = job[2]
    /\ life = "up" => \A a \in contexts : Sweep(a) \in DOMAIN jobFns
    /\ today \in 1 .. LastDay /\ total \in [Accounts -> TotalRange] /\ mishaps \in Nat

InstInv == inst = [i \in Slots |-> inst[i]] /\ \A i \in Slots : InstOK(inst[i])

---------------------------------------------------------------------------
(* Sales                                                                   *)

BooksOK ==
    /\ positions \in [PositionIds -> PositionRows \union {NoPosition}]
    /\ shares \in [Accounts -> [Symbols -> Nat]]
    /\ soldFor \in [PositionIds -> Nat]
    /\ excused = [p \in PositionIds |-> excused[p]]
    /\ \A p \in PositionIds : positions[p].status = "none" => soldFor[p] = 0

\* The positions of a list are rows of the account, and stay so.
ListInv ==
    \A i \in Slots : \A p \in inst[i].list :
        positions[p] \in PositionRows /\ positions[p].account = inst[i].account

\* The signals a sweep has found or has still to execute are about positions of
\* its list, one for each at most.
Found(x) == IF x.pc = "price" THEN x.cur ELSE x.todo
SignalOK(x) ==
    x.pc \in Selling =>
        /\ \A g \in Found(x) : /\ g.from \in x.list
                               /\ g.symbol = positions[g.from].symbol
                               /\ x.pc = "price" => g.from \notin x.todo
        /\ \A g, h \in Found(x) : g.from = h.from => g = h
SignalInv == \A i \in Slots : SignalOK(inst[i])

\* A position is still to be sold by the job x.
Wanted(x, p) ==
    \/ x.pc = "price" /\ p \in x.list
    \/ x.pc \in {"exit", "closing"} /\ \E g \in x.todo : g.from = p

\* A position that nothing went wrong with is in the hands of one sweep at a
\* time, alone with its symbol, and not sold while it is wanted.
SaleInv(p) ==
    excused[p] = {} =>
        /\ \A i, k \in Slots : inst[i].pc \in Selling /\ inst[k].pc \in Selling
                                 /\ p \in inst[i].list /\ p \in inst[k].list => i = k
        /\ \A i \in Slots : \A q \in inst[i].list :
             inst[i].pc \in Selling /\ p \in inst[i].list
               /\ positions[q].symbol = positions[p].symbol => p = q
        /\ \A i \in Slots : Wanted(inst[i], p) => positions[p].status = "open" /\ soldFor[p] = 0
        /\ soldFor[p] <= 1
        /\ soldFor[p] = 1 <=> (Closing(p) \/ positions[p].status = "closed")

SalesInv == BooksOK /\ ListInv /\ SignalInv /\ \A p \in PositionIds : SaleInv(p)

---------------------------------------------------------------------------
(* Alerts                                                                  *)

\* Of an alert that nothing disturbed: it was sent when it is marked or one job
\* is about to mark it, and no other job has it in hand.
AlertInv(k) ==
    k \notin doubtful =>
        /\ \A i, j \in Alerting(k) : i = j
        /\ \A i \in Alerting(k) : sent[k] = IF inst[i].pc = "send" THEN 0 ELSE 1
        /\ k \in marks => Alerting(k) = {}
        /\ Alerting(k) = {} => sent[k] = IF k \in marks THEN 1 ELSE 0
AlertsInv ==
    /\ marks \subseteq AlertKeys /\ sent \in [AlertKeys -> Nat]
    /\ \A k \in AlertKeys : AlertInv(k)

---------------------------------------------------------------------------
(* Snapshots                                                               *)

Snaps == [total : Nat, peak : Nat]

\* A report that does not overlap with another one of its account has seen
\* every snapshot there is.
ReportInv(a) ==
    /\ \A i, k \in Slots : inst[i].pc = "snapshot" /\ inst[k].pc = "snapshot"
                             /\ inst[i].account = a /\ inst[k].account = a => i = k
    /\ \A i \in Slots : \A d \in 1 .. LastDay :
         inst[i].pc = "snapshot" /\ inst[i].account = a /\ snapshots[a][d] # None =>
           d <= inst[i].cur.date /\ inst[i].cur.peak >= snapshots[a][d].total
SnapshotsInv ==
    /\ snapshots \in [Accounts -> [1 .. LastDay -> Snaps \union {None}]]
    /\ \A a \in Accounts : \A d \in 1 .. LastDay : snapshots[a][d] # None => d <= today
    /\ \A i \in Slots : inst[i].pc = "snapshot" => inst[i].cur \in States(today)
    /\ \A a \in Accounts \ mixed : ReportInv(a)
    /\ PeakCoversHistory

SchedulerInv == FactoryInv /\ InstInv /\ SalesInv /\ AlertsInv /\ SnapshotsInv

---------------------------------------------------------------------------
(* Numbers and sets                                                        *)

\* The counters of the history that stop at two.
LEMMA MinOfTwo ==
    ASSUME NEW n \in Nat
    PROVE  Min({n + 1, 2}) = IF n = 0 THEN 1 ELSE 2
<1>1. Min({n + 1, 2}) \in {n + 1, 2} /\ \A x \in {n + 1, 2} : Min({n + 1, 2}) <= x
    BY MinFacts
<1> QED
    BY <1>1

\* How a job begins.
LEMMA JobFacts ==
    ASSUME NEW job \in JobIds
    PROVE  /\ FirstStep(job) \in {"positions", "pipeline", "state", "once"}
           /\ FirstStep(job) # "once" => job[2] \in Accounts
           /\ job[2] \in Accounts \union {None}
           /\ job[1] = "stop_loss_check" => job = Sweep(job[2])
           /\ job \in Common => job[2] = None
<1> USE DEF FirstStep, Sweep
<1>1. CASE job \in Common
    BY <1>1 DEF Common
<1>2. ASSUME NEW a \in Accounts, job \in JobsOf(a)
      PROVE  /\ FirstStep(job) \in {"positions", "pipeline", "state", "once"}
             /\ job[2] = a
             /\ job[1] = "stop_loss_check" => job = Sweep(a)
    BY <1>2 DEF JobsOf
<1>3. ASSUME NEW a \in Accounts, job \in JobsOf(a), job \in Common
      PROVE  job[2] = None
    BY <1>3 DEF Common
<1> QED
    BY <1>1, <1>2, <1>3 DEF JobIds

\* A job that is not under way has nothing in hand.
LEMMA IdleOK ==
    ASSUME NEW pc \in Ended, NEW row \in RowStates
    PROVE  InstOK([Idle EXCEPT !.pc = pc, !.row = row])
BY DEF InstOK, Idle, Ended, Pcs, RowStates, Selling, Alarming

\* How a body ends.
LEMMA EndOK ==
    ASSUME NEW x, InstOK(x), x.pc \notin Ended, NEW y \in {Returned(x), Raised(x)}
    PROVE  InstOK(y) /\ y.pc = "update" /\ y.list = {} /\ y.todo = {} /\ y.account = x.account
BY DEF InstOK, Returned, Raised, Ended, Pcs, Selling, Alarming

\* A body goes on when there is nothing left to do where it stands.
LEMMA AdvanceOK ==
    ASSUME NEW x, InstOK(x), x.pc \in {"price", "exit", "alerts", "entry"}
    PROVE  /\ InstOK(Advance(x)) /\ Advance(x).account = x.account
           /\ \/ Advance(x) = x
              \/ /\ x.pc = "price" /\ Advance(x).pc = "exit"
                 /\ Advance(x).list = x.list /\ Advance(x).todo = x.cur
              \/ Advance(x).pc \in {"alerts", "update"} /\ Advance(x).list = {}
<1> DEFINE y == Advance(x)
           exit == [x EXCEPT !.pc = "exit", !.todo = x.cur, !.cur = None]
           alerts == [x EXCEPT !.pc = "alerts", !.list = {}, !.todo = AlertsOf(x.account) \cap due,
                               !.cur = None]
<1>1. x.pc \notin Ended
    BY DEF Ended
<1>2. CASE y = x
    BY <1>2
<1>3. CASE y = Returned(x)
    BY <1>1, <1>3, EndOK
<1>4. CASE y = exit /\ x.pc = "price"
    <2>1. InstOK(exit)
        BY <1>4 DEF InstOK, Pcs, Selling, Alarming, Ended
    <2>2. exit.pc = "exit" /\ exit.list = x.list /\ exit.todo = x.cur /\ exit.account = x.account
        BY DEF InstOK
    <2> QED
        BY <1>4, <2>1, <2>2
<1>5. CASE y = alerts /\ x.pc \in Selling
    <2>1. InstOK(alerts)
        BY <1>5 DEF InstOK, Pcs, Selling, Alarming, Ended
    <2>2. alerts.pc = "alerts" /\ alerts.list = {} /\ alerts.account = x.account
        BY DEF InstOK
    <2> QED
        BY <1>5, <2>1, <2>2
<1>6. \/ y = x \/ y = Returned(x)
      \/ (y = exit /\ x.pc = "price") \/ (y = alerts /\ x.pc \in Selling)
    BY DEF Advance, Monitoring, Selling
<1> QED
    BY <1>2, <1>3, <1>4, <1>5, <1>6

\* A job that begins.
LEMMA BeginOK ==
    ASSUME NEW job \in JobIds, NEW by \in {"trigger", "api"}, NEW row \in {"running", "none"}, NEW y,
           y = [Idle EXCEPT !.job = job, !.by = by, !.account = job[2], !.pc = FirstStep(job),
                            !.row = row]
    PROVE  InstOK(y) /\ y.pc \in {"positions", "pipeline", "state", "once"} /\ y.list = {}
<1>1. /\ FirstStep(job) \in {"positions", "pipeline", "state", "once"}
      /\ FirstStep(job) # "once" => job[2] \in Accounts
      /\ job[2] \in Accounts \union {None}
    BY JobFacts
<1> QED
    BY <1>1 DEF InstOK, Idle, Ended, Pcs, RowStates, Selling, Alarming

\* One slot changes, the others do not.
LEMMA SlotMoves ==
    ASSUME InstInv, NEW i \in Slots, NEW y, InstOK(y), inst' = [inst EXCEPT ![i] = y]
    PROVE  InstInv' /\ inst'[i] = y /\ \A k \in Slots \ {i} : inst'[k] = inst[k]
<1>1. inst'[i] = y /\ \A k \in Slots \ {i} : inst'[k] = inst[k]
    BY DEF InstInv
<1>2. inst' = [k \in Slots |-> inst'[k]]
    BY DEF InstInv
<1>3. ASSUME NEW k \in Slots PROVE InstOK(inst'[k])
    BY <1>1 DEF InstInv
<1> QED
    BY <1>1, <1>2, <1>3 DEF InstInv, InstOK

---------------------------------------------------------------------------
(* Sales                                                                   *)

\* What a slot may hold for the sales to stand: its old list or none, and
\* nothing to sell that it had not to sell before.
SalesMay(x, y) ==
    /\ y.list = {} \/ (y.list = x.list /\ y.account = x.account)
    /\ y.pc \in Selling => x.pc \in Selling /\ y.list = x.list /\ SignalOK(y)
    /\ \A p : Wanted(y, p) => Wanted(x, p)

\* A job that is not selling may stand.
LEMMA SalesMayQuietly ==
    ASSUME NEW x, NEW y, y.pc \notin Selling,
           y.list = {} \/ (y.list = x.list /\ y.account = x.account)
    PROVE  SalesMay(x, y)
BY DEF SalesMay, Wanted, Selling

\* So may one that goes on from what may stand.
LEMMA SalesMayAdvance ==
    ASSUME NEW x, NEW z, InstOK(z), z.pc \in {"price", "exit", "alerts", "entry"}, SalesMay(x, z)
    PROVE  SalesMay(x, Advance(z)) /\ Advance(z).pc # "closing"
<1>1. CASE Advance(z) = z
    BY <1>1
<1>2. CASE /\ z.pc = "price" /\ Advance(z).pc = "exit"
           /\ Advance(z).list = z.list /\ Advance(z).todo = z.cur
    <2> DEFINE y == Advance(z)
    <2>1. y.account = z.account
        BY AdvanceOK
    <2> HIDE DEF y
    <2>2. SignalOK(y) /\ \A p : Wanted(y, p) => Wanted(z, p)
        BY <1>2 DEF y, SalesMay, SignalOK, Found, Wanted, Selling
    <2> QED
        BY <1>2, <2>1, <2>2 DEF y, SalesMay, Selling
<1>3. CASE Advance(z).pc \in {"alerts", "update"} /\ Advance(z).list = {}
    BY <1>3, SalesMayQuietly DEF Selling
<1> QED
    BY <1>1, <1>2, <1>3, AdvanceOK

\* A position nothing happens to keeps its invariant.
LEMMA SaleKept ==
    ASSUME NEW i \in Slots, NEW y, NEW p \in PositionIds, SaleInv(p),
           inst'[i] = y, \A k \in Slots \ {i} : inst'[k] = inst[k],
           SalesMay(inst[i], y),
           (y.pc = "closing" /\ y.cur = p) <=> (inst[i].pc = "closing" /\ inst[i].cur = p),
           soldFor'[p] = soldFor[p], positions'[p].status = positions[p].status,
           \A k \in Slots : \A q \in inst[k].list : positions'[q].symbol = positions[q].symbol,
           excused'[p] = {} => excused[p] = {}
    PROVE  SaleInv(p)'
<1> SUFFICES ASSUME excused'[p] = {} PROVE SaleInv(p)'
    BY DEF SaleInv
<1>1. \A k \in Slots : /\ inst'[k].pc \in Selling => inst[k].pc \in Selling
                       /\ inst'[k].list \subseteq inst[k].list
                       /\ Wanted(inst'[k], p) => Wanted(inst[k], p)
                       /\ (inst'[k].pc = "closing" /\ inst'[k].cur = p)
                            <=> (inst[k].pc = "closing" /\ inst[k].cur = p)
    BY DEF SalesMay
<1>2. Closing(p)' <=> Closing(p)
    BY <1>1 DEF Closing
<1>3. \A j, k \in Slots : inst'[j].pc \in Selling /\ inst'[k].pc \in Selling
                             /\ p \in inst'[j].list /\ p \in inst'[k].list => j = k
    BY <1>1 DEF SaleInv
<1>4. \A k \in Slots : \A q \in inst'[k].list :
         inst'[k].pc \in Selling /\ p \in inst'[k].list
           /\ positions'[q].symbol = positions'[p].symbol => p = q
    BY <1>1 DEF SaleInv
<1>5. \A k \in Slots : Wanted(inst'[k], p) => positions'[p].status = "open" /\ soldFor'[p] = 0
    BY <1>1 DEF SaleInv
<1> QED
    BY <1>2, <1>3, <1>4, <1>5 DEF SaleInv, Wanted

\* Rows keep their symbol and account, and those of lists stay rows.
RowsKept ==
    \A k \in Slots : \A q \in inst[k].list :
        /\ positions'[q] \in PositionRows
        /\ positions'[q].account = positions[q].account
        /\ positions'[q].symbol = positions[q].symbol

\* Lists and signals stay about rows of their account.
LEMMA ListsKept ==
    ASSUME ListInv, SignalInv, RowsKept, NEW i \in Slots, NEW y,
           inst'[i] = y, \A k \in Slots \ {i} : inst'[k] = inst[k], SalesMay(inst[i], y)
    PROVE  ListInv' /\ SignalInv'
<1>1. ListInv'
    BY DEF ListInv, RowsKept, SalesMay
<1>2. ASSUME NEW k \in Slots PROVE SignalOK(inst[k])'
    <2>1. SignalOK(inst[k]) /\ (k = i => SalesMay(inst[i], y))
        BY DEF SignalInv
    <2>2. CASE k = i
        BY <2>1, <2>2 DEF SignalOK, SalesMay, RowsKept
    <2>3. CASE k # i
        BY <2>1, <2>3 DEF SignalOK, RowsKept
    <2> QED
        BY <2>2, <2>3
<1> QED
    BY <1>1, <1>2 DEF SignalInv

\* Books that do not change, and a job that does not close a position.
LEMMA SalesQuiet ==
    ASSUME SalesInv, UNCHANGED books, NEW i \in Slots, NEW y,
           inst'[i] = y, \A k \in Slots \ {i} : inst'[k] = inst[k],
           SalesMay(inst[i], y), y.pc # "closing", inst[i].pc # "closing"
    PROVE  SalesInv'
<1>1. RowsKept
    BY DEF SalesInv, ListInv, RowsKept, books
<1>2. ListInv' /\ SignalInv'
    BY <1>1, ListsKept DEF SalesInv
<1>3. ASSUME NEW p \in PositionIds PROVE SaleInv(p)'
    <2>1. SaleInv(p)
        BY DEF SalesInv
    <2> QED
        BY <2>1, SaleKept DEF books
<1>4. BooksOK'
    BY DEF SalesInv, BooksOK, books
<1> QED
    BY <1>2, <1>3, <1>4 DEF SalesInv

\* A sweep reads the positions it will look at.
LEMMA SalesRead ==
    ASSUME SalesInv, InstInv, NEW i \in Slots, NEW y, NEW a \in Accounts,
           inst'[i] = y, \A k \in Slots \ {i} : inst'[k] = inst[k],
           UNCHANGED <<positions, shares, soldFor>>,
           y.pc = "price", y.list = OpenOf(a), y.account = a, y.cur = {}, inst[i].pc = "positions",
           excused' = [p \in PositionIds |-> excused[p]
             \union (IF p \in OpenOf(a) /\ Twin(p) THEN {"twin"} ELSE {})
             \union (IF p \in OpenOf(a) /\ \E k \in Slots \ {i} : Sweeping(k, a)
                       THEN {"overlap"} ELSE {})]
    PROVE  SalesInv'
<1>1. \A p \in OpenOf(a) : /\ p \in PositionIds /\ positions[p].status = "open"
                           /\ positions[p].account = a /\ positions[p] \in PositionRows
    BY DEF OpenOf, Open, SalesInv, BooksOK, NoPosition
<1>2. ListInv'
    BY <1>1 DEF ListInv, SalesInv
<1>3. ASSUME NEW k \in Slots PROVE SignalOK(inst[k])'
    <2>1. CASE k = i
        BY <2>1 DEF SignalOK, Found
    <2>2. CASE k # i
        BY <2>2 DEF SalesInv, SignalInv, SignalOK, Found
    <2> QED
        BY <2>1, <2>2
<1>4. ASSUME NEW p \in PositionIds, excused'[p] = {} PROVE SaleInv(p)'
    <2>1. excused[p] = {}
        BY <1>4 DEF SalesInv, BooksOK
    <2>2. ASSUME p \in OpenOf(a), NEW k \in Slots \ {i}, inst[k].pc \in Selling, p \in inst[k].list
          PROVE  FALSE
        <3>1. inst[k].account = a /\ inst[k].job = Sweep(a)
            BY <1>1, <2>2 DEF SalesInv, ListInv, InstInv, InstOK
        <3>2. Sweeping(k, a)
            BY <2>2, <3>1 DEF Sweeping, Selling
        <3> QED
            BY <1>4, <2>2, <3>2
    <2>3. p \in OpenOf(a) => ~ Twin(p)
        BY <1>4
    <2>4. Closing(p)' <=> Closing(p)
        BY DEF Closing
    <2>5. p \in OpenOf(a) => ~ Closing(p)
        BY <2>2 DEF Closing, InstInv, InstOK, Selling
    <2>6. SaleInv(p)
        BY DEF SalesInv
    <2>7. \A j, k \in Slots : inst'[j].pc \in Selling /\ inst'[k].pc \in Selling
                                /\ p \in inst'[j].list /\ p \in inst'[k].list => j = k
        BY <2>1, <2>2, <2>6 DEF SaleInv
    <2>8. ASSUME NEW k \in Slots, NEW q \in inst'[k].list, inst'[k].pc \in Selling,
                 p \in inst'[k].list, positions[q].symbol = positions[p].symbol
          PROVE  p = q
        <3>1. CASE k = i
            BY <1>1, <2>3, <2>8, <3>1 DEF Twin, OpenOf
        <3>2. CASE k # i
            BY <2>1, <2>6, <2>8, <3>2 DEF SaleInv
        <3> QED
            BY <3>1, <3>2
    <2>9. soldFor[p] <= 1 /\ (soldFor[p] = 1 <=> (Closing(p) \/ positions[p].status = "closed"))
        BY <2>1, <2>6 DEF SaleInv
    <2>10. ASSUME NEW k \in Slots, Wanted(inst'[k], p)
           PROVE  positions[p].status = "open" /\ soldFor[p] = 0
        <3>1. CASE k = i
            <4>1. p \in OpenOf(a)
                BY <2>10, <3>1 DEF Wanted
            <4>2. positions[p].status = "open" /\ soldFor[p] # 1
                BY <1>1, <2>5, <2>9, <4>1
            <4>3. soldFor[p] \in Nat
                BY DEF SalesInv, BooksOK
            <4> QED
                BY <2>9, <4>2, <4>3
        <3>2. CASE k # i
            BY <2>1, <2>6, <2>10, <3>2 DEF SaleInv
        <3> QED
            BY <3>1, <3>2
    <2>11. \A k \in Slots : Wanted(inst[k], p)' => positions'[p].status = "open" /\ soldFor'[p] = 0
        BY <2>10 DEF Wanted
    <2> QED
        BY <2>4, <2>7, <2>8, <2>9, <2>11 DEF SaleInv
<1>5. BooksOK'
    BY DEF SalesInv, BooksOK
<1> QED
    BY <1>2, <1>3, <1>4, <1>5 DEF SalesInv, SignalInv, SaleInv

\* What a sweep finds is about the position it looks at.
LEMMA SweepReason ==
    ASSUME NEW p, NEW now, NEW day
    PROVE  SweepExit(p, now, day) \in ExitReasons \union {None}
BY DEF SweepExit, ExitReasons

\* A position of a sweep's list is looked at.
LEMMA PriceSlot ==
    ASSUME SalesInv, InstInv, NEW i \in Slots, NEW y, PricePosition(i), y = inst'[i]
    PROVE  /\ InstOK(y) /\ inst' = [inst EXCEPT ![i] = y]
           /\ SalesMay(inst[i], y) /\ y.pc \in {"price", "exit", "alerts", "update"}
<1> DEFINE x == inst[i]
           p == Min(x.todo)
           reason == SweepExit(positions[p], price[positions[p].symbol], today)
           found == IF reason = None THEN {}
                    ELSE {[symbol |-> positions[p].symbol, reason |-> reason, from |-> p]}
           rest == [x EXCEPT !.todo = @ \ {p}]
           more == [rest EXCEPT !.cur = @ \union found]
<1>1. x.pc = "price" /\ x.todo # {} /\ InstOK(x) /\ SignalOK(x)
    BY DEF PricePosition, InstInv, SalesInv, SignalInv
<1>2. x.todo \subseteq x.list /\ x.list \subseteq PositionIds /\ x.cur \subseteq Signals
    BY <1>1 DEF InstOK
<1>3. p \in x.todo
    BY <1>1, <1>2, MinFacts, SchedulerAssumption
<1>4. positions[p] \in PositionRows
    BY <1>2, <1>3 DEF SalesInv, ListInv
<1>5. reason \in ExitReasons \union {None}
    BY SweepReason
<1>6. PICK z : z \in {rest, more} /\ inst' = [inst EXCEPT ![i] = Advance(z)]
    BY DEF PricePosition
<1> HIDE DEF reason
<1>7. positions[p].symbol \in Symbols /\ p \in PositionIds
    BY <1>2, <1>3, <1>4 DEF PositionRows
<1> HIDE DEF p
<1>8. found \subseteq Signals
    BY <1>5, <1>7 DEF Signals
<1>9. \A g \in found : g.from = p /\ g.symbol = positions[p].symbol
    OBVIOUS
<1>10. \A g, h \in found : g = h
    OBVIOUS
<1> HIDE DEF found
<1>11. PICK new : /\ new \subseteq Signals /\ (\A g, h \in new : g = h)
                  /\ (\A g \in new : g.from = p /\ g.symbol = positions[p].symbol)
                  /\ z = [x EXCEPT !.todo = x.todo \ {p}, !.cur = x.cur \union new]
    <2>1. CASE z = rest
        <3>1. rest = [x EXCEPT !.todo = x.todo \ {p}, !.cur = x.cur \union {}]
            BY <1>1 DEF InstOK
        <3> QED
            BY <2>1, <3>1
    <2>2. CASE z = more
        <3>1. more = [x EXCEPT !.todo = x.todo \ {p}, !.cur = x.cur \union found]
            BY <1>1 DEF InstOK
        <3> QED
            BY <1>8, <1>9, <1>10, <2>2, <3>1
    <2> QED
        BY <1>6, <2>1, <2>2
<1>12. /\ z.pc = "price" /\ z.list = x.list /\ z.todo = x.todo \ {p} /\ z.cur = x.cur \union new
       /\ z.account = x.account /\ z.job = x.job
    BY <1>1, <1>11 DEF InstOK
<1>13. InstOK(z)
    BY <1>1, <1>2, <1>11, <1>12 DEF InstOK, Selling, Alarming, Ended
<1>14. SignalOK(z)
    BY <1>1, <1>2, <1>3, <1>11, <1>12 DEF SignalOK, Found
<1>15. SalesMay(x, z)
    BY <1>1, <1>12, <1>14 DEF SalesMay, Wanted, Selling
<1>16. InstOK(Advance(z)) /\ SalesMay(x, Advance(z))
       /\ Advance(z).pc \in {"price", "exit", "alerts", "update"}
    BY <1>12, <1>13, <1>15, AdvanceOK, SalesMayAdvance
<1> QED
    BY <1>6, <1>16 DEF InstInv

\* A signal leaves the list; the position sold for it has its symbol.
LEMMA SignalSlot ==
    ASSUME SalesInv, InstInv, NEW i \in Slots, inst[i].pc = "exit", NEW g \in inst[i].todo, NEW p,
           p = MatchSignalToPosition(g, inst[i].list), NEW rest,
           rest = [inst[i] EXCEPT !.todo = inst[i].todo \ {g}]
    PROVE  /\ p \in PositionIds /\ p \in inst[i].list /\ positions[p].symbol = g.symbol
           /\ g.from \in inst[i].list /\ positions[g.from].symbol = g.symbol
           /\ inst[i].account \in Accounts /\ g.symbol \in Symbols
           /\ InstOK(rest) /\ rest.pc = "exit" /\ rest.list = inst[i].list
           /\ rest.todo = inst[i].todo \ {g} /\ rest.account = inst[i].account
           /\ SalesMay(inst[i], rest)
<1> DEFINE x == inst[i]
           same == {q \in x.list : positions[q].symbol = g.symbol}
<1>1. InstOK(x) /\ SignalOK(x)
    BY DEF InstInv, SalesInv, SignalInv
<1>2. g.from \in x.list /\ positions[g.from].symbol = g.symbol /\ g \in Signals
    BY <1>1 DEF SignalOK, Found, Selling, InstOK
<1>3. x.list \subseteq PositionIds /\ x.account \in Accounts
    BY <1>1 DEF InstOK, Ended
<1>4. same \in SUBSET Nat /\ same # {}
    BY <1>2, <1>3, SchedulerAssumption
<1>5. p \in same
    BY <1>4, MinFacts DEF MatchSignalToPosition
<1>6. /\ rest.pc = "exit" /\ rest.list = x.list /\ rest.todo = x.todo \ {g}
      /\ rest.account = x.account /\ rest.job = x.job
    BY <1>1 DEF InstOK
<1>7. InstOK(rest)
    BY <1>1, <1>6 DEF InstOK, Selling, Alarming, Ended
<1>8. SignalOK(rest)
    BY <1>1, <1>6 DEF SignalOK, Found
<1>9. SalesMay(x, rest)
    BY <1>6, <1>8 DEF SalesMay, Wanted, Selling
<1> QED
    BY <1>2, <1>3, <1>5, <1>6, <1>7, <1>9 DEF Signals

\* A sale: of the position of the signal, if nothing went wrong with the one that
\* was found; it is recorded next, or it is known that it will not be.
LEMMA SaleMade ==
    ASSUME SalesInv, InstInv, NEW i \in Slots, NEW y, NEW g \in inst[i].todo, NEW p,
           inst[i].pc = "exit", p = MatchSignalToPosition(g, inst[i].list),
           inst'[i] = y, \A k \in Slots \ {i} : inst'[k] = inst[k],
           SalesMay(inst[i], y),
           UNCHANGED positions, soldFor' = [soldFor EXCEPT ![p] = Min({@ + 1, 2})],
           shares' \in [Accounts -> [Symbols -> Nat]],
           \/ y.pc = "closing" /\ y.cur = p /\ y.todo = inst[i].todo \ {g} /\ UNCHANGED excused
           \/ y.pc # "closing" /\ excused' = [excused EXCEPT ![p] = @ \union {"unrecorded"}]
    PROVE  SalesInv'
<1> DEFINE x == inst[i]
<1>1. /\ p \in PositionIds /\ p \in x.list /\ positions[p].symbol = g.symbol
      /\ g.from \in x.list /\ positions[g.from].symbol = g.symbol
    <2>1. PICK rest : rest = [x EXCEPT !.todo = x.todo \ {g}]
        OBVIOUS
    <2> QED
        BY <2>1, SignalSlot
<1>2. RowsKept
    BY DEF SalesInv, ListInv, RowsKept
<1>3. ListInv' /\ SignalInv'
    BY <1>2, ListsKept DEF SalesInv
<1>4. soldFor \in [PositionIds -> Nat] /\ excused = [r \in PositionIds |-> excused[r]]
    BY DEF SalesInv, BooksOK
<1>5. positions[p].status # "none"
    BY <1>1 DEF SalesInv, ListInv, PositionRows
<1>6. soldFor'[p] = IF soldFor[p] = 0 THEN 1 ELSE 2
    BY <1>1, <1>4, MinOfTwo
<1>7. BooksOK'
    <2>1. soldFor' \in [PositionIds -> Nat]
        <3>1. Min({soldFor[p] + 1, 2}) \in Nat
            BY <1>1, <1>4, MinOfTwo
        <3> QED
            BY <1>4, <3>1
    <2>2. \A r \in PositionIds : positions[r].status = "none" => soldFor'[r] = 0
        BY <1>4, <1>5 DEF SalesInv, BooksOK
    <2>3. excused' = [r \in PositionIds |-> excused'[r]]
        BY <1>4
    <2> QED
        BY <2>1, <2>2, <2>3 DEF SalesInv, BooksOK
<1>8. ASSUME NEW r \in PositionIds, r # p PROVE SaleInv(r)'
    <2>1. SaleInv(r) /\ soldFor'[r] = soldFor[r] /\ excused'[r] = excused[r]
        BY <1>4, <1>8 DEF SalesInv
    <2>2. \A k \in Slots : \A q \in inst[k].list : positions'[q].symbol = positions[q].symbol
        OBVIOUS
    <2>3. (y.pc = "closing" /\ y.cur = r) <=> (x.pc = "closing" /\ x.cur = r)
        BY <1>8
    <2> QED
        BY <2>1, <2>2, <2>3, SaleKept
<1>9. ASSUME excused'[p] = {} PROVE SaleInv(p)'
    <2>1. y.pc = "closing" /\ y.cur = p /\ y.todo = x.todo \ {g} /\ excused[p] = {}
        BY <1>1, <1>4, <1>9
    <2>2. SaleInv(p) /\ SignalOK(x)
        BY <1>1 DEF SalesInv, SignalInv
    <2>3. p = g.from
        BY <1>1, <2>1, <2>2 DEF SaleInv, Selling
    <2>4. Wanted(x, p)
        BY <2>3 DEF Wanted
    <2>5. positions[p].status = "open" /\ soldFor[p] = 0
        BY <2>1, <2>2, <2>4 DEF SaleInv
    <2>6. soldFor'[p] = 1
        BY <1>6, <2>5
    <2>7. Closing(p)'
        BY <2>1 DEF Closing
    <2>8. \A k \in Slots : /\ inst'[k].pc \in Selling => inst[k].pc \in Selling
                           /\ inst'[k].list \subseteq inst[k].list
        BY DEF SalesMay
    <2>9. \A j, k \in Slots : inst'[j].pc \in Selling /\ inst'[k].pc \in Selling
                                /\ p \in inst'[j].list /\ p \in inst'[k].list => j = k
        BY <2>1, <2>2, <2>8 DEF SaleInv
    <2>10. \A k \in Slots : \A q \in inst'[k].list :
             inst'[k].pc \in Selling /\ p \in inst'[k].list
               /\ positions'[q].symbol = positions'[p].symbol => p = q
        BY <2>1, <2>2, <2>8 DEF SaleInv
    <2>11. ASSUME NEW k \in Slots, Wanted(inst'[k], p) PROVE FALSE
        <3>1. CASE k = i
            <4>1. PICK h \in y.todo : h.from = p
                BY <2>1, <2>11, <3>1 DEF Wanted
            <4> QED
                BY <2>1, <2>2, <2>3, <4>1 DEF SignalOK, Found, Selling
        <3>2. CASE k # i
            <4>1. Wanted(inst[k], p) /\ SignalOK(inst[k])
                BY <2>11, <3>2 DEF SalesInv, SignalInv
            <4>2. inst[k].pc \in Selling /\ p \in inst[k].list
                BY <4>1 DEF Wanted, SignalOK, Found, Selling
            <4> QED
                BY <1>1, <2>1, <2>2, <3>2, <4>2 DEF SaleInv, Selling
        <3> QED
            BY <3>1, <3>2
    <2>12. \A k \in Slots : ~ Wanted(inst[k], p)'
        BY <2>11 DEF Wanted
    <2> QED
        BY <2>6, <2>7, <2>9, <2>10, <2>12 DEF SaleInv
<1>10. SaleInv(p)'
    BY <1>9 DEF SaleInv
<1> QED
    BY <1>3, <1>7, <1>8, <1>10 DEF SalesInv

\* A slot whose content changes; the steps of a job are all of this form.
Becomes(i, y) == inst' = [inst EXCEPT ![i] = y] /\ InstOK(y)

\* A signal is handed over: sold, refused or failed.
LEMMA ExecuteSignalStep ==
    ASSUME SalesInv, InstInv, NEW i \in Slots, NEW g \in inst[i].todo, ExecuteSignal(i, g)
    PROVE  SalesInv' /\ \E y : Becomes(i, y) /\ y.pc \in {"closing", "exit", "alerts", "update"}
<1> DEFINE x == inst[i]
           a == x.account
           shares1 == [shares EXCEPT ![a][g.symbol] = @ - 1]
<1>1. PICK p : p = MatchSignalToPosition(g, x.list)
    OBVIOUS
<1>2. PICK rest : rest = [x EXCEPT !.todo = x.todo \ {g}]
    OBVIOUS
<1>3. x.pc = "exit"
    BY DEF ExecuteSignal
<1>4. /\ p \in PositionIds /\ p \in x.list /\ x.account \in Accounts /\ g.symbol \in Symbols
      /\ InstOK(rest) /\ rest.pc = "exit" /\ rest.list = x.list /\ rest.todo = x.todo \ {g}
      /\ rest.account = x.account /\ SalesMay(x, rest)
    BY <1>1, <1>2, <1>3, SignalSlot
<1>5. shares \in [Accounts -> [Symbols -> Nat]] /\ UNCHANGED positions
    BY DEF SalesInv, BooksOK, ExecuteSignal
<1>6. shares[a][g.symbol] > 0 => shares1 \in [Accounts -> [Symbols -> Nat]]
    BY <1>4, <1>5
<1>7. /\ InstOK(Advance(rest)) /\ SalesMay(x, Advance(rest))
      /\ Advance(rest).pc \in {"exit", "alerts", "update"}
    BY <1>4, AdvanceOK, SalesMayAdvance
<1>8. CASE /\ shares[a][g.symbol] > 0 /\ shares' = shares1
           /\ soldFor' = [soldFor EXCEPT ![p] = Min({@ + 1, 2})]
           /\ inst' = [inst EXCEPT ![i] = [rest EXCEPT !.pc = "closing", !.cur = p]]
           /\ UNCHANGED excused
    <2>1. PICK y : y = [rest EXCEPT !.pc = "closing", !.cur = p]
        OBVIOUS
    <2>2. /\ y.pc = "closing" /\ y.cur = p /\ y.list = x.list /\ y.todo = x.todo \ {g}
          /\ y.account = x.account
        BY <1>4, <2>1 DEF InstOK
    <2>3. InstOK(y)
        BY <1>4, <2>1, <2>2 DEF InstOK, Selling, Alarming, Ended, Pcs
    <2>4. SignalOK(y) /\ \A r : Wanted(y, r) => Wanted(rest, r)
        BY <1>4, <2>2 DEF SalesMay, SignalOK, Found, Selling, Wanted
    <2>5. SalesMay(x, y)
        BY <1>3, <1>4, <2>2, <2>4 DEF SalesMay, Selling
    <2>6. Becomes(i, y) /\ inst'[i] = y /\ \A k \in Slots \ {i} : inst'[k] = inst[k]
        BY <1>8, <2>1, <2>3, SlotMoves DEF Becomes
    <2>7. SalesInv'
        BY <1>1, <1>3, <1>5, <1>6, <1>8, <2>2, <2>5, <2>6, SaleMade
    <2> QED
        BY <2>2, <2>6, <2>7
<1>9. ASSUME inst' = [inst EXCEPT ![i] = Advance(rest)]
      PROVE  /\ Becomes(i, Advance(rest))
             /\ inst'[i] = Advance(rest) /\ \A k \in Slots \ {i} : inst'[k] = inst[k]
    BY <1>7, <1>9, SlotMoves DEF Becomes
<1>10. CASE /\ shares[a][g.symbol] > 0 /\ shares' = shares1
            /\ soldFor' = [soldFor EXCEPT ![p] = Min({@ + 1, 2})]
            /\ inst' = [inst EXCEPT ![i] = Advance(rest)]
            /\ excused' = [excused EXCEPT ![p] = @ \union {"unrecorded"}]
    <2>1. SalesInv'
        BY <1>1, <1>3, <1>5, <1>6, <1>7, <1>9, <1>10, SaleMade
    <2> QED
        BY <1>7, <1>9, <1>10, <2>1
<1>11. CASE /\ inst' = [inst EXCEPT ![i] = Advance(rest)]
            /\ UNCHANGED <<shares, soldFor, excused>>
    <2>1. SalesInv'
        BY <1>3, <1>5, <1>7, <1>9, <1>11, SalesQuiet DEF books
    <2> QED
        BY <1>7, <1>9, <1>11, <2>1
<1> QED
    BY <1>1, <1>2, <1>8, <1>10, <1>11 DEF ExecuteSignal

\* The row of what was sold is closed, or it is known that it was not.
LEMMA ClosePositionStep ==
    ASSUME SalesInv, InstInv, NEW i \in Slots, ClosePosition(i)
    PROVE  SalesInv' /\ \E y : Becomes(i, y) /\ y.pc \in {"exit", "alerts", "update"}
<1> DEFINE x == inst[i]
<1>0. PICK p : p = x.cur
    OBVIOUS
<1>1. PICK z : z = [x EXCEPT !.pc = "exit", !.cur = None]
    OBVIOUS
<1>2. /\ inst' = [inst EXCEPT ![i] = Advance(z)] /\ UNCHANGED <<shares, soldFor>>
      /\ x.pc = "closing" /\ InstOK(x) /\ SignalOK(x)
    BY <1>1 DEF ClosePosition, InstInv, SalesInv, SignalInv
<1>3. /\ z.pc = "exit" /\ z.list = x.list /\ z.todo = x.todo /\ z.account = x.account
      /\ z.job = x.job
    BY <1>1, <1>2 DEF InstOK
<1>4. InstOK(z)
    BY <1>1, <1>2, <1>3 DEF InstOK, Selling, Alarming, Ended, Pcs
<1>5. SalesMay(x, z)
    BY <1>2, <1>3 DEF SalesMay, SignalOK, Found, Selling, Wanted
<1>6. PICK y : y = Advance(z)
    OBVIOUS
<1>7. InstOK(y) /\ SalesMay(x, y) /\ y.pc \in {"exit", "alerts", "update"}
    BY <1>3, <1>4, <1>5, <1>6, AdvanceOK, SalesMayAdvance
<1>8. Becomes(i, y) /\ inst'[i] = y /\ \A k \in Slots \ {i} : inst'[k] = inst[k]
    BY <1>2, <1>6, <1>7, SlotMoves DEF Becomes
<1>9. p \in x.list /\ p \in PositionIds /\ positions[p] \in PositionRows
    BY <1>0, <1>2 DEF InstOK, SalesInv, ListInv
<1>10. /\ positions \in [PositionIds -> PositionRows \union {NoPosition}]
       /\ excused = [r \in PositionIds |-> excused[r]]
    BY DEF SalesInv, BooksOK
<1>11. /\ \A r \in PositionIds \ {p} : positions'[r] = positions[r] /\ excused'[r] = excused[r]
       /\ positions'[p] \in PositionRows /\ positions'[p].account = positions[p].account
       /\ positions'[p].symbol = positions[p].symbol
       /\ positions' \in [PositionIds -> PositionRows \union {NoPosition}]
       /\ excused' = [r \in PositionIds |-> excused'[r]]
       /\ \/ positions'[p].status = "closed" /\ excused'[p] = excused[p]
          \/ excused'[p] # {}
    <2>1. CASE positions' = [positions EXCEPT ![p].status = "closed"] /\ UNCHANGED excused
        <3>1. PICK row : row = [positions[p] EXCEPT !.status = "closed"]
            OBVIOUS
        <3>2. /\ row \in PositionRows /\ row.account = positions[p].account
              /\ row.symbol = positions[p].symbol /\ row.status = "closed"
            BY <1>9, <3>1 DEF PositionRows
        <3>3. positions' = [positions EXCEPT ![p] = row]
            BY <2>1, <3>1
        <3> QED
            BY <1>9, <1>10, <2>1, <3>2, <3>3
    <2>2. CASE UNCHANGED positions /\ excused' = [excused EXCEPT ![p] = @ \union {"unrecorded"}]
        BY <1>9, <1>10, <2>2
    <2> QED
        BY <1>0, <2>1, <2>2 DEF ClosePosition
<1>12. RowsKept
    BY <1>9, <1>11, <1>2 DEF RowsKept, SalesInv, ListInv, InstInv, InstOK
<1>13. ListInv' /\ SignalInv'
    BY <1>7, <1>8, <1>12, ListsKept DEF SalesInv
<1>14. BooksOK'
    BY <1>2, <1>9, <1>11 DEF SalesInv, BooksOK, PositionRows
<1>15. ASSUME NEW r \in PositionIds, r # p PROVE SaleInv(r)'
    <2>1. SaleInv(r) /\ soldFor'[r] = soldFor[r] /\ excused'[r] = excused[r]
             /\ positions'[r].status = positions[r].status
        BY <1>2, <1>11, <1>15 DEF SalesInv
    <2>2. \A k \in Slots : \A q \in inst[k].list : positions'[q].symbol = positions[q].symbol
        BY <1>12 DEF RowsKept
    <2>3. (y.pc = "closing" /\ y.cur = r) <=> (x.pc = "closing" /\ x.cur = r)
        BY <1>0, <1>7, <1>15
    <2> QED
        BY <1>7, <1>8, <2>1, <2>2, <2>3, SaleKept
<1>16. ASSUME excused'[p] = {} PROVE SaleInv(p)'
    <2>1. positions'[p].status = "closed" /\ excused[p] = {}
        BY <1>11, <1>16
    <2>2. SaleInv(p) /\ Closing(p)
        BY <1>0, <1>2, <1>9 DEF SalesInv, Closing
    <2>3. soldFor[p] = 1
        BY <2>1, <2>2 DEF SaleInv
    <2>4. \A k \in Slots : ~ Wanted(inst[k], p)
        BY <2>1, <2>2, <2>3 DEF SaleInv
    <2>5. \A k \in Slots : /\ inst'[k].pc \in Selling => inst[k].pc \in Selling
                           /\ inst'[k].list \subseteq inst[k].list
                           /\ Wanted(inst'[k], p) => Wanted(inst[k], p)
        BY <1>7, <1>8 DEF SalesMay
    <2>6. \A j, k \in Slots : inst'[j].pc \in Selling /\ inst'[k].pc \in Selling
                                /\ p \in inst'[j].list /\ p \in inst'[k].list => j = k
        BY <2>1, <2>2, <2>5 DEF SaleInv
    <2>7. \A k \in Slots : \A q \in inst'[k].list :
             inst'[k].pc \in Selling /\ p \in inst'[k].list
               /\ positions'[q].symbol = positions'[p].symbol => p = q
        BY <1>11, <1>12, <2>1, <2>2, <2>5 DEF SaleInv, RowsKept
    <2>8. \A k \in Slots : ~ Wanted(inst'[k], p)
        BY <2>4, <2>5
    <2> QED
        BY <1>2, <2>1, <2>3, <2>6, <2>7, <2>8 DEF SaleInv, Wanted
<1>17. SaleInv(p)'
    BY <1>16 DEF SaleInv
<1> QED
    BY <1>7, <1>8, <1>13, <1>14, <1>15, <1>17 DEF SalesInv

\* What is bought gets a row nobody had in hand.
LEMMA ExecuteEntryStep ==
    ASSUME SalesInv, InstInv, today \in Nat, NEW i \in Slots, NEW s \in inst[i].todo,
           ExecuteEntry(i, s)
    PROVE  SalesInv' /\ \E y : Becomes(i, y) /\ y.pc \in {"entry", "alerts", "update"}
<1> DEFINE x == inst[i]
           a == x.account
           free == {p \in PositionIds : positions[p].status = "none"}
<1>1. PICK z : z = [x EXCEPT !.todo = @ \ {s}]
    OBVIOUS
<1>2. /\ inst' = [inst EXCEPT ![i] = Advance(z)] /\ UNCHANGED <<soldFor, excused>>
      /\ x.pc = "entry" /\ InstOK(x)
    <2>1. inst' = [inst EXCEPT ![i] = Advance(z)]
        BY <1>1 DEF ExecuteEntry
    <2> QED
        BY <2>1 DEF ExecuteEntry, InstInv
<1>3. /\ z.pc = "entry" /\ z.list = x.list /\ z.account = x.account /\ InstOK(z)
      /\ a \in Accounts /\ s \in Symbols
    BY <1>1, <1>2 DEF InstOK, Selling, Alarming, Ended
<1>4. SalesMay(x, z)
    BY <1>3, SalesMayQuietly DEF Selling
<1>5. PICK y : y = Advance(z)
    OBVIOUS
<1>6. InstOK(y) /\ SalesMay(x, y) /\ y.pc \in {"entry", "alerts", "update"}
    BY <1>3, <1>4, <1>5, AdvanceOK, SalesMayAdvance
<1>7. Becomes(i, y) /\ inst'[i] = y /\ \A k \in Slots \ {i} : inst'[k] = inst[k]
    BY <1>2, <1>5, <1>6, SlotMoves DEF Becomes
<1>8. /\ positions \in [PositionIds -> PositionRows \union {NoPosition}]
      /\ shares \in [Accounts -> [Symbols -> Nat]]
    BY DEF SalesInv, BooksOK
<1>9. shares' \in [Accounts -> [Symbols -> Nat]]
    <2>1. [shares EXCEPT ![a][s] = @ + 1] \in [Accounts -> [Symbols -> Nat]]
        BY <1>3, <1>8
    <2> QED
        BY <1>8, <2>1 DEF ExecuteEntry
<1>10. PICK row : row = [EntryRules EXCEPT !.account = a, !.symbol = s, !.entryDay = today]
    OBVIOUS
<1>11. row \in PositionRows /\ row.status = "open"
    BY <1>3, <1>10, ScenariosAssumption DEF PositionRows
<1>12. \/ UNCHANGED positions
       \/ \E n \in free : positions' = [positions EXCEPT ![n] = row]
    <2>1. free # {} => Min(free) \in free
        BY MinFacts, SchedulerAssumption
    <2> QED
        BY <1>10, <2>1 DEF ExecuteEntry
<1>13. CASE UNCHANGED positions
    <2>1. RowsKept
        BY <1>13 DEF SalesInv, ListInv, RowsKept
    <2>2. ListInv' /\ SignalInv'
        BY <1>6, <1>7, <2>1, ListsKept DEF SalesInv
    <2>3. BooksOK'
        BY <1>2, <1>9, <1>13 DEF SalesInv, BooksOK
    <2>4. ASSUME NEW p \in PositionIds PROVE SaleInv(p)'
        <3>1. SaleInv(p)
            BY DEF SalesInv
        <3> QED
            BY <1>2, <1>6, <1>7, <1>13, <3>1, SaleKept
    <2> QED
        BY <1>6, <1>7, <2>2, <2>3, <2>4 DEF SalesInv
<1>14. ASSUME NEW n \in free, positions' = [positions EXCEPT ![n] = row]
       PROVE  SalesInv'
    <2>1. \A k \in Slots : n \notin inst[k].list
        BY DEF SalesInv, ListInv, PositionRows
    <2>2. /\ positions' \in [PositionIds -> PositionRows \union {NoPosition}]
          /\ positions'[n].status = "open"
          /\ \A p \in PositionIds \ {n} : positions'[p] = positions[p]
        BY <1>8, <1>11, <1>14
    <2>3. \A k \in Slots : inst[k].list \subseteq PositionIds
        BY DEF InstInv, InstOK
    <2>4. RowsKept
        BY <2>1, <2>2, <2>3 DEF SalesInv, ListInv, RowsKept
    <2>5. ListInv' /\ SignalInv'
        BY <1>6, <1>7, <2>4, ListsKept DEF SalesInv
    <2>6. soldFor[n] = 0
        BY DEF SalesInv, BooksOK
    <2>7. BooksOK'
        BY <1>2, <1>9, <2>2 DEF SalesInv, BooksOK
    <2>8. ASSUME NEW p \in PositionIds, p # n PROVE SaleInv(p)'
        <3>1. SaleInv(p) /\ positions'[p].status = positions[p].status
            BY <2>2, <2>8 DEF SalesInv
        <3>2. \A k \in Slots : \A q \in inst[k].list : positions'[q].symbol = positions[q].symbol
            BY <2>4 DEF RowsKept
        <3> QED
            BY <1>2, <1>6, <1>7, <3>1, <3>2, SaleKept
    <2>9. SaleInv(n)'
        <3>1. \A k \in Slots : n \notin inst'[k].list
            BY <1>6, <1>7, <2>1 DEF SalesMay
        <3>2. ~ Closing(n)'
            <4>1. \A k \in Slots : inst[k].pc = "closing" => inst[k].cur \in inst[k].list
                BY DEF InstInv, InstOK
            <4> QED
                BY <1>6, <1>7, <2>1, <4>1 DEF Closing
        <3>3. \A k \in Slots : Wanted(inst[k], n)' => FALSE
            <4>1. ASSUME NEW k \in Slots, Wanted(inst[k], n) PROVE FALSE
                <5>1. SignalOK(inst[k])
                    BY DEF SalesInv, SignalInv
                <5> QED
                    BY <2>1, <4>1, <5>1 DEF Wanted, SignalOK, Found, Selling
            <4> QED
                BY <1>6, <1>7, <4>1 DEF SalesMay, Wanted
        <3> QED
            BY <1>2, <2>2, <2>6, <3>1, <3>2, <3>3 DEF SaleInv
    <2> QED
        BY <2>5, <2>7, <2>8, <2>9 DEF SalesInv
<1> QED
    BY <1>6, <1>7, <1>12, <1>13, <1>14

\* The list a job begins with.
LEMMA ReadPositionsStep ==
    ASSUME SalesInv, InstInv, NEW i \in Slots, ReadPositions(i)
    PROVE  SalesInv' /\ \E y : Becomes(i, y) /\ y.pc \in {"price", "pipeline", "update"}
<1> DEFINE x == inst[i]
           list == GetOpen(x.account)
<1>1. PICK a : a = x.account
    OBVIOUS
<1>2. PICK next \in {"price", "pipeline"} :
        next = IF x.job[1] = "stop_loss_check" THEN "price" ELSE "pipeline"
    OBVIOUS
<1>3. /\ x.pc = "positions" /\ InstOK(x) /\ UNCHANGED <<positions, shares, soldFor>>
    BY DEF ReadPositions, InstInv
<1>4. a \in Accounts /\ x.job \in JobIds
    BY <1>1, <1>3 DEF InstOK, Ended
<1>5. next = "price" => x.job = Sweep(a)
    BY <1>1, <1>2, <1>3, <1>4, JobFacts DEF InstOK, Ended
<1>6. list = OpenOf(a) /\ list \subseteq PositionIds
    BY <1>1 DEF GetOpen, OpenOf, Open
<1>7. \A p \in list : positions[p] \in PositionRows /\ positions[p].account = a
    BY <1>6 DEF OpenOf, Open, SalesInv, BooksOK, NoPosition
<1>8. PICK go : go = [x EXCEPT !.pc = next, !.list = list,
                               !.todo = IF next = "price" THEN list ELSE {}, !.cur = {}]
    OBVIOUS
<1>9. /\ go.pc = next /\ go.list = list /\ go.account = a /\ go.cur = {} /\ go.job = x.job
      /\ go.todo = IF next = "price" THEN list ELSE {}
    BY <1>1, <1>3, <1>8 DEF InstOK
<1>10. InstOK(go)
    BY <1>3, <1>4, <1>5, <1>6, <1>8, <1>9 DEF InstOK, Selling, Alarming, Ended, Pcs
<1>11. excused' = [p \in PositionIds |-> excused[p]
         \union (IF p \in list /\ next = "price" /\ Twin(p) THEN {"twin"} ELSE {})
         \union (IF p \in OpenOf(a) /\ next = "price" /\ \E k \in Slots \ {i} : Sweeping(k, a)
                   THEN {"overlap"} ELSE {})]
    BY <1>1, <1>2 DEF ReadPositions
<1>12. CASE list = {} \/ next = "pipeline"
    <2>1. UNCHANGED excused
        <3>1. \A p \in PositionIds : excused'[p] = excused[p]
            BY <1>6, <1>11, <1>12
        <3> QED
            BY <1>11, <3>1 DEF SalesInv, BooksOK
    <2>2. CASE list = {}
        <3>1. inst' = [inst EXCEPT ![i] = Returned(x)]
            BY <2>2 DEF ReadPositions
        <3>2. InstOK(Returned(x)) /\ Returned(x).pc = "update" /\ Returned(x).list = {}
            BY <1>3, EndOK DEF Ended
        <3>3. Becomes(i, Returned(x)) /\ inst'[i] = Returned(x)
                /\ \A k \in Slots \ {i} : inst'[k] = inst[k]
            BY <3>1, <3>2, SlotMoves DEF Becomes
        <3>4. SalesMay(x, Returned(x))
            BY <3>2, SalesMayQuietly DEF Selling
        <3>5. SalesInv'
            BY <1>3, <2>1, <3>2, <3>3, <3>4, SalesQuiet DEF books
        <3> QED
            BY <3>2, <3>3, <3>5
    <2>3. CASE list # {} /\ next = "pipeline"
        <3>1. inst' = [inst EXCEPT ![i] = go]
            BY <1>2, <1>8, <2>3 DEF ReadPositions
        <3>2. Becomes(i, go) /\ inst'[i] = go /\ \A k \in Slots \ {i} : inst'[k] = inst[k]
            BY <1>10, <3>1, SlotMoves DEF Becomes
        <3>3. ListInv'
            BY <1>3, <1>7, <1>9, <3>2 DEF SalesInv, ListInv
        <3>4. \A k \in Slots : inst'[k].pc \in Selling => inst'[k] = inst[k]
            BY <1>9, <2>3, <3>2 DEF Selling
        <3>5. ASSUME NEW k \in Slots PROVE SignalOK(inst[k])'
            BY <1>3, <3>4 DEF SalesInv, SignalInv, SignalOK
        <3>6. ASSUME NEW p \in PositionIds PROVE SaleInv(p)'
            <4>1. SaleInv(p)
                BY DEF SalesInv
            <4>2. Closing(p)' <=> Closing(p)
                BY <1>3, <1>9, <2>3, <3>2 DEF Closing
            <4>3. \A k \in Slots : Wanted(inst[k], p)' => inst'[k] = inst[k] /\ Wanted(inst[k], p)
                BY <1>9, <2>3, <3>2 DEF Wanted
            <4> QED
                BY <1>3, <2>1, <3>4, <4>1, <4>2, <4>3 DEF SaleInv
        <3>7. BooksOK'
            BY <1>3, <2>1 DEF SalesInv, BooksOK
        <3> QED
            BY <1>9, <2>3, <3>2, <3>3, <3>5, <3>6, <3>7 DEF SalesInv, SignalInv
    <2> QED
        BY <1>12, <2>2, <2>3
<1>13. CASE list # {} /\ next = "price"
    <2>1. inst' = [inst EXCEPT ![i] = go]
        BY <1>2, <1>8, <1>13 DEF ReadPositions
    <2>2. Becomes(i, go) /\ inst'[i] = go /\ \A k \in Slots \ {i} : inst'[k] = inst[k]
        BY <1>10, <2>1, SlotMoves DEF Becomes
    <2>3. excused' = [p \in PositionIds |-> excused[p]
             \union (IF p \in OpenOf(a) /\ Twin(p) THEN {"twin"} ELSE {})
             \union (IF p \in OpenOf(a) /\ \E k \in Slots \ {i} : Sweeping(k, a)
                       THEN {"overlap"} ELSE {})]
        BY <1>6, <1>11, <1>13
    <2>4. SalesInv'
        BY <1>3, <1>4, <1>6, <1>9, <1>13, <2>2, <2>3, SalesRead
    <2> QED
        BY <1>9, <1>13, <2>2, <2>4
<1> QED
    BY <1>2, <1>12, <1>13

\* A crash leaves no job, and says so of the sales that were to be recorded.
LEMMA CrashSlots ==
    ASSUME InstInv, Crash
    PROVE  /\ InstInv'
           /\ \A i \in Slots : /\ inst'[i].pc \in Ended
                               /\ inst'[i].list = {} \/ inst'[i] = inst[i]
                               /\ inst[i].pc \in Ended => inst'[i] = inst[i]
<1>1. ASSUME NEW i \in Slots
      PROVE  /\ InstOK(inst'[i]) /\ inst'[i].pc \in Ended
             /\ inst'[i].list = {} \/ inst'[i] = inst[i]
             /\ inst[i].pc \in Ended => inst'[i] = inst[i]
    <2>1. InstOK(inst[i]) /\ inst[i].row \in RowStates
        BY DEF InstInv, InstOK
    <2>2. CASE Active(i)
        <3>1. PICK y : y = [Idle EXCEPT !.pc = "dead", !.row = inst[i].row]
            OBVIOUS
        <3>2. inst'[i] = y
            BY <2>2, <3>1 DEF Crash
        <3>3. InstOK(y)
            BY <2>1, <3>1, IdleOK DEF Ended
        <3>4. y.pc \in Ended /\ y.list = {}
            BY <3>1 DEF Idle, Ended
        <3> QED
            BY <2>2, <3>2, <3>3, <3>4 DEF Active
    <2>3. CASE ~ Active(i)
        <3>1. inst'[i] = inst[i]
            BY <2>3 DEF Crash
        <3> QED
            BY <2>1, <2>3, <3>1 DEF Active
    <2> QED
        BY <2>2, <2>3
<1>2. inst' = [i \in Slots |-> inst'[i]]
    BY DEF Crash
<1>3. InstInv'
    BY <1>1, <1>2 DEF InstInv, InstOK
<1> QED
    BY <1>1, <1>3

\* A crash between a sale and its row leaves a position that is excused.
LEMMA CrashSales ==
    ASSUME SalesInv, InstInv, Crash
    PROVE  SalesInv'
<1>1. \A i \in Slots : /\ inst'[i].pc \in Ended
                       /\ inst'[i].list = {} \/ inst'[i] = inst[i]
    BY CrashSlots
<1>2. UNCHANGED <<positions, shares, soldFor>>
    BY DEF Crash
<1>3. excused' = [p \in PositionIds |-> IF Closing(p) THEN excused[p] \union {"unrecorded"}
                                        ELSE excused[p]]
    BY DEF Crash
<1>4. ListInv' /\ BooksOK'
    BY <1>1, <1>2, <1>3 DEF SalesInv, ListInv, BooksOK
<1>5. \A i \in Slots : inst'[i].pc \notin Selling
    BY <1>1 DEF Selling, Ended
<1>6. SignalInv'
    BY <1>5 DEF SignalInv, SignalOK
<1>7. ASSUME NEW p \in PositionIds, excused'[p] = {} PROVE SaleInv(p)'
    <2>1. ~ Closing(p) /\ excused[p] = {} /\ SaleInv(p)
        BY <1>3, <1>7 DEF SalesInv
    <2>2. ~ Closing(p)'
        BY <1>5 DEF Closing, Selling
    <2>3. \A i \in Slots : ~ Wanted(inst[i], p)'
        BY <1>5 DEF Wanted, Selling
    <2> QED
        BY <1>2, <1>5, <2>1, <2>2, <2>3 DEF SaleInv
<1>8. \A p \in PositionIds : SaleInv(p)'
    BY <1>7 DEF SaleInv
<1> QED
    BY <1>4, <1>6, <1>8 DEF SalesInv

---------------------------------------------------------------------------
(* Alerts                                                                  *)

InHand == {"send", "mark"}

\* An alert nothing happens to keeps its invariant.
LEMMA AlertKept ==
    ASSUME NEW k \in AlertKeys, AlertInv(k),
           \A i \in Slots : inst[i].pc \in InHand /\ inst[i].cur = k
             => inst'[i].pc = inst[i].pc /\ inst'[i].cur = k,
           \A i \in Slots : inst'[i].pc \in InHand /\ inst'[i].cur = k
             => inst'[i].pc = inst[i].pc /\ inst[i].cur = k,
           sent'[k] = sent[k], k \in marks' <=> k \in marks, k \in doubtful => k \in doubtful'
    PROVE  AlertInv(k)'
<1>1. Alerting(k)' = Alerting(k)
    BY DEF Alerting, InHand
<1>2. \A i \in Alerting(k) : inst'[i].pc = inst[i].pc
    BY DEF Alerting, InHand
<1> QED
    BY <1>1, <1>2 DEF AlertInv

\* A job that has no alert in hand, before and after.
LEMMA AlertsQuiet ==
    ASSUME AlertsInv, UNCHANGED alerting, NEW i \in Slots, NEW y,
           inst'[i] = y, \A k \in Slots \ {i} : inst'[k] = inst[k],
           inst[i].pc \notin InHand, y.pc \notin InHand
    PROVE  AlertsInv'
<1>1. ASSUME NEW k \in AlertKeys PROVE AlertInv(k)'
    <2>1. AlertInv(k) /\ marks' = marks /\ sent' = sent /\ doubtful' = doubtful
        BY DEF AlertsInv, alerting
    <2> QED
        BY <2>1, AlertKept
<1> QED
    BY <1>1 DEF AlertsInv, alerting

\* The key of a check is one of the day's.
LEMMA KeyFacts ==
    ASSUME NEW a \in Accounts, NEW kind \in AlertsOf(a), today \in 1 .. LastDay
    PROVE  <<kind, today>> \in AlertKeys
BY DEF AlertKeys

\* An alert is looked up: marked already, to be sent, or in doubt.
LEMMA CheckAlertStep ==
    ASSUME AlertsInv, InstInv, today \in 1 .. LastDay, NEW i \in Slots,
           NEW kind \in inst[i].todo, CheckAlert(i, kind)
    PROVE  /\ AlertsInv'
           /\ \E y : /\ Becomes(i, y) /\ y.pc \in {"send", "alerts", "update"}
                     /\ y.list \in {{}, inst[i].list} /\ y.account = inst[i].account
<1> DEFINE x == inst[i]
<1>1. PICK k : k = <<kind, today>>
    OBVIOUS
<1>2. PICK skip : skip = [x EXCEPT !.todo = @ \ {kind}]
    OBVIOUS
<1>3. PICK send : send = [skip EXCEPT !.pc = "send", !.cur = k]
    OBVIOUS
<1>4. x.pc = "alerts" /\ InstOK(x) /\ UNCHANGED <<marks, sent>>
    BY DEF CheckAlert, InstInv
<1>5. k \in AlertKeys
    BY <1>1, <1>4, KeyFacts DEF InstOK, Alarming, Ended
<1>6. skip.pc = "alerts" /\ skip.list = x.list /\ skip.account = x.account /\ InstOK(skip)
    BY <1>2, <1>4 DEF InstOK, Selling, Alarming, Ended
<1>7. send.pc = "send" /\ send.cur = k /\ send.list = x.list /\ send.account = x.account
    BY <1>3, <1>6 DEF InstOK
<1>8. InstOK(send)
    BY <1>3, <1>5, <1>6, <1>7 DEF InstOK, Selling, Alarming, Ended, Pcs
<1>9. CASE inst' = [inst EXCEPT ![i] = Advance(skip)] /\ UNCHANGED doubtful
    <2>1. PICK y : y = Advance(skip)
        OBVIOUS
    <2>2. /\ InstOK(y) /\ y.pc \in {"alerts", "update"} /\ y.list \in {{}, x.list}
          /\ y.account = x.account
        BY <1>6, <2>1, AdvanceOK
    <2>3. Becomes(i, y) /\ inst'[i] = y /\ \A j \in Slots \ {i} : inst'[j] = inst[j]
        BY <1>9, <2>1, <2>2, SlotMoves DEF Becomes
    <2>4. AlertsInv'
        BY <1>4, <1>9, <2>2, <2>3, AlertsQuiet DEF alerting, InHand
    <2> QED
        BY <2>2, <2>3, <2>4
<1>10. CASE /\ inst' = [inst EXCEPT ![i] = send]
            /\ \/ /\ k \notin marks
                  /\ doubtful' = IF Alerting(k) # {} THEN doubtful \union {k} ELSE doubtful
               \/ doubtful' = doubtful \union {k}
    <2>1. Becomes(i, send) /\ inst'[i] = send /\ \A j \in Slots \ {i} : inst'[j] = inst[j]
        BY <1>8, <1>10, SlotMoves DEF Becomes
    <2>2. ASSUME NEW l \in AlertKeys, l # k PROVE AlertInv(l)'
        <3>1. AlertInv(l) /\ sent'[l] = sent[l] /\ marks' = marks /\ (l \in doubtful => l \in doubtful')
            BY <1>4, <1>10 DEF AlertsInv
        <3> QED
            BY <1>4, <1>7, <2>1, <2>2, <3>1, AlertKept DEF InHand
    <2>3. ASSUME k \notin doubtful' PROVE AlertInv(k)'
        <3>1. k \notin marks /\ Alerting(k) = {} /\ k \notin doubtful
            BY <1>10, <2>3
        <3>2. sent[k] = 0
            BY <1>5, <3>1 DEF AlertsInv, AlertInv
        <3>3. Alerting(k)' = {i}
            BY <1>7, <2>1, <3>1 DEF Alerting
        <3> QED
            BY <1>4, <1>7, <2>1, <3>1, <3>2, <3>3 DEF AlertInv
    <2>4. AlertInv(k)'
        BY <2>3 DEF AlertInv
    <2> QED
        BY <1>4, <1>7, <2>1, <2>2, <2>4 DEF AlertsInv
<1> QED
    BY <1>1, <1>2, <1>3, <1>9, <1>10 DEF CheckAlert

\* After a check: the next alert, or the end.
LEMMA CheckedSlot ==
    ASSUME NEW x, InstOK(x), x.pc \in InHand, NEW z, z = [x EXCEPT !.pc = "alerts", !.cur = None]
    PROVE  /\ InstOK(Advance(z)) /\ Advance(z).pc \in {"alerts", "update"}
           /\ Advance(z).list \in {{}, x.list} /\ Advance(z).account = x.account
<1>1. z.pc = "alerts" /\ z.list = x.list /\ z.account = x.account /\ InstOK(z)
    BY DEF InstOK, Selling, Alarming, Ended, Pcs, InHand
<1> QED
    BY <1>1, AdvanceOK

\* An alert is sent, or sending fails.
LEMMA SendAlertStep ==
    ASSUME AlertsInv, InstInv, NEW i \in Slots, SendAlert(i)
    PROVE  /\ AlertsInv'
           /\ \E y : /\ Becomes(i, y) /\ y.pc \in {"mark", "alerts", "update"}
                     /\ y.list \in {{}, inst[i].list} /\ y.account = inst[i].account
<1> DEFINE x == inst[i]
<1>1. PICK k : k = x.cur
    OBVIOUS
<1>2. x.pc = "send" /\ InstOK(x) /\ UNCHANGED marks
    BY DEF SendAlert, InstInv
<1>3. k \in AlertKeys
    BY <1>1, <1>2 DEF InstOK
<1>4. sent' = [sent EXCEPT ![k] = Min({@ + 1, 2})] /\ sent \in [AlertKeys -> Nat]
    BY <1>1 DEF SendAlert, AlertsInv
<1>5. /\ sent'[k] = (IF sent[k] = 0 THEN 1 ELSE 2) /\ sent' \in [AlertKeys -> Nat]
      /\ \A l \in AlertKeys \ {k} : sent'[l] = sent[l]
    <2>1. Min({sent[k] + 1, 2}) = (IF sent[k] = 0 THEN 1 ELSE 2)
        BY <1>3, <1>4, MinOfTwo
    <2>2. Min({sent[k] + 1, 2}) \in Nat
        BY <2>1
    <2> QED
        BY <1>3, <1>4, <2>1, <2>2
<1>6. PICK y : /\ inst' = [inst EXCEPT ![i] = y] /\ InstOK(y) /\ y.list \in {{}, x.list}
               /\ y.account = x.account
               /\ \/ y.pc = "mark" /\ y.cur = k /\ UNCHANGED doubtful
                  \/ y.pc \in {"alerts", "update"} /\ doubtful' = doubtful \union {k}
    <2>1. CASE inst' = [inst EXCEPT ![i].pc = "mark"] /\ UNCHANGED doubtful
        <3>1. PICK y : y = [x EXCEPT !.pc = "mark"]
            OBVIOUS
        <3>2. y.pc = "mark" /\ y.cur = k /\ y.list = x.list /\ y.account = x.account
            BY <1>1, <1>2, <3>1 DEF InstOK
        <3>3. InstOK(y)
            BY <1>2, <3>1, <3>2 DEF InstOK, Selling, Alarming, Ended, Pcs
        <3>4. inst' = [inst EXCEPT ![i] = y]
            BY <2>1, <3>1
        <3> QED
            BY <2>1, <3>2, <3>3, <3>4
    <2>2. CASE /\ inst' = [inst EXCEPT ![i] = Advance([x EXCEPT !.pc = "alerts", !.cur = None])]
               /\ doubtful' = doubtful \union {k}
        <3>1. PICK z : z = [x EXCEPT !.pc = "alerts", !.cur = None]
            OBVIOUS
        <3>2. /\ InstOK(Advance(z)) /\ Advance(z).pc \in {"alerts", "update"}
              /\ Advance(z).list \in {{}, x.list} /\ Advance(z).account = x.account
            BY <1>2, <3>1, CheckedSlot DEF InHand
        <3>3. inst' = [inst EXCEPT ![i] = Advance(z)]
            BY <2>2, <3>1
        <3> QED
            BY <2>2, <3>2, <3>3
    <2> QED
        BY <1>1, <2>1, <2>2 DEF SendAlert
<1>7. Becomes(i, y) /\ inst'[i] = y /\ \A j \in Slots \ {i} : inst'[j] = inst[j]
    BY <1>6, SlotMoves DEF Becomes
<1>8. ASSUME NEW l \in AlertKeys, l # k PROVE AlertInv(l)'
    <2>1. AlertInv(l) /\ sent'[l] = sent[l] /\ marks' = marks /\ (l \in doubtful => l \in doubtful')
        BY <1>2, <1>5, <1>6, <1>8 DEF AlertsInv
    <2> QED
        BY <1>1, <1>6, <1>7, <1>8, <2>1, AlertKept DEF InHand
<1>9. ASSUME k \notin doubtful' PROVE AlertInv(k)'
    <2>1. k \notin doubtful /\ y.pc = "mark" /\ y.cur = k /\ AlertInv(k)
        BY <1>3, <1>6, <1>9 DEF AlertsInv
    <2>2. i \in Alerting(k)
        BY <1>1, <1>2 DEF Alerting
    <2>3. sent[k] = 0 /\ Alerting(k) = {i} /\ k \notin marks
        BY <1>2, <2>1, <2>2 DEF AlertInv
    <2>4. Alerting(k)' = {i}
        BY <1>7, <2>1, <2>3 DEF Alerting
    <2> QED
        BY <1>2, <1>5, <1>7, <2>1, <2>3, <2>4 DEF AlertInv
<1>10. AlertInv(k)'
    BY <1>9 DEF AlertInv
<1> QED
    BY <1>2, <1>5, <1>6, <1>7, <1>8, <1>10 DEF AlertsInv

\* An alert that was sent is marked, or is in doubt.
LEMMA MarkAlertStep ==
    ASSUME AlertsInv, InstInv, NEW i \in Slots, MarkAlert(i)
    PROVE  /\ AlertsInv'
           /\ \E y : /\ Becomes(i, y) /\ y.pc \in {"alerts", "update"}
                     /\ y.list \in {{}, inst[i].list} /\ y.account = inst[i].account
<1> DEFINE x == inst[i]
<1>1. PICK k : k = x.cur
    OBVIOUS
<1>2. x.pc = "mark" /\ InstOK(x) /\ UNCHANGED sent
    BY DEF MarkAlert, InstInv
<1>3. k \in AlertKeys
    BY <1>1, <1>2 DEF InstOK
<1>4. \/ marks' = marks \union {k} /\ UNCHANGED doubtful
      \/ UNCHANGED marks /\ doubtful' = doubtful \union {k}
    BY <1>1 DEF MarkAlert
<1>5. PICK z : z = [x EXCEPT !.pc = "alerts", !.cur = None]
    OBVIOUS
<1>6. PICK y : y = Advance(z)
    OBVIOUS
<1>7. /\ InstOK(y) /\ y.pc \in {"alerts", "update"}
      /\ y.list \in {{}, x.list} /\ y.account = x.account
    BY <1>2, <1>5, <1>6, CheckedSlot DEF InHand
<1>8. inst' = [inst EXCEPT ![i] = y]
    BY <1>5, <1>6 DEF MarkAlert
<1>9. Becomes(i, y) /\ inst'[i] = y /\ \A j \in Slots \ {i} : inst'[j] = inst[j]
    BY <1>7, <1>8, SlotMoves DEF Becomes
<1>10. ASSUME NEW l \in AlertKeys, l # k PROVE AlertInv(l)'
    <2>1. /\ AlertInv(l) /\ sent'[l] = sent[l] /\ (l \in marks' <=> l \in marks)
          /\ (l \in doubtful => l \in doubtful')
        BY <1>2, <1>4, <1>10 DEF AlertsInv
    <2> QED
        BY <1>1, <1>7, <1>9, <1>10, <2>1, AlertKept DEF InHand
<1>11. ASSUME k \notin doubtful' PROVE AlertInv(k)'
    <2>1. k \notin doubtful /\ k \in marks' /\ AlertInv(k)
        BY <1>3, <1>4, <1>11 DEF AlertsInv
    <2>2. i \in Alerting(k)
        BY <1>1, <1>2 DEF Alerting
    <2>3. sent[k] = 1 /\ Alerting(k) = {i}
        BY <1>2, <2>1, <2>2 DEF AlertInv
    <2>4. Alerting(k)' = {}
        BY <1>7, <1>9, <2>3 DEF Alerting
    <2> QED
        BY <1>2, <2>1, <2>3, <2>4 DEF AlertInv
<1>12. AlertInv(k)'
    BY <1>11 DEF AlertInv
<1>13. marks' \subseteq AlertKeys /\ sent' \in [AlertKeys -> Nat]
    BY <1>2, <1>3, <1>4 DEF AlertsInv
<1> QED
    BY <1>7, <1>9, <1>10, <1>12, <1>13 DEF AlertsInv

\* A crash between sending and marking leaves an alert in doubt.
LEMMA CrashAlerts ==
    ASSUME AlertsInv, InstInv, Crash
    PROVE  AlertsInv'
<1>1. /\ UNCHANGED <<marks, sent>>
      /\ doubtful' = doubtful \union {k \in AlertKeys : Alerting(k) # {}}
    BY DEF Crash
<1>2. \A i \in Slots : inst'[i].pc \notin InHand
    BY CrashSlots DEF Ended, InHand
<1>3. ASSUME NEW k \in AlertKeys, k \notin doubtful' PROVE AlertInv(k)'
    <2>1. k \notin doubtful /\ Alerting(k) = {} /\ AlertInv(k)
        BY <1>1, <1>3 DEF AlertsInv
    <2>2. Alerting(k)' = {}
        BY <1>2 DEF Alerting, InHand
    <2> QED
        BY <1>1, <2>1, <2>2 DEF AlertInv
<1>4. \A k \in AlertKeys : AlertInv(k)'
    BY <1>3 DEF AlertInv
<1> QED
    BY <1>1, <1>4 DEF AlertsInv

---------------------------------------------------------------------------
(* Snapshots                                                               *)

\* No report is about to be saved that was not before; days only go on.
LEMMA SnapshotsQuiet ==
    ASSUME SnapshotsInv, UNCHANGED records, today \in Nat, today' \in Nat, today <= today',
           \A i \in Slots : inst'[i].pc = "snapshot" => inst'[i] = inst[i]
    PROVE  SnapshotsInv'
<1>1. UNCHANGED <<snapshots, mixed>> /\ PeakCoversHistory'
    BY DEF records, SnapshotsInv, PeakCoversHistory
<1>2. \A a \in Accounts \ mixed : ReportInv(a)'
    BY <1>1 DEF SnapshotsInv, ReportInv
<1>3. ASSUME NEW i \in Slots, inst'[i].pc = "snapshot" PROVE inst'[i].cur \in States(today')
    <2>1. inst'[i].cur \in States(today)
        BY <1>3 DEF SnapshotsInv
    <2>2. 1 .. today \subseteq 1 .. today'
        OBVIOUS
    <2> QED
        BY <2>1, <2>2 DEF States
<1>4. \A a \in Accounts : \A d \in 1 .. LastDay : snapshots'[a][d] # None => d <= today'
    BY <1>1, SchedulerAssumption DEF SnapshotsInv
<1>5. \A i \in Slots : inst'[i].pc = "snapshot" => inst'[i].cur \in States(today)'
    BY <1>3 DEF States
<1>6. snapshots' \in [Accounts -> [1 .. LastDay -> Snaps \union {None}]]
    BY <1>1 DEF SnapshotsInv
<1> QED
    BY <1>1, <1>2, <1>4, <1>5, <1>6 DEF SnapshotsInv

\* The peak that is read is no lower than a total that was saved.
LEMMA PeakFacts ==
    ASSUME SnapshotsInv, total \in [Accounts -> TotalRange], NEW a \in Accounts
    PROVE  /\ CurrentPeak(a) \in Nat
           /\ \A d \in 1 .. LastDay : snapshots[a][d] # None => CurrentPeak(a) >= snapshots[a][d].total
<1> DEFINE Days == {e \in 1 .. LastDay : snapshots[a][e] # None}
           Totals == SnapshotTotals(a) \union {0}
<1>1. \A d \in Days : snapshots[a][d].total \in Nat
    BY DEF SnapshotsInv, Snaps
<1>2. Totals \in SUBSET Nat /\ Totals # {}
    BY <1>1 DEF SnapshotTotals
<1>3. IsFiniteSet(Totals)
    <2>1. IsFiniteSet(1 .. LastDay)
        BY FS_Interval, SchedulerAssumption
    <2>2. IsFiniteSet(Days)
        BY <2>1, FS_Subset
    <2>3. IsFiniteSet(SnapshotTotals(a))
        <3> DEFINE f == [d \in Days |-> snapshots[a][d].total]
        <3>1. f \in Surjection(Days, SnapshotTotals(a))
            BY DEF SnapshotTotals, Surjection
        <3> QED
            BY <2>2, <3>1, FS_Surjection
    <2>4. IsFiniteSet({0})
        BY FS_Singleton
    <2> QED
        BY <2>3, <2>4, FS_Union
<1>4. PeakValue(a) \in Nat /\ \A t \in Totals : PeakValue(a) >= t
    BY <1>2, <1>3, MaxFacts DEF PeakValue
<1>5. total[a] \in Nat
    BY SchedulerAssumption
<1>6. PICK two : two = {PeakValue(a), total[a]}
    OBVIOUS
<1>7. two \in SUBSET Nat /\ two # {} /\ IsFiniteSet(two)
    <2>1. IsFiniteSet({PeakValue(a)})
        BY FS_Singleton
    <2>2. IsFiniteSet({PeakValue(a)} \union {total[a]})
        BY <2>1, FS_AddElement
    <2>3. two = {PeakValue(a)} \union {total[a]}
        BY <1>6
    <2> QED
        BY <1>4, <1>5, <2>2, <2>3
<1>8. Max(two) \in Nat /\ Max(two) >= PeakValue(a)
    BY <1>6, <1>7, MaxFacts
<1>9. CurrentPeak(a) = Max(two)
    BY <1>6 DEF CurrentPeak
<1>10. \A d \in Days : snapshots[a][d].total \in Totals
    BY DEF SnapshotTotals
<1>11. ASSUME NEW d \in 1 .. LastDay, snapshots[a][d] # None
       PROVE  CurrentPeak(a) >= snapshots[a][d].total
    <2>1. snapshots[a][d].total \in Nat /\ PeakValue(a) >= snapshots[a][d].total
        BY <1>1, <1>4, <1>10, <1>11
    <2> QED
        BY <1>4, <1>8, <1>9, <2>1
<1> QED
    BY <1>8, <1>9, <1>11

\* A report reads the total and the peak.
LEMMA ReadStateStep ==
    ASSUME SnapshotsInv, InstInv, total \in [Accounts -> TotalRange], today \in 1 .. LastDay,
           NEW i \in Slots, ReadState(i)
    PROVE  /\ SnapshotsInv'
           /\ \E y : /\ Becomes(i, y) /\ y.pc = "snapshot"
                     /\ y.list = inst[i].list /\ y.account = inst[i].account
<1> DEFINE x == inst[i]
<1>1. PICK a : a = x.account
    OBVIOUS
<1>2. x.pc = "state" /\ InstOK(x) /\ UNCHANGED <<snapshots, today>>
    BY DEF ReadState, InstInv, market
<1>3. a \in Accounts
    BY <1>1, <1>2 DEF InstOK, Ended
<1>4. /\ CurrentPeak(a) \in Nat /\ total[a] \in Nat
      /\ \A d \in 1 .. LastDay : snapshots[a][d] # None => CurrentPeak(a) >= snapshots[a][d].total
    BY <1>3, PeakFacts, SchedulerAssumption
<1>5. PICK c : c = [total |-> total[a], peak |-> CurrentPeak(a), date |-> today]
    OBVIOUS
<1>6. c \in States(today) /\ c.date = today /\ c.peak = CurrentPeak(a)
    BY <1>4, <1>5, SchedulerAssumption DEF States
<1>7. PICK y : y = [x EXCEPT !.pc = "snapshot", !.cur = c]
    OBVIOUS
<1>8. inst' = [inst EXCEPT ![i] = y]
    BY <1>1, <1>5, <1>7 DEF ReadState, InstInv
<1>9. y.pc = "snapshot" /\ y.cur = c /\ y.list = x.list /\ y.account = a
    BY <1>1, <1>2, <1>7 DEF InstOK
<1>10. InstOK(y)
    BY <1>2, <1>7, <1>9 DEF InstOK, Selling, Alarming, Ended, Pcs
<1>11. Becomes(i, y) /\ inst'[i] = y /\ \A k \in Slots \ {i} : inst'[k] = inst[k]
    BY <1>8, <1>10, SlotMoves DEF Becomes
<1>12. /\ mixed \subseteq mixed'
       /\ a \notin mixed' => \A k \in Slots \ {i} : ~ (inst[k].pc = "snapshot" /\ inst[k].account = a)
    BY <1>1 DEF ReadState
<1>13. ASSUME NEW b \in Accounts, b \notin mixed', b # a PROVE ReportInv(b)'
    <2>1. ReportInv(b)
        BY <1>12, <1>13 DEF SnapshotsInv
    <2> QED
        BY <1>2, <1>9, <1>11, <1>13, <2>1 DEF ReportInv
<1>14. ASSUME a \notin mixed' PROVE ReportInv(a)'
    <2>1. \A k \in Slots : inst'[k].pc = "snapshot" /\ inst'[k].account = a => k = i
        BY <1>11, <1>12, <1>14
    <2>2. \A d \in 1 .. LastDay : snapshots[a][d] # None =>
            d <= c.date /\ c.peak >= snapshots[a][d].total
        BY <1>3, <1>4, <1>6 DEF SnapshotsInv
    <2> QED
        BY <1>2, <1>9, <1>11, <2>1, <2>2 DEF ReportInv
<1>15. \A k \in Slots : inst'[k].pc = "snapshot" => inst'[k].cur \in States(today)
    BY <1>6, <1>9, <1>11 DEF SnapshotsInv
<1>16. PeakCoversHistory'
    BY <1>2, <1>12 DEF SnapshotsInv, PeakCoversHistory
<1>17. \A b \in (Accounts \ mixed)' : ReportInv(b)'
    BY <1>13, <1>14
<1>18. \A k \in Slots : inst'[k].pc = "snapshot" => inst'[k].cur \in States(today)'
    BY <1>2, <1>15 DEF States
<1> QED
    BY <1>1, <1>2, <1>9, <1>11, <1>16, <1>17, <1>18 DEF SnapshotsInv

\* A report saves what it has read, which covers every snapshot unless reports
\* overlapped.
LEMMA SaveSnapshotStep ==
    ASSUME SnapshotsInv, InstInv, today \in 1 .. LastDay, NEW i \in Slots, SaveSnapshot(i)
    PROVE  /\ SnapshotsInv'
           /\ \E y : /\ Becomes(i, y) /\ y.pc = "report"
                     /\ y.list = inst[i].list /\ y.account = inst[i].account
<1> DEFINE x == inst[i]
<1>1. PICK a, c : a = x.account /\ c = x.cur
    OBVIOUS
<1>2. x.pc = "snapshot" /\ InstOK(x) /\ UNCHANGED <<mixed, today>>
    BY DEF SaveSnapshot, InstInv, market
<1>3. a \in Accounts /\ c \in States(today)
    BY <1>1, <1>2 DEF InstOK, Ended, SnapshotsInv
<1>4. c.date \in 1 .. LastDay /\ c.date <= today /\ c.total \in Nat /\ c.peak \in Nat
    BY <1>3, SchedulerAssumption DEF States
<1>5. PICK snap : snap = [total |-> c.total, peak |-> c.peak]
    OBVIOUS
<1>6. snap \in Snaps /\ snap.total = c.total /\ snap.peak = c.peak
    BY <1>4, <1>5 DEF Snaps
<1>7. /\ snapshots' \in [Accounts -> [1 .. LastDay -> Snaps \union {None}]]
      /\ snapshots'[a][c.date] = snap
      /\ \A d \in 1 .. LastDay : d # c.date => snapshots'[a][d] = snapshots[a][d]
      /\ \A b \in Accounts \ {a} : snapshots'[b] = snapshots[b]
    <2>1. snapshots' = [snapshots EXCEPT ![a][c.date] = snap]
        BY <1>1, <1>5 DEF SaveSnapshot
    <2> QED
        BY <1>3, <1>4, <1>6, <2>1 DEF SnapshotsInv
<1>8. PICK y : y = [x EXCEPT !.pc = "report", !.cur = None]
    OBVIOUS
<1>9. y.pc = "report" /\ y.list = x.list /\ y.account = x.account
    BY <1>2, <1>8 DEF InstOK
<1>10. InstOK(y)
    BY <1>2, <1>8, <1>9 DEF InstOK, Selling, Alarming, Ended, Pcs
<1>11. inst' = [inst EXCEPT ![i] = y]
    BY <1>8 DEF SaveSnapshot, InstInv
<1>12. Becomes(i, y) /\ inst'[i] = y /\ \A k \in Slots \ {i} : inst'[k] = inst[k]
    BY <1>10, <1>11, SlotMoves DEF Becomes
<1>13. ASSUME NEW b \in Accounts \ mixed PROVE ReportInv(b)'
    <2>1. ReportInv(b)
        BY DEF SnapshotsInv
    <2>2. CASE b # a
        BY <1>7, <1>9, <1>12, <2>1, <2>2 DEF ReportInv
    <2>3. CASE b = a
        <3>1. \A k \in Slots : ~ (inst'[k].pc = "snapshot" /\ inst'[k].account = a)
            BY <1>1, <1>2, <1>9, <1>12, <2>1, <2>3 DEF ReportInv
        <3> QED
            BY <2>3, <3>1 DEF ReportInv
    <2> QED
        BY <2>2, <2>3
<1>14. PeakCoversHistory'
    <2> SUFFICES ASSUME NEW b \in Accounts \ mixed, NEW d \in 1 .. LastDay, NEW e \in 1 .. LastDay,
                        e < d, snapshots'[b][e] # None, snapshots'[b][d] # None
                 PROVE  snapshots'[b][d].peak >= snapshots'[b][e].total
        BY <1>2 DEF PeakCoversHistory
    <2>1. ReportInv(b) /\ PeakCoversHistory
        BY DEF SnapshotsInv
    <2>2. CASE b # a
        BY <1>7, <2>1, <2>2 DEF PeakCoversHistory
    <2>3. CASE b = a /\ d # c.date /\ e # c.date
        BY <1>7, <2>1, <2>3 DEF PeakCoversHistory
    <2>4. CASE b = a /\ d = c.date
        <3>1. e # c.date /\ snapshots[a][e] # None /\ snapshots'[a][e] = snapshots[a][e]
            BY <1>7, <2>4
        <3>2. c.peak >= snapshots[a][e].total
            BY <1>1, <1>2, <2>1, <2>4, <3>1 DEF ReportInv
        <3> QED
            BY <1>6, <1>7, <2>4, <3>1, <3>2
    <2>5. CASE b = a /\ e = c.date
        <3>1. snapshots[a][d] # None
            BY <1>7, <2>5
        <3>2. d <= c.date
            BY <1>1, <1>2, <2>1, <2>5, <3>1 DEF ReportInv
        <3> QED
            BY <1>4, <2>5, <3>2
    <2> QED
        BY <2>2, <2>3, <2>4, <2>5
<1>15. \A b \in Accounts : \A d \in 1 .. LastDay : snapshots'[b][d] # None => d <= today
    BY <1>3, <1>4, <1>7 DEF SnapshotsInv
<1>16. \A k \in Slots : inst'[k].pc = "snapshot" => inst'[k].cur \in States(today)
    BY <1>9, <1>12 DEF SnapshotsInv
<1>17. \A k \in Slots : inst'[k].pc = "snapshot" => inst'[k].cur \in States(today)'
    BY <1>2, <1>16 DEF States
<1>18. SnapshotsInv'
    BY <1>2, <1>7, <1>13, <1>14, <1>15, <1>17 DEF SnapshotsInv
<1> QED
    BY <1>9, <1>12, <1>18

---------------------------------------------------------------------------
(* Every step                                                              *)

\* Steps that leave accounts, registered jobs and the market alone.
LEMMA FactoryQuiet ==
    ASSUME FactoryInv, UNCHANGED <<life, factory, market>>, UNCHANGED mishaps \/ Mishap
    PROVE  FactoryInv'
<1>1. mishaps' \in Nat
    BY DEF FactoryInv, Mishap
<1> QED
    BY <1>1 DEF FactoryInv, factory, market

\* Steps of a job that sell nothing, send nothing and save nothing.
LEMMA QuietSlot ==
    ASSUME SchedulerInv, NEW i \in Slots, NEW y, Becomes(i, y), FactoryInv',
           UNCHANGED <<books, records, alerting, today>>,
           inst[i].pc \notin InHand \union {"closing"},
           y.pc \notin Selling \union InHand \union {"snapshot"},
           y.list = {} \/ (y.list = inst[i].list /\ y.account = inst[i].account)
    PROVE  SchedulerInv'
<1>1. SalesInv /\ InstInv /\ AlertsInv /\ SnapshotsInv /\ today \in Nat
    BY SchedulerAssumption DEF SchedulerInv, FactoryInv
<1>2. InstInv' /\ inst'[i] = y /\ \A k \in Slots \ {i} : inst'[k] = inst[k]
    BY <1>1, SlotMoves DEF Becomes
<1>3. SalesInv'
    <2>1. SalesMay(inst[i], y)
        BY SalesMayQuietly
    <2> QED
        BY <1>1, <1>2, <2>1, SalesQuiet DEF Selling
<1>4. AlertsInv'
    BY <1>1, <1>2, AlertsQuiet
<1>5. SnapshotsInv'
    BY <1>1, <1>2, SnapshotsQuiet
<1> QED
    BY <1>2, <1>3, <1>4, <1>5 DEF SchedulerInv

\* Steps that no job takes.
LEMMA NoSlot ==
    ASSUME SchedulerInv, FactoryInv', UNCHANGED <<inst, books, records, alerting>>,
           today' \in Nat, today <= today'
    PROVE  SchedulerInv'
<1>1. SalesInv /\ InstInv /\ AlertsInv /\ SnapshotsInv /\ today \in Nat
    BY SchedulerAssumption DEF SchedulerInv, FactoryInv
<1>2. InstInv'
    BY <1>1 DEF InstInv, InstOK
<1>3. SalesInv'
    <2>1. BooksOK' /\ ListInv'
        BY <1>1 DEF SalesInv, BooksOK, ListInv, books
    <2>2. SignalInv'
        BY <1>1 DEF SalesInv, SignalInv, SignalOK, Found, books
    <2>3. \A p \in PositionIds : SaleInv(p)'
        BY <1>1 DEF SalesInv, SaleInv, Wanted, Closing, books
    <2> QED
        BY <2>1, <2>2, <2>3 DEF SalesInv
<1>4. AlertsInv'
    <2>1. \A k \in AlertKeys : AlertInv(k)'
        BY <1>1 DEF AlertsInv, AlertInv, Alerting, alerting
    <2> QED
        BY <1>1, <2>1 DEF AlertsInv, alerting
<1>5. SnapshotsInv'
    BY <1>1, SnapshotsQuiet
<1> QED
    BY <1>2, <1>3, <1>4, <1>5 DEF SchedulerInv

\* The invariant holds before the process is started.
LEMMA SchedulerInit == Init => SchedulerInv
<1> SUFFICES ASSUME Init PROVE SchedulerInv
    OBVIOUS
<1>1. PICK sc \in Scenarios : positions = sc.positions /\ mishaps = sc.mishaps
    BY DEF Init
<1>2. /\ life = "down" /\ loaded = {} /\ contexts = {} /\ jobFns = << >> /\ today = 1
      /\ inst = [i \in Slots |-> Idle]
      /\ total = [a \in Accounts |-> Max(TotalRange)]
      /\ snapshots = [a \in Accounts |-> [d \in 1 .. LastDay |-> None]] /\ mixed = {}
      /\ marks = {} /\ sent = [k \in AlertKeys |-> 0] /\ doubtful = {}
      /\ soldFor = [p \in PositionIds |-> 0]
      /\ excused = [p \in PositionIds |-> {}]
    BY DEF Init
<1>3. /\ shares = [a \in Accounts |-> [s \in Symbols |->
           Cardinality({p \in OpenOf(a) : positions[p].symbol = s})]]
    BY DEF Init
<1>4. FactoryInv
    <2>1. total \in [Accounts -> TotalRange]
        BY <1>2, MaxFacts, SchedulerAssumption
    <2>2. mishaps \in Nat
        BY <1>1, ScenariosAssumption
    <2>3. DOMAIN jobFns = {}
        BY <1>2
    <2> QED
        BY <1>2, <2>1, <2>2, <2>3, SchedulerAssumption DEF FactoryInv
<1>5. \A i \in Slots : inst[i] = Idle /\ Idle.pc = "idle" /\ Idle.list = {}
    BY <1>2 DEF Idle
<1>6. InstInv
    <2>1. InstOK(Idle)
        BY DEF InstOK, Idle, Ended, Pcs, RowStates, Selling, Alarming
    <2> QED
        BY <1>2, <1>5, <2>1 DEF InstInv
<1>7. SalesInv
    <2>1. ASSUME NEW a \in Accounts, NEW s \in Symbols
          PROVE  Cardinality({p \in OpenOf(a) : positions[p].symbol = s}) \in Nat
        <3>1. {p \in OpenOf(a) : positions[p].symbol = s} \subseteq PositionIds
            BY DEF OpenOf, Open
        <3>2. IsFiniteSet({p \in OpenOf(a) : positions[p].symbol = s})
            BY <3>1, FS_Subset, SchedulerAssumption
        <3> QED
            BY <3>2, FS_CardinalityType
    <2>2. shares \in [Accounts -> [Symbols -> Nat]]
        BY <1>3, <2>1
    <2>3. BooksOK
        BY <1>1, <1>2, <2>2, ScenariosAssumption DEF BooksOK
    <2>4. ListInv /\ SignalInv
        BY <1>5 DEF ListInv, SignalInv, SignalOK, Selling
    <2>5. \A p \in PositionIds : positions[p].status # "closed"
        BY <1>1, ScenariosAssumption
    <2>6. ASSUME NEW p \in PositionIds PROVE SaleInv(p)
        <3>1. ~ Closing(p) /\ \A i \in Slots : ~ Wanted(inst[i], p) /\ inst[i].pc \notin Selling
            BY <1>5 DEF Closing, Wanted, Selling
        <3> QED
            BY <1>2, <2>5, <3>1 DEF SaleInv
    <2> QED
        BY <2>3, <2>4, <2>6 DEF SalesInv
<1>8. AlertsInv
    <2>1. \A k \in AlertKeys : Alerting(k) = {}
        BY <1>5 DEF Alerting
    <2> QED
        BY <1>2, <2>1 DEF AlertsInv, AlertInv
<1>9. SnapshotsInv
    <2>1. \A a \in Accounts : \A d \in 1 .. LastDay : snapshots[a][d] = None
        BY <1>2
    <2>2. snapshots \in [Accounts -> [1 .. LastDay -> Snaps \union {None}]]
        BY <1>2
    <2> QED
        BY <1>5, <2>1, <2>2 DEF SnapshotsInv, ReportInv, PeakCoversHistory
<1> QED
    BY <1>4, <1>6, <1>7, <1>8, <1>9 DEF SchedulerInv

\* create_scheduler, account by account.
LEMMA StartupStep ==
    ASSUME SchedulerInv, Startup
    PROVE  SchedulerInv'
<1>1. /\ UNCHANGED <<inst, books, records, alerting, today>> /\ today \in Nat
      /\ FactoryInv
    BY SchedulerAssumption
       DEF Startup, LoadAccounts, RegisterJobs, PrepareAccount, market, SchedulerInv, FactoryInv
<1>2. CASE LoadAccounts
    <2>1. mishaps' \in Nat
        BY <1>1, <1>2 DEF LoadAccounts, FactoryInv, Mishap
    <2>2. loaded' \subseteq Accounts /\ contexts' = {} /\ life' = "preparing"
        BY <1>2, SchedulerAssumption DEF LoadAccounts, OrDefault
    <2>3. UNCHANGED <<jobFns, total>>
        BY <1>2 DEF LoadAccounts, market
    <2>4. FactoryInv'
        BY <1>1, <2>1, <2>2, <2>3 DEF FactoryInv
    <2> QED
        BY <1>1, <2>4, NoSlot
<1>3. CASE RegisterJobs
    <2>1. jobFns' = [job \in Common \union UNION {JobsOf(a) : a \in contexts} |->
                       IF job \in Common THEN None ELSE BoundContext(job)]
        BY <1>3 DEF RegisterJobs
    <2>2. DOMAIN jobFns' = Common \union UNION {JobsOf(a) : a \in contexts}
        BY <2>1
    <2>3. DOMAIN jobFns' \subseteq JobIds
        BY <1>1, <2>2 DEF JobIds, FactoryInv
    <2>4. ASSUME NEW job \in DOMAIN jobFns' PROVE jobFns'[job] = job[2]
        <3>1. job \in Common => job[2] = None
            BY DEF Common
        <3> QED
            BY <2>1, <3>1 DEF BoundContext
    <2>5. \A a \in contexts : Sweep(a) \in DOMAIN jobFns'
        BY <2>2 DEF JobsOf
    <2>6. UNCHANGED <<loaded, contexts, total, mishaps>> /\ life' = "up"
        BY <1>3 DEF RegisterJobs, market
    <2>7. FactoryInv'
        BY <1>1, <2>3, <2>4, <2>5, <2>6 DEF FactoryInv, Sweep
    <2> QED
        BY <1>1, <2>7, NoSlot
<1>4. ASSUME NEW a \in Accounts, PrepareAccount(a) PROVE SchedulerInv'
    <2>1. mishaps' \in Nat
        BY <1>1, <1>4 DEF PrepareAccount, FactoryInv, Mishap
    <2>2. loaded' \subseteq Accounts /\ contexts' \subseteq Accounts /\ life' = "preparing"
        BY <1>1, <1>4 DEF PrepareAccount, FactoryInv
    <2>3. UNCHANGED <<jobFns, total>>
        BY <1>4 DEF PrepareAccount, market
    <2>4. FactoryInv'
        BY <1>1, <2>1, <2>2, <2>3 DEF FactoryInv
    <2> QED
        BY <1>1, <2>4, NoSlot
<1> QED
    BY <1>2, <1>3, <1>4 DEF Startup

\* The control routes pause and resume; a crash ends every job.
LEMMA ManualStep ==
    ASSUME SchedulerInv, Manual
    PROVE  SchedulerInv'
<1>1. FactoryInv /\ today \in Nat
    BY SchedulerAssumption DEF SchedulerInv, FactoryInv
<1>2. CASE PauseAll \/ ResumeAll
    <2>1. UNCHANGED <<inst, books, records, alerting, today, life, factory, market>>
        BY <1>2 DEF PauseAll, ResumeAll, market
    <2>2. UNCHANGED mishaps \/ Mishap
        BY <1>2 DEF PauseAll, ResumeAll
    <2>3. FactoryInv'
        BY <1>1, <2>1, <2>2, FactoryQuiet
    <2> QED
        BY <1>1, <2>1, <2>3, NoSlot
<1>3. CASE Crash
    <2>1. UNCHANGED <<factory, market, records>> /\ Mishap /\ life' = "down"
        BY <1>3 DEF Crash
    <2>2. FactoryInv'
        BY <1>1, <2>1 DEF FactoryInv, factory, market, Mishap
    <2>3. InstInv /\ SalesInv /\ AlertsInv /\ SnapshotsInv
        BY DEF SchedulerInv
    <2>4. InstInv' /\ \A i \in Slots : inst'[i].pc \in Ended
        BY <1>3, <2>3, CrashSlots
    <2>5. \A i \in Slots : inst'[i].pc # "snapshot"
        BY <2>4 DEF Ended
    <2>6. today' = today
        BY <2>1 DEF market
    <2>7. SnapshotsInv'
        BY <1>1, <2>1, <2>3, <2>5, <2>6, SnapshotsQuiet
    <2>8. SalesInv' /\ AlertsInv'
        BY <1>3, <2>3, CrashSales, CrashAlerts
    <2> QED
        BY <2>2, <2>4, <2>7, <2>8 DEF SchedulerInv
<1> QED
    BY <1>2, <1>3 DEF Manual

\* A new day, and prices and values that move.
LEMMA EnvironmentStep ==
    ASSUME SchedulerInv, Environment
    PROVE  SchedulerInv'
<1>1. /\ UNCHANGED <<inst, books, records, alerting, life, factory, mishaps>>
      /\ FactoryInv /\ today \in Nat
    <2>1. UNCHANGED <<inst, books, records, alerting, life, factory, mishaps>>
        BY DEF Environment, NextDay, PriceMoves, ValueMoves
    <2> QED
        BY <2>1, SchedulerAssumption DEF SchedulerInv, FactoryInv
<1>2. today' \in 1 .. LastDay /\ today <= today' /\ total' \in [Accounts -> TotalRange]
    <2>1. CASE NextDay
        BY <1>1, <2>1, SchedulerAssumption DEF NextDay, FactoryInv
    <2>2. ASSUME NEW s \in Symbols, PriceMoves(s)
          PROVE  today' \in 1 .. LastDay /\ today <= today' /\ total' \in [Accounts -> TotalRange]
        BY <1>1, <2>2 DEF PriceMoves, FactoryInv
    <2>3. ASSUME NEW a \in Accounts, ValueMoves(a)
          PROVE  today' \in 1 .. LastDay /\ today <= today' /\ total' \in [Accounts -> TotalRange]
        BY <1>1, <2>3 DEF ValueMoves, FactoryInv
    <2> QED
        BY <2>1, <2>2, <2>3 DEF Environment
<1>3. FactoryInv'
    BY <1>1, <1>2 DEF FactoryInv, factory
<1>4. today' \in Nat
    BY <1>2, SchedulerAssumption
<1> QED
    BY <1>1, <1>2, <1>3, <1>4, NoSlot

\* A job begins, fired or started by hand.
LEMMA BeginStep ==
    ASSUME SchedulerInv, NEW i \in Slots, NEW job \in agenda, Fire(i, job) \/ RunJobNow(i, job)
    PROVE  SchedulerInv'
<1>1. PICK by \in {"trigger", "api"}, row \in {"running", "none"} : Begin(i, job, by, row)
    BY DEF Fire, RunJobNow
<1>2. /\ UNCHANGED <<life, factory, books, market, records, alerting>>
      /\ UNCHANGED mishaps \/ Mishap
      /\ job \in DOMAIN jobFns /\ ~ Active(i)
    BY DEF Fire, RunJobNow, Free
<1>3. job \in JobIds /\ jobFns[job] = job[2]
    BY <1>2 DEF SchedulerInv, FactoryInv
<1>4. PICK y : y = [Idle EXCEPT !.job = job, !.by = by, !.account = job[2], !.pc = FirstStep(job),
                                !.row = row]
    OBVIOUS
<1>5. InstOK(y) /\ y.pc \in {"positions", "pipeline", "state", "once"} /\ y.list = {}
    BY <1>3, <1>4, BeginOK
<1>6. Becomes(i, y)
    BY <1>1, <1>3, <1>4, <1>5 DEF Begin, Becomes
<1>7. FactoryInv'
    BY <1>2, FactoryQuiet DEF SchedulerInv
<1>8. UNCHANGED today
    BY <1>2 DEF market
<1>9. inst[i].pc \in Ended
    BY <1>2 DEF Active
<1> QED
    BY <1>2, <1>5, <1>6, <1>7, <1>8, <1>9, QuietSlot DEF Ended, Selling, InHand

\* Steps of a job that sell, and neither send nor save.
LEMMA SellingSlot ==
    ASSUME SchedulerInv, NEW i \in Slots, NEW y, Becomes(i, y), FactoryInv', SalesInv',
           UNCHANGED <<records, alerting, today>>,
           inst[i].pc \notin InHand, y.pc \notin InHand \union {"snapshot"}
    PROVE  SchedulerInv'
<1>1. InstInv /\ AlertsInv /\ SnapshotsInv /\ today \in Nat
    BY SchedulerAssumption DEF SchedulerInv, FactoryInv
<1>2. InstInv' /\ inst'[i] = y /\ \A k \in Slots \ {i} : inst'[k] = inst[k]
    BY <1>1, SlotMoves DEF Becomes
<1>3. AlertsInv'
    BY <1>1, <1>2, AlertsQuiet
<1>4. SnapshotsInv'
    BY <1>1, <1>2, SnapshotsQuiet
<1> QED
    BY <1>2, <1>3, <1>4 DEF SchedulerInv

\* Steps of the monitor.
LEMMA AlarmingSlot ==
    ASSUME SchedulerInv, NEW i \in Slots, NEW y, Becomes(i, y), FactoryInv', AlertsInv',
           UNCHANGED <<books, records, today>>, inst[i].pc \in Alarming,
           y.pc \in Alarming \union {"update"},
           y.list \in {{}, inst[i].list}, y.account = inst[i].account
    PROVE  SchedulerInv'
<1>1. SalesInv /\ InstInv /\ SnapshotsInv /\ today \in Nat
    BY SchedulerAssumption DEF SchedulerInv, FactoryInv
<1>2. InstInv' /\ inst'[i] = y /\ \A k \in Slots \ {i} : inst'[k] = inst[k]
    BY <1>1, SlotMoves DEF Becomes
<1>3. SalesInv'
    <2>1. SalesMay(inst[i], y)
        BY SalesMayQuietly DEF Selling, Alarming
    <2> QED
        BY <1>1, <1>2, <2>1, SalesQuiet DEF Alarming
<1>4. SnapshotsInv'
    BY <1>1, <1>2, SnapshotsQuiet DEF Alarming
<1> QED
    BY <1>2, <1>3, <1>4 DEF SchedulerInv

\* Steps of a report.
LEMMA ReportingSlot ==
    ASSUME SchedulerInv, NEW i \in Slots, NEW y, Becomes(i, y), FactoryInv', SnapshotsInv',
           UNCHANGED <<books, alerting>>, inst[i].pc \in {"state", "snapshot"},
           y.pc \in {"snapshot", "report"}, y.list = inst[i].list, y.account = inst[i].account
    PROVE  SchedulerInv'
<1>1. SalesInv /\ InstInv /\ AlertsInv
    BY DEF SchedulerInv
<1>2. InstInv' /\ inst'[i] = y /\ \A k \in Slots \ {i} : inst'[k] = inst[k]
    BY <1>1, SlotMoves DEF Becomes
<1>3. SalesInv'
    <2>1. SalesMay(inst[i], y)
        BY SalesMayQuietly DEF Selling
    <2> QED
        BY <1>1, <1>2, <2>1, SalesQuiet
<1>4. AlertsInv'
    BY <1>1, <1>2, AlertsQuiet DEF InHand
<1> QED
    BY <1>2, <1>3, <1>4 DEF SchedulerInv

\* The pipeline's decisions, and the two ways a job's row ends.
LEMMA RunPipelineSlot ==
    ASSUME InstInv, ListInv, NEW i \in Slots, RunPipeline(i)
    PROVE  \E y : Becomes(i, y) /\ y.pc \in {"entry", "update"} /\ y.list = {}
<1> DEFINE x == inst[i]
<1>1. x.pc = "pipeline" /\ InstOK(x)
    BY DEF RunPipeline, InstInv
<1>2. PICK buys \in SUBSET Universe(x), open \in BOOLEAN :
        inst' = [inst EXCEPT ![i] = IF buys = {} \/ ~ open THEN Returned(x)
                   ELSE [x EXCEPT !.pc = "entry", !.todo = buys, !.list = {}]]
    BY DEF RunPipeline
<1>3. Universe(x) \subseteq Symbols
    BY DEF Universe, ListInv, PositionRows
<1>4. InstOK(Returned(x)) /\ Returned(x).pc = "update" /\ Returned(x).list = {}
    BY <1>1, EndOK DEF Ended
<1>5. CASE buys = {} \/ ~ open
    BY <1>2, <1>4, <1>5 DEF Becomes
<1>6. CASE ~ (buys = {} \/ ~ open)
    <2>1. PICK y : y = [x EXCEPT !.pc = "entry", !.todo = buys, !.list = {}]
        OBVIOUS
    <2>2. y.pc = "entry" /\ y.list = {} /\ y.todo = buys
        BY <1>1, <2>1 DEF InstOK
    <2>3. buys \subseteq Symbols
        BY <1>3
    <2>4. InstOK(y)
        BY <1>1, <2>1, <2>2, <2>3 DEF InstOK, Selling, Alarming, Ended, Pcs
    <2> QED
        BY <1>2, <1>6, <2>1, <2>2, <2>4 DEF Becomes
<1> QED
    BY <1>5, <1>6

\* The end of a job's row.
LEMMA UpdateRowSlot ==
    ASSUME InstInv, NEW i \in Slots, UpdateRow(i)
    PROVE  \E y : Becomes(i, y) /\ y.pc \in Ended /\ y.list = {}
<1> DEFINE x == inst[i]
<1>1. x.pc = "update" /\ InstOK(x)
    BY DEF UpdateRow, InstInv
<1>2. PICK row \in RowStates : row = IF x.row = "running" THEN x.cur ELSE "none"
    BY <1>1 DEF InstOK, RowStates
<1>3. CASE inst' = [inst EXCEPT ![i] = [Idle EXCEPT !.row = row]]
    <2>1. PICK y : y = [Idle EXCEPT !.row = row]
        OBVIOUS
    <2>2. InstOK(y) /\ y.pc \in Ended /\ y.list = {}
        BY <2>1 DEF InstOK, Idle, Ended, Pcs, RowStates, Selling, Alarming
    <2> QED
        BY <1>3, <2>1, <2>2 DEF Becomes
<1>4. CASE inst' = [inst EXCEPT ![i] = [Idle EXCEPT !.pc = "unrecorded", !.row = "running"]]
    <2>1. PICK y : y = [Idle EXCEPT !.pc = "unrecorded", !.row = "running"]
        OBVIOUS
    <2>2. InstOK(y) /\ y.pc \in Ended /\ y.list = {}
        BY <2>1 DEF InstOK, Idle, Ended, Pcs, RowStates, Selling, Alarming
    <2> QED
        BY <1>4, <2>1, <2>2 DEF Becomes
<1> QED
    BY <1>2, <1>3, <1>4 DEF UpdateRow

\* Every step inside of a job.
LEMMA BodyStep ==
    ASSUME SchedulerInv, NEW i \in Slots, Body(i)
    PROVE  SchedulerInv'
<1>1. /\ SalesInv /\ InstInv /\ AlertsInv /\ SnapshotsInv /\ FactoryInv
      /\ today \in 1 .. LastDay /\ today \in Nat /\ total \in [Accounts -> TotalRange]
    BY SchedulerAssumption DEF SchedulerInv, FactoryInv
<1>2. /\ UNCHANGED <<life, factory, market>>
      /\ UNCHANGED mishaps \/ Mishap
    BY DEF Body, ReadPositions, PricePosition, ClosePosition, SendAlert, MarkAlert, RunPipeline,
           ReadState, SaveSnapshot, SendReport, RunOnce, Raise, UpdateRow, ExecuteSignal, CheckAlert,
           ExecuteEntry
<1>3. FactoryInv' /\ UNCHANGED today
    BY <1>1, <1>2, FactoryQuiet DEF market
<1>4. CASE ReadPositions(i)
    <2>1. UNCHANGED <<records, alerting>> /\ inst[i].pc = "positions"
        BY <1>4 DEF ReadPositions
    <2>2. PICK y : SalesInv' /\ Becomes(i, y) /\ y.pc \in {"price", "pipeline", "update"}
        BY <1>1, <1>4, ReadPositionsStep
    <2> QED
        BY <1>3, <2>1, <2>2, SellingSlot DEF InHand
<1>5. CASE PricePosition(i)
    <2>1. UNCHANGED <<books, records, alerting>> /\ inst[i].pc = "price"
        BY <1>5 DEF PricePosition
    <2>2. PICK y : y = inst'[i]
        OBVIOUS
    <2>3. /\ Becomes(i, y) /\ SalesMay(inst[i], y)
          /\ y.pc \in {"price", "exit", "alerts", "update"}
        BY <1>1, <1>5, <2>2, PriceSlot DEF Becomes
    <2>4. \A k \in Slots \ {i} : inst'[k] = inst[k]
        BY <1>1, <2>3, SlotMoves DEF Becomes
    <2>5. SalesInv'
        BY <1>1, <2>1, <2>2, <2>3, <2>4, SalesQuiet
    <2> QED
        BY <1>3, <2>1, <2>3, <2>5, SellingSlot DEF InHand
<1>6. CASE ClosePosition(i)
    <2>1. UNCHANGED <<records, alerting>> /\ inst[i].pc = "closing"
        BY <1>6 DEF ClosePosition
    <2>2. PICK y : SalesInv' /\ Becomes(i, y) /\ y.pc \in {"exit", "alerts", "update"}
        BY <1>1, <1>6, ClosePositionStep
    <2> QED
        BY <1>3, <2>1, <2>2, SellingSlot DEF InHand
<1>7. ASSUME NEW signal \in inst[i].todo, ExecuteSignal(i, signal) PROVE SchedulerInv'
    <2>1. UNCHANGED <<records, alerting>> /\ inst[i].pc = "exit"
        BY <1>7 DEF ExecuteSignal
    <2>2. PICK y : SalesInv' /\ Becomes(i, y) /\ y.pc \in {"closing", "exit", "alerts", "update"}
        BY <1>1, <1>7, ExecuteSignalStep
    <2> QED
        BY <1>3, <2>1, <2>2, SellingSlot DEF InHand
<1>8. ASSUME NEW s \in inst[i].todo, ExecuteEntry(i, s) PROVE SchedulerInv'
    <2>1. UNCHANGED <<records, alerting>> /\ inst[i].pc = "entry"
        BY <1>8 DEF ExecuteEntry
    <2>2. PICK y : SalesInv' /\ Becomes(i, y) /\ y.pc \in {"entry", "alerts", "update"}
        BY <1>1, <1>8, ExecuteEntryStep
    <2> QED
        BY <1>3, <2>1, <2>2, SellingSlot DEF InHand
<1>9. ASSUME NEW kind \in inst[i].todo, CheckAlert(i, kind) PROVE SchedulerInv'
    <2>1. UNCHANGED <<books, records>> /\ inst[i].pc = "alerts"
        BY <1>9 DEF CheckAlert
    <2>2. PICK y : /\ AlertsInv' /\ Becomes(i, y) /\ y.pc \in {"send", "alerts", "update"}
                   /\ y.list \in {{}, inst[i].list} /\ y.account = inst[i].account
        BY <1>1, <1>9, CheckAlertStep
    <2> QED
        BY <1>3, <2>1, <2>2, AlarmingSlot DEF Alarming
<1>10. CASE SendAlert(i)
    <2>1. UNCHANGED <<books, records>> /\ inst[i].pc = "send"
        BY <1>10 DEF SendAlert
    <2>2. PICK y : /\ AlertsInv' /\ Becomes(i, y) /\ y.pc \in {"mark", "alerts", "update"}
                   /\ y.list \in {{}, inst[i].list} /\ y.account = inst[i].account
        BY <1>1, <1>10, SendAlertStep
    <2> QED
        BY <1>3, <2>1, <2>2, AlarmingSlot DEF Alarming
<1>11. CASE MarkAlert(i)
    <2>1. UNCHANGED <<books, records>> /\ inst[i].pc = "mark"
        BY <1>11 DEF MarkAlert
    <2>2. PICK y : /\ AlertsInv' /\ Becomes(i, y) /\ y.pc \in {"alerts", "update"}
                   /\ y.list \in {{}, inst[i].list} /\ y.account = inst[i].account
        BY <1>1, <1>11, MarkAlertStep
    <2> QED
        BY <1>3, <2>1, <2>2, AlarmingSlot DEF Alarming
<1>12. CASE ReadState(i)
    <2>1. UNCHANGED <<books, alerting>> /\ inst[i].pc = "state"
        BY <1>12 DEF ReadState
    <2>2. PICK y : /\ SnapshotsInv' /\ Becomes(i, y) /\ y.pc = "snapshot"
                   /\ y.list = inst[i].list /\ y.account = inst[i].account
        BY <1>1, <1>12, ReadStateStep
    <2> QED
        BY <1>3, <2>1, <2>2, ReportingSlot
<1>13. CASE SaveSnapshot(i)
    <2>1. UNCHANGED <<books, alerting>> /\ inst[i].pc = "snapshot"
        BY <1>13 DEF SaveSnapshot
    <2>2. PICK y : /\ SnapshotsInv' /\ Becomes(i, y) /\ y.pc = "report"
                   /\ y.list = inst[i].list /\ y.account = inst[i].account
        BY <1>1, <1>13, SaveSnapshotStep
    <2> QED
        BY <1>3, <2>1, <2>2, ReportingSlot
<1>14. CASE RunPipeline(i)
    <2>1. UNCHANGED <<books, records, alerting>> /\ inst[i].pc = "pipeline"
        BY <1>14 DEF RunPipeline
    <2>2. PICK y : Becomes(i, y) /\ y.pc \in {"entry", "update"} /\ y.list = {}
        BY <1>1, <1>14, RunPipelineSlot DEF SalesInv
    <2> QED
        BY <1>3, <2>1, <2>2, QuietSlot DEF InHand, Selling
<1>15. CASE SendReport(i) \/ RunOnce(i) \/ Raise(i)
    <2>1. /\ UNCHANGED <<books, records, alerting>> /\ inst[i].pc \in Unguarded
          /\ \/ inst' = [inst EXCEPT ![i] = Returned(inst[i])]
             \/ inst' = [inst EXCEPT ![i] = Raised(inst[i])]
        BY <1>15 DEF SendReport, RunOnce, Raise, Unguarded
    <2>2. InstOK(inst[i]) /\ inst[i].pc \notin Ended
        BY <1>1, <2>1 DEF InstInv, Unguarded, Ended
    <2>3. PICK y : Becomes(i, y) /\ y.pc = "update" /\ y.list = {}
        BY <2>1, <2>2, EndOK DEF Becomes
    <2> QED
        BY <1>3, <2>1, <2>3, QuietSlot DEF InHand, Selling, Unguarded
<1>16. CASE UpdateRow(i)
    <2>1. UNCHANGED <<books, records, alerting>> /\ inst[i].pc = "update"
        BY <1>16 DEF UpdateRow
    <2>2. PICK y : Becomes(i, y) /\ y.pc \in Ended /\ y.list = {}
        BY <1>1, <1>16, UpdateRowSlot
    <2> QED
        BY <1>3, <2>1, <2>2, QuietSlot DEF InHand, Selling, Ended
<1> QED
    BY <1>4, <1>5, <1>6, <1>7, <1>8, <1>9, <1>10, <1>11, <1>12, <1>13, <1>14, <1>15, <1>16 DEF Body

\* Every step keeps the invariant.
LEMMA SchedulerStep == SchedulerInv /\ [Next]_vars => SchedulerInv'
<1> SUFFICES ASSUME SchedulerInv, [Next]_vars PROVE SchedulerInv'
    OBVIOUS
<1>1. CASE UNCHANGED vars
    <2>1. /\ UNCHANGED <<inst, books, records, alerting, life, factory, market, mishaps>>
          /\ UNCHANGED today
        BY <1>1 DEF vars, market
    <2>2. FactoryInv' /\ today \in Nat
        BY <2>1, FactoryQuiet, SchedulerAssumption DEF SchedulerInv, FactoryInv
    <2> QED
        BY <2>1, <2>2, NoSlot
<1> QED
    BY <1>1, StartupStep, ManualStep, EnvironmentStep, BeginStep, BodyStep DEF Next

\* The invariant holds in every state.
LEMMA SchedulerInductive == Spec => []SchedulerInv
BY SchedulerInit, SchedulerStep, PTL DEF Spec

---------------------------------------------------------------------------
(* Scheduler implements PositionLifecycle.                                 *)

\* A row of positions that nothing went wrong with is open while its sale is still
\* to be recorded.
ClosingInv == \A p \in PositionIds : excused[p] = {} /\ Closing(p) => positions[p].status = "open"

\* What PositionLifecycle sees of a row.
SeenKept(p) == PhaseOf(p)' = PhaseOf(p) /\ SalesOf(p)' = SalesOf(p)

\* Nothing is seen of a step, but that open rows come into doubt.
LEMMA LifeDoubts ==
    ASSUME \A p \in PositionIds : excused[p] # {} => excused'[p] # {},
           \A p \in PositionIds : excused[p] = {} /\ excused'[p] # {} => positions[p].status = "open",
           \A p \in PositionIds : excused'[p] = {} =>
             soldFor'[p] = soldFor[p] /\ positions'[p].status = positions[p].status
    PROVE  Life!Next
<1>1. PICK S \in SUBSET PositionIds : S = {p \in PositionIds : excused[p] = {} /\ excused'[p] # {}}
    OBVIOUS
<1>2. \A p \in S : PhaseOf(p) = "open" /\ PhaseOf(p)' = "doubted" /\ SalesOf(p)' = 0
    BY <1>1 DEF PhaseOf, SalesOf
<1>3. \A p \in PositionIds \ S : SeenKept(p)
    BY <1>1 DEF SeenKept, PhaseOf, SalesOf
<1>4. \A p \in S : [q \in PositionIds |-> PhaseOf(q)][p] = "open"
    BY <1>2
<1>5. [p \in PositionIds |-> PhaseOf(p)]'
        = [p \in PositionIds |-> IF p \in S THEN "doubted" ELSE [q \in PositionIds |-> PhaseOf(q)][p]]
    BY <1>2, <1>3 DEF SeenKept
<1>6. [p \in PositionIds |-> SalesOf(p)]'
        = [p \in PositionIds |-> IF p \in S THEN 0 ELSE [q \in PositionIds |-> SalesOf(q)][p]]
    BY <1>2, <1>3 DEF SeenKept
<1>7. Life!Doubt(S)
    BY <1>4, <1>5, <1>6 DEF Life!Doubt
<1> QED
    BY <1>7 DEF Life!Next

\* One row is opened, sold or closed, and the others are left alone.
LEMMA LifeMoves ==
    ASSUME NEW p \in PositionIds, UNCHANGED excused, excused[p] = {},
           \A q \in PositionIds \ {p} :
             soldFor'[q] = soldFor[q] /\ positions'[q].status = positions[q].status,
           \/ /\ positions[p].status = "none" /\ positions'[p].status = "open"
              /\ soldFor'[p] = soldFor[p]
           \/ /\ positions[p].status = "open" /\ positions'[p].status = "open"
              /\ soldFor[p] = 0 /\ soldFor'[p] = 1
           \/ /\ positions[p].status = "open" /\ positions'[p].status = "closed"
              /\ soldFor[p] = 1 /\ soldFor'[p] = 1
    PROVE  Life!Next
<1> DEFINE ph == [q \in PositionIds |-> PhaseOf(q)]
           sa == [q \in PositionIds |-> SalesOf(q)]
<1>1. \A q \in PositionIds \ {p} : SeenKept(q)
    BY DEF SeenKept, PhaseOf, SalesOf
<1>2. SalesOf(p) = soldFor[p] /\ SalesOf(p)' = soldFor'[p]
    BY DEF SalesOf
<1>3. SalesOf(p)' = SalesOf(p) => sa' = sa
    BY <1>1 DEF SeenKept
<1>4. PhaseOf(p)' = PhaseOf(p) => ph' = ph
    BY <1>1 DEF SeenKept
<1>5. ph' = [ph EXCEPT ![p] = PhaseOf(p)'] /\ sa' = [sa EXCEPT ![p] = SalesOf(p)']
    BY <1>1 DEF SeenKept
<1>6. ph[p] = PhaseOf(p) /\ sa[p] = SalesOf(p)
    OBVIOUS
<1>7. CASE /\ positions[p].status = "none" /\ positions'[p].status = "open"
           /\ soldFor'[p] = soldFor[p]
    <2>1. PhaseOf(p) = "unused" /\ PhaseOf(p)' = "open"
        BY <1>7 DEF PhaseOf
    <2>2. Life!Open(p)
        BY <1>2, <1>3, <1>5, <1>6, <1>7, <2>1 DEF Life!Open, Life!Move
    <2> QED
        BY <2>2 DEF Life!Next
<1>8. CASE /\ positions[p].status = "open" /\ positions'[p].status = "open"
           /\ soldFor[p] = 0 /\ soldFor'[p] = 1
    <2>1. PhaseOf(p) = "open" /\ PhaseOf(p)' = "open"
        BY <1>8 DEF PhaseOf
    <2>2. Life!Sell(p)
        BY <1>2, <1>4, <1>5, <1>6, <1>8, <2>1 DEF Life!Sell
    <2> QED
        BY <2>2 DEF Life!Next
<1>9. CASE /\ positions[p].status = "open" /\ positions'[p].status = "closed"
            /\ soldFor[p] = 1 /\ soldFor'[p] = 1
    <2>1. PhaseOf(p) = "open" /\ PhaseOf(p)' = "closed"
        BY <1>9 DEF PhaseOf
    <2>2. Life!Close(p)
        BY <1>2, <1>3, <1>5, <1>6, <1>9, <2>1 DEF Life!Close, Life!Move
    <2> QED
        BY <2>2 DEF Life!Next
<1> QED
    BY <1>7, <1>8, <1>9

\* Steps that sell, open and close nothing: at most they bring rows into doubt.
LEMMA LifeQuiet ==
    ASSUME ClosingInv, UNCHANGED <<positions, soldFor>>,
           \A p \in PositionIds : excused[p] # {} => excused'[p] # {},
           \A p \in PositionIds : excused[p] = {} /\ excused'[p] # {} => positions[p].status = "open",
           \A k \in Slots : inst'[k].pc = "closing" => inst'[k] = inst[k]
    PROVE  ClosingInv' /\ Life!Next
<1>1. \A p \in PositionIds : Closing(p)' => Closing(p)
    BY DEF Closing
<1>2. ClosingInv'
    BY <1>1 DEF ClosingInv
<1>3. Life!Next
    BY LifeDoubts
<1> QED
    BY <1>2, <1>3

\* A step of a job that ends anywhere but in front of a row to be closed.
LEMMA OtherBodies ==
    ASSUME SchedulerInv, NEW i \in Slots, Body(i), inst[i].pc # "exit"
    PROVE  \E y : Becomes(i, y) /\ y.pc # "closing"
<1>1. /\ SalesInv /\ ListInv /\ InstInv /\ AlertsInv /\ SnapshotsInv
      /\ today \in 1 .. LastDay /\ today \in Nat /\ total \in [Accounts -> TotalRange]
    BY SchedulerAssumption DEF SchedulerInv, FactoryInv, SalesInv
<1>2. CASE ReadPositions(i)
    BY <1>1, <1>2, ReadPositionsStep
<1>3. CASE PricePosition(i)
    BY <1>1, <1>3, PriceSlot DEF Becomes
<1>4. CASE ClosePosition(i)
    BY <1>1, <1>4, ClosePositionStep
<1>5. CASE \E s \in inst[i].todo : ExecuteEntry(i, s)
    BY <1>1, <1>5, ExecuteEntryStep
<1>6. CASE \E kind \in inst[i].todo : CheckAlert(i, kind)
    BY <1>1, <1>6, CheckAlertStep
<1>7. CASE SendAlert(i)
    BY <1>1, <1>7, SendAlertStep
<1>8. CASE MarkAlert(i)
    BY <1>1, <1>8, MarkAlertStep
<1>9. CASE ReadState(i)
    BY <1>1, <1>9, ReadStateStep
<1>10. CASE SaveSnapshot(i)
    BY <1>1, <1>10, SaveSnapshotStep
<1>11. CASE RunPipeline(i)
    BY <1>1, <1>11, RunPipelineSlot
<1>12. CASE UpdateRow(i)
    <2>1. PICK y : Becomes(i, y) /\ y.pc \in Ended
        BY <1>1, <1>12, UpdateRowSlot
    <2> QED
        BY <2>1 DEF Ended
<1>13. CASE SendReport(i) \/ RunOnce(i) \/ Raise(i)
    <2>1. /\ inst[i].pc \in Unguarded
          /\ \/ inst' = [inst EXCEPT ![i] = Returned(inst[i])]
             \/ inst' = [inst EXCEPT ![i] = Raised(inst[i])]
        BY <1>13 DEF SendReport, RunOnce, Raise, Unguarded
    <2>2. InstOK(inst[i]) /\ inst[i].pc \notin Ended
        BY <1>1, <2>1 DEF InstInv, Unguarded, Ended
    <2> QED
        BY <2>1, <2>2, EndOK DEF Becomes
<1>14. ASSUME NEW g \in inst[i].todo, ExecuteSignal(i, g) PROVE FALSE
    BY <1>14 DEF ExecuteSignal
<1> QED
    BY <1>2, <1>3, <1>4, <1>5, <1>6, <1>7, <1>8, <1>9, <1>10, <1>11, <1>12, <1>13, <1>14 DEF Body

\* A row that nothing went wrong with is open and not sold yet when its sale is made.
LEMMA SoldRowIsOpen ==
    ASSUME SalesInv, InstInv, NEW i \in Slots, inst[i].pc = "exit", NEW g \in inst[i].todo, NEW p,
           p = MatchSignalToPosition(g, inst[i].list), excused[p] = {}
    PROVE  positions[p].status = "open" /\ soldFor[p] = 0
<1>1. PICK rest : rest = [inst[i] EXCEPT !.todo = inst[i].todo \ {g}]
    OBVIOUS
<1>2. /\ p \in PositionIds /\ p \in inst[i].list /\ positions[p].symbol = g.symbol
      /\ g.from \in inst[i].list /\ positions[g.from].symbol = g.symbol
    BY <1>1, SignalSlot
<1>3. SaleInv(p)
    BY <1>2 DEF SalesInv
<1>4. p = g.from
    BY <1>2, <1>3 DEF SaleInv, Selling
<1>5. Wanted(inst[i], p)
    BY <1>4 DEF Wanted
<1> QED
    BY <1>3, <1>5 DEF SaleInv

\* A sale is a sale of an open row, or brings one into doubt.
LEMMA SignalLives ==
    ASSUME SalesInv, InstInv, ClosingInv, NEW i \in Slots, NEW g \in inst[i].todo,
           ExecuteSignal(i, g)
    PROVE  ClosingInv' /\ Life!Next
<1> DEFINE x == inst[i]
<1>1. PICK p : p = MatchSignalToPosition(g, x.list)
    OBVIOUS
<1>2. PICK rest : rest = [x EXCEPT !.todo = x.todo \ {g}]
    OBVIOUS
<1>3. x.pc = "exit" /\ UNCHANGED positions
    BY DEF ExecuteSignal
<1>4. p \in PositionIds /\ InstOK(rest) /\ rest.pc = "exit" /\ SalesMay(x, rest)
    BY <1>1, <1>2, <1>3, SignalSlot
<1>5. InstOK(Advance(rest)) /\ Advance(rest).pc # "closing"
    BY <1>4, AdvanceOK, SalesMayAdvance
<1>6. excused[p] = {} => positions[p].status = "open" /\ soldFor[p] = 0
    BY <1>1, <1>3, SoldRowIsOpen
<1>7. soldFor \in [PositionIds -> Nat] /\ excused = [q \in PositionIds |-> excused[q]]
    BY DEF SalesInv, BooksOK
<1>8. inst = [k \in Slots |-> inst[k]]
    BY DEF InstInv
<1>9. CASE /\ soldFor' = [soldFor EXCEPT ![p] = Min({@ + 1, 2})]
           /\ inst' = [inst EXCEPT ![i] = [rest EXCEPT !.pc = "closing", !.cur = p]]
           /\ UNCHANGED excused
    <2>1. /\ \A k \in Slots \ {i} : inst'[k] = inst[k]
          /\ inst'[i].cur = p
        BY <1>4, <1>8, <1>9 DEF InstOK
    <2>2. \A q \in PositionIds \ {p} : Closing(q)' => Closing(q)
        BY <2>1 DEF Closing
    <2>3. ClosingInv'
        BY <1>3, <1>6, <1>9, <2>2 DEF ClosingInv
    <2>4. \A q \in PositionIds \ {p} : soldFor'[q] = soldFor[q]
        BY <1>7, <1>9
    <2>5. CASE excused[p] = {}
        <3>1. soldFor'[p] = Min({soldFor[p] + 1, 2}) /\ soldFor[p] = 0
            BY <1>4, <1>6, <1>7, <1>9, <2>5
        <3>2. soldFor'[p] = 1
            BY <1>4, <1>7, <3>1, MinOfTwo
        <3> QED
            BY <1>3, <1>4, <1>6, <1>9, <2>3, <2>4, <2>5, <3>1, <3>2, LifeMoves
    <2>6. CASE excused[p] # {}
        <3>1. Life!Next
            BY <1>3, <1>9, <2>4, <2>6, LifeDoubts
        <3> QED
            BY <2>3, <3>1
    <2> QED
        BY <2>5, <2>6
<1>10. CASE /\ soldFor' = [soldFor EXCEPT ![p] = Min({@ + 1, 2})]
            /\ inst' = [inst EXCEPT ![i] = Advance(rest)]
            /\ excused' = [excused EXCEPT ![p] = @ \union {"unrecorded"}]
    <2>1. \A k \in Slots : inst'[k].pc = "closing" => inst'[k] = inst[k]
        BY <1>5, <1>8, <1>10
    <2>2. \A q \in PositionIds : Closing(q)' => Closing(q)
        BY <2>1 DEF Closing
    <2>3. /\ excused'[p] # {}
          /\ \A q \in PositionIds \ {p} : excused'[q] = excused[q] /\ soldFor'[q] = soldFor[q]
        BY <1>4, <1>7, <1>10
    <2>4. ClosingInv'
        BY <1>3, <2>2, <2>3 DEF ClosingInv
    <2>5. Life!Next
        BY <1>3, <1>6, <2>3, LifeDoubts
    <2> QED
        BY <2>4, <2>5
<1>11. CASE inst' = [inst EXCEPT ![i] = Advance(rest)] /\ UNCHANGED <<soldFor, excused>>
    <2>1. \A k \in Slots : inst'[k].pc = "closing" => inst'[k] = inst[k]
        BY <1>5, <1>8, <1>11
    <2> QED
        BY <1>3, <1>11, <2>1, LifeQuiet
<1> QED
    BY <1>1, <1>2, <1>9, <1>10, <1>11 DEF ExecuteSignal

\* The row that is closed was open and sold, or it comes into doubt.
LEMMA CloseLives ==
    ASSUME SalesInv, InstInv, ClosingInv, NEW i \in Slots, ClosePosition(i)
    PROVE  ClosingInv' /\ Life!Next
<1>1. PICK p : p = inst[i].cur
    OBVIOUS
<1>2. inst[i].pc = "closing" /\ UNCHANGED soldFor
    BY DEF ClosePosition
<1>3. p \in PositionIds /\ p \in inst[i].list /\ Closing(p) /\ positions[p] \in PositionRows
    BY <1>1, <1>2 DEF InstInv, InstOK, Closing, SalesInv, ListInv
<1>4. /\ \A k \in Slots \ {i} : inst'[k] = inst[k]
      /\ inst'[i].pc # "closing"
    <2>1. PICK y : Becomes(i, y) /\ y.pc \in {"exit", "alerts", "update"}
        BY ClosePositionStep
    <2> QED
        BY <2>1, SlotMoves DEF Becomes
<1>5. SaleInv(p) /\ (excused[p] = {} => positions[p].status = "open" /\ soldFor[p] = 1)
    BY <1>3 DEF ClosingInv, SalesInv, SaleInv
<1>6. /\ positions \in [PositionIds -> PositionRows \union {NoPosition}]
      /\ excused = [q \in PositionIds |-> excused[q]]
    BY DEF SalesInv, BooksOK
<1>7. CASE positions' = [positions EXCEPT ![p].status = "closed"] /\ UNCHANGED excused
    <2>1. \A q \in PositionIds \ {p} : positions'[q] = positions[q] /\ (Closing(q)' => Closing(q))
        BY <1>4, <1>6, <1>7 DEF Closing
    <2>2. positions'[p].status = "closed"
        BY <1>3, <1>6, <1>7 DEF PositionRows
    <2>3. excused[p] = {} => ~ Closing(p)'
        <3>1. ASSUME excused[p] = {}, NEW k \in Slots, inst'[k].pc = "closing", inst'[k].cur = p
              PROVE  FALSE
            <4>1. k # i /\ inst[k].pc = "closing" /\ inst[k].cur = p
                BY <1>4, <3>1
            <4>2. p \in inst[k].list
                BY <4>1 DEF InstInv, InstOK
            <4> QED
                BY <1>2, <1>3, <1>5, <3>1, <4>1, <4>2 DEF SaleInv, Selling
        <3> QED
            BY <3>1 DEF Closing
    <2>4. ClosingInv'
        BY <1>7, <2>1, <2>3 DEF ClosingInv
    <2>5. CASE excused[p] = {}
        BY <1>2, <1>3, <1>5, <1>7, <2>1, <2>2, <2>4, <2>5, LifeMoves
    <2>6. CASE excused[p] # {}
        <3>1. Life!Next
            BY <1>2, <1>7, <2>1, <2>6, LifeDoubts
        <3> QED
            BY <2>4, <3>1
    <2> QED
        BY <2>5, <2>6
<1>8. CASE UNCHANGED positions /\ excused' = [excused EXCEPT ![p] = @ \union {"unrecorded"}]
    <2>1. /\ \A k \in Slots : inst'[k].pc = "closing" => inst'[k] = inst[k]
          /\ excused'[p] # {} /\ \A q \in PositionIds \ {p} : excused'[q] = excused[q]
        BY <1>3, <1>4, <1>6, <1>8
    <2> QED
        BY <1>2, <1>5, <1>8, <2>1, LifeQuiet
<1> QED
    BY <1>1, <1>7, <1>8 DEF ClosePosition

\* An entry opens a row that was not used.
LEMMA EntryLives ==
    ASSUME SalesInv, InstInv, ClosingInv, today \in Nat, NEW i \in Slots, NEW s \in inst[i].todo,
           ExecuteEntry(i, s)
    PROVE  ClosingInv' /\ Life!Next
<1> DEFINE free == {p \in PositionIds : positions[p].status = "none"}
           row == [EntryRules EXCEPT !.account = inst[i].account, !.symbol = s, !.entryDay = today]
<1>1. UNCHANGED <<soldFor, excused>>
    BY DEF ExecuteEntry
<1>2. \A k \in Slots : inst'[k].pc = "closing" => inst'[k] = inst[k]
    <2>1. PICK y : Becomes(i, y) /\ y.pc \in {"entry", "alerts", "update"}
        BY ExecuteEntryStep
    <2> QED
        BY <2>1, SlotMoves DEF Becomes
<1>3. row.status = "open"
    BY ScenariosAssumption DEF PositionRows
<1>4. CASE UNCHANGED positions
    BY <1>1, <1>2, <1>4, LifeQuiet
<1>5. ASSUME NEW n \in free, positions' = [positions EXCEPT ![n] = row]
      PROVE  ClosingInv' /\ Life!Next
    <2>1. /\ positions'[n].status = "open"
          /\ \A p \in PositionIds \ {n} : positions'[p] = positions[p]
        BY <1>3, <1>5 DEF SalesInv, BooksOK
    <2>2. ClosingInv'
        BY <1>1, <1>2, <2>1 DEF ClosingInv, Closing
    <2>3. CASE excused[n] = {}
        BY <1>1, <2>1, <2>2, <2>3, LifeMoves
    <2>4. CASE excused[n] # {}
        <3>1. Life!Next
            BY <1>1, <2>1, <2>4, LifeDoubts
        <3> QED
            BY <2>2, <3>1
    <2> QED
        BY <2>3, <2>4
<1>6. free # {} => Min(free) \in free
    BY MinFacts, SchedulerAssumption
<1> QED
    BY <1>4, <1>5, <1>6 DEF ExecuteEntry

\* Every step is one of PositionLifecycle, or nothing to it.
LEMMA LifeStep ==
    ASSUME SchedulerInv, ClosingInv, [Next]_vars
    PROVE  ClosingInv' /\ [Life!Next]_(Life!vars)
<1>1. SalesInv /\ InstInv /\ today \in Nat
    BY SchedulerAssumption DEF SchedulerInv, FactoryInv
<1>2. CASE UNCHANGED <<inst, books>>
    BY <1>2, LifeQuiet DEF books
<1>3. CASE Crash
    <2>1. \A k \in Slots : inst'[k].pc = "closing" => inst'[k] = inst[k]
        BY <1>1, <1>3, CrashSlots DEF Ended
    <2>2. /\ UNCHANGED <<positions, soldFor>>
          /\ excused' = [p \in PositionIds |-> IF Closing(p) THEN excused[p] \union {"unrecorded"}
                                               ELSE excused[p]]
        BY <1>3 DEF Crash
    <2> QED
        BY <2>1, <2>2, LifeQuiet DEF ClosingInv
<1>4. ASSUME NEW i \in Slots, NEW job \in agenda, Fire(i, job) \/ RunJobNow(i, job)
      PROVE  ClosingInv' /\ Life!Next
    <2>1. PICK by, row : Begin(i, job, by, row)
        BY <1>4 DEF Fire, RunJobNow
    <2>2. job \in DOMAIN jobFns /\ UNCHANGED books
        BY <1>4 DEF Fire, RunJobNow
    <2>3. FirstStep(job) # "closing"
        BY DEF FirstStep
    <2>4. \A k \in Slots : inst'[k].pc = "closing" => inst'[k] = inst[k]
        BY <1>1, <2>1, <2>3 DEF Begin, Idle, InstInv
    <2> QED
        BY <2>2, <2>4, LifeQuiet DEF books
<1>5. ASSUME NEW i \in Slots, Body(i) PROVE ClosingInv' /\ Life!Next
    <2>1. CASE \E g \in inst[i].todo : ExecuteSignal(i, g)
        BY <1>1, <2>1, SignalLives
    <2>2. CASE ClosePosition(i)
        BY <1>1, <2>2, CloseLives
    <2>3. CASE \E s \in inst[i].todo : ExecuteEntry(i, s)
        BY <1>1, <2>3, EntryLives
    <2>4. ASSUME inst[i].pc # "exit"
          PROVE  \A k \in Slots : inst'[k].pc = "closing" => inst'[k] = inst[k]
        <3>1. PICK y : Becomes(i, y) /\ y.pc # "closing"
            BY <1>5, <2>4, OtherBodies
        <3> QED
            BY <1>1, <3>1, SlotMoves DEF Becomes
    <2>5. CASE ReadPositions(i)
        <3>1. UNCHANGED <<positions, soldFor>> /\ inst[i].pc = "positions"
            BY <2>5 DEF ReadPositions
        <3>2. \A p \in PositionIds : /\ excused[p] \subseteq excused'[p]
                                     /\ excused'[p] # excused[p] => p \in OpenOf(inst[i].account)
            BY <2>5 DEF ReadPositions, GetOpen
        <3>3. \A p \in PositionIds : excused[p] # {} => excused'[p] # {}
            BY <3>2
        <3>4. \A p \in PositionIds : excused[p] = {} /\ excused'[p] # {} => positions[p].status = "open"
            BY <3>2 DEF OpenOf, Open
        <3> QED
            BY <2>4, <3>1, <3>3, <3>4, LifeQuiet
    <2>6. CASE \/ PricePosition(i) \/ SendAlert(i) \/ MarkAlert(i)
               \/ RunPipeline(i) \/ ReadState(i) \/ SaveSnapshot(i) \/ SendReport(i)
               \/ RunOnce(i) \/ Raise(i) \/ UpdateRow(i)
               \/ \E kind \in inst[i].todo : CheckAlert(i, kind)
        <3>1. UNCHANGED books /\ inst[i].pc # "exit"
            BY <2>6 DEF PricePosition, SendAlert, MarkAlert, RunPipeline, ReadState, SaveSnapshot,
                        SendReport, RunOnce, Raise, Unguarded, UpdateRow, CheckAlert
        <3> QED
            BY <2>4, <3>1, LifeQuiet DEF books
    <2> QED
        BY <1>5, <2>1, <2>2, <2>3, <2>5, <2>6 DEF Body
<1>6. CASE Startup \/ PauseAll \/ ResumeAll \/ Environment
    <2>1. UNCHANGED <<inst, books>>
        BY <1>6 DEF Startup, LoadAccounts, RegisterJobs, PrepareAccount, PauseAll, ResumeAll,
                    Environment, NextDay, PriceMoves, ValueMoves
    <2> QED
        BY <1>2, <2>1
<1> QED
    BY <1>2, <1>3, <1>4, <1>5, <1>6 DEF Next, Manual, vars

\* The first states are first states of PositionLifecycle.
LEMMA LifeInit == Init => ClosingInv /\ Life!Init
<1> SUFFICES ASSUME Init PROVE ClosingInv /\ Life!Init
    OBVIOUS
<1>1. PICK x \in Scenarios : positions = x.positions
    BY DEF Init
<1>2. \A p \in PositionIds : positions[p].status \in {"none", "open"}
    BY <1>1, ScenariosAssumption DEF PositionRows, NoPosition
<1>3. \A p \in PositionIds : excused[p] = {} /\ soldFor[p] = 0
    BY DEF Init
<1>4. \A p \in PositionIds : PhaseOf(p) \in {"unused", "open"} /\ SalesOf(p) = 0
    BY <1>2, <1>3 DEF PhaseOf, SalesOf
<1>5. \A p \in PositionIds : ~ Closing(p)
    BY DEF Init, Closing, Idle
<1> QED
    BY <1>4, <1>5 DEF ClosingInv, Life!Init

---------------------------------------------------------------------------
(* Theorems                                                                *)

\* For any number of accounts, jobs at a time, positions, failures and restarts: a
\* position that is alone with its symbol, that one sweep at a time had in hand
\* and whose sale was recorded is sold once, and is closed exactly when it was
\* (job_stop_loss_check, process_exit_signals, PositionManager.close).
THEOREM SweepSellsOnce == Spec => []SoldOnce
<1>1. SchedulerInv => SoldOnce
    BY DEF SchedulerInv, SalesInv, SaleInv, SoldOnce
<1> QED
    BY <1>1, SchedulerInductive, PTL

\* For any number of accounts, jobs at a time, positions, failures and restarts, the
\* table positions lives row by row as PositionLifecycle says: what
\* process_exit_signals sells is open, what PositionManager.close closes was sold
\* once, and only rows that are open ever come into doubt.
THEOREM PositionsLive == Spec => ImplementsLife
<1>1. ClosingInv /\ SchedulerInv /\ [Next]_vars => ClosingInv' /\ [Life!Next]_(Life!vars)
    BY LifeStep
<1> QED
    BY <1>1, LifeInit, SchedulerInductive, PTL DEF Spec, ImplementsLife, Life!Spec

\* An alert of TradingMonitor goes out once a day and account unless its check or
\* its mark was disturbed, however many sweeps of however many accounts run.
THEOREM AlertsGoOutOnce == Spec => []AlertOncePerDay
<1>1. SchedulerInv => AlertOncePerDay
    <2> SUFFICES ASSUME SchedulerInv, NEW k \in AlertKeys, k \notin doubtful PROVE ~ (sent[k] > 1)
        BY DEF AlertOncePerDay
    <2>1. AlertInv(k)
        BY DEF SchedulerInv, AlertsInv
    <2>2. sent[k] \in {0, 1}
        BY <2>1 DEF AlertInv
    <2> QED
        BY <2>2
<1> QED
    BY <1>1, SchedulerInductive, PTL

\* The peaks of the snapshots of an account cover the totals of the days before,
\* for any number of days and of reports a day that do not overlap.
THEOREM PeaksCoverHistory == Spec => []PeakCoversHistory
<1>1. SchedulerInv => PeakCoversHistory
    BY DEF SchedulerInv, SnapshotsInv
<1> QED
    BY <1>1, SchedulerInductive, PTL

\* Types; no broker holds less than nothing, and every job that runs is bound to
\* the account it was registered for.
THEOREM SchedulerTypes == Spec => []SchedulerTypeOK
<1>1. SchedulerInv => SchedulerTypeOK
    <2> SUFFICES ASSUME SchedulerInv PROVE SchedulerTypeOK
        OBVIOUS
    <2>1. \A i \in Slots : /\ inst[i].pc \in Pcs /\ inst[i].row \in RowStates
                           /\ Active(i) => inst[i].account = inst[i].job[2]
        BY DEF SchedulerInv, InstInv, InstOK, Active
    <2>2. \A a \in Accounts : shares[a] \in [Symbols -> Nat]
        BY DEF SchedulerInv, SalesInv, BooksOK
    <2>3. marks \subseteq AlertKeys
        BY DEF SchedulerInv, AlertsInv
    <2>4. FactoryInv
        BY DEF SchedulerInv
    <2> QED
        BY <2>1, <2>2, <2>3, <2>4 DEF SchedulerTypeOK, FactoryInv, RowStates
<1> QED
    BY <1>1, SchedulerInductive, PTL
=============================================================================
