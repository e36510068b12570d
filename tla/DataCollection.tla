-------------------------- MODULE DataCollection --------------------------
(***************************************************************************)
(* data/collector.py, data/providers/*.py and data/cache.py: collections   *)
(* that copy what the sources publish into tables, and the reads that go   *)
(* through Redis.  Bars come through the KIS client of KisClient.          *)
(*                                                                         *)
(* An item is what one call of a sync method copies: the bars, disclosures *)
(* or news of a symbol, one financial report, one indicator, the stock     *)
(* master.  What it holds is a version, the number of times the source has *)
(* published it.                                                           *)
(***************************************************************************)
EXTENDS KisClient, Functions

CONSTANTS
    Items,
    FeedOf,            \* of an item: the provider method that copies it
    Jobs, Readers,
    Stocks, MarketOf,  \* what the stock master is about
    LastVersion,       \* per item, a bound on what its source publishes
    Scenarios

Markets == {"kospi", "kosdaq"}
Ranges == {"none", "dates"}
CacheKeys == {<<i>> : i \in Items} \union (Items \X (Ranges \union {"all"}))

VARIABLES
    source,      \* published versions
    rows,        \* per item, the versions of its rows in the tables
    entries,     \* Redis
    listed,      \* stocks that are traded
    active,      \* stock_master, the rows with is_active
    known,       \* stock_master, all rows
    synced,      \* the last committed copy of the stock master (history)
    job, read,
    raced        \* keys whose entry was not deleted, or filled anew too late (history)

database == <<rows, active, known, synced>>
redis == <<entries, raced>>
outside == <<source, listed>>
vars == <<clientVars, outside, database, redis, job, read>>

Feeds == {"ohlcv", "disclosures", "annual", "quarterly", "indicator", "series", "news", "master"}
Stopped == [pc |-> "done", groups |-> <<>>, got |-> 0, stocks |-> {}, files |-> {}]
Reading == [pc |-> "idle", item |-> None, key |-> None, rows |-> {}, got |-> 0]

ASSUME CollectionAssumption ==
    /\ FeedOf \in [Items -> Feeds] /\ MarketOf \in [Stocks -> Markets]
    /\ LastVersion \in [Items -> Nat] /\ Jobs \subseteq Reads
    /\ \A i, k \in Items : FeedOf[i] = "master" /\ FeedOf[k] = "master" => i = k

ASSUME ScenariosAssumption ==
    \A s \in Scenarios : /\ s.groups \in [Jobs -> Seq(Seq(Items) \ {<<>>})]
                          /\ s.reads \in [Readers -> Items \union {None}]

Init ==
    /\ source = [i \in Items |-> 1] /\ rows = [i \in Items |-> {}]
    /\ listed = Stocks /\ active = {} /\ known = {}
    /\ synced = [version |-> 0, complete |-> FALSE]
    /\ entries = [k \in CacheKeys |-> None] /\ raced = {}
    /\ \E s \in Scenarios :
         /\ job = [j \in Jobs |-> [Stopped EXCEPT !.groups = s.groups[j],
                                     !.pc = IF s.groups[j] = <<>> THEN "done" ELSE "download"]]
         /\ read = [r \in Readers |-> [Reading EXCEPT !.item = s.reads[r]]]
         /\ ClientInit(s.tasks)
         /\ mishaps = s.mishaps

---------------------------------------------------------------------------
(* What each provider method writes, and what it deletes from Redis        *)

\* replaces: a row is updated when its constraint finds it.  clears: cache.delete of one key, or
\* clear_namespace, which deletes the keys that go on after the item.
SyncDailyOHLCV == [replaces |-> TRUE, clears |-> "key"]
SyncStockMaster == [replaces |-> TRUE, clears |-> "namespace"]

\* Faulty: only the key of an unlimited read is deleted.
SyncDisclosuresOneKey == [replaces |-> TRUE, clears |-> "key"]
SyncDisclosures == [replaces |-> TRUE, clears |-> "namespace"]

\* fiscal_quarter is null for an annual report, and no null equals another in the constraint
\* (analysis.py:27 leaves these duplicates to the upsert, which relies on the constraint).
SyncFinancials(feed) == [replaces |-> feed # "annual", clears |-> "key"]
SyncIndicator == [replaces |-> TRUE, clears |-> "namespace"]
SyncSeries == [replaces |-> TRUE, clears |-> "namespace"]
SyncNews == [replaces |-> TRUE, clears |-> "namespace"]

Sync(i) ==
    CASE FeedOf[i] = "ohlcv" -> SyncDailyOHLCV
      [] FeedOf[i] = "master" -> SyncStockMaster
      [] FeedOf[i] = "disclosures" -> SyncDisclosures
      [] FeedOf[i] \in {"annual", "quarterly"} -> SyncFinancials(FeedOf[i])
      [] FeedOf[i] = "indicator" -> SyncIndicator
      [] FeedOf[i] = "series" -> SyncSeries
      [] FeedOf[i] = "news" -> SyncNews

\* The keys of the fetch methods: fetch_news, fetch_daily_ohlcv and fetch_financial_statement
\* have the item itself, fetch_stock_master one key below it, the others one per range of dates.
FetchDisclosures(i, range) == <<i, range>>
FetchIndicators(i, range) == <<i, range>>
FetchSeries(i, range) == <<i, range>>
FetchNews(i) == <<i>>
FetchFinancialStatement(i) == <<i>>
FetchDailyOHLCV(i) == <<i>>
FetchStockMaster(i) == <<i, "all">>

Key(i, range) ==
    CASE FeedOf[i] = "disclosures" -> FetchDisclosures(i, range)
      [] FeedOf[i] = "indicator" -> FetchIndicators(i, range)
      [] FeedOf[i] = "series" -> FetchSeries(i, range)
      [] FeedOf[i] = "news" -> FetchNews(i)
      [] FeedOf[i] \in {"annual", "quarterly"} -> FetchFinancialStatement(i)
      [] FeedOf[i] = "ohlcv" -> FetchDailyOHLCV(i)
      [] FeedOf[i] = "master" -> FetchStockMaster(i)

\* clear_namespace scans for {namespace}:*
Matching(i) == {k \in CacheKeys : Len(k) > 1 /\ k[1] = i}
Cleared(i) == IF Sync(i).clears = "key" THEN {<<i>>} ELSE Matching(i)

---------------------------------------------------------------------------
(* The collector: a sequence of groups, each a sequence of items.  An      *)
(* exception ends the group it is raised in.                               *)

CollectStockMaster(i) == << <<i>> >>
CollectDailyOHLCV(bars_) == [k \in DOMAIN bars_ |-> <<bars_[k]>>]
CollectNews(news) == [k \in DOMAIN news |-> <<news[k]>>]

\* All reports of a symbol are one group.
CollectFinancials(symbols, reports) == [k \in DOMAIN symbols |-> reports[symbols[k]]]

\* sync_all: the indicators of a source are one group; collect_macro_indicators runs
\* the two sources side by side, here as two jobs.
SyncAll(indicators) == <<indicators>>

Item(j) == Head(Head(job[j].groups))

AtItem(groups) ==
    [Stopped EXCEPT !.groups = groups, !.pc = IF groups = <<>> THEN "done" ELSE "download"]

\* The next item of the group, the next group, or the end.
NextItem(j) ==
    LET rest == Tail(Head(job[j].groups))
    IN  AtItem(IF rest = <<>> THEN Tail(job[j].groups) ELSE <<rest>> \o Tail(job[j].groups))

\* The exception ends the group, and the collector goes on with the next one.
NextGroup(j) == AtItem(Tail(job[j].groups))

At(j, label) == job[j].pc = label
Becomes(j, value) == job' = [job EXCEPT ![j] = value]

\* _api_get, with one request.  An answer without rows ends the item, as does a corp_code that
\* cannot be found or downloaded: the caller is told of no failure.
Download(j) ==
    /\ At(j, "download") /\ FeedOf[Item(j)] \notin {"ohlcv", "master"}
    /\ \/ /\ Becomes(j, [job[j] EXCEPT !.pc = "commit", !.got = source[Item(j)]])
          /\ NoMishap
       \/ Becomes(j, NextGroup(j)) /\ Mishap
       \/ Becomes(j, NextItem(j)) /\ Mishap
    /\ UNCHANGED <<session, holder, request, reached, outside, database, redis, read>>

\* get_daily_ohlcv: the newest bars are on the first page, counted as of when it is asked for;
\* there may be no bars at all.
DownloadBars(j) ==
    /\ At(j, "download") /\ FeedOf[Item(j)] = "ohlcv"
    /\ \/ /\ ReadPage(j)
          /\ Becomes(j, [job[j] EXCEPT !.got = IF @ = 0 THEN source[Item(j)] ELSE @])
       \/ /\ request[j].pc = "ok"
          /\ \/ Becomes(j, [job[j] EXCEPT !.pc = "commit"]) /\ NoMishap
             \/ Becomes(j, NextItem(j)) /\ Mishap
          /\ request' = [request EXCEPT ![j] = Idle]
          /\ UNCHANGED <<session, holder, reached>>
       \/ /\ request[j].pc \notin {"idle", "ok"} /\ ~InFlight(j)
          /\ Becomes(j, NextGroup(j))
          /\ request' = [request EXCEPT ![j] = Idle]
          /\ UNCHANGED <<session, holder, reached, mishaps>>
    /\ UNCHANGED <<outside, database, redis, read>>

\* _parse_mst: a file that cannot be had is an empty list.
Parsed(j, market, next) ==
    LET Found(stocks, files) ==
          Becomes(j, [job[j] EXCEPT !.stocks = @ \union stocks, !.files = @ \union files,
                        !.got = IF @ = 0 THEN source[Item(j)] ELSE @, !.pc = next])
    IN  \/ Found({s \in listed : MarketOf[s] = market}, {market}) /\ NoMishap
        \/ Found({}, {}) /\ Mishap

\* get_stock_master: first KOSPI, then KOSDAQ.  Without a session it raises, and _parse_mst
\* catches neither a timeout nor every error of the archive.
DownloadMaster(j) ==
    /\ \/ At(j, "download") /\ FeedOf[Item(j)] = "master" /\ client = "connected"
          /\ Parsed(j, "kospi", "kosdaq")
       \/ At(j, "kosdaq") /\ client = "connected" /\ Parsed(j, "kosdaq", "commit")
       \/ /\ At(j, "kosdaq") \/ (At(j, "download") /\ FeedOf[Item(j)] = "master")
          /\ Becomes(j, NextGroup(j))
          /\ IF client = "connected" THEN Mishap ELSE NoMishap
    /\ UNCHANGED <<session, holder, request, reached, outside, database, redis, read>>

---------------------------------------------------------------------------
(* One transaction, then the cache                                         *)

\* Faulty: the conflict clause leaves is_active as it is.
ActiveAfterInsertOnly(stocks) == (active \intersect stocks) \union (stocks \ known)

\* Every stock of the files is upserted as active; the others are deactivated.
ActiveAfter(stocks) == stocks

\* Nothing in the files: the method returns before the transaction.
Commit(j) ==
    LET i == Item(j)
        isMaster == FeedOf[i] = "master"
    IN
    /\ At(j, "commit")
    /\ \/ /\ ~isMaster \/ job[j].stocks # {}
          /\ rows' = [rows EXCEPT ![i] =
                         IF Sync(i).replaces THEN {job[j].got} ELSE @ \union {job[j].got}]
          /\ IF isMaster
             THEN /\ active' = ActiveAfter(job[j].stocks)
                  /\ known' = known \union job[j].stocks
                  /\ synced' = [version |-> job[j].got, complete |-> job[j].files = Markets]
             ELSE UNCHANGED <<active, known, synced>>
          /\ Becomes(j, [job[j] EXCEPT !.pc = "clear"]) /\ NoMishap
       \/ /\ isMaster /\ job[j].stocks = {}
          /\ Becomes(j, NextItem(j)) /\ UNCHANGED database /\ NoMishap
       \/ Becomes(j, NextGroup(j)) /\ UNCHANGED database /\ Mishap
    /\ UNCHANGED <<session, holder, request, reached, outside, redis, read>>

\* An error of Redis is logged and the entries stay.
Clear(j) ==
    LET keys == Cleared(Item(j))
    IN
    /\ At(j, "clear")
    /\ \/ /\ entries' = [k \in CacheKeys |-> IF k \in keys THEN None ELSE entries[k]]
          /\ raced' = raced \ keys /\ NoMishap
       \/ raced' = raced \union keys /\ UNCHANGED entries /\ Mishap
    /\ Becomes(j, NextItem(j))
    /\ UNCHANGED <<session, holder, request, reached, outside, database, read>>

---------------------------------------------------------------------------
(* The fetch methods: Redis, then the table, then Redis again              *)

\* An error of Redis is a miss.
LookUp(r, range) ==
    LET key == Key(read[r].item, range)
    IN
    /\ read[r].pc = "idle" /\ read[r].item # None
    /\ \/ /\ entries[key] # None /\ NoMishap
          /\ read' = [read EXCEPT ![r].got = entries[key]]
       \/ /\ read' = [read EXCEPT ![r].pc = "table", ![r].key = key]
          /\ IF entries[key] = None THEN NoMishap ELSE Mishap
    /\ UNCHANGED <<session, holder, request, reached, outside, database, redis, job>>

\* Of two rows with the same key the first that comes.
ReadTable(r) ==
    /\ read[r].pc = "table"
    /\ \/ /\ rows[read[r].item] = {}
          /\ read' = [read EXCEPT ![r] = [Reading EXCEPT !.item = read[r].item]]
       \/ \E version \in rows[read[r].item] :
             read' = [read EXCEPT ![r].pc = "fill", ![r].got = version,
                                  ![r].rows = rows[read[r].item]]
    /\ UNCHANGED <<clientVars, outside, database, redis, job>>

\* The rows that were read go into the cache, whatever the table holds by now.
Fill(r) ==
    LET key == read[r].key
        late == rows[read[r].item] # read[r].rows
    IN
    /\ read[r].pc = "fill"
    /\ \/ /\ entries' = [entries EXCEPT ![key] = read[r].got]
          /\ raced' = IF late THEN raced \union {key} ELSE raced \ {key}
          /\ NoMishap
       \/ UNCHANGED redis /\ Mishap
    /\ read' = [read EXCEPT ![r] = [Reading EXCEPT !.item = read[r].item, !.got = read[r].got]]
    /\ UNCHANGED <<session, holder, request, reached, outside, database, job>>

\* The time to live that every entry has.
Expire(key) ==
    /\ entries[key] # None /\ Mishap
    /\ entries' = [entries EXCEPT ![key] = None] /\ raced' = raced \ {key}
    /\ UNCHANGED <<session, holder, request, reached, outside, database, job, read>>

---------------------------------------------------------------------------

\* A source publishes, up to LastVersion and while a collection still has the item to copy; for the
\* stock master a stock is listed or delisted.
Publish(i) ==
    /\ source[i] < LastVersion[i]
    /\ \E j \in Jobs : \E g \in Range(job[j].groups) : i \in Range(g)
    /\ source' = [source EXCEPT ![i] = @ + 1]
    /\ IF FeedOf[i] # "master" THEN UNCHANGED listed
       ELSE \E s \in Stocks : listed' = IF s \in listed THEN listed \ {s} ELSE listed \union {s}
    /\ UNCHANGED <<clientVars, database, redis, job, read>>

ClientStep ==
    /\ \/ Connect \/ Disconnect \/ Revoke \/ ExpireToken
       \/ \E t \in Tasks : RequestStep(t)
       \/ \E t \in Orders : PlaceOrder(t)
       \/ \E t \in Reads \ Jobs : ReadPage(t)
    /\ UNCHANGED <<outside, database, redis, job, read>>

Next ==
    \/ ClientStep
    \/ \E j \in Jobs : \/ Download(j) \/ DownloadBars(j) \/ DownloadMaster(j)
                        \/ Commit(j) \/ Clear(j)
    \/ \E r \in Readers : (\E range \in Ranges : LookUp(r, range)) \/ ReadTable(r) \/ Fill(r)
    \/ \E key \in CacheKeys : Expire(key)
    \/ \E i \in Items : Publish(i)

Spec == Init /\ [][Next]_vars

---------------------------------------------------------------------------
(* Properties                                                              *)

\* When the last committed copy of the stock master had both files and nothing has been listed or
\* delisted since it began, stock_master is right: every traded stock is active again, also one
\* that had been deactivated, and no other is (sync_stock_master).
ListedIsActive ==
    (synced.complete /\ \A i \in Items : FeedOf[i] = "master" => source[i] = synced.version)
        => active = listed

\* Where a sync updates the row, an entry of Redis is that row, unless a sync has yet to delete
\* it, its deletion failed or a slow fetch wrote it after the sync.  News are left out: their
\* sync clears {namespace}:{symbol}:*, which the key {namespace}:{symbol} does not match.  So
\* are annual reports: every sync adds a row, and a fetch caches any of them.
EntryNeedsRace ==
    \A k \in CacheKeys :
        entries[k] # None /\ FeedOf[k[1]] # "news" /\ Sync(k[1]).replaces =>
            \/ rows[k[1]] = {entries[k]}
            \/ k \in raced
            \/ \E j \in Jobs : At(j, "clear") /\ Item(j) = k[1]
=============================================================================
