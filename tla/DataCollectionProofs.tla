------------------------ MODULE DataCollectionProofs ------------------------
(***************************************************************************)
(* Theorems about DataCollection, for every set of items, collections,     *)
(* readers and calls of the client: what KisClient promises, the stock     *)
(* master, and the entries of Redis.                                       *)
(***************************************************************************)
EXTENDS DataCollection, KisClientProofs

JobPcs == {"done", "download", "kosdaq", "commit", "clear"}
JobType == [pc : JobPcs, groups : Seq(Seq(Items) \ {<<>>}), got : Nat,
            stocks : SUBSET Stocks, files : SUBSET Markets]
ReadType == [pc : {"idle", "table", "fill"}, item : Items \union {None},
             key : CacheKeys \union {None}, rows : SUBSET Nat, got : Nat]

\* A collection between two items.
Fresh(x) ==
    /\ x.pc \in {"done", "download"}
    /\ x.pc # "done" => x.groups # <<>>
    /\ x.got = 0 /\ x.stocks = {} /\ x.files = {}

CollectionTypeOK ==
    /\ source \in [Items -> Nat \ {0}]
    /\ rows \in [Items -> SUBSET Nat]
    /\ entries \in [CacheKeys -> Nat \union {None}]
    /\ listed \subseteq Stocks
    /\ synced \in [version : Nat, complete : BOOLEAN]
    /\ job \in [Jobs -> JobType]
    /\ read \in [Readers -> ReadType]
    /\ \A j \in Jobs : job[j].pc # "done" => job[j].groups # <<>>
    /\ \A i \in Items : Sync(i).replaces => \A v, w \in rows[i] : v = w

\* The keys a fetch method of an item uses.
KeysOf(i) == {Key(i, range) : range \in Ranges}

\* Entries and fills are under the keys of their item, and a fill has a row
\* the reader found.
FillInv ==
    /\ \A k \in CacheKeys : entries[k] # None => k \in KeysOf(k[1])
    /\ \A r \in Readers :
         /\ read[r].pc \in {"table", "fill"} =>
              /\ read[r].item \in Items
              /\ read[r].key \in CacheKeys /\ read[r].key[1] = read[r].item
              /\ read[r].key \in KeysOf(read[r].item)
         /\ read[r].pc = "fill" => read[r].got \in read[r].rows

\* A copy of the stock master under way has the listed stocks of the files it
\* has read, unless something was listed or delisted since it began.
CopyInv(x) ==
    LET i == Head(Head(x.groups))
    IN
    /\ x.pc = "download" => /\ x.stocks = {} /\ x.files = {}
                            /\ FeedOf[i] = "master" => x.got = 0
    /\ x.pc = "kosdaq" => FeedOf[i] = "master"
    /\ x.pc \in {"kosdaq", "commit"} /\ FeedOf[i] = "master" =>
          /\ 0 < x.got /\ x.got <= source[i]
          /\ x.got = source[i] => x.stocks = {s \in listed : MarketOf[s] \in x.files}
MasterInv == \A j \in Jobs : CopyInv(job[j])

\* The last copy is not from the future.
SyncedInv == \A i \in Items : FeedOf[i] = "master" => synced.version <= source[i]

DataInv ==
    /\ CollectionTypeOK
    /\ FillInv /\ EntryNeedsRace
    /\ MasterInv /\ SyncedInv /\ ListedIsActive

CollectionInv == ClientInv /\ DataInv

---------------------------------------------------------------------------
\* A fetch method of an item uses keys of that item, and the sync method of
\* the item deletes all of them, but for news.
LEMMA KeyFacts ==
    ASSUME NEW i \in Items
    PROVE  /\ \A range \in Ranges : Key(i, range) \in CacheKeys /\ Key(i, range)[1] = i
           /\ FeedOf[i] # "news" => KeysOf(i) \subseteq Cleared(i)
           /\ \A k \in Cleared(i) : k[1] = i
<1> USE DEF Ranges, CacheKeys
<1>1. FeedOf[i] \in Feeds
    BY CollectionAssumption
<1>2. \A range \in Ranges : Key(i, range) \in CacheKeys /\ Key(i, range)[1] = i
    BY <1>1 DEF Feeds, Key, FetchDisclosures, FetchIndicators, FetchSeries, FetchNews,
                FetchFinancialStatement, FetchDailyOHLCV, FetchStockMaster
<1>3. \A k \in Cleared(i) : k[1] = i
    BY DEF Cleared, Matching
<1>4. ASSUME FeedOf[i] # "news", NEW range \in Ranges
      PROVE  Key(i, range) \in Cleared(i)
    <2>1. Len(<<i, range>>) = 2 /\ Len(<<i, "all">>) = 2
        OBVIOUS
    <2>2. CASE FeedOf[i] \in {"ohlcv", "annual", "quarterly"}
        BY <2>2 DEF Key, FetchFinancialStatement, FetchDailyOHLCV, Cleared, Sync,
                    SyncDailyOHLCV, SyncFinancials
    <2>3. CASE FeedOf[i] \in {"disclosures", "indicator", "series", "master"}
        <3>1. Sync(i).clears = "namespace"
            BY <2>3 DEF Sync, SyncDisclosures, SyncIndicator, SyncSeries, SyncStockMaster
        <3>2. Key(i, range) \in {<<i, range>>, <<i, "all">>}
            BY <2>3 DEF Key, FetchDisclosures, FetchIndicators, FetchSeries, FetchStockMaster
        <3> QED
            BY <1>2, <2>1, <3>1, <3>2 DEF Cleared, Matching
    <2> QED
        BY <1>1, <1>4, <2>2, <2>3 DEF Feeds
<1> QED
    BY <1>2, <1>3, <1>4 DEF KeysOf

\* A collection that goes on has an item in hand; what follows it starts anew.
LEMMA JobFacts ==
    ASSUME CollectionTypeOK, NEW j \in Jobs, job[j].pc # "done"
    PROVE  /\ Item(j) \in Items
           /\ \A next \in {NextItem(j), NextGroup(j)} :
                next \in JobType /\ Fresh(next)
<1> DEFINE G == Seq(Items) \ {<<>>}
           gs == job[j].groups
<1>1. gs \in Seq(G) /\ gs # <<>>
    BY DEF CollectionTypeOK, JobType
<1>2. Head(gs) \in G /\ Tail(gs) \in Seq(G)
    BY <1>1
<1>3. Item(j) \in Items /\ Tail(Head(gs)) \in Seq(Items)
    BY <1>2 DEF Item
<1>4. ASSUME NEW groups \in Seq(G)
      PROVE  AtItem(groups) \in JobType /\ Fresh(AtItem(groups))
    BY <1>4 DEF Fresh, AtItem, Stopped, JobType, JobPcs
<1>5. Tail(Head(gs)) # <<>> => <<Tail(Head(gs))>> \o Tail(gs) \in Seq(G)
    BY <1>2, <1>3
<1> QED
    BY <1>2, <1>3, <1>4, <1>5 DEF NextItem, NextGroup

\* Nothing is copied, read or cached at the beginning.
LEMMA CollectionInit == Init => CollectionInv
<1> SUFFICES ASSUME Init PROVE CollectionInv
    OBVIOUS
<1>1. PICK s \in Scenarios :
        /\ job = [j \in Jobs |-> [Stopped EXCEPT !.groups = s.groups[j],
                                   !.pc = IF s.groups[j] = <<>> THEN "done" ELSE "download"]]
        /\ read = [r \in Readers |-> [Reading EXCEPT !.item = s.reads[r]]]
        /\ ClientInit(s.tasks)
    BY DEF Init
<1>2. ClientInv
    BY <1>1, ClientInitInv
<1>i. /\ source = [i \in Items |-> 1] /\ rows = [i \in Items |-> {}] /\ listed = Stocks
      /\ synced = [version |-> 0, complete |-> FALSE]
      /\ entries = [k \in CacheKeys |-> None]
    BY DEF Init
<1>3. job \in [Jobs -> JobType] /\ \A j \in Jobs : Fresh(job[j])
    <2>1. \A j \in Jobs : s.groups[j] \in Seq(Seq(Items) \ {<<>>})
        BY ScenariosAssumption
    <2>2. ASSUME NEW j \in Jobs
          PROVE  /\ job[j] \in JobType
                 /\ Fresh(job[j])
        BY <1>1, <2>1 DEF Fresh, Stopped, JobType, JobPcs
    <2>3. job = [j \in Jobs |-> job[j]]
        BY <1>1
    <2> QED
        BY <2>2, <2>3
<1>4. read \in [Readers -> ReadType] /\ \A r \in Readers : read[r].pc = "idle"
    <2>1. ASSUME NEW r \in Readers
          PROVE  read[r] \in ReadType /\ read[r].pc = "idle"
        BY <1>1, ScenariosAssumption DEF Reading, ReadType
    <2>2. read = [r \in Readers |-> read[r]]
        BY <1>1
    <2> QED
        BY <2>1, <2>2
<1>5. CollectionTypeOK
    <2>1. source \in [Items -> Nat \ {0}] /\ rows \in [Items -> SUBSET Nat] /\ listed \subseteq Stocks
        BY <1>i
    <2>2. synced \in [version : Nat, complete : BOOLEAN]
        BY <1>i
    <2>3. entries \in [CacheKeys -> Nat \union {None}]
        BY <1>i
    <2>4. \A i \in Items : rows[i] = {}
        BY <1>i
    <2> QED
        BY <2>1, <2>2, <2>3, <2>4, <1>3, <1>4 DEF CollectionTypeOK, Fresh
<1>6. FillInv /\ EntryNeedsRace
    BY <1>i, <1>4 DEF FillInv, EntryNeedsRace
<1>7. MasterInv
    BY <1>3 DEF MasterInv, CopyInv, Fresh
<1>8. ~ synced.complete /\ synced.version = 0
    BY <1>i
<1>9. SyncedInv /\ ListedIsActive
    BY <1>i, <1>8 DEF SyncedInv, ListedIsActive
<1> QED
    BY <1>2, <1>5, <1>6, <1>7, <1>9 DEF CollectionInv, DataInv

---------------------------------------------------------------------------
\* Steps of the client only.
LEMMA DataStutter ==
    ASSUME DataInv, UNCHANGED <<outside, database, redis, job, read>>
    PROVE  DataInv'
<1> USE DEF DataInv, outside, database, redis
<1>1. CollectionTypeOK'
    BY DEF CollectionTypeOK
<1>2. FillInv' /\ EntryNeedsRace'
    BY DEF FillInv, EntryNeedsRace, At, Item
<1>3. MasterInv' /\ SyncedInv' /\ ListedIsActive'
    BY DEF MasterInv, CopyInv, SyncedInv, ListedIsActive
<1> QED
    BY <1>1, <1>2, <1>3

\* A collection moves on without writing to the tables or to Redis.
LEMMA JobMoves ==
    ASSUME DataInv, NEW j \in Jobs, job[j].pc # "clear",
           NEW x \in JobType, x.pc # "done" => x.groups # <<>>, CopyInv(x),
           job' = [job EXCEPT ![j] = x],
           UNCHANGED <<outside, database, redis, read>>
    PROVE  DataInv'
<1> USE DEF DataInv, outside, database, redis
<1>0. /\ job' \in [Jobs -> JobType] /\ job'[j] = x
      /\ \A k \in Jobs : k # j => job'[k] = job[k]
    BY DEF CollectionTypeOK
<1>1. CollectionTypeOK'
    BY <1>0 DEF CollectionTypeOK
<1>2. FillInv'
    BY DEF FillInv
<1>3. EntryNeedsRace'
    BY <1>0 DEF EntryNeedsRace, At, Item
<1>4. MasterInv'
    BY <1>0 DEF MasterInv, CopyInv
<1>5. SyncedInv' /\ ListedIsActive'
    BY DEF SyncedInv, ListedIsActive
<1> QED
    BY <1>1, <1>2, <1>3, <1>4, <1>5

\* The end of an item, or of a group.
LEMMA JobGoesOn ==
    ASSUME DataInv, NEW j \in Jobs, job[j].pc \notin {"clear", "done"},
           Becomes(j, NextItem(j)) \/ Becomes(j, NextGroup(j)),
           UNCHANGED <<outside, database, redis, read>>
    PROVE  DataInv'
<1>1. PICK x \in {NextItem(j), NextGroup(j)} : job' = [job EXCEPT ![j] = x]
    BY DEF Becomes
<1>2. x \in JobType /\ Fresh(x)
    BY JobFacts DEF DataInv
<1>3. CopyInv(x) /\ (x.pc # "done" => x.groups # <<>>)
    BY <1>2 DEF CopyInv, Fresh
<1> QED
    BY <1>1, <1>2, <1>3, JobMoves

\* Downloads of everything but bars and the stock master.
LEMMA DownloadStep ==
    ASSUME DataInv, NEW j \in Jobs, Download(j)
    PROVE  DataInv'
<1>1. /\ job[j].pc = "download" /\ FeedOf[Item(j)] # "master"
      /\ UNCHANGED <<outside, database, redis, read>>
    BY DEF Download, At
<1>2. job[j] \in JobType /\ job[j].groups # <<>> /\ Item(j) \in Items /\ source[Item(j)] \in Nat
    BY <1>1, JobFacts DEF DataInv, CollectionTypeOK
<1>3. CASE Becomes(j, [job[j] EXCEPT !.pc = "commit", !.got = source[Item(j)]])
    <2> DEFINE x == [job[j] EXCEPT !.pc = "commit", !.got = source[Item(j)]]
    <2>1. x \in JobType /\ x.groups = job[j].groups /\ x.pc = "commit"
        BY <1>2 DEF JobType, JobPcs
    <2>2. CopyInv(x)
        BY <1>1, <2>1 DEF CopyInv, Item
    <2> QED
        BY <1>1, <1>2, <1>3, <2>1, <2>2, JobMoves DEF Becomes
<1> QED
    BY <1>1, <1>3, JobGoesOn DEF Download

\* Bars come through the client, page by page.
LEMMA DownloadBarsStep ==
    ASSUME CollectionInv, NEW j \in Jobs, DownloadBars(j)
    PROVE  CollectionInv'
<1> USE DEF CollectionInv
<1>1. /\ job[j].pc = "download" /\ FeedOf[Item(j)] = "ohlcv" /\ j \in Reads /\ j \in Tasks
      /\ UNCHANGED <<outside, database, redis, read>>
    BY CollectionAssumption DEF DownloadBars, At, Tasks
<1>2. job[j] \in JobType /\ job[j].groups # <<>> /\ Item(j) \in Items /\ source[Item(j)] \in Nat
    BY <1>1, JobFacts DEF DataInv, CollectionTypeOK
<1>3. job[j].stocks = {} /\ job[j].files = {}
    BY <1>1 DEF DataInv, MasterInv, CopyInv
<1>4. CASE /\ ReadPage(j)
           /\ Becomes(j, [job[j] EXCEPT !.got = IF @ = 0 THEN source[Item(j)] ELSE @])
    <2> DEFINE x == [job[j] EXCEPT !.got = IF @ = 0 THEN source[Item(j)] ELSE @]
    <2>1. x \in JobType /\ x.groups = job[j].groups /\ x.pc = "download"
          /\ x.stocks = {} /\ x.files = {}
        BY <1>1, <1>2, <1>3 DEF JobType
    <2>2. CopyInv(x)
        BY <1>1, <2>1 DEF CopyInv, Item
    <2>3. DataInv'
        BY <1>1, <1>2, <1>4, <2>1, <2>2, JobMoves DEF Becomes
    <2> QED
        BY <1>1, <1>4, <2>3, BeginningSteps
<1>5. CASE /\ Becomes(j, [job[j] EXCEPT !.pc = "commit"])
           /\ request' = [request EXCEPT ![j] = Idle] /\ UNCHANGED <<session, reached>>
    <2> DEFINE x == [job[j] EXCEPT !.pc = "commit"]
    <2>1. x \in JobType /\ x.groups = job[j].groups /\ x.pc = "commit"
        BY <1>2 DEF JobType, JobPcs
    <2>2. CopyInv(x)
        BY <1>1, <2>1 DEF CopyInv, Item
    <2>3. DataInv'
        BY <1>1, <1>2, <1>5, <2>1, <2>2, JobMoves DEF Becomes
    <2> QED
        BY <1>1, <1>5, <2>3, ForgetRead DEF session
<1>6. CASE /\ Becomes(j, NextItem(j)) \/ Becomes(j, NextGroup(j))
           /\ request' = [request EXCEPT ![j] = Idle] /\ UNCHANGED <<session, reached>>
    <2>1. DataInv'
        BY <1>1, <1>6, JobGoesOn
    <2> QED
        BY <1>1, <1>6, <2>1, ForgetRead DEF session
<1> QED
    BY <1>4, <1>5, <1>6 DEF DownloadBars

\* A file of the stock master: the copy keeps up with what is listed, or the
\* version it began with is past.
LEMMA DownloadMasterStep ==
    ASSUME DataInv, NEW j \in Jobs, DownloadMaster(j)
    PROVE  DataInv'
<1>1. job[j].pc \in {"download", "kosdaq"} /\ UNCHANGED <<outside, database, redis, read>>
    BY DEF DownloadMaster, At
<1>2. FeedOf[Item(j)] = "master"
    BY <1>1 DEF DownloadMaster, At, DataInv, MasterInv, CopyInv, Item
<1>3. /\ job[j] \in JobType /\ job[j].groups # <<>> /\ Item(j) \in Items
      /\ source[Item(j)] \in Nat \ {0} /\ listed \subseteq Stocks
    BY <1>1, JobFacts DEF DataInv, CollectionTypeOK
<1>4. ASSUME NEW market \in Markets, NEW next \in {"kosdaq", "commit"},
             Parsed(j, market, next)
      PROVE  DataInv'
    <2>1. PICK stocks \in SUBSET Stocks, files \in SUBSET Markets :
            /\ Becomes(j, [job[j] EXCEPT !.stocks = @ \union stocks, !.files = @ \union files,
                              !.got = IF @ = 0 THEN source[Item(j)] ELSE @, !.pc = next])
            /\ \/ stocks = {s \in listed : MarketOf[s] = market} /\ files = {market}
               \/ stocks = {} /\ files = {}
        <3>1. {s \in listed : MarketOf[s] = market} \in SUBSET Stocks /\ {market} \in SUBSET Markets
            BY <1>3
        <3> QED
            BY <1>4, <3>1 DEF Parsed
    <2> DEFINE x == [job[j] EXCEPT !.stocks = @ \union stocks, !.files = @ \union files,
                              !.got = IF @ = 0 THEN source[Item(j)] ELSE @, !.pc = next]
    <2>2. /\ x \in JobType /\ x.groups = job[j].groups /\ x.pc = next
          /\ x.stocks = job[j].stocks \union stocks /\ x.files = job[j].files \union files
          /\ x.got = IF job[j].got = 0 THEN source[Item(j)] ELSE job[j].got
        BY <1>3 DEF JobType, JobPcs
    <2>3. 0 < x.got /\ x.got <= source[Item(j)]
        <3>1. CopyInv(job[j])
            BY <1>1 DEF DataInv, MasterInv
        <3>2. job[j].got \in Nat /\ (job[j].got # 0 => job[j].got <= source[Item(j)])
            BY <1>1, <1>2, <1>3, <3>1 DEF CopyInv, Item, JobType
        <3> QED
            BY <1>3, <2>2, <3>2
    <2>4. ASSUME x.got = source[Item(j)]
          PROVE  x.stocks = {s \in listed : MarketOf[s] \in x.files}
        <3>1. job[j].stocks = {s \in listed : MarketOf[s] \in job[j].files}
            <4>1. CASE job[j].pc = "download"
                BY <4>1 DEF DataInv, MasterInv, CopyInv
            <4>2. CASE job[j].pc = "kosdaq" /\ job[j].got = source[Item(j)]
                BY <1>2, <4>2 DEF DataInv, MasterInv, CopyInv, Item
            <4>3. job[j].pc = "kosdaq" => job[j].got # 0
                BY <1>2 DEF DataInv, MasterInv, CopyInv, Item
            <4> QED
                BY <1>1, <2>2, <2>4, <4>1, <4>2, <4>3
        <3> QED
            BY <2>1, <2>2, <3>1
    <2>5. CopyInv(x)
        BY <1>2, <2>2, <2>3, <2>4 DEF CopyInv, Item
    <2> QED
        BY <1>1, <1>3, <2>1, <2>2, <2>5, JobMoves DEF Becomes
<1> QED
    BY <1>1, <1>4, JobGoesOn DEF DownloadMaster, Markets

\* The transaction: what it makes stale is in the hands of the same collection,
\* which is about to delete it.
LEMMA CommitStep ==
    ASSUME DataInv, NEW j \in Jobs, Commit(j)
    PROVE  DataInv'
<1>1. job[j].pc = "commit" /\ UNCHANGED <<outside, redis, read>>
    BY DEF Commit, At
<1>2. /\ job[j] \in JobType /\ job[j].groups # <<>> /\ Item(j) \in Items
      /\ job[j].got \in Nat
    BY <1>1, JobFacts DEF DataInv, CollectionTypeOK, JobType
<1>3. CASE /\ Becomes(j, NextItem(j)) \/ Becomes(j, NextGroup(j))
           /\ UNCHANGED database
    BY <1>1, <1>3, JobGoesOn
<1>4. CASE ~ (/\ Becomes(j, NextItem(j)) \/ Becomes(j, NextGroup(j))
              /\ UNCHANGED database)
    <2> DEFINE x == [job[j] EXCEPT !.pc = "clear"]
               i == Item(j)
               isMaster == FeedOf[i] = "master"
    <2>1. /\ job' = [job EXCEPT ![j] = x]
          /\ rows' = [rows EXCEPT ![i] =
                 IF Sync(i).replaces THEN {job[j].got} ELSE @ \union {job[j].got}]
          /\ isMaster =>
               /\ active' = job[j].stocks
               /\ synced' = [version |-> job[j].got, complete |-> (job[j].files = Markets)]
          /\ ~ isMaster => UNCHANGED <<active, synced>>
        BY <1>4 DEF Commit, Becomes, ActiveAfter
    <2>2. x \in JobType /\ x.pc = "clear" /\ x.groups = job[j].groups
        BY <1>2 DEF JobType, JobPcs
    <2>3. /\ job' \in [Jobs -> JobType] /\ job'[j] = x
          /\ \A k \in Jobs : k # j => job'[k] = job[k]
        BY <2>1, <2>2 DEF DataInv, CollectionTypeOK
    <2>4. CollectionTypeOK'
        <3>1. rows' \in [Items -> SUBSET Nat]
            BY <1>2, <2>1 DEF DataInv, CollectionTypeOK
        <3>0. \A k \in Items : Sync(k).replaces => \A v, w \in rows'[k] : v = w
            <4>1. \A k \in Items : k # i => rows'[k] = rows[k]
                BY <1>2, <2>1 DEF DataInv, CollectionTypeOK
            <4>2. Sync(i).replaces => rows'[i] = {job[j].got}
                BY <1>2, <2>1 DEF DataInv, CollectionTypeOK
            <4> QED
                BY <4>1, <4>2 DEF DataInv, CollectionTypeOK
        <3>2. synced' \in [version : Nat, complete : BOOLEAN]
            <4>1. CASE isMaster
                <5>1. PICK b \in BOOLEAN : b = (job[j].files = Markets)
                    OBVIOUS
                <5>2. synced' = [version |-> job[j].got, complete |-> b]
                    BY <2>1, <4>1, <5>1
                <5> QED
                    BY <1>2, <5>2
            <4>2. CASE ~ isMaster
                BY <2>1, <4>2 DEF DataInv, CollectionTypeOK
            <4> QED
                BY <4>1, <4>2
        <3> QED
            BY <1>1, <1>2, <2>2, <2>3, <3>0, <3>1, <3>2
               DEF DataInv, CollectionTypeOK, outside, redis
    <2>5. FillInv'
        BY <1>1 DEF DataInv, FillInv, redis
    <2>6. EntryNeedsRace'
        <3> SUFFICES ASSUME NEW k \in CacheKeys, entries[k] # None, FeedOf[k[1]] # "news",
                            Sync(k[1]).replaces
                     PROVE  \/ rows'[k[1]] = {entries[k]} \/ k \in raced
                            \/ \E n \in Jobs : At(n, "clear")' /\ Item(n)' = k[1]
            BY <1>1 DEF EntryNeedsRace, redis
        <3>1. CASE k[1] = i
            <4>1. At(j, "clear")' /\ Item(j)' = k[1]
                BY <2>2, <2>3, <3>1 DEF At, Item
            <4> QED
                BY <4>1
        <3>2. CASE k[1] # i
            <4>1. rows'[k[1]] = rows[k[1]]
                BY <2>1, <3>2 DEF DataInv, CollectionTypeOK, CacheKeys
            <4>2. \A n \in Jobs : job[n].pc = "clear" => job'[n] = job[n]
                BY <1>1, <2>3
            <4> QED
                BY <4>1, <4>2 DEF DataInv, EntryNeedsRace, At, Item
        <3> QED
            BY <3>1, <3>2
    <2>7. MasterInv'
        BY <1>1, <2>2, <2>3 DEF DataInv, MasterInv, CopyInv, outside
    <2>8. SyncedInv' /\ ListedIsActive'
        <3>1. CASE ~ isMaster
            BY <1>1, <2>1, <3>1 DEF DataInv, SyncedInv, ListedIsActive, outside
        <3>2. CASE isMaster
            <4>1. \A n \in Items : FeedOf[n] = "master" => n = i
                BY <1>2, <3>2, CollectionAssumption
            <4>2. job[j].got <= source[i]
                  /\ (job[j].got = source[i] =>
                        job[j].stocks = {s \in listed : MarketOf[s] \in job[j].files})
                BY <1>1, <3>2 DEF DataInv, MasterInv, CopyInv, Item
            <4>3. synced'.version = job[j].got /\ (synced'.complete <=> job[j].files = Markets)
                <5>1. PICK b \in BOOLEAN : b = (job[j].files = Markets)
                    OBVIOUS
                <5>2. synced' = [version |-> job[j].got, complete |-> b]
                    BY <2>1, <3>2, <5>1
                <5> QED
                    BY <5>1, <5>2
            <4>4. \A s \in listed : MarketOf[s] \in Markets
                BY CollectionAssumption DEF DataInv, CollectionTypeOK
            <4>5. SyncedInv'
                BY <1>1, <4>1, <4>2, <4>3 DEF SyncedInv, outside
            <4>6. ListedIsActive'
                <5> SUFFICES ASSUME synced'.complete, source[i] = synced'.version
                             PROVE  active' = listed
                    BY <1>1, <1>2, <3>2 DEF ListedIsActive, outside
                <5> QED
                    BY <2>1, <3>2, <4>2, <4>3, <4>4
            <4> QED
                BY <4>5, <4>6
        <3> QED
            BY <3>1, <3>2
    <2> QED
        BY <2>4, <2>5, <2>6, <2>7, <2>8 DEF DataInv
<1> QED
    BY <1>3, <1>4 DEF Commit, Becomes

\* The deletion, or its failure: every key of the item is without an entry, or
\* known to be behind.
LEMMA ClearStep ==
    ASSUME DataInv, NEW j \in Jobs, Clear(j)
    PROVE  DataInv'
<1> DEFINE i == Item(j)
<1>1. job[j].pc = "clear" /\ UNCHANGED <<outside, database, read>>
      /\ job' = [job EXCEPT ![j] = NextItem(j)]
    BY DEF Clear, At, Becomes
<1>2. i \in Items /\ NextItem(j) \in JobType /\ Fresh(NextItem(j))
    BY <1>1, JobFacts DEF DataInv
<1>3. /\ job' \in [Jobs -> JobType] /\ job'[j] = NextItem(j)
      /\ \A k \in Jobs : k # j => job'[k] = job[k]
    BY <1>1, <1>2 DEF DataInv, CollectionTypeOK
<1>4. entries' \in [CacheKeys -> Nat \union {None}]
      /\ \A k \in CacheKeys : entries'[k] # None => entries'[k] = entries[k]
    BY DEF Clear, DataInv, CollectionTypeOK
<1>5. CollectionTypeOK'
    BY <1>1, <1>2, <1>3, <1>4 DEF DataInv, CollectionTypeOK, outside, database, Fresh
<1>6. FillInv'
    BY <1>1, <1>4 DEF DataInv, FillInv
<1>7. EntryNeedsRace'
    <2> SUFFICES ASSUME NEW k \in CacheKeys, entries'[k] # None, FeedOf[k[1]] # "news",
                        Sync(k[1]).replaces, rows[k[1]] # {entries[k]}, k \notin raced'
                 PROVE  \E n \in Jobs : job'[n].pc = "clear" /\ Head(Head(job'[n].groups)) = k[1]
        BY <1>1, <1>4 DEF EntryNeedsRace, At, Item, database
    <2>1. entries[k] # None /\ k \in KeysOf(k[1])
        BY <1>4 DEF DataInv, FillInv
    <2>2. k[1] = i => k \in Cleared(i)
        BY <1>2, <2>1, KeyFacts
    <2>3. k \notin Cleared(i) /\ k \notin raced
        BY DEF Clear
    <2>4. PICK n \in Jobs : job[n].pc = "clear" /\ Head(Head(job[n].groups)) = k[1]
        BY <2>1, <2>3 DEF DataInv, EntryNeedsRace, At, Item
    <2> QED
        BY <1>3, <2>2, <2>3, <2>4 DEF Item
<1>8. MasterInv'
    BY <1>1, <1>2, <1>3 DEF DataInv, MasterInv, CopyInv, outside, Fresh
<1>9. SyncedInv' /\ ListedIsActive'
    BY <1>1 DEF DataInv, SyncedInv, ListedIsActive, outside, database
<1> QED
    BY <1>5, <1>6, <1>7, <1>8, <1>9 DEF DataInv

\* The three steps of a read: only the last writes, and it marks what it writes
\* too late.
LEMMA ReadSteps ==
    ASSUME DataInv, NEW r \in Readers,
           (\E range \in Ranges : LookUp(r, range)) \/ ReadTable(r) \/ Fill(r)
    PROVE  DataInv'
<1>1. UNCHANGED <<outside, database, job>>
    BY DEF LookUp, ReadTable, Fill
<1>2. read[r] \in ReadType /\ rows \in [Items -> SUBSET Nat]
    BY DEF DataInv, CollectionTypeOK
<1>3. ASSUME NEW x \in ReadType, read' = [read EXCEPT ![r] = x],
             x.pc \in {"table", "fill"} =>
               /\ x.item \in Items
               /\ x.key \in CacheKeys /\ x.key[1] = x.item /\ x.key \in KeysOf(x.item),
             x.pc = "fill" => x.got \in x.rows,
             entries' \in [CacheKeys -> Nat \union {None}],
             \A k \in CacheKeys : entries'[k] # None => k \in KeysOf(k[1]),
             EntryNeedsRace'
      PROVE  DataInv'
    <2>1. read' \in [Readers -> ReadType] /\ read'[r] = x
          /\ \A q \in Readers : q # r => read'[q] = read[q]
        BY <1>3 DEF DataInv, CollectionTypeOK
    <2>2. CollectionTypeOK'
        BY <1>1, <1>3, <2>1 DEF DataInv, CollectionTypeOK, outside, database
    <2>3. FillInv'
        BY <1>3, <2>1 DEF DataInv, FillInv
    <2>4. MasterInv' /\ SyncedInv' /\ ListedIsActive'
        BY <1>1 DEF DataInv, MasterInv, CopyInv, SyncedInv, ListedIsActive, outside, database
    <2> QED
        BY <1>3, <2>2, <2>3, <2>4 DEF DataInv
<1>4. ASSUME UNCHANGED redis
      PROVE  /\ entries' \in [CacheKeys -> Nat \union {None}]
             /\ \A k \in CacheKeys : entries'[k] # None => k \in KeysOf(k[1])
             /\ EntryNeedsRace'
    BY <1>1, <1>4 DEF DataInv, CollectionTypeOK, FillInv, EntryNeedsRace, At, Item, redis, database
<1>5. ASSUME NEW range \in Ranges, LookUp(r, range)
      PROVE  DataInv'
    <2> DEFINE key == Key(read[r].item, range)
    <2>1. /\ read[r].pc = "idle" /\ read[r].item # None /\ UNCHANGED redis
        BY <1>5 DEF LookUp
    <2>2. read[r].item \in Items
        BY <1>2, <2>1 DEF ReadType
    <2>3. key \in CacheKeys /\ key[1] = read[r].item /\ key \in KeysOf(read[r].item)
          /\ entries[key] \in Nat \union {None}
        BY <2>2, KeyFacts DEF KeysOf, DataInv, CollectionTypeOK
    <2>4. CASE entries[key] # None /\ read' = [read EXCEPT ![r].got = entries[key]]
        <3> DEFINE x == [read[r] EXCEPT !.got = entries[key]]
        <3>1. x \in ReadType /\ x.pc = "idle" /\ read' = [read EXCEPT ![r] = x]
            BY <1>2, <2>1, <2>3, <2>4 DEF ReadType
        <3> QED
            BY <1>3, <1>4, <2>1, <3>1
    <2>5. CASE read' = [read EXCEPT ![r].pc = "table", ![r].key = key]
        <3> DEFINE x == [read[r] EXCEPT !.pc = "table", !.key = key]
        <3>1. x \in ReadType /\ x.pc = "table" /\ x.key = key /\ x.item = read[r].item
              /\ read' = [read EXCEPT ![r] = x]
            BY <1>2, <2>1, <2>3, <2>5 DEF ReadType
        <3> QED
            BY <1>3, <1>4, <2>1, <2>2, <2>3, <3>1
    <2> QED
        BY <1>5, <2>4, <2>5 DEF LookUp
<1>6. CASE ReadTable(r)
    <2>1. read[r].pc = "table" /\ UNCHANGED redis
        BY <1>6 DEF ReadTable
    <2>2. /\ read[r].item \in Items
          /\ read[r].key \in CacheKeys /\ read[r].key[1] = read[r].item
          /\ read[r].key \in KeysOf(read[r].item)
        BY <2>1 DEF DataInv, FillInv
    <2>3. CASE read' = [read EXCEPT ![r] = [Reading EXCEPT !.item = read[r].item]]
        <3> DEFINE x == [Reading EXCEPT !.item = read[r].item]
        <3>1. x \in ReadType /\ x.pc = "idle"
            BY <2>2 DEF ReadType, Reading
        <3> QED
            BY <1>3, <1>4, <2>1, <2>3, <3>1
    <2>4. ASSUME NEW version \in rows[read[r].item],
                 read' = [read EXCEPT ![r].pc = "fill", ![r].got = version,
                                      ![r].rows = rows[read[r].item]]
          PROVE  DataInv'
        <3> DEFINE x == [read[r] EXCEPT !.pc = "fill", !.got = version,
                                        !.rows = rows[read[r].item]]
        <3>1. rows[read[r].item] \in SUBSET Nat /\ version \in Nat
            BY <1>2, <2>2, <2>4
        <3>2. x \in ReadType /\ x.pc = "fill" /\ x.key = read[r].key /\ x.item = read[r].item
              /\ x.got \in x.rows /\ read' = [read EXCEPT ![r] = x]
            BY <1>2, <2>4, <3>1 DEF ReadType
        <3> QED
            BY <1>3, <1>4, <2>1, <2>2, <3>2
    <2> QED
        BY <1>6, <2>3, <2>4 DEF ReadTable
<1>7. CASE Fill(r)
    <2> DEFINE x == [Reading EXCEPT !.item = read[r].item, !.got = read[r].got]
               key == read[r].key
    <2>1. /\ read[r].pc = "fill" /\ read[r].item \in Items /\ read[r].got \in Nat
          /\ key \in CacheKeys /\ key[1] = read[r].item /\ key \in KeysOf(read[r].item)
          /\ read[r].got \in read[r].rows
        BY <1>2, <1>7 DEF Fill, DataInv, FillInv, ReadType
    <2>2. x \in ReadType /\ x.pc = "idle" /\ read' = [read EXCEPT ![r] = x]
        BY <1>7, <2>1 DEF Fill, ReadType, Reading
    <2>3. CASE UNCHANGED redis
        BY <1>3, <1>4, <2>2, <2>3
    <2>4. CASE /\ entries' = [entries EXCEPT ![key] = read[r].got]
               /\ raced' = IF rows[read[r].item] # read[r].rows THEN raced \union {key}
                                                                 ELSE raced \ {key}
        <3>1. entries' \in [CacheKeys -> Nat \union {None}]
              /\ entries'[key] = read[r].got
              /\ \A k \in CacheKeys : k # key => entries'[k] = entries[k]
            BY <2>1, <2>4 DEF DataInv, CollectionTypeOK
        <3>2. \A k \in CacheKeys : entries'[k] # None => k \in KeysOf(k[1])
            BY <2>1, <3>1 DEF DataInv, FillInv
        <3>3. key \in raced' \/ (Sync(key[1]).replaces => rows[key[1]] = {entries'[key]})
            <4> SUFFICES ASSUME key \notin raced', Sync(key[1]).replaces
                         PROVE  rows[key[1]] = {entries'[key]}
                OBVIOUS
            <4>1. entries'[key] \in rows[key[1]]
                BY <2>1, <2>4, <3>1
            <4> QED
                BY <2>1, <4>1 DEF DataInv, CollectionTypeOK
        <3>4. \A k \in CacheKeys : k # key /\ k \in raced => k \in raced'
            BY <2>4
        <3>5. EntryNeedsRace'
            BY <1>1, <3>1, <3>3, <3>4 DEF DataInv, EntryNeedsRace, At, Item, database
        <3> QED
            BY <1>3, <2>2, <3>1, <3>2, <3>5
    <2> QED
        BY <1>7, <2>3, <2>4 DEF Fill
<1> QED
    BY <1>5, <1>6, <1>7

\* The end of an entry's time.
LEMMA ExpireStep ==
    ASSUME DataInv, NEW key \in CacheKeys, Expire(key)
    PROVE  DataInv'
<1>1. UNCHANGED <<outside, database, job, read>>
      /\ entries' = [entries EXCEPT ![key] = None] /\ raced' = raced \ {key}
    BY DEF Expire
<1>2. CollectionTypeOK'
    BY <1>1 DEF DataInv, CollectionTypeOK, outside, database
<1>3. FillInv'
    BY <1>1 DEF DataInv, FillInv, CollectionTypeOK
<1>4. EntryNeedsRace'
    BY <1>1 DEF DataInv, CollectionTypeOK, EntryNeedsRace, At, Item, database
<1>5. MasterInv' /\ SyncedInv' /\ ListedIsActive'
    BY <1>1 DEF DataInv, MasterInv, CopyInv, SyncedInv, ListedIsActive, outside, database
<1> QED
    BY <1>2, <1>3, <1>4, <1>5 DEF DataInv

\* What is published makes the copies before it old.
LEMMA PublishStep ==
    ASSUME DataInv, NEW i \in Items, Publish(i)
    PROVE  DataInv'
<1>1. /\ UNCHANGED <<database, redis, job, read>>
      /\ source' = [source EXCEPT ![i] = @ + 1]
      /\ FeedOf[i] # "master" => listed' = listed
      /\ listed \subseteq Stocks => listed' \subseteq Stocks
    BY DEF Publish
<1>2. source' \in [Items -> Nat \ {0}] /\ source'[i] = source[i] + 1 /\ source[i] \in Nat
      /\ \A k \in Items : k # i => source'[k] = source[k]
    BY <1>1 DEF DataInv, CollectionTypeOK
<1>3. CollectionTypeOK'
    BY <1>1, <1>2 DEF DataInv, CollectionTypeOK, database, redis
<1>4. FillInv' /\ EntryNeedsRace'
    BY <1>1 DEF DataInv, FillInv, EntryNeedsRace, At, Item, database, redis
<1>5. ASSUME NEW j \in Jobs
      PROVE  CopyInv(job[j])'
    <2>1. CopyInv(job[j]) /\ job[j] \in JobType
        BY DEF DataInv, MasterInv, CollectionTypeOK
    <2>2. CASE job[j].pc \in {"download", "clear", "done"}
        BY <1>1, <2>1, <2>2 DEF CopyInv
    <2>3. CASE job[j].pc \in {"kosdaq", "commit"}
        <3>1. Item(j) \in Items
            BY <2>3, JobFacts DEF DataInv
        <3>2. CASE Item(j) = i
            BY <1>1, <1>2, <2>1, <2>3, <3>2 DEF CopyInv, Item, JobType
        <3>3. CASE Item(j) # i /\ FeedOf[Item(j)] # "master"
            BY <1>1, <2>1, <2>3, <3>3 DEF CopyInv, Item
        <3>4. CASE Item(j) # i /\ FeedOf[Item(j)] = "master"
            <4>1. FeedOf[i] # "master"
                BY <3>1, <3>4, CollectionAssumption
            <4> QED
                BY <1>1, <1>2, <2>1, <2>3, <3>1, <3>4, <4>1 DEF CopyInv, Item
        <3> QED
            BY <3>2, <3>3, <3>4
    <2> QED
        BY <2>1, <2>2, <2>3 DEF JobType, JobPcs
<1>6. MasterInv'
    BY <1>1, <1>5 DEF MasterInv
<1>7. SyncedInv'
    <2>1. synced.version \in Nat /\ \A k \in Items : source[k] \in Nat
        BY DEF DataInv, CollectionTypeOK
    <2> QED
        BY <1>1, <1>2, <2>1 DEF DataInv, SyncedInv, database
<1>8. ListedIsActive'
    <2>1. CASE FeedOf[i] = "master"
        <3>1. synced.version \in Nat /\ synced.version <= source[i]
            BY <2>1 DEF DataInv, SyncedInv, CollectionTypeOK
        <3>2. source'[i] # synced'.version
            BY <1>1, <1>2, <3>1 DEF database
        <3> QED
            BY <2>1, <3>2 DEF ListedIsActive
    <2>2. CASE FeedOf[i] # "master"
        BY <1>1, <1>2, <2>2 DEF DataInv, ListedIsActive, database
    <2> QED
        BY <2>1, <2>2
<1> QED
    BY <1>3, <1>4, <1>6, <1>7, <1>8 DEF DataInv

---------------------------------------------------------------------------
\* Every step keeps the invariant.
LEMMA CollectionNext == CollectionInv /\ [Next]_vars => CollectionInv'
<1> SUFFICES ASSUME CollectionInv, [Next]_vars PROVE CollectionInv'
    OBVIOUS
<1>a. ClientInv /\ DataInv
    BY DEF CollectionInv
<1>1. CASE ClientStep
    <2>1. UNCHANGED <<outside, database, redis, job, read>>
        BY <1>1 DEF ClientStep
    <2>2. CASE Connect \/ Disconnect \/ Revoke \/ ExpireToken
        BY <1>a, <2>2, SessionSteps, <2>1, DataStutter DEF CollectionInv
    <2>3. CASE \E t \in Tasks : RequestStep(t)
        BY <1>a, <2>3, RequestSteps, <2>1, DataStutter DEF CollectionInv
    <2>4. CASE \E t \in Orders : PlaceOrder(t)
        BY <1>a, <2>4, BeginningSteps, <2>1, DataStutter DEF CollectionInv, Tasks
    <2>5. CASE \E t \in Reads \ Jobs : ReadPage(t)
        BY <1>a, <2>5, BeginningSteps, <2>1, DataStutter DEF CollectionInv, Tasks
    <2> QED
        BY <1>1, <2>2, <2>3, <2>4, <2>5 DEF ClientStep
<1>2. ASSUME NEW j \in Jobs, Download(j) \/ DownloadMaster(j) \/ Commit(j) \/ Clear(j)
      PROVE  CollectionInv'
    <2>1. UNCHANGED <<session, request, reached>>
        BY <1>2 DEF Download, DownloadMaster, Commit, Clear
    <2>2. ClientInv'
        BY <1>a, <2>1, ClientStutter DEF session
    <2>3. DataInv'
        BY <1>a, <1>2, DownloadStep, DownloadMasterStep, CommitStep, ClearStep
    <2> QED
        BY <2>2, <2>3 DEF CollectionInv
<1>3. ASSUME NEW r \in Readers,
             (\E range \in Ranges : LookUp(r, range)) \/ ReadTable(r) \/ Fill(r)
      PROVE  CollectionInv'
    <2>1. UNCHANGED <<session, request, reached>>
        BY <1>3 DEF LookUp, ReadTable, Fill, clientVars
    <2>2. ClientInv'
        BY <1>a, <2>1, ClientStutter DEF session
    <2>3. DataInv'
        BY <1>a, <1>3, ReadSteps
    <2> QED
        BY <2>2, <2>3 DEF CollectionInv
<1>4. ASSUME NEW key \in CacheKeys, Expire(key)
      PROVE  CollectionInv'
    BY <1>a, <1>4, ClientStutter, ExpireStep DEF Expire, session, CollectionInv
<1>5. ASSUME NEW i \in Items, Publish(i)
      PROVE  CollectionInv'
    BY <1>a, <1>5, ClientStutter, PublishStep DEF Publish, clientVars, session, CollectionInv
<1>6. CASE UNCHANGED vars
    BY <1>a, <1>6, ClientStutter, DataStutter DEF vars, clientVars, session, CollectionInv
<1> QED
    BY <1>1, <1>2, <1>3, <1>4, <1>5, <1>6, DownloadBarsStep DEF Next

\* The invariant holds in every state.
LEMMA CollectionInvariant == Spec => []CollectionInv
BY CollectionInit, CollectionNext, PTL DEF Spec

\* For any number of orders, reads and collections on one client: an order
\* reaches the exchange at most once and place_order's answer says whether it did
\* (_request, _handle_error).
THEOREM AnswersTrue == Spec => []AnswerMatchesExchange
<1>1. CollectionInv => AnswerMatchesExchange
    BY ClientInvGives DEF CollectionInv
<1> QED
    BY <1>1, CollectionInvariant, PTL

\* However the refreshes of several requests overlap, a caller is told that its
\* token expired only after two different tokens were rejected (_handle_error,
\* KISAuth.refresh_token).
THEOREM RetriesWithNewToken == Spec => []TokenRejectedTwice
<1>1. CollectionInv => TokenRejectedTwice
    BY ClientInvGives DEF CollectionInv
<1> QED
    BY <1>1, CollectionInvariant, PTL

\* A complete copy of the stock master that nothing overtook leaves exactly the
\* listed stocks active, for any set of stocks and of overlapping collections
\* (sync_stock_master).
THEOREM MasterRight == Spec => []ListedIsActive
<1>1. CollectionInv => ListedIsActive
    BY DEF CollectionInv, DataInv
<1> QED
    BY <1>1, CollectionInvariant, PTL

\* Where a sync updates the row, an entry of Redis, but for news, is that row, unless
\* there was a race or a failed deletion, however many collections and reads overlap
\* (the sync and fetch methods, cache.py).
THEOREM CacheBehindNeedsRace == Spec => []EntryNeedsRace
<1>1. CollectionInv => EntryNeedsRace
    BY DEF CollectionInv, DataInv
<1> QED
    BY <1>1, CollectionInvariant, PTL
=============================================================================
