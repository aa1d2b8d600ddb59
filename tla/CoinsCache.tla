----------------------------- MODULE CoinsCache -----------------------------
(***************************************************************************)
(* CCoinsViewCache (coins.cpp) stacked twice over CCoinsViewDB (txdb.cpp), *)
(* the way validation.cpp uses it: the global pcoinsTip caches the coin    *)
(* database, and each block is connected or disconnected in a temporary    *)
(* view on top of pcoinsTip which is then flushed into it or dropped.      *)
(*                                                                         *)
(* A cache is a partial function (cacheCoins): the outpoints in its domain *)
(* are the cached ones.  An entry is a coin (Spent for a pruned one) and   *)
(* its flags, a subset of {"DIRTY", "FRESH"}.  All of it runs under        *)
(* cs_main, so each call is one step; a crash may come between any two.    *)
(***************************************************************************)
EXTENDS Integers, FiniteSets, FiniteSetsExt, CoinValues

VARIABLES
    coinsDb,      \* CCoinsViewDB: the coin of each outpoint, Spent when there is none
    dbBest,       \* DB_BEST_BLOCK
    tipCoins,     \* pcoinsTip->cacheCoins
    tipBest,      \* pcoinsTip->hashBlock
    tipUsage,     \* pcoinsTip->cachedCoinsUsage
    viewOpen,     \* a temporary view exists
    view,         \* its cacheCoins
    viewBest,     \* its hashBlock
    viewUsage     \* its cachedCoinsUsage

dbVars == <<coinsDb, dbBest>>
tipVars == <<tipCoins, tipBest, tipUsage>>
viewVars == <<viewOpen, view, viewBest, viewUsage>>
cacheVars == <<dbVars, tipVars, viewVars>>

CoinOrSpent == Coins \cup {Spent}
Flags == {"DIRTY", "FRESH"}
Entry == [coin : CoinOrSpent, flags : SUBSET Flags]
EmptyCache == [o \in {} |-> [coin |-> Spent, flags |-> {}]]

Put(cache, o, e) == [x \in DOMAIN cache \cup {o} |-> IF x = o THEN e ELSE cache[x]]
Drop(cache, o) == [x \in DOMAIN cache \ {o} |-> cache[x]]
Dirty(cache) == {o \in DOMAIN cache : "DIRTY" \in cache[o].flags}

\* A cleared coin owns no memory.
UsageOf(c) == IF c = Spent THEN 0 ELSE Usage[c]

\* What base->GetCoin() finds through each layer.
TipCoin(o) == IF o \in DOMAIN tipCoins THEN tipCoins[o].coin ELSE coinsDb[o]
ViewCoin(o) == IF o \in DOMAIN view THEN view[o].coin ELSE TipCoin(o)

\* GetBestBlock(): a null hash is looked up in the parent.
TipBest == IF tipBest = NullBlock THEN dbBest ELSE tipBest
ViewBest == IF viewBest = NullBlock THEN TipBest ELSE viewBest
-----------------------------------------------------------------------------
CacheInit ==
    /\ coinsDb = [o \in Outpoints |-> Spent]
    /\ dbBest = NullBlock
    /\ tipCoins = EmptyCache
    /\ tipBest = NullBlock
    /\ tipUsage = 0
    /\ viewOpen = FALSE
    /\ view = EmptyCache
    /\ viewBest = NullBlock
    /\ viewUsage = 0

\* FetchCoin() at pcoinsTip: an unspent coin of the database enters the cache
\* without flags.
TipFetches(o) == o \notin DOMAIN tipCoins /\ coinsDb[o] # Spent

FetchTip(o) ==
    IF TipFetches(o)
    THEN /\ tipCoins' = Put(tipCoins, o, [coin |-> coinsDb[o], flags |-> {}])
         /\ tipUsage' = tipUsage + UsageOf(coinsDb[o])
    ELSE UNCHANGED <<tipCoins, tipUsage>>

\* FetchCoin() at the view asks pcoinsTip, which fills its own cache on the way.
\* GetCoin() of a parent never returns a spent coin, so the fetched entry is
\* unspent and clean.
ViewFetches(o) == o \notin DOMAIN view /\ TipCoin(o) # Spent

Fetched(o) == IF ViewFetches(o)
              THEN Put(view, o, [coin |-> TipCoin(o), flags |-> {}])
              ELSE view

FetchedUsage(o) == viewUsage + (IF ViewFetches(o) THEN UsageOf(TipCoin(o)) ELSE 0)

FetchParent(o) == IF o \in DOMAIN view THEN UNCHANGED <<tipCoins, tipUsage>> ELSE FetchTip(o)
-----------------------------------------------------------------------------
\* GetCoin(), HaveCoin() and AccessCoin() on pcoinsTip.
AccessTip(o) ==
    /\ FetchTip(o)
    /\ UNCHANGED <<dbVars, tipBest, viewVars>>

\* pcoinsTip->Uncache(): mempool acceptance drops what it only looked up.
Uncache(o) ==
    /\ ~viewOpen
    /\ o \in DOMAIN tipCoins
    /\ tipCoins[o].flags = {}
    /\ tipCoins' = Drop(tipCoins, o)
    /\ tipUsage' = tipUsage - UsageOf(tipCoins[o].coin)
    /\ UNCHANGED <<dbVars, tipBest, viewVars>>

\* CCoinsViewCache view(pcoinsTip), and the GetBestBlock() assertion with which
\* ConnectBlock and DisconnectBlock start: it loads the best block in both caches.
OpenView ==
    /\ ~viewOpen
    /\ viewOpen' = TRUE
    /\ view' = EmptyCache
    /\ viewUsage' = 0
    /\ tipBest' = TipBest
    /\ viewBest' = TipBest
    /\ UNCHANGED <<dbVars, tipCoins, tipUsage>>

\* HaveCoin(), HaveInputs(), AccessCoin() and GetCoin() on the view.
AccessView(o) ==
    /\ viewOpen
    /\ FetchParent(o)
    /\ view' = Fetched(o)
    /\ viewUsage' = FetchedUsage(o)
    /\ UNCHANGED <<dbVars, tipBest, viewOpen, viewBest>>

Cached(o) == IF o \in DOMAIN view THEN view[o] ELSE [coin |-> Spent, flags |-> {}]

\* Seeded fault: AddCoin() forgets that a DIRTY entry must not become FRESH.
AddedFlagsDirtyIgnored(o, overwrite) ==
    Cached(o).flags \cup {"DIRTY"} \cup (IF ~overwrite THEN {"FRESH"} ELSE {})

\* AddCoin().  Callers set possible_overwrite when an unspent version may exist.
\* The entry becomes FRESH only if it may not overwrite and was not DIRTY.
AddedFlags(o, overwrite) ==
    Cached(o).flags \cup {"DIRTY"}
        \cup (IF ~overwrite /\ "DIRTY" \notin Cached(o).flags THEN {"FRESH"} ELSE {})

\* Seeded fault: AddCoin() does not release the usage of the coin it replaces.
AddCoinUsageLeak(o, c, overwrite) ==
    /\ viewOpen
    /\ overwrite \/ ViewCoin(o) = Spent
    /\ IF c \in Unspendable
       THEN UNCHANGED <<view, viewUsage>>
       ELSE /\ view' = Put(view, o, [coin |-> c, flags |-> AddedFlags(o, overwrite)])
            /\ viewUsage' = viewUsage + UsageOf(c)
    /\ UNCHANGED <<dbVars, tipVars, viewOpen, viewBest>>

AddCoin(o, c, overwrite) ==
    /\ viewOpen
    /\ overwrite \/ ViewCoin(o) = Spent
    /\ IF c \in Unspendable
       THEN UNCHANGED <<view, viewUsage>>
       ELSE /\ view' = Put(view, o, [coin |-> c, flags |-> AddedFlags(o, overwrite)])
            /\ viewUsage' = (viewUsage - UsageOf(Cached(o).coin)) + UsageOf(c)
    /\ UNCHANGED <<dbVars, tipVars, viewOpen, viewBest>>

\* AddCoin() of a coin that an unspent cached entry already holds throws
\* std::logic_error, which unwinds the scope that owns the view.
AddCoinThrows(o) ==
    /\ viewOpen
    /\ Cached(o).coin # Spent
    /\ viewOpen' = FALSE
    /\ view' = EmptyCache
    /\ viewBest' = NullBlock
    /\ viewUsage' = 0
    /\ UNCHANGED <<dbVars, tipVars>>

\* SpendCoin(): a FRESH entry is erased, any other is cleared and marked DIRTY.
SpendCoin(o) ==
    /\ viewOpen
    /\ FetchParent(o)
    /\ LET v == Fetched(o) IN
       IF o \notin DOMAIN v
       THEN UNCHANGED <<view, viewUsage>>
       ELSE /\ view' = IF "FRESH" \in v[o].flags
                       THEN Drop(v, o)
                       ELSE Put(v, o, [coin |-> Spent, flags |-> v[o].flags \cup {"DIRTY"}])
            /\ viewUsage' = FetchedUsage(o) - UsageOf(v[o].coin)
    /\ UNCHANGED <<dbVars, tipBest, viewOpen, viewBest>>

SetBestBlock(b) ==
    /\ viewOpen
    /\ viewBest' = b
    /\ UNCHANGED <<dbVars, tipVars, viewOpen, view, viewUsage>>
-----------------------------------------------------------------------------
\* BatchWrite() of the view's map into pcoinsTip.

\* A DIRTY pruned entry that the parent need not hear of, because it is FRESH
\* in the parent or, when the parent has no entry, in the view.
NotKept ==
    {o \in Dirty(view) : /\ view[o].coin = Spent
                         /\ "FRESH" \in (IF o \in DOMAIN tipCoins THEN tipCoins[o] ELSE view[o]).flags}

\* Seeded fault: BatchWrite copies the child's FRESH flag onto an existing entry.
MergedFlagsFreshCopied(o) ==
    {"DIRTY"} \cup (view[o].flags \cap {"FRESH"})
        \cup (IF o \in DOMAIN tipCoins THEN tipCoins[o].flags ELSE {})

\* FRESH is inherited only by an entry that the parent did not have.
MergedFlags(o) ==
    {"DIRTY"} \cup (IF o \in DOMAIN tipCoins THEN tipCoins[o].flags ELSE view[o].flags \cap {"FRESH"})

BatchWrite ==
    [o \in (DOMAIN tipCoins \cup Dirty(view)) \ NotKept |->
        IF o \in Dirty(view) THEN [coin |-> view[o].coin, flags |-> MergedFlags(o)] ELSE tipCoins[o]]

\* cachedCoinsUsage after the loop: each DIRTY entry releases the parent's old
\* coin, if any, and accounts for the new one unless the entry is not kept.
BatchUsage ==
    tipUsage
      + MapThenSumSet(LAMBDA o : IF o \in NotKept THEN 0 ELSE UsageOf(view[o].coin), Dirty(view))
      - MapThenSumSet(LAMBDA o : UsageOf(tipCoins[o].coin), Dirty(view) \cap DOMAIN tipCoins)

\* view.Flush() and the end of the view's scope.
FlushView ==
    /\ viewOpen
    /\ tipCoins' = BatchWrite
    /\ tipUsage' = BatchUsage
    /\ tipBest' = viewBest
    /\ viewOpen' = FALSE
    /\ view' = EmptyCache
    /\ viewBest' = NullBlock
    /\ viewUsage' = 0
    /\ UNCHANGED dbVars

\* The view goes out of scope unflushed: an invalid block, TestBlockValidity,
\* VerifyDB or a mempool acceptance.
DropView ==
    /\ viewOpen
    /\ viewOpen' = FALSE
    /\ view' = EmptyCache
    /\ viewBest' = NullBlock
    /\ viewUsage' = 0
    /\ UNCHANGED <<dbVars, tipVars>>

\* pcoinsTip->Flush() into CCoinsViewDB::BatchWrite, one leveldb batch.
FlushTip ==
    /\ ~viewOpen
    /\ coinsDb' = [o \in Outpoints |-> IF o \in Dirty(tipCoins) THEN tipCoins[o].coin ELSE coinsDb[o]]
    /\ dbBest' = IF tipBest = NullBlock THEN dbBest ELSE tipBest
    /\ tipCoins' = EmptyCache
    /\ tipUsage' = 0
    /\ UNCHANGED <<tipBest, viewVars>>

\* The process dies and restarts: both caches are gone.
CacheCrash ==
    /\ tipCoins' = EmptyCache
    /\ tipBest' = NullBlock
    /\ tipUsage' = 0
    /\ viewOpen' = FALSE
    /\ view' = EmptyCache
    /\ viewBest' = NullBlock
    /\ viewUsage' = 0
    /\ UNCHANGED dbVars

CacheNext ==
    \/ \E o \in Outpoints : AccessTip(o)
    \/ \E o \in Outpoints : Uncache(o)
    \/ OpenView
    \/ \E o \in Outpoints : AccessView(o)
    \/ \E o \in Outpoints, c \in Coins, overwrite \in BOOLEAN : AddCoin(o, c, overwrite)
    \/ \E o \in Outpoints : AddCoinThrows(o)
    \/ \E o \in Outpoints : SpendCoin(o)
    \/ \E b \in Hashes : SetBestBlock(b)
    \/ FlushView
    \/ DropView
    \/ FlushTip
    \/ CacheCrash

CacheSpec == CacheInit /\ [][CacheNext]_cacheVars
-----------------------------------------------------------------------------
\* The caches map outpoints to entries.
CacheTypeOK ==
    /\ coinsDb \in [Outpoints -> CoinOrSpent]
    /\ dbBest \in Hashes \cup {NullBlock}
    /\ DOMAIN tipCoins \subseteq Outpoints
    /\ \A o \in DOMAIN tipCoins : tipCoins[o] \in Entry
    /\ tipBest \in Hashes \cup {NullBlock}
    /\ viewOpen \in BOOLEAN
    /\ DOMAIN view \subseteq Outpoints
    /\ \A o \in DOMAIN view : view[o] \in Entry
    /\ viewBest \in Hashes \cup {NullBlock}

\* The meaning coins.h gives the flags of pcoinsTip's entries, relative to the
\* database: without DIRTY an entry does not differ from the parent, and FRESH
\* says the parent has no unspent version.
TipFlagsSound ==
    \A o \in DOMAIN tipCoins :
        /\ "DIRTY" \notin tipCoins[o].flags => tipCoins[o].coin = coinsDb[o]
        /\ "FRESH" \in tipCoins[o].flags => coinsDb[o] = Spent

\* The same for the temporary view, relative to what pcoinsTip answers.
ViewFlagsSound ==
    \A o \in DOMAIN view :
        /\ "DIRTY" \notin view[o].flags => view[o].coin = TipCoin(o)
        /\ "FRESH" \in view[o].flags => TipCoin(o) = Spent

\* The flags of both layers are sound, however adds, spends, re-adds, lookups,
\* partial flushes, dropped views and crashes are interleaved.
FlagsSound == TipFlagsSound /\ ViewFlagsSound

\* BatchWrite never meets the state in which it throws "FRESH flag misapplied":
\* a FRESH entry over an unspent entry of the parent cache.
FreshNeverMisapplied ==
    \A o \in Dirty(view) \cap DOMAIN tipCoins :
        "FRESH" \in view[o].flags => tipCoins[o].coin = Spent

\* cachedCoinsUsage, a size_t kept by adding and subtracting in five functions,
\* is exactly the memory of the cached coins in both caches.
UsageExact ==
    /\ tipUsage = MapThenSumSet(LAMBDA o : UsageOf(tipCoins[o].coin), DOMAIN tipCoins)
    /\ viewUsage = MapThenSumSet(LAMBDA o : UsageOf(view[o].coin), DOMAIN view)

CacheCurrent == [map |-> [o \in Outpoints |-> TipCoin(o)], best |-> TipBest]
CachePending == IF viewOpen
           THEN [map |-> [o \in Outpoints |-> ViewCoin(o)], best |-> ViewBest]
           ELSE CacheCurrent
CacheDurable == [map |-> coinsDb, best |-> dbBest]

Utxo == INSTANCE ChainStore WITH
            Keys <- Outpoints, Values <- Coins, None <- Spent, Blocks <- Hashes,
            pending <- CachePending, current <- CacheCurrent, durable <- CacheDurable,
            open <- viewOpen

\* The stack of caches implements one UTXO set: lookups through any layer see
\* the abstract coin, flushing a view or pcoinsTip moves all of its changes and
\* the best block together, and nothing else moves them; only a crash takes the
\* committed state back to the durable one.
ImplementsUtxoSet == Utxo!Spec /\ [][CacheCrash \/ [Utxo!Step]_(Utxo!vars)]_cacheVars
=============================================================================
