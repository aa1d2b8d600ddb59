----------------------------- MODULE ChainState -----------------------------
(***************************************************************************)
(* How validation.cpp keeps four pieces of state in step across blocks,    *)
(* flushes, write errors and crashes: the block index (mapBlockIndex and   *)
(* pblocktree), the coins (pcoinsTip over pcoinsdbview), the evo database  *)
(* (evoDb) and chainActive.                                                *)
(*                                                                         *)
(* ConnectTip and DisconnectTip change coins and evo database in memory,   *)
(* as one step under cs_main: CoinsCache and EvoDB show that each of them  *)
(* commits as a whole.  What is durable changes only in FlushStateToDisk,  *)
(* one database after the other; each write is a step of its own, so that  *)
(* it can fail or be the last thing the process does.  The content of a    *)
(* database is the set of blocks whose changes it includes.                *)
(***************************************************************************)
EXTENDS BlockHashes

CONSTANTS
    Genesis,
    Parent,      \* pprev of each block
    Ancestors,   \* the blocks of the chain that ends in each block
    Dip3,        \* the blocks for whose pprev DIP0003 is THRESHOLD_ACTIVE
    Faults       \* the kinds of trouble to consider

ASSUME ChainAssumption ==
    /\ Genesis \in Blocks
    /\ NullBlock \notin Blocks
    /\ Parent \in [Blocks -> Blocks \cup {NullBlock}]
    /\ \A b \in Blocks : Parent[b] = NullBlock <=> b = Genesis
    /\ Ancestors \in [Blocks \cup {NullBlock} -> SUBSET Blocks]
    /\ Ancestors[NullBlock] = {}
    /\ \A b \in Blocks : /\ b \notin Ancestors[Parent[b]]
                         /\ Ancestors[b] = Ancestors[Parent[b]] \cup {b}
    /\ Dip3 \subseteq Blocks \ {Genesis}
    /\ \A b \in Blocks : Ancestors[b] \cap Dip3 # {} => b \in Dip3

VARIABLES
    index,      \* mapBlockIndex: nStatus flags of each block, {} when unknown
    dirty,      \* setDirtyBlockIndex
    indexDisk,  \* pblocktree
    tip,        \* chainActive.Tip()
    coins,      \* what lookups through pcoinsTip find: its best block and coins
    coinsDisk,  \* pcoinsdbview
    evo,        \* evoDb's root transaction: the state it amounts to, or Clean
    evoBatch,   \* rootBatch, likewise
    evoDisk,    \* evoDb's leveldb
    phase,      \* "up", at a write of FlushStateToDisk, or "down"
    after,      \* what the caller of FlushStateToDisk does next
    aborted,    \* AbortNode() has requested shutdown, and no further block is started
    cut,        \* history: a process ended between its coins write and its evo write
    threw       \* history: a write of the block index or of the coins threw

indexVars == <<index, dirty, indexDisk>>
coinsVars == <<coins, coinsDisk>>
evoVars == <<evo, evoBatch, evoDisk>>
vars == <<indexVars, tip, coinsVars, evoVars, phase, after, aborted, cut, threw>>

Clean == [none |-> TRUE]
At(b, blocks) == [best |-> b, blocks |-> blocks]
BlockOrNull == Blocks \cup {NullBlock}

\* What lookups through evoDb find.
Evo == IF evo = Clean THEN evoDisk ELSE evo

\* Only blocks with DIP0003 active change the evo database, other than its best block.
EvoAncestors(b) == Ancestors[b] \cap Dip3

\* "Found EvoDB inconsistency, you must reindex to continue": the evo database has
\* no best block although DIP0003 is active.  AbortNode() requests shutdown, but
\* the block is processed, and ActivateBestChainStep may go on to the next one.
EvoMissing(b) == b \in Dip3 /\ Evo.best = NullBlock
-----------------------------------------------------------------------------
Init ==
    /\ index = [b \in Blocks |-> {}]
    /\ dirty = {}
    /\ indexDisk = [b \in Blocks |-> {}]
    /\ tip = NullBlock
    /\ coins = At(NullBlock, {})
    /\ coinsDisk = At(NullBlock, {})
    /\ evo = Clean
    /\ evoBatch = Clean
    /\ evoDisk = At(NullBlock, {})
    /\ phase = "up"
    /\ after = "nothing"
    /\ aborted = FALSE
    /\ cut = FALSE
    /\ threw = FALSE

\* AcceptBlock() of a block that extends the block tree, or InitBlockIndex().
AcceptBlock(b) ==
    /\ phase = "up"
    /\ index[b] = {}
    /\ b # Genesis => index[Parent[b]] # {}
    /\ index' = [index EXCEPT ![b] = {"data"}]
    /\ dirty' = dirty \cup {b}
    /\ UNCHANGED <<indexDisk, tip, coinsVars, evoVars, phase, after, aborted, cut, threw>>

\* The assertions at the start of ConnectBlock and DisconnectBlock: the coins and
\* the evo database, once it has a best block, are at the tip.
AssertionsHold == coins.best = tip /\ Evo.best \in {NullBlock, tip}

\* FlushStateToDisk(FLUSH_STATE_IF_NEEDED) before UpdateTip(): the cache is
\* over its limit, or it is not.
FlushIfNeeded(newTip) ==
    \/ /\ phase' = "index"
       /\ after' = "UpdateTip"
       /\ UNCHANGED tip
    \/ /\ tip' = newTip
       /\ UNCHANGED <<phase, after>>

\* Seeded fault: the block index entry is not marked dirty for its undo position.
WriteUndoNotDirty(b) ==
    /\ index' = IF b = Genesis THEN index ELSE [index EXCEPT ![b] = {"data", "undo"}]
    /\ UNCHANGED dirty

\* ConnectBlock() writes the undo data of a block that has none yet and marks its
\* block index entry dirty; for the genesis block it returns before.
WriteUndo(b) ==
    IF b = Genesis \/ "undo" \in index[b]
    THEN UNCHANGED <<index, dirty>>
    ELSE /\ index' = [index EXCEPT ![b] = {"data", "undo"}]
         /\ dirty' = dirty \cup {b}

\* ConnectTip() of a valid block: ConnectBlock() in a view and an evoDb
\* transaction, both committed, then the flush if one is needed.
ConnectTip(b) ==
    /\ phase = "up" /\ ~aborted /\ AssertionsHold
    /\ "data" \in index[b]
    /\ Parent[b] = tip
    /\ coins' = At(b, coins.blocks \cup {b})
    /\ evo' = IF b = Genesis THEN evo ELSE At(b, Evo.blocks \cup ({b} \cap Dip3))
    /\ WriteUndo(b)
    /\ aborted' \in {FALSE, EvoMissing(b)}
    /\ FlushIfNeeded(b)
    /\ UNCHANGED <<indexDisk, coinsDisk, evoBatch, evoDisk, cut, threw>>

\* Seeded fault: UndoSpecialTxsInBlock is not called.
DisconnectTipEvoKept ==
    /\ phase = "up" /\ ~aborted /\ AssertionsHold
    /\ tip \notin {NullBlock, Genesis}
    /\ "undo" \in index[tip]
    /\ coins' = At(Parent[tip], coins.blocks \ {tip})
    /\ evo' = At(Parent[tip], Evo.blocks)
    /\ aborted' \in {FALSE, EvoMissing(tip)}
    /\ FlushIfNeeded(Parent[tip])
    /\ UNCHANGED <<indexVars, coinsDisk, evoBatch, evoDisk, cut, threw>>

\* DisconnectTip(): DisconnectBlock() needs the undo position of the block.
DisconnectTip ==
    /\ phase = "up" /\ ~aborted /\ AssertionsHold
    /\ tip \notin {NullBlock, Genesis}
    /\ "undo" \in index[tip]
    /\ coins' = At(Parent[tip], coins.blocks \ {tip})
    /\ evo' = At(Parent[tip], Evo.blocks \ {tip})
    /\ aborted' \in {FALSE, EvoMissing(tip)}
    /\ FlushIfNeeded(Parent[tip])
    /\ UNCHANGED <<indexVars, coinsDisk, evoBatch, evoDisk, cut, threw>>

\* A block is connected or disconnected, by VerifyDB or later, and an assertion ends
\* the process.
AssertionFails ==
    /\ phase = "up" /\ ~aborted /\ ~AssertionsHold
    /\ phase' = "down"
    /\ UNCHANGED <<indexVars, tip, coinsVars, evoVars, after, aborted, cut, threw>>
-----------------------------------------------------------------------------
\* FlushStateToDisk(): FLUSH_STATE_PERIODIC and FLUSH_STATE_ALWAYS from outside
\* ConnectTip, and the last flush in Shutdown().
FlushStateToDisk ==
    /\ phase = "up" /\ ~aborted
    /\ phase' = "index"
    /\ after' = "nothing"
    /\ UNCHANGED <<indexVars, tip, coinsVars, evoVars, aborted, cut, threw>>

Shutdown ==
    /\ phase = "up"
    /\ phase' = "index"
    /\ after' = "exit"
    /\ UNCHANGED <<indexVars, tip, coinsVars, evoVars, aborted, cut, threw>>

\* FlushStateToDisk() returns true or false to its caller.
Return(ok) ==
    /\ phase' = IF after = "exit" THEN "down" ELSE "up"
    /\ after' = "nothing"
    /\ tip' = IF ok /\ after = "UpdateTip" THEN coins.best ELSE tip
    /\ aborted' = (aborted \/ ~ok)

Fails(kind) == kind \in Faults /\ Return(FALSE)

\* pblocktree->WriteBatchSync(): a periodic write may stop here, a full flush goes on.
FlushIndex ==
    /\ phase = "index"
    /\ indexDisk' = [b \in Blocks |-> IF b \in dirty THEN index[b] ELSE indexDisk[b]]
    /\ dirty' = {}
    /\ \/ phase' = "coins" /\ UNCHANGED <<after, tip, aborted>>
       \/ after = "nothing" /\ Return(TRUE)
    /\ UNCHANGED <<index, coinsVars, evoVars, cut, threw>>

\* setDirtyBlockIndex is emptied while the batch is built, so a failed write
\* leaves nothing to be written by the next one.
FlushIndexFails ==
    /\ phase = "index"
    /\ Fails("index")
    /\ dirty' = {}
    /\ threw' = TRUE
    /\ UNCHANGED <<index, indexDisk, coinsVars, evoVars, cut>>

\* CheckDiskSpace() before the index write and before the coins write.
OutOfDiskSpace ==
    /\ phase \in {"index", "coins"}
    /\ Fails("space")
    /\ UNCHANGED <<indexVars, coinsVars, evoVars, cut, threw>>

\* pcoinsTip->Flush()
FlushCoins ==
    /\ phase = "coins"
    /\ coinsDisk' = coins
    /\ phase' = "evo"
    /\ UNCHANGED <<indexVars, tip, coins, evoVars, after, aborted, cut, threw>>

\* CCoinsViewDB::BatchWrite() has emptied the cache before the write throws;
\* hashBlock stays.
FlushCoinsFails ==
    /\ phase = "coins"
    /\ Fails("coins")
    /\ coins' = At(coins.best, coinsDisk.blocks)
    /\ threw' = TRUE
    /\ UNCHANGED <<indexVars, coinsDisk, evoVars, cut>>

\* evoDb->CommitRootTransaction(): root into rootBatch, rootBatch into the database.
RootBatch == IF evo = Clean THEN evoBatch ELSE evo

FlushEvo ==
    /\ phase = "evo"
    /\ evoDisk' = IF RootBatch = Clean THEN evoDisk ELSE RootBatch
    /\ evo' = Clean
    /\ evoBatch' = Clean
    /\ Return(TRUE)
    /\ UNCHANGED <<indexVars, coinsVars, cut, threw>>

\* Seeded fault: a rootBatch that could not be written is dropped.
FlushEvoFailsBatchDropped ==
    /\ phase = "evo"
    /\ Fails("evo")
    /\ evo' = Clean
    /\ evoBatch' = Clean
    /\ UNCHANGED <<indexVars, coinsVars, evoDisk, cut, threw>>

\* The write throws: the root transaction is empty, rootBatch is kept.
FlushEvoFails ==
    /\ phase = "evo"
    /\ Fails("evo")
    /\ evo' = Clean
    /\ evoBatch' = RootBatch
    /\ UNCHANGED <<indexVars, coinsVars, evoDisk, cut, threw>>

\* The process dies: all that is not durable is gone.
Crash ==
    /\ "crash" \in Faults
    /\ phase # "down"
    /\ phase' = "down"
    /\ cut' = (cut \/ phase = "evo")
    /\ UNCHANGED <<indexVars, tip, coinsVars, evoVars, after, aborted, threw>>

\* AppInitMain(): open the databases, LoadBlockIndexDB(), and VerifyDB() at the
\* default level, which disconnects the tip in a transaction it rolls back.
LoadedTip == IF coinsDisk.best # NullBlock /\ indexDisk[coinsDisk.best] # {}
             THEN coinsDisk.best ELSE NullBlock

Start ==
    /\ phase = "down"
    /\ index' = indexDisk
    /\ dirty' = {}
    /\ coins' = coinsDisk
    /\ evo' = Clean
    /\ evoBatch' = Clean
    /\ tip' = LoadedTip
    /\ phase' = "up"
    /\ after' = "nothing"
    /\ aborted' = (LoadedTip \in Dip3 /\ evoDisk.best = NullBlock)
    /\ cut' = (cut \/ evoBatch # Clean)
    /\ UNCHANGED <<indexDisk, coinsDisk, evoDisk, threw>>

Next ==
    \/ \E b \in Blocks : AcceptBlock(b)
    \/ \E b \in Blocks : ConnectTip(b)
    \/ DisconnectTip
    \/ AssertionFails
    \/ FlushStateToDisk
    \/ Shutdown
    \/ FlushIndex
    \/ FlushIndexFails
    \/ OutOfDiskSpace
    \/ FlushCoins
    \/ FlushCoinsFails
    \/ FlushEvo
    \/ FlushEvoFails
    \/ Crash
    \/ Start

Spec == Init /\ [][Next]_vars
-----------------------------------------------------------------------------
TypeOK ==
    /\ index \in [Blocks -> SUBSET {"data", "undo"}]
    /\ dirty \subseteq {b \in Blocks : index[b] # {}}
    /\ indexDisk \in [Blocks -> SUBSET {"data", "undo"}]
    /\ tip \in BlockOrNull
    /\ coins \in [best : BlockOrNull, blocks : SUBSET Blocks]
    /\ coinsDisk \in [best : BlockOrNull, blocks : SUBSET Blocks]
    /\ evo \in [best : BlockOrNull, blocks : SUBSET Blocks] \cup {Clean}
    /\ evoBatch \in [best : BlockOrNull, blocks : SUBSET Blocks] \cup {Clean}
    /\ evoDisk \in [best : BlockOrNull, blocks : SUBSET Blocks]
    /\ phase \in {"up", "index", "coins", "evo", "down"}
    /\ after \in {"nothing", "UpdateTip", "exit"}
    /\ aborted \in BOOLEAN
    /\ cut \in BOOLEAN /\ threw \in BOOLEAN

\* The assertion on view.GetBestBlock() with which ConnectBlock and DisconnectBlock
\* start: whenever a block can be connected or disconnected, the coins belong to
\* chainActive.Tip(), whatever flushes and crashes came before.  As the next two, it
\* is promised until a write of the block index or of the coins has thrown: after that
\* the flush in Shutdown() writes from a dirty set or a cache that is already emptied.
CoinsAtTip == ~threw /\ phase = "up" /\ ~aborted => coins.best = tip

CoinsMatch ==
    /\ coins.blocks = Ancestors[coins.best]
    /\ coinsDisk.blocks = Ancestors[coinsDisk.best]

\* "Retrieve the block hash whose state this CCoinsView currently represents"
\* (coins.h): the coins are those of the chain that ends in the best block, in
\* memory and on disk.
CoinsMatchBestBlock == ~threw => CoinsMatch

IndexCovers ==
    \A b \in Ancestors[coinsDisk.best] :
        indexDisk[b] = IF b = Genesis THEN {"data"} ELSE {"data", "undo"}

\* "Flush best chain related state. This can only be done if the blocks / block
\* index write was also done." (FlushStateToDisk): the durable index holds every
\* block of the chain that the durable coins belong to, with its undo position.
IndexCoversCoins == ~threw => IndexCovers

\* Block index, coins and tip stay in step, in memory and on disk.
CoinsInStep == CoinsAtTip /\ CoinsMatchBestBlock /\ IndexCoversCoins

\* The evo database holds the changes of exactly the chain that ends in the best
\* block it records, in every layer and also after errors.
EvoMatchesBestBlock ==
    /\ Evo.blocks = EvoAncestors(Evo.best)
    /\ evoDisk.blocks = EvoAncestors(evoDisk.best)
    /\ evoBatch # Clean => evoBatch.blocks = EvoAncestors(evoBatch.best)

\* "Make sure evodb is consistent. If we already have best block hash saved, the
\* previous block should match it." (VerifyBestBlock): whenever a block can be
\* connected or disconnected, also by VerifyDB at start, the evo database is at
\* the same block as the coins.
VerifyBestBlock == phase = "up" /\ ~aborted => Evo.best \in {NullBlock, coins.best}

\* The same, except when the last flush ended between its two writes.
VerifyBestBlockUnlessCut == ~cut => VerifyBestBlock

\* Outside a flush the coins and evo databases on disk include the same blocks,
\* unless the process ended between the two writes: a failed write of the evo
\* database is made good by the flush in Shutdown(), because rootBatch is kept.
DisksAgree ==
    phase # "evo" /\ evoBatch = Clean /\ ~cut => evoDisk.blocks = EvoAncestors(coinsDisk.best)

\* The evo database stays in step with the coins, in memory and on disk.
EvoInStep == VerifyBestBlockUnlessCut /\ DisksAgree
=============================================================================
