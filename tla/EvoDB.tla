------------------------------- MODULE EvoDB -------------------------------
(***************************************************************************)
(* CEvoDB (evo/evodb.cpp) and the two CDBTransaction layers (dbwrapper.h)  *)
(* it stacks over leveldb: block processing writes into the current        *)
(* transaction, which is committed into the root transaction or rolled     *)
(* back with the block; FlushStateToDisk commits the root transaction into *)
(* rootBatch and writes that.                                              *)
(*                                                                         *)
(* A layer is a partial function of writes and a set of deletes.  All      *)
(* changes are made under cs_main, but Commit() and CommitRootTransaction()*)
(* do not hold CEvoDB::cs, so a thread that only reads can run between any *)
(* two of their steps: the commit of each key is a step of its own.        *)
(***************************************************************************)
EXTENDS EvoValues

VARIABLES
    evoDb,        \* the leveldb database
    rootBatch,    \* rootBatch: the last operation on each key, None for Erase
    root,         \* rootDBTransaction
    cur,          \* curDBTransaction
    inTransaction,  \* a CScopedDBTransaction exists
    commitPhase,  \* "idle", "commit" in cur.Commit(), "batch" in CommitRootTransaction()
    done,         \* the keys cur.Commit() has handed over
    failed        \* a WriteBatch failed: AbortNode() was called

evoDBVars == <<evoDb, rootBatch, root, cur, inTransaction, commitPhase, done, failed>>

AllKeys == Keys \cup {BestKey}
Stored == Values \cup Hashes \cup {Moved}
NoWrites == [k \in {} |-> None]
EmptyLayer == [writes |-> NoWrites, deletes |-> {}]

\* What a read finds in a layer, given what its parent answers.
Through(layer, k, parent) ==
    IF k \in layer.deletes THEN None
    ELSE IF k \in DOMAIN layer.writes THEN layer.writes[k] ELSE parent

\* CEvoDB::Read() and Exists(): the current transaction, the root one, the database.
RootRead(k) == Through(root, k, evoDb[k])
Read(k) == Through(cur, k, RootRead(k))

\* writeImpl(): the key leaves the deletes and enters the writes.
Written(layer, k, v) ==
    [writes |-> [x \in DOMAIN layer.writes \cup {k} |-> IF x = k THEN v ELSE layer.writes[x]],
     deletes |-> layer.deletes \ {k}]

\* Erase(): the key leaves the writes and enters the deletes.
Erased(layer, k) ==
    [writes |-> [x \in DOMAIN layer.writes \ {k} |-> layer.writes[x]],
     deletes |-> layer.deletes \cup {k}]

\* A uint256 has no other state to move, so the best block survives std::move.
MovedFrom(k) == IF k = BestKey THEN cur.writes[k] ELSE Moved
-----------------------------------------------------------------------------
EvoDBInit ==
    /\ evoDb = [k \in AllKeys |-> None]
    /\ rootBatch = NoWrites
    /\ root = EmptyLayer
    /\ cur = EmptyLayer
    /\ inTransaction = FALSE
    /\ commitPhase = "idle"
    /\ done = {}
    /\ failed = FALSE

\* BeginTransaction().  Once AbortNode() was called, ActivateBestChain() starts no
\* further block.
BeginTransaction ==
    /\ ~inTransaction
    /\ commitPhase = "idle"
    /\ ~failed
    /\ inTransaction' = TRUE
    /\ UNCHANGED <<evoDb, rootBatch, root, cur, commitPhase, done, failed>>

Write(k, v) ==
    /\ inTransaction
    /\ commitPhase = "idle"
    /\ cur' = Written(cur, k, v)
    /\ UNCHANGED <<evoDb, rootBatch, root, inTransaction, commitPhase, done, failed>>

Erase(k) ==
    /\ inTransaction
    /\ commitPhase = "idle"
    /\ cur' = Erased(cur, k)
    /\ UNCHANGED <<evoDb, rootBatch, root, inTransaction, commitPhase, done, failed>>

WriteBestBlock(b) == Write(BestKey, b)

\* Rollback(), also from the destructor of the scoped transaction.
Rollback ==
    /\ inTransaction
    /\ commitPhase = "idle"
    /\ inTransaction' = FALSE
    /\ cur' = EmptyLayer
    /\ UNCHANGED <<evoDb, rootBatch, root, commitPhase, done, failed>>

\* Commit() of the current transaction: first every delete ...
CommitBegin ==
    /\ inTransaction
    /\ commitPhase = "idle"
    /\ commitPhase' = "commit"
    /\ UNCHANGED <<evoDb, rootBatch, root, cur, inTransaction, done, failed>>

CommitErase(k) ==
    /\ commitPhase = "commit"
    /\ k \in cur.deletes \ done
    /\ root' = Erased(root, k)
    /\ done' = done \cup {k}
    /\ UNCHANGED <<evoDb, rootBatch, cur, inTransaction, commitPhase, failed>>

\* Seeded fault: a value already moved is handed over again.
CommitWriteTwice(k) ==
    /\ commitPhase = "commit"
    /\ cur.deletes \subseteq done
    /\ k \in DOMAIN cur.writes
    /\ root' = Written(root, k, cur.writes[k])
    /\ cur' = Written(cur, k, MovedFrom(k))
    /\ done' = done \cup {k}
    /\ UNCHANGED <<evoDb, rootBatch, inTransaction, commitPhase, failed>>

\* ... then every write, whose value is moved into the root transaction ...
CommitWrite(k) ==
    /\ commitPhase = "commit"
    /\ cur.deletes \subseteq done
    /\ k \in DOMAIN cur.writes \ done
    /\ root' = Written(root, k, cur.writes[k])
    /\ cur' = Written(cur, k, MovedFrom(k))
    /\ done' = done \cup {k}
    /\ UNCHANGED <<evoDb, rootBatch, inTransaction, commitPhase, failed>>

\* ... then Clear(), which ends the scoped transaction.
CommitEnd ==
    /\ commitPhase = "commit"
    /\ cur.deletes \cup DOMAIN cur.writes \subseteq done
    /\ cur' = EmptyLayer
    /\ inTransaction' = FALSE
    /\ commitPhase' = "idle"
    /\ done' = {}
    /\ UNCHANGED <<evoDb, rootBatch, root, failed>>
-----------------------------------------------------------------------------
\* CommitRootTransaction(): rootDBTransaction.Commit() into rootBatch and Clear().
RootCommit ==
    /\ ~inTransaction
    /\ commitPhase = "idle"
    /\ rootBatch' = [k \in DOMAIN rootBatch \cup DOMAIN root.writes \cup root.deletes |->
                        Through(root, k, rootBatch[k])]
    /\ root' = EmptyLayer
    /\ commitPhase' = "batch"
    /\ UNCHANGED <<evoDb, cur, inTransaction, done, failed>>

\* db.WriteBatch(rootBatch); rootBatch.Clear()
WriteBatch ==
    /\ commitPhase = "batch"
    /\ evoDb' = [k \in AllKeys |-> IF k \in DOMAIN rootBatch THEN rootBatch[k] ELSE evoDb[k]]
    /\ rootBatch' = NoWrites
    /\ commitPhase' = "idle"
    /\ UNCHANGED <<root, cur, inTransaction, done, failed>>

\* Seeded fault: rootBatch is cleared although it was not written.
WriteBatchThrowsCleared ==
    /\ commitPhase = "batch"
    /\ commitPhase' = "idle"
    /\ failed' = TRUE
    /\ rootBatch' = NoWrites
    /\ UNCHANGED <<evoDb, root, cur, inTransaction, done>>

\* WriteBatch() throws dbwrapper_error past rootBatch.Clear(), and
\* FlushStateToDisk() turns it into AbortNode().  The flush during Shutdown()
\* calls CommitRootTransaction() once more.
WriteBatchThrows ==
    /\ commitPhase = "batch"
    /\ commitPhase' = "idle"
    /\ failed' = TRUE
    /\ UNCHANGED <<evoDb, rootBatch, root, cur, inTransaction, done>>

\* The process ends, in any state, and starts again from the database.
EvoDBCrash ==
    /\ rootBatch' = NoWrites
    /\ root' = EmptyLayer
    /\ cur' = EmptyLayer
    /\ inTransaction' = FALSE
    /\ commitPhase' = "idle"
    /\ done' = {}
    /\ failed' = FALSE
    /\ UNCHANGED evoDb

EvoDBNext ==
    \/ BeginTransaction
    \/ \E k \in Keys, v \in Values : Write(k, v)
    \/ \E b \in Hashes : WriteBestBlock(b)
    \/ \E k \in Keys : Erase(k)
    \/ Rollback
    \/ CommitBegin
    \/ \E k \in AllKeys : CommitErase(k)
    \/ \E k \in AllKeys : CommitWrite(k)
    \/ CommitEnd
    \/ RootCommit
    \/ WriteBatch
    \/ WriteBatchThrows
    \/ EvoDBCrash

EvoDBSpec == EvoDBInit /\ [][EvoDBNext]_evoDBVars
-----------------------------------------------------------------------------
\* The keys and values of a layer, and that no key is both written and deleted:
\* otherwise Read(), which looks at the deletes first, and Commit(), which
\* applies them first, would disagree about the key.
LayerOK(layer) ==
    /\ DOMAIN layer.writes \cup layer.deletes \subseteq AllKeys
    /\ \A k \in DOMAIN layer.writes : layer.writes[k] \in Stored
    /\ DOMAIN layer.writes \cap layer.deletes = {}
    /\ BestKey \in DOMAIN layer.writes => layer.writes[BestKey] # Moved

EvoDBTypeOK ==
    /\ evoDb \in [AllKeys -> Stored \cup {None}]
    /\ DOMAIN rootBatch \subseteq AllKeys
    /\ \A k \in DOMAIN rootBatch : rootBatch[k] \in Stored \cup {None}
    /\ LayerOK(root)
    /\ LayerOK(cur)
    /\ inTransaction \in BOOLEAN
    /\ commitPhase \in {"idle", "commit", "batch"}
    /\ done \subseteq DOMAIN cur.writes \cup cur.deletes
    /\ failed \in BOOLEAN

\* assert(dbTx.IsClean()) in BeginTransaction() and assert(curDBTransaction.IsClean())
\* in CommitRootTransaction(): outside a scoped transaction nothing is left over,
\* whichever of commit, rollback, failed write or restart ended the last one.
CleanOutsideTransaction == ~inTransaction => cur = EmptyLayer

\* dbwrapper.h: "Write() can only be called once per KeyValueHolderImpl instance.
\* Commit() clears the write maps, so this ok."  A moved-from value never reaches
\* the root transaction, the batch or the database, and outside Commit() no read
\* finds one.
MovedStaysInCommit ==
    /\ \A k \in AllKeys : RootRead(k) # Moved
    /\ \A k \in DOMAIN rootBatch : rootBatch[k] # Moved
    /\ commitPhase # "commit" => \A k \in AllKeys : Read(k) # Moved

\* The refinement mapping.  A transaction takes effect when its Commit() begins,
\* so during Commit() a key already handed over is looked up in the root layer.
\* rootBatch holds what the root transaction has handed over but not written.
Committed(k) == Through(root, k, IF k \in DOMAIN rootBatch THEN rootBatch[k] ELSE evoDb[k])
Uncommitted(k) == IF k \in done THEN Committed(k) ELSE Through(cur, k, Committed(k))

AsStore(f) == [map |-> [k \in Keys |-> f[k]], best |-> f[BestKey]]
EvoDBPending == AsStore([k \in AllKeys |-> Uncommitted(k)])
EvoDBCurrent == IF commitPhase = "commit" THEN EvoDBPending ELSE AsStore([k \in AllKeys |-> Committed(k)])
EvoDBDurable == AsStore(evoDb)

Store == INSTANCE ChainStore WITH
            Blocks <- Hashes, NullBlock <- None, pending <- EvoDBPending, current <- EvoDBCurrent, durable <- EvoDBDurable,
            open <- inTransaction /\ commitPhase = "idle"

\* The layers implement one map with one best block: a block's transaction is
\* applied as a whole or not at all, the root transaction becomes durable as a
\* whole, also when its first WriteBatch() failed, and a crash goes back to
\* exactly the last durable state.  Only a crash takes committed changes back.
ImplementsEvoStore == Store!Spec /\ [][EvoDBCrash \/ [Store!Step]_(Store!vars)]_evoDBVars
=============================================================================
