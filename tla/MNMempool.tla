----------------------------- MODULE MNMempool ------------------------------
(***************************************************************************)
(* The provider transactions of the mempool (txmempool.cpp): the indexes   *)
(* existsProviderTxConflict looks into when a transaction comes, and what  *)
(* removeForBlock takes out when a block is connected.  It stands on the   *)
(* masternode list of MNList.  Transactions are checked when they come,    *)
(* and blocks, the node's own of its mempool and others' of any            *)
(* transactions, are processed as there.                                   *)
(*                                                                         *)
(* The mempool asks for the list of the chain tip with GetListAtChainTip,  *)
(* which knows of a new tip only once UpdatedBlockTip has told it, after   *)
(* ActivateBestChain has let go of cs_main: transactions and blocks may    *)
(* come before that.  Blocks are not disconnected here.                    *)
(***************************************************************************)
EXTENDS MNList, FiniteSets

CONSTANTS
    MaxPool,        \* bound: transactions in the mempool
    MaxOthers       \* bound: transactions in a block that is not the node's own

VARIABLES
    pool,           \* mapTx: the entries of provider transactions, and of transactions
                    \* that spend a collateral
    byAddr, byOwner, byOp, byColl,
                    \* mapProTxAddresses, mapProTxPubKeyIDs, mapProTxBlsPubKeyHashes and
                    \* mapProTxCollaterals
    tipList,        \* GetListAtChainTip()
    block,          \* the transactions of the block so far
    own,            \* they are all from the mempool
    excused         \* history: transactions that removeForBlock may leave behind invalid:
                    \* registrations whose collateral was spent, updates of a masternode
                    \* that a registration has replaced, and updates that came, or whose
                    \* masternode went, before UpdatedBlockTip told of the last block

poolVars == <<pool, byAddr, byOwner, byOp, byColl>>
allVars == <<vars, poolVars, tipList, block, own, excused>>

-----------------------------------------------------------------------------
\* A transaction: "reg" registers id, "serv", "upreg" and "rev" update or revoke it, and
\* "spend" spends coll.  "serv" and "rev" are signed with the operator key signer.
NoTx == [kind |-> "none", id |-> Null, coll |-> Null, owner |-> Null, op |-> Null, addr |-> Null,
         signer |-> Null]
Reg(id, c, o, k, a) ==
    [NoTx EXCEPT !.kind = "reg", !.id = id, !.coll = c, !.owner = o, !.op = k, !.addr = a]
Serv(id, a, k) == [NoTx EXCEPT !.kind = "serv", !.id = id, !.addr = a, !.signer = k]
UpReg(id, k) == [NoTx EXCEPT !.kind = "upreg", !.id = id, !.op = k]
Rev(id, k) == [NoTx EXCEPT !.kind = "rev", !.id = id, !.signer = k]
Spend(c) == [NoTx EXCEPT !.kind = "spend", !.coll = c]

Update == {"serv", "upreg", "rev"}
Tx == {Reg(id, c, o, k, a) : id \in Nodes, c \in Collaterals, o \in Owners, k \in Operators,
                             a \in Addrs \cup {Null}}
      \cup {Serv(id, a, k) : id \in Nodes, a \in Addrs, k \in Operators}
      \cup {UpReg(id, k) : id \in Nodes, k \in Operators}
      \cup {Rev(id, k) : id \in Nodes, k \in Operators}
      \cup {Spend(c) : c \in Collaterals}

Signed(tx) == tx.kind \in {"serv", "rev"} => prev.mns[tx.id].op = tx.signer

\* CheckSpecialTx against the block's parent, and the inputs of a spending transaction.
Check(tx) ==
    /\ tx.kind = "reg" => CheckProRegTx(tx.coll, tx.owner, tx.op, tx.addr)
    /\ tx.kind = "serv" => CheckProUpServTx(tx.id, tx.addr)
    /\ tx.kind = "upreg" => CheckProUpRegTx(tx.id, tx.op)
    /\ tx.kind = "rev" => CheckProUpRevTx(tx.id)
    /\ tx.kind = "spend" => tx.coll \in utxo
    /\ Signed(tx)

-----------------------------------------------------------------------------
Txs == {e.tx : e \in pool}

\* A registration's hash says what it registers.
Misnamed(tx) == tx.kind = "reg" /\ \E other \in Txs \ {tx} : other.kind = "reg" /\ other.id = tx.id

\* mapProTxRefs.  A registration's own entry names its collateral's transaction, which
\* is not in the mempool and is passed over.
Refs(id) == {e \in pool : e.tx.kind \in Update /\ e.tx.id = id}

\* What a transaction claims in the indexes: a registration without an address claims
\* the unset one.
AddrOf(tx) == IF tx.kind \in {"reg", "serv"} THEN {tx.addr} ELSE {}
OpOf(tx) == IF tx.kind \in {"reg", "upreg"} THEN {tx.op} ELSE {}
OwnerOf(tx) == IF tx.kind = "reg" THEN {tx.owner} ELSE {}
CollOf(tx) == IF tx.kind = "reg" THEN {tx.coll} ELSE {}

\* Seeded fault: only revocations count as a change of the key.
HasKeyChangeInMempoolRevoked(id) == \E e \in Refs(id) : e.tx.kind = "rev" /\ e.keyChange

HasKeyChangeInMempool(id) == \E e \in Refs(id) : e.keyChange
TipKey(tx) == tipList.mns[tx.id].op

\* An index gives the hash of the transaction, and a masternode's proTxHash is its registration's.
TakenByOther(tx, id) == tx # NoTx /\ ~(tx.kind = "reg" /\ tx.id = id)

\* Seeded fault: an update may claim an operator key that is claimed already.
ExistsProviderTxConflictKeyShared(tx) ==
    \/ /\ tx.kind = "reg"
       /\ \/ NoTx # byAddr[tx.addr] \/ NoTx # byOwner[tx.owner] \/ NoTx # byOp[tx.op]
          \/ NoTx # byColl[tx.coll] \/ Spend(tx.coll) \in Txs
    \/ tx.kind = "serv" /\ TakenByOther(byAddr[tx.addr], tx.id)
    \/ tx.kind \in {"upreg", "rev"} /\ ~HasMN(tipList, tx.id)
    \/ tx.kind \in {"upreg", "rev"} /\ TipKey(tx) # tx.op /\ HasKeyChangeInMempool(tx.id)

ExistsProviderTxConflict(tx) ==
    \/ /\ tx.kind = "reg"
       /\ \/ NoTx # byAddr[tx.addr] \/ NoTx # byOwner[tx.owner] \/ NoTx # byOp[tx.op]
          \/ NoTx # byColl[tx.coll] \/ Spend(tx.coll) \in Txs
    \/ tx.kind = "serv" /\ TakenByOther(byAddr[tx.addr], tx.id)
    \/ tx.kind \in {"upreg", "rev"} /\ ~HasMN(tipList, tx.id)
    \/ tx.kind \in {"upreg", "rev"} /\ TipKey(tx) # tx.op /\ HasKeyChangeInMempool(tx.id)
    \/ tx.kind = "upreg" /\ TakenByOther(byOp[tx.op], tx.id)

\* emplace() keeps the entry that is there, erase() goes by the key alone.
Emplace(f, X, tx) == [x \in DOMAIN f |-> IF x \in X /\ f[x] = NoTx THEN tx ELSE f[x]]
Erase(f, X) == [x \in DOMAIN f |-> IF x \in X THEN NoTx ELSE f[x]]

RemoveUnchecked(E) ==
    /\ pool' = pool \ E
    /\ byAddr' = Erase(byAddr, UNION {AddrOf(e.tx) : e \in E})
    /\ byOwner' = Erase(byOwner, UNION {OwnerOf(e.tx) : e \in E})
    /\ byOp' = Erase(byOp, UNION {OpOf(e.tx) : e \in E})
    /\ byColl' = Erase(byColl, UNION {CollOf(e.tx) : e \in E})

-----------------------------------------------------------------------------
Between == phase = "txs" /\ block = {}

\* AcceptToMemoryPool and addUnchecked, which notes the operator key of the chain tip and
\* whether the transaction changes it.
AcceptToMemoryPool(tx) ==
    LET keyed == tx.kind \in {"upreg", "rev"}
    IN  /\ Between
        /\ tx \notin Txs /\ ~Misnamed(tx)
        /\ tx.kind = "reg" => tx.id \notin registered
        /\ Check(tx)
        /\ ~ExistsProviderTxConflict(tx)
        /\ pool' = pool \cup {[tx |-> tx, validFor |-> IF keyed THEN {TipKey(tx)} ELSE {},
                               keyChange |-> keyed /\ TipKey(tx) # tx.op]}
        /\ byAddr' = Emplace(byAddr, AddrOf(tx), tx)
        /\ byOwner' = Emplace(byOwner, OwnerOf(tx), tx)
        /\ byOp' = Emplace(byOp, OpOf(tx), tx)
        /\ byColl' = Emplace(byColl, CollOf(tx), tx)
        /\ excused' = excused \cup {x \in {tx} : keyed /\ TipKey(tx) # prev.mns[tx.id].op}
        /\ UNCHANGED <<vars, tipList, block, own>>

\* TrimToSize and Expire.
Evict(e) ==
    /\ Between
    /\ RemoveUnchecked({e})
    /\ excused' = excused \ {e.tx}
    /\ UNCHANGED <<vars, tipList, block, own>>

-----------------------------------------------------------------------------
\* The next transaction of a block is processed, or the block is refused.
Process(tx) ==
    \/ tx.kind = "reg" /\ ProRegTx(tx.id, tx.coll, tx.owner, tx.op, tx.addr)
    \/ tx.kind = "serv" /\ ProUpServTx(tx.id, tx.addr)
    \/ tx.kind = "upreg" /\ ProUpRegTx(tx.id, tx.op)
    \/ tx.kind = "rev" /\ ProUpRevTx(tx.id)
    \/ tx.kind = "spend" /\ SpendCollateral(tx.coll)

BlockTx(tx) ==
    LET refused == tx.kind # "spend" /\ txs' = 0
    IN  /\ tx \notin block
        /\ ~Misnamed(tx)
        /\ Signed(tx)
        /\ Process(tx) /\ ~fromMempool'
        /\ block' = IF refused THEN {} ELSE block \cup {tx}
        /\ own' = (refused \/ (own /\ tx \in Txs))
        /\ own' \/ Cardinality(block') <= MaxOthers
        /\ UNCHANGED <<poolVars, tipList, excused>>

\* Seeded fault: transactions that were valid for another operator key stay.
ConflictsKeyKept(tx) ==
    {e \in pool :
        \/ tx.kind = "spend" /\ e.tx.kind \in Update /\ tipList.mns[e.tx.id].coll = tx.coll
        \/ \E a \in AddrOf(tx) : byAddr[a] = e.tx
        \/ \E o \in OwnerOf(tx) : byOwner[o] = e.tx
        \/ \E k \in OpOf(tx) : byOp[k] = e.tx
        \/ \E c \in CollOf(tx) : byColl[c] = e.tx}

\* What removeProTxConflicts takes out for the transaction tx of a block: the referers of
\* a masternode whose collateral is spent, the claims of the same address, keys or
\* collateral, and what was valid for another operator key.
Conflicts(tx) ==
    {e \in pool :
        \/ tx.kind = "spend" /\ e.tx.kind \in Update /\ tipList.mns[e.tx.id].coll = tx.coll
        \/ \E a \in AddrOf(tx) : byAddr[a] = e.tx
        \/ \E o \in OwnerOf(tx) : byOwner[o] = e.tx
        \/ \E k \in OpOf(tx) : byOp[k] = e.tx
        \/ \E c \in CollOf(tx) : byColl[c] = e.tx
        \/ tx.kind \in {"upreg", "rev"} /\ e \in Refs(tx.id) /\ e.validFor # {tx.op}}

\* ConnectTip: the block's list, and removeForBlock.  A registration stays when its
\* collateral is spent: its entry in mapProTxRefs does not lead to it.
ConnectTip ==
    LET gone == {e \in pool : e.tx \in block} \cup UNION {Conflicts(tx) : tx \in block}
    IN  /\ block # {}
        /\ ConnectBlock /\ ~fromMempool'
        /\ RemoveUnchecked(gone)
        /\ block' = {} /\ own' = TRUE
        /\ excused' = {tx \in {e.tx : e \in pool \ gone} :
                         \/ tx \in excused
                         \/ tx.kind = "reg" /\ tx.coll \notin utxo
                         \/ tx.kind \in Update /\ HasMN(prev, tx.id) /\ ~HasMN(new, tx.id)
                            /\ (prev.mns[tx.id].coll \in utxo \/ tipList # prev)}
        /\ UNCHANGED tipList

UpdatedBlockTip ==
    /\ Between
    /\ tipList # prev
    /\ tipList' = prev
    /\ UNCHANGED <<vars, poolVars, block, own, excused>>

PoolInit ==
    /\ Init /\ ~fromMempool
    /\ pool = {} /\ block = {} /\ own = TRUE /\ excused = {}
    /\ tipList = prev
    /\ byAddr = [a \in Addrs \cup {Null} |-> NoTx] /\ byOwner = [o \in Owners |-> NoTx]
    /\ byOp = [k \in Operators |-> NoTx] /\ byColl = [c \in Collaterals |-> NoTx]

PoolNext ==
    \/ \E tx \in Tx : Cardinality(pool) < MaxPool /\ AcceptToMemoryPool(tx)
    \/ \E e \in pool : Evict(e)
    \/ \E tx \in Tx : BlockTx(tx)
    \/ ConnectTip
    \/ UpdatedBlockTip

PoolSpec == PoolInit /\ [][PoolNext]_allVars

-----------------------------------------------------------------------------
\* A transaction in the mempool passes CheckSpecialTx on top of every block that is
\* connected while it is there, whoever mined the block: removeForBlock takes out all
\* that the block makes invalid, the excused ones apart.
PoolStaysValid == Between => \A tx \in Txs \ excused : Check(tx)

\* BuildNewListFromBlock refuses the transaction tx on top of the block so far.
Refused(tx) ==
    LET l == Replaced(new, tx.coll)
    IN  \/ tx.kind = "reg" /\ \E v \in {tx.addr, tx.owner, tx.op} : HasUniqueProperty(l, v)
        \/ tx.kind \in Update /\ ~HasMN(new, tx.id)
        \/ tx.kind = "serv" /\ OwnedByOther(new, tx.addr, tx.id)

\* A block of the mempool's valid transactions, in whatever order they come, fails no
\* assertion of the list operations and is not refused by BuildNewListFromBlock, unless
\* it updates a masternode that an earlier transaction of the block has replaced.  It is
\* what MNList assumes of a block that comes from a mempool.
OwnBlocksProcess ==
    own => /\ new.bad = {}
           /\ phase = "txs" => \A tx \in Txs \ block : Check(tx) /\ Refused(tx) =>
                 tx.kind \in Update /\ \E reg \in block : reg.kind = "reg" /\ reg.coll = prev.mns[tx.id].coll

\* The mempool holds one change of a masternode's operator key at most, even when blocks
\* change the key that the others were accepted with.
OneKeyChange ==
    \A id \in Nodes :
        LET changes == {e.tx : e \in Refs(id)} \cap {tx \in Txs : tx.kind # "serv" /\ tx.op # prev.mns[id].op}
        IN  Cardinality(changes) <= 1 \/ changes \cap excused # {}
=============================================================================
