------------------------------- MODULE MNList -------------------------------
(***************************************************************************)
(* CDeterministicMNList and BuildNewListFromBlock (evo/deterministicmns)   *)
(* with the checks of the provider transactions (evo/providertx.cpp): the  *)
(* masternode list of a block is built from the previous block's, one      *)
(* transaction after the other, and collaterals, addresses, owner keys and *)
(* operator keys stay unique.                                              *)
(*                                                                         *)
(* Each transaction is checked twice, against the previous block's list    *)
(* (CheckSpecialTx) and against the list under construction.  A failed     *)
(* assertion of a list operation ends the program.  Penalties, bans and    *)
(* payments are in MNPayments, the lists kept for past blocks in           *)
(* MNListCache.                                                            *)
(***************************************************************************)
EXTENDS Naturals

CONSTANTS
    Nodes,          \* proTxHash: the hashes of the registration transactions
    Collaterals, Owners, Operators, Addrs,
    Null,           \* an unset key or address
    MaxTxs          \* bound: provider transactions in a block

Props == Collaterals \cup Owners \cup Operators \cup Addrs

\* SerializeHash() tells properties of different types apart.
ASSUME PropsAssumption ==
    /\ Null \notin Props \cup Nodes
    /\ Collaterals \cap (Owners \cup Operators \cup Addrs) = {}
    /\ Owners \cap (Operators \cup Addrs) = {}
    /\ Operators \cap Addrs = {}
    /\ Nodes \cap Props = {}
    /\ MaxTxs \in Nat

VARIABLES
    prev,       \* the list of the previous block
    new,        \* newList
    utxo,       \* the collaterals unspent at the previous block, less those spent so far
    registered, \* the registrations mined so far
    claimed,    \* keys, addresses and collaterals claimed by the block's transactions, and the
                \* block's registrations
    changed,    \* masternodes whose operator key the block's transactions change
    txs,        \* transactions processed
    phase,      \* "txs", "spends" (the loop over the spent coins) or "crashed"
    fromMempool \* the block holds only transactions of one node's mempool

vars == <<prev, new, utxo, registered, claimed, changed, txs, phase, fromMempool>>

NoMN == [coll |-> Null, owner |-> Null, op |-> Null, addr |-> Null]
NoEntry == [mn |-> Null, n |-> 0]

\* A list: mnMap, mnUniquePropertyMap, and the masternodes and properties on which
\* an assertion of a list operation has failed.
MN == [coll : Collaterals, owner : Owners, op : Operators \cup {Null}, addr : Addrs \cup {Null}]
Entry == [mn : Nodes \cup {Null}, n : Nat]
List == [mns : [Nodes -> MN \cup {NoMN}], unique : [Props -> Entry], bad : SUBSET (Nodes \cup Props)]

EmptyList == [mns |-> [id \in Nodes |-> NoMN], unique |-> [v \in Props |-> NoEntry], bad |-> {}]

PropsOf(mn) == {mn.coll, mn.owner, mn.op, mn.addr} \ {Null}
HasMN(l, id) == l.mns[id] # NoMN
HasUniqueProperty(l, v) == v # Null /\ l.unique[v] # NoEntry
OwnedByOther(l, v, id) == HasUniqueProperty(l, v) /\ l.unique[v].mn # id

-----------------------------------------------------------------------------
FailsUnless(l, ok, x) == IF ok THEN l.bad ELSE l.bad \cup {x}

AddUniqueProperty(l, id, v) ==
    IF v = Null THEN l
    ELSE [l EXCEPT !.bad = FailsUnless(l, l.unique[v].mn \in {Null, id}, v),
                   !.unique[v] = [mn |-> id, n |-> @.n + 1]]

DeleteUniqueProperty(l, id, v) ==
    IF v = Null THEN l
    ELSE [l EXCEPT !.bad = FailsUnless(l, l.unique[v].mn = id, v),
                   !.unique[v] = IF @.n = 1 THEN NoEntry ELSE [mn |-> id, n |-> @.n - 1]]

\* Seeded fault: the old value keeps its entry.
UpdateUniquePropertyKeepsOld(l, id, old, val) ==
    IF old = val THEN l ELSE AddUniqueProperty(l, id, val)

UpdateUniqueProperty(l, id, old, val) ==
    IF old = val THEN l ELSE AddUniqueProperty(DeleteUniqueProperty(l, id, old), id, val)

\* mnMap.set() and mnMap.erase(), after an assertion about the masternode.
SetMN(l, id, mn, ok) ==
    [mns |-> [l.mns EXCEPT ![id] = mn], unique |-> l.unique, bad |-> FailsUnless(l, ok, id)]

AddMN(l, id, mn) ==
    LET l1 == SetMN(l, id, mn, ~HasMN(l, id))
        l2 == AddUniqueProperty(l1, id, mn.coll)
        l3 == AddUniqueProperty(l2, id, mn.addr)
        l4 == AddUniqueProperty(l3, id, mn.owner)
    IN  AddUniqueProperty(l4, id, mn.op)

UpdateMN(l, id, mn) ==
    LET old == l.mns[id]
        l1 == SetMN(l, id, mn, HasMN(l, id))
        l2 == UpdateUniqueProperty(l1, id, old.addr, mn.addr)
        l3 == UpdateUniqueProperty(l2, id, old.owner, mn.owner)
    IN  UpdateUniqueProperty(l3, id, old.op, mn.op)

RemoveMN(l, id) ==
    LET mn == l.mns[id]
        l1 == SetMN(l, id, NoMN, HasMN(l, id))
        l2 == DeleteUniqueProperty(l1, id, mn.coll)
        l3 == DeleteUniqueProperty(l2, id, mn.addr)
        l4 == DeleteUniqueProperty(l3, id, mn.owner)
    IN  DeleteUniqueProperty(l4, id, mn.op)

-----------------------------------------------------------------------------
\* The checks of CheckSpecialTx() that read the previous block's list and coins.

\* GetUTXOCoin() and validateCollateral(): Collaterals are outpoints of an amount that
\* the height allows.  A collateral inside the registration itself has a null hash
\* here, which validateCollateral() does not find: it is always refused.
ValidCollateral(c) == c \in utxo

\* An address may be taken over from the masternode the registration replaces.
CheckProRegTx(c, o, k, a) ==
    /\ ValidCollateral(c)
    /\ HasUniqueProperty(prev, a) => prev.mns[prev.unique[a].mn].coll = c
    /\ ~HasUniqueProperty(prev, o) /\ ~HasUniqueProperty(prev, k)

\* The signature is verified with the operator key, which a revoked masternode lacks.
CheckProUpServTx(id, a) ==
    HasMN(prev, id) /\ ~OwnedByOther(prev, a, id) /\ prev.mns[id].op # Null

\* Seeded fault: operator keys of the previous block's list may be taken.
CheckProUpRegTxAnyKey(id, k) == HasMN(prev, id) /\ prev.mns[id].coll \in utxo

CheckProUpRegTx(id, k) ==
    HasMN(prev, id) /\ prev.mns[id].coll \in utxo /\ ~OwnedByOther(prev, k, id)

CheckProUpRevTx(id) == HasMN(prev, id) /\ prev.mns[id].op # Null

\* existsProviderTxConflict(): two transactions of one mempool claim nothing twice,
\* and change the operator key of a masternode at most once.
NoConflict(claims, keyChange) ==
    fromMempool => claims \cap claimed = {} /\ keyChange \cap changed = {}

-----------------------------------------------------------------------------
InBlock == phase = "txs" /\ txs < MaxTxs

\* The next transaction of the block leads to the list l, or an assertion fails.
Processed(l, claims, keyChange) ==
    /\ new' = l
    /\ phase' = IF l.bad = {} THEN phase ELSE "crashed"
    /\ claimed' = claimed \cup claims
    /\ changed' = changed \cup keyChange
    /\ txs' = txs + 1
    /\ UNCHANGED <<prev, utxo, fromMempool>>

\* The block is invalid; the next one builds on the same list.
Rejected ==
    /\ new' = prev
    /\ registered' = registered \ claimed
    /\ claimed' = {} /\ changed' = {} /\ txs' = 0 /\ fromMempool' \in BOOLEAN
    /\ UNCHANGED <<prev, utxo, phase>>

\* The masternode with the same collateral, if any, is replaced.
Replaced(l, c) == IF HasUniqueProperty(l, c) THEN RemoveMN(l, l.unique[c].mn) ELSE l

ProRegTx(id, c, o, k, a) ==
    LET l == Replaced(new, c)
        claims == {id, c, o, k, a} \ {Null}
    IN  /\ InBlock
        /\ id \notin registered
        /\ CheckProRegTx(c, o, k, a)
        /\ NoConflict(claims, {})
        /\ IF HasUniqueProperty(l, a) \/ HasUniqueProperty(l, o) \/ HasUniqueProperty(l, k)
           THEN Rejected
           ELSE /\ Processed(AddMN(l, id, [coll |-> c, owner |-> o, op |-> k, addr |-> a]),
                             claims, {})
                /\ registered' = registered \cup {id}

ProUpServTx(id, a) ==
    /\ InBlock
    /\ CheckProUpServTx(id, a)
    /\ NoConflict({a}, {})
    /\ IF OwnedByOther(new, a, id) \/ ~HasMN(new, id)
       THEN Rejected
       ELSE /\ Processed(UpdateMN(new, id, [new.mns[id] EXCEPT !.addr = a]), {a}, {})
            /\ UNCHANGED registered

\* A new operator key resets the operator's address.
WithOperator(mn, k) == [mn EXCEPT !.op = k, !.addr = IF mn.op = k THEN @ ELSE Null]

KeyChange(id, k) == IF prev.mns[id].op # k THEN {id} ELSE {}

ProUpRegTx(id, k) ==
    /\ InBlock
    /\ CheckProUpRegTx(id, k)
    /\ NoConflict({k}, KeyChange(id, k))
    /\ IF ~HasMN(new, id)
       THEN Rejected
       ELSE /\ Processed(UpdateMN(new, id, WithOperator(new.mns[id], k)), {k}, KeyChange(id, k))
            /\ UNCHANGED registered

ProUpRevTx(id) ==
    /\ InBlock
    /\ CheckProUpRevTx(id)
    /\ NoConflict({}, KeyChange(id, Null))
    /\ IF ~HasMN(new, id)
       THEN Rejected
       ELSE /\ Processed(UpdateMN(new, id, [new.mns[id] EXCEPT !.op = Null, !.addr = Null]),
                         {}, KeyChange(id, Null))
            /\ UNCHANGED registered

\* The second loop over the block: a transaction spends the collateral c, and the
\* masternode it backs, if any, leaves the list.
SpendCollateral(c) ==
    LET l == Replaced(new, c)
    IN  /\ phase \in {"txs", "spends"}
        /\ c \in utxo
        /\ new' = l
        /\ phase' = IF l.bad = {} THEN "spends" ELSE "crashed"
        /\ utxo' = utxo \ {c}
        /\ UNCHANGED <<prev, registered, claimed, changed, txs, fromMempool>>

\* The block is connected: its list is the next block's previous list.
ConnectBlock ==
    /\ phase \in {"txs", "spends"}
    /\ prev' = new
    /\ claimed' = {} /\ changed' = {} /\ txs' = 0 /\ phase' = "txs"
    /\ fromMempool' \in BOOLEAN
    /\ UNCHANGED <<new, utxo, registered>>

Init ==
    /\ prev = EmptyList /\ new = EmptyList
    /\ utxo = Collaterals /\ registered = {}
    /\ claimed = {} /\ changed = {} /\ txs = 0 /\ phase = "txs"
    /\ fromMempool \in BOOLEAN

Next ==
    \/ \E id \in Nodes, c \in Collaterals, o \in Owners, k \in Operators, a \in Addrs \cup {Null} :
          ProRegTx(id, c, o, k, a)
    \/ \E id \in Nodes, a \in Addrs : ProUpServTx(id, a)
    \/ \E id \in Nodes, k \in Operators : ProUpRegTx(id, k)
    \/ \E id \in Nodes : ProUpRevTx(id)
    \/ \E c \in Collaterals : SpendCollateral(c)
    \/ ConnectBlock

Spec == Init /\ [][Next]_vars

-----------------------------------------------------------------------------
TypeOK ==
    /\ prev \in List /\ new \in List
    /\ utxo \subseteq Collaterals /\ registered \subseteq Nodes
    /\ claimed \subseteq Props \cup Nodes /\ changed \subseteq Nodes
    /\ txs \in Nat
    /\ phase \in {"txs", "spends", "crashed"}
    /\ fromMempool \in BOOLEAN

\* mnUniquePropertyMap is what mnMap says it should be: each key, address and
\* collateral of a masternode has one entry, counted once, that names this
\* masternode, and there are no other entries.  So no two masternodes share one.
UniqueMatches(l) ==
    /\ \A id \in Nodes : \A v \in PropsOf(l.mns[id]) : l.unique[v] = [mn |-> id, n |-> 1]
    /\ \A v \in Props : l.unique[v] # NoEntry => \E id \in Nodes : v \in PropsOf(l.mns[id])

UniqueMapMatches == UniqueMatches(prev) /\ (phase # "crashed" => UniqueMatches(new))

\* In a block of one mempool's transactions the assertions of AddUniqueProperty(),
\* DeleteUniqueProperty(), AddMN(), UpdateMN() and RemoveMN() hold in whatever order
\* the transactions come, and whatever blocks of others came before.
NoAssertionFails == fromMempool => new.bad = {}

\* An assertion can only fail on an operator key: addresses, owner keys, collaterals
\* and the masternodes themselves are checked against the list under construction.
OnlyOperatorKeysClash == new.bad \subseteq Operators

\* A masternode in the list of a block has an unspent collateral ("this should never
\* happen (there would be no dmn otherwise)" in CheckProUpRegTx).
CollateralsUnspent ==
    /\ \A id \in Nodes : HasMN(new, id) => new.mns[id].coll \in utxo
    /\ phase = "txs" => \A id \in Nodes : HasMN(prev, id) => prev.mns[id].coll \in utxo

\* The list is what its indexes and the coins say: the unique property map is exact, and
\* no masternode outlives its collateral.
ListSound == UniqueMapMatches /\ CollateralsUnspent

\* Assertions of the list operations fail on operator keys only, and not in a block of
\* one mempool's transactions.
AssertionsHold == NoAssertionFails /\ OnlyOperatorKeysClash
=============================================================================
