----------------------------- MODULE MNPayments -----------------------------
(***************************************************************************)
(* The masternode payment queue (evo/deterministicmns.cpp).  A block pays  *)
(* the valid masternode that was paid, revived or registered longest ago   *)
(* in the list of the PREVIOUS block; the list of the block itself is      *)
(* built meanwhile by its transactions, which register, ban, revive and    *)
(* remove masternodes, the payee included.                                 *)
(***************************************************************************)
EXTENDS Integers

CONSTANTS
    Nodes,          \* proTxHashes: numbers, for the order that breaks ties
    NoPayee,        \* no masternode
    MaxHeight,      \* bound: blocks
    MaxTxs          \* bound: transactions of a block that touch the list

ASSUME PaymentsAssumption ==
    /\ Nodes \subseteq Nat /\ NoPayee \notin Nodes
    /\ MaxHeight \in Nat /\ MaxTxs \in Nat

VARIABLES
    old,        \* the list of the previous block
    list,       \* the list under construction (equal to old between blocks)
    height,     \* nHeight of list
    payee,      \* the masternode this block pays, or NoPayee
    known,      \* every proTxHash registered so far
    txs,        \* transactions of this block processed so far
    phase       \* "idle" between blocks, "txs", or "spends"

vars == <<old, list, height, payee, known, txs, phase>>

\* banHeight and revived are -1 when unset; key: the operator key is set.
MN(h) == [registered : 0..h, lastPaid : 0..h, revived : -1..h, banHeight : -1..h, key : BOOLEAN]
Absent == [registered |-> 0, lastPaid |-> 0, revived |-> -1, banHeight |-> 0, key |-> FALSE]

HasMN(l, m) == l[m].registered > 0
IsMNValid(l, m) == HasMN(l, m) /\ l[m].banHeight = -1

MNState(r, p, v, b, k) ==
    [registered |-> r, lastPaid |-> p, revived |-> v, banHeight |-> b, key |-> k]

-----------------------------------------------------------------------------
\* Where a masternode stands: the latest of its payment and its revival, or else its
\* registration (CompareByLastPaid_GetHeight).
CompareHeight(l, m) ==
    IF l[m].revived # -1 /\ l[m].revived > l[m].lastPaid THEN l[m].revived
    ELSE IF l[m].lastPaid = 0 THEN l[m].registered ELSE l[m].lastPaid

CompareByLastPaid(l, a, b) ==
    \/ CompareHeight(l, a) < CompareHeight(l, b)
    \/ CompareHeight(l, a) = CompareHeight(l, b) /\ a < b

GetMNPayee(l) ==
    LET valid == {m \in Nodes : IsMNValid(l, m)}
    IN  IF valid = {} THEN NoPayee
        ELSE CHOOSE m \in valid : \A x \in valid \ {m} : CompareByLastPaid(l, m, x)

-----------------------------------------------------------------------------
\* BuildNewListFromBlock(): the payee comes from the old list.
BeginBlock ==
    /\ phase = "idle" /\ height < MaxHeight
    /\ height' = height + 1 /\ payee' = GetMNPayee(list)
    /\ old' = list /\ txs' = 0 /\ phase' = "txs"
    /\ UNCHANGED <<list, known>>

Tx(p) == phase = p /\ txs < MaxTxs /\ txs' = txs + 1 /\ UNCHANGED <<old, height, payee>>

\* A registration, with an address or, without one, banned until a ProUpServTx gives
\* it; r is the masternode whose collateral it takes over, which leaves the list.
ProRegTx(m, r, addr) ==
    /\ Tx("txs") /\ m \in Nodes \ known
    /\ r # NoPayee => HasMN(list, r)
    /\ list' = [x \in Nodes |->
                  IF x = m THEN MNState(height, 0, -1, IF addr THEN -1 ELSE height, TRUE)
                  ELSE IF x = r THEN Absent ELSE list[x]]
    /\ known' = known \cup {m} /\ UNCHANGED phase

\* Seeded fault: the revival is not dated.
ProUpServTxUndated(m) ==
    /\ Tx("txs") /\ HasMN(old, m) /\ old[m].key /\ HasMN(list, m)
    /\ LET s == list[m]
       IN  list' = [list EXCEPT ![m] =
                      IF s.banHeight # -1 /\ s.key
                        THEN MNState(s.registered, s.lastPaid, s.revived, -1, s.key) ELSE s]
    /\ UNCHANGED <<known, phase>>

\* Seeded fault: revived although the key was revoked earlier in the block.
ProUpServTxAnyKey(m) ==
    /\ Tx("txs") /\ HasMN(old, m) /\ old[m].key /\ HasMN(list, m)
    /\ LET s == list[m]
       IN  list' = [list EXCEPT ![m] =
                      IF s.banHeight # -1
                        THEN MNState(s.registered, s.lastPaid, height, -1, s.key) ELSE s]
    /\ UNCHANGED <<known, phase>>

\* A service update, signed with the operator key of the old list, revives a banned
\* masternode if the list under construction still has a key for it.
ProUpServTx(m) ==
    /\ Tx("txs") /\ HasMN(old, m) /\ old[m].key /\ HasMN(list, m)
    /\ LET s == list[m]
       IN  list' = [list EXCEPT ![m] =
                      IF s.banHeight # -1 /\ s.key
                        THEN MNState(s.registered, s.lastPaid, height, -1, s.key) ELSE s]
    /\ UNCHANGED <<known, phase>>

\* ResetOperatorFields() and BanIfNotBanned(): ProUpRegTx then sets the new operator
\* key, ProUpRevTx leaves it unset and is signed with the old one.
NewOperator(m, key) ==
    /\ Tx("txs") /\ HasMN(old, m) /\ HasMN(list, m)
    /\ LET s == list[m]
       IN  list' = [list EXCEPT ![m] =
                      MNState(s.registered, s.lastPaid, s.revived,
                              IF s.banHeight # -1 THEN s.banHeight ELSE height, key)]
    /\ UNCHANGED <<known, phase>>

ProUpRegTx(m) == NewOperator(m, TRUE)
ProUpRevTx(m) == old[m].key /\ NewOperator(m, FALSE)

\* A quorum commitment: the members in failed reach the maximum penalty (PoSe has the
\* arithmetic) and are banned, unless they are already or have left the list.
HandleQuorumCommitment(failed) ==
    /\ Tx("txs")
    /\ list' = [m \in Nodes |->
                  IF m \in failed /\ HasMN(list, m) /\ list[m].banHeight = -1
                    THEN MNState(list[m].registered, list[m].lastPaid, list[m].revived, height,
                                 list[m].key)
                    ELSE list[m]]
    /\ UNCHANGED <<known, phase>>

\* After the special transactions, the masternodes whose collateral is spent.
SpendCollaterals(gone) ==
    /\ phase = "txs" /\ \A m \in gone : HasMN(list, m)
    /\ list' = [m \in Nodes |-> IF m \in gone THEN Absent ELSE list[m]]
    /\ phase' = "spends"
    /\ UNCHANGED <<old, height, payee, known, txs>>

\* The payment is recorded if the payee is still in the list; the block is done.
Pay ==
    /\ phase = "spends"
    /\ list' = [m \in Nodes |->
                  IF m = payee /\ HasMN(list, m)
                    THEN MNState(list[m].registered, height, list[m].revived, list[m].banHeight,
                                 list[m].key)
                    ELSE list[m]]
    /\ phase' = "idle" /\ UNCHANGED <<old, height, payee, known, txs>>

Init ==
    /\ list = [m \in Nodes |-> Absent] /\ old = list
    /\ height = 0 /\ payee = NoPayee /\ known = {} /\ txs = 0 /\ phase = "idle"

Next ==
    \/ BeginBlock
    \/ \E m \in Nodes, r \in Nodes \cup {NoPayee}, addr \in BOOLEAN : ProRegTx(m, r, addr)
    \/ \E m \in Nodes : ProUpServTx(m) \/ ProUpRegTx(m) \/ ProUpRevTx(m)
    \/ \E failed \in SUBSET Nodes : HandleQuorumCommitment(failed)
    \/ \E gone \in SUBSET Nodes : SpendCollaterals(gone)
    \/ Pay

Spec == Init /\ [][Next]_vars

-----------------------------------------------------------------------------
TypeOK ==
    /\ list \in [Nodes -> MN(height)] /\ old \in [Nodes -> MN(height)]
    /\ height \in 0..MaxHeight /\ payee \in Nodes \cup {NoPayee}
    /\ known \in SUBSET Nodes /\ txs \in 0..MaxTxs /\ phase \in {"idle", "txs", "spends"}

Ahead(l, m) == {x \in Nodes : IsMNValid(l, x) /\ CompareByLastPaid(l, x, m)}

\* The queue is never jumped.  Over a whole block, whatever transactions it holds, a
\* masternode that waits (valid before and after, not paid, not revived in between)
\* loses exactly masternodes from the front of its queue, the payee among them: no
\* registration, revival, replacement or ban in the block puts anyone ahead of it.
\* So it is paid after at most as many blocks as were ahead of it at the start.
QueueNeverJumped ==
    [][Pay => \A m \in Nodes :
          IsMNValid(old, m) /\ IsMNValid(list', m) /\ m # payee /\ list'[m].revived # height
            => /\ payee \in Ahead(old, m)
               /\ Ahead(list', m) \subseteq Ahead(old, m) \ {payee}]_vars

\* The payee has been valid since before the block, and after the block it is behind
\* every valid masternode that was not itself revived or registered in this block.
PaidGoesLast ==
    [][Pay /\ payee # NoPayee
         => /\ IsMNValid(old, payee)
            /\ \A m \in Nodes \ {payee} :
                 IsMNValid(list', m) /\ HasMN(list', payee) /\ CompareByLastPaid(list', payee, m)
                   => height \in {list'[m].revived, list'[m].registered}]_vars

\* Masternodes are paid in turn: the queue is never jumped, and who is paid goes last.
PaidInTurn == QueueNeverJumped /\ PaidGoesLast

\* A masternode without an operator key is banned until it gets one.
NoKeyBanned == \A m \in Nodes : HasMN(list, m) /\ ~list[m].key => list[m].banHeight # -1
=============================================================================
