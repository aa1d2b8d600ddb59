------------------------------ MODULE EvoProofs ------------------------------
(***************************************************************************)
(* For any number of masternodes and blocks and any transactions in them:  *)
(* the payment queue is never jumped (MNPayments), the PoSe ban stands at  *)
(* the maximum penalty and two failed sessions in a row reach it (PoSe),   *)
(* the quorum commitments of the database are those of the active chain    *)
(* through every reorganisation (QuorumBlocks), and the masternode lists   *)
(* found for the blocks of the active chain are the right ones             *)
(* (MNListCache).                                                          *)
(***************************************************************************)
EXTENDS Evo, MNListStore, Sequences, WellFoundedInduction, TLAPS

\* Unless a step names another prover.
USE Zenon

LEMMA LeastNat ==
    ASSUME NEW T, T \subseteq Nat, T # {}
    PROVE  \E x \in T : \A y \in T : x <= y
  <1>1. PICK x \in T : \A y \in T : ~(<<y, x>> \in OpToRel(<, Nat))
    BY NatLessThanWellFounded, WFMin
  <1>2. \A y \in T : ~(y < x)
    BY <1>1 DEF OpToRel
  <1> QED
    BY SMT, <1>2

\* A masternode stands at a height the list has reached.
LEMMA HeightReached ==
    ASSUME NEW h \in Nat, NEW l \in [Nodes -> MN(h)], NEW m \in Nodes
    PROVE  CompareHeight(l, m) \in 0..h
  <1>1. l[m] \in MN(h)
    OBVIOUS
  <1>2. l[m].registered \in 0..h /\ l[m].lastPaid \in 0..h /\ l[m].revived \in -1..h
    BY <1>1 DEF MN
  <1> QED
    BY SMT, <1>2 DEF CompareHeight

\* The order is total, so the valid masternodes have a first one and it is the payee.
LEMMA PayeeIsFirst ==
    ASSUME NEW h \in Nat, NEW l \in [Nodes -> MN(h)], NEW m \in Nodes, IsMNValid(l, m)
    PROVE  /\ GetMNPayee(l) \in Nodes /\ IsMNValid(l, GetMNPayee(l))
           /\ m # GetMNPayee(l) => CompareByLastPaid(l, GetMNPayee(l), m)
  <1> DEFINE valid == {x \in Nodes : IsMNValid(l, x)}
             T == {CompareHeight(l, x) : x \in valid}
             first == CHOOSE v \in valid : \A x \in valid \ {v} : CompareByLastPaid(l, v, x)
  <1>0. \A x \in valid : CompareHeight(l, x) \in Nat
    BY SMT, HeightReached
  <1>1. PICK low \in T : \A t \in T : low <= t
    <2>1. T # {} /\ T \subseteq Nat
      BY <1>0
    <2> QED
      BY <2>1, LeastNat
  <1> DEFINE U == {x \in valid : CompareHeight(l, x) = low}
  <1>2. PICK v \in U : \A u \in U : v <= u
    <2>1. U # {} /\ U \subseteq Nat
      BY <1>1, PaymentsAssumption
    <2> HIDE DEF U
    <2> QED
      BY <2>1, LeastNat
  <1>3. \A x \in valid \ {v} : CompareByLastPaid(l, v, x)
    <2> SUFFICES ASSUME NEW x \in valid, x # v
                 PROVE  CompareByLastPaid(l, v, x)
      OBVIOUS
    <2>1. CompareHeight(l, v) = low /\ CompareHeight(l, x) \in T
      BY <1>2
    <2>2. low <= CompareHeight(l, x) /\ low \in Nat /\ CompareHeight(l, x) \in Nat
      BY <1>0, <1>1, <2>1
    <2>3. CompareHeight(l, x) = low => v <= x /\ v \in Nat /\ x \in Nat
      BY <1>2, PaymentsAssumption
    <2> QED
      BY SMT, <2>1, <2>2, <2>3 DEF CompareByLastPaid
  <1>4. v \in valid
    BY <1>2
  <1>5. first \in valid /\ \A x \in valid \ {first} : CompareByLastPaid(l, first, x)
    <2> HIDE DEF valid
    <2> QED
      BY <1>3, <1>4
  <1>6. GetMNPayee(l) = first
    BY <1>4 DEF GetMNPayee
  <1> QED
    BY <1>5, <1>6

LEMMA PayeeIsValid ==
    ASSUME NEW h \in Nat, NEW l \in [Nodes -> MN(h)]
    PROVE  GetMNPayee(l) # NoPayee => GetMNPayee(l) \in Nodes /\ IsMNValid(l, GetMNPayee(l))
  <1>1. CASE \E m \in Nodes : IsMNValid(l, m)
    BY <1>1, PayeeIsFirst
  <1>2. CASE ~ \E m \in Nodes : IsMNValid(l, m)
    BY <1>2 DEF GetMNPayee
  <1> QED
    BY <1>1, <1>2

-----------------------------------------------------------------------------
\* What the transactions of a block may have made of the state o of a masternode that
\* was in the old list: s keeps its history, apart from a revival dated h.
Carried(o, s, h) ==
    /\ o.registered > 0 /\ s.registered = o.registered /\ s.lastPaid = o.lastPaid
    /\ s.revived \in {o.revived, h}
    /\ s.banHeight = -1 /\ s.revived # h => o.banHeight = -1

\* A masternode this block registered.
Fresh(o, s, h) == o.registered = 0 /\ s.registered = h /\ s.lastPaid = 0 /\ s.revived \in {-1, h}

InBlock ==
    phase # "idle" =>
        /\ height > 0 /\ old \in [Nodes -> MN(height - 1)]
        /\ payee = GetMNPayee(old)
        /\ \A m \in Nodes :
             HasMN(list, m) => Carried(old[m], list[m], height) \/ Fresh(old[m], list[m], height)

IInv ==
    /\ TypeOK /\ NoKeyBanned /\ InBlock
    /\ \A m \in Nodes : HasMN(list, m) \/ HasMN(old, m) => m \in known

LEMMA StateType ==
    \A h \in Nat : \A r, p \in 0..h, v, b \in -1..h, k \in BOOLEAN : MNState(r, p, v, b, k) \in MN(h)
  BY SMT DEF MNState, MN

LEMMA AbsentType == \A h \in Nat : Absent \in MN(h) /\ Absent.registered = 0
  BY SMT DEF Absent, MN

LEMMA FieldTypes ==
    ASSUME NEW h \in Nat, NEW s \in MN(h)
    PROVE  /\ s.registered \in 0..h /\ s.lastPaid \in 0..h
           /\ s.revived \in -1..h /\ s.banHeight \in -1..h /\ s.key \in BOOLEAN
  BY DEF MN

LEMMA InitIInv == Init => IInv
  <1> SUFFICES ASSUME Init PROVE IInv
    OBVIOUS
  <1>1. list \in [Nodes -> MN(height)] /\ old \in [Nodes -> MN(height)]
    <2>1. height \in Nat /\ list = [m \in Nodes |-> Absent] /\ old = list
      BY DEF Init
    <2>2. Absent \in MN(height)
      BY <2>1, AbsentType
    <2> QED
      BY <2>1, <2>2
  <1>2. TypeOK
    BY SMT, <1>1, PaymentsAssumption DEF Init, TypeOK
  <1>3. \A m \in Nodes : ~HasMN(list, m) /\ ~HasMN(old, m)
    <2>1. \A m \in Nodes : list[m].registered = 0 /\ old[m].registered = 0
      BY DEF Init, Absent
    <2>2. ~(0 > 0)
      BY SMT
    <2> QED
      BY <2>1, <2>2 DEF HasMN
  <1> QED
    BY <1>2, <1>3 DEF Init, IInv, NoKeyBanned, InBlock

\* A higher list height admits every state of a lower one.
LEMMA MNGrows == \A h \in Nat : MN(h) \subseteq MN(h + 1)
  BY SMT DEF MN

LEMMA BeginBlockInv == IInv /\ BeginBlock => IInv'
  <1> SUFFICES ASSUME IInv, BeginBlock PROVE IInv'
    OBVIOUS
  <1>0. /\ height \in Nat /\ height' = height + 1 /\ height' \in 0..MaxHeight
        /\ list' = list /\ old' = list /\ known' = known /\ list \in [Nodes -> MN(height)]
    BY SMT, PaymentsAssumption DEF IInv, TypeOK, BeginBlock
  <1>1. list \in [Nodes -> MN(height')] /\ MaxTxs \in Nat
    BY <1>0, MNGrows, PaymentsAssumption
  <1>2. payee' \in Nodes \cup {NoPayee} /\ payee' = GetMNPayee(old')
    BY <1>0, PayeeIsValid DEF BeginBlock
  <1>3. TypeOK'
    BY SMT, <1>0, <1>1, <1>2 DEF IInv, TypeOK, BeginBlock
  <1>4. \A m \in Nodes : HasMN(list, m) => Carried(list[m], list[m], height')
    BY <1>0 DEF HasMN, Carried
  <1>5. InBlock'
    <2>1. height' > 0 /\ height' - 1 = height
      BY SMT, <1>0
    <2>2. old' \in [Nodes -> MN(height' - 1)]
      BY <1>0, <2>1
    <2>3. \A m \in Nodes : HasMN(list', m) =>
             Carried(old'[m], list'[m], height') \/ Fresh(old'[m], list'[m], height')
      BY <1>0, <1>4
    <2> QED
      BY <1>2, <2>1, <2>2, <2>3 DEF InBlock
  <1> QED
    BY <1>0, <1>3, <1>5 DEF IInv, NoKeyBanned
\* The preservation argument of every transaction: each masternode of the new list is
\* untouched, absent, or satisfies the conditions on its own.
LEMMA TxInv ==
    ASSUME IInv, phase # "idle", phase' # "idle", phase' \in {"txs", "spends"},
           UNCHANGED <<old, height, payee>>, txs' \in 0..MaxTxs,
           known' \in SUBSET Nodes, known \subseteq known',
           list' = [m \in Nodes |-> list'[m]],
           \A m \in Nodes :
             \/ list'[m] = list[m] \/ list'[m] = Absent
             \/ /\ list'[m] \in MN(height) /\ m \in known'
                /\ ~list'[m].key => list'[m].banHeight # -1
                /\ Carried(old[m], list'[m], height) \/ Fresh(old[m], list'[m], height)
    PROVE  IInv'
  <1>0. height \in Nat /\ list \in [Nodes -> MN(height)]
    BY SMT, PaymentsAssumption DEF IInv, TypeOK
  <1>a. Absent \in MN(height) /\ Absent.registered = 0
    BY <1>0, AbsentType
  <1>1. list' \in [Nodes -> MN(height)]
    <2>1. \A m \in Nodes : list'[m] \in MN(height)
      BY <1>0, <1>a
    <2> QED
      BY <2>1
  <1>2. TypeOK'
    BY <1>1 DEF IInv, TypeOK
  <1>3. NoKeyBanned'
    <2> SUFFICES ASSUME NEW m \in Nodes, HasMN(list', m), ~list'[m].key
                 PROVE  list'[m].banHeight # -1
      BY DEF NoKeyBanned
    <2>1. list'[m] # Absent
      BY SMT, <1>a DEF HasMN
    <2> QED
      BY <2>1 DEF IInv, NoKeyBanned, HasMN
  <1>4. InBlock'
    <2>1. \A m \in Nodes : HasMN(list', m) =>
            Carried(old[m], list'[m], height) \/ Fresh(old[m], list'[m], height)
      <3> SUFFICES ASSUME NEW m \in Nodes, HasMN(list', m)
                   PROVE  Carried(old[m], list'[m], height) \/ Fresh(old[m], list'[m], height)
        OBVIOUS
      <3>1. list'[m] # Absent
        BY SMT, <1>a DEF HasMN
      <3> QED
        BY <3>1 DEF IInv, InBlock, HasMN
    <2> QED
      BY <2>1 DEF IInv, InBlock
  <1>5. \A m \in Nodes : HasMN(list', m) \/ HasMN(old', m) => m \in known'
    BY SMT, <1>a DEF IInv, HasMN
  <1> QED
    BY <1>2, <1>3, <1>4, <1>5 DEF IInv

\* In a block: the facts every transaction starts from.
LEMMA TxFacts ==
    ASSUME IInv, Tx("txs")
    PROVE  /\ height \in Nat /\ height > 0 /\ phase = "txs" /\ txs' \in 0..MaxTxs
           /\ list \in [Nodes -> MN(height)] /\ old \in [Nodes -> MN(height)]
           /\ UNCHANGED <<old, height, payee>> /\ known \in SUBSET Nodes
           /\ \A m \in Nodes : HasMN(list, m) =>
                /\ m \in known
                /\ Carried(old[m], list[m], height) \/ Fresh(old[m], list[m], height)
  <1>1. phase = "txs" /\ txs < MaxTxs /\ txs' = txs + 1 /\ UNCHANGED <<old, height, payee>>
    BY DEF Tx
  <1> QED
    BY SMT, <1>1, PaymentsAssumption DEF IInv, TypeOK, InBlock

LEMMA ProRegTxInv ==
    ASSUME IInv, NEW m \in Nodes, NEW r \in Nodes \cup {NoPayee}, NEW addr \in BOOLEAN,
           ProRegTx(m, r, addr)
    PROVE  IInv'
  <1> DEFINE s == MNState(height, 0, -1, IF addr THEN -1 ELSE height, TRUE)
  <1>0. Tx("txs") /\ m \notin known /\ known' = known \cup {m} /\ phase' = phase
    BY DEF ProRegTx
  <1>1. s \in MN(height) /\ s.registered = height /\ s.lastPaid = 0 /\ s.revived = -1 /\ s.key
    <2>1. /\ s.registered = height /\ s.lastPaid = 0 /\ s.revived = -1 /\ s.key
      BY DEF MNState
    <2>2. height \in Nat
      BY <1>0, TxFacts
    <2>3. height \in 0..height /\ 0 \in 0..height /\ -1 \in -1..height
      BY SMT, <2>2
    <2>4. PICK b \in -1..height : b = IF addr THEN -1 ELSE height
      BY SMT, <2>2
    <2>5. s = MNState(height, 0, -1, b, TRUE)
      BY <2>4
    <2>6. MNState(height, 0, -1, b, TRUE) \in MN(height)
      BY <2>2, <2>3 DEF MNState, MN
    <2> QED
      BY <2>1, <2>5, <2>6
  <1>2. old[m].registered = 0
    <2>1. ~HasMN(old, m) /\ old[m] \in MN(height)
      BY <1>0, TxFacts DEF IInv
    <2> QED
      BY SMT, <1>0, <2>1, TxFacts, FieldTypes DEF HasMN
  <1>3. Fresh(old[m], s, height)
    BY <1>1, <1>2 DEF Fresh
  <1> HIDE DEF s
  <1>4. list' = [x \in Nodes |-> IF x = m THEN s ELSE IF x = r THEN Absent ELSE list[x]]
    BY DEF ProRegTx, s
  <1>5. \A x \in Nodes : list'[x] = list[x] \/ list'[x] = Absent \/ (x = m /\ list'[x] = s)
    BY <1>4
  <1>6. list' = [x \in Nodes |-> list'[x]]
    BY <1>4
  <1>7. /\ phase = "txs" /\ phase' = "txs" /\ txs' \in 0..MaxTxs /\ UNCHANGED <<old, height, payee>>
        /\ known' \in SUBSET Nodes /\ known \subseteq known'
    BY <1>0, TxFacts
  <1>8. \A x \in Nodes :
          \/ list'[x] = list[x] \/ list'[x] = Absent
          \/ /\ list'[x] \in MN(height) /\ x \in known'
             /\ ~list'[x].key => list'[x].banHeight # -1
             /\ Carried(old[x], list'[x], height) \/ Fresh(old[x], list'[x], height)
    BY <1>0, <1>1, <1>3, <1>5
  <1> QED
    BY <1>6, <1>7, <1>8, TxInv

\* A transaction that updates the state of one masternode.
LEMMA UpdateInv ==
    ASSUME IInv, Tx("txs"), UNCHANGED <<known, phase>>, NEW m \in Nodes, HasMN(list, m),
           NEW v \in {list[m].revived, height}, NEW b \in -1..height, NEW k \in BOOLEAN,
           ~k => b # -1,
           b = -1 /\ v # height => list[m].banHeight = -1,
           list' = [list EXCEPT ![m] = MNState(list[m].registered, list[m].lastPaid, v, b, k)]
    PROVE  IInv'
  <1> DEFINE s == MNState(list[m].registered, list[m].lastPaid, v, b, k)
  <1>1. /\ list[m].registered \in 0..height /\ list[m].lastPaid \in 0..height
        /\ list[m].revived \in -1..height /\ height \in -1..height
    BY SMT, TxFacts, FieldTypes
  <1>2. /\ s \in MN(height) /\ s.registered = list[m].registered /\ s.lastPaid = list[m].lastPaid
        /\ s.revived = v /\ s.banHeight = b /\ s.key = k
    <2>1. /\ s.registered = list[m].registered /\ s.lastPaid = list[m].lastPaid
          /\ s.revived = v /\ s.banHeight = b /\ s.key = k
      BY DEF MNState
    <2>2. height \in Nat /\ v \in -1..height
      BY <1>1, TxFacts
    <2> QED
      BY <1>1, <2>1, <2>2, StateType
  <1> HIDE DEF s
  <1>3. m \in known /\ (Carried(old[m], list[m], height) \/ Fresh(old[m], list[m], height))
    BY TxFacts
  <1>4. Carried(old[m], s, height) \/ Fresh(old[m], s, height)
    BY <1>2, <1>3 DEF Carried, Fresh
  <1>5. list' = [list EXCEPT ![m] = s] /\ list \in [Nodes -> MN(height)]
    BY TxFacts DEF s
  <1>6. list' = [x \in Nodes |-> list'[x]] /\ \A x \in Nodes : list'[x] = IF x = m THEN s ELSE list[x]
    BY <1>5
  <1>7. /\ phase = "txs" /\ phase' = "txs" /\ txs' \in 0..MaxTxs /\ UNCHANGED <<old, height, payee>>
        /\ known' \in SUBSET Nodes /\ known \subseteq known'
    BY TxFacts
  <1>8. \A x \in Nodes :
          \/ list'[x] = list[x] \/ list'[x] = Absent
          \/ /\ list'[x] \in MN(height) /\ x \in known'
             /\ ~list'[x].key => list'[x].banHeight # -1
             /\ Carried(old[x], list'[x], height) \/ Fresh(old[x], list'[x], height)
    BY SMT, <1>2, <1>3, <1>4, <1>6, <1>7
  <1> QED
    BY <1>6, <1>7, <1>8, TxInv

LEMMA ProUpServTxInv == ASSUME IInv, NEW m \in Nodes, ProUpServTx(m) PROVE IInv'
  <1> DEFINE s == list[m]
  <1>0. Tx("txs") /\ HasMN(list, m) /\ UNCHANGED <<known, phase>>
    BY DEF ProUpServTx
  <1>1. list \in [Nodes -> MN(height)] /\ height \in Nat /\ s \in MN(height)
    BY <1>0, TxFacts
  <1>2. CASE s.banHeight # -1 /\ s.key
    <2>1. list' = [list EXCEPT ![m] = MNState(s.registered, s.lastPaid, height, -1, s.key)]
      BY <1>2 DEF ProUpServTx
    <2>2. s.key \in BOOLEAN /\ -1 \in -1..height
      BY SMT, <1>1, FieldTypes
    <2> QED
      BY <1>0, <1>2, <2>1, <2>2, UpdateInv
  <1>3. CASE ~(s.banHeight # -1 /\ s.key)
    <2>1. list' = [list EXCEPT ![m] = s]
      BY <1>3 DEF ProUpServTx
    <2>2. list' = [x \in Nodes |-> list'[x]] /\ \A x \in Nodes : list'[x] = list[x]
      BY <1>1, <2>1
    <2> QED
      BY <1>0, <2>2, TxFacts, TxInv
  <1> QED
    BY <1>2, <1>3

LEMMA NewOperatorInv ==
    ASSUME IInv, NEW m \in Nodes, NEW key \in BOOLEAN, NewOperator(m, key) PROVE IInv'
  <1> DEFINE b == IF list[m].banHeight # -1 THEN list[m].banHeight ELSE height
  <1>0. Tx("txs") /\ HasMN(list, m) /\ UNCHANGED <<known, phase>>
    BY DEF NewOperator
  <1>1. list' = [list EXCEPT ![m] = MNState(list[m].registered, list[m].lastPaid,
                                            list[m].revived, b, key)]
    BY DEF NewOperator
  <1>2. b \in -1..height /\ b # -1
    BY SMT, <1>0, TxFacts, FieldTypes
  <1> HIDE DEF b
  <1> QED
    BY <1>0, <1>1, <1>2, UpdateInv
LEMMA CommitmentInv == ASSUME IInv, NEW failed, HandleQuorumCommitment(failed) PROVE IInv'
  <1> DEFINE hit(m) == m \in failed /\ HasMN(list, m) /\ list[m].banHeight = -1
             s(m) == MNState(list[m].registered, list[m].lastPaid, list[m].revived, height,
                             list[m].key)
  <1>0. Tx("txs") /\ UNCHANGED <<known, phase>>
    BY DEF HandleQuorumCommitment
  <1>1. list' = [m \in Nodes |-> IF hit(m) THEN s(m) ELSE list[m]]
    BY DEF HandleQuorumCommitment
  <1>2. ASSUME NEW m \in Nodes, HasMN(list, m)
        PROVE  /\ s(m) \in MN(height) /\ m \in known /\ s(m).banHeight # -1
               /\ Carried(old[m], s(m), height) \/ Fresh(old[m], s(m), height)
    <2>1. /\ list[m].registered \in 0..height /\ list[m].lastPaid \in 0..height
          /\ list[m].revived \in -1..height /\ list[m].key \in BOOLEAN
          /\ height \in Nat /\ height \in -1..height
      BY SMT, <1>0, TxFacts, FieldTypes
    <2>2. m \in known /\ (Carried(old[m], list[m], height) \/ Fresh(old[m], list[m], height))
      BY <1>0, <1>2, TxFacts
    <2>3. /\ s(m).registered = list[m].registered /\ s(m).lastPaid = list[m].lastPaid
          /\ s(m).revived = list[m].revived /\ s(m).banHeight = height
      BY DEF MNState
    <2>4. s(m) \in MN(height)
      BY <2>1, StateType
    <2> HIDE DEF s
    <2>5. Carried(old[m], s(m), height) \/ Fresh(old[m], s(m), height)
      BY SMT, <2>1, <2>2, <2>3 DEF Carried, Fresh
    <2> QED
      BY SMT, <2>1, <2>2, <2>3, <2>4, <2>5
  <1> HIDE DEF s
  <1>3. list' = [m \in Nodes |-> list'[m]]
    BY <1>1
  <1>4. /\ phase = "txs" /\ phase' = "txs" /\ txs' \in 0..MaxTxs /\ UNCHANGED <<old, height, payee>>
        /\ known' \in SUBSET Nodes /\ known' = known
    BY <1>0, TxFacts
  <1>5. \A x \in Nodes :
          \/ list'[x] = list[x]
          \/ HasMN(list, x) /\ list'[x] = s(x)
    BY <1>1
  <1>6. \A x \in Nodes :
          \/ list'[x] = list[x] \/ list'[x] = Absent
          \/ /\ list'[x] \in MN(height) /\ x \in known'
             /\ ~list'[x].key => list'[x].banHeight # -1
             /\ Carried(old[x], list'[x], height) \/ Fresh(old[x], list'[x], height)
    BY <1>2, <1>4, <1>5
  <1> QED
    BY <1>3, <1>4, <1>6, TxInv

LEMMA SpendInv == ASSUME IInv, NEW gone, SpendCollaterals(gone) PROVE IInv'
  <1>1. /\ phase = "txs" /\ phase' = "spends" /\ UNCHANGED <<old, height, payee, known, txs>>
        /\ list' = [m \in Nodes |-> IF m \in gone THEN Absent ELSE list[m]]
    BY DEF SpendCollaterals
  <1>2. /\ list' = [m \in Nodes |-> list'[m]]
        /\ \A m \in Nodes : list'[m] = list[m] \/ list'[m] = Absent
    BY <1>1
  <1>3. txs' \in 0..MaxTxs /\ known' \in SUBSET Nodes
    BY <1>1 DEF IInv, TypeOK
  <1> QED
    BY <1>1, <1>2, <1>3, TxInv

\* The payment changes nothing but the payee's lastPaid, which becomes this height.
LEMMA PayFacts ==
    ASSUME IInv, Pay
    PROVE  /\ height \in Nat /\ height > 0 /\ phase = "spends" /\ phase' = "idle"
           /\ old \in [Nodes -> MN(height - 1)] /\ list \in [Nodes -> MN(height)]
           /\ list' \in [Nodes -> MN(height)]
           /\ payee = GetMNPayee(old) /\ UNCHANGED <<old, height, payee, known, txs>>
           /\ \A m \in Nodes :
                /\ m # payee => list'[m] = list[m]
                /\ HasMN(list', m) <=> HasMN(list, m)
                /\ list'[m].registered = list[m].registered /\ list'[m].revived = list[m].revived
                /\ list'[m].banHeight = list[m].banHeight /\ list'[m].key = list[m].key
           /\ payee \in Nodes /\ HasMN(list', payee) => list'[payee].lastPaid = height
  <1> DEFINE s(m) == MNState(list[m].registered, height, list[m].revived, list[m].banHeight,
                             list[m].key)
  <1>1. /\ phase = "spends" /\ phase' = "idle" /\ UNCHANGED <<old, height, payee, known, txs>>
        /\ list' = [m \in Nodes |-> IF m = payee /\ HasMN(list, m) THEN s(m) ELSE list[m]]
    BY DEF Pay
  <1>2. /\ height \in Nat /\ height > 0 /\ list \in [Nodes -> MN(height)]
        /\ old \in [Nodes -> MN(height - 1)] /\ payee = GetMNPayee(old)
    BY SMT, <1>1, PaymentsAssumption DEF IInv, TypeOK, InBlock
  <1>3. ASSUME NEW m \in Nodes
        PROVE  /\ s(m) \in MN(height) /\ s(m).registered = list[m].registered
               /\ s(m).lastPaid = height /\ s(m).revived = list[m].revived
               /\ s(m).banHeight = list[m].banHeight /\ s(m).key = list[m].key
    <2>1. /\ s(m).registered = list[m].registered
          /\ s(m).lastPaid = height /\ s(m).revived = list[m].revived
          /\ s(m).banHeight = list[m].banHeight /\ s(m).key = list[m].key
      BY DEF MNState
    <2>2. /\ list[m].registered \in 0..height /\ list[m].revived \in -1..height
          /\ list[m].banHeight \in -1..height /\ list[m].key \in BOOLEAN /\ height \in 0..height
      BY SMT, <1>2, FieldTypes
    <2>3. s(m) \in MN(height)
      BY <1>2, <2>2, StateType
    <2> QED
      BY <2>1, <2>3
  <1> HIDE DEF s
  <1>4. list' \in [Nodes -> MN(height)]
    BY <1>1, <1>2, <1>3
  <1>5. ASSUME NEW m \in Nodes
        PROVE  /\ m # payee => list'[m] = list[m]
               /\ list'[m].registered = list[m].registered /\ list'[m].revived = list[m].revived
               /\ list'[m].banHeight = list[m].banHeight /\ list'[m].key = list[m].key
    BY <1>1, <1>3
  <1>6. \A m \in Nodes : HasMN(list', m) <=> HasMN(list, m)
    BY <1>5 DEF HasMN
  <1>7. payee \in Nodes /\ HasMN(list', payee) => list'[payee].lastPaid = height
    BY <1>1, <1>3, <1>6
  <1> QED
    BY <1>1, <1>2, <1>4, <1>5, <1>6, <1>7

LEMMA PayInv == IInv /\ Pay => IInv'
  <1> SUFFICES ASSUME IInv, Pay PROVE IInv'
    OBVIOUS
  <1>1. old' \in [Nodes -> MN(height)] /\ list' \in [Nodes -> MN(height)]
    BY PayFacts DEF IInv, TypeOK
  <1>2. TypeOK'
    BY <1>1, PayFacts DEF IInv, TypeOK
  <1>3. NoKeyBanned'
    BY PayFacts DEF IInv, NoKeyBanned
  <1>4. \A m \in Nodes : HasMN(list', m) \/ HasMN(old', m) => m \in known'
    BY PayFacts DEF IInv, HasMN
  <1>5. InBlock'
    BY PayFacts DEF InBlock
  <1> QED
    BY <1>2, <1>3, <1>4, <1>5 DEF IInv

LEMMA NextIInv == IInv /\ [Next]_vars => IInv'
  <1> SUFFICES ASSUME IInv, [Next]_vars PROVE IInv'
    OBVIOUS
  <1>1. CASE BeginBlock
    BY <1>1, BeginBlockInv
  <1>2. CASE \E m \in Nodes, r \in Nodes \cup {NoPayee}, addr \in BOOLEAN : ProRegTx(m, r, addr)
    BY <1>2, ProRegTxInv
  <1>3. CASE \E m \in Nodes : ProUpServTx(m) \/ ProUpRegTx(m) \/ ProUpRevTx(m)
    BY <1>3, ProUpServTxInv, NewOperatorInv DEF ProUpRegTx, ProUpRevTx
  <1>4. CASE \E failed \in SUBSET Nodes : HandleQuorumCommitment(failed)
    BY <1>4, CommitmentInv
  <1>5. CASE \E gone \in SUBSET Nodes : SpendCollaterals(gone)
    BY <1>5, SpendInv
  <1>6. CASE Pay
    BY <1>6, PayInv
  <1>7. CASE UNCHANGED vars
    BY <1>7 DEF vars, IInv, TypeOK, NoKeyBanned, InBlock, HasMN, Carried, Fresh
  <1> QED
    BY <1>1, <1>2, <1>3, <1>4, <1>5, <1>6, <1>7 DEF Next
-----------------------------------------------------------------------------
\* Where the masternodes of the new list stand once the payment is recorded.
LEMMA StandsAt ==
    ASSUME IInv, Pay, NEW m \in Nodes, HasMN(list', m)
    PROVE  \/ CompareHeight(list', m) = height
           \/ /\ CompareHeight(list', m) = CompareHeight(old, m)
              /\ m # payee /\ list'[m].revived # height
              /\ IsMNValid(list', m) => IsMNValid(old, m)
  <1>1. /\ height \in Nat /\ height > 0 /\ old[m] \in MN(height - 1) /\ list[m] \in MN(height)
        /\ list'[m] \in MN(height) /\ HasMN(list, m)
        /\ list'[m].registered = list[m].registered /\ list'[m].revived = list[m].revived
        /\ list'[m].banHeight = list[m].banHeight
    BY PayFacts
  <1>2. /\ list'[m].registered \in 0..height /\ list'[m].lastPaid \in 0..height
        /\ list'[m].revived \in -1..height
    BY <1>1, FieldTypes
  <1>3. height - 1 \in Nat
    BY SMT, <1>1
  <1>4. old[m].lastPaid \in 0..(height - 1) /\ old[m].revived \in -1..(height - 1)
    BY <1>1, <1>3, FieldTypes
  <1>5. CASE m = payee
    <2>1. list'[m].lastPaid = height
      BY <1>5, PayFacts
    <2> QED
      BY SMT, <1>1, <1>2, <2>1 DEF CompareHeight
  <1>6. CASE m # payee
    <2>0. list'[m].lastPaid = list[m].lastPaid
      BY <1>6, PayFacts
    <2>1. Carried(old[m], list[m], height) \/ Fresh(old[m], list[m], height)
      BY <1>1, PayFacts DEF IInv, InBlock
    <2>2. CASE Fresh(old[m], list[m], height)
      BY <1>1, <1>2, <2>0, <2>2 DEF Fresh, CompareHeight
    <2>3. CASE Carried(old[m], list[m], height) /\ list[m].revived = height
      BY SMT, <1>1, <1>4, <2>0, <2>3 DEF Carried, CompareHeight
    <2>4. CASE Carried(old[m], list[m], height) /\ list[m].revived # height
      <3>1. CompareHeight(list', m) = CompareHeight(old, m)
        BY <1>1, <2>0, <2>4 DEF Carried, CompareHeight
      <3>2. IsMNValid(list', m) => IsMNValid(old, m)
        BY <1>1, <2>4 DEF Carried, IsMNValid, HasMN
      <3> QED
        BY <1>1, <1>6, <2>4, <3>1, <3>2
    <2> QED
      BY <2>1, <2>2, <2>3, <2>4
  <1> QED
    BY <1>5, <1>6

LEMMA NotJumped ==
    ASSUME IInv, Pay, NEW m \in Nodes,
           IsMNValid(old, m), IsMNValid(list', m), m # payee, list'[m].revived # height
    PROVE  payee \in Ahead(old, m) /\ Ahead(list', m) \subseteq Ahead(old, m) \ {payee}
  <1>1. height \in Nat /\ height - 1 \in Nat /\ old \in [Nodes -> MN(height - 1)] /\ payee = GetMNPayee(old)
    BY SMT, PayFacts
  <1>2. payee \in Ahead(old, m)
    BY <1>1, PayeeIsFirst DEF Ahead
  <1>3. \A x \in Nodes : CompareHeight(old, x) \in 0..(height - 1)
    BY <1>1, HeightReached
  <1>4. HasMN(list', m)
    BY DEF IsMNValid
  <1>5. CompareHeight(list', m) = CompareHeight(old, m)
    <2>1. HasMN(list, m) /\ list'[m] = list[m] /\ HasMN(old, m) /\ list[m] \in MN(height)
      BY <1>4, PayFacts DEF IsMNValid
    <2>2. Carried(old[m], list[m], height)
      BY SMT, <2>1, PayFacts DEF IInv, InBlock, HasMN, Fresh
    <2> QED
      BY <2>1, <2>2 DEF Carried, CompareHeight
  <1>6. ASSUME NEW x \in Ahead(list', m) PROVE x \in Ahead(old, m) \ {payee}
    <2>1. x \in Nodes /\ IsMNValid(list', x) /\ CompareByLastPaid(list', x, m)
      BY <1>6 DEF Ahead
    <2>2. HasMN(list', x)
      BY <2>1 DEF IsMNValid
    <2>3. CompareHeight(list', x) <= CompareHeight(old, m)
      <3>1. CompareHeight(list', x) \in 0..height
        BY <1>1, <2>1, PayFacts, HeightReached
      <3> QED
        BY SMT, <1>3, <1>5, <2>1, <3>1 DEF CompareByLastPaid
    <2>4. CompareHeight(list', x) # height
      BY SMT, <1>1, <1>3, <2>3
    <2>5. /\ CompareHeight(list', x) = CompareHeight(old, x) /\ x # payee
          /\ IsMNValid(old, x)
      BY <2>1, <2>2, <2>4, StandsAt
    <2>6. CompareByLastPaid(old, x, m)
      BY <1>5, <2>1, <2>5 DEF CompareByLastPaid
    <2> QED
      BY <2>1, <2>5, <2>6 DEF Ahead
  <1> QED
    BY <1>2, <1>6

LEMMA GoesLast ==
    ASSUME IInv, Pay, payee # NoPayee
    PROVE  /\ IsMNValid(old, payee)
           /\ \A m \in Nodes \ {payee} :
                IsMNValid(list', m) /\ HasMN(list', payee) /\ CompareByLastPaid(list', payee, m)
                  => height \in {list'[m].revived, list'[m].registered}
  <1>1. height \in Nat /\ height - 1 \in Nat /\ old \in [Nodes -> MN(height - 1)] /\ payee = GetMNPayee(old)
    BY SMT, PayFacts
  <1>2. payee \in Nodes /\ IsMNValid(old, payee)
    BY <1>1, PayeeIsValid
  <1>3. ASSUME NEW m \in Nodes, m # payee, IsMNValid(list', m), HasMN(list', payee),
               CompareByLastPaid(list', payee, m)
        PROVE  height \in {list'[m].revived, list'[m].registered}
    <2>1. /\ CompareHeight(list', payee) \in 0..height /\ CompareHeight(list', m) \in 0..height
          /\ CompareHeight(old, m) \in 0..(height - 1)
      BY <1>1, <1>2, PayFacts, HeightReached
    <2>2. CompareHeight(list', payee) = height
      BY <1>2, <1>3, StandsAt
    <2>3. CompareHeight(list', m) = height
      BY SMT, <1>1, <1>3, <2>1, <2>2 DEF CompareByLastPaid
    <2>4. HasMN(list, m) /\ list'[m] = list[m] /\ list[m] \in MN(height) /\ old[m] \in MN(height - 1)
      BY <1>3, PayFacts DEF IsMNValid
    <2>5. Carried(old[m], list[m], height) \/ Fresh(old[m], list[m], height)
      BY <2>4, PayFacts DEF IInv, InBlock
    <2>6. CASE Fresh(old[m], list[m], height)
      BY <2>4, <2>6 DEF Fresh
    <2>7. CASE Carried(old[m], list[m], height)
      <3>1. old[m].lastPaid \in 0..(height - 1) /\ old[m].registered \in 0..(height - 1)
        BY <1>1, <2>4, FieldTypes
      <3>2. list'[m].lastPaid # height /\ list'[m].registered # height
        BY SMT, <1>1, <2>4, <2>7, <3>1 DEF Carried
      <3> QED
        BY <2>3, <3>2 DEF CompareHeight
    <2> QED
      BY <2>5, <2>6, <2>7
  <1> QED
    BY <1>2, <1>3

\* Over a whole block nobody gets ahead of a masternode that waits, the payee leaves
\* its queue (BuildNewListFromBlock, GetMNPayee), and the payee goes last.
THEOREM PaymentQueue == Spec => PaidInTurn
  <1>1. Spec => []IInv
    BY InitIInv, NextIInv, PTL DEF Spec
  <1>2. IInv /\ [Next]_vars =>
          [Pay => \A m \in Nodes :
              IsMNValid(old, m) /\ IsMNValid(list', m) /\ m # payee /\ list'[m].revived # height
                => /\ payee \in Ahead(old, m)
                   /\ Ahead(list', m) \subseteq Ahead(old, m) \ {payee}]_vars
    BY NotJumped
  <1>3. IInv /\ [Next]_vars =>
          [Pay /\ payee # NoPayee
             => /\ IsMNValid(old, payee)
                /\ \A m \in Nodes \ {payee} :
                     IsMNValid(list', m) /\ HasMN(list', payee) /\ CompareByLastPaid(list', payee, m)
                       => height \in {list'[m].revived, list'[m].registered}]_vars
    BY GoesLast
  <1> QED
    BY <1>1, <1>2, <1>3, PTL DEF Spec, PaidInTurn, QueueNeverJumped, PaidGoesLast

\* A masternode whose operator key was reset stays banned until it has a new one, also
\* when a ProUpServTx signed with the old key follows in the same block.
THEOREM KeylessStayBanned == Spec => [](TypeOK /\ NoKeyBanned)
  <1>1. IInv => TypeOK /\ NoKeyBanned
    BY DEF IInv
  <1> QED
    BY <1>1, InitIInv, NextIInv, PTL DEF Spec

-----------------------------------------------------------------------------
\* PoSe: the penalty is measured against the largest maximum so far.
PenaltyInv ==
    /\ pHeight \in Nat /\ count \in 1..MaxCount /\ penalty \in Nat /\ banHeight \in Int
    /\ fails \in Seq(Nat) /\ peak \in Nat
    /\ peak >= P!MaxPenaltyOf(count) /\ peak >= MinMaxPenalty
    /\ penalty <= peak /\ (~P!Banned => penalty < peak)

\* What two sessions failed in a row cost while the list is small: the last one has left
\* its share of the penalty, less one point for each block since.
FailuresInv ==
    peak = MinMaxPenalty /\ ~P!Banned /\ Len(fails) >= 1 =>
        LET n == Len(fails)
            cost == (MinMaxPenalty * Percent) \div 100
        IN  /\ penalty + (pHeight - fails[n]) >= cost
            /\ n >= 2 => fails[n] - fails[n - 1] > 2 * cost - MinMaxPenalty

LEMMA PoSeConstantTypes ==
    /\ MinMaxPenalty \in Nat /\ MinMaxPenalty > 0 /\ Percent \in Nat /\ MaxCount \in Nat /\ BanHeights \subseteq Nat
    /\ MinMaxPenalty * Percent >= 100
  BY SMT, PoSeConstants DEF P!PoSeAssumption

\* What a failed session costs is a positive number of points.
LEMMA CostType ==
    ASSUME NEW n \in Nat
    PROVE  /\ P!MaxPenaltyOf(n) \in Nat /\ P!MaxPenaltyOf(n) >= MinMaxPenalty
           /\ (P!MaxPenaltyOf(n) * Percent) \div 100 \in Nat
  <1>1. P!MaxPenaltyOf(n) \in Nat /\ P!MaxPenaltyOf(n) >= MinMaxPenalty
    BY SMT, PoSeConstantTypes DEF P!MaxPenaltyOf, P!Most
  <1>2. P!MaxPenaltyOf(n) * Percent \in Nat
    BY SMT, <1>1, PoSeConstantTypes
  <1>3. (P!MaxPenaltyOf(n) * Percent) \div 100 \in Nat
    BY SMT, <1>2
  <1> QED
    BY <1>1, <1>3

LEMMA PenaltyInit == P!Init => PenaltyInv
  <1> SUFFICES ASSUME P!Init PROVE PenaltyInv
    OBVIOUS
  <1>1. count \in 1..MaxCount /\ count \in Nat
    BY SMT, PoSeConstantTypes DEF P!Init
  <1>2. peak \in Nat /\ peak >= MinMaxPenalty /\ peak = P!MaxPenaltyOf(count)
    BY <1>1, CostType DEF P!Init
  <1>3. peak >= P!MaxPenaltyOf(count) /\ penalty = 0 /\ penalty \in Nat /\ penalty <= peak /\ penalty < peak
    BY SMT, <1>2, PoSeConstantTypes DEF P!Init
  <1>4. fails \in Seq(Nat) /\ pHeight \in Nat /\ banHeight \in Int
    BY SMT DEF P!Init
  <1> QED
    BY <1>1, <1>2, <1>3, <1>4 DEF PenaltyInv

LEMMA PenaltyNext == PenaltyInv /\ [P!Next]_(P!vars) => PenaltyInv'
  <1> SUFFICES ASSUME PenaltyInv, [P!Next]_(P!vars) PROVE PenaltyInv'
    OBVIOUS
  <1>0. /\ pHeight \in Nat /\ count \in 1..MaxCount /\ penalty \in Nat /\ banHeight \in Int
        /\ fails \in Seq(Nat) /\ peak \in Nat
        /\ peak >= P!MaxPenaltyOf(count) /\ peak >= MinMaxPenalty
        /\ penalty <= peak /\ (banHeight = -1 => penalty < peak)
    BY DEF PenaltyInv, P!Banned
  <1>t. count \in Nat /\ MaxCount \in Nat
    BY SMT, <1>0, PoSeConstantTypes
  <1>1. CASE P!BeginBlock
    <2>1. /\ pHeight' \in Nat /\ penalty' \in Nat /\ penalty' <= penalty
          /\ count' = count /\ banHeight' = banHeight /\ fails' = fails /\ peak' = peak
      BY SMT, <1>0, <1>1 DEF P!BeginBlock, P!Banned
    <2>2. penalty' <= peak' /\ (banHeight' = -1 => penalty' < peak')
      BY SMT, <1>0, <2>1
    <2> QED
      BY <1>0, <2>1, <2>2 DEF PenaltyInv, P!Banned
  <1>2. CASE P!PoSePunish
    <2> DEFINE max == P!MaxPenaltyOf(count)
               cost == (max * Percent) \div 100
    <2>1. max \in Nat /\ cost \in Nat /\ max <= peak
      <3>1. max \in Nat /\ cost \in Nat
        BY <1>t, CostType
      <3> HIDE DEF max
      <3> QED
        BY SMT, <1>0, <3>1 DEF max
    <2>2. /\ penalty' = P!Least(max, penalty + cost)
          /\ banHeight' = IF penalty' >= max /\ ~P!Banned THEN pHeight ELSE banHeight
          /\ fails' = Append(fails, pHeight)
          /\ pHeight' = pHeight /\ count' = count /\ peak' = peak
      BY <1>2 DEF P!PoSePunish, P!CalcMaxPoSePenalty, P!CalcPenalty
    <2> HIDE DEF max, cost
    <2>3. penalty' \in Nat /\ penalty' <= max /\ banHeight' \in Int /\ (banHeight' = -1 => penalty' < max)
      BY SMT, <1>0, <2>1, <2>2 DEF P!Least, P!Banned
    <2>4. fails' \in Seq(Nat)
      BY SMT, <1>0, <2>2
    <2>5. penalty' <= peak' /\ (banHeight' = -1 => penalty' < peak')
      BY SMT, <1>0, <2>1, <2>2, <2>3
    <2> QED
      BY <1>0, <2>2, <2>3, <2>4, <2>5 DEF PenaltyInv, P!Banned
  <1>3. CASE P!CountChanges
    <2>1. /\ count' \in 1..MaxCount /\ peak' = P!Most(peak, P!MaxPenaltyOf(count'))
          /\ pHeight' = pHeight /\ penalty' = penalty /\ banHeight' = banHeight /\ fails' = fails
      BY <1>3 DEF P!CountChanges
    <2>2. count' \in Nat
      BY SMT, <1>t, <2>1
    <2>3. P!MaxPenaltyOf(count') \in Nat
      BY <2>2, CostType
    <2>4. peak' \in Nat /\ peak' >= P!MaxPenaltyOf(count') /\ peak' >= peak
      BY SMT, <1>0, <2>1, <2>3 DEF P!Most
    <2>5. peak' >= MinMaxPenalty /\ penalty' <= peak' /\ (banHeight' = -1 => penalty' < peak')
      BY SMT, <1>0, <2>1, <2>4, PoSeConstantTypes
    <2> QED
      BY <1>0, <2>1, <2>4, <2>5 DEF PenaltyInv, P!Banned
  <1>4. CASE P!BanIfNotBanned
    <2>1. /\ banHeight' \in Int /\ (banHeight' = -1 => banHeight = -1)
          /\ pHeight' = pHeight /\ count' = count /\ penalty' = penalty /\ fails' = fails /\ peak' = peak
      BY SMT, <1>0, <1>4 DEF P!BanIfNotBanned, P!Banned
    <2> QED
      BY <1>0, <2>1 DEF PenaltyInv, P!Banned
  <1>5. CASE P!Revive
    <2>1. /\ penalty' = 0 /\ banHeight' = -1 /\ fails' = <<>>
          /\ pHeight' = pHeight /\ count' = count /\ peak' = peak
      BY <1>5 DEF P!Revive
    <2>2. penalty' \in Nat /\ banHeight' \in Int /\ penalty' < peak' /\ penalty' <= peak' /\ fails' \in Seq(Nat)
      BY SMT, <1>0, <2>1, PoSeConstantTypes
    <2> QED
      BY <1>0, <2>1, <2>2 DEF PenaltyInv, P!Banned
  <1>6. CASE UNCHANGED P!vars
    BY <1>0, <1>6 DEF P!vars, PenaltyInv, P!Banned
  <1> QED
    BY <1>1, <1>2, <1>3, <1>4, <1>5, <1>6 DEF P!Next

\* However the list grows and shrinks and whenever sessions fail, a masternode that is
\* not banned is below the largest maximum penalty there was.
THEOREM BanAtMaximum == P!Spec => []BannedAtMaximum
  <1>1. PenaltyInv => BannedAtMaximum
    BY SMT DEF PenaltyInv, BannedAtMaximum, P!BannedAtMaximum
  <1> QED
    BY <1>1, PenaltyInit, PenaltyNext, PTL DEF P!Spec

LEMMA FailuresInit == P!Init => FailuresInv
  <1> SUFFICES ASSUME P!Init PROVE FailuresInv
    OBVIOUS
  <1>1. ~(Len(fails) >= 1)
    BY SMT DEF P!Init
  <1> QED
    BY <1>1 DEF FailuresInv

LEMMA PointsLeft ==
    ASSUME NEW p \in Nat, NEW h \in Nat, NEW q \in Nat, NEW k \in Nat, NEW last \in Nat, NEW cost \in Nat,
           q + k >= p + h, p + (h - last) >= cost
    PROVE  q + (k - last) >= cost
  BY SMT

LEMMA FailuresNext == PenaltyInv /\ FailuresInv /\ [P!Next]_(P!vars) => FailuresInv'
  <1> DEFINE cost == (MinMaxPenalty * Percent) \div 100
             n == Len(fails)
  <1> SUFFICES ASSUME PenaltyInv, FailuresInv, [P!Next]_(P!vars),
                      peak' = MinMaxPenalty, banHeight' = -1, Len(fails') >= 1
               PROVE  /\ penalty' + (pHeight' - fails'[Len(fails')]) >= cost
                      /\ Len(fails') >= 2 =>
                           fails'[Len(fails')] - fails'[Len(fails') - 1] > 2 * cost - MinMaxPenalty
    BY DEF FailuresInv, P!Banned
  <1>0. /\ pHeight \in Nat /\ penalty \in Nat /\ banHeight \in Int /\ fails \in Seq(Nat) /\ peak \in Nat
        /\ count \in Nat /\ peak >= P!MaxPenaltyOf(count) /\ peak >= MinMaxPenalty /\ n \in Nat
    BY SMT, PoSeConstantTypes DEF PenaltyInv
  <1>c. cost \in Nat
    <2>1. MinMaxPenalty * Percent \in Nat
      BY SMT, PoSeConstantTypes
    <2> QED
      BY SMT, <2>1
  <1>i. /\ peak = MinMaxPenalty /\ banHeight = -1 /\ n >= 1 => penalty + (pHeight - fails[n]) >= cost
        /\ peak = MinMaxPenalty /\ banHeight = -1 /\ n >= 1 /\ n >= 2 =>
             fails[n] - fails[n - 1] > 2 * cost - MinMaxPenalty
    BY DEF FailuresInv, P!Banned
  <1>e. \A i \in 1..n : fails[i] \in Nat
    BY SMT, <1>0
  <1> HIDE DEF cost, n
  <1>s. ASSUME fails' = fails, peak' = peak, banHeight' = banHeight, pHeight' \in Nat, penalty' \in Nat,
               penalty' + pHeight' >= penalty + pHeight
        PROVE  /\ penalty' + (pHeight' - fails'[Len(fails')]) >= cost
               /\ Len(fails') >= 2 =>
                    fails'[Len(fails')] - fails'[Len(fails') - 1] > 2 * cost - MinMaxPenalty
    <2>1. Len(fails') = n /\ n >= 1 /\ n \in 1..n
      BY SMT, <1>0, <1>s DEF n
    <2>2. fails[n] \in Nat
      BY <1>e, <2>1
    <2>3. penalty + (pHeight - fails[n]) >= cost
      BY <1>i, <1>s, <2>1
    <2>4. penalty' + (pHeight' - fails[n]) >= cost
      BY <1>0, <1>c, <1>s, <2>2, <2>3, PointsLeft
    <2>5. n >= 2 => fails[n] - fails[n - 1] > 2 * cost - MinMaxPenalty
      BY <1>i, <1>s, <2>1
    <2> QED
      BY <1>s, <2>1, <2>4, <2>5
  <1>1. CASE P!BeginBlock
    <2>1. /\ pHeight' \in Nat /\ penalty' \in Nat /\ penalty' + pHeight' >= penalty + pHeight
          /\ banHeight' = banHeight /\ fails' = fails /\ peak' = peak
      BY SMT, <1>0, <1>1 DEF P!BeginBlock, P!Banned
    <2> QED
      BY <1>s, <2>1
  <1>2. CASE P!PoSePunish
    <2> DEFINE max == P!MaxPenaltyOf(count)
               c == (max * Percent) \div 100
    <2>1. max \in Nat /\ max >= MinMaxPenalty
      BY <1>0, CostType
    <2>2. /\ penalty' = P!Least(max, penalty + c)
          /\ banHeight' = IF penalty' >= max /\ ~P!Banned THEN pHeight ELSE banHeight
          /\ fails' = Append(fails, pHeight)
          /\ pHeight' = pHeight /\ peak' = peak
      BY <1>2 DEF P!PoSePunish, P!CalcMaxPoSePenalty, P!CalcPenalty
    <2> HIDE DEF max
    <2>3. max = MinMaxPenalty
      BY SMT, <1>0, <2>1, <2>2, PoSeConstantTypes DEF max
    <2>4. c = cost
      BY <2>3 DEF cost
    <2> HIDE DEF c
    <2>5. banHeight = -1 /\ ~(penalty' >= max)
      BY SMT, <1>0, <2>2 DEF P!Banned
    <2>6. penalty' = penalty + cost /\ penalty + cost < MinMaxPenalty
      <3>1. penalty' = IF max < penalty + cost THEN max ELSE penalty + cost
        BY <2>2, <2>4 DEF P!Least
      <3> QED
        BY SMT, <1>0, <1>c, <2>1, <2>3, <2>5, <3>1
    <2>7. Len(fails') = n + 1 /\ fails'[n + 1] = pHeight /\ \A i \in 1..n : fails'[i] = fails[i]
      BY SMT, <1>0, <2>2 DEF n
    <2>8. penalty' + (pHeight' - fails'[Len(fails')]) >= cost
      BY SMT, <1>0, <1>c, <2>2, <2>6, <2>7
    <2>9. ASSUME Len(fails') >= 2
          PROVE  fails'[Len(fails')] - fails'[Len(fails') - 1] > 2 * cost - MinMaxPenalty
      <3>1. n >= 1 /\ n \in 1..n /\ (n + 1) - 1 = n
        BY SMT, <1>0, <2>7, <2>9
      <3>2. penalty + (pHeight - fails[n]) >= cost /\ fails[n] \in Nat
        BY <1>e, <1>i, <2>2, <2>5, <3>1
      <3>3. pHeight - fails[n] > 2 * cost - MinMaxPenalty
        BY SMTT(30), <1>0, <1>c, <2>6, <3>2, PoSeConstantTypes
      <3> QED
        BY <2>7, <3>1, <3>3
    <2> QED
      BY <2>8, <2>9
  <1>3. CASE P!CountChanges
    <2>1. /\ peak' = P!Most(peak, P!MaxPenaltyOf(count')) /\ count' \in 1..MaxCount
          /\ pHeight' = pHeight /\ penalty' = penalty /\ banHeight' = banHeight /\ fails' = fails
      BY <1>3 DEF P!CountChanges
    <2>2. count' \in Nat
      BY SMT, <2>1, PoSeConstantTypes
    <2>3. P!MaxPenaltyOf(count') \in Nat
      BY <2>2, CostType
    <2>4. peak' = peak
      BY SMT, <1>0, <2>1, <2>3, PoSeConstantTypes DEF P!Most
    <2>5. penalty' + pHeight' >= penalty + pHeight
      BY SMT, <1>0, <2>1
    <2> QED
      BY <1>0, <1>s, <2>1, <2>4, <2>5
  <1>4. CASE P!BanIfNotBanned
    <2>1. banHeight' = banHeight
      BY SMT, <1>0, <1>4 DEF P!BanIfNotBanned, P!Banned
    <2>2. pHeight' = pHeight /\ penalty' = penalty /\ fails' = fails /\ peak' = peak
      BY <1>4 DEF P!BanIfNotBanned
    <2>3. penalty' + pHeight' >= penalty + pHeight
      BY SMT, <1>0, <2>2
    <2> QED
      BY <1>0, <1>s, <2>1, <2>2, <2>3
  <1>5. CASE P!Revive
    <2>1. fails' = <<>>
      BY <1>5 DEF P!Revive
    <2>2. ~(Len(fails') >= 1)
      BY SMT, <2>1
    <2> QED
      BY <2>2
  <1>6. CASE UNCHANGED P!vars
    <2>1. pHeight' = pHeight /\ penalty' = penalty /\ banHeight' = banHeight /\ fails' = fails /\ peak' = peak
      BY <1>6 DEF P!vars
    <2>2. penalty' + pHeight' >= penalty + pHeight
      BY SMT, <1>0, <2>1
    <2> QED
      BY <1>0, <1>s, <2>1, <2>2
  <1> QED
    BY <1>1, <1>2, <1>3, <1>4, <1>5, <1>6 DEF P!Next

\* The intent of HandleQuorumCommitment's penalty, for any list, any share of the maximum
\* and any number of sessions: two failures close enough together always ban.
THEOREM TwoFailures == P!Spec => []TwoFailuresBan
  <1>1. PenaltyInv /\ FailuresInv => TwoFailuresBan
    <2> DEFINE cost == (MinMaxPenalty * Percent) \div 100
               n == Len(fails)
               gap == P!LastTwo[2] - P!LastTwo[1]
    <2> SUFFICES ASSUME PenaltyInv, FailuresInv, peak = MinMaxPenalty, n >= 2, ~P!Banned,
                        gap <= 2 * P!CalcPenalty - MinMaxPenalty
                 PROVE  FALSE
      BY DEF TwoFailuresBan, P!TwoFailuresBan
    <2>1. count \in Nat /\ peak >= P!MaxPenaltyOf(count) /\ peak \in Nat /\ fails \in Seq(Nat) /\ n \in Nat
      BY SMT, PoSeConstantTypes DEF PenaltyInv
    <2>2. P!MaxPenaltyOf(count) \in Nat /\ P!MaxPenaltyOf(count) >= MinMaxPenalty
      BY <2>1, CostType
    <2>3. P!MaxPenaltyOf(count) = MinMaxPenalty
      BY SMT, <2>1, <2>2, PoSeConstantTypes
    <2>4. P!CalcPenalty = cost
      BY <2>3 DEF P!CalcPenalty, P!CalcMaxPoSePenalty
    <2>5. P!LastTwo = SubSeq(fails, n - 1, n)
      <3>1. ~(n < 2)
        BY SMT, <2>1
      <3> QED
        BY <3>1 DEF P!LastTwo
    <2>6. /\ SubSeq(fails, n - 1, n)[1] = fails[n - 1] /\ SubSeq(fails, n - 1, n)[2] = fails[n]
          /\ fails[n - 1] \in Nat /\ fails[n] \in Nat
      BY SMT, <2>1
    <2>7. n >= 1
      BY SMT, <2>1
    <2>8. fails[n] - fails[n - 1] > 2 * cost - MinMaxPenalty
      BY <2>7 DEF FailuresInv
    <2>9. cost \in Nat
      BY <2>1, <2>3, CostType
    <2>10. gap = fails[n] - fails[n - 1] /\ gap <= 2 * cost - MinMaxPenalty
      BY <2>4, <2>5, <2>6
    <2> HIDE DEF cost, gap
    <2> QED
      BY SMT, <2>6, <2>8, <2>9, <2>10, PoSeConstantTypes
  <1> QED
    BY <1>1, PenaltyInit, PenaltyNext, FailuresInit, FailuresNext, PTL DEF P!Spec

-----------------------------------------------------------------------------
\* QuorumBlocks: the chain is a sequence of blocks that starts with the first one.
AnyBlock == Q!Blocks \cup {[qc |-> Q!NoQc, salt |-> CHOOSE s \in Salts : TRUE]}

\* The session of the block at position i of the chain c, and whether no block of c
\* before i has a commitment for it.
Session(c, i) == SubSeq(c, 1, (i - 1) - ((i - 1) % Interval) + 1)
Unmined(c, i) == \A j \in DOMAIN c : j < i /\ c[j].qc \in Signers => Session(c, j) # Session(c, i)

\* MinedMatchesChain, of a chain c and a database m.
Matches(c, m) ==
    /\ \A x : x \in m <=> \E i \in DOMAIN c : c[i].qc \in Signers /\ x = Q!Commitment(Session(c, i), c[i].qc)
    /\ \A i \in DOMAIN c : c[i].qc # Q!NoQc <=> Q!IsMiningPhase(i - 1) /\ Unmined(c, i)

Offerable == [quorum : Seq(AnyBlock) \ {<<>>}, signers : Signers]

QuorumInv ==
    /\ chain \in Seq(AnyBlock) /\ chain # <<>>
    /\ Matches(chain, mined)
    /\ byQuorum \subseteq minable /\ minable \subseteq Offerable /\ verifying \subseteq Offerable
    /\ \A c, d \in byQuorum : c.quorum = d.quorum => c = d

LEMMA QuorumConstantTypes ==
    /\ Interval \in Nat /\ Interval > 0 /\ WindowStart \in Nat /\ WindowStart >= 1 /\ WindowEnd \in Nat
    /\ \A n \in Signers : n \in Nat /\ n # Q!NoQc /\ n # Q!NullQc
  <1>1. Interval \in Nat /\ Interval > 0 /\ WindowStart \in 1..WindowEnd /\ WindowEnd < Interval /\ WindowEnd \in Int
    BY SMT, QuorumConstants DEF Q!QuorumAssumption
  <1>2. \A n \in Signers : n \in Nat /\ n # -1 /\ n # 0
    BY SMT, QuorumConstants DEF Q!QuorumAssumption
  <1> QED
    BY SMT, <1>1, <1>2 DEF Q!NoQc, Q!NullQc

\* Where a session starts.
LEMMA SessionStart ==
    ASSUME NEW h \in Nat
    PROVE  h - (h % Interval) \in 0..h /\ (Q!IsMiningPhase(h) => h - (h % Interval) < h)
  <1>1. h % Interval \in Nat /\ h % Interval <= h
    BY SMT, QuorumConstantTypes
  <1>2. Q!IsMiningPhase(h) => h % Interval >= 1
    BY SMT, <1>1, QuorumConstantTypes DEF Q!IsMiningPhase
  <1> QED
    BY SMT, <1>1, <1>2

\* The beginnings of a sequence do not change at its end.
LEMMA PrefixAppend ==
    ASSUME NEW A, NEW s \in Seq(A), NEW e \in A, NEW k \in 0..Len(s)
    PROVE  SubSeq(Append(s, e), 1, k) = SubSeq(s, 1, k)
  BY SMT

LEMMA PrefixFront ==
    ASSUME NEW A, NEW s \in Seq(A), NEW k \in 0..(Len(s) - 1)
    PROVE  SubSeq(SubSeq(s, 1, Len(s) - 1), 1, k) = SubSeq(s, 1, k)
  BY SMT

LEMMA PrefixType ==
    ASSUME NEW A, NEW s \in Seq(A), NEW k \in 1..Len(s)
    PROVE  SubSeq(s, 1, k) \in Seq(A) /\ SubSeq(s, 1, k) # <<>>
  <1>1. SubSeq(s, 1, k) \in Seq(A) /\ Len(SubSeq(s, 1, k)) = k
    BY SMT
  <1> QED
    BY SMT, <1>1

\* A block is connected.
LEMMA AppendMatches ==
    ASSUME NEW c \in Seq(AnyBlock), NEW m, Matches(c, m), NEW b \in AnyBlock, NEW q,
           Q!IsMiningPhase(Len(c)) => q = Session(Append(c, b), Len(c) + 1),
           b.qc # Q!NoQc <=> Q!IsMiningPhase(Len(c)) /\ ~(\E x \in m : x.quorum = q)
    PROVE  Matches(Append(c, b), IF b.qc \in Signers THEN m \cup {Q!Commitment(q, b.qc)} ELSE m)
  <1> DEFINE n == Len(c)
             d == Append(c, b)
             k == IF b.qc \in Signers THEN m \cup {Q!Commitment(q, b.qc)} ELSE m
  <1>0. n \in Nat /\ DOMAIN c = 1..n /\ (n + 1) - 1 = n
    BY SMT
  <1>1. DOMAIN d = 1..(n + 1) /\ d[n + 1] = b /\ \A i \in 1..n : d[i] = c[i]
    BY SMT
  <1>2. ASSUME NEW i \in 1..n PROVE Session(d, i) = Session(c, i)
    <2>1. i - 1 \in Nat /\ i - 1 < n
      BY SMT, <1>0
    <2>2. (i - 1) - ((i - 1) % Interval) \in 0..(i - 1)
      BY <2>1, SessionStart
    <2> DEFINE e == (i - 1) - ((i - 1) % Interval)
    <2> HIDE DEF e
    <2>3. e + 1 \in 0..n
      BY SMT, <1>0, <2>1, <2>2 DEF e
    <2>4. SubSeq(d, 1, e + 1) = SubSeq(c, 1, e + 1)
      BY <2>3, PrefixAppend
    <2> QED
      BY <2>4 DEF Session, e
  <1> HIDE DEF n, d
  <1>3. \A i \in 1..(n + 1) : i \in 1..n \/ i = n + 1
    BY SMT, <1>0
  <1>4. n + 1 \in 1..(n + 1) /\ (\A i \in 1..n : i \in 1..(n + 1) /\ i < n + 1) /\ ~(n + 1 < n + 1)
    BY SMT, <1>0
  <1>5. ASSUME NEW i \in 1..n PROVE Unmined(d, i) <=> Unmined(c, i)
    <2>1. \A j \in 1..(n + 1) : j < i => j \in 1..n
      BY SMT, <1>0
    <2> QED
      BY <1>0, <1>1, <1>2, <1>4, <2>1 DEF Unmined
  <1>6. \A i \in 1..n : d[i].qc # Q!NoQc <=> Q!IsMiningPhase(i - 1) /\ Unmined(d, i)
    BY <1>0, <1>1, <1>5 DEF Matches
  <1>7. ASSUME Q!IsMiningPhase(n)
        PROVE  (\E x \in m : x.quorum = q) <=> ~Unmined(d, n + 1)
    <2>1. q = Session(d, n + 1)
      BY <1>7 DEF n, d
    <2>2. (\E x \in m : x.quorum = q) <=> \E i \in 1..n : c[i].qc \in Signers /\ Session(c, i) = q
      <3>1. \A i \in 1..n : Q!Commitment(Session(c, i), c[i].qc).quorum = Session(c, i)
        BY DEF Q!Commitment
      <3>2. ASSUME NEW x \in m, x.quorum = q PROVE \E i \in 1..n : c[i].qc \in Signers /\ Session(c, i) = q
        <4>1. PICK i \in DOMAIN c : c[i].qc \in Signers /\ x = Q!Commitment(Session(c, i), c[i].qc)
          BY DEF Matches
        <4>2. i \in 1..n /\ Session(c, i) = q
          BY <1>0, <3>1, <3>2, <4>1
        <4> QED
          BY <4>1, <4>2
      <3>3. ASSUME NEW i \in 1..n, c[i].qc \in Signers, Session(c, i) = q PROVE \E x \in m : x.quorum = q
        <4>1. Q!Commitment(Session(c, i), c[i].qc) \in m
          BY <1>0, <3>3 DEF Matches
        <4> QED
          BY <3>1, <3>3, <4>1
      <3> QED
        BY <3>2, <3>3
    <2>3. Unmined(d, n + 1) <=> \A j \in 1..n : d[j].qc \in Signers => Session(d, j) # Session(d, n + 1)
      BY <1>1, <1>3, <1>4 DEF Unmined
    <2> QED
      BY <1>1, <1>2, <2>1, <2>2, <2>3
  <1>8. d[n + 1].qc # Q!NoQc <=> Q!IsMiningPhase((n + 1) - 1) /\ Unmined(d, n + 1)
    BY <1>0, <1>1, <1>7 DEF n
  <1>9. ASSUME NEW x
        PROVE  x \in k <=> \E i \in 1..(n + 1) : d[i].qc \in Signers /\ x = Q!Commitment(Session(d, i), d[i].qc)
    <2>1. x \in m <=> \E i \in 1..n : d[i].qc \in Signers /\ x = Q!Commitment(Session(d, i), d[i].qc)
      BY <1>0, <1>1, <1>2 DEF Matches
    <2>2. CASE b.qc \in Signers
      <3>1. b.qc # Q!NoQc
        BY <2>2, QuorumConstantTypes
      <3>2. q = Session(d, n + 1)
        BY <3>1 DEF n, d
      <3> QED
        BY <1>1, <1>3, <1>4, <2>1, <2>2, <3>2
    <2>3. CASE b.qc \notin Signers
      BY <1>1, <1>3, <1>4, <2>1, <2>3
    <2> QED
      BY <2>2, <2>3
  <1> HIDE DEF k
  <1>10. Matches(d, k)
    BY <1>1, <1>3, <1>6, <1>8, <1>9 DEF Matches
  <1> QED
    BY <1>10 DEF d, k

\* The last block is disconnected: no other block has a commitment for its session.
LEMMA FrontMatches ==
    ASSUME NEW c \in Seq(AnyBlock), c # <<>>, NEW m, Matches(c, m)
    PROVE  LET n == Len(c)
           IN  Matches(SubSeq(c, 1, n - 1), {x \in m : c[n].qc \in Signers => x.quorum # Session(c, n)})
  <1> DEFINE n == Len(c)
             d == SubSeq(c, 1, n - 1)
             k == {x \in m : c[n].qc \in Signers => x.quorum # Session(c, n)}
  <1>0. n \in Nat /\ n >= 1 /\ DOMAIN c = 1..n /\ n \in 1..n
    BY SMT
  <1>1. DOMAIN d = 1..(n - 1) /\ \A i \in 1..(n - 1) : d[i] = c[i]
    BY SMT, <1>0
  <1>2. ASSUME NEW i \in 1..(n - 1) PROVE Session(d, i) = Session(c, i)
    <2>1. i - 1 \in Nat /\ i - 1 < n - 1
      BY SMT, <1>0
    <2>2. (i - 1) - ((i - 1) % Interval) \in 0..(i - 1)
      BY <2>1, SessionStart
    <2> DEFINE e == (i - 1) - ((i - 1) % Interval)
    <2> HIDE DEF e
    <2>3. e + 1 \in 0..(n - 1)
      BY SMT, <1>0, <2>1, <2>2 DEF e
    <2>4. SubSeq(d, 1, e + 1) = SubSeq(c, 1, e + 1)
      BY <2>3, PrefixFront
    <2> QED
      BY <2>4 DEF Session, e
  <1> HIDE DEF n, d
  <1>3. (\A i \in 1..(n - 1) : i \in 1..n /\ i < n) /\ \A i \in 1..n : i \in 1..(n - 1) \/ i = n
    BY SMT, <1>0
  <1>5. ASSUME NEW i \in 1..(n - 1) PROVE Unmined(d, i) <=> Unmined(c, i)
    <2>1. \A j \in 1..n : j < i => j \in 1..(n - 1)
      BY SMT, <1>0
    <2> QED
      BY <1>0, <1>1, <1>2, <1>3, <2>1 DEF Unmined
  <1>6. \A i \in 1..(n - 1) : d[i].qc # Q!NoQc <=> Q!IsMiningPhase(i - 1) /\ Unmined(d, i)
    BY <1>0, <1>1, <1>3, <1>5 DEF Matches
  <1>7. ASSUME c[n].qc \in Signers, NEW j \in 1..(n - 1), c[j].qc \in Signers PROVE Session(c, j) # Session(c, n)
    <2>1. c[n].qc # Q!NoQc
      BY <1>7, QuorumConstantTypes
    <2>2. Unmined(c, n)
      BY <1>0, <2>1 DEF Matches
    <2> QED
      BY <1>0, <1>3, <1>7, <2>2 DEF Unmined
  <1>8. \A i \in 1..n : Q!Commitment(Session(c, i), c[i].qc).quorum = Session(c, i)
    BY DEF Q!Commitment
  <1>9. ASSUME NEW x
        PROVE  x \in k <=> \E i \in 1..(n - 1) : d[i].qc \in Signers /\ x = Q!Commitment(Session(d, i), d[i].qc)
    <2>1. x \in m <=> \E i \in 1..n : c[i].qc \in Signers /\ x = Q!Commitment(Session(c, i), c[i].qc)
      BY <1>0 DEF Matches
    <2>2. (\E i \in 1..(n - 1) : d[i].qc \in Signers /\ x = Q!Commitment(Session(d, i), d[i].qc))
            <=> \E i \in 1..(n - 1) : c[i].qc \in Signers /\ x = Q!Commitment(Session(c, i), c[i].qc)
      BY <1>1, <1>2
    <2>3. CASE c[n].qc \in Signers
      BY <1>3, <1>7, <1>8, <2>1, <2>2, <2>3
    <2>4. CASE c[n].qc \notin Signers
      BY <1>3, <2>1, <2>2, <2>4
    <2> QED
      BY <2>3, <2>4
  <1> HIDE DEF k
  <1>10. Matches(d, k)
    BY <1>1, <1>6, <1>9 DEF Matches
  <1> QED
    BY <1>10 DEF d, k, n

\* The map by quorum has the best commitment that was offered for a quorum.
LEMMA AddMinableKeeps ==
    ASSUME byQuorum \subseteq minable, minable \subseteq Offerable, NEW c \in Offerable,
           \A x, y \in byQuorum : x.quorum = y.quorum => x = y,
           Q!AddMinableCommitment(c)
    PROVE  /\ byQuorum' \subseteq minable' /\ minable' \subseteq Offerable
           /\ \A x, y \in byQuorum' : x.quorum = y.quorum => x = y
           /\ \E x \in byQuorum' : x.quorum = c.quorum /\ x.signers >= c.signers
  <1> DEFINE same == {k \in byQuorum : k.quorum = c.quorum}
             better == \A k \in same : c.signers > k.signers
  <1>1. /\ byQuorum' = IF better THEN (byQuorum \ same) \cup {c} ELSE byQuorum
        /\ minable' = IF better THEN minable \cup {c} ELSE minable
    BY DEF Q!AddMinableCommitment
  <1>2. \A x \in Offerable : x.signers \in Nat
    BY QuorumConstantTypes DEF Offerable
  <1>3. CASE better
    <2>1. c.signers >= c.signers
      BY SMT, <1>2
    <2>2. byQuorum' = (byQuorum \ same) \cup {c} /\ minable' = minable \cup {c}
      BY <1>1, <1>3
    <2>3. \A x, y \in byQuorum' : x.quorum = y.quorum => x = y
      BY <2>2
    <2> QED
      BY <2>1, <2>2, <2>3
  <1>4. CASE ~better
    <2>1. PICK k \in same : ~(c.signers > k.signers)
      BY <1>4
    <2>2. k \in Offerable /\ k \in byQuorum /\ k.quorum = c.quorum
      BY <2>1
    <2>3. k.signers >= c.signers
      BY SMT, <1>2, <2>1, <2>2
    <2>4. byQuorum' = byQuorum /\ minable' = minable
      BY <1>1, <1>4
    <2> QED
      BY <2>2, <2>3, <2>4
  <1> QED
    BY <1>3, <1>4

LEMMA QuorumInit == Q!Init => QuorumInv
  <1> SUFFICES ASSUME Q!Init PROVE QuorumInv
    OBVIOUS
  <1> DEFINE g == [qc |-> Q!NoQc, salt |-> CHOOSE s \in Salts : TRUE]
  <1>1. chain = <<g>> /\ mined = {} /\ minable = {} /\ byQuorum = {} /\ verifying = {}
    BY DEF Q!Init
  <1>2. g \in AnyBlock /\ g.qc = Q!NoQc
    BY DEF AnyBlock
  <1> HIDE DEF g
  <1>3. chain \in Seq(AnyBlock) /\ chain # <<>> /\ DOMAIN chain = {1} /\ chain[1] = g
    BY SMT, <1>1, <1>2
  <1>4. ~Q!IsMiningPhase(1 - 1)
    <2>1. 1 - 1 = 0 /\ 0 \in Nat /\ ~(0 - (0 % Interval) < 0)
      <3>1. 0 - (0 % Interval) \in 0..0
        BY SMT, SessionStart
      <3> QED
        BY SMT, <3>1
    <2> QED
      BY <2>1, SessionStart
  <1>5. g.qc \notin Signers
    BY <1>2, QuorumConstantTypes
  <1>6. Matches(chain, mined)
    BY <1>1, <1>2, <1>3, <1>4, <1>5 DEF Matches
  <1> QED
    BY <1>1, <1>3, <1>6 DEF QuorumInv

LEMMA ConnectKeeps == ASSUME QuorumInv, NEW b \in Q!Blocks, Q!ConnectBlock(b) PROVE QuorumInv'
  <1> DEFINE h == Len(chain)
             q == Q!GetQuorumBlockHash(h)
             start == h - (h % Interval)
  <1>1. /\ b.qc # Q!NoQc <=> Q!IsCommitmentRequired(h)
        /\ chain' = Append(chain, b)
        /\ mined' = IF b.qc \in Signers THEN mined \cup {Q!Commitment(q, b.qc)} ELSE mined
        /\ minable' = minable /\ byQuorum' = byQuorum /\ verifying' = verifying
    BY DEF Q!ConnectBlock
  <1>2. chain \in Seq(AnyBlock) /\ b \in AnyBlock /\ Matches(chain, mined)
    BY DEF QuorumInv, AnyBlock
  <1>3. chain' \in Seq(AnyBlock) /\ chain' # <<>> /\ h \in Nat /\ (h + 1) - 1 = h
    BY SMT, <1>1, <1>2
  <1>4. ASSUME Q!IsMiningPhase(h) PROVE q # <<>> /\ q = Session(Append(chain, b), h + 1)
    <2>1. start \in 0..h /\ start < h
      BY <1>3, <1>4, SessionStart
    <2> HIDE DEF start
    <2>2. start + 1 \in 1..h /\ start + 1 \in 0..h
      BY SMT, <1>3, <2>1
    <2>3. q = SubSeq(chain, 1, start + 1)
      BY <2>1 DEF Q!GetQuorumBlockHash, start
    <2>4. q # <<>>
      BY <1>2, <2>2, <2>3, PrefixType
    <2>5. SubSeq(Append(chain, b), 1, start + 1) = SubSeq(chain, 1, start + 1)
      BY <1>2, <2>2, PrefixAppend
    <2> QED
      BY <1>3, <2>3, <2>4, <2>5 DEF Session, start
  <1> HIDE DEF q
  <1>5. b.qc # Q!NoQc <=> Q!IsMiningPhase(h) /\ ~(\E x \in mined : x.quorum = q)
    BY <1>1, <1>4 DEF Q!IsCommitmentRequired, Q!HasMinedCommitment, Q!NoQuorum, q
  <1>6. Matches(chain', mined')
    BY <1>1, <1>2, <1>4, <1>5, AppendMatches
  <1> QED
    BY <1>1, <1>3, <1>6 DEF QuorumInv

\* What is disconnected, and that it can be offered.
LEMMA Disconnected ==
    ASSUME QuorumInv, Len(chain) - 1 > 0
    PROVE  LET n == Len(chain)
               c == Q!Commitment(Q!GetQuorumBlockHash(n - 1), chain[n].qc)
           IN  /\ c.quorum = Session(chain, n) /\ c.quorum = Q!GetQuorumBlockHash(n - 1) /\ c.signers = chain[n].qc
               /\ chain[n].qc \in Signers => c \in Offerable
  <1> DEFINE n == Len(chain)
             c == Q!Commitment(Q!GetQuorumBlockHash(n - 1), chain[n].qc)
             start == (n - 1) - ((n - 1) % Interval)
  <1>1. chain \in Seq(AnyBlock) /\ n \in Nat /\ n - 1 \in Nat
    BY SMT DEF QuorumInv
  <1>2. start \in 0..(n - 1)
    BY <1>1, SessionStart
  <1> HIDE DEF start
  <1>3. start < n /\ start + 1 \in 1..n
    BY SMT, <1>1, <1>2
  <1>4. Q!GetQuorumBlockHash(n - 1) = SubSeq(chain, 1, start + 1)
    BY <1>3 DEF Q!GetQuorumBlockHash, start
  <1>5. SubSeq(chain, 1, start + 1) = Session(chain, n)
    BY DEF Session, start
  <1>6. SubSeq(chain, 1, start + 1) \in Seq(AnyBlock) \ {<<>>}
    BY <1>1, <1>3, PrefixType
  <1>7. c.quorum = Q!GetQuorumBlockHash(n - 1) /\ c.signers = chain[n].qc
    BY DEF Q!Commitment
  <1>8. chain[n].qc \in Signers => c \in Offerable
    BY <1>4, <1>6 DEF Q!Commitment, Offerable
  <1> QED
    BY <1>4, <1>5, <1>7, <1>8

LEMMA UndoKeeps == ASSUME QuorumInv, Q!UndoBlock PROVE QuorumInv'
  <1> DEFINE n == Len(chain)
             c == Q!Commitment(Q!GetQuorumBlockHash(n - 1), chain[n].qc)
  <1>1. /\ n - 1 > 0 /\ chain' = SubSeq(chain, 1, n - 1)
        /\ mined' = {k \in mined : chain[n].qc \in Signers => k.quorum # c.quorum}
        /\ IF chain[n].qc \in Signers THEN Q!AddMinableCommitment(c) ELSE byQuorum' = byQuorum /\ minable' = minable
        /\ verifying' = verifying
    BY DEF Q!UndoBlock
  <1>2. /\ c.quorum = Session(chain, n)
        /\ chain[n].qc \in Signers => c \in Offerable
    BY <1>1, Disconnected
  <1>3. chain \in Seq(AnyBlock) /\ chain # <<>> /\ Matches(chain, mined)
    BY DEF QuorumInv
  <1>4. chain' \in Seq(AnyBlock) /\ chain' # <<>>
    <2>1. n - 1 \in 1..Len(chain)
      BY SMT, <1>1, <1>3
    <2> QED
      BY <1>1, <1>3, <2>1, PrefixType
  <1>5. Matches(chain', mined')
    BY <1>1, <1>2, <1>3, FrontMatches
  <1> HIDE DEF c
  <1>6. /\ byQuorum' \subseteq minable' /\ minable' \subseteq Offerable
        /\ \A x, y \in byQuorum' : x.quorum = y.quorum => x = y
    <2>1. CASE chain[n].qc \in Signers
      BY <1>1, <1>2, <2>1, AddMinableKeeps DEF QuorumInv
    <2>2. CASE chain[n].qc \notin Signers
      BY <1>1, <2>2 DEF QuorumInv
    <2> QED
      BY <2>1, <2>2
  <1> QED
    BY <1>1, <1>4, <1>5, <1>6 DEF QuorumInv

LEMMA QuorumNext == QuorumInv /\ [Q!Next]_(Q!vars) => QuorumInv'
  <1> SUFFICES ASSUME QuorumInv, [Q!Next]_(Q!vars) PROVE QuorumInv'
    OBVIOUS
  <1>1. CASE \E q \in Q!ActiveQuorums, n \in Signers : Q!ProcessMessage(Q!Commitment(q, n))
    <2>1. PICK q \in Q!ActiveQuorums, n \in Signers : Q!ProcessMessage(Q!Commitment(q, n))
      BY <1>1
    <2>2. PICK h \in 0..(Len(chain) - 1) : q = SubSeq(chain, 1, h + 1)
      BY DEF Q!ActiveQuorums
    <2>3. chain \in Seq(AnyBlock)
      BY DEF QuorumInv
    <2>4. h + 1 \in 1..Len(chain)
      BY SMT, <2>3
    <2>5. q \in Seq(AnyBlock) \ {<<>>}
      BY <2>2, <2>3, <2>4, PrefixType
    <2>6. Q!Commitment(q, n) \in Offerable
      BY <2>5 DEF Q!Commitment, Offerable
    <2>7. /\ verifying' \subseteq verifying \cup {Q!Commitment(q, n)}
          /\ chain' = chain /\ mined' = mined /\ minable' = minable /\ byQuorum' = byQuorum
      BY <2>1 DEF Q!ProcessMessage
    <2> QED
      BY <2>6, <2>7 DEF QuorumInv
  <1>2. CASE \E c \in verifying : Q!Verified(c)
    <2>1. PICK c \in verifying : Q!Verified(c)
      BY <1>2
    <2>2. Q!AddMinableCommitment(c) /\ verifying' \subseteq verifying /\ chain' = chain /\ mined' = mined
      BY <2>1 DEF Q!Verified
    <2>3. c \in Offerable
      BY DEF QuorumInv
    <2>4. /\ byQuorum' \subseteq minable' /\ minable' \subseteq Offerable
          /\ \A x, y \in byQuorum' : x.quorum = y.quorum => x = y
      BY <2>2, <2>3, AddMinableKeeps DEF QuorumInv
    <2> QED
      BY <2>2, <2>4 DEF QuorumInv
  <1>3. CASE \E b \in Q!Blocks : Q!ConnectBlock(b)
    BY <1>3, ConnectKeeps
  <1>4. CASE Q!UndoBlock
    BY <1>4, UndoKeeps
  <1>5. CASE UNCHANGED Q!vars
    BY <1>5 DEF Q!vars, QuorumInv
  <1> QED
    BY <1>1, <1>2, <1>3, <1>4, <1>5 DEF Q!Next

\* After any reorganisation the database holds exactly the commitments of the active
\* chain, one for each session at most, for any interval, window and number of signers.
THEOREM DatabaseMatchesChain == Q!Spec => []MinedMatchesChain
  <1>1. QuorumInv => MinedMatchesChain
    <2> SUFFICES ASSUME QuorumInv PROVE MinedMatchesChain
      OBVIOUS
    <2> DEFINE real == {i \in DOMAIN chain : chain[i].qc \in Signers}
               before(i) == {j \in real : j < i /\ Q!SessionOf(j) = Q!SessionOf(i)}
    <2>1. \A i : Q!SessionOf(i) = Session(chain, i)
      BY DEF Q!SessionOf, Session
    <2>2. mined = {Q!Commitment(Q!SessionOf(i), chain[i].qc) : i \in real}
      BY <2>1 DEF QuorumInv, Matches
    <2>3. \A i \in DOMAIN chain : before(i) = {} <=> Unmined(chain, i)
      BY <2>1 DEF Unmined
    <2>4. \A i \in DOMAIN chain : chain[i].qc # Q!NoQc <=> Q!IsMiningPhase(i - 1) /\ before(i) = {}
      BY <2>3 DEF QuorumInv, Matches
    <2> QED
      BY <2>2, <2>4 DEF MinedMatchesChain, Q!MinedMatchesChain
  <1> QED
    BY <1>1, QuorumInit, QuorumNext, PTL DEF Q!Spec

\* The index by quorum always names a commitment that is still there, and one only, so
\* that minableCommitments.at() cannot throw.
THEOREM IndexStaysComplete == Q!Spec => []IndexComplete
  <1>1. QuorumInv => IndexComplete
    BY DEF QuorumInv, Offerable, IndexComplete, Q!IndexComplete, Q!NoQuorum
  <1> QED
    BY <1>1, QuorumInit, QuorumNext, PTL DEF Q!Spec

\* A commitment that was mined and whose block is disconnected is offered again, or a
\* better one is: the session is open, and nothing in the database stands for it.
LEMMA OfferedAgain ==
    ASSUME QuorumInv, Q!UndoBlock, chain[Len(chain)].qc \in Signers
    PROVE  Q!NextTemplate' >= chain[Len(chain)].qc
  <1> DEFINE n == Len(chain)
             c == Q!Commitment(Q!GetQuorumBlockHash(n - 1), chain[n].qc)
             q == Session(chain, n)
  <1>0. QuorumInv'
    BY UndoKeeps
  <1>1. /\ n - 1 > 0 /\ chain' = SubSeq(chain, 1, n - 1)
        /\ mined' = {k \in mined : k.quorum # c.quorum}
        /\ Q!AddMinableCommitment(c)
    BY DEF Q!UndoBlock
  <1> PICK h : h = n - 1
    OBVIOUS
  <1> DEFINE start == h - (h % Interval)
  <1>2. c.quorum = q /\ c.signers = chain[n].qc /\ c \in Offerable
    BY <1>1, Disconnected
  <1>3. chain \in Seq(AnyBlock) /\ n \in Nat /\ h \in Nat /\ n \in DOMAIN chain /\ Len(chain') = h
    BY SMT, <1>1 DEF QuorumInv
  <1>4. Q!IsMiningPhase(h)
    <2>1. chain[n].qc # Q!NoQc
      BY QuorumConstantTypes
    <2> QED
      BY <1>3, <2>1 DEF QuorumInv, Matches
  <1>5. start \in 0..h /\ start < h
    BY <1>3, <1>4, SessionStart
  <1> HIDE DEF start
  <1>6. start + 1 \in 0..h /\ start + 1 \in 0..(n - 1) /\ start + 1 \in 1..n
    BY SMT, <1>3, <1>5
  <1>7. Q!GetQuorumBlockHash(h)' = SubSeq(chain', 1, start + 1)
    BY <1>3, <1>5 DEF Q!GetQuorumBlockHash, start
  <1>8. SubSeq(chain', 1, start + 1) = q
    <2>1. SubSeq(SubSeq(chain, 1, n - 1), 1, start + 1) = SubSeq(chain, 1, start + 1)
      BY <1>3, <1>6, PrefixFront
    <2> QED
      BY <1>1, <2>1 DEF Session, start
  <1>9. q # <<>>
    BY <1>2 DEF Offerable
  <1> HIDE DEF c, q
  <1>10. Q!IsCommitmentRequired(h)'
    BY <1>1, <1>2, <1>4, <1>7, <1>8, <1>9
    DEF Q!IsCommitmentRequired, Q!HasMinedCommitment, Q!NoQuorum, Q!IsMiningPhase
  <1> DEFINE offers == {k \in byQuorum' : k.quorum = q}
  <1>11. PICK x \in byQuorum' : x.quorum = c.quorum /\ x.signers >= c.signers
    BY <1>1, <1>2, AddMinableKeeps DEF QuorumInv
  <1>12. offers = {x}
    BY <1>0, <1>2, <1>11 DEF QuorumInv
  <1>13. (CHOOSE k \in offers : TRUE) = x
    BY <1>12
  <1>14. Q!GetMinableCommitment(h)' = x.signers
    BY <1>7, <1>8, <1>10, <1>12, <1>13 DEF Q!GetMinableCommitment
  <1> QED
    BY <1>2, <1>3, <1>11, <1>14 DEF Q!NextTemplate, Q!GetMinableCommitment

THEOREM OfferedAfterDisconnect == Q!Spec => DisconnectedMinedAgain
  <1>1. QuorumInv /\ [Q!Next]_(Q!vars) =>
          [Len(chain') < Len(chain) /\ chain[Len(chain)].qc \in Signers
             => Q!NextTemplate' >= chain[Len(chain)].qc]_(Q!vars)
    <2> SUFFICES ASSUME QuorumInv, [Q!Next]_(Q!vars), Len(chain') < Len(chain), chain[Len(chain)].qc \in Signers
                 PROVE  Q!NextTemplate' >= chain[Len(chain)].qc
      OBVIOUS
    <2>1. chain \in Seq(AnyBlock)
      BY DEF QuorumInv
    <2>2. chain' # chain
      BY SMT, <2>1
    <2>3. \A b : chain' # Append(chain, b)
      BY SMT, <2>1
    <2>4. Q!UndoBlock
      BY <2>2, <2>3 DEF Q!Next, Q!vars, Q!ProcessMessage, Q!Verified, Q!ConnectBlock
    <2> QED
      BY <2>4, OfferedAgain
  <1> QED
    BY <1>1, QuorumInit, QuorumNext, PTL DEF Q!Spec, DisconnectedMinedAgain, Q!DisconnectedMinedAgain

-----------------------------------------------------------------------------
\* A set of numbers that has 0 and with each number the next one has them all.
LEMMA Induction ==
    ASSUME NEW A \in SUBSET Nat, 0 \in A, \A n \in A : n + 1 \in A
    PROVE  A = Nat
<1> SUFFICES ASSUME Nat \ A # {} PROVE FALSE
  OBVIOUS
<1>1. PICK x \in Nat \ A : \A y \in Nat \ A : x <= y
  <2>1. Nat \ A \subseteq Nat
    OBVIOUS
  <2> QED
    BY <2>1, LeastNat
<1>2. x # 0 /\ x - 1 \in Nat /\ ~(x <= x - 1) /\ (x - 1) + 1 = x
  BY SMT
<1>3. x - 1 \in A
  BY <1>1, <1>2
<1> QED
  BY <1>2, <1>3

\* The store of the lists, MNListCache.
Tree == Cache!TreeAssumption

\* The difference and the list of a block nobody has changed since, and what a reader gets
\* for a block that is not in the database.
TrueDiff(b) == Cache!Diff(Parent[b], b, Height[b], {b} \cap Changing)
Unknown(b) == Cache!List(b, -1, {})

\* The database has the blocks up to t, and a snapshot wherever one is due.
Stored(d, s, t) ==
    /\ d = [b \in Blocks |-> IF b \in Cache!Path[t] \ {Base} THEN TrueDiff(b) ELSE None]
    /\ s = [b \in Blocks |-> s[b]]
    /\ \A b \in Blocks : s[b] \in {None, Cache!TrueList(b)}
    /\ \A b \in Cache!Path[t] \ {Base} : Height[b] % SnapshotPeriod = 0 \/ Parent[b] = Base => s[b] # None

\* The cache has what the blocks up to t make, and may have empty lists for others.
Sound(c, t) ==
    /\ c = [b \in Blocks |-> c[b]]
    /\ \A b \in Blocks : c[b] \in {None, Cache!TrueList(b), Unknown(b)}
    /\ \A b \in Cache!Path[t] : c[b] \in {None, Cache!TrueList(b)}

CacheInv ==
    /\ tip \in Blocks /\ tipBlockHash \in Blocks /\ pending \subseteq Blocks
    /\ cachePhase \in {"idle", "connect", "disconnect", "verify", "startup"}
    /\ cachePhase \in {"idle", "startup"} => Stored(diffs, snaps, tip) /\ Sound(cache, tip)
    /\ cachePhase = "connect" =>
           /\ at \in Blocks \ {Base} /\ tip = Parent[at]
           /\ Stored(diffs, snaps, at) /\ Sound(cache, at) /\ Stored(saved.diffs, saved.snaps, tip)
    /\ cachePhase = "disconnect" =>
           /\ at = tip /\ tip # Base
           /\ Stored(diffs, snaps, Parent[tip]) /\ Sound(cache, Parent[tip])
    /\ cachePhase = "verify" =>
           /\ at \in Cache!Path[tip]
           /\ Stored(diffs, snaps, at) /\ Sound(cache, tip) /\ Stored(saved.diffs, saved.snaps, tip)

LEMMA TreeTypes ==
    ASSUME Tree
    PROVE  /\ Base \in Blocks /\ None \notin Blocks /\ None \notin Cache!ListSet /\ None \notin Cache!DiffSet
           /\ Parent \in [Blocks \ {Base} -> Blocks] /\ Changing \subseteq Blocks \ {Base}
           /\ Height \in [Blocks -> Nat] /\ \A b \in Blocks \ {Base} : Height[b] = Height[Parent[b]] + 1
           /\ SnapshotPeriod \in Nat \ {0} /\ CacheSize \in Nat
  BY DEF Tree, Cache!TreeAssumption

LEMMA ParentBelow ==
    ASSUME Tree, NEW b \in Blocks, b # Base
    PROVE  /\ Parent[b] \in Blocks /\ Height[b] \in Nat /\ Height[Parent[b]] \in Nat
           /\ Height[b] = Height[Parent[b]] + 1
<1>1. Parent[b] \in Blocks
  BY TreeTypes
<1> QED
  BY <1>1, TreeTypes

\* From the first block up to every other.
LEMMA TreeInduction ==
    ASSUME Tree, NEW A, Base \in A, \A b \in Blocks \ {Base} : Parent[b] \in A => b \in A
    PROVE  Blocks \subseteq A
<1> DEFINE N == {n \in Nat : \A b \in Blocks : Height[b] <= n => b \in A}
<1>1. 0 \in N
  <2>1. ASSUME NEW b \in Blocks, Height[b] <= 0 PROVE b = Base
    BY SMT, <2>1, ParentBelow
  <2> QED
    BY <2>1
<1>2. ASSUME NEW n \in N PROVE n + 1 \in N
  <2>0. n \in Nat /\ n + 1 \in Nat
    BY SMT, <1>2
  <2>1. ASSUME NEW b \in Blocks, Height[b] <= n + 1, b # Base PROVE b \in A
    <3>1. Parent[b] \in Blocks /\ Height[Parent[b]] <= n
      BY SMT, <2>0, <2>1, ParentBelow
    <3> QED
      BY <1>2, <2>1, <3>1
  <2> QED
    BY <2>0, <2>1
<1>3. N = Nat
  <2> HIDE DEF N
  <2>1. N \in SUBSET Nat
    BY DEF N
  <2> QED
    BY <1>1, <1>2, <2>1, Induction
<1>4. ASSUME NEW b \in Blocks PROVE b \in A
  <2>1. Height[b] \in N /\ Height[b] <= Height[b]
    BY SMT, <1>3, TreeTypes
  <2> QED
    BY <2>1
<1> QED
  BY <1>4

\* A value for every block, from that of its parent: there is such a function.
Step(f, v, s, b) == IF b = Base THEN v ELSE s[b][f[Parent[b]]]
UpTo(n, f, v, s) == \A b \in Blocks : Height[b] <= n => f[b] = Step(f, v, s, b)

LEMMA UpToExists ==
    ASSUME Tree, NEW V, NEW v \in V, NEW s \in [Blocks -> [V -> V]], NEW n \in Nat
    PROVE  \E f \in [Blocks -> V] : UpTo(n, f, v, s)
<1> DEFINE N == {k \in Nat : \E f \in [Blocks -> V] : UpTo(k, f, v, s)}
<1>1. 0 \in N
  <2>1. ASSUME NEW b \in Blocks, Height[b] <= 0 PROVE b = Base
    BY SMT, <2>1, ParentBelow
  <2>2. UpTo(0, [b \in Blocks |-> v], v, s)
    BY <2>1 DEF UpTo, Step
  <2> QED
    BY <2>2
<1>2. ASSUME NEW k \in N PROVE k + 1 \in N
  <2>0. k \in Nat /\ k + 1 \in Nat
    BY SMT, <1>2
  <2>1. PICK f \in [Blocks -> V] : UpTo(k, f, v, s)
    BY <1>2
  <2> DEFINE h == [b \in Blocks |-> Step(f, v, s, b)]
  <2>2. ASSUME NEW b \in Blocks, b # Base PROVE Parent[b] \in Blocks /\ f[Parent[b]] \in V /\ s[b][f[Parent[b]]] \in V
    BY <2>2, ParentBelow
  <2>3. h \in [Blocks -> V]
    BY <2>2 DEF Step
  <2>4. ASSUME NEW b \in Blocks, Height[b] <= k + 1 PROVE h[b] = Step(h, v, s, b)
    <3>1. CASE b = Base
      BY <3>1 DEF Step
    <3>2. CASE b # Base
      <4>1. Parent[b] \in Blocks /\ Height[Parent[b]] <= k
        BY SMT, <2>0, <2>4, <3>2, ParentBelow
      <4>2. h[Parent[b]] = f[Parent[b]]
        BY <2>1, <4>1 DEF UpTo
      <4> QED
        BY <3>2, <4>2 DEF Step
    <3> QED
      BY <3>1, <3>2
  <2> HIDE DEF h
  <2>5. UpTo(k + 1, h, v, s)
    BY <2>4 DEF UpTo
  <2> QED
    BY <2>0, <2>3, <2>5
<1>3. N = Nat
  <2> HIDE DEF N
  <2>1. N \in SUBSET Nat
    BY DEF N
  <2> QED
    BY <1>1, <1>2, <2>1, Induction
<1> QED
  BY <1>3

Agree(f, g, n) == \A b \in Blocks : Height[b] <= n => f[b] = g[b]

LEMMA UpToAgree ==
    ASSUME Tree, NEW v, NEW s, NEW n \in Nat, NEW m \in Nat, m <= n, NEW f, NEW g,
           UpTo(n, f, v, s), UpTo(m, g, v, s)
    PROVE  Agree(f, g, m)
<1> DEFINE A == {x \in Blocks : Height[x] <= m => f[x] = g[x]}
<1>0. \A x \in Blocks : Height[x] <= m => Height[x] <= n
  BY SMT, TreeTypes
<1>1. Base \in A
  BY <1>0, TreeTypes DEF UpTo, Step
<1>2. ASSUME NEW x \in Blocks \ {Base}, Parent[x] \in A, Height[x] <= m PROVE f[x] = g[x]
  <2>1. Height[Parent[x]] <= m
    BY SMT, <1>2, ParentBelow
  <2>2. f[x] = s[x][f[Parent[x]]] /\ g[x] = s[x][g[Parent[x]]]
    BY <1>0, <1>2 DEF UpTo, Step
  <2>3. f[Parent[x]] = g[Parent[x]]
    BY <1>2, <2>1
  <2> QED
    BY <2>2, <2>3
<1>3. Blocks \subseteq A
  <2>1. \A x \in Blocks \ {Base} : Parent[x] \in A => x \in A
    BY <1>2
  <2> HIDE DEF A
  <2> QED
    BY <1>1, <2>1, TreeInduction
<1> QED
  BY <1>3 DEF Agree

LEMMA TreeRecursion ==
    ASSUME Tree, NEW V, NEW v \in V, NEW s \in [Blocks -> [V -> V]]
    PROVE  \E f \in [Blocks -> V] : \A b \in Blocks : f[b] = Step(f, v, s, b)
<1> DEFINE g == [n \in Nat |-> CHOOSE f \in [Blocks -> V] : UpTo(n, f, v, s)]
           f == [b \in Blocks |-> g[Height[b]][b]]
<1>1. \A n \in Nat : g[n] \in [Blocks -> V] /\ UpTo(n, g[n], v, s)
  BY UpToExists
<1> HIDE DEF g
<1>2. \A b \in Blocks : Height[b] \in Nat /\ Height[b] <= Height[b]
  BY SMT, TreeTypes
<1>3. f \in [Blocks -> V]
  BY <1>1, <1>2
<1>4. ASSUME NEW n \in Nat, NEW m \in Nat, m <= n PROVE Agree(g[n], g[m], m)
  <2>1. UpTo(n, g[n], v, s) /\ UpTo(m, g[m], v, s)
    BY <1>1
  <2> QED
    BY <1>4, <2>1, UpToAgree
<1>5. ASSUME NEW b \in Blocks PROVE f[b] = Step(f, v, s, b)
  <2>1. g[Height[b]][b] = Step(g[Height[b]], v, s, b)
    BY <1>1, <1>2 DEF UpTo
  <2>2. CASE b = Base
    BY <2>1, <2>2 DEF Step
  <2>3. CASE b # Base
    <3>1. Parent[b] \in Blocks /\ Height[Parent[b]] <= Height[b]
      BY SMT, <2>3, ParentBelow
    <3>2. g[Height[b]][Parent[b]] = g[Height[Parent[b]]][Parent[b]]
      BY <1>2, <1>4, <3>1 DEF Agree
    <3> QED
      BY <2>1, <2>3, <3>1, <3>2 DEF Step
  <2> QED
    BY <2>2, <2>3
<1> HIDE DEF f
<1> QED
  BY <1>3, <1>5

IsPath(f) == f = [b \in Blocks |-> IF b = Base THEN {b} ELSE f[Parent[b]] \cup {b}]

\* The blocks up to b.
LEMMA PathIs ==
    ASSUME Tree, NEW b \in Blocks
    PROVE  /\ Cache!Path[b] \in SUBSET Blocks
           /\ Cache!Path[b] = IF b = Base THEN {b} ELSE Cache!Path[Parent[b]] \cup {b}
<1> DEFINE V == SUBSET Blocks
           s == [x \in Blocks |-> [v \in V |-> v \cup {x}]]
           first == {Base}
<1>1. first \in V /\ s \in [Blocks -> [V -> V]]
  BY TreeTypes
<1>2. PICK f \in [Blocks -> V] : \A x \in Blocks : f[x] = Step(f, first, s, x)
  <2> HIDE DEF V, s, first
  <2> QED
    BY <1>1, TreeRecursion
<1>3. ASSUME NEW x \in Blocks PROVE f[x] = IF x = Base THEN {x} ELSE f[Parent[x]] \cup {x}
  <2>1. CASE x = Base
    BY <1>2, <2>1 DEF Step
  <2>2. CASE x # Base
    BY <1>2, <2>2, ParentBelow DEF Step
  <2> QED
    BY <2>1, <2>2
<1>4. IsPath(f)
  BY <1>3 DEF IsPath
<1>5. Cache!Path = CHOOSE g : IsPath(g)
  BY DEF Cache!Path, IsPath
<1>6. IsPath(Cache!Path)
  BY <1>4, <1>5
<1>7. \A x \in Blocks : Cache!Path[x] = IF x = Base THEN {x} ELSE Cache!Path[Parent[x]] \cup {x}
  BY <1>6 DEF IsPath
<1> DEFINE A == {x \in Blocks : Cache!Path[x] \in SUBSET Blocks}
<1>8. Base \in A /\ \A x \in Blocks \ {Base} : Parent[x] \in A => x \in A
  <2>1. Base \in Blocks /\ Cache!Path[Base] = {Base}
    BY <1>7, TreeTypes
  <2>2. \A x \in Blocks \ {Base} : Cache!Path[x] = Cache!Path[Parent[x]] \cup {x}
    BY <1>7
  <2>3. ASSUME NEW x \in Blocks \ {Base}, Parent[x] \in A PROVE Cache!Path[x] \in SUBSET Blocks
    BY SMT, <2>2, <2>3
  <2> QED
    BY <2>1, <2>3
<1>9. Blocks \subseteq A
  <2> HIDE DEF A
  <2> QED
    BY <1>8, TreeInduction
<1> QED
  BY <1>7, <1>9

LEMMA PathStep ==
    ASSUME Tree, NEW b \in Blocks, b # Base
    PROVE  /\ Parent[b] \in Blocks /\ Cache!Path[b] = Cache!Path[Parent[b]] \cup {b}
           /\ Cache!Path[Parent[b]] \subseteq Cache!Path[b]
  BY PathIs, ParentBelow

\* The path of a block in it is a part of it; none is as high as its end.
LEMMA PathFacts ==
    ASSUME Tree, NEW b \in Blocks
    PROVE  /\ b \in Cache!Path[b] /\ Base \in Cache!Path[b]
           /\ \A c \in Cache!Path[b] :
                /\ c \in Blocks /\ Cache!Path[c] \subseteq Cache!Path[b]
                /\ Height[c] <= Height[b] /\ (Height[c] = Height[b] => c = b)
<1> DEFINE In(x) == /\ Base \in Cache!Path[x]
                    /\ \A c \in Cache!Path[x] :
                         /\ c \in Blocks /\ Cache!Path[c] \subseteq Cache!Path[x]
                         /\ Height[c] <= Height[x] /\ (Height[c] = Height[x] => c = x)
           A == {x \in Blocks : In(x)}
<1>1. Base \in A
  <2>1. Base \in Blocks /\ Cache!Path[Base] = {Base}
    BY TreeTypes, PathIs
  <2>2. Height[Base] <= Height[Base]
    BY SMT, TreeTypes
  <2> QED
    BY <2>1, <2>2
<1>2. ASSUME NEW x \in Blocks \ {Base}, Parent[x] \in A PROVE x \in A
  <2>1. Parent[x] \in Blocks /\ Cache!Path[x] = Cache!Path[Parent[x]] \cup {x}
    BY PathStep
  <2>2. ASSUME NEW c \in Cache!Path[Parent[x]]
        PROVE  c \in Blocks /\ Height[c] <= Height[x] /\ Height[c] # Height[x]
    <3>1. c \in Blocks /\ Height[c] <= Height[Parent[x]]
      BY <1>2
    <3> QED
      BY SMT, <3>1, ParentBelow, TreeTypes
  <2>3. Height[x] <= Height[x]
    BY SMT, TreeTypes
  <2> QED
    BY <1>2, <2>1, <2>2, <2>3
<1>3. Blocks \subseteq A
  <2>1. \A x \in Blocks \ {Base} : Parent[x] \in A => x \in A
    BY <1>2
  <2> HIDE DEF A
  <2> QED
    BY <1>1, <2>1, TreeInduction
<1>4. b \in Cache!Path[b]
  BY PathIs
<1> QED
  BY <1>3, <1>4

\* A block is not on the path of its parent, and the parent of a block is on its path.
LEMMA ParentPath ==
    ASSUME Tree, NEW b \in Blocks, b # Base
    PROVE  /\ b \notin Cache!Path[Parent[b]] /\ Parent[b] \in Cache!Path[b]
           /\ Cache!Path[b] \ {b} = Cache!Path[Parent[b]]
<1>1. Parent[b] \in Blocks /\ Cache!Path[b] = Cache!Path[Parent[b]] \cup {b}
  BY PathStep
<1>2. ~(Height[b] <= Height[Parent[b]])
  BY SMT, ParentBelow
<1>3. b \notin Cache!Path[Parent[b]] /\ Parent[b] \in Cache!Path[Parent[b]]
  BY <1>1, <1>2, PathFacts
<1> QED
  BY <1>1, <1>3

\* The parent of a block on a path is on it.
LEMMA PathParent ==
    ASSUME Tree, NEW t \in Blocks, NEW b \in Cache!Path[t], b # Base
    PROVE  b \in Blocks /\ Parent[b] \in Blocks /\ Parent[b] \in Cache!Path[t]
  BY PathFacts, PathStep

LEMMA ListTypes ==
    ASSUME Tree, NEW b \in Blocks
    PROVE  /\ Cache!TrueList(b) \in Cache!ListSet /\ Unknown(b) \in Cache!ListSet
           /\ Cache!TrueList(b) # None /\ Unknown(b) # None
           /\ Cache!TrueList(Base) = Unknown(Base)
           /\ b # Base => TrueDiff(b) \in Cache!DiffSet /\ TrueDiff(b) # None
<1>1. Height[b] \in Int /\ -1 \in Int
  BY SMT, TreeTypes
<1>2. Cache!Path[b] \cap Changing \in SUBSET Blocks /\ {} \in SUBSET Blocks /\ {b} \cap Changing \in SUBSET Blocks
  BY PathIs
<1>3. Cache!TrueList(b) \in Cache!ListSet /\ Unknown(b) \in Cache!ListSet
  BY <1>1, <1>2 DEF Cache!TrueList, Unknown, Cache!List, Cache!ListSet
<1>4. b # Base => TrueDiff(b) \in Cache!DiffSet
  BY <1>1, <1>2, ParentBelow DEF TrueDiff, Cache!Diff, Cache!DiffSet
<1>5. Cache!TrueList(Base) = Unknown(Base)
  BY DEF Cache!TrueList, Unknown
<1> QED
  BY <1>3, <1>4, <1>5, TreeTypes

\* The diff of a block makes its list from its parent's, unless that has no height.
LEMMA ApplyTrueDiff ==
    ASSUME Tree, NEW b \in Blocks, b # Base, Parent[b] # Base
    PROVE  Cache!ApplyDiff(Cache!TrueList(Parent[b]), TrueDiff(b)) = Cache!TrueList(b)
<1>1. Parent[b] \in Blocks /\ Height[b] = Height[Parent[b]] + 1
  BY ParentBelow
<1>2. (Cache!Path[Parent[b]] \cap Changing) \cup ({b} \cap Changing) = Cache!Path[b] \cap Changing
  BY SMT, PathStep
<1>3. Cache!TrueList(Parent[b]) = Cache!List(Parent[b], Height[Parent[b]], Cache!Path[Parent[b]] \cap Changing)
  BY DEF Cache!TrueList
<1>4. Cache!TrueList(b) = Cache!List(b, Height[b], Cache!Path[b] \cap Changing)
  BY DEF Cache!TrueList
<1> DEFINE l == Cache!TrueList(Parent[b])
           d == TrueDiff(b)
<1>5. /\ l.hash = Parent[b] /\ l.height = Height[Parent[b]] /\ l.ok = TRUE
      /\ l.mns = Cache!Path[Parent[b]] \cap Changing
  BY SMT, <1>3 DEF Cache!List
<1>6. d.hash = b /\ d.height = Height[b] /\ d.prev = Parent[b] /\ d.added = {b} \cap Changing
  BY DEF TrueDiff, Cache!Diff
<1> HIDE DEF l, d
<1>7. (l.ok /\ (d.added # {} => d.prev = l.hash /\ d.height = l.height + 1)) = TRUE
  BY <1>1, <1>5, <1>6
<1>8. l.mns \cup d.added = Cache!Path[b] \cap Changing
  BY <1>2, <1>5, <1>6
<1>9. Cache!ApplyDiff(l, d) = Cache!List(b, Height[b], Cache!Path[b] \cap Changing)
  BY <1>6, <1>7, <1>8 DEF Cache!ApplyDiff, Cache!List
<1> QED
  BY <1>4, <1>9 DEF l, d

\* What GetListForBlock finds, one block at a time.
Found(c, d, s, f, b) ==
    IF c[b] # None THEN c[b]
    ELSE IF s[b] # None THEN s[b]
    ELSE IF d[b] = None THEN Unknown(b)
    ELSE Cache!ApplyDiff(f[d[b].prev], d[b])
IsFound(c, d, s, f) == f = [b \in Blocks |-> Found(c, d, s, f, b)]

LEMMA ListForBlockIs ==
    ASSUME NEW c, NEW d, NEW s
    PROVE  Cache!ListForBlock(c, d, s) = CHOOSE f : IsFound(c, d, s, f)
  BY DEF Cache!ListForBlock, IsFound, Found, Unknown

LEMMA StoredIs ==
    ASSUME Tree, NEW t \in Blocks, NEW d, NEW s, Stored(d, s, t), NEW b \in Blocks
    PROVE  /\ d[b] = None \/ (b # Base /\ d[b] = TrueDiff(b) /\ d[b].prev = Parent[b])
           /\ d[b] = None <=> b \notin Cache!Path[t] \ {Base}
           /\ s[b] \in {None, Cache!TrueList(b)}
<1>1. d[b] = IF b \in Cache!Path[t] \ {Base} THEN TrueDiff(b) ELSE None
  BY DEF Stored
<1>2. TrueDiff(b).prev = Parent[b]
  BY DEF TrueDiff, Cache!Diff
<1>3. s[b] \in {None, Cache!TrueList(b)}
  BY DEF Stored
<1> QED
  BY <1>1, <1>2, <1>3, ListTypes

LEMMA FoundExists ==
    ASSUME Tree, NEW t \in Blocks, NEW c, NEW d, NEW s, Stored(d, s, t), Sound(c, t)
    PROVE  IsFound(c, d, s, Cache!ListForBlock(c, d, s))
<1> DEFINE V == Cache!ListSet
           g == [b \in Blocks |-> [v \in V |->
                   IF c[b] # None THEN c[b] ELSE IF s[b] # None THEN s[b]
                   ELSE IF d[b] = None THEN Unknown(b) ELSE Cache!ApplyDiff(v, d[b])]]
           first == IF c[Base] # None THEN c[Base] ELSE IF s[Base] # None THEN s[Base] ELSE Unknown(Base)
<1>1. \A b \in Blocks : (c[b] # None => c[b] \in V) /\ (s[b] # None => s[b] \in V) /\ Unknown(b) \in V
  BY SMTT(30), StoredIs, ListTypes DEF Sound
<1>2. first \in V
  BY <1>1, TreeTypes
<1>3. ASSUME NEW b \in Blocks, NEW v \in V, d[b] # None PROVE Cache!ApplyDiff(v, d[b]) \in V
  <2>1. d[b] \in Cache!DiffSet
    BY SMTT(30), <1>3, StoredIs, ListTypes
  <2> QED
    BY SMTT(30), <2>1 DEF Cache!ApplyDiff, Cache!DiffSet, Cache!ListSet
<1>4. g \in [Blocks -> [V -> V]]
  <2> HIDE DEF V
  <2> QED
    BY <1>1, <1>3
<1>5. PICK f \in [Blocks -> V] : \A b \in Blocks : f[b] = Step(f, first, g, b)
  <2> HIDE DEF V, g, first
  <2> QED
    BY <1>2, <1>4, TreeRecursion
<1>6. ASSUME NEW b \in Blocks PROVE f[b] = Found(c, d, s, f, b)
  <2>1. CASE b = Base
    <3>1. d[b] = None
      BY <2>1, StoredIs
    <3> QED
      BY <1>5, <2>1, <3>1 DEF Step, Found
  <2>2. CASE b # Base
    <3>1. f[b] = g[b][f[Parent[b]]] /\ f[Parent[b]] \in V
      BY <1>5, <2>2, ParentBelow DEF Step
    <3>2. d[b] # None => d[b].prev = Parent[b]
      BY SMTT(30), StoredIs
    <3> HIDE DEF V
    <3> QED
      BY <3>1, <3>2 DEF Found
  <2> QED
    BY <2>1, <2>2
<1>7. IsFound(c, d, s, f)
  BY <1>6 DEF IsFound
<1> QED
  BY <1>7, ListForBlockIs

\* The list of a block up to t is the true one, that of another may be empty.
LEMMA FoundTrue ==
    ASSUME Tree, NEW t \in Blocks, NEW c, NEW d, NEW s, Stored(d, s, t), Sound(c, t)
    PROVE  /\ \A b \in Blocks : Cache!ListForBlock(c, d, s)[b] \in {Cache!TrueList(b), Unknown(b)}
           /\ \A b \in Cache!Path[t] : Cache!ListForBlock(c, d, s)[b] = Cache!TrueList(b)
<1> DEFINE f == Cache!ListForBlock(c, d, s)
<1>0. \A b \in Blocks : f[b] = Found(c, d, s, f, b)
  BY SMTT(30), FoundExists DEF IsFound
<1> HIDE DEF f
<1>1. ASSUME NEW b \in Blocks, b \notin Cache!Path[t] PROVE f[b] \in {Cache!TrueList(b), Unknown(b)}
  <2>1. d[b] = None /\ s[b] \in {None, Cache!TrueList(b)} /\ c[b] \in {None, Cache!TrueList(b), Unknown(b)}
    BY SMTT(30), <1>1, StoredIs DEF Sound
  <2> QED
    BY <1>0, <2>1 DEF Found
<1> DEFINE A == {b \in Blocks : b \in Cache!Path[t] => f[b] = Cache!TrueList(b)}
<1>2. Base \in A
  <2>1. /\ Base \in Blocks /\ Base \in Cache!Path[t]
        /\ d[Base] = None /\ s[Base] \in {None, Cache!TrueList(Base)} /\ c[Base] \in {None, Cache!TrueList(Base)}
    BY SMTT(30), TreeTypes, PathFacts, StoredIs DEF Sound
  <2> QED
    BY <1>0, <2>1, ListTypes DEF Found
<1>3. ASSUME NEW b \in Blocks \ {Base}, Parent[b] \in A, b \in Cache!Path[t] PROVE f[b] = Cache!TrueList(b)
  <2>1. /\ s[b] \in {None, Cache!TrueList(b)} /\ c[b] \in {None, Cache!TrueList(b)}
        /\ d[b] = TrueDiff(b) /\ d[b].prev = Parent[b] /\ d[b] # None
    BY SMTT(30), <1>3, StoredIs DEF Sound
  <2>2. Parent[b] \in Cache!Path[t] /\ f[Parent[b]] = Cache!TrueList(Parent[b])
    BY <1>3, PathParent
  <2>3. CASE c[b] # None \/ s[b] # None
    BY <1>0, <2>1, <2>3 DEF Found
  <2>4. CASE c[b] = None /\ s[b] = None
    <3>1. Parent[b] # Base
      BY <1>3, <2>4 DEF Stored
    <3>2. f[b] = Cache!ApplyDiff(f[Parent[b]], TrueDiff(b))
      BY <1>0, <2>1, <2>4 DEF Found
    <3> QED
      BY <2>2, <3>1, <3>2, ApplyTrueDiff
  <2> QED
    BY <2>3, <2>4
<1>4. Blocks \subseteq A
  <2>1. \A b \in Blocks \ {Base} : Parent[b] \in A => b \in A
    BY <1>3
  <2> HIDE DEF A
  <2> QED
    BY <1>2, <2>1, TreeInduction
<1>5. \A b \in Cache!Path[t] : b \in Blocks /\ f[b] = Cache!TrueList(b)
  BY <1>4, PathFacts
<1>6. \A b \in Blocks : f[b] \in {Cache!TrueList(b), Unknown(b)}
  BY <1>1, <1>5
<1> QED
  BY <1>5, <1>6 DEF f

\* GetListForBlock leaves the cache sound, and enters the true list of a block up to t.
LEMMA CachedSound ==
    ASSUME Tree, NEW t \in Blocks, NEW c, NEW d, NEW s, Stored(d, s, t), Sound(c, t), NEW b \in Blocks
    PROVE  /\ Sound(Cache!Cached(c, d, s, b), t)
           /\ b \in Cache!Path[t] => Cache!Cached(c, d, s, b) = [c EXCEPT ![b] = Cache!TrueList(b)]
<1> DEFINE l == Cache!ListForBlock(c, d, s)[b]
           k == [c EXCEPT ![b] = l]
<1>1. l \in {Cache!TrueList(b), Unknown(b)} /\ (b \in Cache!Path[t] => l = Cache!TrueList(b))
  BY SMTT(30), FoundTrue
<1>2. Cache!Cached(c, d, s, b) = k
  BY DEF Cache!Cached
<1> HIDE DEF l
<1>3. c = [x \in Blocks |-> c[x]]
  BY DEF Sound
<1>4. k = [x \in Blocks |-> IF x = b THEN l ELSE c[x]]
  BY SMTT(30), <1>3
<1> HIDE DEF k
<1>5. \A x \in Blocks : k[x] = IF x = b THEN l ELSE c[x]
  BY <1>4
<1>6. k = [x \in Blocks |-> k[x]]
  BY <1>4
<1>7. \A x \in Blocks : k[x] \in {None, Cache!TrueList(x), Unknown(x)}
  BY <1>1, <1>5 DEF Sound
<1>8. \A x \in Cache!Path[t] : k[x] \in {None, Cache!TrueList(x)}
  BY <1>1, <1>5, PathFacts DEF Sound
<1>9. Sound(k, t)
  BY <1>6, <1>7, <1>8 DEF Sound
<1>10. b \in Cache!Path[t] => k = [c EXCEPT ![b] = Cache!TrueList(b)]
  BY <1>1 DEF k
<1> QED
  BY <1>2, <1>9, <1>10

\* What is sound up to a block is sound up to the blocks before it.
LEMMA SoundBelow ==
    ASSUME Tree, NEW u \in Blocks, NEW t \in Cache!Path[u], NEW c, Sound(c, u)
    PROVE  t \in Blocks /\ Sound(c, t)
<1>1. t \in Blocks /\ Cache!Path[t] \subseteq Cache!Path[u]
  BY PathFacts
<1> QED
  BY <1>1 DEF Sound

\* ProcessBlock: the list of the block is built from its parent's.
LEMMA ProcessBlockLemma ==
    ASSUME Tree, Cache!ActivationAssumption, NEW b \in Blocks, b # Base, NEW u \in Blocks,
           Parent[b] \in Cache!Path[u],
           Stored(diffs, snaps, Parent[b]), Sound(cache, u), Cache!ProcessBlock(b)
    PROVE  /\ Stored(diffs', snaps', b) /\ Sound(cache', u)
           /\ cache'[b] \in {None, Cache!TrueList(b)}
<1> DEFINE p == Parent[b]
           c == Cache!Cached(cache, diffs, snaps, p)
           oldList == c[p]
           newList == Cache!BuildNewList(oldList, b)
<1>0. p \in Blocks /\ p \in Cache!Path[p] /\ Sound(cache, p) /\ Cache!Path[b] = Cache!Path[p] \cup {b} /\ b \notin Cache!Path[p]
  BY ParentBelow, PathFacts, SoundBelow, PathStep, ParentPath
<1>1. c = [cache EXCEPT ![p] = Cache!TrueList(p)]
  <2>1. Stored(diffs, snaps, p)
    OBVIOUS
  <2> HIDE DEF p
  <2> QED
    BY SMTT(30), <1>0, <2>1, CachedSound
<1>2. c = [x \in Blocks |-> IF x = p THEN Cache!TrueList(p) ELSE cache[x]]
  BY SMTT(30), <1>1 DEF Sound
<1>3. /\ diffs' = [diffs EXCEPT ![b] = Cache!Diff(oldList.hash, b, Height[b], newList.mns \ oldList.mns)]
      /\ snaps' = [snaps EXCEPT ![b] = IF Cache!WritesSnapshot(Height[b], oldList) THEN newList ELSE @]
      /\ cache' = Cache!CleanupCache(c, Height[b])
  BY DEF Cache!ProcessBlock
<1>4. oldList = Cache!TrueList(p)
  BY <1>0, <1>2
<1> HIDE DEF c, oldList
<1>5. /\ oldList.hash = p /\ oldList.mns = Cache!Path[p] \cap Changing /\ oldList.ok = TRUE
      /\ oldList.height = IF p = Base THEN -1 ELSE Height[p]
  <2>1. Cache!Path[Base] \cap Changing = {}
    BY TreeTypes, PathIs
  <2>2. CASE p = Base
    <3>1. oldList = Cache!List(p, -1, {})
      BY <1>4, <2>2 DEF Cache!TrueList
    <3> QED
      BY <2>1, <2>2, <3>1 DEF Cache!List
  <2>3. CASE p # Base
    <3>1. oldList = Cache!List(p, Height[p], Cache!Path[p] \cap Changing)
      BY <1>4, <2>3 DEF Cache!TrueList
    <3>2. /\ oldList.hash = p /\ oldList.mns = Cache!Path[p] \cap Changing /\ oldList.ok = TRUE
          /\ oldList.height = Height[p]
      BY <3>1 DEF Cache!List
    <3> QED
      BY <2>3, <3>2
  <2> QED
    BY <2>2, <2>3
<1>6. oldList.mns \cup ({b} \cap Changing) = Cache!Path[b] \cap Changing
  BY <1>0, <1>5
<1>7. newList = Cache!TrueList(b) /\ newList.mns = Cache!Path[b] \cap Changing
  <2>1. newList = Cache!List(b, Height[b], Cache!Path[b] \cap Changing)
    BY <1>5, <1>6 DEF Cache!BuildNewList, Cache!List
  <2>2. Cache!TrueList(b) = Cache!List(b, Height[b], Cache!Path[b] \cap Changing)
    BY DEF Cache!TrueList
  <2> HIDE DEF newList
  <2>3. newList.mns = Cache!Path[b] \cap Changing
    BY <2>1 DEF Cache!List
  <2> QED
    BY <2>1, <2>2, <2>3
<1> HIDE DEF newList
<1>8. Cache!Diff(oldList.hash, b, Height[b], newList.mns \ oldList.mns) = TrueDiff(b)
  <2>1. newList.mns \ oldList.mns = {b} \cap Changing
    BY <1>0, <1>5, <1>7
  <2> QED
    BY <1>5, <2>1 DEF TrueDiff
<1>9. Height[b] % SnapshotPeriod = 0 \/ p = Base => Cache!WritesSnapshot(Height[b], oldList)
  BY <1>5 DEF Cache!WritesSnapshot
<1>10. diffs' = [x \in Blocks |-> IF x \in Cache!Path[b] \ {Base} THEN TrueDiff(x) ELSE None]
  <2>1. /\ diffs = [x \in Blocks |-> diffs[x]]
        /\ \A x \in Blocks : diffs[x] = IF x \in Cache!Path[p] \ {Base} THEN TrueDiff(x) ELSE None
    BY DEF Stored
  <2>2. diffs' = [x \in Blocks |-> IF x = b THEN TrueDiff(b) ELSE diffs[x]]
    BY SMTT(30), <1>3, <1>8, <2>1
  <2>3. \A x \in Blocks : (IF x = b THEN TrueDiff(b) ELSE diffs[x])
                            = IF x \in Cache!Path[b] \ {Base} THEN TrueDiff(x) ELSE None
    BY SMTT(30), <1>0, <2>1
  <2> QED
    BY <2>2, <2>3
<1>11. snaps' = [x \in Blocks |-> IF x = b /\ Cache!WritesSnapshot(Height[b], oldList) THEN Cache!TrueList(b) ELSE snaps[x]]
  <2>1. snaps = [x \in Blocks |-> snaps[x]]
    BY DEF Stored
  <2> QED
    BY SMTT(30), <1>3, <1>7, <2>1
<1>12. Stored(diffs', snaps', b)
  <2>1. snaps' = [x \in Blocks |-> snaps'[x]]
    BY <1>11
  <2>2. \A x \in Blocks : snaps'[x] \in {None, Cache!TrueList(x)}
    BY <1>11 DEF Stored
  <2>3. ASSUME NEW x \in Cache!Path[b] \ {Base}, Height[x] % SnapshotPeriod = 0 \/ Parent[x] = Base
        PROVE  snaps'[x] # None
    <3>1. x \in Blocks
      BY PathFacts
    <3>2. CASE x = b
      BY <1>9, <1>11, <2>3, <3>2, ListTypes
    <3>3. CASE x # b
      <4>1. x \in Cache!Path[p] \ {Base} /\ snaps'[x] = snaps[x]
        BY <1>0, <1>11, <3>1, <3>3
      <4> QED
        BY <2>3, <4>1 DEF Stored
    <3> QED
      BY <3>2, <3>3
  <2> QED
    BY <1>10, <2>1, <2>2, <2>3 DEF Stored
<1>13. \A x \in Blocks : c[x] = IF x = p THEN Cache!TrueList(p) ELSE cache[x]
  BY <1>2
<1>14. /\ \A x \in Blocks : c[x] \in {None, Cache!TrueList(x), Unknown(x)}
       /\ \A x \in Cache!Path[u] : c[x] \in {None, Cache!TrueList(x)}
  BY <1>13, PathFacts DEF Sound
<1>15. cache' = [x \in Blocks |-> cache'[x]] /\ \A x \in Blocks : cache'[x] \in {None, c[x]}
  BY <1>3 DEF Cache!CleanupCache
<1>16. Sound(cache', u)
  <2>1. \A x \in Blocks : cache'[x] \in {None, Cache!TrueList(x), Unknown(x)}
    BY <1>14, <1>15
  <2>2. \A x \in Cache!Path[u] : cache'[x] \in {None, Cache!TrueList(x)}
    BY <1>14, <1>15, PathFacts
  <2> QED
    BY <1>15, <2>1, <2>2 DEF Sound
<1>17. ASSUME c[b] = Unknown(b) PROVE cache'[b] = None
  <2>1. c[b] # None /\ c[b].height = -1
    <3>1. Unknown(b) # None
      BY ListTypes
    <3>2. Unknown(b).height = -1
      BY DEF Unknown, Cache!List
    <3> QED
      BY <1>17, <3>1, <3>2
  <2>2. c[b].height + CacheSize < Height[b]
    <3>1. Height[Base] \in Nat /\ Height[p] \in Nat /\ Height[Base] <= Height[p] /\ Height[b] = Height[p] + 1
          /\ CacheSize \in Nat /\ CacheSize <= Height[Base] + 1
      BY <1>0, TreeTypes, ParentBelow, PathFacts DEF Cache!ActivationAssumption
    <3> QED
      BY SMTT(30), <2>1, <3>1
  <2> QED
    BY <1>3, <2>1, <2>2 DEF Cache!CleanupCache
<1> QED
  BY <1>12, <1>14, <1>15, <1>16, <1>17

LEMMA Cleared ==
    ASSUME NEW S, NEW f, f = [x \in S |-> f[x]], NEW b \in S, NEW e
    PROVE  [f EXCEPT ![b] = e] = [x \in S |-> IF x = b THEN e ELSE f[x]]
  BY SMTT(30)

\* UndoBlock takes the last block out.
LEMMA UndoBlockLemma ==
    ASSUME Tree, NEW b \in Blocks, b # Base, NEW u \in Blocks,
           Stored(diffs, snaps, b), Sound(cache, u), Cache!UndoBlock(b)
    PROVE  Stored(diffs', snaps', Parent[b]) /\ Sound(cache', u)
<1>0. Parent[b] \in Blocks /\ Cache!Path[b] \ {b} = Cache!Path[Parent[b]] /\ b \notin Cache!Path[Parent[b]]
  BY ParentBelow, ParentPath
<1>1. /\ diffs = [x \in Blocks |-> diffs[x]] /\ snaps = [x \in Blocks |-> snaps[x]] /\ cache = [x \in Blocks |-> cache[x]]
      /\ diffs' = [diffs EXCEPT ![b] = None] /\ snaps' = [snaps EXCEPT ![b] = None] /\ cache' = [cache EXCEPT ![b] = None]
  BY DEF Stored, Sound, Cache!UndoBlock
<1>2. /\ diffs' = [x \in Blocks |-> IF x = b THEN None ELSE diffs[x]]
      /\ snaps' = [x \in Blocks |-> IF x = b THEN None ELSE snaps[x]]
      /\ cache' = [x \in Blocks |-> IF x = b THEN None ELSE cache[x]]
  BY <1>1, Cleared
<1>3. \A x \in Blocks : diffs[x] = IF x \in Cache!Path[b] \ {Base} THEN TrueDiff(x) ELSE None
  BY DEF Stored
<1>4. diffs' = [x \in Blocks |-> IF x \in Cache!Path[Parent[b]] \ {Base} THEN TrueDiff(x) ELSE None]
  BY SMTT(30), <1>0, <1>2, <1>3
<1>5. /\ snaps' = [x \in Blocks |-> snaps'[x]]
      /\ \A x \in Blocks : snaps'[x] \in {None, Cache!TrueList(x)}
  BY <1>2 DEF Stored
<1>6. ASSUME NEW x \in Cache!Path[Parent[b]] \ {Base}, Height[x] % SnapshotPeriod = 0 \/ Parent[x] = Base
      PROVE  snaps'[x] # None
  <2>1. x \in Blocks /\ x # b /\ x \in Cache!Path[b] \ {Base}
    BY <1>0, PathFacts
  <2> QED
    BY <1>2, <1>6, <2>1 DEF Stored
<1>7. Stored(diffs', snaps', Parent[b])
  BY <1>4, <1>5, <1>6 DEF Stored
<1>8. cache' = [x \in Blocks |-> cache'[x]] /\ \A x \in Blocks : cache'[x] \in {None, cache[x]}
  BY <1>2
<1>9. \A x \in Cache!Path[u] : cache'[x] \in {None, cache[x]}
  BY <1>8, PathFacts
<1> QED
  BY <1>7, <1>8, <1>9 DEF Sound

LEMMA CacheInit ==
    ASSUME Tree, Cache!Init
    PROVE  CacheInv
<1>1. /\ tip = Base /\ tipBlockHash = Base /\ pending = {} /\ cachePhase = "idle"
      /\ diffs = [b \in Blocks |-> None] /\ snaps = diffs /\ cache = diffs
  BY DEF Cache!Init
<1>2. Base \in Blocks /\ Cache!Path[Base] = {Base}
  BY TreeTypes, PathIs
<1>3. Stored(diffs, snaps, tip)
  <2>1. \A b \in Blocks : (IF b \in Cache!Path[Base] \ {Base} THEN TrueDiff(b) ELSE None) = None
    BY <1>2
  <2> QED
    BY <1>1, <1>2, <2>1 DEF Stored
<1>4. Sound(cache, tip)
  BY <1>1, <1>2 DEF Sound
<1> QED
  BY <1>1, <1>2, <1>3, <1>4 DEF CacheInv

\* Readers, under cs_main or not: the database stays, and the cache stays sound up to t.
LEMMA ReadSound ==
    ASSUME Tree, NEW t \in Blocks, Stored(diffs, snaps, t), Sound(cache, t), NEW b \in Blocks,
           cache' = Cache!Cached(cache, diffs, snaps, b)
    PROVE  Sound(cache', t)
  BY SMTT(30), CachedSound

LEMMA CacheNext ==
    ASSUME Tree, Cache!ActivationAssumption, ~RpcVerify, CacheInv, [Cache!Next]_(Cache!vars)
    PROVE  CacheInv'
<1>0. /\ tip \in Blocks /\ tipBlockHash \in Blocks /\ pending \subseteq Blocks
      /\ cachePhase \in {"idle", "connect", "disconnect", "verify", "startup"}
      /\ tip \in Cache!Path[tip]
  BY PathFacts DEF CacheInv
<1>1. ASSUME NEW b \in Blocks, Cache!ConnectBegin(b) PROVE CacheInv'
  <2>1. /\ cachePhase = "idle" /\ b # Base /\ Parent[b] = tip
        /\ saved'.diffs = diffs /\ saved'.snaps = snaps
        /\ Cache!ProcessBlock(b) /\ cachePhase' = "connect" /\ at' = b
        /\ tip' = tip /\ tipBlockHash' = tipBlockHash /\ pending' = pending
    BY <1>1 DEF Cache!ConnectBegin, Cache!Begin
  <2>2. Stored(diffs, snaps, Parent[b]) /\ Sound(cache, tip) /\ Parent[b] \in Cache!Path[tip]
    BY <1>0, <2>1 DEF CacheInv
  <2>3. Stored(diffs', snaps', b) /\ Sound(cache', tip) /\ cache'[b] \in {None, Cache!TrueList(b)}
    BY <1>0, <2>1, <2>2, ProcessBlockLemma
  <2>4. Cache!Path[b] = Cache!Path[tip] \cup {b}
    BY <2>1, PathStep
  <2>5. Sound(cache', b)
    BY <2>3, <2>4 DEF Sound
  <2> QED
    BY <1>0, <2>1, <2>2, <2>3, <2>5 DEF CacheInv
<1>2. CASE Cache!ConnectCommit
  <2>1. /\ cachePhase = "connect" /\ tip' = at /\ cachePhase' = "idle"
        /\ pending' \subseteq pending \cup {at} /\ diffs' = diffs /\ snaps' = snaps /\ cache' = cache
        /\ tipBlockHash' = tipBlockHash
    BY <1>2 DEF Cache!ConnectCommit
  <2> QED
    BY <1>0, <2>1 DEF CacheInv
<1>3. CASE Cache!ConnectRollback
  <2>1. /\ cachePhase = "connect" /\ diffs' = saved.diffs /\ snaps' = saved.snaps /\ cachePhase' = "idle"
        /\ tip' = tip /\ cache' = cache /\ tipBlockHash' = tipBlockHash /\ pending' = pending
    BY <1>3 DEF Cache!ConnectRollback, Cache!Rollback
  <2>2. at \in Blocks /\ at # Base /\ tip = Parent[at] /\ Sound(cache, at) /\ Stored(saved.diffs, saved.snaps, tip)
    BY <2>1 DEF CacheInv
  <2>3. Sound(cache, tip)
    BY <2>2, ParentPath, SoundBelow
  <2> QED
    BY <1>0, <2>1, <2>2, <2>3 DEF CacheInv
<1>4. CASE Cache!DisconnectBegin
  <2>1. /\ cachePhase = "idle" /\ tip # Base /\ Cache!UndoBlock(tip) /\ cachePhase' = "disconnect" /\ at' = tip
        /\ tip' = tip /\ tipBlockHash' = tipBlockHash /\ pending' = pending
    BY <1>4 DEF Cache!DisconnectBegin
  <2>2. Stored(diffs', snaps', Parent[tip]) /\ Sound(cache', tip)
    BY <1>0, <2>1, UndoBlockLemma DEF CacheInv
  <2>3. Parent[tip] \in Cache!Path[tip]
    BY <1>0, <2>1, ParentPath
  <2>4. Sound(cache', Parent[tip])
    BY <1>0, <2>2, <2>3, SoundBelow
  <2> QED
    BY <1>0, <2>1, <2>2, <2>4 DEF CacheInv
<1>5. CASE Cache!DisconnectCommit
  <2>1. /\ cachePhase = "disconnect" /\ tip' = Parent[at] /\ cachePhase' = "idle"
        /\ diffs' = diffs /\ snaps' = snaps /\ cache' = cache /\ tipBlockHash' = tipBlockHash /\ pending' = pending
    BY <1>5 DEF Cache!DisconnectCommit
  <2>2. at = tip /\ tip # Base /\ Parent[tip] \in Blocks /\ Stored(diffs, snaps, Parent[tip]) /\ Sound(cache, Parent[tip])
    BY <1>0, <2>1, ParentBelow DEF CacheInv
  <2> QED
    BY <1>0, <2>1, <2>2 DEF CacheInv
<1>6. ASSUME NEW b \in Blocks, Cache!UpdatedBlockTip(b) PROVE CacheInv'
  <2>1. /\ pending' \subseteq pending /\ tipBlockHash' = b /\ tip' = tip /\ diffs' = diffs /\ snaps' = snaps
        /\ saved' = saved /\ cache' = cache /\ cachePhase' = cachePhase /\ at' = at
    BY <1>6 DEF Cache!UpdatedBlockTip
  <2> QED
    BY <1>0, <2>1 DEF CacheInv
<1>7. CASE Cache!GetListAtChainTip
  <2>1. /\ cachePhase \in {"idle", "connect", "disconnect"}
        /\ cache' = Cache!Cached(cache, diffs, snaps, tipBlockHash)
        /\ tip' = tip /\ diffs' = diffs /\ snaps' = snaps /\ saved' = saved /\ tipBlockHash' = tipBlockHash
        /\ pending' = pending /\ cachePhase' = cachePhase /\ at' = at
    BY <1>0, <1>7 DEF Cache!GetListAtChainTip
  <2>2. ASSUME NEW t \in Blocks, Stored(diffs, snaps, t), Sound(cache, t) PROVE Sound(cache', t)
    BY <1>0, <2>1, <2>2, ReadSound
  <2>3. CASE cachePhase = "idle"
    BY <1>0, <2>1, <2>2, <2>3 DEF CacheInv
  <2>4. CASE cachePhase = "connect"
    BY <1>0, <2>1, <2>2, <2>4 DEF CacheInv
  <2>5. CASE cachePhase = "disconnect"
    <3>1. tip # Base /\ Parent[tip] \in Blocks
      BY <1>0, <2>5, ParentBelow DEF CacheInv
    <3> QED
      BY <1>0, <2>1, <2>2, <2>5, <3>1 DEF CacheInv
  <2> QED
    BY <2>1, <2>3, <2>4, <2>5
<1>8. ASSUME NEW b \in Blocks, Cache!GetListForBlock(b) PROVE CacheInv'
  <2>1. /\ cachePhase = "idle" /\ cache' = Cache!Cached(cache, diffs, snaps, b)
        /\ tip' = tip /\ diffs' = diffs /\ snaps' = snaps /\ tipBlockHash' = tipBlockHash
        /\ pending' = pending /\ cachePhase' = cachePhase
    BY <1>8 DEF Cache!GetListForBlock
  <2>2. Stored(diffs, snaps, tip) /\ Sound(cache, tip)
    BY <2>1 DEF CacheInv
  <2>3. Sound(cache', tip)
    BY <1>0, <2>1, <2>2, ReadSound
  <2> QED
    BY <1>0, <2>1, <2>2, <2>3 DEF CacheInv
<1>9. CASE Cache!VerifyBegin
  <2>1. /\ cachePhase = "startup" /\ saved'.diffs = diffs /\ saved'.snaps = snaps /\ cachePhase' = "verify" /\ at' = tip
        /\ tip' = tip /\ diffs' = diffs /\ snaps' = snaps /\ cache' = cache /\ tipBlockHash' = tipBlockHash
        /\ pending' = pending
    BY <1>9 DEF Cache!VerifyBegin, Cache!Begin
  <2> QED
    BY <1>0, <2>1 DEF CacheInv
<1>10. CASE Cache!VerifyDisconnect
  <2>1. /\ cachePhase = "verify" /\ at # Base /\ Cache!UndoBlock(at) /\ at' = Parent[at]
        /\ tip' = tip /\ saved' = saved /\ tipBlockHash' = tipBlockHash /\ pending' = pending /\ cachePhase' = cachePhase
    BY <1>10 DEF Cache!VerifyDisconnect
  <2>2. /\ at \in Cache!Path[tip] /\ Stored(diffs, snaps, at) /\ Sound(cache, tip)
        /\ Stored(saved.diffs, saved.snaps, tip)
    BY <2>1 DEF CacheInv
  <2>3. at \in Blocks /\ Parent[at] \in Cache!Path[tip]
    BY <1>0, <2>1, <2>2, PathParent
  <2>4. Stored(diffs', snaps', Parent[at]) /\ Sound(cache', tip)
    BY <1>0, <2>1, <2>2, <2>3, UndoBlockLemma
  <2> QED
    BY <1>0, <2>1, <2>2, <2>3, <2>4 DEF CacheInv
<1>11. CASE Cache!VerifyReconnect
  <2>1. PICK b \in Cache!Path[tip] \ {Base} : Parent[b] = at /\ Cache!ProcessBlock(b) /\ at' = b
    BY <1>11 DEF Cache!VerifyReconnect
  <2>2. /\ cachePhase = "verify" /\ tip' = tip /\ saved' = saved /\ tipBlockHash' = tipBlockHash
        /\ pending' = pending /\ cachePhase' = cachePhase
    BY <1>11 DEF Cache!VerifyReconnect
  <2>3. /\ at \in Cache!Path[tip] /\ Stored(diffs, snaps, at) /\ Sound(cache, tip)
        /\ Stored(saved.diffs, saved.snaps, tip)
    BY <2>2 DEF CacheInv
  <2>4. b \in Blocks
    BY <1>0, PathFacts
  <2>5. Stored(diffs', snaps', b) /\ Sound(cache', tip)
    BY <1>0, <2>1, <2>3, <2>4, ProcessBlockLemma
  <2> QED
    BY <1>0, <2>1, <2>2, <2>3, <2>5 DEF CacheInv
<1>12. CASE Cache!VerifyEnd
  <2>1. /\ cachePhase = "verify" /\ diffs' = saved.diffs /\ snaps' = saved.snaps /\ cachePhase' = "idle"
        /\ tip' = tip /\ cache' = cache /\ tipBlockHash' = tipBlockHash /\ pending' = pending
    BY <1>12 DEF Cache!VerifyEnd, Cache!Rollback
  <2> QED
    BY <1>0, <2>1 DEF CacheInv
<1>13. CASE Cache!Restart
  <2>1. /\ cachePhase = "idle" /\ cachePhase' = "startup" /\ pending' = {} /\ tipBlockHash' = tip
        /\ cache' = [b \in Blocks |-> None] /\ tip' = tip /\ diffs' = diffs /\ snaps' = snaps
    BY <1>13 DEF Cache!Restart
  <2>2. Sound(cache', tip)
    BY <1>0, <2>1, PathFacts DEF Sound
  <2> QED
    BY <1>0, <2>1, <2>2 DEF CacheInv
<1>14. CASE Cache!Started
  BY <1>0, <1>14 DEF Cache!Started, CacheInv
<1>15. CASE UNCHANGED Cache!vars
  BY <1>0, <1>15 DEF Cache!vars, CacheInv
<1> QED
  BY <1>1, <1>2, <1>3, <1>4, <1>5, <1>6, <1>7, <1>8, <1>9, <1>10, <1>11, <1>12, <1>13, <1>14, <1>15 DEF Cache!Next

\* One more than a number has one more as its remainder, unless it has none.
LEMMA NextRemainder ==
    ASSUME NEW h \in Nat, NEW p \in Nat \ {0}
    PROVE  /\ h % p \in 0 .. p - 1
           /\ (h + 1) % p # 0 => (h + 1) % p = (h % p) + 1
<1> DEFINE q == h \div p
           r == h % p
           k == (h + 1) \div p
           s == (h + 1) % p
<1>1. q \in Int /\ r \in 0 .. p - 1 /\ h = p * q + r
  BY SMTT(30)
<1>2. k \in Int /\ s \in 0 .. p - 1 /\ h + 1 = p * k + s
  BY SMTT(30)
<1> HIDE DEF q, r, k, s
<1>3. ASSUME s # 0 PROVE s = r + 1
  <2>1. p * k - p * q = 1 + r - s
    BY SMTT(30), <1>1, <1>2
  <2>2. p * (k - q) = 1 + r - s
    BY SMTT(30), <1>1, <1>2, <2>1
  <2> DEFINE e == k - q
  <2>3. e \in Int /\ p * e = 1 + r - s
    BY SMTT(30), <1>1, <1>2, <2>2
  <2> HIDE DEF e
  <2>4. ~(e >= 1)
    <3>1. e >= 1 => p * e >= p
      BY SMTT(30), <2>3
    <3> QED
      BY SMTT(30), <1>1, <1>2, <1>3, <2>3, <3>1
  <2>5. ~(e <= -1)
    <3>1. e <= -1 => p * e <= -p
      BY SMTT(30), <2>3
    <3> QED
      BY SMTT(30), <1>1, <1>2, <1>3, <2>3, <3>1
  <2>6. e = 0
    BY SMTT(30), <2>3, <2>4, <2>5
  <2> QED
    BY SMTT(30), <1>1, <1>2, <2>3, <2>6
<1> QED
  BY <1>1, <1>3 DEF r, s

\* How far GetListForBlock walks, one block at a time.
Walked(c, d, s, f, b) ==
    IF c[b] # None \/ s[b] # None \/ d[b] = None THEN 0 ELSE 1 + f[d[b].prev]
IsWalked(c, d, s, f) == f = [b \in Blocks |-> Walked(c, d, s, f, b)]

LEMMA WalkLengthIs ==
    ASSUME NEW c, NEW d, NEW s
    PROVE  Cache!WalkLength(c, d, s) = CHOOSE f : IsWalked(c, d, s, f)
  BY DEF Cache!WalkLength, IsWalked, Walked

LEMMA WalkExists ==
    ASSUME Tree, NEW t \in Blocks, NEW c, NEW d, NEW s, Stored(d, s, t)
    PROVE  IsWalked(c, d, s, Cache!WalkLength(c, d, s))
<1> DEFINE g == [b \in Blocks |-> [v \in Nat |->
                   IF c[b] # None \/ s[b] # None \/ d[b] = None THEN 0 ELSE 1 + v]]
<1>1. g \in [Blocks -> [Nat -> Nat]] /\ 0 \in Nat
  BY SMTT(30)
<1>2. PICK f \in [Blocks -> Nat] : \A b \in Blocks : f[b] = Step(f, 0, g, b)
  <2> HIDE DEF g
  <2> QED
    BY <1>1, TreeRecursion
<1>3. ASSUME NEW b \in Blocks PROVE f[b] = Walked(c, d, s, f, b)
  <2>1. CASE b = Base
    <3>1. d[b] = None
      BY <2>1, StoredIs
    <3> QED
      BY <1>2, <2>1, <3>1 DEF Step, Walked
  <2>2. CASE b # Base
    <3>1. f[b] = g[b][f[Parent[b]]] /\ f[Parent[b]] \in Nat
      BY <1>2, <2>2, ParentBelow DEF Step
    <3>2. d[b] # None => d[b].prev = Parent[b]
      BY SMTT(30), StoredIs
    <3> QED
      BY <3>1, <3>2 DEF Walked
  <2> QED
    BY <2>1, <2>2
<1>4. IsWalked(c, d, s, f)
  BY <1>3 DEF IsWalked
<1> QED
  BY <1>4, WalkLengthIs

\* The last snapshot is no further back than the last height that is due one.
LEMMA WalkShort ==
    ASSUME Tree, NEW t \in Blocks, NEW c, NEW d, NEW s, Stored(d, s, t), NEW x \in Cache!Path[t]
    PROVE  Cache!WalkLength(c, d, s)[x] < SnapshotPeriod
<1> DEFINE f == Cache!WalkLength(c, d, s)
<1>0. \A b \in Blocks : f[b] = Walked(c, d, s, f, b)
  BY SMTT(30), WalkExists DEF IsWalked
<1> HIDE DEF f
<1> DEFINE A == {b \in Blocks : b \in Cache!Path[t] => f[b] \in Nat /\ f[b] <= Height[b] % SnapshotPeriod}
<1>1. \A b \in Blocks : /\ Height[b] % SnapshotPeriod \in 0 .. SnapshotPeriod - 1
                        /\ SnapshotPeriod \in Nat \ {0}
  <2>1. SnapshotPeriod \in Nat \ {0} /\ \A b \in Blocks : Height[b] \in Nat
    BY TreeTypes
  <2> QED
    BY <2>1, NextRemainder
<1>2. Base \in A
  <2>1. Base \in Blocks /\ d[Base] = None
    BY TreeTypes, StoredIs
  <2>2. f[Base] = 0
    BY <1>0, <2>1 DEF Walked
  <2> QED
    BY SMTT(30), <1>1, <2>1, <2>2
<1>3. ASSUME NEW b \in Blocks \ {Base}, Parent[b] \in A, b \in Cache!Path[t]
      PROVE  f[b] \in Nat /\ f[b] <= Height[b] % SnapshotPeriod
  <2>1. d[b] # None /\ d[b].prev = Parent[b]
    <3>1. b \in Blocks /\ b \in Cache!Path[t] \ {Base}
      BY <1>3
    <3>2. /\ d[b] = None \/ d[b].prev = Parent[b]
          /\ d[b] = None <=> b \notin Cache!Path[t] \ {Base}
      BY SMTT(30), <3>1, StoredIs
    <3> QED
      BY <3>1, <3>2
  <2>2. Parent[b] \in Cache!Path[t] /\ f[Parent[b]] \in Nat /\ f[Parent[b]] <= Height[Parent[b]] % SnapshotPeriod
    BY <1>3, PathParent
  <2>3. CASE c[b] # None \/ s[b] # None
    <3>1. f[b] = 0
      BY <1>0, <2>3 DEF Walked
    <3> QED
      BY SMTT(30), <1>1, <3>1
  <2>4. CASE c[b] = None /\ s[b] = None
    <3>1. Height[b] % SnapshotPeriod # 0
      BY <1>3, <2>4 DEF Stored
    <3>2. f[b] = 1 + f[Parent[b]]
      BY <1>0, <2>1, <2>4 DEF Walked
    <3>3. Height[b] = Height[Parent[b]] + 1 /\ Height[Parent[b]] \in Nat
      BY ParentBelow
    <3>4. Height[b] % SnapshotPeriod = (Height[Parent[b]] % SnapshotPeriod) + 1
      BY <1>1, <3>1, <3>3, NextRemainder
    <3>5. Height[Parent[b]] % SnapshotPeriod \in Int
      BY SMTT(30), <1>1, ParentBelow
    <3> QED
      BY SMTT(30), <2>2, <3>2, <3>4, <3>5
  <2> QED
    BY <2>3, <2>4
<1>4. Blocks \subseteq A
  <2>1. \A b \in Blocks \ {Base} : Parent[b] \in A => b \in A
    BY <1>3
  <2> HIDE DEF A
  <2> QED
    BY <1>2, <2>1, TreeInduction
<1>5. x \in Blocks /\ f[x] \in Nat /\ f[x] <= Height[x] % SnapshotPeriod
  BY <1>4, PathFacts
<1>6. f[x] < SnapshotPeriod
  BY SMTT(30), <1>1, <1>5
<1> QED
  BY <1>6 DEF f

LEMMA CacheInvariant ==
    ASSUME ~RpcVerify
    PROVE  StoreSpec => []CacheInv
<1>0. Tree
  BY TreeConstants DEF Tree
<1>1. Cache!Init => CacheInv
  BY <1>0, CacheInit
<1>2. CacheInv /\ [Cache!Next]_storeVars => CacheInv'
  BY <1>0, CacheNext, ActivationConstants DEF storeVars, Cache!vars
<1> QED
  BY <1>1, <1>2, PTL DEF StoreSpec

\* GetListForBlock is right about every block of the active chain: blocks and transactions
\* of the database may have been rolled back, readers may have asked with a stale
\* tipBlockHash in between, and VerifyDB may have taken blocks out and put them back at a
\* start (not from the verifychain RPC).  No assertion of ApplyDiff fails.
THEOREM ListsStayTrue ==
    ASSUME ~RpcVerify
    PROVE  StoreSpec => []ListsTrue
<1>0. Tree
  BY TreeConstants DEF Tree
<1>1. CacheInv => ListsTrue
  <2> SUFFICES ASSUME CacheInv, cachePhase \in {"idle", "connect"}, NEW b \in Cache!Path[tip]
               PROVE  Cache!ListForBlock(cache, diffs, snaps)[b] = Cache!TrueList(b)
    BY DEF ListsTrue, Cache!ListsTrue, Cache!Lists
  <2>1. CASE cachePhase = "idle"
    <3>1. tip \in Blocks /\ Stored(diffs, snaps, tip) /\ Sound(cache, tip)
      BY <2>1 DEF CacheInv
    <3> QED
      BY SMTT(30), <1>0, <3>1, FoundTrue
  <2>2. CASE cachePhase = "connect"
    <3>1. at \in Blocks /\ at # Base /\ tip = Parent[at] /\ Stored(diffs, snaps, at) /\ Sound(cache, at)
      BY <2>2 DEF CacheInv
    <3>2. b \in Cache!Path[at]
      BY <1>0, <3>1, PathStep
    <3> QED
      BY SMTT(30), <1>0, <3>1, <3>2, FoundTrue
  <2> QED
    BY <2>1, <2>2
<1> QED
  BY <1>0, <1>1, CacheInvariant, PTL

\* GetListForBlock reads fewer diffs than SNAPSHOT_LIST_PERIOD for a block of the active chain.
THEOREM WalksStayBounded ==
    ASSUME ~RpcVerify
    PROVE  StoreSpec => []WalkBounded
<1>0. Tree
  BY TreeConstants DEF Tree
<1>1. CacheInv => WalkBounded
  BY <1>0, WalkShort DEF CacheInv, WalkBounded, Cache!WalkBounded
<1> QED
  BY <1>0, <1>1, CacheInvariant, PTL

\* The block being connected or disconnected is there exactly while cs_main is held for it.
AtInv == at \in Blocks \cup {None} /\ (at = None <=> cachePhase \in {"idle", "startup"})

LEMMA AtNext ==
    ASSUME Tree, CacheInv, AtInv, [Cache!Next]_(Cache!vars)
    PROVE  AtInv'
<1>0. None \notin Blocks /\ tip \in Blocks
  BY TreeTypes DEF CacheInv
<1>1. ASSUME NEW b \in Blocks, Cache!ConnectBegin(b) PROVE AtInv'
  BY <1>0, <1>1 DEF Cache!ConnectBegin, AtInv
<1>2. CASE Cache!ConnectCommit \/ Cache!ConnectRollback \/ Cache!DisconnectCommit \/ Cache!VerifyEnd
  BY <1>2 DEF Cache!ConnectCommit, Cache!ConnectRollback, Cache!DisconnectCommit, Cache!VerifyEnd, AtInv
<1>3. CASE Cache!DisconnectBegin \/ Cache!VerifyBegin
  BY <1>0, <1>3 DEF Cache!DisconnectBegin, Cache!VerifyBegin, AtInv
<1>4. ASSUME NEW b \in Blocks, Cache!UpdatedBlockTip(b) \/ Cache!GetListForBlock(b) PROVE AtInv'
  BY <1>4 DEF Cache!UpdatedBlockTip, Cache!GetListForBlock, AtInv
<1>5. CASE Cache!GetListAtChainTip
  BY <1>5 DEF Cache!GetListAtChainTip, AtInv
<1>6. CASE Cache!VerifyDisconnect
  <2>1. cachePhase = "verify" /\ cachePhase' = "verify" /\ at \in Cache!Path[tip] /\ at # Base /\ at' = Parent[at]
    BY <1>6 DEF Cache!VerifyDisconnect, CacheInv
  <2>2. Parent[at] \in Blocks
    BY <1>0, <2>1, PathFacts, ParentBelow
  <2> QED
    BY <1>0, <2>1, <2>2 DEF AtInv
<1>7. CASE Cache!VerifyReconnect
  <2>1. cachePhase = "verify" /\ cachePhase' = "verify" /\ at' \in Cache!Path[tip]
    BY <1>7 DEF Cache!VerifyReconnect
  <2>2. at' \in Blocks
    BY <1>0, <2>1, PathFacts
  <2> QED
    BY <1>0, <2>1, <2>2 DEF AtInv
<1>8. CASE Cache!Restart \/ Cache!Started
  BY <1>8 DEF Cache!Restart, Cache!Started, AtInv
<1>9. CASE UNCHANGED Cache!vars
  BY <1>9 DEF Cache!vars, AtInv
<1> QED
  BY <1>1, <1>2, <1>3, <1>4, <1>5, <1>6, <1>7, <1>8, <1>9 DEF Cache!Next

\* What is filed in the database and in the cache under a block is about that block.
LEMMA FiledUnder ==
    ASSUME Tree, NEW t \in Blocks, Stored(diffs, snaps, t), NEW u \in Blocks, Sound(cache, u), NEW b \in Blocks
    PROVE  /\ diffs[b] = None \/ diffs[b].hash = b
           /\ snaps[b] = None \/ snaps[b].hash = b
           /\ cache[b] = None \/ cache[b].hash = b
<1>1. TrueDiff(b).hash = b /\ Unknown(b).hash = b
  BY DEF TrueDiff, Unknown, Cache!Diff, Cache!List
<1>2. Cache!TrueList(b).hash = b
  <2>1. CASE b = Base
    <3>1. Cache!TrueList(b) = Cache!List(b, -1, {})
      BY <2>1 DEF Cache!TrueList
    <3> QED
      BY SMTT(30), <3>1 DEF Cache!List
  <2>2. CASE b # Base
    <3>1. Cache!TrueList(b) = Cache!List(b, Height[b], Cache!Path[b] \cap Changing)
      BY <2>2 DEF Cache!TrueList
    <3> QED
      BY SMTT(30), <3>1 DEF Cache!List
  <2> QED
    BY <2>1, <2>2
<1>3. diffs[b] \in {None, TrueDiff(b)} /\ snaps[b] \in {None, Cache!TrueList(b)}
  BY SMTT(30), StoredIs
<1>4. cache[b] \in {None, Cache!TrueList(b), Unknown(b)}
  BY DEF Sound
<1> QED
  BY <1>1, <1>2, <1>3, <1>4

\* The types of the cache's and of the database's entries, each filed under its own block.
THEOREM CacheTypeCorrect ==
    ASSUME ~RpcVerify
    PROVE  StoreSpec => []Cache!TypeOK
<1>0. Tree
  BY TreeConstants DEF Tree
<1>1. Cache!Init => AtInv
  BY <1>0 DEF Cache!Init, AtInv
<1>2. CacheInv /\ AtInv /\ [Cache!Next]_storeVars => AtInv'
  BY <1>0, AtNext DEF storeVars, Cache!vars
<1>3. CacheInv /\ AtInv => Cache!TypeOK
  <2> SUFFICES ASSUME CacheInv, AtInv PROVE Cache!TypeOK
    OBVIOUS
  <2>1. \E t \in Blocks, u \in Blocks : Stored(diffs, snaps, t) /\ Sound(cache, u)
    <3>1. CASE cachePhase \in {"idle", "startup"}
      BY <3>1 DEF CacheInv
    <3>2. CASE cachePhase = "connect"
      BY <3>2 DEF CacheInv
    <3>3. CASE cachePhase = "disconnect"
      BY <1>0, <3>3, ParentBelow DEF CacheInv
    <3>4. CASE cachePhase = "verify"
      BY <1>0, <3>4, PathFacts DEF CacheInv
    <3> QED
      BY <3>1, <3>2, <3>3, <3>4 DEF CacheInv
  <2>2. \A b \in Blocks : /\ diffs[b] = None \/ diffs[b].hash = b
                          /\ snaps[b] = None \/ snaps[b].hash = b
                          /\ cache[b] = None \/ cache[b].hash = b
    BY <1>0, <2>1, FiledUnder
  <2> QED
    BY <2>2 DEF Cache!TypeOK, CacheInv, AtInv
<1> QED
  BY <1>0, <1>1, <1>2, <1>3, CacheInvariant, PTL DEF StoreSpec
=============================================================================
