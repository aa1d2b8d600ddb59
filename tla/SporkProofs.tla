---------------------------- MODULE SporkProofs ----------------------------
(***************************************************************************)
(* Proofs about Spork for any nodes, sporks, values and spork keys.        *)
(*                                                                         *)
(* The inductive invariant says that both maps of a node, in memory and in *)
(* sporks.dat, hold only messages of spork keys, under their own id and    *)
(* signer; and that the message between the two acquisitions of the lock   *)
(* is still newer than what is stored, unless the node's own key signed.   *)
(***************************************************************************)
EXTENDS Spork, TLAPS, FiniteSetTheorems

\* Unless a step names another prover.
USE Zenon

MapsOK(a, h, s) ==
    /\ a \in [IDs -> [SignerKeys -> Messages \cup {NoMsg}]]
    /\ h \subseteq s
    /\ \A id \in IDs, k \in SignerKeys :
         a[id][k] # NoMsg => k \in SporkKeys /\ a[id][k] \in h /\ a[id][k].id = id /\ a[id][k].signer = k

NodesInv == \A n \in Nodes : MapsOK(active[n], byHash[n], sent) /\ MapsOK(disk[n].active, disk[n].byHash, sent)

HandlingInv ==
    \A n \in Nodes : handling[n] # NoMsg =>
        LET m == handling[n]
        IN  /\ m \in sent /\ m.signer \in SporkKeys
            /\ m.signer # OwnKey[n] /\ active[n][m.id][m.signer] # NoMsg
                 => active[n][m.id][m.signer].time < m.time

UpdatingInv == \A n \in Nodes : updating[n] # NoMsg => updating[n].signer = OwnKey[n] /\ OwnKey[n] # NoKey

IInv == TypeOK /\ NodesInv /\ HandlingInv /\ UpdatingInv

\* Messages signed later do not matter to the maps of a node.
LEMMA MapsGrow ==
    ASSUME NEW a, NEW h, NEW s, NEW t, MapsOK(a, h, s), s \subseteq t
    PROVE  MapsOK(a, h, t)
  BY DEF MapsOK

\* The maps a node starts with.
LEMMA MapsEmpty == ASSUME NEW s PROVE MapsOK(Empty, {}, s)
  BY DEF MapsOK, Empty

\* Storing a message of a spork key.
LEMMA MapsStore ==
    ASSUME NEW a, NEW h, NEW s, MapsOK(a, h, s), NEW m \in Messages, m \in s, m.signer \in SporkKeys
    PROVE  MapsOK([a EXCEPT ![m.id][m.signer] = m], h \cup {m}, s)
  <1>1. m.id \in IDs /\ m.signer \in SignerKeys
    BY DEF Messages
  <1>2. [a EXCEPT ![m.id][m.signer] = m] \in [IDs -> [SignerKeys -> Messages \cup {NoMsg}]]
    BY <1>1 DEF MapsOK
  <1>3. \A id \in IDs, k \in SignerKeys : [a EXCEPT ![m.id][m.signer] = m][id][k] =
           IF id = m.id /\ k = m.signer THEN m ELSE a[id][k]
    BY SMT, <1>1 DEF MapsOK
  <1> QED
    BY SMT, <1>2, <1>3 DEF MapsOK

\* What storing a message does to the state.
LEMMA StoreLemma ==
    ASSUME TypeOK, NEW n \in Nodes, NEW m \in Messages, Store(n, m)
    PROVE  /\ active' \in [Nodes -> [IDs -> [SignerKeys -> Messages \cup {NoMsg}]]]
           /\ byHash' \in [Nodes -> SUBSET Messages]
           /\ active'[n] = [active[n] EXCEPT ![m.id][m.signer] = m] /\ byHash'[n] = byHash[n] \cup {m}
           /\ \A p \in Nodes : p # n => active'[p] = active[p] /\ byHash'[p] = byHash[p]
  <1>1. m.id \in IDs /\ m.signer \in SignerKeys
    BY DEF Messages
  <1>2. active'[n] = [active[n] EXCEPT ![m.id][m.signer] = m]
    BY DEF Store, TypeOK
  <1>3. active'[n] \in [IDs -> [SignerKeys -> Messages \cup {NoMsg}]]
    BY SMT, <1>1, <1>2 DEF TypeOK
  <1>4. \A p \in Nodes : p # n => active'[p] = active[p] /\ byHash'[p] = byHash[p]
    BY DEF Store, TypeOK
  <1>5. active' \in [Nodes -> [IDs -> [SignerKeys -> Messages \cup {NoMsg}]]]
    <2>1. DOMAIN active' = Nodes /\ active' = [p \in Nodes |-> active'[p]]
      BY DEF Store, TypeOK
    <2>2. \A p \in Nodes : active'[p] \in [IDs -> [SignerKeys -> Messages \cup {NoMsg}]]
      BY <1>3, <1>4 DEF TypeOK
    <2> QED
      BY <2>1, <2>2
  <1>6. byHash' \in [Nodes -> SUBSET Messages] /\ byHash'[n] = byHash[n] \cup {m}
    BY DEF Store, TypeOK
  <1> QED
    BY <1>2, <1>4, <1>5, <1>6

\* What a node finds after it.
LEMMA StoredAt ==
    ASSUME IInv, NEW n \in Nodes, NEW m \in Messages, Store(n, m),
           NEW p \in Nodes, NEW id \in IDs, NEW k \in SignerKeys
    PROVE  \/ p = n /\ id = m.id /\ k = m.signer /\ active'[p][id][k] = m
           \/ active'[p][id][k] = active[p][id][k]
  <1>1. m.id \in IDs /\ m.signer \in SignerKeys
    BY DEF Messages
  <1>2. p = n => active'[p] = [active[p] EXCEPT ![m.id][m.signer] = m]
    BY DEF Store, IInv, TypeOK
  <1>3. p # n => active'[p] = active[p]
    BY DEF Store, IInv, TypeOK
  <1> QED
    BY SMT, <1>1, <1>2, <1>3 DEF IInv, TypeOK

LEMMA InitIInv == Init => IInv
  <1> SUFFICES ASSUME Init PROVE IInv
    OBVIOUS
  <1>1. MapsOK(Empty, {}, sent)
    BY MapsEmpty
  <1>2. Empty \in [IDs -> [SignerKeys -> Messages \cup {NoMsg}]]
    BY DEF Empty
  <1>3. TypeOK
    BY SMT, <1>2, SporkAssumption DEF Init, TypeOK
  <1>4. NodesInv
    BY <1>1 DEF Init, NodesInv
  <1>5. HandlingInv /\ UpdatingInv
    BY DEF Init, HandlingInv, UpdatingInv
  <1> QED
    BY <1>3, <1>4, <1>5 DEF IInv

\* ProcessSpork, first half.
LEMMA ProcessSporkKeeps ==
    ASSUME IInv, NEW n \in Nodes, NEW m \in sent, ProcessSpork(n, m)
    PROVE  IInv'
  <1>1. m \in Messages
    BY DEF IInv, TypeOK
  <1>2. TypeOK'
    BY <1>1 DEF IInv, TypeOK, ProcessSpork
  <1>3. NodesInv'
    BY DEF IInv, NodesInv, ProcessSpork
  <1>4. HandlingInv'
    BY DEF IInv, TypeOK, HandlingInv, ProcessSpork, Accepted
  <1>5. UpdatingInv'
    BY DEF IInv, UpdatingInv, ProcessSpork
  <1> QED
    BY <1>2, <1>3, <1>4, <1>5 DEF IInv

\* ProcessSpork, second half.
LEMMA StoreSporkKeeps ==
    ASSUME IInv, NEW n \in Nodes, StoreSpork(n)
    PROVE  IInv'
  <1> DEFINE m == handling[n]
  <1>1. m # NoMsg /\ m \in Messages /\ m \in sent /\ m.signer \in SporkKeys
    BY DEF IInv, TypeOK, HandlingInv, StoreSpork
  <1>2. Store(n, m)
    BY DEF StoreSpork
  <1>3. executed' \in [Nodes -> Int]
    BY SMT DEF StoreSpork, ExecuteSpork, IInv, TypeOK
  <1> HIDE DEF m
  <1>4. TypeOK'
    BY <1>1, <1>2, <1>3, StoreLemma DEF IInv, TypeOK, StoreSpork, m
  <1>8. \A p \in Nodes : p # n => active'[p] = active[p] /\ byHash'[p] = byHash[p]
    BY <1>1, <1>2, StoreLemma DEF IInv
  <1>5. NodesInv'
    <2> SUFFICES ASSUME NEW p \in Nodes
                 PROVE  MapsOK(active'[p], byHash'[p], sent') /\ MapsOK(disk'[p].active, disk'[p].byHash, sent')
      BY DEF NodesInv
    <2>1. sent' = sent /\ disk' = disk
      BY DEF StoreSpork
    <2>2. MapsOK(active[p], byHash[p], sent) /\ MapsOK(disk[p].active, disk[p].byHash, sent)
      BY DEF IInv, NodesInv
    <2>3. CASE p = n
      <3>1. active'[p] = [active[p] EXCEPT ![m.id][m.signer] = m] /\ byHash'[p] = byHash[p] \cup {m}
        BY <1>1, <1>2, <2>3, StoreLemma DEF IInv
      <3> QED
        BY SMT, <1>1, <2>1, <2>2, <3>1, MapsStore
    <2>4. CASE p # n
      BY <1>8, <2>1, <2>2, <2>4
    <2> QED
      BY <2>3, <2>4
  <1>6. HandlingInv'
    <2> SUFFICES ASSUME NEW p \in Nodes, handling'[p] # NoMsg
                 PROVE  /\ handling'[p] \in sent' /\ handling'[p].signer \in SporkKeys
                        /\ handling'[p].signer # OwnKey[p] /\ active'[p][handling'[p].id][handling'[p].signer] # NoMsg
                             => active'[p][handling'[p].id][handling'[p].signer].time < handling'[p].time
      BY DEF HandlingInv
    <2>1. p # n /\ handling'[p] = handling[p] /\ sent' = sent
      BY DEF StoreSpork, IInv, TypeOK
    <2>2. active'[p] = active[p]
      BY <1>8, <2>1
    <2> QED
      BY <2>1, <2>2 DEF IInv, HandlingInv
  <1>7. UpdatingInv'
    BY DEF IInv, UpdatingInv, StoreSpork
  <1> QED
    BY <1>4, <1>5, <1>6, <1>7 DEF IInv

\* UpdateSpork, second half: only the node's own key is concerned.
LEMMA StoreUpdateKeeps ==
    ASSUME IInv, NEW n \in Nodes, StoreUpdate(n)
    PROVE  IInv'
  <1> DEFINE m == updating[n]
  <1>1. m # NoMsg /\ m \in Messages /\ m.signer = OwnKey[n] /\ m.signer \in SporkKeys
    BY SporkAssumption DEF IInv, TypeOK, UpdatingInv, StoreUpdate
  <1>2. Store(n, m) /\ sent' = sent \cup {m} /\ disk' = disk /\ handling' = handling
    BY DEF StoreUpdate
  <1> HIDE DEF m
  <1>3. \A p \in Nodes : p # n => active'[p] = active[p] /\ byHash'[p] = byHash[p]
    BY <1>1, <1>2, StoreLemma DEF IInv
  <1>4. TypeOK'
    BY <1>1, <1>2, StoreLemma DEF IInv, TypeOK, StoreUpdate, m
  <1>5. NodesInv'
    <2> SUFFICES ASSUME NEW p \in Nodes
                 PROVE  MapsOK(active'[p], byHash'[p], sent') /\ MapsOK(disk'[p].active, disk'[p].byHash, sent')
      BY DEF NodesInv
    <2>1. sent \subseteq sent' /\ m \in sent'
      BY <1>2
    <2>2. MapsOK(active[p], byHash[p], sent) /\ MapsOK(disk[p].active, disk[p].byHash, sent)
      BY DEF IInv, NodesInv
    <2>3. MapsOK(active[p], byHash[p], sent') /\ MapsOK(disk'[p].active, disk'[p].byHash, sent')
      BY <1>2, <2>1, <2>2, MapsGrow
    <2>4. CASE p = n
      <3>1. active'[p] = [active[p] EXCEPT ![m.id][m.signer] = m] /\ byHash'[p] = byHash[p] \cup {m}
        BY <1>1, <1>2, <2>4, StoreLemma DEF IInv
      <3> QED
        BY SMT, <1>1, <2>1, <2>3, <3>1, MapsStore
    <2>5. CASE p # n
      BY <1>3, <2>3, <2>5
    <2> QED
      BY <2>4, <2>5
  <1>6. HandlingInv'
    <2> SUFFICES ASSUME NEW p \in Nodes, handling[p] # NoMsg
                 PROVE  /\ handling[p] \in sent' /\ handling[p].signer \in SporkKeys
                        /\ handling[p].signer # OwnKey[p] /\ active'[p][handling[p].id][handling[p].signer] # NoMsg
                             => active'[p][handling[p].id][handling[p].signer].time < handling[p].time
      BY <1>2 DEF HandlingInv
    <2>1. handling[p] \in Messages /\ handling[p].id \in IDs /\ handling[p].signer \in SignerKeys
      BY DEF IInv, TypeOK, Messages
    <2>2. handling[p].signer # OwnKey[p] =>
            active'[p][handling[p].id][handling[p].signer] = active[p][handling[p].id][handling[p].signer]
      BY SMT, <1>1, <1>2, <2>1, StoredAt
    <2> QED
      BY <1>2, <2>2 DEF IInv, HandlingInv
  <1>7. UpdatingInv'
    BY DEF IInv, TypeOK, UpdatingInv, StoreUpdate
  <1> QED
    BY <1>4, <1>5, <1>6, <1>7 DEF IInv

\* Signing adds to the messages in the network, or prepares one.
LEMMA SigningKeeps ==
    ASSUME IInv, NEW id \in IDs, NEW v \in Values,
           (\E n \in Nodes : SignUpdate(n, id, v)) \/ (\E k \in SignerKeys, t \in 0..MaxTime : SignElsewhere(k, id, v, t))
    PROVE  IInv'
  <1>1. CASE \E n \in Nodes : SignUpdate(n, id, v)
    <2>1. PICK n \in Nodes : SignUpdate(n, id, v)
      BY <1>1
    <2>2. OwnKey[n] \in SporkKeys /\ OwnKey[n] \in SignerKeys /\ OwnKey[n] # NoKey
      BY <2>1, SporkAssumption DEF SignUpdate
    <2>3. SporkMessage(id, v, clock, OwnKey[n]) \in Messages
      BY <2>2 DEF SporkMessage, Messages, IInv, TypeOK
    <2>4. TypeOK'
      BY <2>1, <2>3 DEF IInv, TypeOK, SignUpdate
    <2>5. NodesInv' /\ HandlingInv'
      BY <2>1 DEF IInv, NodesInv, HandlingInv, SignUpdate
    <2>6. UpdatingInv'
      BY <2>1, <2>2 DEF IInv, TypeOK, UpdatingInv, SignUpdate, SporkMessage
    <2> QED
      BY <2>4, <2>5, <2>6 DEF IInv
  <1>2. CASE \E k \in SignerKeys, t \in 0..MaxTime : SignElsewhere(k, id, v, t)
    <2>1. PICK k \in SignerKeys, t \in 0..MaxTime : SignElsewhere(k, id, v, t)
      BY <1>2
    <2>2. SporkMessage(id, v, t, k) \in Messages
      BY DEF SporkMessage, Messages, IInv, TypeOK
    <2>3. TypeOK'
      BY <2>1, <2>2 DEF IInv, TypeOK, SignElsewhere
    <2>4. sent \subseteq sent'
      BY <2>1 DEF SignElsewhere
    <2>5. NodesInv'
      BY <2>1, <2>4, MapsGrow DEF IInv, NodesInv, SignElsewhere
    <2>6. HandlingInv' /\ UpdatingInv'
      BY <2>1, <2>4 DEF IInv, HandlingInv, UpdatingInv, SignElsewhere
    <2> QED
      BY <2>3, <2>5, <2>6 DEF IInv
  <1> QED
    BY <1>1, <1>2

\* A restart or a crash: the maps are those in memory or those of sporks.dat.
LEMMA RestartKeeps ==
    ASSUME IInv, NEW n \in Nodes, Restart(n) \/ Crash(n)
    PROVE  IInv'
  <1>1. CASE Restart(n)
    <2>1. TypeOK'
      BY SMT, <1>1, SporkAssumption DEF IInv, TypeOK, Restart
    <2>2. NodesInv'
      BY <1>1 DEF IInv, TypeOK, NodesInv, Restart
    <2>3. HandlingInv' /\ UpdatingInv'
      BY <1>1 DEF IInv, HandlingInv, UpdatingInv, Restart
    <2> QED
      BY <2>1, <2>2, <2>3 DEF IInv
  <1>2. CASE Crash(n)
    <2>1. TypeOK'
      BY SMT, <1>2, SporkAssumption DEF IInv, TypeOK, Crash
    <2>2. NodesInv'
      BY <1>2 DEF IInv, TypeOK, NodesInv, Crash
    <2>3. HandlingInv' /\ UpdatingInv'
      BY <1>2 DEF IInv, TypeOK, HandlingInv, UpdatingInv, Crash
    <2> QED
      BY <2>1, <2>2, <2>3 DEF IInv
  <1> QED
    BY <1>1, <1>2

LEMMA NextIInv == IInv /\ [Next]_vars => IInv'
  <1> SUFFICES ASSUME IInv, [Next]_vars PROVE IInv'
    OBVIOUS
  <1>1. CASE \E n \in Nodes, m \in sent : ProcessSpork(n, m)
    BY <1>1, ProcessSporkKeeps
  <1>2. CASE \E n \in Nodes : StoreSpork(n)
    BY <1>2, StoreSporkKeeps
  <1>3. CASE \E n \in Nodes, id \in IDs, v \in Values : SignUpdate(n, id, v)
    BY <1>3, SigningKeeps
  <1>4. CASE \E n \in Nodes : StoreUpdate(n)
    BY <1>4, StoreUpdateKeeps
  <1>5. CASE \E k \in SignerKeys, id \in IDs, v \in Values, t \in 0..MaxTime : SignElsewhere(k, id, v, t)
    BY <1>5, SigningKeeps
  <1>6. CASE \E n \in Nodes : Crash(n) \/ Restart(n)
    BY <1>6, RestartKeeps
  <1>7. CASE Tick
    <2>1. TypeOK'
      BY SMT, <1>7, SporkAssumption DEF IInv, TypeOK, Tick
    <2> QED
      BY <1>7, <2>1 DEF IInv, NodesInv, HandlingInv, UpdatingInv, Tick
  <1>8. CASE UNCHANGED vars
    BY <1>8 DEF vars, IInv, TypeOK, NodesInv, HandlingInv, UpdatingInv
  <1> QED
    BY <1>1, <1>2, <1>3, <1>4, <1>5, <1>6, <1>7, <1>8 DEF Next

\* Two values with MinSporkKeys voters have a voter in common, as only spork keys vote.
LEMMA MajoritiesMeet == IInv => OneActiveValue
  <1> SUFFICES ASSUME IInv, NEW n \in Nodes, NEW id \in IDs, NEW v \in Values, NEW w \in Values,
                      SporkValueIsActive(active[n], id, v), SporkValueIsActive(active[n], id, w)
               PROVE  v = w
    BY DEF OneActiveValue
  <1> DEFINE V == Voters(active[n], id, v)
             W == Voters(active[n], id, w)
  <1>1. V \subseteq SporkKeys /\ W \subseteq SporkKeys
    BY SMT DEF IInv, NodesInv, MapsOK, Voters
  <1>2. Cardinality(V) \in Nat /\ Cardinality(W) \in Nat /\ Cardinality(SporkKeys) \in Nat
    BY <1>1, SporkAssumption, FS_Subset, FS_CardinalityType
  <1>3. Cardinality(V) >= MinSporkKeys /\ Cardinality(W) >= MinSporkKeys
    BY DEF SporkValueIsActive
  <1>4. Cardinality(V) + Cardinality(W) > Cardinality(SporkKeys)
    BY SMT, <1>2, <1>3, SporkAssumption
  <1>5. V \cap W # {}
    BY <1>1, <1>4, SporkAssumption, FS_MajoritiesIntersect
  <1> QED
    BY <1>5 DEF Voters

\* Whatever the number of nodes and keys, at most one value of a spork is active on a
\* node.
THEOREM SporkAgreement == Spec => [](TypeOK /\ OneActiveValue)
  <1>1. IInv => TypeOK
    BY DEF IInv
  <1> QED
    BY <1>1, InitIInv, NextIInv, MajoritiesMeet, PTL DEF Spec

LEMMA Served == IInv => ActiveServed
  BY SMT DEF IInv, NodesInv, MapsOK, ActiveServed

\* Every message that is active on a node can be served to its peers, and was signed by
\* the key it is stored under, after any interleaving of updates, crashes and restarts.
THEOREM EverythingServed == Spec => []ActiveServed
  BY Served, InitIInv, NextIInv, PTL DEF Spec

\* Two stored messages of a key, each as late as any it signed, have the same time.
LEMMA UpToDateAgree ==
    ASSUME IInv, NEW n \in Nodes, NEW p \in Nodes, NEW id \in IDs, NEW k \in SignerKeys,
           SignedApart(id, k), UpToDate(n, id, k), UpToDate(p, id, k)
    PROVE  active[n][id][k] = active[p][id][k]
  <1> DEFINE a(q) == active[q][id][k]
  <1>1. \A q \in {n, p} : a(q) # NoMsg => a(q) \in Messages /\ a(q).time \in Int
    BY SMT DEF IInv, TypeOK, Messages
  <1>2. \A q \in {n, p} : a(q) # NoMsg => a(q) \in sent /\ a(q).id = id /\ a(q).signer = k
    BY SMT, Served DEF ActiveServed
  <1>3. \A q, r \in {n, p} : a(q) # NoMsg => a(r) # NoMsg /\ a(r).time >= a(q).time
    BY <1>2 DEF UpToDate
  <1>4. CASE a(n) = NoMsg \/ a(p) = NoMsg
    BY <1>3, <1>4
  <1>5. CASE a(n) # NoMsg /\ a(p) # NoMsg
    <2>1. a(n) \in sent /\ a(n).id = id /\ a(n).signer = k /\ a(p) \in sent /\ a(p).id = id /\ a(p).signer = k
      BY <1>2, <1>5
    <2>2. a(n).time \in Int /\ a(p).time \in Int /\ a(n).time >= a(p).time /\ a(p).time >= a(n).time
      BY <1>1, <1>3, <1>5
    <2> HIDE DEF a
    <2>3. a(n).time = a(p).time
      BY SMT, <2>2
    <2>4. a(n) = a(p)
      BY <2>1, <2>3 DEF SignedApart
    <2> QED
      BY <2>4 DEF a
  <1> QED
    BY <1>4, <1>5

\* Nodes with nothing newer left to receive hold the same message of a key, in whatever
\* order, how often and with whatever restarts between they received the messages.
THEOREM NodesConverge == Spec => []NodesAgree
  <1>1. IInv => NodesAgree
    <2> SUFFICES ASSUME IInv, NEW n \in Nodes, NEW p \in Nodes, NEW id \in IDs, NEW k \in SignerKeys,
                        SignedApart(id, k), UpToDate(n, id, k), UpToDate(p, id, k)
                 PROVE  active[n][id][k] = active[p][id][k]
      BY SMT DEF NodesAgree
    <2> QED
      BY UpToDateAgree
  <1> QED
    BY <1>1, InitIInv, NextIInv, PTL DEF Spec

\* The two acquisitions of the lock in ProcessSpork never put an older message of another
\* party's key over a newer one.
LEMMA NewestStep ==
    ASSUME IInv, [Next]_vars, NEW n \in Nodes, NEW id \in IDs, NEW k \in SignerKeys,
           active[n][id][k] # NoMsg, active'[n][id][k] # active[n][id][k], k # OwnKey[n], ~Crash(n)
    PROVE  active'[n][id][k] # NoMsg /\ active'[n][id][k].time > active[n][id][k].time
  <1>1. CASE \E p \in Nodes : StoreSpork(p)
    <2>1. PICK p \in Nodes : StoreSpork(p)
      BY <1>1
    <2> DEFINE m == handling[p]
    <2>2. m # NoMsg /\ m \in Messages /\ Store(p, m)
      BY <2>1 DEF IInv, TypeOK, StoreSpork
    <2> HIDE DEF m
    <2>3. \/ n = p /\ id = m.id /\ k = m.signer /\ active'[n][id][k] = m
          \/ active'[n][id][k] = active[n][id][k]
      BY <2>2, StoredAt
    <2>4. n = p /\ id = m.id /\ k = m.signer /\ active'[n][id][k] = m
      BY <2>3
    <2>5. active[n][id][k].time < m.time
      BY <2>2, <2>4 DEF IInv, HandlingInv, m
    <2>6. active[n][id][k] \in Messages
      BY SMT DEF IInv, TypeOK
    <2> QED
      BY <2>2, <2>4, <2>5, <2>6 DEF Messages
  <1>2. CASE \E p \in Nodes : StoreUpdate(p)
    <2>1. PICK p \in Nodes : StoreUpdate(p)
      BY <1>2
    <2>2. updating[p] \in Messages /\ updating[p].signer = OwnKey[p] /\ Store(p, updating[p])
      BY <2>1 DEF IInv, TypeOK, StoreUpdate, UpdatingInv
    <2>3. \/ n = p /\ id = updating[p].id /\ k = updating[p].signer /\ active'[n][id][k] = updating[p]
          \/ active'[n][id][k] = active[n][id][k]
      BY <2>2, StoredAt
    <2> QED
      BY <2>2, <2>3
  <1>3. CASE \E p \in Nodes : Crash(p)
    BY <1>3 DEF IInv, TypeOK, Crash
  <1>4. CASE active' = active
    BY <1>4
  <1> QED
    BY <1>1, <1>2, <1>3, <1>4
    DEF Next, ProcessSpork, SignUpdate, SignElsewhere, Restart, Tick, vars

\* The message of a key the node does not own is only ever replaced by a later one, on
\* any number of nodes and for any interleaving of ProcessSpork with UpdateSpork.
THEOREM NewestStored == Spec => NewestWins
  <1>1. IInv /\ [Next]_vars =>
          [\A n \in Nodes, id \in IDs, k \in SignerKeys :
             LET old == active[n][id][k]
                 new == active'[n][id][k]
             IN  old # NoMsg /\ new # old /\ k # OwnKey[n] /\ ~Crash(n)
                   => new # NoMsg /\ new.time > old.time]_vars
    BY NewestStep
  <1> QED
    BY <1>1, InitIInv, NextIInv, PTL DEF Spec, NewestWins
=============================================================================
