---------------------------- MODULE MNListProofs ----------------------------
(***************************************************************************)
(* Proofs about MNList, MNListDiff and MNMempool for any masternodes,      *)
(* keys, addresses, collaterals, number of transactions in a block and     *)
(* size of the mempool.  First what the operations of the list do, stated  *)
(* as equations: entering, removing and replacing unique properties, and   *)
(* AddMN, UpdateMN and RemoveMN on a list whose unique map matches its     *)
(* masternodes; then the invariant of the list, the differences stored     *)
(* for the blocks, and the mempool.                                        *)
(***************************************************************************)
EXTENDS MNMempool, MNListDiff, TLAPS

\* Unless a step names another prover.
USE Zenon

Rec(mns, unique, bad) == [mns |-> mns, unique |-> unique, bad |-> bad]
One(id) == [mn |-> id, n |-> 1]

LEMMA Types ==
    /\ NoEntry \in Entry
    /\ \A id \in Nodes : One(id) \in Entry /\ One(id) # NoEntry /\ One(id).mn = id /\ One(id).n = 1
    /\ NoMN \notin MN
    /\ PropsOf(NoMN) = {}
    /\ \A mn \in MN : PropsOf(mn) \subseteq Props /\ mn.coll # Null /\ mn.owner # Null
  BY PropsAssumption DEF NoEntry, Entry, One, NoMN, MN, PropsOf, Props

LEMMA ListFields ==
    ASSUME NEW l \in List
    PROVE  /\ l = Rec(l.mns, l.unique, l.bad)
           /\ l.mns \in [Nodes -> MN \cup {NoMN}]
           /\ l.unique \in [Props -> Entry]
           /\ l.bad \in SUBSET (Nodes \cup Props)
  BY DEF List, Rec

\* Entering a free property, and removing a property entered once.
LEMMA AddFree ==
    ASSUME NEW l \in List, NEW id \in Nodes, NEW v \in Props, l.unique[v] = NoEntry
    PROVE  AddUniqueProperty(l, id, v) = Rec(l.mns, [l.unique EXCEPT ![v] = One(id)], l.bad)
           /\ AddUniqueProperty(l, id, v) \in List
  <1>1. v # Null
    BY PropsAssumption
  <1>2. l.unique[v].mn = Null /\ l.unique[v].n = 0
    BY SMT DEF NoEntry
  <1>3. AddUniqueProperty(l, id, v) = Rec(l.mns, [l.unique EXCEPT ![v] = One(id)], l.bad)
    <2>1. AddUniqueProperty(l, id, v)
            = [l EXCEPT !.bad = FailsUnless(l, l.unique[v].mn \in {Null, id}, v),
                        !.unique[v] = [mn |-> id, n |-> @.n + 1]]
      BY <1>1 DEF AddUniqueProperty
    <2>2. FailsUnless(l, l.unique[v].mn \in {Null, id}, v) = l.bad
      BY <1>2 DEF FailsUnless
    <2>3. [mn |-> id, n |-> l.unique[v].n + 1] = One(id)
      BY SMT, <1>2 DEF One
    <2> QED
      BY <2>1, <2>2, <2>3 DEF List, Rec
  <1>4. [l.unique EXCEPT ![v] = One(id)] \in [Props -> Entry]
    BY ListFields, Types
  <1> QED
    BY <1>3, <1>4, ListFields DEF List, Rec

LEMMA DeleteOwn ==
    ASSUME NEW l \in List, NEW id \in Nodes, NEW v \in Props, l.unique[v] = One(id)
    PROVE  DeleteUniqueProperty(l, id, v) = Rec(l.mns, [l.unique EXCEPT ![v] = NoEntry], l.bad)
           /\ DeleteUniqueProperty(l, id, v) \in List
  <1>1. v # Null
    BY PropsAssumption
  <1>2. l.unique[v].mn = id /\ l.unique[v].n = 1
    BY SMT DEF One
  <1>3. DeleteUniqueProperty(l, id, v) = Rec(l.mns, [l.unique EXCEPT ![v] = NoEntry], l.bad)
    <2>1. DeleteUniqueProperty(l, id, v)
            = [l EXCEPT !.bad = FailsUnless(l, l.unique[v].mn = id, v),
                        !.unique[v] = IF l.unique[v].n = 1 THEN NoEntry
                                      ELSE [mn |-> id, n |-> l.unique[v].n - 1]]
      BY <1>1 DEF DeleteUniqueProperty
    <2>2. FailsUnless(l, l.unique[v].mn = id, v) = l.bad
      BY <1>2 DEF FailsUnless
    <2> QED
      BY <1>2, <2>1, <2>2 DEF List, Rec
  <1>4. [l.unique EXCEPT ![v] = NoEntry] \in [Props -> Entry]
    BY ListFields, Types
  <1> QED
    BY <1>3, <1>4, ListFields DEF List, Rec

\* The same with unset properties, which have no entry.
Entered(unique, id, v) == [x \in Props |-> IF x = v THEN One(id) ELSE unique[x]]
Dropped(unique, v) == [x \in Props |-> IF x = v THEN NoEntry ELSE unique[x]]

LEMMA AddProperty ==
    ASSUME NEW l \in List, NEW id \in Nodes, NEW v \in Props \cup {Null},
           v # Null => l.unique[v] = NoEntry
    PROVE  /\ AddUniqueProperty(l, id, v) = Rec(l.mns, Entered(l.unique, id, v), l.bad)
           /\ AddUniqueProperty(l, id, v) \in List
  <1>1. CASE v = Null
    <2>1. Entered(l.unique, id, v) = l.unique
      BY SMT, <1>1, PropsAssumption, ListFields DEF Entered
    <2> QED
      BY <1>1, <2>1, ListFields DEF AddUniqueProperty
  <1>2. CASE v # Null
    <2>1. Entered(l.unique, id, v) = [l.unique EXCEPT ![v] = One(id)]
      BY <1>2, ListFields DEF Entered
    <2> QED
      BY <1>2, <2>1, AddFree
  <1> QED
    BY <1>1, <1>2

LEMMA DeleteProperty ==
    ASSUME NEW l \in List, NEW id \in Nodes, NEW v \in Props \cup {Null},
           v # Null => l.unique[v] = One(id)
    PROVE  /\ DeleteUniqueProperty(l, id, v) = Rec(l.mns, Dropped(l.unique, v), l.bad)
           /\ DeleteUniqueProperty(l, id, v) \in List
  <1>1. CASE v = Null
    <2>1. Dropped(l.unique, v) = l.unique
      BY <1>1, PropsAssumption, ListFields DEF Dropped
    <2> QED
      BY <1>1, <2>1, ListFields DEF DeleteUniqueProperty
  <1>2. CASE v # Null
    <2>1. Dropped(l.unique, v) = [l.unique EXCEPT ![v] = NoEntry]
      BY <1>2, ListFields DEF Dropped
    <2> QED
      BY <1>2, <2>1, DeleteOwn
  <1> QED
    BY <1>1, <1>2

LEMMA RecFields ==
    \A m, u, b : Rec(m, u, b).mns = m /\ Rec(m, u, b).unique = u /\ Rec(m, u, b).bad = b
  BY DEF Rec

\* Entering a property that another masternode has: the assertion fails.
LEMMA AddClash ==
    ASSUME NEW l \in List, NEW id \in Nodes, NEW k \in Props, NEW other \in Nodes, other # id,
           l.unique[k] = One(other)
    PROVE  AddUniqueProperty(l, id, k)
             = Rec(l.mns, [l.unique EXCEPT ![k] = [mn |-> id, n |-> 2]], l.bad \cup {k})
  <1>1. AddUniqueProperty(l, id, k)
          = [l EXCEPT !.bad = FailsUnless(l, l.unique[k].mn \in {Null, id}, k),
                      !.unique[k] = [mn |-> id, n |-> @.n + 1]]
    BY PropsAssumption DEF AddUniqueProperty
  <1>2. l.unique[k].mn = other /\ l.unique[k].n = 1
    BY Types
  <1>3. FailsUnless(l, l.unique[k].mn \in {Null, id}, k) = l.bad \cup {k}
    BY <1>2, PropsAssumption DEF FailsUnless
  <1>4. [mn |-> id, n |-> l.unique[k].n + 1] = [mn |-> id, n |-> 2]
    BY SMT, <1>2
  <1>5. AddUniqueProperty(l, id, k)
          = [l EXCEPT !.bad = l.bad \cup {k}, !.unique[k] = [mn |-> id, n |-> 2]]
    <2> HIDE DEF List
    <2> QED
      BY <1>1, <1>3, <1>4
  <1> QED
    BY <1>5 DEF List, Rec

\* What the operations amount to: id has the properties of mn and no others.
Changed(l, id, mn) ==
    [x \in Props |-> IF x \in PropsOf(mn) THEN One(id)
                     ELSE IF x \in PropsOf(l.mns[id]) THEN NoEntry ELSE l.unique[x]]
Change(l, id, mn) == Rec([l.mns EXCEPT ![id] = mn], Changed(l, id, mn), l.bad)

\* A masternode whose properties are all free is entered with all of them.
LEMMA AddMNLemma ==
    ASSUME NEW l \in List, NEW id \in Nodes, NEW mn \in MN, ~HasMN(l, id),
           \A v \in PropsOf(mn) : l.unique[v] = NoEntry
    PROVE  AddMN(l, id, mn) = Change(l, id, mn) /\ AddMN(l, id, mn) \in List
  <1> DEFINE l1 == SetMN(l, id, mn, ~HasMN(l, id))
             l2 == AddUniqueProperty(l1, id, mn.coll)
             l3 == AddUniqueProperty(l2, id, mn.addr)
             l4 == AddUniqueProperty(l3, id, mn.owner)
             l5 == AddUniqueProperty(l4, id, mn.op)
             mns == [l.mns EXCEPT ![id] = mn]
  <1>0. FailsUnless(l, ~HasMN(l, id), id) = l.bad
    BY DEF FailsUnless
  <1>1. l1 = Rec(mns, l.unique, l.bad)
    BY <1>0 DEF SetMN, Rec
  <1>2. l1 \in List
    BY <1>1, ListFields DEF List, Rec
  <1>3. /\ mn.coll \in Collaterals /\ mn.addr \in Addrs \cup {Null}
        /\ mn.owner \in Owners /\ mn.op \in Operators \cup {Null}
    BY DEF MN
  <1>4. /\ mn.coll \in Props \cup {Null} /\ mn.addr \in Props \cup {Null}
        /\ mn.owner \in Props \cup {Null} /\ mn.op \in Props \cup {Null}
        /\ mn.coll # mn.addr /\ mn.coll # mn.owner /\ mn.coll # mn.op
        /\ mn.owner # mn.addr /\ mn.owner # mn.op /\ (mn.op # Null => mn.op # mn.addr)
    BY <1>3, PropsAssumption DEF Props
  <1>5. \A v \in {mn.coll, mn.addr, mn.owner, mn.op} : v # Null => v \in Props /\ l.unique[v] = NoEntry
    BY SMT, <1>4 DEF PropsOf
  <1> HIDE DEF l1
  <1>6. l2 = Rec(mns, Entered(l.unique, id, mn.coll), l.bad) /\ l2 \in List
    BY SMT, <1>1, <1>2, <1>4, <1>5, AddProperty, RecFields
  <1> HIDE DEF l2
  <1>7. l3 = Rec(mns, Entered(Entered(l.unique, id, mn.coll), id, mn.addr), l.bad) /\ l3 \in List
    <2>1. mn.addr # Null => l2.unique[mn.addr] = NoEntry
      BY SMT, <1>4, <1>5, <1>6, RecFields DEF Entered
    <2> QED
      BY SMT, <1>4, <1>6, <2>1, AddProperty, RecFields
  <1> HIDE DEF l3
  <1>8. /\ l4 = Rec(mns, Entered(Entered(Entered(l.unique, id, mn.coll), id, mn.addr), id, mn.owner), l.bad)
        /\ l4 \in List
    <2>1. mn.owner # Null => l3.unique[mn.owner] = NoEntry
      BY SMT, <1>4, <1>5, <1>7, RecFields DEF Entered
    <2> QED
      BY SMT, <1>4, <1>7, <2>1, AddProperty, RecFields
  <1> HIDE DEF l4
  <1>9. /\ l5 = Rec(mns, Entered(Entered(Entered(Entered(l.unique, id, mn.coll), id, mn.addr),
                                         id, mn.owner), id, mn.op), l.bad)
        /\ l5 \in List
    <2>1. mn.op # Null => l4.unique[mn.op] = NoEntry
      BY SMT, <1>4, <1>5, <1>8, RecFields DEF Entered
    <2> QED
      BY SMT, <1>4, <1>8, <2>1, AddProperty, RecFields
  <1>10. Entered(Entered(Entered(Entered(l.unique, id, mn.coll), id, mn.addr), id, mn.owner), id, mn.op)
           = [x \in Props |-> IF x \in PropsOf(mn) THEN One(id) ELSE l.unique[x]]
    BY PropsAssumption DEF Entered, PropsOf
  <1>11. AddMN(l, id, mn) = l5
    BY DEF AddMN, l1, l2, l3, l4
  <1>12. Changed(l, id, mn) = [x \in Props |-> IF x \in PropsOf(mn) THEN One(id) ELSE l.unique[x]]
    BY Types DEF Changed, HasMN
  <1> QED
    BY <1>9, <1>10, <1>11, <1>12 DEF Change

\* A masternode is removed with all its properties.
LEMMA RemoveMNLemma ==
    ASSUME NEW l \in List, NEW id \in Nodes, HasMN(l, id),
           \A v \in PropsOf(l.mns[id]) : l.unique[v] = One(id)
    PROVE  RemoveMN(l, id) = Change(l, id, NoMN) /\ RemoveMN(l, id) \in List
  <1> DEFINE mn == l.mns[id]
             l1 == SetMN(l, id, NoMN, HasMN(l, id))
             l2 == DeleteUniqueProperty(l1, id, mn.coll)
             l3 == DeleteUniqueProperty(l2, id, mn.addr)
             l4 == DeleteUniqueProperty(l3, id, mn.owner)
             mns == [l.mns EXCEPT ![id] = NoMN]
             l5 == DeleteUniqueProperty(l4, id, mn.op)
  <1>0. FailsUnless(l, HasMN(l, id), id) = l.bad
    BY DEF FailsUnless
  <1>1. l1 = Rec(mns, l.unique, l.bad) /\ l1 \in List
    BY <1>0, ListFields DEF SetMN, Rec, List
  <1>2. mn \in MN
    BY ListFields DEF HasMN
  <1>3. /\ mn.coll \in Collaterals /\ mn.addr \in Addrs \cup {Null}
        /\ mn.owner \in Owners /\ mn.op \in Operators \cup {Null}
    BY <1>2 DEF MN
  <1>4. /\ mn.coll \in Props \cup {Null} /\ mn.addr \in Props \cup {Null}
        /\ mn.owner \in Props \cup {Null} /\ mn.op \in Props \cup {Null}
        /\ mn.coll # mn.addr /\ mn.coll # mn.owner /\ mn.coll # mn.op
        /\ mn.owner # mn.addr /\ mn.owner # mn.op /\ (mn.op # Null => mn.op # mn.addr)
    BY <1>3, PropsAssumption DEF Props
  <1>5. \A v \in {mn.coll, mn.addr, mn.owner, mn.op} : v # Null => v \in Props /\ l.unique[v] = One(id)
    BY SMT, <1>4 DEF PropsOf
  <1> HIDE DEF l1, mn, mns
  <1>6. l2 = Rec(mns, Dropped(l.unique, mn.coll), l.bad) /\ l2 \in List
    BY SMT, <1>1, <1>4, <1>5, DeleteProperty, RecFields
  <1> HIDE DEF l2
  <1>7. l3 = Rec(mns, Dropped(Dropped(l.unique, mn.coll), mn.addr), l.bad) /\ l3 \in List
    <2>1. mn.addr # Null => l2.unique[mn.addr] = One(id)
      BY SMT, <1>4, <1>5, <1>6, RecFields DEF Dropped
    <2> QED
      BY SMT, <1>4, <1>6, <2>1, DeleteProperty, RecFields
  <1> HIDE DEF l3
  <1>8. /\ l4 = Rec(mns, Dropped(Dropped(Dropped(l.unique, mn.coll), mn.addr), mn.owner), l.bad)
        /\ l4 \in List
    <2>1. mn.owner # Null => l3.unique[mn.owner] = One(id)
      BY SMT, <1>4, <1>5, <1>7, RecFields DEF Dropped
    <2> QED
      BY SMT, <1>4, <1>7, <2>1, DeleteProperty, RecFields
  <1> HIDE DEF l4
  <1>9. /\ l5 = Rec(mns, Dropped(Dropped(Dropped(Dropped(l.unique, mn.coll), mn.addr),
                                           mn.owner), mn.op), l.bad)
        /\ l5 \in List
    <2>1. mn.op # Null => l4.unique[mn.op] = One(id)
      BY SMT, <1>4, <1>5, <1>8, RecFields DEF Dropped
    <2> QED
      BY SMT, <1>4, <1>8, <2>1, DeleteProperty, RecFields
  <1>10. Dropped(Dropped(Dropped(Dropped(l.unique, mn.coll), mn.addr), mn.owner), mn.op)
           = [x \in Props |-> IF x \in PropsOf(mn) THEN NoEntry ELSE l.unique[x]]
    BY PropsAssumption DEF Dropped, PropsOf
  <1>11. RemoveMN(l, id) = l5
    BY DEF RemoveMN, l1, l2, l3, l4, mn
  <1>12. Changed(l, id, NoMN) = [x \in Props |-> IF x \in PropsOf(mn) THEN NoEntry ELSE l.unique[x]]
    BY Types DEF Changed, mn
  <1> QED
    BY <1>9, <1>10, <1>11, <1>12 DEF mns, Change

\* A change of the address or of the operator key.
LEMMA UpdateProperty ==
    ASSUME NEW l \in List, NEW id \in Nodes,
           NEW old \in Props \cup {Null}, NEW val \in Props \cup {Null},
           old # Null => l.unique[old] = One(id),
           val # Null /\ val # old => l.unique[val] = NoEntry
    PROVE  /\ UpdateUniqueProperty(l, id, old, val)
                = Rec(l.mns, Entered(Dropped(l.unique, old), id, val), l.bad)
           /\ UpdateUniqueProperty(l, id, old, val) \in List
  <1>1. CASE old = val
    <2>1. Entered(Dropped(l.unique, old), id, val) = l.unique
      BY SMT, <1>1, PropsAssumption, ListFields DEF Entered, Dropped
    <2> QED
      BY <1>1, <2>1, ListFields DEF UpdateUniqueProperty
  <1>2. CASE old # val
    <2> DEFINE d == DeleteUniqueProperty(l, id, old)
    <2>1. d = Rec(l.mns, Dropped(l.unique, old), l.bad) /\ d \in List
      BY DeleteProperty
    <2>2. val # Null => d.unique[val] = NoEntry
      BY SMT, <1>2, <2>1, RecFields DEF Dropped
    <2>3. UpdateUniqueProperty(l, id, old, val) = AddUniqueProperty(d, id, val)
      BY <1>2 DEF UpdateUniqueProperty
    <2> HIDE DEF d
    <2> QED
      BY SMT, <2>1, <2>2, <2>3, AddProperty, RecFields
  <1> QED
    BY <1>1, <1>2

\* An update keeps collateral and owner; a new address is free, and so is a new
\* operator key.
LEMMA UpdateMNLemma ==
    ASSUME NEW l \in List, NEW id \in Nodes, NEW mn \in MN, HasMN(l, id),
           \A v \in PropsOf(l.mns[id]) : l.unique[v] = One(id),
           mn.coll = l.mns[id].coll, mn.owner = l.mns[id].owner,
           mn.addr # Null /\ mn.addr # l.mns[id].addr => l.unique[mn.addr] = NoEntry,
           mn.op # Null /\ mn.op # l.mns[id].op => l.unique[mn.op] = NoEntry
    PROVE  UpdateMN(l, id, mn) = Change(l, id, mn) /\ UpdateMN(l, id, mn) \in List
  <1> DEFINE old == l.mns[id]
             l1 == SetMN(l, id, mn, HasMN(l, id))
             l2 == UpdateUniqueProperty(l1, id, old.addr, mn.addr)
             l3 == UpdateUniqueProperty(l2, id, old.owner, mn.owner)
             l4 == UpdateUniqueProperty(l3, id, old.op, mn.op)
             mns == [l.mns EXCEPT ![id] = mn]
             u2 == Entered(Dropped(l.unique, old.addr), id, mn.addr)
             u4 == Entered(Dropped(u2, old.op), id, mn.op)
  <1>0. FailsUnless(l, HasMN(l, id), id) = l.bad
    BY DEF FailsUnless
  <1>1. l1 = Rec(mns, l.unique, l.bad) /\ l1 \in List
    BY <1>0, ListFields DEF SetMN, Rec, List
  <1>2. old \in MN
    BY ListFields DEF HasMN
  <1>3. /\ old.addr \in Addrs \cup {Null} /\ mn.addr \in Addrs \cup {Null}
        /\ old.op \in Operators \cup {Null} /\ mn.op \in Operators \cup {Null}
        /\ old.coll \in Collaterals /\ old.owner \in Owners
    BY <1>2 DEF MN
  <1>4. /\ old.addr \in Props \cup {Null} /\ mn.addr \in Props \cup {Null}
        /\ old.op \in Props \cup {Null} /\ mn.op \in Props \cup {Null}
        /\ old.op # Null => old.op # old.addr /\ old.op # mn.addr
        /\ mn.op # Null => mn.op # old.addr /\ mn.op # mn.addr
    BY <1>3, PropsAssumption DEF Props
  <1>5. /\ old.addr # Null => l.unique[old.addr] = One(id)
        /\ old.op # Null => l.unique[old.op] = One(id)
    BY DEF PropsOf
  <1>6. l2 = Rec(mns, u2, l.bad) /\ l2 \in List
    <2> HIDE DEF l1, mns
    <2> QED
      BY SMT, <1>1, <1>4, <1>5, UpdateProperty, RecFields
  <1>7. l3 = l2
    BY DEF UpdateUniqueProperty
  <1>8. /\ old.op # Null => u2[old.op] = One(id)
        /\ mn.op # Null /\ mn.op # old.op => u2[mn.op] = NoEntry
    BY <1>4, <1>5 DEF Entered, Dropped
  <1>9. l4 = Rec(mns, u4, l.bad) /\ l4 \in List
    <2> HIDE DEF l2, mns, u2, old
    <2> QED
      BY SMT, <1>4, <1>6, <1>7, <1>8, UpdateProperty, RecFields
  <1>10. u4 = Changed(l, id, mn)
    <2>1. \A x \in Props : u4[x] = Changed(l, id, mn)[x]
      <3> TAKE x \in Props
      <3>1. x # Null
        BY PropsAssumption
      <3>2. CASE x \in {mn.coll, mn.owner}
        <4>1. l.unique[x] = One(id) /\ x \in PropsOf(mn)
          BY <3>1, <3>2 DEF PropsOf
        <4>2. x \notin {old.addr, mn.addr, old.op, mn.op}
          BY <1>3, <3>1, <3>2, PropsAssumption
        <4> QED
          BY <4>1, <4>2 DEF Changed, Entered, Dropped
      <3>3. CASE x \notin {mn.coll, mn.owner}
        BY <1>4, <3>1, <3>3 DEF Changed, Entered, Dropped, PropsOf
      <3> QED
        BY <3>2, <3>3
    <2> QED
      BY <2>1 DEF Changed, Entered
  <1>11. UpdateMN(l, id, mn) = l4
    BY DEF UpdateMN
  <1> QED
    BY <1>9, <1>10, <1>11 DEF Change

LEMMA OwnEntries ==
    ASSUME NEW l, UniqueMatches(l), NEW id \in Nodes, NEW v \in PropsOf(l.mns[id])
    PROVE  l.unique[v] = One(id)
  BY DEF UniqueMatches, One

\* A changed masternode leaves the map exact if what it takes is free or its own.
LEMMA ChangeMatches ==
    ASSUME NEW l \in List, UniqueMatches(l), NEW id \in Nodes, NEW mn \in MN \cup {NoMN},
           \A v \in PropsOf(mn) : l.unique[v] \in {NoEntry, One(id)}
    PROVE  UniqueMatches(Change(l, id, mn))
  <1> DEFINE m == [l.mns EXCEPT ![id] = mn]
             u == Changed(l, id, mn)
  <1>1. Change(l, id, mn).mns = m /\ Change(l, id, mn).unique = u
    BY SMT, RecFields DEF Change
  <1>2. \A x \in Nodes : PropsOf(l.mns[x]) \subseteq Props
    BY SMT, ListFields, Types
  <1>3. PropsOf(mn) \subseteq Props
    BY Types
  <1>4. \A x \in Nodes : x # id => m[x] = l.mns[x]
    BY ListFields
  <1>5. m[id] = mn
    BY ListFields
  <1>6. ASSUME NEW x \in Nodes, NEW v \in PropsOf(m[x]) PROVE u[v] = One(x)
    <2>1. CASE x = id
      BY <1>3, <1>5, <1>6, <2>1 DEF Changed
    <2>2. CASE x # id
      <3>1. l.unique[v] = One(x) /\ v \in Props
        BY SMT, <1>2, <1>4, <1>6, <2>2, OwnEntries
      <3>2. v \notin PropsOf(mn)
        BY <2>2, <3>1, Types
      <3>3. v \notin PropsOf(l.mns[id])
        <4>1. v \in PropsOf(l.mns[id]) => l.unique[v] = One(id)
          BY OwnEntries
        <4> QED
          BY SMT, <2>2, <3>1, <4>1, Types
      <3> QED
        BY <3>1, <3>2, <3>3 DEF Changed
    <2> QED
      BY <2>1, <2>2
  <1>7. ASSUME NEW v \in Props, u[v] # NoEntry PROVE \E x \in Nodes : v \in PropsOf(m[x])
    <2>1. CASE v \in PropsOf(mn)
      BY <1>5, <2>1
    <2>2. CASE v \notin PropsOf(mn)
      <3>1. v \notin PropsOf(l.mns[id]) /\ l.unique[v] # NoEntry
        BY <1>7, <2>2 DEF Changed
      <3>2. PICK x \in Nodes : v \in PropsOf(l.mns[x])
        BY <3>1 DEF UniqueMatches
      <3> QED
        BY <1>4, <3>1, <3>2
    <2> QED
      BY <2>1, <2>2
  <1> HIDE DEF m, u
  <1> QED
    BY <1>1, <1>6, <1>7 DEF UniqueMatches, One

\* Whose a property is.
LEMMA Owned ==
    ASSUME NEW l \in List, UniqueMatches(l), NEW v \in Props, l.unique[v] # NoEntry
    PROVE  /\ l.unique[v].mn \in Nodes
           /\ l.unique[v] = One(l.unique[v].mn)
           /\ v \in PropsOf(l.mns[l.unique[v].mn])
           /\ HasMN(l, l.unique[v].mn)
  <1>1. PICK id \in Nodes : v \in PropsOf(l.mns[id])
    BY DEF UniqueMatches
  <1>2. l.unique[v] = One(id) /\ One(id).mn = id
    BY SMT, <1>1, OwnEntries, Types
  <1>3. HasMN(l, id)
    BY <1>1, Types DEF HasMN
  <1> QED
    BY <1>1, <1>2, <1>3

\* What the list has for x once the masternode with the collateral c is gone.
Without(l, c, x) == IF l.mns[x].coll = c THEN NoMN ELSE l.mns[x]

\* Replaced() and the removal of a spent collateral: afterwards no masternode has it.
LEMMA ReplacedLemma ==
    ASSUME NEW l \in List, UniqueMatches(l), NEW c \in Collaterals
    PROVE  /\ Replaced(l, c) \in List /\ UniqueMatches(Replaced(l, c))
           /\ Replaced(l, c).bad = l.bad
           /\ Replaced(l, c).unique[c] = NoEntry
           /\ \A id \in Nodes : Replaced(l, c).mns[id] \in {l.mns[id], NoMN}
           /\ \A id \in Nodes : Replaced(l, c).mns[id].coll # c
           /\ \A id \in Nodes : Replaced(l, c).mns[id] = Without(l, c, id)
           /\ \A v \in Props : Replaced(l, c).unique[v] \in {l.unique[v], NoEntry}
  <1>1. c \in Props /\ c # Null
    BY PropsAssumption DEF Props
  <1>2. ASSUME NEW k \in List, UniqueMatches(k), k.unique[c] = NoEntry
        PROVE  \A id \in Nodes : k.mns[id].coll # c
    <2> SUFFICES ASSUME NEW id \in Nodes, k.mns[id].coll = c PROVE FALSE
      OBVIOUS
    <2>1. c \in PropsOf(k.mns[id])
      BY <1>1 DEF PropsOf
    <2> QED
      BY SMT, <1>2, <2>1, OwnEntries, Types
  <1>3. CASE ~HasUniqueProperty(l, c)
    <2>1. Replaced(l, c) = l /\ l.unique[c] = NoEntry
      BY <1>1, <1>3 DEF Replaced, HasUniqueProperty
    <2>2. \A id \in Nodes : l.mns[id].coll # c
      BY <1>2, <2>1
    <2> QED
      BY <2>1, <2>2 DEF Without
  <1>4. CASE HasUniqueProperty(l, c)
    <2> DEFINE id == l.unique[c].mn
    <2>1. id \in Nodes /\ HasMN(l, id) /\ c \in PropsOf(l.mns[id])
      BY <1>1, <1>4, Owned DEF HasUniqueProperty
    <2>2. \A v \in PropsOf(l.mns[id]) : l.unique[v] = One(id)
      BY <2>1, OwnEntries
    <2>3. Replaced(l, c) = Change(l, id, NoMN) /\ Replaced(l, c) \in List
      <3>1. Replaced(l, c) = RemoveMN(l, id)
        BY <1>4 DEF Replaced
      <3> HIDE DEF id
      <3> QED
        BY <2>1, <2>2, <3>1, RemoveMNLemma
    <2>4. UniqueMatches(Replaced(l, c))
      <3> HIDE DEF id
      <3> QED
        BY SMT, <2>1, <2>3, ChangeMatches, Types
    <2>5. /\ Replaced(l, c).mns = [l.mns EXCEPT ![id] = NoMN]
          /\ Replaced(l, c).unique = Changed(l, id, NoMN)
          /\ Replaced(l, c).bad = l.bad
      BY SMT, <2>3, RecFields DEF Change
    <2>6. \A v \in Props : Replaced(l, c).unique[v] \in {l.unique[v], NoEntry}
      BY <2>5, Types DEF Changed
    <2>7. Replaced(l, c).unique[c] = NoEntry
      BY <1>1, <2>1, <2>5, Types DEF Changed
    <2>8. \A x \in Nodes : Replaced(l, c).mns[x] \in {l.mns[x], NoMN}
      BY <2>5, ListFields
    <2>9. l.mns[id].coll = c
      <3>1. l.mns[id] \in MN
        BY <2>1, ListFields DEF HasMN
      <3> QED
        BY <2>1, <3>1, PropsAssumption DEF PropsOf, MN
    <2>10. ASSUME NEW x \in Nodes, l.mns[x].coll = c PROVE x = id
      <3>1. l.unique[c] = One(x)
        BY ZenonT(30), <1>1, <2>10, OwnEntries DEF PropsOf
      <3> QED
        BY <3>1, Types
    <2>11. \A x \in Nodes : Replaced(l, c).mns[x] = Without(l, c, x)
      BY <2>1, <2>5, <2>9, <2>10, ListFields DEF Without
    <2> HIDE DEF id
    <2> QED
      BY <1>2, <2>3, <2>4, <2>5, <2>6, <2>7, <2>8, <2>11
  <1> QED
    BY <1>3, <1>4

\* The one case in which an assertion fails: the new operator key is another's.
LEMMA UpdateClash ==
    ASSUME NEW l \in List, NEW id \in Nodes, HasMN(l, id),
           \A v \in PropsOf(l.mns[id]) : l.unique[v] = One(id),
           NEW k \in Operators, NEW other \in Nodes, other # id, l.unique[k] = One(other)
    PROVE  LET l9 == UpdateMN(l, id, WithOperator(l.mns[id], k))
           IN  /\ l9 \in List
               /\ l9.mns = [l.mns EXCEPT ![id] = WithOperator(l.mns[id], k)]
               /\ l9.bad = l.bad \cup {k}
  <1> DEFINE old == l.mns[id]
             mn == WithOperator(old, k)
             l1 == SetMN(l, id, mn, HasMN(l, id))
             l2 == UpdateUniqueProperty(l1, id, old.addr, mn.addr)
             l3 == UpdateUniqueProperty(l2, id, old.owner, mn.owner)
             l4 == UpdateUniqueProperty(l3, id, old.op, mn.op)
             mns == [l.mns EXCEPT ![id] = mn]
             u2 == Entered(Dropped(l.unique, old.addr), id, Null)
             d == DeleteUniqueProperty(l3, id, old.op)
  <1>0. FailsUnless(l, HasMN(l, id), id) = l.bad
    BY DEF FailsUnless
  <1>1. old \in MN
    BY ListFields DEF HasMN
  <1>2. k # old.op /\ k \in Props /\ k # Null
    <2>1. k \in Props /\ k # Null
      BY PropsAssumption DEF Props
    <2>2. old.op = k => k \in PropsOf(old)
      BY <2>1 DEF PropsOf
    <2> QED
      BY <2>1, <2>2, Types
  <1>3. /\ mn \in MN /\ mn.addr = Null /\ mn.op = k /\ mn.owner = old.owner
    BY <1>1, <1>2 DEF WithOperator, MN
  <1>4. /\ old.addr \in Addrs \cup {Null} /\ old.op \in Operators \cup {Null}
        /\ old.addr \in Props \cup {Null} /\ old.op \in Props \cup {Null}
        /\ old.op # Null => old.op # old.addr
        /\ k # old.addr
    <2>1. old.addr \in Addrs \cup {Null} /\ old.op \in Operators \cup {Null}
      BY <1>1 DEF MN
    <2> QED
      BY <1>2, <2>1, PropsAssumption DEF Props
  <1>5. /\ old.addr # Null => l.unique[old.addr] = One(id)
        /\ old.op # Null => l.unique[old.op] = One(id)
    BY DEF PropsOf
  <1>6. l1 = Rec(mns, l.unique, l.bad) /\ l1 \in List
    <2> HIDE DEF mn
    <2> QED
      BY <1>0, <1>3, ListFields DEF SetMN, Rec, List
  <1>7. l2 = Rec(mns, u2, l.bad) /\ l2 \in List
    <2> HIDE DEF l1, mns, mn
    <2> QED
      <3>1. l1.mns = mns /\ l1.unique = l.unique /\ l1.bad = l.bad
        BY SMT, <1>6, RecFields
      <3>2. l2 = UpdateUniqueProperty(l1, id, old.addr, Null)
        BY <1>3
      <3> HIDE DEF old, l2
      <3>3. l2 = Rec(l1.mns, Entered(Dropped(l1.unique, old.addr), id, Null), l1.bad) /\ l2 \in List
        BY SMT, <1>4, <1>5, <1>6, <3>1, <3>2, UpdateProperty
      <3> QED
        BY <3>1, <3>3
  <1>8. l3 = l2
    BY <1>3 DEF UpdateUniqueProperty
  <1>9. /\ old.op # Null => u2[old.op] = One(id)
        /\ u2[k] = One(other)
    BY <1>2, <1>4, <1>5 DEF Entered, Dropped
  <1> HIDE DEF l1, l2, mns, u2, mn, old
  <1>10. d = Rec(mns, Dropped(u2, old.op), l.bad) /\ d \in List
    BY SMT, <1>4, <1>7, <1>8, <1>9, DeleteProperty, RecFields
  <1>11. l4 = AddUniqueProperty(d, id, k)
    BY <1>2, <1>3 DEF UpdateUniqueProperty
  <1>12. d.unique[k] = One(other) /\ d.bad = l.bad /\ d.mns = mns
    BY SMT, <1>2, <1>9, <1>10, RecFields DEF Dropped
  <1> HIDE DEF d, l3
  <1>13. AddUniqueProperty(d, id, k)
           = Rec(mns, [d.unique EXCEPT ![k] = [mn |-> id, n |-> 2]], l.bad \cup {k})
    BY SMT, <1>2, <1>10, <1>12, AddClash
  <1>14. [d.unique EXCEPT ![k] = [mn |-> id, n |-> 2]] \in [Props -> Entry]
    BY <1>10, ListFields DEF Entry
  <1>15. l.bad \cup {k} \subseteq Nodes \cup Props /\ mns \in [Nodes -> MN \cup {NoMN}]
    BY <1>2, <1>3, ListFields DEF mns
  <1>16. Rec(mns, [d.unique EXCEPT ![k] = [mn |-> id, n |-> 2]], l.bad \cup {k}) \in List
    BY <1>14, <1>15 DEF Rec, List
  <1>17. UpdateMN(l, id, mn) = l4
    BY DEF UpdateMN, l1, l2, l3, old
  <1> QED
    BY SMT, <1>11, <1>13, <1>16, <1>17, RecFields DEF mn, old, mns

-----------------------------------------------------------------------------

\* What was already there, or else claimed by a transaction of this block.
Traced ==
    phase = "txs" => \A v \in Props :
        new.unique[v] # NoEntry => new.unique[v] = prev.unique[v] \/ v \in claimed

IInv ==
    /\ TypeOK
    /\ UniqueMatches(prev) /\ prev.bad = {}
    /\ phase # "crashed" => UniqueMatches(new) /\ new.bad = {}
    /\ new.bad \subseteq Operators
    /\ \A id \in Nodes : HasMN(prev, id) => id \in registered \ claimed
    /\ \A id \in Nodes : HasMN(new, id) => id \in registered
    /\ Traced
    /\ CollateralsUnspent
    /\ fromMempool => phase # "crashed"

LEMMA InitIInv == Init => IInv
  <1> SUFFICES ASSUME Init PROVE IInv
    OBVIOUS
  <1>1. EmptyList \in List /\ UniqueMatches(EmptyList) /\ EmptyList.bad = {}
    BY Types DEF EmptyList, List, UniqueMatches
  <1>2. \A id \in Nodes : ~HasMN(EmptyList, id)
    BY DEF EmptyList, HasMN
  <1>3. \A v \in Props : EmptyList.unique[v] = NoEntry
    BY DEF EmptyList
  <1> QED
    BY <1>1, <1>2, <1>3 DEF Init, IInv, TypeOK, Traced, CollateralsUnspent

\* What a step does to the list under construction: it takes in what the transaction
\* claims and no more, and the masternode with the collateral c, if any, goes.
Trace(claims) ==
    \A v \in Props : new'.unique[v] # NoEntry => new'.unique[v] = new.unique[v] \/ v \in claims

Registers(id, mn, claims) ==
    /\ phase' = "txs" /\ prev' = prev /\ utxo' = utxo /\ txs' = txs + 1
    /\ claimed' = claimed \cup claims /\ registered' = registered \cup {id}
    /\ new'.mns[id] = mn
    /\ \A x \in Nodes \ {id} : new'.mns[x] = Without(new, mn.coll, x)
    /\ Trace(claims)

Updates(id, mn, claims) ==
    /\ phase' \in {"txs", "crashed"} /\ prev' = prev /\ utxo' = utxo /\ txs' = txs + 1
    /\ claimed' = claimed \cup claims /\ registered' = registered
    /\ HasMN(new, id) /\ new'.mns = [new.mns EXCEPT ![id] = mn]
    /\ phase' = "txs" => Trace(claims)
    /\ phase' = "crashed" => \E v \in claims : OwnedByOther(new, v, id) /\ ~OwnedByOther(prev, v, id)

Spends(c) ==
    /\ phase' = "spends" /\ prev' = prev /\ utxo' = utxo \ {c} /\ txs' = txs
    /\ claimed' = claimed /\ registered' = registered
    /\ \A x \in Nodes : new'.mns[x] = Without(new, c, x)
    /\ Trace({})

\* A block found invalid leaves the list of the previous one.
LEMMA RejectedInv ==
    ASSUME IInv, phase = "txs", Rejected
    PROVE  IInv'
  <1>1. /\ new' = prev /\ prev' = prev /\ utxo' = utxo /\ registered' = registered \ claimed
        /\ phase' = phase /\ claimed' = {} /\ changed' = {} /\ txs' = 0 /\ fromMempool' \in BOOLEAN
    BY DEF Rejected
  <1>2. TypeOK'
    BY <1>1 DEF IInv, TypeOK
  <1>3. Traced' /\ CollateralsUnspent'
    BY <1>1 DEF IInv, Traced, CollateralsUnspent, HasMN
  <1> QED
    BY <1>1, <1>2, <1>3 DEF IInv, HasMN

\* A transaction processed without a failed assertion.
LEMMA ProcessedInv ==
    ASSUME IInv, phase = "txs",
           NEW l \in List, UniqueMatches(l), l.bad = {},
           NEW claims \in SUBSET (Props \cup Nodes), NEW keyChange \in SUBSET Nodes,
           Processed(l, claims, keyChange),
           \A id \in Nodes : HasMN(prev, id) => id \notin claims,
           registered' \subseteq Nodes, registered \subseteq registered',
           \A id \in Nodes : HasMN(l, id) => id \in registered' /\ l.mns[id].coll \in utxo,
           \A v \in Props : l.unique[v] # NoEntry => l.unique[v] = new.unique[v] \/ v \in claims
    PROVE  IInv'
  <1>1. /\ new' = l /\ phase' = "txs" /\ claimed' = claimed \cup claims
        /\ changed' = changed \cup keyChange /\ txs' = txs + 1
        /\ prev' = prev /\ utxo' = utxo /\ fromMempool' = fromMempool
    BY DEF Processed
  <1>2. TypeOK'
    BY SMT, <1>1 DEF IInv, TypeOK
  <1>3. Traced'
    BY <1>1 DEF IInv, Traced
  <1>4. CollateralsUnspent'
    BY <1>1 DEF IInv, CollateralsUnspent, HasMN
  <1>5. /\ \A id \in Nodes : HasMN(prev', id) => id \in registered' \ claimed'
        /\ \A id \in Nodes : HasMN(new', id) => id \in registered'
    BY <1>1 DEF IInv
  <1> QED
    BY <1>1, <1>2, <1>3, <1>4, <1>5 DEF IInv

\* An update of a masternode of the list, by what is free or its own.
LEMMA UpdateInv ==
    ASSUME IInv, phase = "txs", NEW id \in Nodes, HasMN(new, id), NEW mn \in MN,
           mn.coll = new.mns[id].coll, mn.owner = new.mns[id].owner,
           NEW claims \in SUBSET Props, NEW keyChange \in SUBSET Nodes,
           \A v \in {mn.addr, mn.op} \ {Null} :
               \/ v \in {new.mns[id].addr, new.mns[id].op}
               \/ v \in claims /\ ~OwnedByOther(new, v, id),
           Processed(UpdateMN(new, id, mn), claims, keyChange), UNCHANGED registered
    PROVE  IInv' /\ Updates(id, mn, claims)
  <1> DEFINE l == UpdateMN(new, id, mn)
             old == new.mns[id]
  <1>1. new \in List /\ UniqueMatches(new) /\ new.bad = {}
    BY DEF IInv, TypeOK
  <1>2. \A v \in PropsOf(old) : new.unique[v] = One(id)
    BY <1>1, OwnEntries
  <1>3. old \in MN
    BY <1>1, ListFields DEF HasMN
  <1>4. /\ old.addr \in Addrs \cup {Null} /\ mn.addr \in Addrs \cup {Null}
        /\ old.op \in Operators \cup {Null} /\ mn.op \in Operators \cup {Null}
        /\ mn.coll \in Collaterals /\ mn.owner \in Owners
    BY <1>3 DEF MN
  <1>5. ASSUME NEW v \in {mn.addr, mn.op} \ {Null}
        PROVE  v \in Props /\ (v \in PropsOf(old) \/ (new.unique[v] = NoEntry /\ v \in claims))
    <2>1. v \in Props /\ v # Null
      BY <1>4 DEF Props
    <2>2. CASE v \in {old.addr, old.op}
      BY <2>1, <2>2 DEF PropsOf
    <2>3. CASE v \in claims /\ ~OwnedByOther(new, v, id)
      <3>1. CASE new.unique[v] = NoEntry
        BY <2>1, <2>3, <3>1
      <3>2. CASE new.unique[v] # NoEntry
        <4>1. new.unique[v].mn = id
          BY <2>1, <2>3, <3>2 DEF OwnedByOther, HasUniqueProperty
        <4> QED
          BY <1>1, <2>1, <3>2, <4>1, Owned
      <3> QED
        BY <3>1, <3>2
    <2> QED
      BY <1>5, <2>2, <2>3
  <1>6. /\ mn.addr # Null /\ mn.addr # old.addr => new.unique[mn.addr] = NoEntry
        /\ mn.op # Null /\ mn.op # old.op => new.unique[mn.op] = NoEntry
    <2>1. ASSUME mn.addr # Null, mn.addr # old.addr PROVE mn.addr \notin PropsOf(old)
      BY <1>3, <1>4, <2>1, PropsAssumption DEF PropsOf, MN
    <2>2. ASSUME mn.op # Null, mn.op # old.op PROVE mn.op \notin PropsOf(old)
      BY <1>3, <1>4, <2>2, PropsAssumption DEF PropsOf, MN
    <2> QED
      BY <1>5, <2>1, <2>2
  <1>7. l = Change(new, id, mn) /\ l \in List
    BY <1>1, <1>2, <1>6, UpdateMNLemma
  <1>8. \A v \in PropsOf(mn) : v \in Props /\ new.unique[v] \in {NoEntry, One(id)}
    <2>1. \A v \in {mn.coll, mn.owner} \ {Null} : v \in PropsOf(old)
      BY DEF PropsOf
    <2>2. \A v \in PropsOf(mn) : v \in {mn.coll, mn.owner} \ {Null} \/ v \in {mn.addr, mn.op} \ {Null}
      BY DEF PropsOf
    <2> QED
      BY <1>2, <1>5, <2>1, <2>2, Types
  <1>9. UniqueMatches(l)
    BY <1>1, <1>7, <1>8, ChangeMatches
  <1>10. l.mns = [new.mns EXCEPT ![id] = mn] /\ l.unique = Changed(new, id, mn) /\ l.bad = {}
    BY SMT, <1>1, <1>7, RecFields DEF Change
  <1>11. \A v \in Props : l.unique[v] # NoEntry => l.unique[v] = new.unique[v] \/ v \in claims
    <2> SUFFICES ASSUME NEW v \in Props, l.unique[v] # NoEntry, v \notin claims
                 PROVE  l.unique[v] = new.unique[v]
      OBVIOUS
    <2>1. CASE v \in PropsOf(mn)
      <3>1. v \in PropsOf(old)
        BY <1>5, <2>1 DEF PropsOf
      <3> QED
        BY <1>2, <1>10, <2>1, <3>1 DEF Changed
    <2>2. CASE v \notin PropsOf(mn)
      BY <1>10, <2>2 DEF Changed
    <2> QED
      BY <2>1, <2>2
  <1>12. \A x \in Nodes : HasMN(l, x) => x \in registered' /\ l.mns[x].coll \in utxo
    <2>1. \A x \in Nodes : HasMN(new, x) => x \in registered /\ new.mns[x].coll \in utxo
      BY DEF IInv, CollateralsUnspent
    <2> QED
      BY <1>1, <1>10, <2>1, ListFields DEF HasMN
  <1>13. registered' \subseteq Nodes /\ registered \subseteq registered'
    BY DEF IInv, TypeOK
  <1>14. \A x \in Nodes : HasMN(prev, x) => x \notin claims
    BY PropsAssumption
  <1>15. Processed(l, claims, keyChange)
    OBVIOUS
  <1> HIDE DEF l
  <1>16. IInv'
    BY <1>7, <1>9, <1>10, <1>11, <1>12, <1>13, <1>14, <1>15, ProcessedInv
  <1>17. Updates(id, mn, claims)
    BY <1>10, <1>11, <1>15 DEF Updates, Trace, Processed
  <1> QED
    BY <1>16, <1>17

\* A registration: the checks against the list under construction leave nothing to
\* the assertions.
LEMMA ProRegTxInv ==
    ASSUME IInv, NEW id \in Nodes, NEW c \in Collaterals, NEW o \in Owners,
           NEW k \in Operators, NEW a \in Addrs \cup {Null}, ProRegTx(id, c, o, k, a)
    PROVE  IInv' /\ (Rejected \/ Registers(id, [coll |-> c, owner |-> o, op |-> k, addr |-> a],
                                             {id, c, o, k, a} \ {Null}))
  <1> DEFINE l == Replaced(new, c)
             mn == [coll |-> c, owner |-> o, op |-> k, addr |-> a]
             claims == {id, c, o, k, a} \ {Null}
             l9 == AddMN(l, id, mn)
  <1>0. phase = "txs" /\ id \notin registered /\ c \in utxo
    BY DEF ProRegTx, InBlock, CheckProRegTx, ValidCollateral
  <1>1. CASE HasUniqueProperty(l, a) \/ HasUniqueProperty(l, o) \/ HasUniqueProperty(l, k)
    BY <1>0, <1>1, RejectedInv DEF ProRegTx
  <1>2. CASE ~(HasUniqueProperty(l, a) \/ HasUniqueProperty(l, o) \/ HasUniqueProperty(l, k))
    <2>1. Processed(l9, claims, {}) /\ registered' = registered \cup {id}
      BY <1>2 DEF ProRegTx
    <2>2. new \in List /\ UniqueMatches(new) /\ new.bad = {}
      BY <1>0 DEF IInv, TypeOK
    <2>3. /\ l \in List /\ UniqueMatches(l) /\ l.bad = {}
          /\ l.unique[c] = NoEntry
          /\ \A x \in Nodes : l.mns[x] \in {new.mns[x], NoMN}
          /\ \A x \in Nodes : l.mns[x] = Without(new, c, x)
          /\ \A v \in Props : l.unique[v] \in {new.unique[v], NoEntry}
      BY SMT, <2>2, ReplacedLemma
    <2>4. mn \in MN /\ claims \in SUBSET (Props \cup Nodes) /\ PropsOf(mn) = claims \ {id}
      BY PropsAssumption DEF MN, Props, PropsOf
    <2>5. ~HasMN(l, id)
      BY <1>0, <2>3 DEF IInv, HasMN
    <2>6. \A v \in PropsOf(mn) : l.unique[v] = NoEntry
      BY <1>2, <2>3 DEF HasUniqueProperty, PropsOf
    <2> HIDE DEF mn, l, claims
    <2>7. l9 = Change(l, id, mn) /\ l9 \in List
      BY <2>3, <2>4, <2>5, <2>6, AddMNLemma
    <2>8. UniqueMatches(l9)
      BY SMT, <2>3, <2>4, <2>6, <2>7, ChangeMatches
    <2>9. l9.mns = [l.mns EXCEPT ![id] = mn] /\ l9.unique = Changed(l, id, mn) /\ l9.bad = {}
      <3>1. l9 = Rec([l.mns EXCEPT ![id] = mn], Changed(l, id, mn), l.bad)
        BY <2>7 DEF Change
      <3>2. l.bad = {}
        BY <2>3
      <3> HIDE DEF l9
      <3>3. l9.mns = [l.mns EXCEPT ![id] = mn]
        BY <3>1 DEF Rec
      <3>4. l9.unique = Changed(l, id, mn)
        BY <3>1 DEF Rec
      <3>5. l9.bad = {}
        BY <3>1, <3>2 DEF Rec
      <3> QED
        BY <3>3, <3>4, <3>5
    <2>10. \A v \in Props : l9.unique[v] # NoEntry => l9.unique[v] = new.unique[v] \/ v \in claims
      BY <2>3, <2>4, <2>9 DEF Changed
    <2>11. \A x \in Nodes : HasMN(l9, x) => x \in registered' /\ l9.mns[x].coll \in utxo
      <3>1. \A x \in Nodes : HasMN(new, x) => x \in registered /\ new.mns[x].coll \in utxo
        BY DEF IInv, CollateralsUnspent
      <3>2. mn.coll = c
        BY DEF mn
      <3> QED
        BY <1>0, <2>1, <2>3, <2>9, <3>1, <3>2, ListFields DEF HasMN
    <2>12. registered' \subseteq Nodes /\ registered \subseteq registered'
      BY <2>1 DEF IInv, TypeOK
    <2>13. \A x \in Nodes : HasMN(prev, x) => x \notin claims
      <3>1. claims \subseteq Props \cup {id}
        BY DEF claims, Props
      <3> QED
        BY <1>0, <3>1, PropsAssumption DEF IInv
    <2>14. \A x \in Nodes \ {id} : l9.mns[x] = Without(new, c, x)
      BY <2>3, <2>9, ListFields
    <2>15. l9.mns[id] = mn /\ mn.coll = c
      BY <2>3, <2>9, ListFields DEF mn
    <2> HIDE DEF l9
    <2>16. IInv'
      BY <1>0, <2>1, <2>4, <2>7, <2>8, <2>9, <2>10, <2>11, <2>12, <2>13, ProcessedInv
    <2>17. Registers(id, mn, claims)
      BY <1>0, <2>1, <2>9, <2>10, <2>14, <2>15 DEF Registers, Trace, Processed
    <2> QED
      BY <2>16, <2>17 DEF mn, claims
  <1> QED
    BY <1>1, <1>2

LEMMA ProUpServTxInv ==
    ASSUME IInv, NEW id \in Nodes, NEW a \in Addrs, ProUpServTx(id, a)
    PROVE  IInv' /\ (Rejected \/ Updates(id, [new.mns[id] EXCEPT !.addr = a], {a}))
  <1> DEFINE mn == [new.mns[id] EXCEPT !.addr = a]
  <1>0. phase = "txs"
    BY DEF ProUpServTx, InBlock
  <1>1. CASE OwnedByOther(new, a, id) \/ ~HasMN(new, id)
    BY <1>0, <1>1, RejectedInv DEF ProUpServTx
  <1>2. CASE ~(OwnedByOther(new, a, id) \/ ~HasMN(new, id))
    <2>1. Processed(UpdateMN(new, id, mn), {a}, {}) /\ UNCHANGED registered
      BY <1>2 DEF ProUpServTx
    <2>2. new.mns[id] \in MN
      BY <1>2, ListFields DEF IInv, TypeOK, HasMN
    <2>3. /\ mn \in MN /\ mn.coll = new.mns[id].coll /\ mn.owner = new.mns[id].owner
          /\ mn.addr = a /\ mn.op = new.mns[id].op
      BY <2>2 DEF MN
    <2>4. {a} \in SUBSET Props /\ {} \in SUBSET Nodes
      BY DEF Props
    <2> HIDE DEF mn
    <2>5. IInv' /\ Updates(id, mn, {a})
      BY <1>0, <1>2, <2>1, <2>3, <2>4, UpdateInv
    <2> QED
      BY <2>5 DEF mn
  <1> QED
    BY <1>1, <1>2

\* An update of the operator key: in a block of one mempool it is free or the
\* masternode's own; otherwise an assertion fails, on this key.
LEMMA ProUpRegTxInv ==
    ASSUME IInv, NEW id \in Nodes, NEW k \in Operators, ProUpRegTx(id, k)
    PROVE  IInv' /\ (Rejected \/ Updates(id, WithOperator(new.mns[id], k), {k}))
  <1> DEFINE mn == WithOperator(new.mns[id], k)
             l9 == UpdateMN(new, id, mn)
  <1>0. phase = "txs" /\ ~OwnedByOther(prev, k, id) /\ NoConflict({k}, KeyChange(id, k))
    BY DEF ProUpRegTx, InBlock, CheckProUpRegTx
  <1>k. k \in Props /\ k # Null /\ KeyChange(id, k) \in SUBSET Nodes
    BY PropsAssumption DEF Props, KeyChange
  <1>1. CASE ~HasMN(new, id)
    BY <1>0, <1>1, RejectedInv DEF ProUpRegTx
  <1>2. ASSUME HasMN(new, id) PROVE IInv' /\ Updates(id, mn, {k})
    <2>1. Processed(l9, {k}, KeyChange(id, k)) /\ UNCHANGED registered
      BY <1>2 DEF ProUpRegTx
    <2>2. new.mns[id] \in MN
      BY <1>2, ListFields DEF IInv, TypeOK, HasMN
    <2>3. /\ mn \in MN /\ mn.coll = new.mns[id].coll /\ mn.owner = new.mns[id].owner
          /\ mn.addr \in {new.mns[id].addr, Null} /\ mn.op = k
      BY <2>2 DEF MN, WithOperator
    <2>4. CASE ~OwnedByOther(new, k, id)
      <3> HIDE DEF mn
      <3> QED
        BY <1>0, <1>2, <1>k, <2>1, <2>3, <2>4, UpdateInv
    <2>5. CASE OwnedByOther(new, k, id)
      <3>1. new \in List /\ UniqueMatches(new) /\ new.bad = {}
        BY <1>0 DEF IInv, TypeOK
      <3>2. new.unique[k] # NoEntry /\ new.unique[k].mn # id
        BY <2>5 DEF OwnedByOther, HasUniqueProperty
      <3>3. new.unique[k].mn \in Nodes /\ new.unique[k] = One(new.unique[k].mn)
        BY <1>k, <3>1, <3>2, Owned
      <3>4. ~fromMempool
        <4>1. new.unique[k] = prev.unique[k] \/ k \in claimed
          BY <1>0, <1>k, <3>2 DEF IInv, Traced
        <4>2. new.unique[k] # prev.unique[k]
          BY <1>0, <1>k, <3>2 DEF OwnedByOther, HasUniqueProperty
        <4> QED
          BY <1>0, <4>1, <4>2 DEF NoConflict
      <3>5. \A v \in PropsOf(new.mns[id]) : new.unique[v] = One(id)
        BY <3>1, OwnEntries
      <3>6. l9 \in List /\ l9.mns = [new.mns EXCEPT ![id] = mn] /\ l9.bad = {k}
        <4>1. PICK other \in Nodes : other # id /\ new.unique[k] = One(other)
          BY <3>2, <3>3
        <4>2. new \in List
          BY <3>1
        <4>3. l9 \in List /\ l9.mns = [new.mns EXCEPT ![id] = mn] /\ l9.bad = new.bad \cup {k}
          BY SMT, <1>2, <3>5, <4>1, <4>2, UpdateClash
        <4> QED
          BY <3>1, <4>3
      <3> HIDE DEF l9, mn
      <3>7. /\ new' = l9 /\ phase' = "crashed" /\ prev' = prev /\ utxo' = utxo
            /\ claimed' = claimed \cup {k} /\ changed' = changed \cup KeyChange(id, k)
            /\ txs' = txs + 1 /\ registered' = registered /\ fromMempool' = fromMempool
        BY <2>1, <3>6 DEF Processed
      <3>8. TypeOK'
        BY SMT, <1>k, <3>6, <3>7 DEF IInv, TypeOK
      <3>9. \A x \in Nodes : HasMN(l9, x) => HasMN(new, x) /\ l9.mns[x].coll = new.mns[x].coll
        BY <1>2, <2>3, <3>1, <3>6, ListFields DEF HasMN
      <3>10. CollateralsUnspent' /\ Traced'
        BY <3>7, <3>9 DEF IInv, CollateralsUnspent, Traced
      <3>11. /\ \A x \in Nodes : HasMN(prev', x) => x \in registered' \ claimed'
             /\ \A x \in Nodes : HasMN(new', x) => x \in registered'
        BY <1>k, <3>7, <3>9, PropsAssumption DEF IInv
      <3>12. IInv'
        BY <3>4, <3>6, <3>7, <3>8, <3>10, <3>11 DEF IInv
      <3> QED
        BY <1>0, <1>2, <2>5, <3>6, <3>7, <3>12 DEF Updates
    <2> QED
      BY <2>4, <2>5
  <1> QED
    BY <1>1, <1>2

LEMMA ProUpRevTxInv ==
    ASSUME IInv, NEW id \in Nodes, ProUpRevTx(id)
    PROVE  IInv' /\ (Rejected \/ Updates(id, [new.mns[id] EXCEPT !.op = Null, !.addr = Null], {}))
  <1> DEFINE mn == [new.mns[id] EXCEPT !.op = Null, !.addr = Null]
  <1>0. phase = "txs" /\ KeyChange(id, Null) \in SUBSET Nodes
    BY DEF ProUpRevTx, InBlock, KeyChange
  <1>1. CASE ~HasMN(new, id)
    BY <1>0, <1>1, RejectedInv DEF ProUpRevTx
  <1>2. CASE HasMN(new, id)
    <2>1. Processed(UpdateMN(new, id, mn), {}, KeyChange(id, Null)) /\ UNCHANGED registered
      BY <1>2 DEF ProUpRevTx
    <2>2. new.mns[id] \in MN
      BY <1>2, ListFields DEF IInv, TypeOK, HasMN
    <2>3. /\ mn \in MN /\ mn.coll = new.mns[id].coll /\ mn.owner = new.mns[id].owner
          /\ mn.addr = Null /\ mn.op = Null
      BY <2>2 DEF MN
    <2> HIDE DEF mn
    <2>4. IInv' /\ Updates(id, mn, {})
      BY <1>0, <1>2, <2>1, <2>3, UpdateInv
    <2> QED
      BY <2>4 DEF mn
  <1> QED
    BY <1>1, <1>2

LEMMA SpendCollateralInv ==
    ASSUME IInv, NEW c \in Collaterals, SpendCollateral(c)
    PROVE  IInv' /\ Spends(c)
  <1> DEFINE l == Replaced(new, c)
  <1>1. phase \in {"txs", "spends"} /\ utxo' = utxo \ {c} /\ new' = l
        /\ phase' = (IF l.bad = {} THEN "spends" ELSE "crashed")
        /\ UNCHANGED <<prev, registered, claimed, changed, txs, fromMempool>>
    BY DEF SpendCollateral
  <1>2. new \in List /\ UniqueMatches(new) /\ new.bad = {}
    BY <1>1 DEF IInv, TypeOK
  <1>3. /\ l \in List /\ UniqueMatches(l) /\ l.bad = {}
        /\ \A x \in Nodes : l.mns[x] \in {new.mns[x], NoMN} /\ l.mns[x].coll # c
        /\ \A x \in Nodes : l.mns[x] = Without(new, c, x)
        /\ \A v \in Props : l.unique[v] \in {new.unique[v], NoEntry}
    BY SMT, <1>2, ReplacedLemma
  <1> HIDE DEF l
  <1>4. phase' = "spends"
    BY <1>1, <1>3
  <1>5. TypeOK'
    BY <1>1, <1>3, <1>4 DEF IInv, TypeOK
  <1>6. \A x \in Nodes : HasMN(l, x) => HasMN(new, x) /\ l.mns[x] = new.mns[x]
    BY <1>3 DEF HasMN
  <1>7. CollateralsUnspent' /\ Traced'
    BY <1>1, <1>3, <1>4, <1>6 DEF IInv, CollateralsUnspent, Traced
  <1>8. /\ \A x \in Nodes : HasMN(prev', x) => x \in registered' \ claimed'
        /\ \A x \in Nodes : HasMN(new', x) => x \in registered'
    BY <1>1, <1>6 DEF IInv
  <1>9. IInv'
    BY <1>1, <1>3, <1>4, <1>5, <1>7, <1>8 DEF IInv
  <1> QED
    BY <1>1, <1>3, <1>4, <1>9 DEF Spends, Trace

LEMMA NextIInv ==
    ASSUME IInv, [Next]_vars
    PROVE  IInv'
  <1>1. CASE ConnectBlock
    <2>1. /\ phase \in {"txs", "spends"} /\ prev' = new /\ new' = new /\ phase' = "txs"
          /\ claimed' = {} /\ changed' = {} /\ txs' = 0
          /\ utxo' = utxo /\ registered' = registered /\ fromMempool' \in BOOLEAN
      BY <1>1 DEF ConnectBlock
    <2>2. TypeOK'
      BY <2>1 DEF IInv, TypeOK
    <2>3. Traced' /\ CollateralsUnspent'
      BY <2>1 DEF IInv, Traced, CollateralsUnspent
    <2> QED
      BY <2>1, <2>2, <2>3 DEF IInv
  <1>2. CASE UNCHANGED vars
    BY <1>2 DEF vars, IInv, TypeOK, Traced, CollateralsUnspent
  <1> QED
    BY <1>1, <1>2, ProRegTxInv, ProUpServTxInv, ProUpRegTxInv, ProUpRevTxInv,
       SpendCollateralInv DEF Next

\* The list of every block, whatever transactions it holds: no two masternodes share
\* a collateral, key or address and the unique property map is exact, and every
\* masternode has an unspent collateral.
THEOREM ListConsistent == Spec => [](TypeOK /\ ListSound)
  <1>1. IInv => TypeOK /\ ListSound
    BY DEF IInv, ListSound, UniqueMapMatches
  <1> QED
    BY <1>1, InitIInv, NextIInv, PTL DEF Spec

\* An assertion of the list operations can fail only on an operator key, and in blocks
\* made of the transactions of one mempool none fails: what CheckSpecialTx() admits and
\* existsProviderTxConflict() keeps apart never clashes.
THEOREM MempoolBlocksProcess == Spec => []AssertionsHold
  <1>1. IInv => AssertionsHold
    BY DEF IInv, AssertionsHold, NoAssertionFails, OnlyOperatorKeysClash
  <1> QED
    BY <1>1, InitIInv, NextIInv, PTL DEF Spec

-----------------------------------------------------------------------------
\* The differences stored for the blocks.

\* What the checks against the previous list leave: a masternode keeps its collateral and
\* its owner, and what it takes over from another one the block has removed that one for.
Fresh ==
    \A id \in Nodes : HasMN(new, id) =>
        /\ HasMN(prev, id) => new.mns[id].coll = prev.mns[id].coll /\ new.mns[id].owner = prev.mns[id].owner
        /\ \A v \in PropsOf(new.mns[id]), x \in Nodes :
               v \in PropsOf(prev.mns[x]) /\ x # id => ~HasMN(new, x)

DiffInv == IInv /\ (phase # "crashed" => Fresh)

\* In a list each property belongs to one masternode.
LEMMA OneOwner ==
    ASSUME NEW l, UniqueMatches(l), NEW x \in Nodes, NEW y \in Nodes, NEW v,
           v \in PropsOf(l.mns[x]), v \in PropsOf(l.mns[y])
    PROVE  x = y
  BY SMT, OwnEntries, Types

LEMMA SameFresh ==
    ASSUME IInv', new' = prev'
    PROVE  Fresh'
<1>1. UniqueMatches(prev')
  BY DEF IInv
<1> QED
  BY <1>1, OneOwner DEF Fresh

\* The masternode with the collateral c goes, and id comes or changes.
LEMMA FreshKept ==
    ASSUME IInv, Fresh, prev' = prev,
           NEW id \in Nodes,
           \A x \in Nodes \ {id} : new'.mns[x] = new.mns[x] \/ ~HasMN(new', x),
           HasMN(prev, id) => HasMN(new, id) \/ ~HasMN(new', id),
           HasMN(new', id) =>
               /\ HasMN(prev, id) => /\ new'.mns[id].coll = new.mns[id].coll
                                     /\ new'.mns[id].owner = new.mns[id].owner
               /\ \A v \in PropsOf(new'.mns[id]), x \in Nodes :
                      v \in PropsOf(prev.mns[x]) /\ x # id =>
                          ~HasMN(new', x) \/ (HasMN(new, id) /\ v \in PropsOf(new.mns[id]))
    PROVE  Fresh'
<1>1. \A x \in Nodes \ {id} : HasMN(new', x) => HasMN(new, x) /\ new'.mns[x] = new.mns[x]
  BY DEF HasMN
<1>2. \A x \in Nodes : ~HasMN(prev, x) => PropsOf(prev.mns[x]) = {}
  BY Types DEF HasMN
<1>3. ASSUME NEW x \in Nodes, HasMN(prev, x), ~HasMN(new, x) PROVE ~HasMN(new', x)
  BY <1>1, <1>3
<1>4. ASSUME NEW y \in Nodes \ {id}, HasMN(new', y)
      PROVE  /\ HasMN(prev, y) => new'.mns[y].coll = prev.mns[y].coll /\ new'.mns[y].owner = prev.mns[y].owner
             /\ \A v \in PropsOf(new'.mns[y]), x \in Nodes :
                    v \in PropsOf(prev.mns[x]) /\ x # y => ~HasMN(new', x)
  <2>1. HasMN(new, y) /\ new'.mns[y] = new.mns[y]
    BY <1>1, <1>4
  <2>2. ASSUME NEW v \in PropsOf(new'.mns[y]), NEW x \in Nodes, v \in PropsOf(prev.mns[x]), x # y
        PROVE  ~HasMN(new', x)
    <3>1. HasMN(prev, x) /\ ~HasMN(new, x)
      BY <1>2, <2>1, <2>2 DEF Fresh
    <3> QED
      BY <1>3, <3>1
  <2> QED
    BY <2>1, <2>2 DEF Fresh
<1>5. ASSUME HasMN(new', id)
      PROVE  /\ HasMN(prev, id) => new'.mns[id].coll = prev.mns[id].coll /\ new'.mns[id].owner = prev.mns[id].owner
             /\ \A v \in PropsOf(new'.mns[id]), x \in Nodes :
                    v \in PropsOf(prev.mns[x]) /\ x # id => ~HasMN(new', x)
  <2>1. HasMN(prev, id) => new'.mns[id].coll = prev.mns[id].coll /\ new'.mns[id].owner = prev.mns[id].owner
    BY <1>5 DEF Fresh
  <2>2. ASSUME NEW v \in PropsOf(new'.mns[id]), NEW x \in Nodes, v \in PropsOf(prev.mns[x]), x # id,
               HasMN(new, id), v \in PropsOf(new.mns[id])
        PROVE  ~HasMN(new', x)
    <3>1. HasMN(prev, x) /\ ~HasMN(new, x)
      BY <1>2, <2>2 DEF Fresh
    <3> QED
      BY <1>3, <3>1
  <2> QED
    BY <1>5, <2>1, <2>2
<1> QED
  BY <1>4, <1>5 DEF Fresh

\* What another masternode has in the previous list is another's.
LEMMA AnothersInPrev ==
    ASSUME IInv, NEW x \in Nodes, NEW v \in PropsOf(prev.mns[x])
    PROVE  /\ v \in Props /\ v # Null /\ HasUniqueProperty(prev, v) /\ prev.unique[v].mn = x
           /\ HasMN(prev, x)
<1>1. prev \in List /\ UniqueMatches(prev)
  BY DEF IInv, TypeOK
<1>2. prev.unique[v] = One(x) /\ One(x) # NoEntry /\ One(x).mn = x
  BY <1>1, OwnEntries, Types
<1>3. v \in Props /\ HasMN(prev, x)
  BY SMT, <1>1, ListFields, Types DEF HasMN
<1> QED
  BY <1>2, <1>3, PropsAssumption DEF HasUniqueProperty

LEMMA FreshUpdate ==
    ASSUME IInv, Fresh, NEW id \in Nodes, NEW mn \in MN, NEW claims, Updates(id, mn, claims),
           mn.coll = new.mns[id].coll, mn.owner = new.mns[id].owner,
           \A v \in {mn.addr, mn.op} \ {Null} :
               v \in PropsOf(new.mns[id]) \/ ~OwnedByOther(prev, v, id)
    PROVE  Fresh'
<1>1. /\ prev' = prev /\ HasMN(new, id) /\ new'.mns = [new.mns EXCEPT ![id] = mn]
      /\ new.mns \in [Nodes -> MN \cup {NoMN}]
  BY ListFields DEF Updates, IInv, TypeOK
<1>2. /\ \A x \in Nodes \ {id} : new'.mns[x] = new.mns[x]
      /\ new'.mns[id] = mn
  BY <1>1
<1>3. ASSUME NEW v \in PropsOf(mn), NEW x \in Nodes, v \in PropsOf(prev.mns[x]), x # id
      PROVE  v \in PropsOf(new.mns[id])
  <2>1. OwnedByOther(prev, v, id)
    BY <1>3, AnothersInPrev DEF OwnedByOther
  <2>2. CASE v \in {mn.coll, mn.owner}
    BY <1>3, <2>2 DEF PropsOf
  <2>3. CASE v \in {mn.addr, mn.op} \ {Null}
    BY <2>1, <2>3
  <2> QED
    BY <1>3, <2>2, <2>3 DEF PropsOf
<1> QED
  BY <1>1, <1>2, <1>3, FreshKept

LEMMA FreshNext ==
    ASSUME DiffInv, [Next]_vars, phase' # "crashed"
    PROVE  Fresh'
<1>0. IInv /\ IInv' /\ (phase # "crashed" => Fresh)
  BY NextIInv DEF DiffInv
<1>1. ASSUME NEW id \in Nodes, NEW c \in Collaterals, NEW o \in Owners, NEW k \in Operators,
             NEW a \in Addrs \cup {Null}, ProRegTx(id, c, o, k, a)
      PROVE  Fresh'
  <2> DEFINE mn == [coll |-> c, owner |-> o, op |-> k, addr |-> a]
  <2>1. CASE Rejected
    BY <1>0, <2>1, SameFresh DEF Rejected
  <2>2. CASE Registers(id, mn, {id, c, o, k, a} \ {Null})
    <3>1. phase = "txs" /\ id \notin registered /\ CheckProRegTx(c, o, k, a)
      BY <1>1 DEF ProRegTx, InBlock
    <3>2. ~HasMN(prev, id) /\ ~HasMN(new, id) /\ Fresh
      BY <1>0, <3>1 DEF IInv
    <3>3. /\ prev' = prev /\ new'.mns[id] = mn /\ mn.coll = c
          /\ \A x \in Nodes \ {id} : new'.mns[x] = Without(new, c, x)
      BY <2>2 DEF Registers
    <3>4. \A x \in Nodes \ {id} : new'.mns[x] = new.mns[x] \/ ~HasMN(new', x)
      BY <3>3 DEF Without, HasMN
    <3>5. ASSUME NEW v \in PropsOf(mn), NEW x \in Nodes, v \in PropsOf(prev.mns[x]), x # id
          PROVE  ~HasMN(new', x)
      <4>1. HasUniqueProperty(prev, v) /\ prev.unique[v].mn = x /\ HasMN(prev, x)
        BY <1>0, <3>5, AnothersInPrev
      <4>2. v = c \/ v = a
        BY <3>1, <3>5, <4>1 DEF PropsOf, CheckProRegTx
      <4>3. prev.mns[x].coll = c
        <5>1. CASE v = c
          <6>1. prev.mns[x] \in MN
            BY SMT, <1>0, <4>1, ListFields DEF IInv, TypeOK, HasMN
          <6> QED
            BY <3>5, <5>1, <6>1, PropsAssumption DEF PropsOf, MN
        <5>2. CASE v = a
          BY <3>1, <4>1, <5>2 DEF CheckProRegTx
        <5> QED
          BY <4>2, <5>1, <5>2
      <4>4. HasMN(new, x) => new.mns[x].coll = c
        BY <3>2, <4>1, <4>3 DEF Fresh
      <4> QED
        BY <3>3, <3>5, <4>4 DEF Without, HasMN
    <3> HIDE DEF mn
    <3> QED
      BY <1>0, <3>2, <3>3, <3>4, <3>5, FreshKept
  <2> QED
    BY <1>0, <1>1, <2>1, <2>2, ProRegTxInv
<1>2. ASSUME NEW id \in Nodes, NEW a \in Addrs, ProUpServTx(id, a) PROVE Fresh'
  <2> DEFINE mn == [new.mns[id] EXCEPT !.addr = a]
  <2>1. CASE Rejected
    BY <1>0, <2>1, SameFresh DEF Rejected
  <2>2. CASE Updates(id, mn, {a})
    <3>1. phase = "txs" /\ ~OwnedByOther(prev, a, id)
      BY <1>2 DEF ProUpServTx, InBlock, CheckProUpServTx
    <3>2. new.mns[id] \in MN
      BY SMT, <1>0, <2>2, ListFields DEF IInv, TypeOK, HasMN, Updates
    <3>3. /\ mn \in MN /\ mn.coll = new.mns[id].coll /\ mn.owner = new.mns[id].owner
          /\ mn.addr = a /\ mn.op = new.mns[id].op
      BY <3>2 DEF MN
    <3> HIDE DEF mn
    <3>4. \A v \in {mn.addr, mn.op} \ {Null} : v \in PropsOf(new.mns[id]) \/ ~OwnedByOther(prev, v, id)
      BY <3>1, <3>3 DEF PropsOf
    <3> QED
      BY <1>0, <2>2, <3>1, <3>3, <3>4, FreshUpdate
  <2> QED
    BY <1>0, <1>2, <2>1, <2>2, ProUpServTxInv
<1>3. ASSUME NEW id \in Nodes, NEW k \in Operators, ProUpRegTx(id, k) PROVE Fresh'
  <2> DEFINE mn == WithOperator(new.mns[id], k)
  <2>1. CASE Rejected
    BY <1>0, <2>1, SameFresh DEF Rejected
  <2>2. CASE Updates(id, mn, {k})
    <3>1. phase = "txs" /\ ~OwnedByOther(prev, k, id)
      BY <1>3 DEF ProUpRegTx, InBlock, CheckProUpRegTx
    <3>2. new.mns[id] \in MN
      BY SMTT(30), <1>0, <2>2, ListFields DEF IInv, TypeOK, HasMN, Updates
    <3>3. /\ mn \in MN /\ mn.coll = new.mns[id].coll /\ mn.owner = new.mns[id].owner
          /\ mn.addr \in {new.mns[id].addr, Null} /\ mn.op = k
      BY <3>2 DEF MN, WithOperator
    <3> HIDE DEF mn
    <3>4. \A v \in {mn.addr, mn.op} \ {Null} : v \in PropsOf(new.mns[id]) \/ ~OwnedByOther(prev, v, id)
      BY <3>1, <3>3 DEF PropsOf
    <3> QED
      BY <1>0, <2>2, <3>1, <3>3, <3>4, FreshUpdate
  <2> QED
    BY <1>0, <1>3, <2>1, <2>2, ProUpRegTxInv
<1>4. ASSUME NEW id \in Nodes, ProUpRevTx(id) PROVE Fresh'
  <2> DEFINE mn == [new.mns[id] EXCEPT !.op = Null, !.addr = Null]
  <2>1. CASE Rejected
    BY <1>0, <2>1, SameFresh DEF Rejected
  <2>2. CASE Updates(id, mn, {})
    <3>1. phase = "txs"
      BY <1>4 DEF ProUpRevTx, InBlock
    <3>2. new.mns[id] \in MN
      BY SMT, <1>0, <2>2, ListFields DEF IInv, TypeOK, HasMN, Updates
    <3>3. /\ mn \in MN /\ mn.coll = new.mns[id].coll /\ mn.owner = new.mns[id].owner
          /\ mn.addr = Null /\ mn.op = Null
      BY <3>2 DEF MN
    <3> HIDE DEF mn
    <3> QED
      BY <1>0, <2>2, <3>1, <3>3, FreshUpdate
  <2> QED
    BY <1>0, <1>4, <2>1, <2>2, ProUpRevTxInv
<1>5. ASSUME NEW c \in Collaterals, SpendCollateral(c) PROVE Fresh'
  <2>1. phase # "crashed" /\ Spends(c)
    BY <1>0, <1>5, SpendCollateralInv DEF SpendCollateral
  <2>2. \A x \in Nodes : new'.mns[x] = new.mns[x] \/ ~HasMN(new', x)
    BY <2>1 DEF Spends, Without, HasMN
  <2>3. \A x \in Nodes : HasMN(new', x) => HasMN(new, x) /\ new'.mns[x] = new.mns[x]
    BY <2>2 DEF HasMN
  <2> QED
    BY <1>0, <2>1, <2>3 DEF Fresh, Spends
<1>6. CASE ConnectBlock
  BY <1>0, <1>6, SameFresh DEF ConnectBlock
<1>7. CASE UNCHANGED vars
  BY <1>0, <1>7 DEF vars, Fresh
<1> QED
  BY <1>1, <1>2, <1>3, <1>4, <1>5, <1>6, <1>7 DEF Next

\* The list from once the masternodes of D are as in to.
Partly(from, to, D, l) ==
    /\ l \in List /\ UniqueMatches(l) /\ l.bad = {}
    /\ \A id \in Nodes : l.mns[id] = IF id \in D THEN to.mns[id] ELSE from.mns[id]

\* What one masternode of the diff does.
LEMMA PartlyChange ==
    ASSUME NEW from, NEW to, NEW D, NEW l, Partly(from, to, D, l),
           NEW id \in Nodes, NEW mn \in MN \cup {NoMN}, mn = to.mns[id],
           \A v \in PropsOf(mn) : l.unique[v] \in {NoEntry, One(id)},
           Change(l, id, mn) \in List
    PROVE  Partly(from, to, D \cup {id}, Change(l, id, mn))
<1>1. UniqueMatches(Change(l, id, mn))
  BY ChangeMatches DEF Partly
<1>2. Change(l, id, mn).bad = {} /\ Change(l, id, mn).mns = [l.mns EXCEPT ![id] = mn]
  BY SMT, RecFields DEF Change, Partly
<1>3. l.mns \in [Nodes -> MN \cup {NoMN}]
  BY ListFields DEF Partly
<1>4. ASSUME NEW x \in Nodes
      PROVE  Change(l, id, mn).mns[x] = IF x \in D \cup {id} THEN to.mns[x] ELSE from.mns[x]
  <2>1. CASE x = id
    BY <1>2, <1>3, <2>1
  <2>2. CASE x # id
    BY <1>2, <1>3, <2>2 DEF Partly
  <2> QED
    BY <2>1, <2>2
<1> QED
  BY <1>1, <1>2, <1>4 DEF Partly

Diff == BuildDiff(prev, new)

LEMMA DiffSets ==
    /\ Diff.removed = {id \in Nodes : HasMN(prev, id) /\ ~HasMN(new, id)}
    /\ Diff.added = {id \in Nodes : ~HasMN(prev, id) /\ HasMN(new, id)}
    /\ Diff.updated = {id \in Nodes : HasMN(prev, id) /\ HasMN(new, id) /\ prev.mns[id] # new.mns[id]}
    /\ Diff.mns = new.mns
  BY DEF Diff, BuildDiff

\* Once the removed masternodes are gone, what a masternode has in the new list is free.
LEMMA FreeWhenRemoved ==
    ASSUME IInv, Fresh, phase # "crashed", NEW D, NEW l, Partly(prev, new, D, l), Diff.removed \subseteq D,
           NEW id \in Nodes \ D, HasMN(new, id), NEW v \in PropsOf(new.mns[id]),
           v \notin PropsOf(prev.mns[id])
    PROVE  l.unique[v] = NoEntry
<1>1. l \in List /\ UniqueMatches(l) /\ UniqueMatches(new) /\ new.mns[id] \in MN
  BY ListFields DEF Partly, IInv, TypeOK, HasMN
<1>2. v \in Props
  BY <1>1, Types
<1> SUFFICES ASSUME l.unique[v] # NoEntry PROVE FALSE
  OBVIOUS
<1>3. PICK j \in Nodes : v \in PropsOf(l.mns[j])
  BY <1>1, <1>2, Owned
<1>4. CASE j \in D
  <2>1. l.mns[j] = new.mns[j] /\ j # id
    BY <1>4 DEF Partly
  <2> QED
    BY <1>1, <1>3, <2>1, OneOwner
<1>5. CASE j \notin D
  <2>1. l.mns[j] = prev.mns[j]
    BY <1>5 DEF Partly
  <2>2. j # id
    BY <1>3, <2>1
  <2>3. ~HasMN(new, j)
    BY <1>3, <2>1, <2>2 DEF Fresh
  <2>4. HasMN(prev, j)
    BY <1>3, <2>1, Types DEF HasMN
  <2> QED
    BY <1>5, <2>3, <2>4, DiffSets
<1> QED
  BY <1>4, <1>5

LEMMA ApplyRemoved ==
    ASSUME IInv, NEW D, NEW l, Partly(prev, new, D, l), NEW id \in Diff.removed, id \notin D
    PROVE  Partly(prev, new, D \cup {id}, ApplyTo(l, Diff, id))
<1>1. /\ id \in Nodes /\ HasMN(prev, id) /\ new.mns[id] = NoMN
      /\ id \notin Diff.added /\ id \notin Diff.updated
  BY DiffSets DEF HasMN
<1>2. ApplyTo(l, Diff, id) = RemoveMN(l, id)
  BY SMT, <1>1 DEF ApplyTo
<1>3. l \in List /\ UniqueMatches(l) /\ l.mns[id] = prev.mns[id] /\ HasMN(l, id)
  BY <1>1 DEF Partly, HasMN
<1>4. RemoveMN(l, id) = Change(l, id, NoMN) /\ RemoveMN(l, id) \in List
  BY <1>1, <1>3, OwnEntries, RemoveMNLemma
<1>5. PropsOf(NoMN) = {}
  BY Types
<1> QED
  BY SMT, <1>1, <1>2, <1>4, <1>5, PartlyChange

LEMMA ApplyAdded ==
    ASSUME IInv, Fresh, phase # "crashed", NEW D, NEW l, Partly(prev, new, D, l), Diff.removed \subseteq D,
           NEW id \in Diff.added, id \notin D
    PROVE  Partly(prev, new, D \cup {id}, ApplyTo(l, Diff, id))
<1> DEFINE mn == new.mns[id]
<1>1. /\ id \in Nodes /\ prev.mns[id] = NoMN /\ HasMN(new, id)
      /\ id \notin Diff.removed /\ id \notin Diff.updated /\ Diff.mns[id] = mn
  BY DiffSets DEF HasMN
<1>2. ApplyTo(l, Diff, id) = AddMN(l, id, mn)
  BY SMT, <1>1 DEF ApplyTo
<1>3. l \in List /\ UniqueMatches(l) /\ ~HasMN(l, id)
  BY <1>1 DEF Partly, HasMN
<1>4. mn \in MN
  BY ZenonT(30), <1>1, ListFields DEF IInv, TypeOK, HasMN
<1>5. PropsOf(prev.mns[id]) = {}
  BY <1>1, Types
<1>6. \A v \in PropsOf(mn) : l.unique[v] = NoEntry
  BY ZenonT(30), <1>1, <1>5, FreeWhenRemoved
<1> HIDE DEF mn
<1>7. AddMN(l, id, mn) = Change(l, id, mn) /\ AddMN(l, id, mn) \in List
  BY <1>1, <1>3, <1>4, <1>6, AddMNLemma
<1>8. mn = new.mns[id]
  BY DEF mn
<1> QED
  BY SMT, <1>1, <1>2, <1>4, <1>6, <1>7, <1>8, PartlyChange

LEMMA ApplyUpdated ==
    ASSUME IInv, Fresh, phase # "crashed", NEW D, NEW l, Partly(prev, new, D, l), Diff.removed \subseteq D,
           NEW id \in Diff.updated, id \notin D
    PROVE  Partly(prev, new, D \cup {id}, ApplyTo(l, Diff, id))
<1> DEFINE mn == new.mns[id]
<1>1. /\ id \in Nodes /\ HasMN(prev, id) /\ HasMN(new, id) /\ id \notin Diff.removed /\ id \notin Diff.added
      /\ Diff.mns[id] = mn
  BY DiffSets
<1>2. ApplyTo(l, Diff, id) = UpdateMN(l, id, mn)
  BY SMT, <1>1 DEF ApplyTo
<1>3. l \in List /\ UniqueMatches(l) /\ l.mns[id] = prev.mns[id] /\ HasMN(l, id)
  BY <1>1 DEF Partly, HasMN
<1>4. mn \in MN /\ l.mns[id] \in MN
  BY <1>1, <1>3, ListFields DEF IInv, TypeOK, HasMN
<1>5. mn.coll = l.mns[id].coll /\ mn.owner = l.mns[id].owner
  BY <1>1, <1>3 DEF Fresh
<1>6. \A v \in PropsOf(mn) : v \notin PropsOf(l.mns[id]) => l.unique[v] = NoEntry
  BY ZenonT(30), <1>1, <1>3, FreeWhenRemoved
<1>7. \A v \in PropsOf(l.mns[id]) : l.unique[v] = One(id)
  BY <1>1, <1>3, OwnEntries
<1> HIDE DEF mn
<1>8. \A v \in PropsOf(mn) : l.unique[v] \in {NoEntry, One(id)}
  BY <1>6, <1>7
<1>9. mn.addr # Null /\ mn.addr # l.mns[id].addr => l.unique[mn.addr] = NoEntry
  <2>1. mn.addr # Null /\ mn.addr # l.mns[id].addr
          => mn.addr \in PropsOf(mn) /\ mn.addr \notin PropsOf(l.mns[id])
    BY <1>4, PropsAssumption DEF PropsOf, MN, Props
  <2> QED
    BY <1>6, <2>1
<1>10. mn.op # Null /\ mn.op # l.mns[id].op => l.unique[mn.op] = NoEntry
  <2>1. mn.op # Null /\ mn.op # l.mns[id].op
          => mn.op \in PropsOf(mn) /\ mn.op \notin PropsOf(l.mns[id])
    BY <1>4, PropsAssumption DEF PropsOf, MN, Props
  <2> QED
    BY <1>6, <2>1
<1>11. UpdateMN(l, id, mn) = Change(l, id, mn) /\ UpdateMN(l, id, mn) \in List
  BY <1>1, <1>3, <1>4, <1>5, <1>7, <1>9, <1>10, UpdateMNLemma
<1>12. mn = new.mns[id]
  BY DEF mn
<1> QED
  BY SMT, <1>1, <1>2, <1>4, <1>8, <1>11, <1>12, PartlyChange

\* The masternodes of a list determine its unique properties.
LEMMA SameList ==
    ASSUME NEW k \in List, NEW l \in List, UniqueMatches(k), UniqueMatches(l),
           \A id \in Nodes : k.mns[id] = l.mns[id], k.bad = l.bad
    PROVE  k = l
<1>1. k.mns = l.mns
  BY SMT, ListFields
<1>2. ASSUME NEW v \in Props, NEW a \in List, NEW b \in List, UniqueMatches(a), UniqueMatches(b),
             a.mns = b.mns, a.unique[v] # NoEntry
      PROVE  a.unique[v] = b.unique[v]
  <2>1. PICK id \in Nodes : v \in PropsOf(a.mns[id]) /\ a.unique[v] = One(id)
    BY <1>2, Owned
  <2> QED
    BY <1>2, <2>1, OwnEntries
<1>3. \A v \in Props : k.unique[v] = l.unique[v]
  BY <1>1, <1>2
<1>4. k.unique = l.unique
  BY SMT, <1>3, ListFields
<1> QED
  BY <1>1, <1>4, ListFields


-----------------------------------------------------------------------------
\* The mempool.

\* The claims of transactions, as functions.
AddrFn == [tx \in Tx |-> AddrOf(tx)]
OwnerFn == [tx \in Tx |-> OwnerOf(tx)]
OpFn == [tx \in Tx |-> OpOf(tx)]
CollFn == [tx \in Tx |-> CollOf(tx)]
All(of, G) == UNION {of[tx] : tx \in G}
Claims(tx) == AddrOf(tx) \cup OwnerOf(tx) \cup OpOf(tx) \cup CollOf(tx)

\* An index of the mempool: x leads to the transaction of T that claims it, and no two do.
Indexes(f, of, T) ==
    /\ \A x \in DOMAIN f : f[x] # NoTx => f[x] \in T /\ x \in of[f[x]]
    /\ \A tx \in T : \A x \in of[tx] : x \in DOMAIN f /\ f[x] = tx

PoolType ==
    /\ \A e \in pool : e.tx \in Tx
    /\ byAddr \in [Addrs \cup {Null} -> Tx \cup {NoTx}] /\ byOwner \in [Owners -> Tx \cup {NoTx}]
    /\ byOp \in [Operators -> Tx \cup {NoTx}] /\ byColl \in [Collaterals -> Tx \cup {NoTx}]
    /\ block \subseteq Tx /\ own \in BOOLEAN /\ excused \subseteq Txs

IndexInv ==
    /\ Indexes(byAddr, AddrFn, Txs) /\ Indexes(byOwner, OwnerFn, Txs)
    /\ Indexes(byOp, OpFn, Txs) /\ Indexes(byColl, CollFn, Txs)

\* A registration in the mempool is not in the chain, nor in the block unless it is this one.
RegInv ==
    \A tx \in Txs : tx.kind = "reg" /\ tx.id \in registered => tx \in block /\ tx.id \in claimed

\* What addUnchecked has noted.
Keyed == {"upreg", "rev"}
EntryInv ==
    /\ \A e, f \in pool : e.tx = f.tx => e = f
    /\ \A e \in pool : /\ e.tx.kind = "serv" => e.validFor = {}
                       /\ e.tx.kind \in Keyed => (e.keyChange <=> e.validFor # {e.tx.op})

\* The coins at the previous block, and Check() with them.
Spent == {tx.coll : tx \in {t \in block : t.kind = "spend"}}
Before == utxo \cup Spent
CheckBefore(tx) ==
    /\ tx.kind = "reg" => /\ tx.coll \in Before
                          /\ HasUniqueProperty(prev, tx.addr)
                               => prev.mns[prev.unique[tx.addr].mn].coll = tx.coll
                          /\ ~HasUniqueProperty(prev, tx.owner) /\ ~HasUniqueProperty(prev, tx.op)
    /\ tx.kind = "serv" => CheckProUpServTx(tx.id, tx.addr)
    /\ tx.kind = "upreg" => HasMN(prev, tx.id) /\ ~OwnedByOther(prev, tx.op, tx.id)
    /\ tx.kind = "rev" => CheckProUpRevTx(tx.id)
    /\ tx.kind = "spend" => tx.coll \in Before
    /\ Signed(tx)

ValidInv ==
    \A e \in pool : e.tx \notin excused =>
        /\ CheckBefore(e.tx)
        /\ e.tx.kind \in Keyed => e.validFor = {prev.mns[e.tx.id].op}

\* Of one masternode there is one change of the key.
Changing(tx, id) == tx.kind \in Keyed /\ tx.id = id /\ tx.op # prev.mns[id].op
KeyInv ==
    \A id \in Nodes : \A t, u \in Txs \ excused : Changing(t, id) /\ Changing(u, id) => t = u

\* How the list under construction differs from the previous one: by the block.
ClaimedInBlock ==
    \A v \in Props : new.unique[v] # NoEntry =>
        new.unique[v] = prev.unique[v] \/ \E tx \in block : v \in Claims(tx)
KeyFromBlock(id) ==
    \E tx \in block : tx.kind \in Keyed /\ tx.id = id /\ new.mns[id].op = tx.op
GoneInBlock(id) ==
    \E tx \in block : tx.kind \in {"reg", "spend"} /\ tx.coll = prev.mns[id].coll
ChangedInBlock ==
    \A id \in Nodes : HasMN(prev, id) =>
        /\ HasMN(new, id) => /\ new.mns[id].coll = prev.mns[id].coll
                             /\ new.mns[id].op = prev.mns[id].op \/ KeyFromBlock(id)
        /\ ~HasMN(new, id) => GoneInBlock(id)

BlockInv ==
    /\ ~fromMempool
    /\ own => block \subseteq Txs /\ phase # "crashed"
    /\ \A tx \in block : tx.kind = "reg" => tx.id \in claimed
    /\ phase = "txs" => \A tx \in block : tx.kind # "spend"
    /\ block = {} => phase = "txs" /\ new = prev /\ claimed = {}
    /\ \A id \in Nodes : HasMN(prev, id) => prev.mns[id].coll \in Before
    /\ phase # "crashed" => ClaimedInBlock /\ ChangedInBlock

PoolInv ==
    IInv /\ PoolType /\ IndexInv /\ RegInv /\ EntryInv /\ ValidInv /\ KeyInv /\ BlockInv

LEMMA TxTypes ==
    /\ NoTx \notin Tx
    /\ \A tx \in Tx :
        /\ tx.kind \in {"reg", "serv", "upreg", "rev", "spend"}
        /\ tx.kind = "reg" => /\ tx.id \in Nodes /\ tx.coll \in Collaterals /\ tx.owner \in Owners
                              /\ tx.op \in Operators /\ tx.addr \in Addrs \cup {Null}
        /\ tx.kind = "serv" => tx.id \in Nodes /\ tx.addr \in Addrs /\ tx.signer \in Operators
        /\ tx.kind = "upreg" => tx.id \in Nodes /\ tx.op \in Operators
        /\ tx.kind = "rev" => tx.id \in Nodes /\ tx.op = Null /\ tx.signer \in Operators
        /\ tx.kind = "spend" => tx.coll \in Collaterals /\ tx = Spend(tx.coll)
<1>1. ASSUME NEW id \in Nodes, NEW c \in Collaterals, NEW o \in Owners, NEW k \in Operators,
             NEW a \in Addrs \cup {Null}
      PROVE  LET tx == Reg(id, c, o, k, a)
             IN  tx.kind = "reg" /\ tx.id = id /\ tx.coll = c /\ tx.owner = o /\ tx.op = k /\ tx.addr = a
  BY SMT DEF Reg, NoTx
<1>2. ASSUME NEW id \in Nodes, NEW a \in Addrs, NEW k \in Operators
      PROVE  LET tx == Serv(id, a, k) IN tx.kind = "serv" /\ tx.id = id /\ tx.addr = a /\ tx.signer = k
  BY SMT DEF Serv, NoTx
<1>3. ASSUME NEW id \in Nodes, NEW k \in Operators
      PROVE  LET tx == UpReg(id, k) IN tx.kind = "upreg" /\ tx.id = id /\ tx.op = k
  BY SMT DEF UpReg, NoTx
<1>4. ASSUME NEW id \in Nodes, NEW k \in Operators
      PROVE  LET tx == Rev(id, k) IN tx.kind = "rev" /\ tx.id = id /\ tx.op = Null /\ tx.signer = k
  BY SMT DEF Rev, NoTx
<1>5. ASSUME NEW c \in Collaterals
      PROVE  Spend(c).kind = "spend" /\ Spend(c).coll = c
  BY SMT DEF Spend, NoTx
<1>6. NoTx.kind = "none"
  BY SMT DEF NoTx
<1>7. ASSUME NEW tx \in Tx
      PROVE \/ \E id \in Nodes, c \in Collaterals, o \in Owners, k \in Operators, a \in Addrs \cup {Null} :
                 tx = Reg(id, c, o, k, a)
            \/ \E id \in Nodes, a \in Addrs, k \in Operators : tx = Serv(id, a, k)
            \/ \E id \in Nodes, k \in Operators : tx = UpReg(id, k)
            \/ \E id \in Nodes, k \in Operators : tx = Rev(id, k)
            \/ \E c \in Collaterals : tx = Spend(c)
  BY SMT DEF Tx
<1>8. "reg" # "serv" /\ "reg" # "upreg" /\ "reg" # "rev" /\ "reg" # "spend" /\ "serv" # "upreg"
      /\ "serv" # "rev" /\ "serv" # "spend" /\ "upreg" # "rev" /\ "upreg" # "spend" /\ "rev" # "spend"
      /\ "none" \notin {"reg", "serv", "upreg", "rev", "spend"}
  BY SMT
<1> QED
  BY SMT, <1>1, <1>2, <1>3, <1>4, <1>5, <1>6, <1>7, <1>8

LEMMA ClaimTypes ==
    ASSUME NEW tx \in Tx
    PROVE  /\ AddrOf(tx) \subseteq Addrs \cup {Null} /\ OwnerOf(tx) \subseteq Owners
           /\ OpOf(tx) \subseteq Operators /\ CollOf(tx) \subseteq Collaterals
           /\ AddrFn[tx] = AddrOf(tx) /\ OwnerFn[tx] = OwnerOf(tx)
           /\ OpFn[tx] = OpOf(tx) /\ CollFn[tx] = CollOf(tx)
  BY TxTypes DEF AddrOf, OwnerOf, OpOf, CollOf, AddrFn, OwnerFn, OpFn, CollFn

\* addUnchecked and removeUnchecked keep an index exact, if the claims are free.
LEMMA EmplaceIndexes ==
    ASSUME NEW D, NEW f \in [D -> Tx \cup {NoTx}], NEW of, NEW T \in SUBSET Tx, Indexes(f, of, T),
           NEW tx \in Tx, of[tx] \subseteq D, \A x \in of[tx] : f[x] = NoTx
    PROVE  /\ Indexes(Emplace(f, of[tx], tx), of, T \cup {tx})
           /\ Emplace(f, of[tx], tx) \in [D -> Tx \cup {NoTx}]
<1> DEFINE g == Emplace(f, of[tx], tx)
<1>1. g \in [D -> Tx \cup {NoTx}] /\ DOMAIN g = D /\ DOMAIN f = D
  BY DEF Emplace
<1>2. \A x \in D : g[x] = IF x \in of[tx] THEN tx ELSE f[x]
  BY DEF Emplace
<1>3. ASSUME NEW t \in T, NEW x \in of[t] PROVE x \in D /\ g[x] = t
  BY <1>1, <1>2, <1>3, TxTypes DEF Indexes
<1>4. ASSUME NEW x \in of[tx] PROVE x \in D /\ g[x] = tx
  BY <1>2, <1>4
<1>5. ASSUME NEW x \in D, g[x] # NoTx PROVE g[x] \in T \cup {tx} /\ x \in of[g[x]]
  BY <1>1, <1>2, <1>5 DEF Indexes
<1> HIDE DEF g
<1> QED
  BY <1>1, <1>3, <1>4, <1>5 DEF Indexes, g

LEMMA EraseIndexes ==
    ASSUME NEW D, NEW f \in [D -> Tx \cup {NoTx}], NEW of, NEW T, Indexes(f, of, T), NEW G, G \subseteq T
    PROVE  /\ Indexes(Erase(f, All(of, G)), of, T \ G)
           /\ Erase(f, All(of, G)) \in [D -> Tx \cup {NoTx}]
<1> DEFINE X == All(of, G)
           g == Erase(f, X)
<1>1. g \in [D -> Tx \cup {NoTx}] /\ DOMAIN g = D /\ DOMAIN f = D
  BY DEF Erase
<1>2. \A x \in D : g[x] = IF x \in X THEN NoTx ELSE f[x]
  BY DEF Erase
<1>3. ASSUME NEW x \in D, g[x] # NoTx PROVE g[x] \in T \ G /\ x \in of[g[x]]
  BY SMT, <1>1, <1>2, <1>3 DEF Indexes, All
<1>4. ASSUME NEW t \in T \ G, NEW x \in of[t] PROVE x \in D /\ g[x] = t
  <2>1. x \in D /\ f[x] = t
    BY <1>1, <1>4 DEF Indexes
  <2>2. x \notin X
    BY SMT, <1>4, <2>1 DEF Indexes, All
  <2> QED
    BY <1>2, <2>1, <2>2
<1> HIDE DEF g, X
<1> QED
  BY <1>1, <1>3, <1>4 DEF Indexes, g, X

LEMMA TxsType == PoolType => Txs \in SUBSET Tx /\ \A e \in pool : e.tx \in Txs /\ e.tx \in Tx
  BY DEF PoolType, Txs

LEMMA RemoveUncheckedInv ==
    ASSUME PoolType, IndexInv, EntryInv, NEW E \in SUBSET pool, RemoveUnchecked(E)
    PROVE  /\ pool' = pool \ E /\ Txs' = Txs \ {e.tx : e \in E}
           /\ IndexInv' /\ EntryInv'
           /\ byAddr' \in [Addrs \cup {Null} -> Tx \cup {NoTx}] /\ byOwner' \in [Owners -> Tx \cup {NoTx}]
           /\ byOp' \in [Operators -> Tx \cup {NoTx}] /\ byColl' \in [Collaterals -> Tx \cup {NoTx}]
<1> DEFINE G == {e.tx : e \in E}
<1>1. pool' = pool \ E
  BY DEF RemoveUnchecked
<1>2. Txs' = Txs \ G
  BY <1>1 DEF Txs, EntryInv
<1>3. G \subseteq Txs /\ G \subseteq Tx
  BY TxsType
<1>4. /\ UNION {AddrOf(e.tx) : e \in E} = All(AddrFn, G)
      /\ UNION {OwnerOf(e.tx) : e \in E} = All(OwnerFn, G)
      /\ UNION {OpOf(e.tx) : e \in E} = All(OpFn, G)
      /\ UNION {CollOf(e.tx) : e \in E} = All(CollFn, G)
  <2>1. \A e \in E : e.tx \in Tx
    BY DEF PoolType
  <2>2. \A e \in E : /\ AddrOf(e.tx) = AddrFn[e.tx] /\ OwnerOf(e.tx) = OwnerFn[e.tx]
                     /\ OpOf(e.tx) = OpFn[e.tx] /\ CollOf(e.tx) = CollFn[e.tx]
    BY <2>1, ClaimTypes
  <2> QED
    BY ZenonT(30), <2>2 DEF All
<1> HIDE DEF G
<1>5. /\ byAddr' = Erase(byAddr, All(AddrFn, G))
      /\ byOwner' = Erase(byOwner, All(OwnerFn, G))
      /\ byOp' = Erase(byOp, All(OpFn, G))
      /\ byColl' = Erase(byColl, All(CollFn, G))
  BY <1>4 DEF RemoveUnchecked
<1>6. Indexes(byAddr', AddrFn, Txs') /\ byAddr' \in [Addrs \cup {Null} -> Tx \cup {NoTx}]
  <2>1. byAddr \in [Addrs \cup {Null} -> Tx \cup {NoTx}] /\ Indexes(byAddr, AddrFn, Txs)
    BY DEF PoolType, IndexInv
  <2>2. byAddr' = Erase(byAddr, All(AddrFn, G))
    BY <1>5
  <2> QED
    BY <1>2, <1>3, <2>1, <2>2, EraseIndexes
<1>7. Indexes(byOwner', OwnerFn, Txs') /\ byOwner' \in [Owners -> Tx \cup {NoTx}]
  <2>1. byOwner \in [Owners -> Tx \cup {NoTx}] /\ Indexes(byOwner, OwnerFn, Txs)
    BY DEF PoolType, IndexInv
  <2>2. byOwner' = Erase(byOwner, All(OwnerFn, G))
    BY <1>5
  <2> QED
    BY <1>2, <1>3, <2>1, <2>2, EraseIndexes
<1>8. Indexes(byOp', OpFn, Txs') /\ byOp' \in [Operators -> Tx \cup {NoTx}]
  <2>1. byOp \in [Operators -> Tx \cup {NoTx}] /\ Indexes(byOp, OpFn, Txs)
    BY DEF PoolType, IndexInv
  <2>2. byOp' = Erase(byOp, All(OpFn, G))
    BY <1>5
  <2> QED
    BY <1>2, <1>3, <2>1, <2>2, EraseIndexes
<1>9. Indexes(byColl', CollFn, Txs') /\ byColl' \in [Collaterals -> Tx \cup {NoTx}]
  <2>1. byColl \in [Collaterals -> Tx \cup {NoTx}] /\ Indexes(byColl, CollFn, Txs)
    BY DEF PoolType, IndexInv
  <2>2. byColl' = Erase(byColl, All(CollFn, G))
    BY <1>5
  <2> QED
    BY <1>2, <1>3, <2>1, <2>2, EraseIndexes
<1>10. EntryInv'
  BY <1>1 DEF EntryInv
<1> QED
  BY <1>1, <1>2, <1>6, <1>7, <1>8, <1>9, <1>10 DEF IndexInv, G

\* A key, address or collateral is claimed in one of the four ways only.
LEMMA ClaimedAlike ==
    ASSUME NEW t \in Tx, NEW u \in Tx, NEW v \in Props, v \in Claims(t), v \in Claims(u)
    PROVE  \/ v \in AddrOf(t) \cap AddrOf(u) \/ v \in OwnerOf(t) \cap OwnerOf(u)
           \/ v \in OpOf(t) \cap OpOf(u) \/ v \in CollOf(t) \cap CollOf(u)
<1>1. v # Null
  BY PropsAssumption
<1>2. /\ v \in Addrs => v \notin Owners \cup Operators \cup Collaterals
      /\ v \in Owners => v \notin Operators \cup Collaterals
      /\ v \in Operators => v \notin Collaterals
  BY PropsAssumption
<1>3. ASSUME NEW tx \in Tx, v \in Claims(tx)
      PROVE  /\ v \in Addrs => v \in AddrOf(tx)
             /\ v \in Owners => v \in OwnerOf(tx)
             /\ v \in Operators => v \in OpOf(tx)
             /\ v \in Collaterals => v \in CollOf(tx)
  BY <1>1, <1>2, <1>3, ClaimTypes DEF Claims
<1> QED
  BY <1>3 DEF Props

\* No two transactions of the mempool claim the same, and what a block's transaction
\* claims as well is taken out with it.
LEMMA ClaimedOnce ==
    ASSUME PoolType, IndexInv, NEW e \in pool, NEW u \in Tx, NEW v \in Props,
           v \in Claims(e.tx), v \in Claims(u)
    PROVE  e \in Conflicts(u) /\ (u \in Txs => u = e.tx)
<1>1. e.tx \in Tx /\ e.tx \in Txs
  BY TxsType
<1>2. /\ AddrFn[e.tx] = AddrOf(e.tx) /\ OwnerFn[e.tx] = OwnerOf(e.tx)
      /\ OpFn[e.tx] = OpOf(e.tx) /\ CollFn[e.tx] = CollOf(e.tx)
      /\ AddrFn[u] = AddrOf(u) /\ OwnerFn[u] = OwnerOf(u)
      /\ OpFn[u] = OpOf(u) /\ CollFn[u] = CollOf(u)
  BY <1>1, ClaimTypes
<1>3. CASE v \in AddrOf(e.tx) \cap AddrOf(u)
  BY SMT, <1>1, <1>2, <1>3 DEF IndexInv, Indexes, Conflicts
<1>4. CASE v \in OwnerOf(e.tx) \cap OwnerOf(u)
  BY SMTT(30), <1>1, <1>2, <1>4 DEF IndexInv, Indexes, Conflicts
<1>5. CASE v \in OpOf(e.tx) \cap OpOf(u)
  BY SMT, <1>1, <1>2, <1>5 DEF IndexInv, Indexes, Conflicts
<1>6. CASE v \in CollOf(e.tx) \cap CollOf(u)
  BY SMT, <1>1, <1>2, <1>6 DEF IndexInv, Indexes, Conflicts
<1> QED
  BY <1>1, <1>3, <1>4, <1>5, <1>6, ClaimedAlike

\* Between two blocks the mempool changes and the chain does not.
LEMMA Unmoved ==
    ASSUME PoolInv, UNCHANGED <<vars, block, own>>, pool \subseteq pool' \/ Between
    PROVE  /\ IInv' /\ BlockInv'
           /\ \A tx : CheckBefore(tx)' = CheckBefore(tx)
           /\ \A tx, id : Changing(tx, id)' = Changing(tx, id)
<1>1. /\ prev' = prev /\ new' = new /\ utxo' = utxo /\ registered' = registered /\ claimed' = claimed
      /\ changed' = changed /\ txs' = txs /\ phase' = phase /\ fromMempool' = fromMempool
      /\ block' = block /\ own' = own
  BY DEF vars
<1>2. IInv'
  BY NextIInv DEF PoolInv
<1>3. Before' = Before
  BY <1>1 DEF Before, Spent
<1>4. own => block \subseteq Txs'
  BY DEF PoolInv, BlockInv, Between, Txs
<1>5. ClaimedInBlock' = ClaimedInBlock /\ ChangedInBlock' = ChangedInBlock
  BY SMT, <1>1 DEF ClaimedInBlock, ChangedInBlock, KeyFromBlock, GoneInBlock
<1>6. BlockInv'
  BY SMT, <1>1, <1>3, <1>4, <1>5 DEF PoolInv, BlockInv
<1>7. \A tx : CheckBefore(tx)' = CheckBefore(tx)
  BY <1>1, <1>3 DEF CheckBefore, CheckProUpServTx, CheckProUpRevTx, Signed
<1>8. \A tx, id : Changing(tx, id)' = Changing(tx, id)
  BY <1>1 DEF Changing
<1> QED
  BY <1>2, <1>6, <1>7, <1>8

\* Check() is CheckBefore() and more; between blocks it is just that.
LEMMA CheckIsBefore ==
    ASSUME IInv, BlockInv, NEW tx \in Tx
    PROVE  /\ Check(tx) => CheckBefore(tx)
           /\ Between /\ CheckBefore(tx) => Check(tx)
<1>1. utxo \subseteq Before
  BY DEF Before
<1>2. Between => Before = utxo
  BY DEF Between, Before, Spent
<1>3. Check(tx) => CheckBefore(tx)
  BY <1>1 DEF Check, CheckBefore, CheckProRegTx, ValidCollateral, CheckProUpRegTx
<1>4. ASSUME Between, CheckBefore(tx) PROVE Check(tx)
  <2>1. tx.kind = "upreg" => prev.mns[tx.id].coll \in utxo
    BY <1>2, <1>4, TxTypes DEF BlockInv, CheckBefore
  <2> QED
    BY <1>2, <1>4, <2>1 DEF Check, CheckBefore, CheckProRegTx, ValidCollateral, CheckProUpRegTx
<1> QED
  BY <1>3, <1>4

\* A masternode of the list is not registered by a transaction of the mempool.
LEMMA NotPooled ==
    ASSUME PoolInv, NEW tx \in Txs, tx.kind = "reg"
    PROVE  ~HasMN(prev, tx.id)
<1>1. tx.id \in Nodes
  BY TxsType, TxTypes DEF PoolInv
<1> QED
  BY <1>1 DEF PoolInv, RegInv, IInv

\* What existsProviderTxConflict lets in claims nothing that is claimed.
LEMMA ClaimsFree ==
    ASSUME PoolInv, NEW tx \in Tx, Check(tx), ~ExistsProviderTxConflict(tx)
    PROVE  /\ \A x \in AddrFn[tx] : byAddr[x] = NoTx
           /\ \A x \in OwnerFn[tx] : byOwner[x] = NoTx
           /\ \A x \in OpFn[tx] : byOp[x] = NoTx
           /\ \A x \in CollFn[tx] : byColl[x] = NoTx
<1>0. /\ AddrFn[tx] = AddrOf(tx) /\ OwnerFn[tx] = OwnerOf(tx)
      /\ OpFn[tx] = OpOf(tx) /\ CollFn[tx] = CollOf(tx)
  BY ClaimTypes
<1>1. CASE tx.kind = "reg"
  BY <1>0, <1>1 DEF ExistsProviderTxConflict, AddrOf, OwnerOf, OpOf, CollOf
<1>2. ASSUME NEW t \in Txs, NEW id, HasMN(prev, id), ~TakenByOther(t, id) PROVE FALSE
  <2>1. t \in Tx
    BY TxsType DEF PoolInv
  <2>2. t.kind = "reg" /\ t.id = id
    BY <1>2, <2>1, TxTypes DEF TakenByOther
  <2> QED
    BY <1>2, <2>2, NotPooled
<1>3. CASE tx.kind = "serv"
  <2>1. HasMN(prev, tx.id) /\ tx.addr \in Addrs
    BY <1>3, TxTypes DEF Check, CheckProUpServTx
  <2>2. byAddr[tx.addr] = NoTx \/ byAddr[tx.addr] \in Txs
    BY <2>1 DEF PoolInv, PoolType, IndexInv, Indexes
  <2>3. byAddr[tx.addr] = NoTx
    BY <1>2, <1>3, <2>1, <2>2 DEF ExistsProviderTxConflict
  <2> QED
    BY <1>0, <1>3, <2>3 DEF AddrOf, OwnerOf, OpOf, CollOf
<1>4. CASE tx.kind = "upreg"
  <2>1. HasMN(prev, tx.id) /\ tx.op \in Operators
    BY <1>4, TxTypes DEF Check, CheckProUpRegTx
  <2>2. byOp[tx.op] = NoTx \/ byOp[tx.op] \in Txs
    BY <2>1 DEF PoolInv, PoolType, IndexInv, Indexes
  <2>3. byOp[tx.op] = NoTx
    BY <1>2, <1>4, <2>1, <2>2 DEF ExistsProviderTxConflict
  <2> QED
    BY <1>0, <1>4, <2>3 DEF AddrOf, OwnerOf, OpOf, CollOf
<1>5. CASE tx.kind \in {"rev", "spend"}
  BY <1>0, <1>5 DEF AddrOf, OwnerOf, OpOf, CollOf
<1> QED
  BY <1>1, <1>3, <1>4, <1>5, TxTypes

LEMMA AcceptInv ==
    ASSUME PoolInv, NEW tx \in Tx, AcceptToMemoryPool(tx)
    PROVE  PoolInv'
<1> DEFINE keyed == tx.kind \in Keyed
           e == [tx |-> tx, validFor |-> IF keyed THEN {TipKey(tx)} ELSE {},
                 keyChange |-> keyed /\ TipKey(tx) # tx.op]
<1>1. /\ Between /\ tx \notin Txs /\ (tx.kind = "reg" => tx.id \notin registered) /\ Check(tx)
      /\ ~ExistsProviderTxConflict(tx) /\ pool' = pool \cup {e}
      /\ excused' = excused \cup {x \in {tx} : keyed /\ TipKey(tx) # prev.mns[tx.id].op}
      /\ UNCHANGED <<vars, tipList, block, own>>
  BY DEF AcceptToMemoryPool, Keyed
<1>2. /\ e.tx = tx /\ (keyed => e.validFor = {TipKey(tx)}) /\ (~keyed => e.validFor = {})
      /\ e.keyChange = (keyed /\ TipKey(tx) # tx.op)
  BY SMT
<1> HIDE DEF e
<1>3. Txs' = Txs \cup {tx}
  BY <1>1, <1>2 DEF Txs
<1>4. /\ IInv' /\ BlockInv' /\ \A t : CheckBefore(t)' = CheckBefore(t)
      /\ \A t, id : Changing(t, id)' = Changing(t, id)
  BY <1>1, Unmoved
<1>5. /\ Txs \in SUBSET Tx /\ AddrFn[tx] = AddrOf(tx) /\ OwnerFn[tx] = OwnerOf(tx)
      /\ OpFn[tx] = OpOf(tx) /\ CollFn[tx] = CollOf(tx)
  BY TxsType, ClaimTypes DEF PoolInv
<1>6. Indexes(byAddr', AddrFn, Txs') /\ byAddr' \in [Addrs \cup {Null} -> Tx \cup {NoTx}]
  <2>1. byAddr \in [Addrs \cup {Null} -> Tx \cup {NoTx}] /\ Indexes(byAddr, AddrFn, Txs)
    BY DEF PoolInv, PoolType, IndexInv
  <2>2. /\ byAddr' = Emplace(byAddr, AddrFn[tx], tx) /\ AddrFn[tx] \subseteq Addrs \cup {Null}
        /\ \A x \in AddrFn[tx] : byAddr[x] = NoTx
    BY <1>1, <1>5, ClaimsFree, ClaimTypes DEF AcceptToMemoryPool
  <2> QED
    BY <1>3, <1>5, <2>1, <2>2, EmplaceIndexes
<1>7. Indexes(byOwner', OwnerFn, Txs') /\ byOwner' \in [Owners -> Tx \cup {NoTx}]
  <2>1. byOwner \in [Owners -> Tx \cup {NoTx}] /\ Indexes(byOwner, OwnerFn, Txs)
    BY DEF PoolInv, PoolType, IndexInv
  <2>2. /\ byOwner' = Emplace(byOwner, OwnerFn[tx], tx) /\ OwnerFn[tx] \subseteq Owners
        /\ \A x \in OwnerFn[tx] : byOwner[x] = NoTx
    BY <1>1, <1>5, ClaimsFree, ClaimTypes DEF AcceptToMemoryPool
  <2> QED
    BY <1>3, <1>5, <2>1, <2>2, EmplaceIndexes
<1>8. Indexes(byOp', OpFn, Txs') /\ byOp' \in [Operators -> Tx \cup {NoTx}]
  <2>1. byOp \in [Operators -> Tx \cup {NoTx}] /\ Indexes(byOp, OpFn, Txs)
    BY DEF PoolInv, PoolType, IndexInv
  <2>2. /\ byOp' = Emplace(byOp, OpFn[tx], tx) /\ OpFn[tx] \subseteq Operators
        /\ \A x \in OpFn[tx] : byOp[x] = NoTx
    BY <1>1, <1>5, ClaimsFree, ClaimTypes DEF AcceptToMemoryPool
  <2> QED
    BY <1>3, <1>5, <2>1, <2>2, EmplaceIndexes
<1>9. Indexes(byColl', CollFn, Txs') /\ byColl' \in [Collaterals -> Tx \cup {NoTx}]
  <2>1. byColl \in [Collaterals -> Tx \cup {NoTx}] /\ Indexes(byColl, CollFn, Txs)
    BY DEF PoolInv, PoolType, IndexInv
  <2>2. /\ byColl' = Emplace(byColl, CollFn[tx], tx) /\ CollFn[tx] \subseteq Collaterals
        /\ \A x \in CollFn[tx] : byColl[x] = NoTx
    BY <1>1, <1>5, ClaimsFree, ClaimTypes DEF AcceptToMemoryPool
  <2> QED
    BY <1>3, <1>5, <2>1, <2>2, EmplaceIndexes
<1>10. IndexInv'
  BY <1>6, <1>7, <1>8, <1>9 DEF IndexInv
<1>11. PoolType'
  <2>1. excused' \subseteq Txs' /\ \A f \in pool' : f.tx \in Tx
    BY <1>1, <1>2, <1>3 DEF PoolInv, PoolType
  <2> QED
    BY <1>1, <1>6, <1>7, <1>8, <1>9, <2>1 DEF PoolInv, PoolType
<1>12. RegInv'
  BY <1>1, <1>3 DEF PoolInv, RegInv, vars
<1>13. EntryInv'
  <2>1. \A f \in pool : f.tx # tx
    BY <1>1 DEF Txs
  <2>2. \A f, g \in pool' : f.tx = g.tx => f = g
    BY <1>1, <1>2, <2>1 DEF PoolInv, EntryInv
  <2>3. /\ e.tx.kind = "serv" => e.validFor = {}
        /\ e.tx.kind \in Keyed => (e.keyChange <=> e.validFor # {e.tx.op})
    BY <1>2 DEF Keyed
  <2> QED
    BY <1>1, <2>2, <2>3 DEF PoolInv, EntryInv
<1>14. prev' = prev
  BY <1>1 DEF vars
<1>15. ValidInv'
  <2>1. CheckBefore(tx)
    BY <1>1, CheckIsBefore DEF PoolInv
  <2>2. ASSUME tx \notin excused' PROVE keyed => e.validFor = {prev.mns[tx.id].op}
    BY <1>1, <1>2, <2>2
  <2>3. \A f \in pool : f.tx \notin excused' =>
            CheckBefore(f.tx) /\ (f.tx.kind \in Keyed => f.validFor = {prev.mns[f.tx.id].op})
    BY <1>1 DEF PoolInv, ValidInv
  <2>4. \A f \in pool' : f.tx \notin excused' =>
            CheckBefore(f.tx) /\ (f.tx.kind \in Keyed => f.validFor = {prev.mns[f.tx.id].op})
    BY <1>1, <1>2, <2>1, <2>2, <2>3
  <2> QED
    BY <1>4, <1>14, <2>4 DEF ValidInv
<1>16. KeyInv'
  <2>1. ASSUME NEW id \in Nodes, NEW u \in Txs \ excused, Changing(u, id), Changing(tx, id),
               tx \notin excused'
        PROVE  FALSE
    <3>1. PICK f \in pool : f.tx = u
      BY <2>1 DEF Txs
    <3>2. u.kind \in Keyed /\ u.id = id /\ u.op # prev.mns[id].op
      BY <2>1 DEF Changing
    <3>3. f.keyChange
      <4>1. f.validFor = {prev.mns[id].op}
        BY <2>1, <3>1, <3>2 DEF PoolInv, ValidInv
      <4> QED
        BY <3>1, <3>2, <4>1 DEF PoolInv, EntryInv
    <3>4. f \in Refs(tx.id)
      BY <2>1, <3>1, <3>2 DEF Refs, Update, Keyed, Changing
    <3>5. keyed /\ TipKey(tx) # tx.op
      BY <1>1, <2>1 DEF Changing
    <3> QED
      BY <1>1, <3>3, <3>4, <3>5 DEF ExistsProviderTxConflict, HasKeyChangeInMempool, Keyed
  <2>2. \A t \in Txs' \ excused' : t \in Txs \ excused \/ t = tx
    BY <1>1, <1>3
  <2>3. \A id \in Nodes : \A t, u \in Txs' \ excused' : Changing(t, id) /\ Changing(u, id) => t = u
    BY <2>1, <2>2 DEF PoolInv, KeyInv
  <2> QED
    BY <1>4, <2>3 DEF KeyInv
<1> QED
  BY <1>4, <1>10, <1>11, <1>12, <1>13, <1>15, <1>16 DEF PoolInv

LEMMA EvictInv ==
    ASSUME PoolInv, NEW e \in pool, Evict(e)
    PROVE  PoolInv'
<1>1. /\ Between /\ RemoveUnchecked({e}) /\ excused' = excused \ {e.tx}
      /\ UNCHANGED <<vars, tipList, block, own>>
  BY DEF Evict
<1>2. /\ pool' = pool \ {e} /\ Txs' = Txs \ {e.tx}
      /\ IndexInv' /\ EntryInv'
      /\ byAddr' \in [Addrs \cup {Null} -> Tx \cup {NoTx}] /\ byOwner' \in [Owners -> Tx \cup {NoTx}]
      /\ byOp' \in [Operators -> Tx \cup {NoTx}] /\ byColl' \in [Collaterals -> Tx \cup {NoTx}]
  <2>1. {f.tx : f \in {e}} = {e.tx} /\ {e} \in SUBSET pool
    OBVIOUS
  <2> QED
    BY <1>1, <2>1, RemoveUncheckedInv DEF PoolInv
<1>3. /\ IInv' /\ BlockInv' /\ \A t : CheckBefore(t)' = CheckBefore(t)
      /\ \A t, id : Changing(t, id)' = Changing(t, id)
  BY <1>1, Unmoved
<1>4. PoolType'
  BY <1>1, <1>2 DEF PoolInv, PoolType
<1>5. RegInv'
  BY <1>1, <1>2 DEF PoolInv, RegInv, vars
<1>6. \A f \in pool' : f \in pool /\ (f.tx \notin excused' => f.tx \notin excused)
  BY <1>1, <1>2 DEF PoolInv, EntryInv
<1>7. ValidInv'
  BY <1>1, <1>3, <1>6 DEF PoolInv, ValidInv, vars
<1>8. KeyInv'
  BY <1>1, <1>2, <1>3 DEF PoolInv, KeyInv
<1> QED
  BY <1>2, <1>3, <1>4, <1>5, <1>7, <1>8 DEF PoolInv

LEMMA UnchangedInv ==
    ASSUME PoolInv, UNCHANGED <<vars, poolVars, block, own, excused>>
    PROVE  PoolInv'
<1>1. /\ pool' = pool /\ byAddr' = byAddr /\ byOwner' = byOwner /\ byOp' = byOp /\ byColl' = byColl
      /\ block' = block /\ own' = own /\ excused' = excused /\ Txs' = Txs
      /\ registered' = registered /\ claimed' = claimed /\ prev' = prev
  BY DEF poolVars, Txs, vars
<1>2. /\ IInv' /\ BlockInv' /\ \A t : CheckBefore(t)' = CheckBefore(t)
      /\ \A t, id : Changing(t, id)' = Changing(t, id)
  BY <1>1, Unmoved
<1>3. PoolType' /\ IndexInv' /\ RegInv' /\ EntryInv'
  BY <1>1 DEF PoolInv, PoolType, IndexInv, RegInv, EntryInv
<1>4. ValidInv' /\ KeyInv'
  BY <1>1, <1>2 DEF PoolInv, ValidInv, KeyInv
<1> QED
  BY <1>2, <1>3, <1>4 DEF PoolInv

\* What the transaction tx of a block does to the list.
MNOf(tx) == [coll |-> tx.coll, owner |-> tx.owner, op |-> tx.op, addr |-> tx.addr]
RegClaims(tx) == {tx.id, tx.coll, tx.owner, tx.op, tx.addr} \ {Null}
RegDone(tx) ==
    tx.kind = "reg" /\ phase = "txs" /\ tx.id \notin registered /\ Registers(tx.id, MNOf(tx), RegClaims(tx))
ServDone(tx) ==
    /\ tx.kind = "serv" /\ phase = "txs" /\ ~OwnedByOther(new, tx.addr, tx.id)
    /\ Updates(tx.id, [new.mns[tx.id] EXCEPT !.addr = tx.addr], {tx.addr})
UpRegDone(tx) ==
    tx.kind = "upreg" /\ phase = "txs" /\ Updates(tx.id, WithOperator(new.mns[tx.id], tx.op), {tx.op})
RevDone(tx) ==
    /\ tx.kind = "rev" /\ phase = "txs"
    /\ Updates(tx.id, [new.mns[tx.id] EXCEPT !.op = Null, !.addr = Null], {})
SpendDone(tx) ==
    tx.kind = "spend" /\ phase \in {"txs", "spends"} /\ tx.coll \in utxo /\ Spends(tx.coll)
Done(tx) == RegDone(tx) \/ ServDone(tx) \/ UpRegDone(tx) \/ RevDone(tx) \/ SpendDone(tx)

LEMMA ProcessSteps ==
    ASSUME IInv, NEW tx \in Tx, Process(tx)
    PROVE  /\ IInv' /\ [Next]_vars
           /\ \/ Rejected /\ tx.kind # "spend" /\ phase = "txs" /\ txs' = 0
              \/ Done(tx) /\ (tx.kind # "spend" => txs' # 0)
<1>0. txs + 1 # 0
  BY SMT DEF IInv, TypeOK
<1>r. Rejected => txs' = 0
  BY DEF Rejected
<1>1. CASE tx.kind = "reg" /\ ProRegTx(tx.id, tx.coll, tx.owner, tx.op, tx.addr)
  <2>1. /\ tx.id \in Nodes /\ tx.coll \in Collaterals /\ tx.owner \in Owners
        /\ tx.op \in Operators /\ tx.addr \in Addrs \cup {Null}
    BY <1>1, TxTypes
  <2>2. IInv' /\ (Rejected \/ Registers(tx.id, MNOf(tx), RegClaims(tx)))
    BY <1>1, <2>1, ProRegTxInv DEF MNOf, RegClaims
  <2>3. phase = "txs" /\ tx.id \notin registered
    BY <1>1 DEF ProRegTx, InBlock
  <2>4. Next
    BY <1>1, <2>1 DEF Next
  <2>5. tx.kind # "spend" /\ (RegDone(tx) => txs' = txs + 1)
    BY <1>1 DEF RegDone, Registers
  <2> QED
    BY <1>0, <1>1, <1>r, <2>2, <2>3, <2>4, <2>5 DEF Done, RegDone
<1>2. CASE tx.kind = "serv" /\ ProUpServTx(tx.id, tx.addr)
  <2>1. tx.id \in Nodes /\ tx.addr \in Addrs
    BY <1>2, TxTypes
  <2>2. IInv' /\ (Rejected \/ Updates(tx.id, [new.mns[tx.id] EXCEPT !.addr = tx.addr], {tx.addr}))
    BY <1>2, <2>1, ProUpServTxInv
  <2>3. phase = "txs" /\ (OwnedByOther(new, tx.addr, tx.id) => Rejected)
    BY <1>2 DEF ProUpServTx, InBlock
  <2>4. Next
    BY <1>2, <2>1 DEF Next
  <2>5. tx.kind # "spend" /\ (ServDone(tx) => txs' = txs + 1)
    BY <1>2 DEF ServDone, Updates
  <2> QED
    BY <1>0, <1>2, <1>r, <2>2, <2>3, <2>4, <2>5 DEF Done, ServDone
<1>3. CASE tx.kind = "upreg" /\ ProUpRegTx(tx.id, tx.op)
  <2>1. tx.id \in Nodes /\ tx.op \in Operators
    BY <1>3, TxTypes
  <2>2. IInv' /\ (Rejected \/ Updates(tx.id, WithOperator(new.mns[tx.id], tx.op), {tx.op}))
    BY <1>3, <2>1, ProUpRegTxInv
  <2>3. phase = "txs"
    BY <1>3 DEF ProUpRegTx, InBlock
  <2>4. Next
    BY <1>3, <2>1 DEF Next
  <2>5. tx.kind # "spend" /\ (UpRegDone(tx) => txs' = txs + 1)
    BY <1>3 DEF UpRegDone, Updates
  <2> QED
    BY <1>0, <1>3, <1>r, <2>2, <2>3, <2>4, <2>5 DEF Done, UpRegDone
<1>4. CASE tx.kind = "rev" /\ ProUpRevTx(tx.id)
  <2>1. tx.id \in Nodes
    BY <1>4, TxTypes
  <2>2. IInv' /\ (Rejected \/ Updates(tx.id, [new.mns[tx.id] EXCEPT !.op = Null, !.addr = Null], {}))
    BY <1>4, <2>1, ProUpRevTxInv
  <2>3. phase = "txs"
    BY <1>4 DEF ProUpRevTx, InBlock
  <2>4. Next
    BY <1>4, <2>1 DEF Next
  <2>5. tx.kind # "spend" /\ (RevDone(tx) => txs' = txs + 1)
    BY <1>4 DEF RevDone, Updates
  <2> QED
    BY <1>0, <1>4, <1>r, <2>2, <2>3, <2>4, <2>5 DEF Done, RevDone
<1>5. CASE tx.kind = "spend" /\ SpendCollateral(tx.coll)
  <2>1. tx.coll \in Collaterals
    BY <1>5, TxTypes
  <2>2. IInv' /\ Spends(tx.coll)
    BY <1>5, <2>1, SpendCollateralInv
  <2>3. phase \in {"txs", "spends"} /\ tx.coll \in utxo
    BY <1>5 DEF SpendCollateral
  <2>4. Next
    BY <1>5, <2>1 DEF Next
  <2> QED
    BY <1>5, <2>2, <2>3, <2>4 DEF Done, SpendDone
<1> QED
  BY <1>1, <1>2, <1>3, <1>4, <1>5 DEF Process

LEMMA BlockTxSteps ==
    ASSUME PoolInv, NEW tx \in Tx, BlockTx(tx)
    PROVE  /\ IInv' /\ [Next]_vars /\ ~fromMempool' /\ tx \notin block /\ ~Misnamed(tx)
           /\ UNCHANGED <<poolVars, tipList, excused>>
           /\ \/ Rejected /\ phase = "txs" /\ block' = {} /\ own' = TRUE
              \/ Done(tx) /\ block' = block \cup {tx} /\ own' = (own /\ tx \in Txs)
<1>1. /\ IInv' /\ [Next]_vars
      /\ \/ Rejected /\ tx.kind # "spend" /\ phase = "txs" /\ txs' = 0
         \/ Done(tx) /\ (tx.kind # "spend" => txs' # 0)
  BY ProcessSteps DEF PoolInv, BlockTx
<1>2. own \in BOOLEAN
  BY DEF PoolInv, PoolType
<1> QED
  BY <1>1, <1>2 DEF BlockTx

\* What a step of the block leaves to the mempool: the previous list and its coins.
LEMMA PoolKept ==
    ASSUME PoolInv, UNCHANGED <<poolVars, excused>>, prev' = prev, Before' = Before
    PROVE  Txs' = Txs /\ IndexInv' /\ EntryInv' /\ ValidInv' /\ KeyInv'
<1>1. /\ pool' = pool /\ byAddr' = byAddr /\ byOwner' = byOwner /\ byOp' = byOp /\ byColl' = byColl
      /\ excused' = excused /\ Txs' = Txs
  BY DEF poolVars, Txs
<1>2. \A tx : CheckBefore(tx)' = CheckBefore(tx)
  BY DEF CheckBefore, CheckProUpServTx, CheckProUpRevTx, Signed
<1>3. \A tx, id : Changing(tx, id)' = Changing(tx, id)
  BY DEF Changing
<1>4. IndexInv' /\ EntryInv'
  BY <1>1 DEF PoolInv, IndexInv, EntryInv
<1>5. ValidInv' /\ KeyInv'
  BY <1>1, <1>2, <1>3 DEF PoolInv, ValidInv, KeyInv
<1> QED
  BY <1>1, <1>4, <1>5

LEMMA BlockRejectedInv ==
    ASSUME PoolInv, IInv', ~fromMempool', UNCHANGED <<poolVars, excused>>,
           Rejected, phase = "txs", block' = {}, own' = TRUE
    PROVE  PoolInv'
<1>1. /\ new' = prev /\ prev' = prev /\ utxo' = utxo /\ phase' = "txs"
      /\ registered' = registered \ claimed /\ claimed' = {}
  BY DEF Rejected
<1>2. Before' = Before
  BY <1>1 DEF PoolInv, BlockInv, Before, Spent
<1>3. Txs' = Txs /\ IndexInv' /\ EntryInv' /\ ValidInv' /\ KeyInv'
  BY <1>1, <1>2, PoolKept
<1>4. PoolType'
  BY <1>3 DEF PoolInv, PoolType, poolVars
<1>5. RegInv'
  BY <1>1, <1>3 DEF PoolInv, RegInv
<1>6. ClaimedInBlock' /\ ChangedInBlock'
  BY <1>1 DEF ClaimedInBlock, ChangedInBlock
<1>7. BlockInv'
  BY <1>1, <1>2, <1>6 DEF PoolInv, BlockInv
<1> QED
  BY <1>3, <1>4, <1>5, <1>7 DEF PoolInv

\* The masternodes that a registration, an update or a spent collateral leaves behind.
LEMMA EntryTypes ==
    ASSUME IInv, NEW id \in Nodes, HasMN(new, id)
    PROVE  /\ new.mns[id] \in MN
           /\ \A a \in Addrs : LET mn == [new.mns[id] EXCEPT !.addr = a]
                               IN  mn \in MN /\ mn.coll = new.mns[id].coll /\ mn.op = new.mns[id].op
           /\ \A k \in Operators : LET mn == WithOperator(new.mns[id], k)
                                   IN  mn \in MN /\ mn.coll = new.mns[id].coll /\ mn.op = k
           /\ LET mn == [new.mns[id] EXCEPT !.op = Null, !.addr = Null]
              IN  mn \in MN /\ mn.coll = new.mns[id].coll /\ mn.op = Null
<1>1. new.mns[id] \in MN
  BY ListFields DEF IInv, TypeOK, HasMN
<1> QED
  BY <1>1 DEF MN, WithOperator

\* What changes in the list under construction has a cause in the block.
Fits(tx) ==
    \A id \in Nodes : HasMN(prev, id) =>
        \/ new'.mns[id] = new.mns[id]
        \/ HasMN(new, id) /\ ~HasMN(new', id) /\ tx.kind \in {"reg", "spend"} /\ tx.coll = new.mns[id].coll
        \/ /\ HasMN(new, id) /\ HasMN(new', id) /\ new'.mns[id].coll = new.mns[id].coll
           /\ \/ new'.mns[id].op = new.mns[id].op
              \/ tx.kind \in Keyed /\ tx.id = id /\ new'.mns[id].op = tx.op

LEMMA DoneFits ==
    ASSUME IInv, NEW tx \in Tx, Done(tx)
    PROVE  Fits(tx)
<1>0. new.mns \in [Nodes -> MN \cup {NoMN}]
  BY ListFields DEF IInv, TypeOK
<1>n. NoMN.coll = Null /\ \A c \in Collaterals : c # Null
  BY PropsAssumption DEF NoMN, Props
<1>1. ASSUME NEW id \in Nodes, NEW c \in Collaterals, new'.mns[id] = Without(new, c, id)
      PROVE  new'.mns[id] = new.mns[id] \/ (HasMN(new, id) /\ ~HasMN(new', id) /\ c = new.mns[id].coll)
  BY <1>1, <1>n DEF Without, HasMN
<1>2. CASE RegDone(tx)
  <2>1. tx.coll \in Collaterals /\ MNOf(tx).coll = tx.coll /\ tx.kind = "reg"
    BY <1>2, TxTypes DEF MNOf, RegDone
  <2>2. \A id \in Nodes \ {tx.id} : new'.mns[id] = Without(new, tx.coll, id)
    BY <1>2, <2>1 DEF RegDone, Registers
  <2>3. \A id \in Nodes : HasMN(prev, id) => id # tx.id
    BY <1>2 DEF RegDone, IInv
  <2> QED
    BY <1>1, <2>1, <2>2, <2>3 DEF Fits
<1>3. ASSUME NEW mn \in MN, NEW claims, Updates(tx.id, mn, claims), tx.id \in Nodes,
             mn.coll = new.mns[tx.id].coll,
             mn.op = new.mns[tx.id].op \/ (tx.kind \in Keyed /\ mn.op = tx.op)
      PROVE  Fits(tx)
  <2>1. HasMN(new, tx.id) /\ new'.mns = [new.mns EXCEPT ![tx.id] = mn]
    BY <1>3 DEF Updates
  <2>2. HasMN(new', tx.id)
    BY <1>0, <1>3, <2>1, Types DEF HasMN
  <2> QED
    BY <1>0, <1>3, <2>1, <2>2 DEF Fits
<1>4. CASE ServDone(tx)
  <2>1. tx.id \in Nodes /\ tx.addr \in Addrs /\ HasMN(new, tx.id)
    BY <1>4, TxTypes DEF ServDone, Updates
  <2> DEFINE mn == [new.mns[tx.id] EXCEPT !.addr = tx.addr]
  <2>2. mn \in MN /\ mn.coll = new.mns[tx.id].coll /\ mn.op = new.mns[tx.id].op
    BY <2>1, EntryTypes
  <2>3. Updates(tx.id, mn, {tx.addr})
    BY <1>4 DEF ServDone
  <2> HIDE DEF mn
  <2> QED
    BY <1>3, <2>1, <2>2, <2>3
<1>5. CASE UpRegDone(tx)
  <2>1. tx.id \in Nodes /\ tx.op \in Operators /\ HasMN(new, tx.id) /\ tx.kind \in Keyed
    BY <1>5, TxTypes DEF UpRegDone, Updates, Keyed
  <2> DEFINE mn == WithOperator(new.mns[tx.id], tx.op)
  <2>2. mn \in MN /\ mn.coll = new.mns[tx.id].coll /\ mn.op = tx.op
    BY <2>1, EntryTypes
  <2>3. Updates(tx.id, mn, {tx.op})
    BY <1>5 DEF UpRegDone
  <2> HIDE DEF mn
  <2> QED
    BY <1>3, <2>1, <2>2, <2>3
<1>6. CASE RevDone(tx)
  <2>1. tx.id \in Nodes /\ tx.op = Null /\ HasMN(new, tx.id) /\ tx.kind \in Keyed
    BY <1>6, TxTypes DEF RevDone, Updates, Keyed
  <2> DEFINE mn == [new.mns[tx.id] EXCEPT !.op = Null, !.addr = Null]
  <2>2. mn \in MN /\ mn.coll = new.mns[tx.id].coll /\ mn.op = tx.op
    BY <2>1, EntryTypes
  <2>3. Updates(tx.id, mn, {})
    BY <1>6 DEF RevDone
  <2> HIDE DEF mn
  <2> QED
    BY <1>3, <2>1, <2>2, <2>3
<1>7. CASE SpendDone(tx)
  <2>1. tx.coll \in Collaterals /\ tx.kind = "spend"
    BY <1>7, TxTypes DEF SpendDone
  <2>2. \A id \in Nodes : new'.mns[id] = Without(new, tx.coll, id)
    BY <1>7 DEF SpendDone, Spends
  <2> QED
    BY <1>1, <2>1, <2>2 DEF Fits
<1> QED
  BY <1>2, <1>4, <1>5, <1>6, <1>7 DEF Done

LEMMA DoneFacts ==
    ASSUME IInv, NEW tx \in Tx, Done(tx)
    PROVE  /\ prev' = prev /\ phase # "crashed"
           /\ tx.kind # "spend" => utxo' = utxo /\ phase = "txs" /\ phase' \in {"txs", "crashed"}
           /\ tx.kind = "spend" => utxo' = utxo \ {tx.coll} /\ tx.coll \in utxo /\ phase' = "spends"
           /\ claimed \subseteq claimed'
           /\ registered' = registered \cup {x \in {tx.id} : tx.kind = "reg"}
           /\ tx.kind = "reg" => tx.id \in claimed'
           /\ phase' # "crashed" => \A v \in Props : new'.unique[v] # NoEntry =>
                  new'.unique[v] = new.unique[v] \/ v \in Claims(tx)
           /\ phase' = "crashed" => /\ tx.kind = "upreg" /\ OwnedByOther(new, tx.op, tx.id)
                                    /\ ~OwnedByOther(prev, tx.op, tx.id)
<1>1. CASE RegDone(tx)
  <2>1. tx.id \in RegClaims(tx) /\ \A v \in Props : v \in RegClaims(tx) => v \in Claims(tx)
    BY <1>1, TxTypes, PropsAssumption DEF RegDone, RegClaims, Claims, AddrOf, OwnerOf, OpOf, CollOf
  <2> QED
    BY <1>1, <2>1 DEF RegDone, Registers, Trace
<1>2. CASE ServDone(tx)
  BY <1>2 DEF ServDone, Updates, Trace, Claims, AddrOf
<1>3. CASE UpRegDone(tx)
  BY <1>3 DEF UpRegDone, Updates, Trace, Claims, OpOf
<1>4. CASE RevDone(tx)
  BY <1>4 DEF RevDone, Updates, Trace
<1>5. CASE SpendDone(tx)
  BY <1>5 DEF SpendDone, Spends, Trace
<1> QED
  BY <1>1, <1>2, <1>3, <1>4, <1>5 DEF Done

\* In a block of the mempool's transactions no operator key is claimed twice.
LEMMA OwnNotCrashed ==
    ASSUME PoolInv, NEW tx \in Txs, Done(tx), own, tx \notin block
    PROVE  phase' # "crashed"
<1> SUFFICES ASSUME phase' = "crashed" PROVE FALSE
  OBVIOUS
<1>1. tx \in Tx /\ IInv
  BY TxsType DEF PoolInv
<1>2. /\ tx.kind = "upreg" /\ OwnedByOther(new, tx.op, tx.id) /\ ~OwnedByOther(prev, tx.op, tx.id)
      /\ phase # "crashed"
  BY <1>1, DoneFacts
<1>3. tx.op \in Props /\ tx.op \in Claims(tx)
  BY <1>1, <1>2, TxTypes DEF Props, Claims, OpOf
<1>4. new.unique[tx.op] # NoEntry /\ new.unique[tx.op] # prev.unique[tx.op]
  BY <1>2 DEF OwnedByOther, HasUniqueProperty
<1>5. PICK u \in block : tx.op \in Claims(u)
  BY <1>2, <1>3, <1>4 DEF PoolInv, BlockInv, ClaimedInBlock
<1>6. u \in Txs /\ u \in Tx
  BY TxsType DEF PoolInv, BlockInv
<1>7. PICK e \in pool : e.tx = tx
  BY DEF Txs
<1>8. u = tx
  BY <1>3, <1>5, <1>6, <1>7, ClaimedOnce DEF PoolInv
<1> QED
  BY <1>5, <1>8

LEMMA BlockDoneInv ==
    ASSUME PoolInv, IInv', ~fromMempool', UNCHANGED <<poolVars, excused>>, NEW tx \in Tx,
           tx \notin block, ~Misnamed(tx), Done(tx), block' = block \cup {tx}, own' = (own /\ tx \in Txs)
    PROVE  PoolInv'
<1>0. IInv
  BY DEF PoolInv
<1>1. /\ prev' = prev /\ phase # "crashed"
      /\ tx.kind # "spend" => utxo' = utxo /\ phase = "txs" /\ phase' \in {"txs", "crashed"}
      /\ tx.kind = "spend" => utxo' = utxo \ {tx.coll} /\ tx.coll \in utxo /\ phase' = "spends"
      /\ claimed \subseteq claimed'
      /\ registered' = registered \cup {x \in {tx.id} : tx.kind = "reg"}
      /\ tx.kind = "reg" => tx.id \in claimed'
      /\ phase' # "crashed" => \A v \in Props : new'.unique[v] # NoEntry =>
             new'.unique[v] = new.unique[v] \/ v \in Claims(tx)
  BY <1>0, DoneFacts
<1>2. Before' = Before
  <2>1. CASE tx.kind # "spend"
    BY <1>1, <2>1 DEF Before, Spent
  <2>2. CASE tx.kind = "spend"
    <3>1. Spent' = Spent \cup {tx.coll}
      BY <2>2 DEF Spent
    <3> QED
      BY <1>1, <2>2, <3>1 DEF Before
  <2> QED
    BY <2>1, <2>2
<1>3. Txs' = Txs /\ IndexInv' /\ EntryInv' /\ ValidInv' /\ KeyInv'
  BY <1>1, <1>2, PoolKept
<1>4. PoolType'
  BY <1>3 DEF PoolInv, PoolType, poolVars
<1>5. RegInv'
  <2> SUFFICES ASSUME NEW t \in Txs, t.kind = "reg", t.id \in registered'
               PROVE  t \in block' /\ t.id \in claimed'
    BY <1>3 DEF RegInv
  <2>1. CASE t.id \in registered
    BY <1>1, <2>1 DEF PoolInv, RegInv
  <2>2. CASE t.id \notin registered
    <3>1. tx.kind = "reg" /\ t.id = tx.id
      BY <1>1, <2>2
    <3>2. t = tx
      BY <3>1 DEF Misnamed
    <3> QED
      BY <1>1, <3>1, <3>2
  <2> QED
    BY <2>1, <2>2
<1>6. ASSUME phase' # "crashed" PROVE ClaimedInBlock'
  BY <1>1, <1>6 DEF PoolInv, BlockInv, ClaimedInBlock
<1>7. ChangedInBlock'
  <2> SUFFICES ASSUME NEW id \in Nodes, HasMN(prev, id)
               PROVE  /\ HasMN(new', id) => /\ new'.mns[id].coll = prev.mns[id].coll
                                            /\ new'.mns[id].op = prev.mns[id].op \/ KeyFromBlock(id)'
                      /\ ~HasMN(new', id) => GoneInBlock(id)'
    BY <1>1 DEF ChangedInBlock
  <2>1. /\ HasMN(new, id) => /\ new.mns[id].coll = prev.mns[id].coll
                             /\ new.mns[id].op = prev.mns[id].op \/ KeyFromBlock(id)
        /\ ~HasMN(new, id) => GoneInBlock(id)
    BY <1>1 DEF PoolInv, BlockInv, ChangedInBlock
  <2>2. /\ GoneInBlock(id) => GoneInBlock(id)'
        /\ new'.mns[id].op = new.mns[id].op /\ KeyFromBlock(id) => KeyFromBlock(id)'
    BY <1>1 DEF GoneInBlock, KeyFromBlock
  <2>3. CASE new'.mns[id] = new.mns[id]
    BY <2>1, <2>2, <2>3 DEF HasMN
  <2>4. CASE HasMN(new, id) /\ ~HasMN(new', id) /\ tx.kind \in {"reg", "spend"} /\ tx.coll = new.mns[id].coll
    BY <1>1, <2>1, <2>4 DEF GoneInBlock
  <2>5. CASE /\ HasMN(new, id) /\ HasMN(new', id) /\ new'.mns[id].coll = new.mns[id].coll
             /\ \/ new'.mns[id].op = new.mns[id].op
                \/ tx.kind \in Keyed /\ tx.id = id /\ new'.mns[id].op = tx.op
    BY <2>1, <2>2, <2>5 DEF KeyFromBlock
  <2> QED
    BY <1>0, <2>3, <2>4, <2>5, DoneFits DEF Fits
<1>8. own' => block' \subseteq Txs /\ phase' # "crashed"
  BY OwnNotCrashed DEF PoolInv, BlockInv
<1>9. phase' = "txs" => \A t \in block' : t.kind # "spend"
  BY <1>1 DEF PoolInv, BlockInv
<1>10. /\ \A t \in block' : t.kind = "reg" => t.id \in claimed'
       /\ \A id \in Nodes : HasMN(prev', id) => prev'.mns[id].coll \in Before'
       /\ block' # {}
  BY <1>1, <1>2 DEF PoolInv, BlockInv
<1>11. BlockInv'
  BY <1>3, <1>6, <1>7, <1>8, <1>9, <1>10 DEF BlockInv
<1> QED
  BY <1>3, <1>4, <1>5, <1>11 DEF PoolInv

LEMMA BlockTxInv ==
    ASSUME PoolInv, NEW tx \in Tx, BlockTx(tx)
    PROVE  PoolInv'
<1>1. /\ IInv' /\ ~fromMempool' /\ tx \notin block /\ ~Misnamed(tx)
      /\ UNCHANGED <<poolVars, excused>>
      /\ \/ Rejected /\ phase = "txs" /\ block' = {} /\ own' = TRUE
         \/ Done(tx) /\ block' = block \cup {tx} /\ own' = (own /\ tx \in Txs)
  BY BlockTxSteps
<1> QED
  BY <1>1, BlockRejectedInv, BlockDoneInv

\* What removeForBlock takes out, and what stays without an excuse.
Gone == {e \in pool : e.tx \in block} \cup UNION {Conflicts(tx) : tx \in block}
Stays(e) ==
    /\ e \in pool \ Gone /\ e.tx \notin excused
    /\ ~(e.tx.kind = "reg" /\ e.tx.coll \notin utxo)
    /\ ~(/\ e.tx.kind \in Update /\ HasMN(prev, e.tx.id) /\ ~HasMN(new, e.tx.id)
         /\ (prev.mns[e.tx.id].coll \in utxo \/ tipList # prev))

\* What a transaction that stays claims has not changed hands.
LEMMA StaysUntaken ==
    ASSUME PoolInv, phase # "crashed", NEW e, Stays(e), NEW v \in Props, v \in Claims(e.tx),
           new.unique[v] # NoEntry
    PROVE  new.unique[v] = prev.unique[v]
<1> SUFFICES ASSUME new.unique[v] # prev.unique[v] PROVE FALSE
  OBVIOUS
<1>1. PICK t \in block : v \in Claims(t)
  BY DEF PoolInv, BlockInv, ClaimedInBlock
<1>2. t \in Tx /\ e \in pool
  BY DEF PoolInv, PoolType, Stays
<1>3. e \in Conflicts(t)
  BY <1>1, <1>2, ClaimedOnce DEF PoolInv
<1> QED
  BY <1>3 DEF Stays, Gone

\* An update that stays finds its masternode, with the operator key it was accepted for.
LEMMA StaysUpdated ==
    ASSUME PoolInv, phase # "crashed", NEW e, Stays(e), e.tx.kind \in Update
    PROVE  /\ e.tx.id \in Nodes /\ HasMN(prev, e.tx.id) /\ HasMN(new, e.tx.id)
           /\ new.mns[e.tx.id].op = prev.mns[e.tx.id].op
<1> DEFINE id == e.tx.id
<1>1. /\ e \in pool /\ e.tx \notin excused /\ e.tx \in Tx /\ id \in Nodes
      /\ (e.tx.kind = "serv" \/ e.tx.kind \in Keyed)
  BY TxsType, TxTypes DEF PoolInv, Stays, Update, Keyed
<1>2. HasMN(prev, id)
  BY <1>1 DEF PoolInv, ValidInv, CheckBefore, CheckProUpServTx, CheckProUpRevTx, Keyed
<1>3. ASSUME ~HasMN(new, id) PROVE FALSE
  <2>1. prev.mns[id].coll \notin utxo /\ tipList = prev
    BY <1>2, <1>3 DEF Stays
  <2>2. prev.mns[id].coll \in Spent
    BY <1>1, <1>2, <2>1 DEF PoolInv, BlockInv, Before
  <2>3. PICK t \in block : t.kind = "spend" /\ t.coll = prev.mns[id].coll
    BY <2>2 DEF Spent
  <2>4. e \in Conflicts(t)
    BY <1>1, <2>1, <2>3 DEF Conflicts
  <2> QED
    BY <2>4 DEF Stays, Gone
<1>4. ASSUME new.mns[id].op # prev.mns[id].op PROVE FALSE
  <2>1. PICK t \in block : t.kind \in Keyed /\ t.id = id /\ new.mns[id].op = t.op
    BY <1>1, <1>2, <1>3, <1>4 DEF PoolInv, BlockInv, ChangedInBlock, KeyFromBlock
  <2>2. e \in Refs(t.id)
    BY <1>1, <2>1 DEF Refs
  <2>3. e.validFor = {t.op}
    BY SMT, <1>1, <2>1, <2>2 DEF Stays, Gone, Conflicts, Keyed
  <2>4. CASE e.tx.kind = "serv"
    BY <1>1, <2>3, <2>4 DEF PoolInv, EntryInv
  <2>5. CASE e.tx.kind \in Keyed
    <3>1. e.validFor = {prev.mns[id].op}
      BY <1>1, <2>5 DEF PoolInv, ValidInv
    <3>2. t.op = prev.mns[id].op
      BY <2>3, <3>1
    <3> QED
      BY <1>4, <2>1, <3>2
  <2> QED
    BY <1>1, <2>4, <2>5
<1> QED
  BY <1>1, <1>2, <1>3, <1>4

LEMMA StaysValid ==
    ASSUME PoolInv, phase # "crashed", prev' = new, utxo' = utxo, block' = {}, NEW e, Stays(e)
    PROVE  CheckBefore(e.tx)'
<1> DEFINE tx == e.tx
<1>1. e \in pool /\ tx \in Tx /\ tx \notin excused /\ CheckBefore(tx)
  BY TxsType DEF PoolInv, Stays, ValidInv
<1>2. Before' = utxo
  BY DEF Before, Spent
<1>3. new \in List /\ UniqueMatches(new) /\ prev \in List /\ UniqueMatches(prev)
  BY DEF PoolInv, IInv, TypeOK
<1>4. \A v \in Claims(tx) \ {Null} : v \in Props /\ (new.unique[v] # NoEntry => new.unique[v] = prev.unique[v])
  <2>1. \A v \in Claims(tx) \ {Null} : v \in Props
    BY <1>1, ClaimTypes DEF Claims, Props
  <2> QED
    BY <2>1, StaysUntaken
<1>5. CASE tx.kind = "reg"
  <2>1. tx.coll \in utxo
    BY <1>5 DEF Stays
  <2>2. tx.addr \in Claims(tx) /\ tx.owner \in Claims(tx) /\ tx.op \in Claims(tx)
    BY <1>5 DEF Claims, AddrOf, OwnerOf, OpOf
  <2>3. ~HasUniqueProperty(new, tx.owner) /\ ~HasUniqueProperty(new, tx.op)
    BY <1>1, <1>4, <1>5, <2>2 DEF CheckBefore, HasUniqueProperty
  <2>4. ASSUME HasUniqueProperty(new, tx.addr) PROVE new.mns[new.unique[tx.addr].mn].coll = tx.coll
    <3>1. /\ tx.addr # Null /\ new.unique[tx.addr] # NoEntry /\ tx.addr \in Props
          /\ new.unique[tx.addr] = prev.unique[tx.addr]
      BY <1>4, <2>2, <2>4 DEF HasUniqueProperty
    <3>2. PICK id \in Nodes : id = new.unique[tx.addr].mn /\ HasMN(new, id)
      BY <1>3, <3>1, Owned
    <3>3. HasMN(prev, id)
      BY <1>3, <3>1, <3>2, Owned
    <3>4. prev.mns[id].coll = tx.coll
      BY <1>1, <1>5, <3>1, <3>2 DEF CheckBefore, HasUniqueProperty
    <3>5. new.mns[id].coll = prev.mns[id].coll
      BY <3>2, <3>3 DEF PoolInv, BlockInv, ChangedInBlock
    <3> QED
      BY <3>2, <3>4, <3>5
  <2> QED
    BY <1>2, <1>5, <2>1, <2>3, <2>4 DEF CheckBefore, Signed
<1>6. ASSUME NEW v, v \in Claims(tx), NEW id, ~OwnedByOther(prev, v, id) PROVE ~OwnedByOther(new, v, id)
  BY <1>4, <1>6 DEF OwnedByOther, HasUniqueProperty
<1>7. ASSUME tx.kind \in Update
      PROVE  HasMN(new, tx.id) /\ new.mns[tx.id].op = prev.mns[tx.id].op
  BY <1>7, StaysUpdated
<1>8. CASE tx.kind = "serv"
  <2>1. tx.kind \in Update /\ tx.addr \in Claims(tx)
    BY <1>8 DEF Update, Claims, AddrOf
  <2> QED
    BY <1>1, <1>6, <1>7, <1>8, <2>1 DEF CheckBefore, CheckProUpServTx, Signed
<1>9. CASE tx.kind = "upreg"
  <2>1. tx.kind \in Update /\ tx.op \in Claims(tx)
    BY <1>9 DEF Update, Claims, OpOf
  <2> QED
    BY <1>1, <1>6, <1>7, <1>9, <2>1 DEF CheckBefore, Signed
<1>10. CASE tx.kind = "rev"
  <2>1. tx.kind \in Update
    BY <1>10 DEF Update
  <2> QED
    BY <1>1, <1>7, <1>10, <2>1 DEF CheckBefore, CheckProUpRevTx, Signed
<1>11. CASE tx.kind = "spend"
  <2>1. tx.coll \in utxo
    <3> SUFFICES ASSUME tx.coll \notin utxo PROVE FALSE
      OBVIOUS
    <3>1. tx.coll \in Spent
      BY <1>1, <1>11 DEF CheckBefore, Before
    <3>2. PICK t \in block : t.kind = "spend" /\ t.coll = tx.coll
      BY <3>1 DEF Spent
    <3>3. t \in Tx
      BY DEF PoolInv, PoolType
    <3>4. t = Spend(t.coll) /\ tx = Spend(tx.coll)
      BY <1>1, <1>11, <3>2, <3>3, TxTypes
    <3>5. t = tx
      BY <3>2, <3>4
    <3> QED
      BY <3>5 DEF Stays, Gone
  <2> QED
    BY <1>2, <1>11, <2>1 DEF CheckBefore, Signed
<1> QED
  BY <1>1, <1>5, <1>8, <1>9, <1>10, <1>11, TxTypes

LEMMA ConnectTipInv ==
    ASSUME PoolInv, ConnectTip
    PROVE  PoolInv'
<1>1. /\ RemoveUnchecked(Gone) /\ block' = {} /\ own' = TRUE /\ ConnectBlock /\ ~fromMempool'
      /\ excused' = {tx \in {e.tx : e \in pool \ Gone} :
                         \/ tx \in excused
                         \/ tx.kind = "reg" /\ tx.coll \notin utxo
                         \/ tx.kind \in Update /\ HasMN(prev, tx.id) /\ ~HasMN(new, tx.id)
                            /\ (prev.mns[tx.id].coll \in utxo \/ tipList # prev)}
  BY DEF ConnectTip, Gone
<1>2. /\ phase # "crashed" /\ prev' = new /\ new' = new /\ utxo' = utxo /\ registered' = registered
      /\ claimed' = {} /\ phase' = "txs"
  BY <1>1 DEF ConnectBlock
<1>3. IInv'
  BY <1>1, NextIInv DEF PoolInv, Next
<1>4. Gone \in SUBSET pool
  BY DEF Gone, Conflicts
<1>5. /\ pool' = pool \ Gone /\ Txs' = Txs \ {e.tx : e \in Gone}
      /\ IndexInv' /\ EntryInv'
      /\ byAddr' \in [Addrs \cup {Null} -> Tx \cup {NoTx}] /\ byOwner' \in [Owners -> Tx \cup {NoTx}]
      /\ byOp' \in [Operators -> Tx \cup {NoTx}] /\ byColl' \in [Collaterals -> Tx \cup {NoTx}]
  BY <1>1, <1>4, RemoveUncheckedInv DEF PoolInv
<1>6. Txs' = {e.tx : e \in pool \ Gone}
  BY <1>5 DEF Txs
<1>7. PoolType'
  BY <1>1, <1>5, <1>6 DEF PoolInv, PoolType
<1>8. \A e \in pool' : e \in pool /\ (e.tx \notin excused' => Stays(e))
  BY <1>1, <1>5 DEF Stays
<1>9. RegInv'
  BY <1>2, <1>6 DEF PoolInv, RegInv, Gone, Txs
<1>10. \A e \in pool' : e.tx \notin excused' /\ e.tx.kind \in Keyed =>
           e.tx.id \in Nodes /\ new.mns[e.tx.id].op = prev.mns[e.tx.id].op
  BY <1>2, <1>8, StaysUpdated DEF Update, Keyed
<1>11. ValidInv'
  <2> SUFFICES ASSUME NEW e \in pool', e.tx \notin excused'
               PROVE  CheckBefore(e.tx)' /\ (e.tx.kind \in Keyed => e.validFor = {new.mns[e.tx.id].op})
    BY <1>2 DEF ValidInv
  <2>1. CheckBefore(e.tx)'
    BY <1>1, <1>2, <1>8, StaysValid
  <2>2. ASSUME e.tx.kind \in Keyed PROVE e.validFor = {new.mns[e.tx.id].op}
    <3>1. e.validFor = {prev.mns[e.tx.id].op}
      BY <1>8, <2>2 DEF PoolInv, ValidInv, Stays
    <3> QED
      BY <1>10, <2>2, <3>1
  <2> QED
    BY <2>1, <2>2
<1>12. KeyInv'
  <2>1. ASSUME NEW id \in Nodes, NEW t \in Txs' \ excused', Changing(t, id)'
        PROVE  t \in Txs \ excused /\ Changing(t, id)
    <3>1. PICK e \in pool' : e.tx = t
      BY <2>1 DEF Txs
    <3>2. t.kind \in Keyed /\ t.id = id /\ t.op # new.mns[id].op
      BY <1>2, <2>1 DEF Changing
    <3>3. new.mns[id].op = prev.mns[id].op
      BY <1>10, <2>1, <3>1, <3>2
    <3>4. t \in Txs \ excused
      BY <1>8, <2>1, <3>1 DEF Stays, Txs
    <3> QED
      BY <3>2, <3>3, <3>4 DEF Changing
  <2> QED
    BY <2>1 DEF PoolInv, KeyInv
<1>13. ClaimedInBlock' /\ ChangedInBlock'
  BY <1>2 DEF ClaimedInBlock, ChangedInBlock
<1>14. \A id \in Nodes : HasMN(prev', id) => prev'.mns[id].coll \in Before'
  BY <1>2 DEF PoolInv, IInv, CollateralsUnspent, Before
<1>15. BlockInv'
  BY <1>1, <1>2, <1>13, <1>14 DEF BlockInv
<1> QED
  BY <1>3, <1>5, <1>7, <1>9, <1>11, <1>12, <1>15 DEF PoolInv

LEMMA InitPoolInv == PoolInit => PoolInv
<1> SUFFICES ASSUME PoolInit PROVE PoolInv
  OBVIOUS
<1>1. /\ Init /\ ~fromMempool /\ pool = {} /\ block = {} /\ own = TRUE /\ excused = {}
      /\ byAddr = [a \in Addrs \cup {Null} |-> NoTx] /\ byOwner = [o \in Owners |-> NoTx]
      /\ byOp = [k \in Operators |-> NoTx] /\ byColl = [c \in Collaterals |-> NoTx]
  BY DEF PoolInit
<1>2. IInv
  BY <1>1, InitIInv
<1>3. Txs = {}
  BY <1>1 DEF Txs
<1>4. PoolType /\ RegInv /\ EntryInv /\ ValidInv /\ KeyInv
  BY <1>1, <1>3 DEF PoolType, RegInv, EntryInv, ValidInv, KeyInv
<1>5. IndexInv
  BY <1>1, <1>3 DEF IndexInv, Indexes
<1>6. /\ prev = EmptyList /\ new = EmptyList /\ claimed = {} /\ phase = "txs"
      /\ \A id \in Nodes : ~HasMN(EmptyList, id)
  BY <1>1 DEF Init, EmptyList, HasMN
<1>7. ClaimedInBlock /\ ChangedInBlock
  BY <1>6 DEF ClaimedInBlock, ChangedInBlock
<1>8. BlockInv
  BY <1>1, <1>6, <1>7 DEF BlockInv
<1> QED
  BY <1>2, <1>4, <1>5, <1>8 DEF PoolInv

LEMMA NextPoolInv == PoolInv /\ [PoolNext]_allVars => PoolInv'
<1> SUFFICES ASSUME PoolInv, [PoolNext]_allVars PROVE PoolInv'
  OBVIOUS
<1>1. CASE UpdatedBlockTip
  BY <1>1, UnchangedInv DEF UpdatedBlockTip
<1>2. CASE UNCHANGED allVars
  BY <1>2, UnchangedInv DEF allVars
<1> QED
  BY <1>1, <1>2, AcceptInv, EvictInv, BlockTxInv, ConnectTipInv DEF PoolNext

LEMMA OwnProcess == PoolInv => OwnBlocksProcess
<1> SUFFICES ASSUME PoolInv, own PROVE OwnBlocksProcess
  BY DEF OwnBlocksProcess
<1>1. phase # "crashed" /\ block \subseteq Txs /\ block \subseteq Tx
  BY DEF PoolInv, BlockInv, PoolType
<1>2. /\ new.bad = {} /\ new \in List /\ UniqueMatches(new) /\ prev \in List /\ UniqueMatches(prev)
  BY <1>1 DEF PoolInv, IInv, TypeOK
<1> SUFFICES ASSUME phase = "txs", NEW tx \in Txs \ block, Check(tx), Refused(tx)
             PROVE  tx.kind \in Update
                    /\ \E reg \in block : reg.kind = "reg" /\ reg.coll = prev.mns[tx.id].coll
  BY <1>2 DEF OwnBlocksProcess
<1>3. PICK e \in pool : e.tx = tx
  BY DEF Txs
<1>4. tx \in Tx
  BY TxsType DEF PoolInv
<1>5. ASSUME NEW v \in Claims(tx), v # Null, new.unique[v] # NoEntry
      PROVE  v \in Props /\ new.unique[v] = prev.unique[v]
  <2>1. v \in Props
    BY <1>4, <1>5, ClaimTypes DEF Claims, Props
  <2>2. ASSUME NEW t \in block, v \in Claims(t) PROVE FALSE
    BY <1>1, <1>3, <1>5, <2>1, <2>2, ClaimedOnce DEF PoolInv
  <2> QED
    BY <1>1, <1>5, <2>1, <2>2 DEF PoolInv, BlockInv, ClaimedInBlock
<1>6. ASSUME tx.kind = "reg", NEW v \in {tx.addr, tx.owner, tx.op},
             HasUniqueProperty(Replaced(new, tx.coll), v)
      PROVE  FALSE
  <2> DEFINE l == Replaced(new, tx.coll)
  <2>1. tx.coll \in Collaterals /\ v \in Claims(tx) /\ v # Null /\ l.unique[v] # NoEntry
    BY <1>4, <1>6, TxTypes DEF Claims, AddrOf, OwnerOf, OpOf, HasUniqueProperty
  <2>2. v \in Props
    BY <1>4, <2>1, ClaimTypes DEF Claims, Props
  <2>3. /\ l \in List /\ UniqueMatches(l) /\ l.unique[v] \in {new.unique[v], NoEntry}
        /\ \A id \in Nodes : l.mns[id] = Without(new, tx.coll, id)
    BY ZenonT(30), <1>2, <2>1, <2>2, ReplacedLemma
  <2> HIDE DEF l
  <2>4. l.unique[v] = new.unique[v] /\ new.unique[v] # NoEntry
    BY <2>1, <2>3
  <2>5. new.unique[v] = prev.unique[v]
    BY <1>5, <2>1, <2>4
  <2>6. HasUniqueProperty(prev, v)
    BY <2>1, <2>4, <2>5 DEF HasUniqueProperty
  <2>7. v = tx.addr /\ prev.mns[prev.unique[v].mn].coll = tx.coll
    BY <1>6, <2>6 DEF Check, CheckProRegTx
  <2>8. PICK id \in Nodes : id = l.unique[v].mn /\ HasMN(l, id)
    BY <2>1, <2>2, <2>3, Owned
  <2>9. HasMN(prev, id) /\ HasMN(new, id)
    BY <1>2, <2>2, <2>4, <2>5, <2>8, Owned
  <2>10. new.mns[id].coll = tx.coll
    <3>1. new.mns[id].coll = prev.mns[id].coll
      BY <1>1, <2>9 DEF PoolInv, BlockInv, ChangedInBlock
    <3> QED
      BY <2>4, <2>5, <2>7, <2>8, <3>1
  <2> QED
    BY <2>3, <2>8, <2>10 DEF Without, HasMN
<1>7. ASSUME tx.kind = "serv", OwnedByOther(new, tx.addr, tx.id) PROVE FALSE
  <2>1. tx.addr \in Claims(tx) /\ tx.addr # Null /\ new.unique[tx.addr] # NoEntry
    BY <1>7 DEF Claims, AddrOf, OwnedByOther, HasUniqueProperty
  <2>2. new.unique[tx.addr] = prev.unique[tx.addr]
    BY <1>5, <2>1
  <2> QED
    BY <1>7, <2>2 DEF Check, CheckProUpServTx, OwnedByOther, HasUniqueProperty
<1>8. tx.kind \in Update /\ ~HasMN(new, tx.id)
  BY <1>6, <1>7 DEF Refused
<1>9. tx.id \in Nodes /\ HasMN(prev, tx.id)
  BY <1>4, <1>8, TxTypes DEF Update, Check, CheckProUpServTx, CheckProUpRegTx, CheckProUpRevTx
<1>10. GoneInBlock(tx.id)
  BY <1>1, <1>8, <1>9 DEF PoolInv, BlockInv, ChangedInBlock
<1> QED
  BY <1>8, <1>10 DEF GoneInBlock, PoolInv, BlockInv

\* removeForBlock takes out of the mempool all that a block makes invalid, whoever mined
\* it, but for the transactions that the exceptions name: what is left passes
\* CheckSpecialTx on top of the block.
THEOREM MempoolStaysValid == PoolSpec => []PoolStaysValid
<1>1. PoolInv => PoolStaysValid
  <2> SUFFICES ASSUME PoolInv, Between, NEW tx \in Txs \ excused PROVE Check(tx)
    BY DEF PoolStaysValid
  <2>1. PICK e \in pool : e.tx = tx
    BY DEF Txs
  <2> QED
    BY <2>1, TxsType, CheckIsBefore DEF PoolInv, ValidInv
<1> QED
  BY <1>1, InitPoolInv, NextPoolInv, PTL DEF PoolSpec

\* A block made of the mempool's transactions, in whatever order, fails no assertion of
\* the list operations and is not refused by BuildNewListFromBlock, but for an update of a
\* masternode that the block has replaced.
THEOREM OwnBlocksAreProcessed == PoolSpec => []OwnBlocksProcess
  BY OwnProcess, InitPoolInv, NextPoolInv, PTL DEF PoolSpec

\* Seen without the mempool, its blocks are blocks of the masternode list's specification.
THEOREM MempoolImplementsList == PoolSpec => Spec
<1>1. PoolInit => Init
  BY DEF PoolInit
<1>2. ASSUME PoolInv, [PoolNext]_allVars PROVE [Next]_vars
  <2>1. ASSUME NEW tx \in Tx, BlockTx(tx) PROVE [Next]_vars
    BY <1>2, <2>1, BlockTxSteps
  <2> QED
    BY <1>2, <2>1 DEF PoolNext, AcceptToMemoryPool, Evict, ConnectTip, UpdatedBlockTip, Next, allVars
<1> QED
  BY <1>1, <1>2, InitPoolInv, NextPoolInv, PTL DEF PoolSpec, Spec

-----------------------------------------------------------------------------
\* What needs the cardinality of finite sets and induction.
INSTANCE FiniteSetTheorems
INSTANCE Sums

LEMMA OneKey == PoolInv => OneKeyChange
<1> SUFFICES ASSUME PoolInv, NEW id \in Nodes
             PROVE  LET changes == {e.tx : e \in Refs(id)}
                                     \cap {tx \in Txs : tx.kind # "serv" /\ tx.op # prev.mns[id].op}
                    IN  Cardinality(changes) <= 1 \/ changes \cap excused # {}
  BY DEF OneKeyChange
<1> DEFINE changes == {e.tx : e \in Refs(id)} \cap {tx \in Txs : tx.kind # "serv" /\ tx.op # prev.mns[id].op}
<1>1. \A t \in changes : t \in Txs /\ Changing(t, id)
  BY DEF Refs, Update, Changing, Keyed
<1>2. ASSUME changes \cap excused = {} PROVE Cardinality(changes) <= 1
  <2>1. \A t, u \in changes : t = u
    BY <1>1, <1>2 DEF PoolInv, KeyInv
  <2>2. changes = {} \/ \E t \in changes : changes = {t}
    BY ZenonT(30), <2>1
  <2> HIDE DEF changes
  <2>3. Cardinality(changes) = 0 \/ Cardinality(changes) = 1
    BY <2>2, FS_EmptySet, FS_Singleton
  <2> QED
    BY SMT, <2>3
<1> QED
  BY <1>2

\* Of a masternode's operator key the mempool never holds two changes, but for those
\* that came before UpdatedBlockTip told of the last block.
THEOREM OneKeyChangeInMempool == PoolSpec => []OneKeyChange
  BY OneKey, InitPoolInv, NextPoolInv, PTL DEF PoolSpec

\* ApplyDiff.  The recursion over the hashes first.
LEMMA LastIn ==
    ASSUME NEW S \in SUBSET Nodes, S # {}
    PROVE  Last(S) \in S
<1> DEFINE A == {T \in SUBSET S : T # {} => \E x \in T : \A y \in T : y <= x}
<1>1. IsFiniteSet(S) /\ S \subseteq Nat
  BY HashAssumption, FS_Subset
<1>2. {} \in A
  OBVIOUS
<1>3. ASSUME NEW T \in SUBSET S, NEW x \in S, T \in A, x \notin T PROVE T \cup {x} \in A
  <2>0. x <= x
    BY SMT, <1>1
  <2>1. CASE T = {}
    BY <2>0, <2>1
  <2>2. CASE T # {}
    <3>1. PICK m \in T : \A y \in T : y <= m
      BY <1>3, <2>2
    <3>2. CASE x <= m
      BY <3>1, <3>2
    <3>3. CASE ~(x <= m)
      <4>1. \A y \in T : y <= x
        BY SMT, <1>1, <3>1, <3>3
      <4> QED
        BY <2>0, <4>1
    <3> QED
      BY <3>2, <3>3
  <2> QED
    BY <2>1, <2>2
<1>4. S \in A
  <2> HIDE DEF A
  <2> QED
    BY <1>1, <1>2, <1>3, SetInduction
<1> QED
  BY <1>4 DEF Last

Applied(l, d, f, S) == IF S = {} THEN l ELSE ApplyTo(f[S \ {Last(S)}], d, Last(S))
IsApplied(l, d, ids, f) == f = [S \in SUBSET ids |-> Applied(l, d, f, S)]

LEMMA AppliedExists ==
    ASSUME NEW l, NEW d, NEW ids \in SUBSET Nodes
    PROVE  \E f : IsApplied(l, d, ids, f)
<1> DEFINE Up(n, f) == f = [S \in SUBSET ids |-> f[S]]
                         /\ \A S \in SUBSET ids : Cardinality(S) <= n => f[S] = Applied(l, d, f, S)
           N == {n \in Nat : \E f : Up(n, f)}
<1>0. IsFiniteSet(ids)
  BY HashAssumption, FS_Subset
<1>1. \A T \in SUBSET ids : IsFiniteSet(T) /\ Cardinality(T) \in Nat /\ Cardinality(T) <= Cardinality(ids)
  BY <1>0, FS_Subset, FS_CardinalityType
<1>2. 0 \in N
  <2> DEFINE f == [S \in SUBSET ids |-> l]
  <2>1. \A S \in SUBSET ids : Cardinality(S) <= 0 => S = {}
    BY SMT, <1>1, FS_EmptySet
  <2>2. Up(0, f)
    BY <2>1 DEF Applied
  <2> QED
    BY <2>2
<1>3. ASSUME NEW n \in N PROVE n + 1 \in N
  <2>1. PICK f : Up(n, f)
    BY <1>3
  <2> DEFINE h == [S \in SUBSET ids |-> IF Cardinality(S) <= n THEN f[S] ELSE Applied(l, d, f, S)]
  <2>2. ASSUME NEW S \in SUBSET ids, Cardinality(S) <= n + 1 PROVE h[S] = Applied(l, d, h, S)
    <3>1. h[S] = Applied(l, d, f, S)
      BY <2>1
    <3>2. ASSUME S # {} PROVE h[S \ {Last(S)}] = f[S \ {Last(S)}]
      <4>1. Last(S) \in S /\ S \ {Last(S)} \in SUBSET ids
        BY <3>2, LastIn
      <4>2. Cardinality(S \ {Last(S)}) = Cardinality(S) - 1
        BY <1>1, <4>1, FS_RemoveElement
      <4>3. Cardinality(S \ {Last(S)}) <= n
        BY SMT, <1>1, <1>3, <2>2, <4>2
      <4> QED
        BY <4>1, <4>3
    <3> QED
      BY <3>1, <3>2 DEF Applied
  <2>3. h = [S \in SUBSET ids |-> h[S]]
    OBVIOUS
  <2>4. n + 1 \in Nat
    BY SMT, <1>3
  <2> HIDE DEF h
  <2>5. Up(n + 1, h)
    BY <2>2, <2>3
  <2> QED
    BY <2>4, <2>5
<1>4. N = Nat
  <2> HIDE DEF N
  <2>1. N \in SUBSET Nat
    BY DEF N
  <2> QED
    BY <1>2, <1>3, <2>1, Induction
<1>5. Cardinality(ids) \in Nat
  BY <1>0, FS_CardinalityType
<1>6. PICK f : Up(Cardinality(ids), f)
  BY <1>4, <1>5
<1>7. \A S \in SUBSET ids : f[S] = Applied(l, d, f, S)
  BY <1>1, <1>6
<1> QED
  BY <1>6, <1>7 DEF IsApplied

\* One set of the diff: if each masternode of it takes such a list to the next, all do.
LEMMA ApplyAll ==
    ASSUME NEW from, NEW to, NEW d, NEW ids \in SUBSET Nodes, NEW D, NEW l, Partly(from, to, D, l),
           \A k : \A T \in SUBSET ids, id \in ids :
               id \notin T /\ Partly(from, to, D \cup T, k)
                   => Partly(from, to, (D \cup T) \cup {id}, ApplyTo(k, d, id))
    PROVE  Partly(from, to, D \cup ids, ApplyInOrder(l, d, ids))
<1> DEFINE f == CHOOSE f : IsApplied(l, d, ids, f)
<1>1. IsApplied(l, d, ids, f)
  BY AppliedExists
<1>2. ApplyInOrder(l, d, ids) = f[ids]
  BY DEF ApplyInOrder, IsApplied, Applied
<1> HIDE DEF f
<1>3. \A S \in SUBSET ids : f[S] = Applied(l, d, f, S)
  BY <1>1 DEF IsApplied
<1> DEFINE N == {n \in Nat : \A S \in SUBSET ids : Cardinality(S) = n => Partly(from, to, D \cup S, f[S])}
<1>4. IsFiniteSet(ids) /\ \A S \in SUBSET ids : IsFiniteSet(S) /\ Cardinality(S) \in Nat
  BY HashAssumption, FS_Subset, FS_CardinalityType
<1>5. 0 \in N
  <2>1. \A S \in SUBSET ids : Cardinality(S) = 0 => S = {}
    BY <1>4, FS_EmptySet
  <2>2. f[{}] = l /\ D \cup {} = D
    BY <1>3 DEF Applied
  <2> QED
    BY <2>1, <2>2
<1>6. ASSUME NEW n \in N PROVE n + 1 \in N
  <2>1. n + 1 \in Nat /\ n + 1 # 0 /\ (n + 1) - 1 = n
    BY SMT, <1>6
  <2>2. ASSUME NEW S \in SUBSET ids, Cardinality(S) = n + 1 PROVE Partly(from, to, D \cup S, f[S])
    <3>1. S # {}
      BY <2>1, <2>2, FS_EmptySet
    <3>2. PICK id \in S : id = Last(S)
      BY <3>1, LastIn
    <3>3. Cardinality(S \ {id}) = n
      BY <1>4, <2>1, <2>2, <3>2, FS_RemoveElement
    <3>4. Partly(from, to, D \cup (S \ {id}), f[S \ {id}])
      BY <1>6, <3>3
    <3>5. f[S] = ApplyTo(f[S \ {id}], d, id)
      BY <1>3, <3>1, <3>2 DEF Applied
    <3>6. Partly(from, to, (D \cup (S \ {id})) \cup {id}, f[S])
      BY SMT, <3>4, <3>5
    <3>7. (D \cup (S \ {id})) \cup {id} = D \cup S
      OBVIOUS
    <3> QED
      BY <3>6, <3>7
  <2> QED
    BY <2>1, <2>2
<1>7. N = Nat
  <2> HIDE DEF N
  <2>1. N \in SUBSET Nat
    BY DEF N
  <2> QED
    BY <1>5, <1>6, <2>1, Induction
<1> QED
  BY <1>2, <1>4, <1>7

LEMMA DiffRebuilds ==
    ASSUME DiffInv
    PROVE  DiffRebuildsList
<1> SUFFICES ASSUME phase # "crashed" PROVE ApplyDiff(prev, Diff) = new
  BY DEF DiffRebuildsList, Diff
<1>0. IInv /\ Fresh
  BY DEF DiffInv
<1>1. prev \in List /\ new \in List /\ UniqueMatches(prev) /\ UniqueMatches(new) /\ prev.bad = {} /\ new.bad = {}
  BY <1>0 DEF IInv, TypeOK
<1> DEFINE R == Diff.removed
           A == Diff.added
           U == Diff.updated
           l1 == ApplyInOrder(prev, Diff, R)
           l2 == ApplyInOrder(l1, Diff, A)
           l3 == ApplyInOrder(l2, Diff, U)
<1>2. R \subseteq Nodes /\ A \subseteq Nodes /\ U \subseteq Nodes /\ R \cap A = {} /\ R \cap U = {} /\ A \cap U = {}
  BY DiffSets
<1>3. Partly(prev, new, {}, prev)
  BY <1>1 DEF Partly
<1>4. Partly(prev, new, {} \cup R, l1)
  <2>1. \A k : \A T \in SUBSET R, id \in R : id \notin T /\ Partly(prev, new, {} \cup T, k)
            => Partly(prev, new, ({} \cup T) \cup {id}, ApplyTo(k, Diff, id))
    BY <1>0, ApplyRemoved
  <2> HIDE DEF R
  <2> QED
    BY <1>2, <1>3, <2>1, ApplyAll
<1>5. Partly(prev, new, ({} \cup R) \cup A, l2)
  <2>1. \A k : \A T \in SUBSET A, id \in A : id \notin T /\ Partly(prev, new, ({} \cup R) \cup T, k)
            => Partly(prev, new, (({} \cup R) \cup T) \cup {id}, ApplyTo(k, Diff, id))
    BY <1>0, <1>2, ApplyAdded
  <2> HIDE DEF R, A, l1
  <2> QED
    BY <1>2, <1>4, <2>1, ApplyAll
<1>6. Partly(prev, new, (({} \cup R) \cup A) \cup U, l3)
  <2>1. \A k : \A T \in SUBSET U, id \in U : id \notin T /\ Partly(prev, new, (({} \cup R) \cup A) \cup T, k)
            => Partly(prev, new, ((({} \cup R) \cup A) \cup T) \cup {id}, ApplyTo(k, Diff, id))
    BY <1>0, <1>2, ApplyUpdated
  <2> HIDE DEF R, A, U, l2
  <2> QED
    BY <1>2, <1>5, <2>1, ApplyAll
<1>7. \A id \in Nodes : id \notin R \cup A \cup U => prev.mns[id] = new.mns[id]
  BY DiffSets DEF HasMN
<1>8. l3 \in List /\ UniqueMatches(l3) /\ l3.bad = {} /\ \A id \in Nodes : l3.mns[id] = new.mns[id]
  BY <1>6, <1>7 DEF Partly
<1>9. ApplyDiff(prev, Diff) = l3
  BY DEF ApplyDiff
<1> HIDE DEF l3
<1>10. l3 = new
  BY <1>1, <1>8, SameList
<1> QED
  BY <1>9, <1>10

\* The list of every block, and every list on the way to it, is found again from the list
\* of the previous block and the difference that is stored (ApplyDiff, BuildDiff).
THEOREM DiffsRebuildLists == Spec => []DiffRebuildsList
<1>1. Init => DiffInv
  <2> SUFFICES ASSUME Init PROVE DiffInv
    OBVIOUS
  <2>1. IInv /\ new = prev
    BY InitIInv DEF Init
  <2>2. UniqueMatches(prev)
    BY <2>1 DEF IInv
  <2>3. Fresh
    BY <2>1, <2>2, OneOwner DEF Fresh
  <2> QED
    BY <2>1, <2>3 DEF DiffInv
<1>2. DiffInv /\ [Next]_vars => DiffInv'
  BY NextIInv, FreshNext DEF DiffInv
<1>3. DiffInv => DiffRebuildsList
  BY DiffRebuilds
<1> QED
  BY <1>1, <1>2, <1>3, PTL DEF Spec
=============================================================================
