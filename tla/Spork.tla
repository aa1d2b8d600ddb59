------------------------------- MODULE Spork --------------------------------
(***************************************************************************)
(* CSporkManager (spork.cpp) on several nodes.  A spork message carries a  *)
(* value signed by one spork key; a value is active when MinSporkKeys keys *)
(* have signed it.  Messages reach nodes in any order, late, and more than *)
(* once.  ProcessSpork, on the message thread, checks and stores under two *)
(* acquisitions of the lock; UpdateSpork, on an RPC thread, signs first    *)
(* and stores later.                                                       *)
(***************************************************************************)
EXTENDS Integers, FiniteSets

CONSTANTS
    Nodes, IDs, Values,
    SignerKeys,             \* every key that signs messages
    SporkKeys,              \* setSporkPubKeyIDs: the keys whose messages count
    MinSporkKeys,           \* nMinSporkKeys
    OwnKey,                 \* sporkPrivKey of each node, or NoKey
    Reconsider,             \* SPORK_12_RECONSIDER_BLOCKS
    MaxBlocks, Timeout,     \* limits of ExecuteSpork: 960 blocks, 10 minutes
    Future,                 \* how far ahead a message may be signed: 2 hours
    NoKey, NoMsg,
    MaxTime, MaxSent        \* bounds: the clock, messages signed

\* SetMinSporkKeys accepts only a majority of the keys.
ASSUME SporkAssumption ==
    /\ IsFiniteSet(SporkKeys) /\ SporkKeys \subseteq SignerKeys
    /\ MinSporkKeys \in Nat /\ 2 * MinSporkKeys > Cardinality(SporkKeys)
    /\ OwnKey \in [Nodes -> SporkKeys \cup {NoKey}] /\ NoKey \notin SignerKeys
    /\ Values \subseteq Int /\ MaxBlocks \in Nat /\ Timeout \in Nat /\ Future \in Nat /\ MaxTime \in Nat

Messages == [id : IDs, value : Values, time : 0..MaxTime, signer : SignerKeys]

ASSUME NoMsgAssumption == NoMsg \notin Messages

VARIABLES
    disk,           \* sporks.dat of each node
    active,         \* mapSporksActive of each node
    byHash,         \* mapSporksByHash of each node
    handling,       \* the message ProcessSpork has checked and not yet stored
    updating,       \* the message UpdateSpork has signed and not yet stored
    executed,       \* nTimeExecuted of each node
    sent,           \* every message ever signed
    clock           \* GetAdjustedTime() of the nodes

vars == <<disk, active, byHash, handling, updating, executed, sent, clock>>

SporkMessage(id, v, t, k) == [id |-> id, value |-> v, time |-> t, signer |-> k]
Empty == [id \in IDs |-> [k \in SignerKeys |-> NoMsg]]

-----------------------------------------------------------------------------
\* In a node's map a: the keys whose stored message has value v.
Voters(a, id, v) == {k \in SignerKeys : a[id][k] # NoMsg /\ a[id][k].value = v}

\* Seeded fault: half of the spork keys are enough.
SporkValueIsActiveHalf(a, id, v) == 2 * Cardinality(Voters(a, id, v)) >= Cardinality(SporkKeys)

SporkValueIsActive(a, id, v) == Cardinality(Voters(a, id, v)) >= MinSporkKeys

\* Both maps get the message.
Store(n, m) ==
    /\ active' = [active EXCEPT ![n][m.id][m.signer] = m]
    /\ byHash' = [byHash EXCEPT ![n] = @ \cup {m}]

\* ExecuteSpork, on the value active once m is stored: ReprocessBlocks, not too often.
\* The code reads the value under a third acquisition of the lock; here that is part of
\* the store, as only nTimeExecuted depends on it.
ExecuteSpork(n, m) ==
    LET runs == \E v \in Values :
                  /\ m.id = Reconsider /\ SporkValueIsActive(active'[n], m.id, v)
                  /\ v > 0 /\ v <= MaxBlocks /\ clock - executed[n] >= Timeout
    IN  executed' = IF runs THEN [executed EXCEPT ![n] = clock] ELSE executed

\* Seeded fault: the message is not compared with the stored one.
AcceptedOld(n, m) == m.time <= clock + Future /\ m.signer \in SporkKeys

\* What ProcessSpork asks of a message before it stores it.
Accepted(n, m) ==
    /\ m.time <= clock + Future /\ m.signer \in SporkKeys
    /\ active[n][m.id][m.signer] # NoMsg => active[n][m.id][m.signer].time < m.time

\* ProcessSpork up to the first release of the lock.
ProcessSpork(n, m) ==
    /\ handling[n] = NoMsg /\ m \in sent
    /\ Accepted(n, m)
    /\ handling' = [handling EXCEPT ![n] = m]
    /\ UNCHANGED <<disk, active, byHash, updating, executed, sent, clock>>

\* Seeded fault: the message can not be looked up by its hash.
StoreSporkUnindexed(n) ==
    LET m == handling[n]
    IN  /\ m # NoMsg
        /\ active' = [active EXCEPT ![n][m.id][m.signer] = m] /\ UNCHANGED byHash
        /\ handling' = [handling EXCEPT ![n] = NoMsg]
        /\ ExecuteSpork(n, m)
        /\ UNCHANGED <<disk, updating, sent, clock>>

\* ProcessSpork from the second acquisition on.
StoreSpork(n) ==
    LET m == handling[n]
    IN  /\ m # NoMsg
        /\ Store(n, m)
        /\ handling' = [handling EXCEPT ![n] = NoMsg]
        /\ ExecuteSpork(n, m)
        /\ UNCHANGED <<disk, updating, sent, clock>>

\* The bound on messages, those signed and not yet stored included.
MaySign == Cardinality(sent) + Cardinality({n \in Nodes : updating[n] # NoMsg}) < MaxSent

\* UpdateSpork signs with the node's own key and announces the message.
SignUpdate(n, id, v) ==
    LET m == SporkMessage(id, v, clock, OwnKey[n])
    IN  /\ OwnKey[n] # NoKey /\ updating[n] = NoMsg
        /\ MaySign
        /\ updating' = [updating EXCEPT ![n] = m]
        /\ UNCHANGED <<disk, active, byHash, handling, executed, sent, clock>>

\* Seeded fault: the node keeps the message under the time of storing, not of signing.
StoreUpdateLate(n) ==
    LET m == updating[n]
    IN  /\ m # NoMsg
        /\ Store(n, [m EXCEPT !.time = clock])
        /\ updating' = [updating EXCEPT ![n] = NoMsg]
        /\ sent' = sent \cup {m}
        /\ UNCHANGED <<disk, handling, executed, clock>>

\* The peers can fetch it once it is stored.
StoreUpdate(n) ==
    LET m == updating[n]
    IN  /\ m # NoMsg
        /\ Store(n, m)
        /\ updating' = [updating EXCEPT ![n] = NoMsg]
        /\ sent' = sent \cup {m}
        /\ UNCHANGED <<disk, handling, executed, clock>>

\* The holder of a key signs on a node outside the model, by that node's clock.
SignElsewhere(k, id, v, t) ==
    /\ \A n \in Nodes : OwnKey[n] # k
    /\ MaySign
    /\ sent' = sent \cup {SporkMessage(id, v, t, k)}
    /\ UNCHANGED <<disk, active, byHash, handling, updating, executed, clock>>

\* PrepareShutdown dumps both maps, the next start loads them, and CheckAndRemove finds
\* nothing to remove under the same spork keys.
Restart(n) ==
    /\ handling[n] = NoMsg /\ updating[n] = NoMsg
    /\ disk' = [disk EXCEPT ![n] = [active |-> active[n], byHash |-> byHash[n]]]
    /\ executed' = [executed EXCEPT ![n] = -Timeout]
    /\ UNCHANGED <<active, byHash, handling, updating, sent, clock>>

\* After a crash the node loads what the last clean shutdown dumped.
Crash(n) ==
    /\ active' = [active EXCEPT ![n] = disk[n].active]
    /\ byHash' = [byHash EXCEPT ![n] = disk[n].byHash]
    /\ handling' = [handling EXCEPT ![n] = NoMsg] /\ updating' = [updating EXCEPT ![n] = NoMsg]
    /\ executed' = [executed EXCEPT ![n] = -Timeout]
    /\ UNCHANGED <<disk, sent, clock>>

Tick ==
    /\ clock < MaxTime /\ clock' = clock + 1
    /\ UNCHANGED <<disk, active, byHash, handling, updating, executed, sent>>

Init ==
    /\ disk = [n \in Nodes |-> [active |-> Empty, byHash |-> {}]]
    /\ active = [n \in Nodes |-> Empty] /\ byHash = [n \in Nodes |-> {}]
    /\ handling = [n \in Nodes |-> NoMsg] /\ updating = [n \in Nodes |-> NoMsg]
    /\ executed = [n \in Nodes |-> -Timeout]
    /\ sent = {} /\ clock = 0

Next ==
    \/ \E n \in Nodes, m \in sent : ProcessSpork(n, m)
    \/ \E n \in Nodes : StoreSpork(n)
    \/ \E n \in Nodes, id \in IDs, v \in Values : SignUpdate(n, id, v)
    \/ \E n \in Nodes : StoreUpdate(n)
    \/ \E k \in SignerKeys, id \in IDs, v \in Values, t \in 0..MaxTime : SignElsewhere(k, id, v, t)
    \/ \E n \in Nodes : Crash(n) \/ Restart(n)
    \/ Tick

Spec == Init /\ [][Next]_vars

-----------------------------------------------------------------------------
TypeOK ==
    /\ disk \in [Nodes -> [active : [IDs -> [SignerKeys -> Messages \cup {NoMsg}]], byHash : SUBSET Messages]]
    /\ active \in [Nodes -> [IDs -> [SignerKeys -> Messages \cup {NoMsg}]]]
    /\ byHash \in [Nodes -> SUBSET Messages]
    /\ handling \in [Nodes -> Messages \cup {NoMsg}]
    /\ updating \in [Nodes -> Messages \cup {NoMsg}]
    /\ executed \in [Nodes -> Int]
    /\ sent \subseteq Messages
    /\ clock \in 0..MaxTime

\* "there is only one such value and we can stop here" (SporkValueIsActive): no two values
\* of a spork are active on a node, so the order of the signers in the map is irrelevant.
OneActiveValue ==
    \A n \in Nodes, id \in IDs, v, w \in Values :
        SporkValueIsActive(active[n], id, v) /\ SporkValueIsActive(active[n], id, w) => v = w

\* A peer that asks for an announced spork gets it: every active message is found by hash
\* (GetSporkByHash), and was really signed by the key it is stored under.
ActiveServed ==
    \A n \in Nodes, id \in IDs, k \in SignerKeys :
        LET m == active[n][id][k]
        IN  m # NoMsg => m \in byHash[n] /\ m.id = id /\ m.signer = k /\ m \in sent

\* The two-step ProcessSpork does not lose an update: while a node runs, the message of
\* another party's key is only replaced by one signed later.
NewestWins ==
    [][\A n \in Nodes, id \in IDs, k \in SignerKeys :
          LET old == active[n][id][k]
              new == active'[n][id][k]
          IN  old # NoMsg /\ new # old /\ k # OwnKey[n] /\ ~Crash(n)
                => new # NoMsg /\ new.time > old.time]_vars

\* Nodes that have nothing newer left to receive agree on the message of every key that
\* signed no two messages of the spork in one second, however the messages came in.
UpToDate(n, id, k) ==
    \A m \in sent : m.id = id /\ m.signer = k
        => active[n][id][k] # NoMsg /\ active[n][id][k].time >= m.time
SignedApart(id, k) ==
    \A m, o \in sent : m.id = id /\ o.id = id /\ m.signer = k /\ o.signer = k /\ m.time = o.time => m = o
NodesAgree ==
    \A n, p \in Nodes, id \in IDs, k \in SignerKeys :
        SignedApart(id, k) /\ UpToDate(n, id, k) /\ UpToDate(p, id, k) => active[n][id][k] = active[p][id][k]
=============================================================================
