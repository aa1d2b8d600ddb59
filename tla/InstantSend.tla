---------------------------- MODULE InstantSend -----------------------------
(***************************************************************************)
(* InstantSend (instantx.cpp) on several nodes, with the parts of          *)
(* net_processing.cpp, validation.cpp and txmempool.cpp that feed it.      *)
(* Masternodes of a quorum vote to lock the inputs of a transaction; a     *)
(* node that holds Required votes for every input locks them and then      *)
(* refuses other transactions, in the mempool and in blocks, that spend    *)
(* one of them.  Votes may arrive before the transaction, late, twice or   *)
(* never; candidates time out, expire some blocks after their transaction  *)
(* was mined, and are lost in a crash.                                     *)
(*                                                                         *)
(* A node's state is a record, and the functions of the code that only     *)
(* touch it are operators from states to states.  SPORK_2 and SPORK_3 are  *)
(* on and the masternode list is synced throughout.                        *)
(***************************************************************************)
EXTENDS Integers, FiniteSets

CONSTANTS
    Node, Masternode, Tx, Outpoint,
    Inputs,                 \* the outpoints each transaction spends
    Quorum,                 \* the masternodes of rank SIGNATURES_TOTAL or better
    Required,               \* COutPointLock::SIGNATURES_REQUIRED
    Key,                    \* the masternode a node is (activeMasternodeInfo), or NoKey
    Faulty,                 \* masternodes that vote for conflicting transactions
    KeepLock,               \* nInstantSendKeepLock
    NoKey, NoTx, NoCandidate,
    MaxBlocks,              \* bound: the blocks on top of the first one
    MaxEvents               \* bound: time-outs, blocks, evictions and crashes in a run

ASSUME InstantSendAssumption ==
    /\ Inputs \in [Tx -> (SUBSET Outpoint) \ {{}}]
    /\ Quorum \in [Outpoint -> SUBSET Masternode]
    /\ \A o \in Outpoint : IsFiniteSet(Quorum[o]) /\ Cardinality(Quorum[o]) < 2 * Required
    /\ Required \in Nat \ {0} /\ KeepLock \in Nat /\ MaxBlocks \in Nat /\ MaxEvents \in Nat
    /\ Key \in [Node -> Masternode \cup {NoKey}] /\ NoKey \notin Masternode
    /\ NoTx \notin Tx

VARIABLES
    node,           \* the state of each node
    signed,         \* every vote signed so far
    locks,          \* <<t, o>>: some node has at some time locked o for t
    events          \* how many of MaxEvents have happened

vars == <<node, signed, locks, events>>

-----------------------------------------------------------------------------
Vote == {v \in [tx : Tx, out : Outpoint, mn : Masternode] :
            v.out \in Inputs[v.tx] /\ v.mn \in Quorum[v.out]}
VoteOf(t, o, m) == [tx |-> t, out |-> o, mn |-> m]

Unknown == -2           \* not in mapTxLockVotes
Unconfirmed == -1       \* nConfirmedHeight of what is not in a block
FirstHeight == KeepLock + 1
Heights == {Unconfirmed, 0} \cup FirstHeight..(FirstHeight + MaxBlocks)

\* CTxLockCandidate: has it a request; are its outpoint locks there; the votes and the
\* attacked flag of each outpoint lock; nConfirmedHeight; its age: 0 while votes are
\* accepted, 1 after INSTANTSEND_LOCK_TIMEOUT_SECONDS, 2 after
\* INSTANTSEND_FAILED_TIMEOUT_SECONDS.
Candidate == [req : BOOLEAN, full : BOOLEAN, votes : [Outpoint -> SUBSET Masternode],
              attacked : SUBSET Outpoint, height : Heights, age : 0..2]

ASSUME NoCandidateAssumption == NoCandidate \notin Candidate

EmptyCandidate == [req |-> FALSE, full |-> FALSE, votes |-> [o \in Outpoint |-> {}],
                   attacked |-> {}, height |-> Unconfirmed, age |-> 0]
NewCandidate == [EmptyCandidate EXCEPT !.req = TRUE, !.full = TRUE]

\* The transaction the message thread has passed to ProcessTxLockRequest and not yet to
\* AcceptToMemoryPool, and as what: "ix", "auto" (a plain transaction that may be locked
\* automatically) or "plain".
Handled == [tx : Tx, as : {"ix", "auto", "plain"}]
Idle == [tx |-> NoTx, as |-> "plain"]

NodeState == [
    cand : [Tx -> Candidate \cup {NoCandidate}],        \* mapTxLockCandidates
    known : [Vote -> {Unknown} \cup Heights],           \* mapTxLockVotes
    orphan : SUBSET Vote,                               \* mapTxLockVotesOrphan
    voted : [Outpoint -> SUBSET Tx],                    \* mapVotedOutpoints
    locked : [Outpoint -> Tx \cup {NoTx}],              \* mapLockedOutpoints
    forgot : SUBSET Outpoint,   \* history: their entry in mapVotedOutpoints was erased
                                \* although a candidate that is kept has votes for them
    accepted : SUBSET Tx, rejected : SUBSET Tx,         \* mapLockRequestAccepted, -Rejected
    pool : SUBSET Tx,                                   \* mempool
    height : FirstHeight..(FirstHeight + MaxBlocks),    \* chainActive.Height()
    mined : [Tx -> {Unconfirmed} \cup FirstHeight..(FirstHeight + MaxBlocks)],
    cached : Heights,                                   \* nCachedBlockHeight
    handling : Handled \cup {Idle}]

\* The maps of a CInstantSend with nothing in it.
Cleared(s) == [s EXCEPT !.cand = [t \in Tx |-> NoCandidate], !.known = [v \in Vote |-> Unknown],
                        !.orphan = {}, !.voted = [o \in Outpoint |-> {}], !.forgot = {},
                        !.locked = [o \in Outpoint |-> NoTx], !.accepted = {}, !.rejected = {}]

Start == [cand |-> [t \in Tx |-> NoCandidate], known |-> [v \in Vote |-> Unknown],
          orphan |-> {}, voted |-> [o \in Outpoint |-> {}], locked |-> [o \in Outpoint |-> NoTx],
          forgot |-> {}, accepted |-> {}, rejected |-> {}, pool |-> {}, height |-> FirstHeight,
          mined |-> [t \in Tx |-> Unconfirmed], cached |-> FirstHeight, handling |-> Idle]

-----------------------------------------------------------------------------
(* What the functions of instantx.cpp read of a node's state. *)

Mined(s, t) == s.mined[t] # Unconfirmed
Spent(s, o) == \E t \in Tx : Mined(s, t) /\ o \in Inputs[t]

Exists(s, t) == s.cand[t] # NoCandidate
HasRequest(s, t) == Exists(s, t) /\ s.cand[t].req
HasMasternodeVoted(s, t, o, m) == Exists(s, t) /\ s.cand[t].full /\ m \in s.cand[t].votes[o]

\* CTxLockRequest::IsValid, of which the unspent inputs are modelled.
RequestValid(s, t) == \A o \in Inputs[t] : ~Spent(s, o)

\* Seeded fault: one vote less than required is enough.
IsAllOutPointsReadyEarly(c, t) ==
    c.full /\ \A o \in Inputs[t] : o \notin c.attacked /\ Cardinality(c.votes[o]) + 1 >= Required

IsAllOutPointsReady(c, t) ==
    c.full /\ \A o \in Inputs[t] : o \notin c.attacked /\ Cardinality(c.votes[o]) >= Required

IsLocked(s, t) == Exists(s, t) /\ s.cand[t].full /\ \A o \in Inputs[t] : s.locked[o] = t

IsExpired(s, h) == h # Unconfirmed /\ s.cached - h > KeepLock

-----------------------------------------------------------------------------
(* The functions that change it. *)

\* Seeded fault: the outpoints of an expired candidate stay in mapLockedOutpoints.
CheckAndRemoveStillLocked(s) ==
    LET gone == {t \in Tx : Exists(s, t) /\ IsExpired(s, s.cand[t].height)}
        freed == UNION {Inputs[t] : t \in {u \in gone : s.cand[u].full}}
    IN  [s EXCEPT !.cand = [t \in Tx |-> IF t \in gone THEN NoCandidate ELSE @[t]],
                  !.voted = [o \in Outpoint |-> IF o \in freed THEN {} ELSE @[o]]]

\* CheckAndRemove.  Votes for one transaction age with its candidate.
CheckAndRemove(s) ==
    LET gone == {t \in Tx : Exists(s, t) /\ IsExpired(s, s.cand[t].height)}
        freed == UNION {Inputs[t] : t \in {u \in gone : s.cand[u].full}}
        r == [s EXCEPT !.cand = [t \in Tx |-> IF t \in gone THEN NoCandidate ELSE @[t]],
                       !.locked = [o \in Outpoint |-> IF o \in freed THEN NoTx ELSE @[o]],
                       !.voted = [o \in Outpoint |-> IF o \in freed THEN {} ELSE @[o]],
                       !.forgot = @ \cup {o \in freed : \E t \in Tx \ gone :
                                            Exists(s, t) /\ s.cand[t].votes[o] # {}},
                       !.accepted = @ \ {t \in gone : s.cand[t].req},
                       !.rejected = @ \ {t \in gone : s.cand[t].req}]
        old(t, a) == ~Exists(s, t) \/ s.cand[t].age >= a
        timedOut == {v \in s.orphan : old(v.tx, 1)}
        failed == {v \in Vote : old(v.tx, 2) /\ ~IsLocked(r, v.tx)}
    IN  [r EXCEPT !.orphan = @ \ timedOut,
                  !.known = [v \in Vote |->
                        IF IsExpired(s, @[v]) \/ v \in timedOut \cup failed THEN Unknown ELSE @[v]]]

\* Seeded fault: a masternode's second vote for the outpoint is not noticed.
AddVotesTrusting(s, t, V) ==
    LET voters(o) == {v.mn : v \in {w \in V : w.out = o}}
    IN  [s EXCEPT !.cand[t].votes = [o \in Outpoint |-> @[o] \cup voters(o)],
                  !.voted = [o \in Outpoint |-> IF voters(o) # {} THEN @[o] \cup {t} ELSE @[o]]]

\* UpdateVotedOutpoints and AddVote, for votes V that are all for t.
AddVotes(s, t, V) ==
    LET voters(o) == {v.mn : v \in {w \in V : w.out = o}}
        clash(o) == {u \in s.voted[o] \ {t} : \E m \in voters(o) : HasMasternodeVoted(s, u, o, m)}
        attacked(u) == {o \in Outpoint : IF u = t THEN clash(o) # {} ELSE u \in clash(o)}
        votes(u) == [o \in Outpoint |-> s.cand[u].votes[o] \cup (IF u = t THEN voters(o) ELSE {})]
        noted(u) == [s.cand[u] EXCEPT !.votes = votes(u), !.attacked = s.cand[u].attacked \cup attacked(u)]
    IN  [s EXCEPT
            !.cand = [u \in Tx |-> IF Exists(s, u) THEN noted(u) ELSE @[u]],
            !.voted = [o \in Outpoint |-> IF voters(o) # {} THEN @[o] \cup {t} ELSE @[o]]]

\* ResolveConflicts, on a completed lock u of an input of t: drop both.
DropBoth(s, t, u) ==
    IF ~Exists(s, t) \/ ~Exists(s, u) THEN s
    ELSE LET r == CheckAndRemove([s EXCEPT !.cand[t].height = 0, !.cand[u].height = 0])
         IN  [r EXCEPT !.rejected = @ \cup {t, u}]

\* TryToFinalizeLockCandidate with ResolveConflicts and LockTransactionInputs.  The inputs
\* are looked at in the order of the transaction; the first one in conflict decides.
TryToFinalize(s, c, t) ==
    LET lockedByOther(o) == s.locked[o] \notin {t, NoTx}
        inPool(o) == \E u \in s.pool \ {t} : o \in Inputs[u]
        conflicts == {o \in Inputs[t] : lockedByOther(o) \/ inPool(o)}
        first == CHOOSE o \in conflicts : TRUE
    IN  IF ~IsAllOutPointsReady(c, t) \/ IsLocked(s, t) THEN s
        ELSE IF conflicts # {} THEN
             IF lockedByOther(first) THEN DropBoth(s, t, s.locked[first]) ELSE s
        ELSE IF ~Mined(s, t) /\ ~RequestValid(s, t) THEN s
        ELSE [s EXCEPT !.locked = [o \in Outpoint |->
                            IF o \in Inputs[t] /\ @[o] = NoTx THEN t ELSE @[o]]]

\* CreateTxLockCandidate, and whether it returns true.
CreateTxLockCandidate(s, t) ==
    IF ~RequestValid(s, t) THEN s
    ELSE IF ~Exists(s, t) THEN [s EXCEPT !.cand[t] = NewCandidate]
    ELSE IF ~s.cand[t].req THEN [s EXCEPT !.cand[t].req = TRUE, !.cand[t].full = (s.cand[t].age = 0)]
    ELSE s
Created(s, t) == RequestValid(s, t) /\ ~(Exists(s, t) /\ ~s.cand[t].req /\ s.cand[t].age > 0)

\* ProcessOrphanTxLockVotes, after the request for t: every other orphan vote is still
\* without a request.
ProcessOrphanTxLockVotes(s, t) ==
    LET V == {v \in s.orphan : v.tx = t /\ v.mn \notin s.cand[t].votes[v.out]}
    IN  IF s.cand[t].age = 0 THEN [AddVotes(s, t, V) EXCEPT !.orphan = @ \ V] ELSE s

\* Seeded fault: the votes that came before the request are left to the next vote.
ProcessTxLockRequestWaits(s, t) ==
    LET r == CreateTxLockCandidate(s, t)
    IN  IF Created(s, t) THEN ProcessOrphanTxLockVotes(r, t) ELSE r

ProcessTxLockRequest(s, t) ==
    LET r == CreateTxLockCandidate(s, t)
        p == ProcessOrphanTxLockVotes(r, t)
    IN  IF Created(s, t) THEN TryToFinalize(p, p.cand[t], t) ELSE r

\* SyncTransaction for each of T: now in the block of height h, or Unconfirmed.
SyncTransactions(s, T, h) ==
    LET counted(v) == v.tx \in T /\ HasMasternodeVoted(s, v.tx, v.out, v.mn) /\ s.known[v] # Unknown
        orphaned(v) == v.tx \in T /\ v \in s.orphan
    IN  [s EXCEPT !.cand = [t \in Tx |-> IF t \in T /\ Exists(s, t)
                                         THEN [@[t] EXCEPT !.height = h] ELSE @[t]],
                  !.known = [v \in Vote |-> IF counted(v) \/ orphaned(v) THEN h ELSE @[v]]]

-----------------------------------------------------------------------------
(* Mempool and blocks. *)

\* Seeded fault: completed locks are not looked at.
MayEnterUnlocked(s, t) ==
    /\ t \notin s.pool /\ ~Mined(s, t) /\ RequestValid(s, t)
    /\ \A u \in s.pool : Inputs[u] \cap Inputs[t] = {}

\* The checks of AcceptToMemoryPoolWorker.
MayEnter(s, t) ==
    /\ t \notin s.pool /\ ~Mined(s, t) /\ RequestValid(s, t)
    /\ \A o \in Inputs[t] : s.locked[o] \in {t, NoTx}
    /\ \A u \in s.pool : Inputs[u] \cap Inputs[t] = {}

AcceptToMemoryPool(s, t) == SyncTransactions([s EXCEPT !.pool = @ \cup {t}], {t}, Unconfirmed)

\* It fails for want of an input only: the transaction is kept as an orphan.
MissingInputs(s, t) ==
    /\ t \notin s.pool /\ ~Mined(s, t) /\ ~HasRequest(s, t) /\ ~RequestValid(s, t)
    /\ \A o \in Inputs[t] : s.locked[o] \in {t, NoTx}
    /\ \A u \in s.pool : Inputs[u] \cap Inputs[t] = {}

\* ConnectBlock's check of SPORK_3: no transaction that conflicts with a completed lock.
MayConnect(s, T) ==
    /\ \A t \in T : RequestValid(s, t) /\ \A o \in Inputs[t] : s.locked[o] \in {t, NoTx}
    /\ \A t, u \in T : t # u => Inputs[t] \cap Inputs[u] = {}

\* What conflicts with the block leaves the mempool and is notified first.
ConnectTip(s, T) ==
    LET out == {u \in s.pool \ T : \E t \in T : Inputs[u] \cap Inputs[t] # {}}
        r == [s EXCEPT !.pool = @ \ (T \cup out), !.height = @ + 1,
                       !.mined = [t \in Tx |-> IF t \in T THEN s.height + 1 ELSE @[t]]]
    IN  SyncTransactions(SyncTransactions(r, out, Unconfirmed), T, s.height + 1)

DisconnectTip(s) ==
    LET T == {t \in Tx : s.mined[t] = s.height}
        r == [s EXCEPT !.height = @ - 1, !.mined = [t \in Tx |-> IF t \in T THEN Unconfirmed ELSE @[t]]]
        back == {t \in T : MayEnter(r, t)}
    IN  SyncTransactions([r EXCEPT !.pool = @ \cup back], T, Unconfirmed)

-----------------------------------------------------------------------------
Init ==
    /\ node = [n \in Node |-> Start]
    /\ signed = {}
    /\ locks = {}
    /\ events = 0

\* A step of node n to the state s, which signs the votes V.
Become(n, s, V) ==
    /\ node' = [node EXCEPT ![n] = s]
    /\ signed' = signed \cup V
    /\ locks' = locks \cup {p \in Tx \X Outpoint : s.locked[p[2]] = p[1]}

\* Vote(txHash): the node's votes go into a copy of the candidate, into mapTxLockVotes and
\* mapVotedOutpoints; the candidate in the map does not get them.
OwnVotes(n, s, t) ==
    IF Key[n] = NoKey \/ ~Exists(s, t) \/ t \notin s.accepted \/ ~s.cand[t].full THEN {}
    ELSE {v \in Vote : /\ v.tx = t /\ v.mn = Key[n]
                       /\ ~\E u \in s.voted[v.out] : HasMasternodeVoted(s, u, v.out, v.mn)}
CastVotes(s, t, V) ==
    LET own(o) == {v.mn : v \in {w \in V : w.out = o}}
        r == [s EXCEPT !.known = [v \in Vote |-> IF v \in V /\ @[v] = Unknown THEN Unconfirmed ELSE @[v]],
                       !.voted = [o \in Outpoint |-> IF own(o) # {} THEN @[o] \cup {t} ELSE @[o]]]
        copy == [s.cand[t] EXCEPT !.votes = [o \in Outpoint |-> @[o] \cup own(o)]]
    IN  IF Exists(s, t) THEN TryToFinalize(r, copy, t) ELSE r

Quiet == UNCHANGED events
Event == events < MaxEvents /\ events' = events + 1

\* The message thread, "ix" or a transaction that may be locked automatically: first
\* ProcessTxLockRequest ...
ReceiveRequest(n, t, as) ==
    LET s == node[n]
        r == ProcessTxLockRequest(s, t)
    IN  /\ Quiet
        /\ s.handling = Idle
        /\ \/ /\ Created(s, t)
              /\ Become(n, [r EXCEPT !.handling = [tx |-> t, as |-> as]], {})
           \/ /\ ~Created(s, t) /\ as = "ix"
              /\ Become(n, r, {})
           \/ /\ ~Created(s, t) /\ as = "auto"
              /\ Become(n, [r EXCEPT !.handling = [tx |-> t, as |-> "plain"]], {})

\* ... then, under cs_main, AcceptToMemoryPool, AcceptLockRequest and Vote.
AcceptRequest(n) ==
    LET t == node[n].handling.tx
        s == [node[n] EXCEPT !.handling = Idle]
        p == AcceptToMemoryPool(s, t)
        a == [p EXCEPT !.accepted = @ \cup {t}]
        V == OwnVotes(n, a, t)
    IN  /\ Quiet
        /\ node[n].handling \in [tx : Tx, as : {"ix", "auto"}]
        /\ node[n].handling.as = "ix" => t \notin s.accepted \cup s.rejected
        /\ MayEnter(s, t)
        /\ Become(n, CastVotes(a, t, V), V)

\* ... or RejectLockRequest; a transaction that is no lock request is only refused.
RefuseRequest(n) ==
    LET t == node[n].handling.tx
        s == [node[n] EXCEPT !.handling = Idle]
        ix == node[n].handling.as = "ix"
        have == t \in s.accepted \cup s.rejected
    IN  /\ Quiet
        /\ node[n].handling # Idle
        /\ ix => have \/ ~MayEnter(s, t)
        /\ Become(n, IF ix /\ ~have /\ ~MissingInputs(s, t)
                     THEN [s EXCEPT !.rejected = @ \cup {t}] ELSE s, {})

\* A transaction that is no lock request enters the mempool.
AcceptPlain(n, t) ==
    LET s == [node[n] EXCEPT !.handling = Idle]
    IN  /\ Event
        /\ node[n].handling \in {Idle, [tx |-> t, as |-> "plain"]}
        /\ MayEnter(s, t)
        /\ Become(n, AcceptToMemoryPool(s, t), {})

\* CWalletTx::RelayWalletTransaction of the node's own transaction.
RelayWalletTransaction(n, t) ==
    LET s == node[n]
        p == IF t \in s.pool THEN s ELSE AcceptToMemoryPool(s, t)
        r == ProcessTxLockRequest(p, t)
    IN  /\ Event
        /\ t \in s.pool \/ MayEnter(s, t)
        /\ Become(n, IF Created(p, t) THEN [r EXCEPT !.accepted = @ \cup {t}]
                                      ELSE [r EXCEPT !.rejected = @ \cup {t}], {})

\* An honest masternode that is none of the nodes votes once for an outpoint.
MaySign(v) ==
    /\ v.mn \notin {Key[n] : n \in Node}
    /\ v.mn \in Faulty \/ \A w \in signed : w.mn = v.mn /\ w.out = v.out => w.tx = v.tx

\* ProcessMessage TXLOCKVOTE and ProcessNewTxLockVote.  A vote comes from whoever signed
\* it, at any time and as often as it likes.
ReceiveVote(n, v) ==
    LET s == [node[n] EXCEPT !.known[v] = Unconfirmed]
        t == v.tx
        r == AddVotes(s, t, {v})
    IN  /\ Quiet
        /\ node[n].handling = Idle /\ node[n].known[v] = Unknown
        /\ v \in signed \/ MaySign(v)
        /\ \/ /\ Spent(s, v.out)
              /\ Become(n, s, {v})
           \/ /\ ~Spent(s, v.out) /\ ~HasRequest(s, t)
              /\ Become(n, [s EXCEPT !.orphan = @ \cup {v},
                                     !.cand[t] = IF Exists(s, t) THEN @ ELSE EmptyCandidate], {v})
           \/ /\ ~Spent(s, v.out) /\ HasRequest(s, t) /\ s.cand[t].age > 0
              /\ Become(n, s, {v})
           \/ /\ ~Spent(s, v.out) /\ HasRequest(s, t) /\ s.cand[t].age = 0
              /\ Become(n, IF v.mn \in s.cand[t].votes[v.out] THEN r
                           ELSE TryToFinalize(r, r.cand[t], t), {v})

\* Time passes for a candidate and the votes for it.
Age(n, t) ==
    /\ Event
    /\ Exists(node[n], t) /\ node[n].cand[t].age < 2
    /\ Become(n, [node[n] EXCEPT !.cand[t].age = @ + 1], {})

\* DoMaintenance, on the scheduler's thread.
DoMaintenance(n) == Quiet /\ Become(n, CheckAndRemove(node[n]), {})

ConnectBlock(n, T) ==
    /\ Event
    /\ node[n].height < FirstHeight + MaxBlocks
    /\ MayConnect(node[n], T)
    /\ Become(n, ConnectTip(node[n], T), {})

DisconnectBlock(n) ==
    /\ Event
    /\ node[n].height > FirstHeight
    /\ Become(n, DisconnectTip(node[n]), {})

\* After cs_main is released: the height CheckAndRemove goes by.
UpdatedBlockTip(n) == Quiet /\ Become(n, [node[n] EXCEPT !.cached = node[n].height], {})

\* TrimToSize, and Expire, which leaves locked transactions alone.
Evict(n, t) ==
    /\ Event
    /\ t \in node[n].pool
    /\ Become(n, [node[n] EXCEPT !.pool = @ \ {t}], {})

\* The node stops without writing instantsend.dat and mempool.dat, and starts again; it
\* is told of the tip (InitializeCurrentBlockTip) before it is synced.
Crash(n) ==
    /\ Event
    /\ Become(n, [Cleared(node[n]) EXCEPT !.pool = {}, !.handling = Idle, !.cached = node[n].height], {})

Next == \E n \in Node :
    \/ \E t \in Tx, as \in {"ix", "auto"} : ReceiveRequest(n, t, as)
    \/ AcceptRequest(n) \/ RefuseRequest(n)
    \/ \E t \in Tx : AcceptPlain(n, t) \/ RelayWalletTransaction(n, t) \/ Age(n, t) \/ Evict(n, t)
    \/ \E v \in Vote : ReceiveVote(n, v)
    \/ \E T \in SUBSET Tx : ConnectBlock(n, T)
    \/ DisconnectBlock(n) \/ UpdatedBlockTip(n) \/ DoMaintenance(n) \/ Crash(n)

Spec == Init /\ [][Next]_vars

-----------------------------------------------------------------------------
TypeOK ==
    /\ node \in [Node -> NodeState]
    /\ signed \subseteq Vote
    /\ locks \subseteq Tx \X Outpoint
    /\ events \in 0..MaxEvents

Voters(t, o) == {m \in Quorum[o] : VoteOf(t, o, m) \in signed}

\* Two transactions that spend the same outpoint have both been locked, by whatever nodes
\* and at whatever times, only if 2 * Required - |Quorum| masternodes voted for both: votes
\* kept, copied, re-read after a crash or counted before their request never add up to a
\* lock of their own (instantx.cpp:501, TryToFinalizeLockCandidate).
DoubleLockNeedsDoubleVotes ==
    \A o \in Outpoint, t, u \in Tx : t # u /\ <<t, o>> \in locks /\ <<u, o>> \in locks =>
        Cardinality(Voters(t, o) \cap Voters(u, o)) >= 2 * Required - Cardinality(Quorum[o])

\* A completed lock keeps every other spender of its inputs out of mempool and chain,
\* whichever came first: lock, transaction, block or reorganisation
\* (instantx.cpp:577, validation.cpp:684, validation.cpp:2240).
LocksRespected ==
    \A n \in Node, o \in Outpoint : LET s == node[n] IN
        s.locked[o] # NoTx =>
            \A u \in Tx \ {s.locked[o]} : o \in Inputs[u] => u \notin s.pool /\ ~Mined(s, u)

\* mapVotedOutpoints names candidates that exist: Vote looks them up and uses what it
\* finds without a check (instantx.cpp:274).  And a lock has a candidate, with whose expiry
\* it goes (instantx.cpp:667, CheckAndRemove).
NothingOutlivesCandidate ==
    \A n \in Node, o \in Outpoint : LET s == node[n] IN
        /\ \A t \in s.voted[o] : Exists(s, t)
        /\ s.locked[o] # NoTx => Exists(s, s.locked[o]) /\ s.cand[s.locked[o]].full

\* Two candidates for the same outpoint are never both ready: a masternode that voted for
\* both is noticed whichever vote comes first, orphan or not (instantx.cpp:449).  This ends
\* where CheckAndRemove erases the outpoint's entry in mapVotedOutpoints for an expired
\* candidate although another one is kept (instantx.cpp:684).
NeverBothReady ==
    \A n \in Node, o \in Outpoint, t, u \in Tx : LET s == node[n] IN
        t # u /\ o \in (Inputs[t] \cap Inputs[u]) \ s.forgot /\ Exists(s, t) /\ Exists(s, u) =>
            ~(IsAllOutPointsReady(s.cand[t], t) /\ IsAllOutPointsReady(s.cand[u], u))

\* The votes a node has for t on o and still may count: those of the candidate, and those
\* that came before the request.
VotesHeld(s, t, o) == s.cand[t].votes[o] \cup {m \in Masternode : VoteOf(t, o, m) \in s.orphan}

Complete(s, t) ==
    /\ HasRequest(s, t) /\ s.cand[t].age = 0
    /\ \A o \in Inputs[t] : Cardinality(VotesHeld(s, t, o)) >= Required

Unopposed(s, t) ==
    /\ RequestValid(s, t) /\ s.cand[t].attacked = {}
    /\ \A o \in Inputs[t] : s.locked[o] \in {t, NoTx} /\ \A u \in s.pool \ {t} : o \notin Inputs[u]

\* The step that brings the last thing a lock needs, the request or a vote, in whatever
\* order they come, locks the transaction unless something is in its way: no vote is lost
\* between the orphans and the candidate (instantx.cpp:97, instantx.cpp:486).
LastVoteLocks ==
    [][\A n \in Node, t \in Tx :
          ~Complete(node[n], t) /\ Complete(node'[n], t) /\ Unopposed(node'[n], t) => IsLocked(node'[n], t)]_vars
=============================================================================
