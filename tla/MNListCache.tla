----------------------------- MODULE MNListCache -----------------------------
(***************************************************************************)
(* How CDeterministicMNManager keeps the masternode list of every block    *)
(* (evo/deterministicmns.cpp): a diff per block and a snapshot now and     *)
(* then in the Evo database, and a cache in memory that GetListForBlock    *)
(* fills for whoever asks.  The database follows the chain inside          *)
(* transactions that may be rolled back; the cache does not.  Readers hold *)
(* only the manager's lock, never cs_main, and ask for tipBlockHash, which *)
(* lags behind the chain.                                                  *)
(* A list is abstracted to the set of blocks that changed it.              *)
(***************************************************************************)
EXTENDS Integers

CONSTANTS
    Blocks, Base,   \* the blocks; Base is the last one before DIP3 is active
    Parent,         \* pprev of every other block
    Height,         \* nHeight
    Changing,       \* the blocks with transactions that change the list
    None,
    SnapshotPeriod, \* SNAPSHOT_LIST_PERIOD
    CacheSize,      \* LISTS_CACHE_SIZE
    RpcVerify       \* the verifychain RPC is used while the node runs

\* What is kept of a list, and of a diff.
ListSet == [hash : Blocks, height : Int, mns : SUBSET Blocks, ok : BOOLEAN]
DiffSet == [prev : Blocks, hash : Blocks, height : Int, added : SUBSET Blocks]

TreeAssumption ==
    /\ Base \in Blocks /\ None \notin Blocks \cup ListSet \cup DiffSet
    /\ Parent \in [Blocks \ {Base} -> Blocks] /\ Changing \subseteq Blocks \ {Base}
    /\ Height \in [Blocks -> Nat] /\ \A b \in Blocks \ {Base} : Height[b] = Height[Parent[b]] + 1
    /\ SnapshotPeriod \in Nat \ {0} /\ CacheSize \in Nat
    /\ RpcVerify \in BOOLEAN

\* DIP3 activates no lower than the size of the cache.
ActivationAssumption == CacheSize <= Height[Base] + 1

Path[b \in Blocks] == IF b = Base THEN {b} ELSE Path[Parent[b]] \cup {b}

VARIABLES
    tip,            \* chainActive.Tip()
    diffs, snaps,   \* DB_LIST_DIFF and DB_LIST_SNAPSHOT
    saved,          \* the database as it was when the open transaction began
    cache,          \* mnListsCache
    tipBlockHash,   \* what UpdatedBlockTip was last told
    pending,        \* tips whose UpdatedBlockTip has not been delivered
    phase,          \* who holds cs_main: "idle", "connect", "disconnect", "verify", or "startup"
    at              \* the block being connected or disconnected; VerifyDB's position

vars == <<tip, diffs, snaps, saved, cache, tipBlockHash, pending, phase, at>>

\* ok is false once an assertion of ApplyDiff has failed.
List(b, h, m) == [hash |-> b, height |-> h, mns |-> m, ok |-> TRUE]
Diff(p, b, h, a) == [prev |-> p, hash |-> b, height |-> h, added |-> a]

\* What the list of a block is: nothing before DIP3, without a height.
TrueList(b) ==
    IF b = Base THEN List(b, -1, {}) ELSE List(b, Height[b], Path[b] \cap Changing)

-----------------------------------------------------------------------------
ApplyDiff(l, d) ==
    [hash |-> d.hash, height |-> d.height, mns |-> l.mns \cup d.added,
     ok |-> l.ok /\ (d.added # {} => d.prev = l.hash /\ d.height = l.height + 1)]

\* The list of b: back along the diffs to the cache, a snapshot or, if the block is
\* not known, an empty list without a height, then forward again.
ListForBlock(c, d, s) ==
    LET f[b \in Blocks] ==
          IF c[b] # None THEN c[b]
          ELSE IF s[b] # None THEN s[b]
          ELSE IF d[b] = None THEN List(b, -1, {})
          ELSE ApplyDiff(f[d[b].prev], d[b])
    IN  f

\* How many diffs that reads.
WalkLength(c, d, s) ==
    LET f[b \in Blocks] ==
          IF c[b] # None \/ s[b] # None \/ d[b] = None THEN 0 ELSE 1 + f[d[b].prev]
    IN  f

\* GetListForBlock also enters what it found into the cache.
Cached(c, d, s, b) == [c EXCEPT ![b] = ListForBlock(c, d, s)[b]]

\* Seeded fault: lists without a height are kept, whatever the height of the chain.
CleanupCacheKeeps(c, h) ==
    [b \in Blocks |-> IF c[b] # None /\ c[b].height # -1 /\ c[b].height + CacheSize < h
                        THEN None ELSE c[b]]

CleanupCache(c, h) ==
    [b \in Blocks |-> IF c[b] # None /\ c[b].height + CacheSize < h THEN None ELSE c[b]]

\* Seeded fault: a snapshot at the first block only.
WritesSnapshotFirst(h, oldList) == oldList.height = -1

WritesSnapshot(h, oldList) == h % SnapshotPeriod = 0 \/ oldList.height = -1

\* BuildNewListFromBlock (MNList and MNPayments have its content).
BuildNewList(oldList, b) ==
    [hash |-> b, height |-> Height[b], mns |-> oldList.mns \cup ({b} \cap Changing), ok |-> oldList.ok]

\* ProcessBlock for block b.
ProcessBlock(b) ==
    LET c == Cached(cache, diffs, snaps, Parent[b])
        oldList == c[Parent[b]]
        newList == BuildNewList(oldList, b)
    IN  /\ diffs' = [diffs EXCEPT ![b] = Diff(oldList.hash, b, Height[b], newList.mns \ oldList.mns)]
        /\ snaps' = [snaps EXCEPT ![b] = IF WritesSnapshot(Height[b], oldList) THEN newList ELSE @]
        /\ cache' = CleanupCache(c, Height[b])

UndoBlock(b) ==
    /\ diffs' = [diffs EXCEPT ![b] = None]
    /\ snaps' = [snaps EXCEPT ![b] = None]
    /\ cache' = [cache EXCEPT ![b] = None]

Begin == saved' = [diffs |-> diffs, snaps |-> snaps]
Rollback == diffs' = saved.diffs /\ snaps' = saved.snaps

-----------------------------------------------------------------------------
\* ConnectTip: ProcessBlock inside a transaction, which ends in a commit or, when a
\* later check of the block fails, in a rollback.
ConnectBegin(b) ==
    /\ phase = "idle" /\ b # Base /\ Parent[b] = tip
    /\ Begin /\ ProcessBlock(b)
    /\ phase' = "connect" /\ at' = b
    /\ UNCHANGED <<tip, tipBlockHash, pending>>

\* The last block of a batch is announced to UpdatedBlockTip.
ConnectCommit ==
    /\ phase = "connect" /\ tip' = at /\ phase' = "idle" /\ at' = None /\ saved' = None
    /\ \E announced \in SUBSET {at} : pending' = pending \cup announced
    /\ UNCHANGED <<diffs, snaps, cache, tipBlockHash>>

ConnectRollback ==
    /\ phase = "connect" /\ Rollback /\ phase' = "idle" /\ at' = None /\ saved' = None
    /\ UNCHANGED <<tip, cache, tipBlockHash, pending>>

\* DisconnectTip; nothing is announced (a tip without new blocks is not passed on).
DisconnectBegin ==
    /\ phase = "idle" /\ tip # Base
    /\ Begin /\ UndoBlock(tip)
    /\ phase' = "disconnect" /\ at' = tip
    /\ UNCHANGED <<tip, tipBlockHash, pending>>

DisconnectCommit ==
    /\ phase = "disconnect" /\ tip' = Parent[at] /\ phase' = "idle" /\ at' = None /\ saved' = None
    /\ UNCHANGED <<diffs, snaps, cache, tipBlockHash, pending>>

\* Announcements are delivered after cs_main is released, by any of several threads.
UpdatedBlockTip(b) ==
    /\ b \in pending /\ pending' = pending \ {b} /\ tipBlockHash' = b
    /\ UNCHANGED <<tip, diffs, snaps, saved, cache, phase, at>>

\* GetListAtChainTip from any thread but during startup.
GetListAtChainTip ==
    /\ phase # "startup" /\ (phase = "verify" => RpcVerify)
    /\ cache' = Cached(cache, diffs, snaps, tipBlockHash)
    /\ UNCHANGED <<tip, diffs, snaps, saved, tipBlockHash, pending, phase, at>>

\* GetListForBlock for a block of the active chain, under cs_main.
GetListForBlock(b) ==
    /\ phase = "idle" /\ b \in Path[tip]
    /\ cache' = Cached(cache, diffs, snaps, b)
    /\ UNCHANGED <<tip, diffs, snaps, saved, tipBlockHash, pending, phase, at>>

\* VerifyDB: a transaction that is let to roll back, in which the last blocks are
\* disconnected (level 3) and perhaps connected again (level 4).
VerifyBegin ==
    /\ phase = "startup" \/ (RpcVerify /\ phase = "idle")
    /\ Begin /\ phase' = "verify" /\ at' = tip
    /\ UNCHANGED <<tip, diffs, snaps, cache, tipBlockHash, pending>>

VerifyDisconnect ==
    /\ phase = "verify" /\ at # Base /\ UndoBlock(at) /\ at' = Parent[at]
    /\ UNCHANGED <<tip, saved, tipBlockHash, pending, phase>>

VerifyReconnect ==
    /\ phase = "verify"
    /\ \E b \in Path[tip] \ {Base} : Parent[b] = at /\ ProcessBlock(b) /\ at' = b
    /\ UNCHANGED <<tip, saved, tipBlockHash, pending, phase>>

VerifyEnd ==
    /\ phase = "verify" /\ Rollback
    /\ phase' = "idle" /\ at' = None /\ saved' = None
    /\ UNCHANGED <<tip, cache, tipBlockHash, pending>>

\* The node stops and starts again: the cache is gone, the tip is announced.
Restart ==
    /\ phase = "idle" /\ phase' = "startup" /\ pending' = {} /\ tipBlockHash' = tip
    /\ cache' = [b \in Blocks |-> None]
    /\ UNCHANGED <<tip, diffs, snaps, saved, at>>

\* Startup without VerifyDB (-checklevel below 3 changes nothing either).
Started ==
    /\ phase = "startup" /\ phase' = "idle"
    /\ UNCHANGED <<tip, diffs, snaps, saved, cache, tipBlockHash, pending, at>>

Init ==
    /\ tip = Base /\ tipBlockHash = Base /\ pending = {} /\ phase = "idle" /\ at = None
    /\ diffs = [b \in Blocks |-> None] /\ snaps = diffs /\ cache = diffs /\ saved = None

Next ==
    \/ \E b \in Blocks : ConnectBegin(b) \/ UpdatedBlockTip(b) \/ GetListForBlock(b)
    \/ ConnectCommit \/ ConnectRollback \/ DisconnectBegin \/ DisconnectCommit
    \/ GetListAtChainTip \/ VerifyBegin \/ VerifyDisconnect \/ VerifyReconnect \/ VerifyEnd
    \/ Restart \/ Started

Spec == Init /\ [][Next]_vars

-----------------------------------------------------------------------------
TypeOK ==
    /\ tip \in Blocks /\ tipBlockHash \in Blocks /\ pending \subseteq Blocks
    /\ \A b \in Blocks : /\ diffs[b] = None \/ diffs[b].hash = b
                         /\ snaps[b] = None \/ snaps[b].hash = b
                         /\ cache[b] = None \/ cache[b].hash = b
    /\ phase \in {"idle", "connect", "disconnect", "verify", "startup"}
    /\ at \in Blocks \cup {None} /\ (at = None <=> phase \in {"idle", "startup"})

Lists == ListForBlock(cache, diffs, snaps)

\* The list of every block of the active chain is the one its transactions make, and no
\* assertion of ApplyDiff fails on the way: whatever was rolled back, disconnected, read
\* with a stale tip or cleaned from the cache before.
ListsTrue == phase \in {"idle", "connect"} => \A b \in Path[tip] : Lists[b] = TrueList(b)

\* GetListForBlock never reads more diffs than a snapshot period has blocks.
WalkBounded ==
    phase = "idle" => \A b \in Path[tip] : WalkLength(cache, diffs, snaps)[b] < SnapshotPeriod
=============================================================================
