----------------------------- MODULE MNListStore -----------------------------
(***************************************************************************)
(* The masternode lists of the blocks of a tree that goes on from Base,    *)
(* the last block before DIP3 is active.                                   *)
(***************************************************************************)
CONSTANTS Blocks, Base, Parent, Height, Changing, None, SnapshotPeriod, CacheSize, RpcVerify
VARIABLES tip, diffs, snaps, saved, cache, tipBlockHash, pending, cachePhase, at

Cache == INSTANCE MNListCache WITH phase <- cachePhase

ASSUME TreeConstants == Cache!TreeAssumption
ASSUME ActivationConstants == Cache!ActivationAssumption

storeVars == <<tip, diffs, snaps, saved, cache, tipBlockHash, pending, cachePhase, at>>

StoreSpec == Cache!Init /\ [][Cache!Next]_storeVars

-----------------------------------------------------------------------------
\* MNListCache: the list found for a block of the active chain is the true one.
ListsTrue == Cache!ListsTrue

\* MNListCache: and it is found within a snapshot period.
WalkBounded == Cache!WalkBounded
=============================================================================
