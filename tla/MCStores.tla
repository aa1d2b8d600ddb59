------------------------------ MODULE MCStores ------------------------------
(***************************************************************************)
(* ChainState and the two databases under it, CoinsCache and EvoDB, for    *)
(* TLC, each on its own: part says which of the three a behaviour is one   *)
(* of, and the others stand still.                                         *)
(***************************************************************************)
EXTENDS ChainState, CoinsCache, EvoDB, TLC

CONSTANTS g, a1, a2, b1, c1, c2, data

VARIABLE part

\* A branch of two blocks and one of one block above the genesis block.
MCParent == [b \in Blocks |-> CASE b = g -> NullBlock
                                [] b \in {a1, b1} -> g
                                [] b = a2 -> a1]

MCAncestors ==
    [b \in Blocks \cup {NullBlock} |->
        CASE b = NullBlock -> {}
          [] b = g -> {g}
          [] b \in {a1, b1} -> {g, b}
          [] b = a2 -> {g, a1, a2}]

MCUsage == [c \in Coins |-> CASE c = c1 -> 1 [] c = c2 -> 2 [] OTHER -> 3]

storeVars == <<part, vars, cacheVars, evoDBVars>>

StoresInit == part \in {"chain", "coins", "evo"} /\ Init /\ CacheInit /\ EvoDBInit

StoresNext ==
    \/ part = "chain" /\ Next /\ UNCHANGED <<part, cacheVars, evoDBVars>>
    \/ part = "coins" /\ CacheNext /\ UNCHANGED <<part, vars, evoDBVars>>
    \/ part = "evo" /\ EvoDBNext /\ UNCHANGED <<part, vars, cacheVars>>

StoresSpec == StoresInit /\ [][StoresNext]_storeVars

Sym == Permutations(Outpoints) \cup Permutations(Keys) \cup Permutations(Values) \cup Permutations(Hashes)
=============================================================================
