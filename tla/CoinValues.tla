----------------------------- MODULE CoinValues -----------------------------
(***************************************************************************)
(* What CoinsCache stores.                                                 *)
(***************************************************************************)
EXTENDS Naturals, BlockHashes

CONSTANTS
    Outpoints,    \* COutPoints
    Coins,        \* unspent Coin values
    Spent,        \* the value of a Coin after Clear()
    Unspendable,  \* the coins whose script IsUnspendable()
    Usage         \* DynamicMemoryUsage() of each coin

ASSUME CoinsAssumption ==
    /\ Spent \notin Coins
    /\ Unspendable \subseteq Coins
    /\ NullBlock \notin Hashes
    /\ Usage \in [Coins -> Nat]
=============================================================================
