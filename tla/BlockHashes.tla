---------------------------- MODULE BlockHashes -----------------------------
(***************************************************************************)
(* The blocks that the chain state and its two databases speak of.         *)
(***************************************************************************)
CONSTANTS
    Blocks,       \* every block that may be received, by its hash
    Hashes,       \* the block hashes that are written to the databases
    NullBlock     \* no block: uint256(), a NULL pindex
=============================================================================
