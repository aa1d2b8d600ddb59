----------------------------- MODULE EvoValues ------------------------------
(***************************************************************************)
(* What EvoDB stores.                                                      *)
(***************************************************************************)
EXTENDS BlockHashes

CONSTANTS
    Keys,       \* the keys of the masternode lists and of the quorum commitments
    BestKey,    \* EVODB_BEST_BLOCK, under which a block hash is stored
    Values,     \* what is stored under Keys
    None,       \* Read() returns false
    Moved       \* what is left of a value after std::move

ASSUME EvoAssumption ==
    /\ BestKey \notin Keys
    /\ None \notin Values \cup Hashes
    /\ Moved \notin Values \cup Hashes \cup {None}
=============================================================================
