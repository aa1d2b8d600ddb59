---------------------------- MODULE MCMNListCache ----------------------------
EXTENDS MNListStore, Integers

\* Two branches after the first block: 1 - 2 - 3 - 4 and 1 - 5 - 6.
MCParent == [b \in 1..6 |-> CASE b = 1 -> 0 [] b = 5 -> 1 [] OTHER -> b - 1]
MCHeight == [b \in 0..6 |-> CASE b \in 0..4 -> b + 3 [] OTHER -> b]
=============================================================================
