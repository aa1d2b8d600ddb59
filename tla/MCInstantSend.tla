--------------------------- MODULE MCInstantSend ----------------------------
(* One node, which is a masternode of the quorum, and two other masternodes. *)
EXTENDS InstantSend, TLC
CONSTANTS n1, m1, m2, m3, A, B, o1
MCInputs == [t \in Tx |-> {o1}]
MCQuorum == [o \in Outpoint |-> Masternode]
MCKey == [n \in Node |-> m1]
Sym == Permutations({m2, m3}) \cup Permutations({A, B})
=============================================================================
