------------------------------ MODULE MCSpork -------------------------------
(* Two nodes, the first of them with a spork key of its own, another spork *)
(* key, and a key that is none.                                            *)
EXTENDS Spork

CONSTANTS n1, n2, k1, k2, k3, s12

MCOwnKey == [n \in Nodes |-> IF n = n1 THEN k1 ELSE NoKey]
=============================================================================
