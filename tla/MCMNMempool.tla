---------------------------- MODULE MCMNMempool -----------------------------
(***************************************************************************)
(* MNMempool for TLC: two registrations over two collaterals, one address  *)
(* (and none), and three operator keys.                                    *)
(***************************************************************************)
EXTENDS MNMempool, TLC

CONSTANTS n1, n2, c1, c2, o1, o2, k1, k2, k3, a1

MCNodes == {n1, n2}
MCCollaterals == {c1, c2}
MCOwners == {o1, o2}
MCOperators == {k1, k2, k3}
MCAddrs == {a1}

Symmetry == Permutations(MCNodes) \cup Permutations(MCCollaterals) \cup Permutations(MCOwners)
              \cup Permutations(MCOperators)
=============================================================================
