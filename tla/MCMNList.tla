------------------------------ MODULE MCMNList ------------------------------
(***************************************************************************)
(* MNListDiff for TLC: three registrations over two collaterals.  Owners,  *)
(* collaterals and addresses are interchangeable, and so are the operator  *)
(* keys; the order of the nodes matters to ApplyDiff.                      *)
(***************************************************************************)
EXTENDS MNListDiff, TLC

CONSTANTS c1, c2, o1, o2, o3, k1, k2, k3, a1, a2

MCNodes == 1..3
MCCollaterals == {c1, c2}
MCOwners == {o1, o2, o3}
MCOperators == {k1, k2, k3}
MCAddrs == {a1, a2}

Symmetry == Permutations(MCCollaterals) \cup Permutations(MCOwners)
              \cup Permutations(MCOperators) \cup Permutations(MCAddrs)
=============================================================================
