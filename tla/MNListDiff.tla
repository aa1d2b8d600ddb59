----------------------------- MODULE MNListDiff -----------------------------
(***************************************************************************)
(* BuildDiff and ApplyDiff of CDeterministicMNList: what the database      *)
(* keeps of a block is the difference to the previous block's list, and    *)
(* the list of a block is found again by applying it.                      *)
(***************************************************************************)
EXTENDS MNList, FiniteSets

\* The hashes, as std::map and std::set order them.
ASSUME HashAssumption == Nodes \subseteq Nat /\ IsFiniteSet(Nodes)

\* addedMNs, updatedMNs and removedMns, the first two with what they hold.
BuildDiff(from, to) ==
    [added   |-> {id \in Nodes : ~HasMN(from, id) /\ HasMN(to, id)},
     updated |-> {id \in Nodes : HasMN(from, id) /\ HasMN(to, id) /\ from.mns[id] # to.mns[id]},
     removed |-> {id \in Nodes : HasMN(from, id) /\ ~HasMN(to, id)},
     mns     |-> to.mns]

ApplyTo(l, d, id) ==
    CASE id \in d.removed -> RemoveMN(l, id)
      [] id \in d.added -> AddMN(l, id, d.mns[id])
      [] id \in d.updated -> UpdateMN(l, id, d.mns[id])

\* The masternodes of ids in the order of their hashes.
Last(ids) == CHOOSE x \in ids : \A y \in ids : y <= x
ApplyInOrder(l, d, ids) ==
    LET f[S \in SUBSET ids] == IF S = {} THEN l ELSE ApplyTo(f[S \ {Last(S)}], d, Last(S))
    IN  f[ids]

\* Seeded fault: the removals come last.
ApplyDiffRemovesLast(l, d) ==
    ApplyInOrder(ApplyInOrder(ApplyInOrder(l, d, d.added), d, d.updated), d, d.removed)

ApplyDiff(l, d) ==
    ApplyInOrder(ApplyInOrder(ApplyInOrder(l, d, d.removed), d, d.added), d, d.updated)

\* Every list a block can end with is found again from the previous block's list and
\* the difference stored for the block, and no assertion fails on the way: although
\* the changes are applied in another order than the block's transactions made them.
DiffRebuildsList == phase # "crashed" => ApplyDiff(prev, BuildDiff(prev, new)) = new
=============================================================================
