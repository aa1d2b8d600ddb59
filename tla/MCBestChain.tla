---------------------------- MODULE MCBestChain -----------------------------
(* Two branches of two blocks each, and two threads. *)
EXTENDS BestChain, TLC
CONSTANTS G, A1, A2, B1, B2, t1, t2
MCAncestors == G :> {} @@ A1 :> {G} @@ A2 :> {G, A1} @@ B1 :> {G} @@ B2 :> {G, B1}
MCProof == [b \in Block |-> 1]
MCMemory == <<G, A1, B1, B2, A2>>
=============================================================================
