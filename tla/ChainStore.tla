----------------------------- MODULE ChainStore -----------------------------
(***************************************************************************)
(* What the databases of the chain state promise to validation: one        *)
(* key-value map with one best block, modified by one transaction of       *)
(* changes at a time.                                                      *)
(*   pending  what the open transaction sees and modifies                  *)
(*   current  the committed state, i.e. the node's chain state             *)
(*   durable  what survives a crash                                        *)
(* Each is a map and the best block it belongs to: the two only ever move  *)
(* together from pending to current and from current to durable.  The      *)
(* coins database (CoinsCache) and the evo database (EvoDB) implement it.  *)
(***************************************************************************)
CONSTANTS Keys, Values, None, Blocks, NullBlock

VARIABLES pending, current, durable, open

vars == <<pending, current, durable, open>>

EmptyStore == [map |-> [k \in Keys |-> None], best |-> NullBlock]

Init ==
    /\ pending = EmptyStore
    /\ current = EmptyStore
    /\ durable = EmptyStore
    /\ open = FALSE

Begin ==
    /\ ~open
    /\ open' = TRUE
    /\ pending' = current
    /\ UNCHANGED <<current, durable>>

Set(k, v) ==
    /\ open
    /\ pending' = [map |-> [pending.map EXCEPT ![k] = v], best |-> pending.best]
    /\ UNCHANGED <<current, durable, open>>

SetBest(b) ==
    /\ open
    /\ pending' = [map |-> pending.map, best |-> b]
    /\ UNCHANGED <<current, durable, open>>

Commit ==
    /\ open
    /\ open' = FALSE
    /\ current' = pending
    /\ UNCHANGED <<pending, durable>>

Abort ==
    /\ open
    /\ open' = FALSE
    /\ pending' = current
    /\ UNCHANGED <<current, durable>>

Persist ==
    /\ ~open
    /\ durable' = current
    /\ UNCHANGED <<pending, current, open>>

Crash ==
    /\ pending' = durable
    /\ current' = durable
    /\ open' = FALSE
    /\ UNCHANGED durable

Step ==
    \/ Begin
    \/ \E k \in Keys, v \in Values \cup {None} : Set(k, v)
    \/ \E b \in Blocks : SetBest(b)
    \/ Commit
    \/ Abort
    \/ Persist

Next == Step \/ Crash

Spec == Init /\ [][Next]_vars
=============================================================================
