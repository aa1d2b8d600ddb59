------------------------- MODULE InstantSendProofs --------------------------
(***************************************************************************)
(* Proofs about InstantSend, for any nodes, masternodes, transactions and  *)
(* quorums.  A node's step is a composition of the functions that change   *)
(* its state; one lemma for each says that it keeps NodeInv, and one for   *)
(* each action composes them.  The last part does the same for the lock    *)
(* that the last vote brings.                                              *)
(***************************************************************************)
EXTENDS InstantSend, FiniteSetTheorems, TLAPS

\* Unless a step names another prover.
USE Zenon

\* Enough of the votes S are for t to lock o.
Backed(S, t, o) ==
    /\ o \in Inputs[t]
    /\ Cardinality({m \in Quorum[o] : VoteOf(t, o, m) \in S}) >= Required

\* The votes counted and kept are among S, and so are those behind a lock.
Backing(s, S) ==
    /\ \A t \in Tx, o \in Outpoint : Exists(s, t) =>
          \A m \in s.cand[t].votes[o] : VoteOf(t, o, m) \in S
    /\ s.orphan \subseteq S
    /\ \A o \in Outpoint : s.locked[o] # NoTx => Backed(S, s.locked[o], o)

\* What LocksRespected needs: the mined transactions do not conflict.
Respect(s) ==
    /\ \A o \in Outpoint, u \in Tx :
          s.locked[o] # NoTx /\ s.locked[o] # u /\ o \in Inputs[u] => u \notin s.pool /\ ~Mined(s, u)
    /\ \A t, u \in Tx : t # u /\ Mined(s, t) /\ Mined(s, u) => Inputs[t] \cap Inputs[u] = {}

\* What NothingOutlivesCandidate needs: only outpoints of complete candidates are voted on.
Kept(s) ==
    /\ \A o \in Outpoint : \A t \in s.voted[o] : Exists(s, t) /\ s.cand[t].full /\ o \in Inputs[t]
    /\ \A o \in Outpoint : s.locked[o] # NoTx => Exists(s, s.locked[o]) /\ s.cand[s.locked[o]].full

\* What NeverBothReady needs: mapVotedOutpoints names every candidate with votes, and a
\* masternode counted for two candidates has made the outpoint attacked in both.
Noticed(s) ==
    /\ \A t \in Tx : Exists(s, t) =>
          /\ s.cand[t].full => s.cand[t].req
          /\ s.cand[t].req /\ s.cand[t].age = 0 => s.cand[t].full
          /\ \A o \in Outpoint : s.cand[t].votes[o] # {} =>
                s.cand[t].full /\ (t \in s.voted[o] \/ o \in s.forgot)
    /\ \A t, u \in Tx, o \in Outpoint \ s.forgot :
          t # u /\ Exists(s, t) /\ Exists(s, u) /\ s.cand[t].votes[o] \cap s.cand[u].votes[o] # {} =>
            o \in s.cand[t].attacked /\ o \in s.cand[u].attacked

NodeInv(s, S) == s \in NodeState /\ Backing(s, S) /\ Respect(s) /\ Kept(s) /\ Noticed(s)

IInv ==
    /\ TypeOK
    /\ \A n \in Node : NodeInv(node[n], signed)
    /\ \A t \in Tx, o \in Outpoint : <<t, o>> \in locks => Backed(signed, t, o)

-----------------------------------------------------------------------------
(* Each conjunct depends on a few fields of the state. *)

LEMMA BackingSame ==
    ASSUME NEW s, NEW r, NEW S, Backing(s, S), r.cand = s.cand, r.locked = s.locked,
           r.orphan \subseteq S
    PROVE  Backing(r, S)
BY DEF Backing, Exists

LEMMA RespectSame ==
    ASSUME NEW s, NEW r, Respect(s), r.locked = s.locked, r.pool = s.pool, r.mined = s.mined
    PROVE  Respect(r)
BY DEF Respect, Mined

LEMMA KeptSame ==
    ASSUME NEW s, NEW r, Kept(s), r.cand = s.cand, r.voted = s.voted, r.locked = s.locked
    PROVE  Kept(r)
BY DEF Kept, Exists

\* mapVotedOutpoints may grow.
LEMMA NoticedGrows ==
    ASSUME NEW s, NEW r, Noticed(s), r.cand = s.cand, r.forgot = s.forgot,
           \A o \in Outpoint : s.voted[o] \subseteq r.voted[o]
    PROVE  Noticed(r)
BY SMT DEF Noticed, Exists

-----------------------------------------------------------------------------
(* Votes. *)

\* More votes do no harm.
LEMMA BackedMonotone ==
    ASSUME NEW S \in SUBSET Vote, NEW R \in SUBSET Vote, S \subseteq R,
           NEW t \in Tx, NEW o \in Outpoint, Backed(S, t, o)
    PROVE  Backed(R, t, o)
<1> DEFINE X == {m \in Quorum[o] : VoteOf(t, o, m) \in S}
           Y == {m \in Quorum[o] : VoteOf(t, o, m) \in R}
<1>1. X \subseteq Y /\ Y \subseteq Quorum[o]
  OBVIOUS
<1>2. IsFiniteSet(Quorum[o])
  BY InstantSendAssumption
<1>3. IsFiniteSet(Y)
  BY <1>1, <1>2, FS_Subset
<1>4. Cardinality(X) <= Cardinality(Y) /\ Cardinality(X) \in Nat /\ Cardinality(Y) \in Nat
  BY <1>1, <1>3, FS_Subset, FS_CardinalityType
<1> QED
  BY SMT, <1>4, InstantSendAssumption DEF Backed

\* What a node knows stays good when more votes are signed.
LEMMA NodeInvMonotone ==
    ASSUME NEW S \in SUBSET Vote, NEW R \in SUBSET Vote, S \subseteq R, NEW s, NodeInv(s, S)
    PROVE  NodeInv(s, R)
<1>1. s \in NodeState /\ \A o \in Outpoint : s.locked[o] \in Tx \cup {NoTx}
  BY DEF NodeInv, NodeState
<1>2. Backing(s, R)
  BY <1>1, BackedMonotone DEF NodeInv, Backing
<1> QED
  BY <1>2 DEF NodeInv

\* Enough counted votes are enough votes.
LEMMA ReadyBacked ==
    ASSUME NEW S \in SUBSET Vote, NEW c \in Candidate, NEW t \in Tx,
           \A o \in Outpoint : \A m \in c.votes[o] : VoteOf(t, o, m) \in S,
           IsAllOutPointsReady(c, t), NEW o \in Inputs[t]
    PROVE  Backed(S, t, o)
<1> DEFINE X == {m \in Quorum[o] : VoteOf(t, o, m) \in S}
<1>1. o \in Outpoint
  BY InstantSendAssumption
<1>2. \A m : VoteOf(t, o, m) \in Vote => m \in Quorum[o]
  BY DEF Vote, VoteOf
<1>3. c.votes[o] \subseteq X
  BY <1>1, <1>2 DEF Candidate
<1>4. IsFiniteSet(Quorum[o]) /\ Required \in Nat
  BY <1>1, InstantSendAssumption
<1>5. IsFiniteSet(X)
  BY <1>4, FS_Subset
<1>6. Cardinality(c.votes[o]) <= Cardinality(X) /\ IsFiniteSet(c.votes[o])
  BY <1>3, <1>5, FS_Subset
<1>7. Cardinality(X) \in Nat /\ Cardinality(c.votes[o]) \in Nat
  BY <1>5, <1>6, FS_CardinalityType
<1>8. Cardinality(c.votes[o]) >= Required
  BY DEF IsAllOutPointsReady
<1> QED
  BY SMT, <1>4, <1>6, <1>7, <1>8 DEF Backed

-----------------------------------------------------------------------------
(* The functions that change a node's state, each keeping NodeInv. *)

\* What NodeState says of the fields.
LEMMA Fields ==
    ASSUME NEW s \in NodeState
    PROVE  /\ s.cand \in [Tx -> Candidate \cup {NoCandidate}]
           /\ s.known \in [Vote -> {Unknown} \cup Heights]
           /\ s.orphan \subseteq Vote
           /\ s.voted \in [Outpoint -> SUBSET Tx]
           /\ s.locked \in [Outpoint -> Tx \cup {NoTx}]
           /\ s.forgot \subseteq Outpoint
           /\ s.accepted \subseteq Tx /\ s.rejected \subseteq Tx /\ s.pool \subseteq Tx
           /\ s.height \in FirstHeight..(FirstHeight + MaxBlocks)
           /\ s.mined \in [Tx -> {Unconfirmed} \cup FirstHeight..(FirstHeight + MaxBlocks)]
           /\ s.cached \in Heights
           /\ s.handling \in Handled \cup {Idle}
  BY DEF NodeState

LEMMA CandidateFields ==
    ASSUME NEW s \in NodeState, NEW t \in Tx, Exists(s, t)
    PROVE  /\ s.cand[t] \in Candidate
           /\ s.cand[t].req \in BOOLEAN /\ s.cand[t].full \in BOOLEAN
           /\ s.cand[t].votes \in [Outpoint -> SUBSET Masternode]
           /\ s.cand[t].attacked \subseteq Outpoint
           /\ s.cand[t].height \in Heights /\ s.cand[t].age \in 0..2
  BY SMT, Fields DEF Exists, Candidate

\* The two candidates differ at most in their height.
SameCandidate(r, s, t) ==
    /\ Exists(r, t) <=> Exists(s, t)
    /\ Exists(s, t) => /\ r.cand[t].votes = s.cand[t].votes
                       /\ r.cand[t].attacked = s.cand[t].attacked
                       /\ r.cand[t].full = s.cand[t].full
                       /\ r.cand[t].req = s.cand[t].req
                       /\ r.cand[t].age = s.cand[t].age

\* NodeInv does not depend on the heights and on the other fields.
LEMMA Unrelated ==
    ASSUME NEW S \in SUBSET Vote, NEW s, NodeInv(s, S), NEW r \in NodeState,
           \A t \in Tx : SameCandidate(r, s, t), r.orphan = s.orphan, r.voted = s.voted,
           r.locked = s.locked, r.forgot = s.forgot, r.pool = s.pool, r.mined = s.mined
    PROVE  NodeInv(r, S)
<1>1. Backing(r, S)
  BY DEF NodeInv, Backing, SameCandidate
<1>2. Respect(r)
  BY SMT DEF NodeInv, Respect, Mined
<1>3. Kept(r)
  BY SMT, Fields DEF NodeInv, Kept, SameCandidate
<1>4. Noticed(r)
  BY SMT DEF NodeInv, Noticed, SameCandidate
<1> QED
  BY <1>1, <1>2, <1>3, <1>4 DEF NodeInv

LEMMA SetHeight ==
    ASSUME NEW s \in NodeState, NEW t \in Tx, Exists(s, t), NEW h \in Heights,
           NEW r \in NodeState, r.cand[t] = [s.cand[t] EXCEPT !.height = h]
    PROVE  SameCandidate(r, s, t)
<1>1. s.cand[t] \in Candidate
  BY CandidateFields
<1>2. r.cand[t] \in Candidate
  BY <1>1 DEF Candidate
<1> QED
  BY <1>1, <1>2, NoCandidateAssumption DEF Exists, Candidate, SameCandidate

LEMMA SyncTransactionsFields ==
    ASSUME NEW s \in NodeState, NEW T \in SUBSET Tx, NEW h \in Heights
    PROVE  LET r == SyncTransactions(s, T, h)
           IN  /\ r \in NodeState /\ \A t \in Tx : SameCandidate(r, s, t)
               /\ r.orphan = s.orphan /\ r.voted = s.voted /\ r.locked = s.locked /\ r.forgot = s.forgot
               /\ r.pool = s.pool /\ r.mined = s.mined /\ r.cached = s.cached
<1> DEFINE r == SyncTransactions(s, T, h)
           c == [t \in Tx |-> IF t \in T /\ Exists(s, t) THEN [s.cand[t] EXCEPT !.height = h] ELSE s.cand[t]]
           counted(v) == /\ v.tx \in T /\ HasMasternodeVoted(s, v.tx, v.out, v.mn)
                         /\ s.known[v] # Unknown
           k == [v \in Vote |-> IF counted(v) \/ (v.tx \in T /\ v \in s.orphan) THEN h ELSE s.known[v]]
<1>b. k \in [Vote -> {Unknown} \cup Heights]
  <2> HIDE DEF counted
  <2> QED BY Fields
<1>c. \A t \in Tx : Exists(s, t) => s.cand[t] \in Candidate /\ [s.cand[t] EXCEPT !.height = h] \in Candidate
  <2> SUFFICES ASSUME NEW t \in Tx, Exists(s, t)
               PROVE  s.cand[t] \in Candidate /\ [s.cand[t] EXCEPT !.height = h] \in Candidate
    OBVIOUS
  <2> QED BY SMT, CandidateFields DEF Candidate
<1>d. c \in [Tx -> Candidate \cup {NoCandidate}]
  BY <1>c, Fields
<1>e. r = [s EXCEPT !.cand = c, !.known = k]
  BY DEF SyncTransactions
<1>1. /\ r \in NodeState /\ r.cand = c
      /\ r.orphan = s.orphan /\ r.voted = s.voted /\ r.locked = s.locked /\ r.forgot = s.forgot
      /\ r.pool = s.pool /\ r.mined = s.mined /\ r.cached = s.cached
  <2> HIDE DEF r, c, k
  <2> QED BY <1>b, <1>d, <1>e DEF NodeState
<1>2. ASSUME NEW t \in Tx PROVE SameCandidate(r, s, t)
  <2>1. r.cand[t] = IF t \in T /\ Exists(s, t) THEN [s.cand[t] EXCEPT !.height = h] ELSE s.cand[t]
    <3> HIDE DEF r
    <3> QED BY <1>1
  <2> HIDE DEF r, c
  <2> QED BY SMT, <1>1, <2>1, SetHeight DEF SameCandidate, Exists
<1> HIDE DEF r
<1> QED
  BY <1>1, <1>2 DEF r

LEMMA SyncTransactionsInv ==
    ASSUME NEW S \in SUBSET Vote, NEW s, NodeInv(s, S), NEW T \in SUBSET Tx, NEW h \in Heights
    PROVE  NodeInv(SyncTransactions(s, T, h), S)
<1> DEFINE r == SyncTransactions(s, T, h)
<1>1. s \in NodeState
  BY DEF NodeInv
<1>2. /\ r \in NodeState /\ \A t \in Tx : SameCandidate(r, s, t)
      /\ r.orphan = s.orphan /\ r.voted = s.voted /\ r.locked = s.locked /\ r.forgot = s.forgot
      /\ r.pool = s.pool /\ r.mined = s.mined
  BY <1>1, SyncTransactionsFields
<1> HIDE DEF r
<1> QED
  BY <1>2, Unrelated DEF r

\* What CheckAndRemove leaves of a node's state.
LEMMA CheckAndRemoveFields ==
    ASSUME NEW s \in NodeState
    PROVE  LET q == CheckAndRemove(s)
               gone == {t \in Tx : Exists(s, t) /\ IsExpired(s, s.cand[t].height)}
               freed == UNION {Inputs[t] : t \in {u \in gone : s.cand[u].full}}
           IN  /\ q \in NodeState
               /\ \A t \in Tx : q.cand[t] = IF t \in gone THEN NoCandidate ELSE s.cand[t]
               /\ \A o \in Outpoint : q.locked[o] = IF o \in freed THEN NoTx ELSE s.locked[o]
               /\ \A o \in Outpoint : q.voted[o] = IF o \in freed THEN {} ELSE s.voted[o]
               /\ q.forgot = s.forgot \cup {o \in freed : \E t \in Tx \ gone :
                                                Exists(s, t) /\ s.cand[t].votes[o] # {}}
               /\ q.orphan \subseteq s.orphan /\ q.pool = s.pool /\ q.mined = s.mined
               /\ \A v \in s.orphan : Exists(s, v.tx) /\ s.cand[v.tx].age = 0 => v \in q.orphan
               /\ q.cached = s.cached
<1> DEFINE q == CheckAndRemove(s)
           gone == {t \in Tx : Exists(s, t) /\ IsExpired(s, s.cand[t].height)}
           freed == UNION {Inputs[t] : t \in {u \in gone : s.cand[u].full}}
           cand == [t \in Tx |-> IF t \in gone THEN NoCandidate ELSE s.cand[t]]
           locked == [o \in Outpoint |-> IF o \in freed THEN NoTx ELSE s.locked[o]]
           voted == [o \in Outpoint |-> IF o \in freed THEN {} ELSE s.voted[o]]
           forgot == s.forgot \cup {o \in freed : \E t \in Tx \ gone :
                                                Exists(s, t) /\ s.cand[t].votes[o] # {}}
           accepted == s.accepted \ {t \in gone : s.cand[t].req}
           rejected == s.rejected \ {t \in gone : s.cand[t].req}
           r == [s EXCEPT !.cand = cand, !.locked = locked, !.voted = voted, !.forgot = forgot,
                          !.accepted = accepted, !.rejected = rejected]
           old(t, a) == ~Exists(s, t) \/ s.cand[t].age >= a
           timedOut == {v \in s.orphan : old(v.tx, 1)}
           failed == {v \in Vote : old(v.tx, 2) /\ ~IsLocked(r, v.tx)}
           known == [v \in Vote |-> IF IsExpired(s, r.known[v]) \/ v \in timedOut \cup failed
                                    THEN Unknown ELSE r.known[v]]
<1>1. q = [r EXCEPT !.orphan = r.orphan \ timedOut, !.known = known]
  BY DEF CheckAndRemove
<1>2. freed \subseteq Outpoint
  BY SMT, InstantSendAssumption
<1>3. /\ cand \in [Tx -> Candidate \cup {NoCandidate}]
      /\ locked \in [Outpoint -> Tx \cup {NoTx}]
      /\ voted \in [Outpoint -> SUBSET Tx]
      /\ forgot \subseteq Outpoint
      /\ accepted \subseteq Tx /\ rejected \subseteq Tx
  <2> HIDE DEF gone, freed
  <2> QED BY SMT, <1>2, Fields
<1>4. /\ r \in NodeState /\ r.cand = cand /\ r.locked = locked /\ r.voted = voted /\ r.forgot = forgot
      /\ r.orphan = s.orphan /\ r.pool = s.pool /\ r.mined = s.mined /\ r.cached = s.cached
      /\ r.known = s.known
  <2> HIDE DEF cand, locked, voted, forgot, accepted, rejected
  <2> QED BY <1>3 DEF NodeState
<1> HIDE DEF r, q
<1>5. known \in [Vote -> {Unknown} \cup Heights]
  <2> HIDE DEF timedOut, failed
  <2> QED BY SMT, <1>4, Fields
<1>6. /\ q \in NodeState /\ q.cand = cand /\ q.locked = locked /\ q.voted = voted /\ q.forgot = forgot
      /\ q.orphan = s.orphan \ timedOut /\ q.pool = s.pool /\ q.mined = s.mined /\ q.cached = s.cached
  <2> HIDE DEF cand, locked, voted, forgot, known, timedOut
  <2> QED BY <1>1, <1>4, <1>5 DEF NodeState
<1>8. \A v \in s.orphan : Exists(s, v.tx) /\ s.cand[v.tx].age = 0 => v \in q.orphan
  <2>1. ~(0 >= 1)
    BY SMT
  <2> QED BY <1>6, <2>1
<1> HIDE DEF timedOut, known, gone, freed
<1>7. /\ q \in NodeState
      /\ \A t \in Tx : q.cand[t] = IF t \in gone THEN NoCandidate ELSE s.cand[t]
      /\ \A o \in Outpoint : q.locked[o] = IF o \in freed THEN NoTx ELSE s.locked[o]
      /\ \A o \in Outpoint : q.voted[o] = IF o \in freed THEN {} ELSE s.voted[o]
      /\ q.forgot = forgot
      /\ q.orphan \subseteq s.orphan /\ q.pool = s.pool /\ q.mined = s.mined
      /\ q.cached = s.cached
  BY SMT, <1>6
<1> QED
  BY <1>7, <1>8 DEF q, gone, freed

\* Expiry drops a candidate's locks and its entries among the voted outpoints with it.
LEMMA CheckAndRemoveInv ==
    ASSUME NEW S \in SUBSET Vote, NEW s, NodeInv(s, S)
    PROVE  NodeInv(CheckAndRemove(s), S)
<1> DEFINE q == CheckAndRemove(s)
           gone == {t \in Tx : Exists(s, t) /\ IsExpired(s, s.cand[t].height)}
           freed == UNION {Inputs[t] : t \in {u \in gone : s.cand[u].full}}
<1>1. s \in NodeState /\ q \in NodeState
  BY CheckAndRemoveFields DEF NodeInv
<1>2. \A t \in Tx : q.cand[t] = IF t \in gone THEN NoCandidate ELSE s.cand[t]
  BY <1>1, CheckAndRemoveFields
<1>3. \A o \in Outpoint : /\ q.locked[o] = IF o \in freed THEN NoTx ELSE s.locked[o]
                          /\ q.voted[o] = IF o \in freed THEN {} ELSE s.voted[o]
  BY SMT, <1>1, CheckAndRemoveFields
<1>4. q.forgot = s.forgot \cup {o \in freed : \E t \in Tx \ gone : Exists(s, t) /\ s.cand[t].votes[o] # {}}
  BY <1>1, CheckAndRemoveFields
<1>5. q.orphan \subseteq s.orphan /\ q.pool = s.pool /\ q.mined = s.mined
  BY <1>1, CheckAndRemoveFields
<1>6. \A t \in gone, o \in Outpoint : s.cand[t].full /\ o \in Inputs[t] => o \in freed
  OBVIOUS
<1> HIDE DEF q, gone, freed
<1>7. \A t \in Tx : Exists(q, t) => Exists(s, t) /\ t \notin gone /\ q.cand[t] = s.cand[t]
  BY <1>2 DEF Exists
<1>7a. \A t \in Tx \ gone : Exists(s, t) => Exists(q, t) /\ q.cand[t] = s.cand[t]
  BY <1>2 DEF Exists
<1>8. Backing(q, S)
  BY <1>3, <1>5, <1>7 DEF NodeInv, Backing
<1>9. Respect(q)
  BY SMT, <1>3, <1>5 DEF NodeInv, Respect, Mined
<1>10. Kept(q)
  <2>1. ASSUME NEW o \in Outpoint, NEW t \in q.voted[o]
        PROVE  Exists(q, t) /\ q.cand[t].full /\ o \in Inputs[t]
    <3>1. o \notin freed /\ t \in s.voted[o] /\ t \in Tx
      BY <1>1, <1>3, <2>1, Fields
    <3>2. Exists(s, t) /\ s.cand[t].full /\ o \in Inputs[t]
      BY <3>1 DEF NodeInv, Kept
    <3> QED BY <1>6, <1>7a, <3>1, <3>2
  <2>2. ASSUME NEW o \in Outpoint, q.locked[o] # NoTx
        PROVE  Exists(q, q.locked[o]) /\ q.cand[q.locked[o]].full
    <3>1. o \notin freed /\ q.locked[o] = s.locked[o] /\ s.locked[o] \in Tx
      BY SMT, <1>1, <1>3, <2>2, Fields
    <3>2. Exists(s, s.locked[o]) /\ s.cand[s.locked[o]].full /\ o \in Inputs[s.locked[o]]
      BY <3>1, <2>2 DEF NodeInv, Kept, Backing, Backed
    <3> QED BY SMT, <1>6, <1>7a, <3>1, <3>2
  <2> QED BY <2>1, <2>2 DEF Kept
<1>11. Noticed(q)
  <2>1. ASSUME NEW t \in Tx, Exists(q, t)
        PROVE  /\ q.cand[t].full => q.cand[t].req
               /\ q.cand[t].req /\ q.cand[t].age = 0 => q.cand[t].full
               /\ \A o \in Outpoint : q.cand[t].votes[o] # {} =>
                     q.cand[t].full /\ (t \in q.voted[o] \/ o \in q.forgot)
    <3>1. Exists(s, t) /\ t \notin gone /\ q.cand[t] = s.cand[t]
      BY <1>7, <2>1
    <3>2. ASSUME NEW o \in Outpoint, s.cand[t].votes[o] # {}
          PROVE  s.cand[t].full /\ (t \in q.voted[o] \/ o \in q.forgot)
      <4>1. s.cand[t].full /\ (t \in s.voted[o] \/ o \in s.forgot)
        BY <3>1, <3>2 DEF NodeInv, Noticed
      <4> QED BY <1>3, <1>4, <3>1, <3>2, <4>1
    <3> QED BY <3>1, <3>2 DEF NodeInv, Noticed
  <2>2. ASSUME NEW t \in Tx, NEW u \in Tx, NEW o \in Outpoint \ q.forgot, t # u,
               Exists(q, t), Exists(q, u), q.cand[t].votes[o] \cap q.cand[u].votes[o] # {}
        PROVE  o \in q.cand[t].attacked /\ o \in q.cand[u].attacked
    BY SMT, <1>4, <1>7, <2>2 DEF NodeInv, Noticed
  <2> QED BY <2>1, <2>2 DEF Noticed
<1> QED
  BY <1>1, <1>8, <1>9, <1>10, <1>11 DEF NodeInv, q

\* What AddVotes computes: who votes on o, for which other candidates they voted as well,
\* and the outpoints that thereby come under attack in the candidate for u.
VotersOn(V, o) == {v.mn : v \in {w \in V : w.out = o}}
Clash(s, t, V, o) ==
    {u \in s.voted[o] \ {t} : \E m \in VotersOn(V, o) : HasMasternodeVoted(s, u, o, m)}
NewlyAttacked(s, t, V, u) ==
    {o \in Outpoint : IF u = t THEN Clash(s, t, V, o) # {} ELSE u \in Clash(s, t, V, o)}

\* The votes V for t are counted: what AddVotes leaves of a node's state.
LEMMA AddVotesFields ==
    ASSUME NEW s \in NodeState, NEW t \in Tx, Exists(s, t), NEW V \in SUBSET Vote
    PROVE  LET q == AddVotes(s, t, V)
           IN  /\ q \in NodeState
               /\ \A u \in Tx : Exists(q, u) <=> Exists(s, u)
               /\ \A u \in Tx : Exists(s, u) =>
                     /\ q.cand[u].full = s.cand[u].full /\ q.cand[u].req = s.cand[u].req
                     /\ q.cand[u].age = s.cand[u].age
                     /\ q.cand[u].attacked = s.cand[u].attacked \cup NewlyAttacked(s, t, V, u)
                     /\ \A o \in Outpoint :
                           /\ u = t => q.cand[u].votes[o] = s.cand[u].votes[o] \cup VotersOn(V, o)
                           /\ u # t => q.cand[u].votes[o] = s.cand[u].votes[o]
               /\ \A o \in Outpoint : /\ VotersOn(V, o) # {} => q.voted[o] = s.voted[o] \cup {t}
                                      /\ VotersOn(V, o) = {} => q.voted[o] = s.voted[o]
               /\ q.locked = s.locked /\ q.orphan = s.orphan /\ q.forgot = s.forgot
               /\ q.pool = s.pool /\ q.mined = s.mined /\ q.cached = s.cached
<1> DEFINE q == AddVotes(s, t, V)
           votes(u) == [o \in Outpoint |-> s.cand[u].votes[o] \cup (IF u = t THEN VotersOn(V, o) ELSE {})]
           noted(u) == [s.cand[u] EXCEPT !.votes = votes(u), !.attacked = s.cand[u].attacked \cup NewlyAttacked(s, t, V, u)]
           cand == [u \in Tx |-> IF Exists(s, u) THEN noted(u) ELSE s.cand[u]]
           voted == [o \in Outpoint |-> IF VotersOn(V, o) # {} THEN s.voted[o] \cup {t} ELSE s.voted[o]]
<1>1. q = [s EXCEPT !.cand = cand, !.voted = voted]
  BY DEF AddVotes, VotersOn, Clash, NewlyAttacked
<1>2. \A o \in Outpoint : VotersOn(V, o) \subseteq Masternode
  BY DEF Vote, VotersOn
<1>3. \A u : NewlyAttacked(s, t, V, u) \subseteq Outpoint
  BY DEF NewlyAttacked
<1>4. ASSUME NEW u \in Tx, Exists(s, u)
      PROVE  votes(u) \in [Outpoint -> SUBSET Masternode]
  BY SMT, <1>2, <1>4, CandidateFields
<1>5. ASSUME NEW u \in Tx, Exists(s, u)
      PROVE  /\ noted(u) \in Candidate /\ noted(u).votes = votes(u)
             /\ noted(u).attacked = s.cand[u].attacked \cup NewlyAttacked(s, t, V, u)
             /\ noted(u).full = s.cand[u].full /\ noted(u).req = s.cand[u].req
             /\ noted(u).age = s.cand[u].age
  <2>1. s.cand[u] \in Candidate /\ votes(u) \in [Outpoint -> SUBSET Masternode]
    BY <1>4, <1>5, CandidateFields
  <2> HIDE DEF votes
  <2> QED BY <2>1, <1>3 DEF Candidate
<1> HIDE DEF noted
<1>7. cand \in [Tx -> Candidate \cup {NoCandidate}]
  BY <1>5, Fields
<1>8. voted \in [Outpoint -> SUBSET Tx]
  BY SMT, Fields
<1>9. /\ q \in NodeState /\ q.cand = cand /\ q.voted = voted
      /\ q.locked = s.locked /\ q.orphan = s.orphan /\ q.forgot = s.forgot
      /\ q.pool = s.pool /\ q.mined = s.mined /\ q.cached = s.cached
  <2> HIDE DEF cand, voted, q
  <2> QED BY <1>1, <1>7, <1>8 DEF NodeState
<1> HIDE DEF q
<1>10. ASSUME NEW u \in Tx PROVE Exists(q, u) <=> Exists(s, u)
  <2>1. q.cand[u] = IF Exists(s, u) THEN noted(u) ELSE s.cand[u]
    BY <1>9
  <2>2. Exists(s, u) => noted(u) # NoCandidate
    BY <1>5, NoCandidateAssumption
  <2> QED BY <2>1, <2>2 DEF Exists
<1>11. ASSUME NEW u \in Tx, Exists(s, u)
       PROVE  /\ q.cand[u].full = s.cand[u].full /\ q.cand[u].req = s.cand[u].req
              /\ q.cand[u].age = s.cand[u].age
              /\ q.cand[u].attacked = s.cand[u].attacked \cup NewlyAttacked(s, t, V, u)
              /\ \A o \in Outpoint :
                    /\ u = t => q.cand[u].votes[o] = s.cand[u].votes[o] \cup VotersOn(V, o)
                    /\ u # t => q.cand[u].votes[o] = s.cand[u].votes[o]
  <2>1. q.cand[u] = noted(u)
    BY <1>9, <1>11
  <2>2. \A o \in Outpoint : /\ u = t => votes(u)[o] = s.cand[u].votes[o] \cup VotersOn(V, o)
                            /\ u # t => votes(u)[o] = s.cand[u].votes[o]
    OBVIOUS
  <2> HIDE DEF votes
  <2> QED BY SMT, <1>5, <1>11, <2>1, <2>2
<1>12. \A o \in Outpoint : /\ VotersOn(V, o) # {} => q.voted[o] = s.voted[o] \cup {t}
                           /\ VotersOn(V, o) = {} => q.voted[o] = s.voted[o]
  BY <1>9
<1> QED
  BY <1>9, <1>10, <1>11, <1>12 DEF q

\* A masternode's vote for a second candidate is noticed in both.
LEMMA AddVotesInv ==
    ASSUME NEW S \in SUBSET Vote, NEW s, NodeInv(s, S), NEW t \in Tx, Exists(s, t), s.cand[t].full,
           NEW V \in SUBSET S, \A v \in V : v.tx = t
    PROVE  NodeInv(AddVotes(s, t, V), S)
<1> DEFINE q == AddVotes(s, t, V)
<1>0. s \in NodeState /\ V \in SUBSET Vote
  BY DEF NodeInv
<1>1. q \in NodeState /\ \A u \in Tx : Exists(q, u) <=> Exists(s, u)
  BY <1>0, AddVotesFields
<1>2. \A u \in Tx : Exists(s, u) =>
        /\ q.cand[u].full = s.cand[u].full /\ q.cand[u].req = s.cand[u].req
        /\ q.cand[u].age = s.cand[u].age
        /\ q.cand[u].attacked = s.cand[u].attacked \cup NewlyAttacked(s, t, V, u)
        /\ \A o \in Outpoint :
              /\ u = t => q.cand[u].votes[o] = s.cand[u].votes[o] \cup VotersOn(V, o)
              /\ u # t => q.cand[u].votes[o] = s.cand[u].votes[o]
  BY SMT, <1>0, AddVotesFields
<1>3. \A o \in Outpoint : /\ VotersOn(V, o) # {} => q.voted[o] = s.voted[o] \cup {t}
                          /\ VotersOn(V, o) = {} => q.voted[o] = s.voted[o]
  BY SMT, <1>0, AddVotesFields
<1>4. /\ q.locked = s.locked /\ q.orphan = s.orphan /\ q.forgot = s.forgot
      /\ q.pool = s.pool /\ q.mined = s.mined
  BY SMT, <1>0, AddVotesFields
<1>5. ASSUME NEW o \in Outpoint, NEW m \in VotersOn(V, o)
      PROVE  VoteOf(t, o, m) \in S /\ o \in Inputs[t]
  <2>1. PICK v \in V : v.out = o /\ v.mn = m /\ v.tx = t /\ v \in Vote
    BY <1>0, <1>5 DEF VotersOn
  <2>2. v = VoteOf(t, o, m) /\ o \in Inputs[t]
    BY <2>1 DEF Vote, VoteOf
  <2> QED BY <2>1, <2>2
<1>6. ASSUME NEW o \in Outpoint, NEW u \in s.voted[o], u # t, NEW m \in VotersOn(V, o),
             HasMasternodeVoted(s, u, o, m)
      PROVE  o \in NewlyAttacked(s, t, V, t) /\ o \in NewlyAttacked(s, t, V, u)
  BY <1>6 DEF NewlyAttacked, Clash
<1> HIDE DEF q
<1>7. Backing(q, S)
  <2>1. ASSUME NEW u \in Tx, NEW o \in Outpoint, Exists(q, u), NEW m \in q.cand[u].votes[o]
        PROVE  VoteOf(u, o, m) \in S
    <3>1. Exists(s, u) /\ (m \in s.cand[u].votes[o] \/ (u = t /\ m \in VotersOn(V, o)))
      BY SMT, <1>1, <1>2, <2>1
    <3> QED BY <1>5, <3>1 DEF NodeInv, Backing
  <2> QED BY <1>4, <2>1 DEF NodeInv, Backing
<1>8. Respect(q)
  BY SMT, <1>4 DEF NodeInv, Respect, Mined
<1>9. Kept(q)
  <2>1. ASSUME NEW o \in Outpoint, NEW u \in q.voted[o]
        PROVE  Exists(q, u) /\ q.cand[u].full /\ o \in Inputs[u]
    <3>1. CASE u \in s.voted[o]
      <4>1. u \in Tx /\ Exists(s, u) /\ s.cand[u].full /\ o \in Inputs[u]
        BY SMT, <1>0, <3>1, Fields DEF NodeInv, Kept
      <4> QED BY <1>1, <1>2, <4>1
    <3>2. CASE u \notin s.voted[o]
      <4>1. u = t /\ VotersOn(V, o) # {}
        BY <1>3, <2>1, <3>2
      <4>2. o \in Inputs[t]
        BY <1>5, <4>1
      <4> QED BY <1>1, <1>2, <4>1, <4>2
    <3> QED BY <3>1, <3>2
  <2>2. ASSUME NEW o \in Outpoint, q.locked[o] # NoTx
        PROVE  Exists(q, q.locked[o]) /\ q.cand[q.locked[o]].full
    <3>1. s.locked[o] \in Tx /\ Exists(s, s.locked[o]) /\ s.cand[s.locked[o]].full
      BY SMT, <1>0, <1>4, <2>2, Fields DEF NodeInv, Kept
    <3> QED BY <1>1, <1>2, <1>4, <3>1
  <2> QED BY <2>1, <2>2 DEF Kept
<1>10. Noticed(q)
  <2>1. ASSUME NEW u \in Tx, Exists(q, u)
        PROVE  /\ q.cand[u].full => q.cand[u].req
               /\ q.cand[u].req /\ q.cand[u].age = 0 => q.cand[u].full
    BY <1>1, <1>2, <2>1 DEF NodeInv, Noticed
  <2>2. ASSUME NEW u \in Tx, Exists(q, u), NEW o \in Outpoint, q.cand[u].votes[o] # {}
        PROVE  q.cand[u].full /\ (u \in q.voted[o] \/ o \in q.forgot)
    <3>0. Exists(s, u) /\ q.cand[u].full = s.cand[u].full
      BY <1>1, <1>2, <2>2
    <3>1. CASE s.cand[u].votes[o] # {}
      <4>1. s.cand[u].full /\ (u \in s.voted[o] \/ o \in s.forgot)
        BY <3>0, <3>1 DEF NodeInv, Noticed
      <4> QED BY <1>3, <1>4, <3>0, <4>1
    <3>2. CASE s.cand[u].votes[o] = {}
      <4>1. u = t /\ VotersOn(V, o) # {}
        BY <1>2, <2>2, <3>0, <3>2
      <4> QED BY <1>3, <3>0, <4>1
    <3> QED BY <3>1, <3>2
  <2>3. ASSUME NEW u \in Tx, u # t, Exists(q, u), NEW o \in Outpoint \ q.forgot,
               q.cand[t].votes[o] \cap q.cand[u].votes[o] # {}
        PROVE  o \in q.cand[t].attacked /\ o \in q.cand[u].attacked
    <3>0. Exists(s, u) /\ o \in Outpoint \ s.forgot
      BY <1>1, <1>4, <2>3
    <3>1. PICK m : m \in q.cand[t].votes[o] /\ m \in s.cand[u].votes[o]
      BY <1>2, <2>3, <3>0
    <3>2. CASE m \in s.cand[t].votes[o]
      <4>1. o \in s.cand[t].attacked /\ o \in s.cand[u].attacked
        BY <2>3, <3>0, <3>1, <3>2 DEF NodeInv, Noticed
      <4> QED BY <1>2, <3>0, <4>1
    <3>3. CASE m \notin s.cand[t].votes[o]
      <4>1. m \in VotersOn(V, o)
        BY SMT, <1>2, <3>1, <3>3
      <4>2. s.cand[u].full /\ u \in s.voted[o]
        BY <3>0, <3>1 DEF NodeInv, Noticed
      <4>3. HasMasternodeVoted(s, u, o, m)
        BY <3>0, <3>1, <4>2 DEF HasMasternodeVoted
      <4>4. o \in NewlyAttacked(s, t, V, t) /\ o \in NewlyAttacked(s, t, V, u)
        BY <1>6, <2>3, <4>1, <4>2, <4>3
      <4> QED BY <1>2, <3>0, <4>4
    <3> QED BY <3>2, <3>3
  <2>4. ASSUME NEW u \in Tx, NEW w \in Tx, NEW o \in Outpoint \ q.forgot, u # w, u # t, w # t,
               Exists(q, u), Exists(q, w), q.cand[u].votes[o] \cap q.cand[w].votes[o] # {}
        PROVE  o \in q.cand[u].attacked /\ o \in q.cand[w].attacked
    <3>1. /\ Exists(s, u) /\ Exists(s, w) /\ o \in Outpoint \ s.forgot
          /\ s.cand[u].votes[o] \cap s.cand[w].votes[o] # {}
      BY <1>1, <1>2, <1>4, <2>4
    <3>2. o \in s.cand[u].attacked /\ o \in s.cand[w].attacked
      BY <2>4, <3>1 DEF NodeInv, Noticed
    <3> QED BY <1>2, <3>1, <3>2
  <2>5. ASSUME NEW u \in Tx, NEW w \in Tx, NEW o \in Outpoint \ q.forgot, u # w,
               Exists(q, u), Exists(q, w), q.cand[u].votes[o] \cap q.cand[w].votes[o] # {}
        PROVE  o \in q.cand[u].attacked /\ o \in q.cand[w].attacked
    <3>1. CASE u = t
      BY <2>3, <2>5, <3>1
    <3>2. CASE w = t
      <4>1. q.cand[t].votes[o] \cap q.cand[u].votes[o] # {}
        BY <2>5, <3>2
      <4> QED BY <2>3, <2>5, <3>2, <4>1
    <3> QED BY <2>4, <2>5, <3>1, <3>2
  <2> QED BY <2>1, <2>2, <2>5 DEF Noticed
<1> QED
  BY <1>1, <1>7, <1>8, <1>9, <1>10 DEF NodeInv, q

LEMMA SetCandidate ==
    ASSUME NEW s \in NodeState, NEW t \in Tx, NEW c \in Candidate
    PROVE  LET r == [s EXCEPT !.cand[t] = c]
           IN  /\ r \in NodeState /\ r.cand[t] = c /\ \A u \in Tx \ {t} : r.cand[u] = s.cand[u]
               /\ r.orphan = s.orphan /\ r.voted = s.voted /\ r.locked = s.locked
               /\ r.forgot = s.forgot /\ r.pool = s.pool /\ r.mined = s.mined
               /\ r.cached = s.cached
<1> DEFINE d == [s.cand EXCEPT ![t] = c]
           r == [s EXCEPT !.cand = d]
<1>1. d \in [Tx -> Candidate \cup {NoCandidate}] /\ d[t] = c /\ \A u \in Tx \ {t} : d[u] = s.cand[u]
  BY Fields
<1>2. r \in NodeState /\ r.cand = d
  <2> HIDE DEF d
  <2> QED BY <1>1 DEF NodeState
<1>3. /\ r.orphan = s.orphan /\ r.voted = s.voted /\ r.locked = s.locked /\ r.forgot = s.forgot
      /\ r.pool = s.pool /\ r.mined = s.mined /\ r.cached = s.cached
  <2> HIDE DEF d
  <2> QED BY DEF NodeState
<1>4. r = [s EXCEPT !.cand[t] = c]
  OBVIOUS
<1> HIDE DEF r, d
<1> QED BY <1>1, <1>2, <1>3, <1>4

\* A candidate that is new, or had not got its outpoints yet, is set to c without votes;
\* or c has the votes of the candidate it replaces.
LEMMA SetCandidateInv ==
    ASSUME NEW S \in SUBSET Vote, NEW s, NodeInv(s, S), NEW t \in Tx, NEW c \in Candidate,
           c.full => c.req, c.req /\ c.age = 0 => c.full,
           \/ /\ Exists(s, t) /\ c.votes = s.cand[t].votes /\ c.attacked = s.cand[t].attacked
              /\ c.full = s.cand[t].full
           \/ (Exists(s, t) => ~s.cand[t].full) /\ \A o \in Outpoint : c.votes[o] = {}
    PROVE  NodeInv([s EXCEPT !.cand[t] = c], S)
<1> DEFINE r == [s EXCEPT !.cand[t] = c]
<1>0. s \in NodeState
  BY DEF NodeInv
<1>1. /\ r \in NodeState /\ r.cand[t] = c /\ \A u \in Tx \ {t} : r.cand[u] = s.cand[u]
      /\ r.orphan = s.orphan /\ r.voted = s.voted /\ r.locked = s.locked
      /\ r.forgot = s.forgot /\ r.pool = s.pool /\ r.mined = s.mined
  BY SMT, <1>0, SetCandidate
<1> HIDE DEF r
<1>2. Exists(r, t) /\ \A u \in Tx \ {t} : Exists(r, u) <=> Exists(s, u)
  BY <1>1, NoCandidateAssumption DEF Exists
<1>3. Backing(r, S)
  <2>1. ASSUME NEW u \in Tx, NEW o \in Outpoint, Exists(r, u), NEW m \in r.cand[u].votes[o]
        PROVE  VoteOf(u, o, m) \in S
    <3>1. Exists(s, u) /\ m \in s.cand[u].votes[o]
      BY <1>1, <1>2, <2>1
    <3> QED BY <3>1 DEF NodeInv, Backing
  <2> QED BY <1>1, <2>1 DEF NodeInv, Backing
<1>4. Respect(r)
  BY SMT, <1>1 DEF NodeInv, Respect, Mined
<1>5. ASSUME NEW u \in Tx, Exists(s, u), s.cand[u].full
      PROVE  Exists(r, u) /\ r.cand[u].full
  BY <1>1, <1>2, <1>5
<1>6. Kept(r)
  BY SMT, <1>0, <1>1, <1>5, Fields DEF NodeInv, Kept
<1>7. Noticed(r)
  <2>1. ASSUME NEW u \in Tx, Exists(r, u)
        PROVE  /\ r.cand[u].full => r.cand[u].req
               /\ r.cand[u].req /\ r.cand[u].age = 0 => r.cand[u].full
    BY SMT, <1>1, <1>2, <2>1 DEF NodeInv, Noticed
  <2>2. ASSUME NEW u \in Tx, Exists(r, u), NEW o \in Outpoint, r.cand[u].votes[o] # {}
        PROVE  /\ r.cand[u].full /\ (u \in r.voted[o] \/ o \in r.forgot)
               /\ Exists(s, u) /\ r.cand[u].votes[o] = s.cand[u].votes[o]
               /\ r.cand[u].attacked = s.cand[u].attacked
    <3>1. /\ Exists(s, u) /\ r.cand[u].votes[o] = s.cand[u].votes[o]
          /\ r.cand[u].full = s.cand[u].full /\ r.cand[u].attacked = s.cand[u].attacked
      BY <1>1, <1>2, <2>2
    <3>2. s.cand[u].full /\ (u \in s.voted[o] \/ o \in s.forgot)
      BY <2>2, <3>1 DEF NodeInv, Noticed
    <3> QED BY <1>1, <3>1, <3>2
  <2>3. ASSUME NEW u \in Tx, NEW w \in Tx, NEW o \in Outpoint \ r.forgot, u # w,
               Exists(r, u), Exists(r, w), r.cand[u].votes[o] \cap r.cand[w].votes[o] # {}
        PROVE  o \in r.cand[u].attacked /\ o \in r.cand[w].attacked
    <3>1. r.cand[u].votes[o] # {} /\ r.cand[w].votes[o] # {}
      BY <2>3
    <3>2. /\ Exists(s, u) /\ r.cand[u].votes[o] = s.cand[u].votes[o] /\ r.cand[u].attacked = s.cand[u].attacked
          /\ Exists(s, w) /\ r.cand[w].votes[o] = s.cand[w].votes[o] /\ r.cand[w].attacked = s.cand[w].attacked
      BY <2>2, <2>3, <3>1
    <3>3. o \in Outpoint \ s.forgot /\ s.cand[u].votes[o] \cap s.cand[w].votes[o] # {}
      BY <1>1, <2>3, <3>2
    <3>4. o \in s.cand[u].attacked /\ o \in s.cand[w].attacked
      BY <2>3, <3>2, <3>3 DEF NodeInv, Noticed
    <3> QED BY <3>2, <3>4
  <2> QED BY <2>1, <2>2, <2>3 DEF Noticed
<1> QED
  BY <1>1, <1>3, <1>4, <1>6, <1>7 DEF NodeInv, r

LEMMA NoVotes ==
    /\ EmptyCandidate \in Candidate /\ ~EmptyCandidate.req /\ ~EmptyCandidate.full
    /\ NewCandidate \in Candidate /\ NewCandidate.req /\ NewCandidate.full /\ NewCandidate.age = 0
    /\ \A o \in Outpoint : EmptyCandidate.votes[o] = {} /\ NewCandidate.votes[o] = {}
<1>1. EmptyCandidate \in Candidate
  BY SMT DEF EmptyCandidate, Candidate, Heights
<1>2. NewCandidate \in Candidate
  BY <1>1 DEF NewCandidate, Candidate
<1>3. /\ NewCandidate.req = TRUE /\ NewCandidate.full = TRUE /\ NewCandidate.age = 0
      /\ NewCandidate.votes = [o \in Outpoint |-> {}]
  BY DEF NewCandidate, EmptyCandidate
<1> QED
  BY <1>1, <1>2, <1>3 DEF EmptyCandidate

\* The heights a candidate may be given.
LEMMA HeightTypes ==
    /\ Unconfirmed \in Heights /\ 0 \in Heights
    /\ \A h \in FirstHeight..(FirstHeight + MaxBlocks) : h \in Heights
  BY DEF Heights

\* Only the height or the age of a candidate changes.
LEMMA ChangeCandidate ==
    ASSUME NEW S \in SUBSET Vote, NEW s, NodeInv(s, S), NEW t \in Tx, Exists(s, t),
           NEW c \in Candidate, c.req = s.cand[t].req, c.full = s.cand[t].full,
           c.votes = s.cand[t].votes, c.attacked = s.cand[t].attacked,
           c.age = 0 => s.cand[t].age = 0
    PROVE  NodeInv([s EXCEPT !.cand[t] = c], S)
<1>1. /\ s.cand[t].full => s.cand[t].req
      /\ s.cand[t].req /\ s.cand[t].age = 0 => s.cand[t].full
  BY DEF NodeInv, Noticed
<1> QED
  BY <1>1, SetCandidateInv

\* Two conflicting candidates are dropped together (ResolveConflicts).
LEMMA DropBothInv ==
    ASSUME NEW S \in SUBSET Vote, NEW s, NodeInv(s, S), NEW t \in Tx, NEW u \in Tx
    PROVE  NodeInv(DropBoth(s, t, u), S)
<1>1. CASE ~Exists(s, t) \/ ~Exists(s, u)
  BY <1>1 DEF DropBoth
<1>2. CASE Exists(s, t) /\ Exists(s, u)
  <2> DEFINE ct == [s.cand[t] EXCEPT !.height = 0]
             s1 == [s EXCEPT !.cand[t] = ct]
             cu == [s1.cand[u] EXCEPT !.height = 0]
             s2 == [s1 EXCEPT !.cand[u] = cu]
             r == CheckAndRemove(s2)
             q == [r EXCEPT !.rejected = r.rejected \cup {t, u}]
  <2>1. s \in NodeState /\ s.cand[t] \in Candidate
    BY <1>2, CandidateFields DEF NodeInv
  <2>2. /\ ct \in Candidate /\ ct.req = s.cand[t].req /\ ct.full = s.cand[t].full
        /\ ct.votes = s.cand[t].votes /\ ct.attacked = s.cand[t].attacked /\ ct.age = s.cand[t].age
    BY <2>1, HeightTypes DEF Candidate
  <2> HIDE DEF ct
  <2>3. NodeInv(s1, S)
    BY <1>2, <2>2, ChangeCandidate
  <2>4. s1 \in NodeState /\ s1.cand[t] = ct /\ \A v \in Tx \ {t} : s1.cand[v] = s.cand[v]
    BY SMT, <2>1, <2>2, SetCandidate
  <2> HIDE DEF s1
  <2>5. Exists(s1, u)
    BY <1>2, <2>2, <2>4, NoCandidateAssumption DEF Exists
  <2>6. s1.cand[u] \in Candidate
    BY <2>4, <2>5, CandidateFields
  <2>7. /\ cu \in Candidate /\ cu.req = s1.cand[u].req /\ cu.full = s1.cand[u].full
        /\ cu.votes = s1.cand[u].votes /\ cu.attacked = s1.cand[u].attacked /\ cu.age = s1.cand[u].age
    BY <2>6, HeightTypes DEF Candidate
  <2> HIDE DEF cu
  <2>8. NodeInv(s2, S)
    BY <2>3, <2>5, <2>7, ChangeCandidate
  <2> HIDE DEF s2
  <2>9. NodeInv(r, S)
    BY <2>8, CheckAndRemoveInv
  <2>10. r \in NodeState
    BY <2>9 DEF NodeInv
  <2> HIDE DEF r
  <2>11. /\ q \in NodeState /\ q.cand = r.cand /\ q.orphan = r.orphan /\ q.voted = r.voted
         /\ q.locked = r.locked /\ q.forgot = r.forgot /\ q.pool = r.pool /\ q.mined = r.mined
    BY <2>10 DEF NodeState
  <2>12. NodeInv(q, S)
    BY <2>9, <2>11, Unrelated DEF SameCandidate, Exists
  <2>13. s2 = [s EXCEPT !.cand[t].height = 0, !.cand[u].height = 0]
    BY <2>1 DEF s1, s2, ct, cu
  <2>14. DropBoth(s, t, u) = q
    BY <1>2, <2>13 DEF DropBoth, r
  <2> QED BY <2>12, <2>14
<1> QED
  BY <1>1, <1>2

\* A lock is taken on enough votes, and only where nothing conflicts in the mempool, in
\* the chain or among the locks.
LEMMA TryToFinalizeInv ==
    ASSUME NEW S \in SUBSET Vote, NEW s, NodeInv(s, S), NEW t \in Tx, Exists(s, t),
           NEW c \in Candidate, c.full = s.cand[t].full,
           \A o \in Outpoint : \A m \in c.votes[o] : VoteOf(t, o, m) \in S
    PROVE  NodeInv(TryToFinalize(s, c, t), S)
<1> DEFINE lockedByOther(o) == s.locked[o] \notin {t, NoTx}
           inPool(o) == \E u \in s.pool \ {t} : o \in Inputs[u]
           conflicts == {o \in Inputs[t] : lockedByOther(o) \/ inPool(o)}
           first == CHOOSE o \in conflicts : TRUE
           L == [o \in Outpoint |-> IF o \in Inputs[t] /\ s.locked[o] = NoTx THEN t ELSE s.locked[o]]
           r == [s EXCEPT !.locked = L]
<1>0. s \in NodeState /\ Inputs[t] \subseteq Outpoint
  BY InstantSendAssumption DEF NodeInv
<1>1. CASE ~IsAllOutPointsReady(c, t) \/ IsLocked(s, t)
  BY <1>1 DEF TryToFinalize
<1>2. CASE ~(~IsAllOutPointsReady(c, t) \/ IsLocked(s, t)) /\ conflicts # {}
  <2>1. first \in Outpoint
    BY <1>0, <1>2
  <2>2. CASE lockedByOther(first)
    <3>1. s.locked[first] \in Tx
      <4>1. s.locked[first] \in Tx \cup {NoTx}
        <5> HIDE DEF first
        <5> QED BY <1>0, <2>1, Fields
      <4> QED BY <2>2, <4>1
    <3>2. TryToFinalize(s, c, t) = DropBoth(s, t, s.locked[first])
      BY <1>2, <2>2 DEF TryToFinalize
    <3> HIDE DEF first
    <3> QED BY <3>1, <3>2, DropBothInv
  <2>3. CASE ~lockedByOther(first)
    BY <1>2, <2>3 DEF TryToFinalize
  <2> QED BY <2>2, <2>3
<1>3. CASE /\ ~(~IsAllOutPointsReady(c, t) \/ IsLocked(s, t)) /\ conflicts = {}
           /\ ~Mined(s, t) /\ ~RequestValid(s, t)
  BY <1>3 DEF TryToFinalize
<1>4. CASE /\ IsAllOutPointsReady(c, t) /\ ~IsLocked(s, t) /\ conflicts = {}
           /\ Mined(s, t) \/ RequestValid(s, t)
  <2>1. TryToFinalize(s, c, t) = r
    BY <1>4 DEF TryToFinalize
  <2>2. L \in [Outpoint -> Tx \cup {NoTx}]
    BY <1>0, Fields
  <2>3. \A o \in Outpoint : L[o] # NoTx => L[o] = s.locked[o] \/ (L[o] = t /\ o \in Inputs[t])
    OBVIOUS
  <2> HIDE DEF L
  <2>4. /\ r \in NodeState /\ r.locked = L /\ r.cand = s.cand /\ r.orphan = s.orphan
        /\ r.voted = s.voted /\ r.forgot = s.forgot /\ r.pool = s.pool /\ r.mined = s.mined
    BY <1>0, <2>2 DEF NodeState
  <2> HIDE DEF r
  <2>5. \A o \in Inputs[t] : Backed(S, t, o)
    BY <1>4, ReadyBacked
  <2>6. c.full
    BY <1>4 DEF IsAllOutPointsReady
  <2>7. Backing(r, S)
    BY <2>3, <2>4, <2>5 DEF NodeInv, Backing, Exists
  <2>8. ASSUME NEW o \in Inputs[t], NEW u \in Tx, u # t, o \in Inputs[u]
        PROVE  u \notin s.pool /\ ~Mined(s, u)
    <3>1. u \notin s.pool
      BY <1>4, <2>8
    <3>2. CASE Mined(s, t)
      BY <2>8, <3>1, <3>2 DEF NodeInv, Respect
    <3>3. CASE RequestValid(s, t)
      BY <2>8, <3>1, <3>3 DEF RequestValid, Spent
    <3> QED BY <1>4, <3>2, <3>3
  <2>9. Respect(r)
    BY SMT, <2>3, <2>4, <2>8 DEF NodeInv, Respect, Mined
  <2>10. Kept(r)
    BY <2>3, <2>4, <2>6 DEF NodeInv, Kept, Exists
  <2>11. Noticed(r)
    BY SMT, <2>4 DEF NodeInv, Noticed, Exists
  <2> QED BY <2>1, <2>4, <2>7, <2>9, <2>10, <2>11 DEF NodeInv
<1> QED
  BY <1>1, <1>2, <1>3, <1>4

\* A new candidate has no votes; an empty one gets its request and its outpoint locks.
LEMMA CreateTxLockCandidateInv ==
    ASSUME NEW S \in SUBSET Vote, NEW s, NodeInv(s, S), NEW t \in Tx
    PROVE  /\ NodeInv(CreateTxLockCandidate(s, t), S)
           /\ Created(s, t) => LET r == CreateTxLockCandidate(s, t)
                               IN  Exists(r, t) /\ r.cand[t].req
<1> DEFINE r == CreateTxLockCandidate(s, t)
<1>0. s \in NodeState
  BY DEF NodeInv
<1>1. CASE ~RequestValid(s, t)
  BY <1>1 DEF CreateTxLockCandidate, Created
<1>2. CASE RequestValid(s, t) /\ ~Exists(s, t)
  <2>1. r = [s EXCEPT !.cand[t] = NewCandidate]
    BY <1>2 DEF CreateTxLockCandidate
  <2> HIDE DEF r
  <2>2. NodeInv(r, S)
    BY <1>2, <2>1, NoVotes, SetCandidateInv
  <2>3. r.cand[t] = NewCandidate
    BY SMT, <1>0, <2>1, NoVotes, SetCandidate
  <2> QED BY <2>2, <2>3, NoVotes, NoCandidateAssumption DEF Exists, r
<1>3. CASE RequestValid(s, t) /\ Exists(s, t) /\ ~s.cand[t].req
  <2> DEFINE c == [s.cand[t] EXCEPT !.req = TRUE, !.full = (s.cand[t].age = 0)]
  <2>1. r = [s EXCEPT !.cand[t].req = TRUE, !.cand[t].full = (s.cand[t].age = 0)]
    BY <1>3 DEF CreateTxLockCandidate
  <2>2. s.cand[t] \in Candidate
    BY <1>0, <1>3, CandidateFields
  <2>3. /\ c \in Candidate /\ c.req /\ c.full = (c.age = 0)
        /\ c.votes = s.cand[t].votes
    BY <2>2 DEF Candidate
  <2>4. r = [s EXCEPT !.cand[t] = c]
    BY <1>0, <2>1 DEF NodeState
  <2> HIDE DEF c, r
  <2>5. ~s.cand[t].full /\ \A o \in Outpoint : c.votes[o] = {}
    BY <1>3, <2>3 DEF NodeInv, Noticed
  <2>6. NodeInv(r, S)
    BY <2>3, <2>4, <2>5, SetCandidateInv
  <2>7. r.cand[t] = c
    BY SMT, <1>0, <2>3, <2>4, SetCandidate
  <2> QED BY <2>3, <2>6, <2>7, NoCandidateAssumption DEF Exists, r
<1>4. CASE RequestValid(s, t) /\ Exists(s, t) /\ s.cand[t].req
  BY <1>4 DEF CreateTxLockCandidate
<1> QED
  BY <1>1, <1>2, <1>3, <1>4

\* The votes that came before the request are counted like the others.
LEMMA ProcessOrphanTxLockVotesInv ==
    ASSUME NEW S \in SUBSET Vote, NEW s, NodeInv(s, S), NEW t \in Tx, Exists(s, t), s.cand[t].req
    PROVE  LET p == ProcessOrphanTxLockVotes(s, t) IN NodeInv(p, S) /\ Exists(p, t)
<1> DEFINE V == {v \in s.orphan : v.tx = t /\ v.mn \notin s.cand[t].votes[v.out]}
           a == AddVotes(s, t, V)
           p == [a EXCEPT !.orphan = a.orphan \ V]
<1>0. s \in NodeState /\ s.orphan \subseteq S /\ V \in SUBSET S /\ \A v \in V : v.tx = t
  BY DEF NodeInv, Backing
<1>1. CASE s.cand[t].age # 0
  BY <1>1 DEF ProcessOrphanTxLockVotes
<1>2. CASE s.cand[t].age = 0
  <2>1. s.cand[t].full
    BY <1>2 DEF NodeInv, Noticed
  <2>2. ProcessOrphanTxLockVotes(s, t) = p
    BY <1>2 DEF ProcessOrphanTxLockVotes
  <2> HIDE DEF V
  <2>3. NodeInv(a, S)
    BY <1>0, <2>1, AddVotesInv
  <2>4. Exists(a, t) /\ a \in NodeState
    BY <1>0, AddVotesFields
  <2> HIDE DEF a
  <2>5. /\ p \in NodeState /\ p.cand = a.cand /\ p.voted = a.voted /\ p.locked = a.locked
        /\ p.forgot = a.forgot /\ p.pool = a.pool /\ p.mined = a.mined /\ p.orphan = a.orphan \ V
    BY <2>4 DEF NodeState
  <2> HIDE DEF p
  <2>0. a.orphan \subseteq S /\ Backing(a, S) /\ Respect(a) /\ Kept(a) /\ Noticed(a)
    BY <2>3 DEF NodeInv, Backing
  <2>6. Backing(p, S)
    BY <2>0, <2>5, BackingSame
  <2>7. Respect(p)
    BY <2>0, <2>5, RespectSame
  <2>8. Kept(p)
    BY <2>0, <2>5, KeptSame
  <2>9. Noticed(p)
    BY <2>0, <2>5, NoticedGrows
  <2> QED BY <2>2, <2>4, <2>5, <2>6, <2>7, <2>8, <2>9 DEF NodeInv, Exists
<1> QED
  BY <1>1, <1>2

\* The three together.
LEMMA ProcessTxLockRequestInv ==
    ASSUME NEW S \in SUBSET Vote, NEW s, NodeInv(s, S), NEW t \in Tx
    PROVE  NodeInv(ProcessTxLockRequest(s, t), S)
<1> DEFINE r == CreateTxLockCandidate(s, t)
           p == ProcessOrphanTxLockVotes(r, t)
<1>1. NodeInv(r, S) /\ (Created(s, t) => Exists(r, t) /\ r.cand[t].req)
  BY CreateTxLockCandidateInv
<1>2. CASE Created(s, t)
  <2>1. NodeInv(p, S) /\ Exists(p, t)
    <3> HIDE DEF r
    <3> QED BY <1>1, <1>2, ProcessOrphanTxLockVotesInv
  <2>2. ProcessTxLockRequest(s, t) = TryToFinalize(p, p.cand[t], t)
    BY <1>2 DEF ProcessTxLockRequest
  <2> HIDE DEF p
  <2>3. p.cand[t] \in Candidate
    BY <2>1, CandidateFields DEF NodeInv
  <2>4. \A o \in Outpoint : \A m \in p.cand[t].votes[o] : VoteOf(t, o, m) \in S
    BY <2>1 DEF NodeInv, Backing
  <2> QED BY <2>1, <2>2, <2>3, <2>4, TryToFinalizeInv
<1>3. CASE ~Created(s, t)
  BY <1>1, <1>3 DEF ProcessTxLockRequest
<1> QED
  BY <1>2, <1>3

\* Mempool and chain change, the locks and candidates do not.
LEMMA ChainChange ==
    ASSUME NEW S \in SUBSET Vote, NEW s, NodeInv(s, S), NEW r \in NodeState, Respect(r),
           r.cand = s.cand, r.orphan = s.orphan, r.voted = s.voted, r.locked = s.locked,
           r.forgot = s.forgot
    PROVE  NodeInv(r, S)
<1>1. Backing(s, S) /\ s.orphan \subseteq S /\ Kept(s) /\ Noticed(s)
  BY DEF NodeInv, Backing
<1>2. Backing(r, S)
  BY <1>1, BackingSame
<1>3. Kept(r)
  BY <1>1, KeptSame
<1>4. Noticed(r)
  BY <1>1, NoticedGrows
<1> QED
  BY <1>2, <1>3, <1>4 DEF NodeInv

\* The mempool takes nothing that spends a locked outpoint.
LEMMA AcceptToMemoryPoolInv ==
    ASSUME NEW S \in SUBSET Vote, NEW s, NodeInv(s, S), NEW t \in Tx, MayEnter(s, t)
    PROVE  NodeInv(AcceptToMemoryPool(s, t), S)
<1> DEFINE r == [s EXCEPT !.pool = s.pool \cup {t}]
<1>0. s \in NodeState
  BY DEF NodeInv
<1>1. /\ r \in NodeState /\ r.cand = s.cand /\ r.orphan = s.orphan /\ r.voted = s.voted
      /\ r.locked = s.locked /\ r.forgot = s.forgot /\ r.mined = s.mined /\ r.pool = s.pool \cup {t}
  BY <1>0 DEF NodeState
<1> HIDE DEF r
<1>2. Respect(r)
  BY SMT, <1>1 DEF NodeInv, Respect, Mined, MayEnter
<1>3. NodeInv(r, S)
  BY <1>1, <1>2, ChainChange
<1> QED
  BY <1>3, SyncTransactionsInv, HeightTypes DEF AcceptToMemoryPool, r

\* Nor does a block, and its transactions do not conflict with the mined ones.
LEMMA ConnectTipInv ==
    ASSUME NEW S \in SUBSET Vote, NEW s, NodeInv(s, S), NEW T \in SUBSET Tx, MayConnect(s, T),
           s.height < FirstHeight + MaxBlocks
    PROVE  NodeInv(ConnectTip(s, T), S)
<1> DEFINE out == {u \in s.pool \ T : \E t \in T : Inputs[u] \cap Inputs[t] # {}}
           mined == [t \in Tx |-> IF t \in T THEN s.height + 1 ELSE s.mined[t]]
           r == [s EXCEPT !.pool = s.pool \ (T \cup out), !.height = s.height + 1, !.mined = mined]
<1>0. s \in NodeState
  BY DEF NodeInv
<1>1. /\ s.height + 1 \in FirstHeight..(FirstHeight + MaxBlocks) /\ s.height + 1 # Unconfirmed
  BY SMT, <1>0, Fields, InstantSendAssumption DEF FirstHeight, Unconfirmed
<1>2. mined \in [Tx -> {Unconfirmed} \cup FirstHeight..(FirstHeight + MaxBlocks)]
  BY <1>0, <1>1, Fields
<1>3. \A t \in Tx : mined[t] # Unconfirmed => t \in T \/ Mined(s, t)
  BY DEF Mined
<1>4. out \in SUBSET Tx
  BY <1>0, Fields
<1> HIDE DEF mined, out
<1>5. /\ r \in NodeState /\ r.cand = s.cand /\ r.orphan = s.orphan /\ r.voted = s.voted
      /\ r.locked = s.locked /\ r.forgot = s.forgot /\ r.mined = mined /\ r.pool = s.pool \ (T \cup out)
  BY <1>0, <1>1, <1>2 DEF NodeState
<1> HIDE DEF r
<1>6. \A t \in Tx : Mined(r, t) => t \in T \/ Mined(s, t)
  BY <1>3, <1>5 DEF Mined
<1>7. Respect(r)
  <2>1. ASSUME NEW o \in Outpoint, NEW u \in Tx, r.locked[o] # NoTx, r.locked[o] # u, o \in Inputs[u]
        PROVE  u \notin r.pool /\ ~Mined(r, u)
    <3>1. u \notin s.pool /\ ~Mined(s, u)
      BY <1>5, <2>1 DEF NodeInv, Respect
    <3>2. u \notin T
      BY SMT, <1>5, <2>1 DEF MayConnect
    <3> QED BY <1>5, <1>6, <3>1, <3>2
  <2>2. ASSUME NEW t \in T, NEW u \in Tx, Mined(s, u)
        PROVE  Inputs[t] \cap Inputs[u] = {}
    BY <2>2 DEF MayConnect, RequestValid, Spent
  <2>3. ASSUME NEW t \in Tx, NEW u \in Tx, t # u, Mined(r, t), Mined(r, u)
        PROVE  Inputs[t] \cap Inputs[u] = {}
    <3>1. CASE t \in T /\ u \in T
      BY <2>3, <3>1 DEF MayConnect
    <3>2. CASE t \in T /\ u \notin T
      BY <1>6, <2>2, <2>3, <3>2
    <3>3. CASE t \notin T /\ u \in T
      <4>1. Inputs[u] \cap Inputs[t] = {}
        BY <1>6, <2>2, <2>3, <3>3
      <4> QED BY <4>1
    <3>4. CASE t \notin T /\ u \notin T
      BY <1>6, <2>3, <3>4 DEF NodeInv, Respect
    <3> QED BY <3>1, <3>2, <3>3, <3>4
  <2> QED BY <2>1, <2>3 DEF Respect
<1>8. NodeInv(r, S)
  BY <1>5, <1>7, ChainChange
<1>9. NodeInv(SyncTransactions(r, out, Unconfirmed), S)
  BY <1>4, <1>8, SyncTransactionsInv, HeightTypes
<1>10. NodeInv(SyncTransactions(SyncTransactions(r, out, Unconfirmed), T, s.height + 1), S)
  BY <1>1, <1>9, SyncTransactionsInv, HeightTypes
<1> QED
  BY <1>10 DEF ConnectTip, r, out, mined

\* What a disconnected block gives back to the mempool meets the same checks.
LEMMA DisconnectTipInv ==
    ASSUME NEW S \in SUBSET Vote, NEW s, NodeInv(s, S), s.height > FirstHeight
    PROVE  NodeInv(DisconnectTip(s), S)
<1> DEFINE T == {t \in Tx : s.mined[t] = s.height}
           mined == [t \in Tx |-> IF t \in T THEN Unconfirmed ELSE s.mined[t]]
           r == [s EXCEPT !.height = s.height - 1, !.mined = mined]
           back == {t \in T : MayEnter(r, t)}
           q == [r EXCEPT !.pool = r.pool \cup back]
<1>0. s \in NodeState
  BY DEF NodeInv
<1>1. s.height - 1 \in FirstHeight..(FirstHeight + MaxBlocks)
  BY SMT, <1>0, Fields, InstantSendAssumption DEF FirstHeight
<1>2. mined \in [Tx -> {Unconfirmed} \cup FirstHeight..(FirstHeight + MaxBlocks)]
  BY <1>0, Fields
<1>3. \A t \in Tx : mined[t] # Unconfirmed => Mined(s, t)
  BY DEF Mined
<1> HIDE DEF mined
<1>4. /\ r \in NodeState /\ r.cand = s.cand /\ r.orphan = s.orphan /\ r.voted = s.voted
      /\ r.locked = s.locked /\ r.forgot = s.forgot /\ r.mined = mined /\ r.pool = s.pool
  BY <1>0, <1>1, <1>2 DEF NodeState
<1> HIDE DEF r
<1>5. back \subseteq Tx /\ \A t \in back : MayEnter(r, t)
  OBVIOUS
<1> HIDE DEF back
<1>6. /\ q \in NodeState /\ q.cand = s.cand /\ q.orphan = s.orphan /\ q.voted = s.voted
      /\ q.locked = s.locked /\ q.forgot = s.forgot /\ q.mined = mined /\ q.pool = s.pool \cup back
  BY <1>4, <1>5 DEF NodeState
<1> HIDE DEF q
<1>7. Respect(q)
  BY SMT, <1>3, <1>4, <1>5, <1>6 DEF NodeInv, Respect, Mined, MayEnter
<1>8. NodeInv(q, S)
  BY <1>6, <1>7, ChainChange
<1>9. NodeInv(SyncTransactions(q, T, Unconfirmed), S)
  BY <1>8, SyncTransactionsInv, HeightTypes
<1> QED
  BY <1>9 DEF DisconnectTip, r, mined, back, q

\* The node's own votes V for t, cast on a complete candidate.
LEMMA CastVotesInv ==
    ASSUME NEW S \in SUBSET Vote, NEW s, NodeInv(s, S), NEW t \in Tx, NEW V \in SUBSET S,
           \A v \in V : v.tx = t, V # {} => Exists(s, t) /\ s.cand[t].full
    PROVE  NodeInv(CastVotes(s, t, V), S)
<1> DEFINE known == [v \in Vote |-> IF v \in V /\ s.known[v] = Unknown THEN Unconfirmed ELSE s.known[v]]
           voted == [o \in Outpoint |-> IF VotersOn(V, o) # {} THEN s.voted[o] \cup {t} ELSE s.voted[o]]
           r == [s EXCEPT !.known = known, !.voted = voted]
           votes == [o \in Outpoint |-> s.cand[t].votes[o] \cup VotersOn(V, o)]
           copy == [s.cand[t] EXCEPT !.votes = votes]
<1>0. s \in NodeState
  BY DEF NodeInv
<1>1. CastVotes(s, t, V) = IF Exists(s, t) THEN TryToFinalize(r, copy, t) ELSE r
  BY DEF CastVotes, VotersOn
<1>2. known \in [Vote -> {Unknown} \cup Heights] /\ voted \in [Outpoint -> SUBSET Tx]
  BY SMT, <1>0, Fields, HeightTypes
<1>3. \A o \in Outpoint : /\ VotersOn(V, o) # {} => voted[o] = s.voted[o] \cup {t}
                          /\ VotersOn(V, o) = {} => voted[o] = s.voted[o]
  OBVIOUS
<1>4. ASSUME NEW o \in Outpoint, NEW m \in VotersOn(V, o)
      PROVE  VoteOf(t, o, m) \in S /\ o \in Inputs[t] /\ m \in Masternode /\ V # {}
  <2>1. PICK v \in V : v.out = o /\ v.mn = m /\ v.tx = t /\ v \in Vote
    BY <1>4 DEF VotersOn
  <2>2. v = VoteOf(t, o, m) /\ o \in Inputs[t] /\ m \in Masternode
    BY <2>1 DEF Vote, VoteOf
  <2> QED BY <2>1, <2>2
<1> HIDE DEF known, voted
<1>5. /\ r \in NodeState /\ r.cand = s.cand /\ r.orphan = s.orphan /\ r.voted = voted
      /\ r.locked = s.locked /\ r.forgot = s.forgot /\ r.pool = s.pool /\ r.mined = s.mined
  BY <1>0, <1>2 DEF NodeState
<1> HIDE DEF r
<1>6. NodeInv(r, S)
  <2>0. s.orphan \subseteq S /\ Backing(s, S) /\ Respect(s) /\ Kept(s) /\ Noticed(s)
    BY DEF NodeInv, Backing
  <2>1. Backing(r, S) /\ Respect(r)
    BY <1>5, <2>0, BackingSame, RespectSame
  <2>2. ASSUME NEW o \in Outpoint, NEW u \in r.voted[o]
        PROVE  Exists(r, u) /\ r.cand[u].full /\ o \in Inputs[u]
    <3>1. CASE u \in s.voted[o]
      BY <1>5, <3>1 DEF NodeInv, Kept, Exists
    <3>2. CASE u \notin s.voted[o]
      <4>1. u = t /\ VotersOn(V, o) # {}
        BY <1>3, <1>5, <2>2, <3>2
      <4> QED BY <1>4, <1>5, <4>1 DEF Exists
    <3> QED BY <3>1, <3>2
  <2>3. Kept(r)
    BY <1>5, <2>2 DEF NodeInv, Kept, Exists
  <2>4. \A o \in Outpoint : s.voted[o] \subseteq r.voted[o]
    BY <1>3, <1>5
  <2>5. Noticed(r)
    BY <1>5, <2>0, <2>4, NoticedGrows
  <2> QED BY <1>5, <2>1, <2>3, <2>5 DEF NodeInv
<1>7. CASE Exists(s, t)
  <2>1. s.cand[t] \in Candidate /\ s.cand[t].votes \in [Outpoint -> SUBSET Masternode]
    BY <1>0, <1>7, CandidateFields
  <2>2. /\ votes \in [Outpoint -> SUBSET Masternode]
        /\ \A o \in Outpoint : votes[o] = s.cand[t].votes[o] \cup VotersOn(V, o)
    BY <1>4, <2>1
  <2> HIDE DEF votes
  <2>3. copy \in Candidate /\ copy.votes = votes /\ copy.full = s.cand[t].full
    BY <2>1, <2>2 DEF Candidate
  <2> HIDE DEF copy
  <2>4. \A o \in Outpoint : \A m \in copy.votes[o] : VoteOf(t, o, m) \in S
    BY <1>4, <1>7, <2>2, <2>3 DEF NodeInv, Backing
  <2>5. Exists(r, t) /\ copy.full = r.cand[t].full
    BY <1>5, <1>7, <2>3 DEF Exists
  <2> QED BY SMT, <1>1, <1>6, <1>7, <2>3, <2>4, <2>5, TryToFinalizeInv
<1> QED
  BY <1>1, <1>6, <1>7

LEMMA StartInv ==
    ASSUME NEW S \in SUBSET Vote
    PROVE  NodeInv(Start, S)
<1>1. Start \in NodeState
  <2>1. FirstHeight \in FirstHeight..(FirstHeight + MaxBlocks)
    BY SMT, InstantSendAssumption DEF FirstHeight
  <2>2. /\ [t \in Tx |-> NoCandidate] \in [Tx -> Candidate \cup {NoCandidate}]
        /\ [v \in Vote |-> Unknown] \in [Vote -> {Unknown} \cup Heights]
        /\ [o \in Outpoint |-> {}] \in [Outpoint -> SUBSET Tx]
        /\ [o \in Outpoint |-> NoTx] \in [Outpoint -> Tx \cup {NoTx}]
        /\ [t \in Tx |-> Unconfirmed] \in [Tx -> {Unconfirmed} \cup FirstHeight..(FirstHeight + MaxBlocks)]
    OBVIOUS
  <2> QED BY <2>1, <2>2, HeightTypes DEF Start, NodeState
<1>2. /\ \A t \in Tx : ~Exists(Start, t) /\ ~Mined(Start, t)
      /\ \A o \in Outpoint : Start.voted[o] = {} /\ Start.locked[o] = NoTx
      /\ Start.orphan = {}
  BY DEF Start, Exists, Mined
<1>3. Backing(Start, S)
  BY <1>2 DEF Backing
<1>4. Respect(Start)
  BY <1>2 DEF Respect
<1>5. Kept(Start)
  BY <1>2 DEF Kept
<1>6. Noticed(Start)
  BY <1>2 DEF Noticed
<1> QED
  BY <1>1, <1>3, <1>4, <1>5, <1>6 DEF NodeInv

\* A crash leaves the chain.
LEMMA CrashInv ==
    ASSUME NEW S \in SUBSET Vote, NEW s, NodeInv(s, S)
    PROVE  NodeInv([Cleared(s) EXCEPT !.pool = {}, !.handling = Idle, !.cached = s.height], S)
<1> DEFINE r == [Cleared(s) EXCEPT !.pool = {}, !.handling = Idle, !.cached = s.height]
<1>0. s \in NodeState /\ s.height \in Heights
  BY Fields, HeightTypes DEF NodeInv
<1>1. /\ r \in NodeState /\ r.cand = [t \in Tx |-> NoCandidate] /\ r.orphan = {}
      /\ r.voted = [o \in Outpoint |-> {}] /\ r.locked = [o \in Outpoint |-> NoTx]
      /\ r.forgot = {} /\ r.pool = {} /\ r.mined = s.mined
  BY <1>0 DEF Cleared, NodeState
<1> HIDE DEF r
<1>2. Backing(r, S) /\ Kept(r) /\ Noticed(r)
  BY <1>1 DEF Backing, Kept, Noticed, Exists
<1>3. Respect(r)
  BY SMT, <1>1 DEF NodeInv, Respect, Mined
<1> QED
  BY <1>1, <1>2, <1>3 DEF NodeInv, r

-----------------------------------------------------------------------------
(* Steps. *)

\* One node's new state keeps NodeInv, so does the whole.
LEMMA BecomeInv ==
    ASSUME IInv, NEW n \in Node, NEW s, NEW V \in SUBSET Vote, NodeInv(s, signed \cup V),
           Become(n, s, V), events' \in 0..MaxEvents
    PROVE  IInv'
<1>0. signed \in SUBSET Vote /\ signed' \in SUBSET Vote /\ signed \subseteq signed' /\ signed' = signed \cup V
  BY DEF IInv, TypeOK, Become
<1>1. s \in NodeState /\ \A o \in Outpoint : s.locked[o] # NoTx => Backed(signed', s.locked[o], o)
  BY <1>0 DEF NodeInv, Backing
<1>2. node' = [node EXCEPT ![n] = s] /\ node \in [Node -> NodeState]
  BY DEF IInv, TypeOK, Become
<1>3. locks' = locks \cup {p \in Tx \X Outpoint : s.locked[p[2]] = p[1]} /\ locks \subseteq Tx \X Outpoint
  BY DEF IInv, TypeOK, Become
<1>4. TypeOK'
  BY <1>0, <1>1, <1>2, <1>3 DEF TypeOK
<1>5. ASSUME NEW k \in Node PROVE NodeInv(node'[k], signed')
  <2>1. CASE k = n
    BY <1>0, <1>2, <2>1
  <2>2. CASE k # n
    <3>1. node'[k] = node[k] /\ NodeInv(node[k], signed)
      BY <1>2, <2>2 DEF IInv
    <3> QED BY <1>0, <3>1, NodeInvMonotone
  <2> QED BY <2>1, <2>2
<1>6. ASSUME NEW t \in Tx, NEW o \in Outpoint, <<t, o>> \in locks' PROVE Backed(signed', t, o)
  <2>1. CASE <<t, o>> \in locks
    <3>1. Backed(signed, t, o)
      BY <2>1 DEF IInv
    <3> QED BY <1>0, <3>1, BackedMonotone
  <2>2. CASE s.locked[o] = t
    BY <1>1, <2>2, InstantSendAssumption
  <2> QED BY <1>3, <1>6, <2>1, <2>2
<1> QED
  BY <1>4, <1>5, <1>6 DEF IInv

\* The bound on events.
LEMMA EventTypes ==
    ASSUME IInv, Quiet \/ Event
    PROVE  events' \in 0..MaxEvents
  BY SMT, InstantSendAssumption DEF IInv, TypeOK, Quiet, Event

\* NodeInv does not depend on these fields.
LEMMA Handling ==
    ASSUME NEW S \in SUBSET Vote, NEW s, NodeInv(s, S), NEW h \in Handled \cup {Idle}
    PROVE  NodeInv([s EXCEPT !.handling = h], S)
<1> DEFINE r == [s EXCEPT !.handling = h]
<1>1. /\ r \in NodeState /\ r.cand = s.cand /\ r.orphan = s.orphan /\ r.voted = s.voted
      /\ r.locked = s.locked /\ r.forgot = s.forgot /\ r.pool = s.pool /\ r.mined = s.mined
  BY DEF NodeInv, NodeState
<1> QED
  BY <1>1, Unrelated DEF SameCandidate, Exists

\* Nor on these.
LEMMA Answered ==
    ASSUME NEW S \in SUBSET Vote, NEW s, NodeInv(s, S), NEW t \in Tx
    PROVE  /\ NodeInv([s EXCEPT !.accepted = s.accepted \cup {t}], S)
           /\ NodeInv([s EXCEPT !.rejected = s.rejected \cup {t}], S)
<1> DEFINE a == [s EXCEPT !.accepted = s.accepted \cup {t}]
           r == [s EXCEPT !.rejected = s.rejected \cup {t}]
<1>1. /\ a \in NodeState /\ a.cand = s.cand /\ a.orphan = s.orphan /\ a.voted = s.voted
      /\ a.locked = s.locked /\ a.forgot = s.forgot /\ a.pool = s.pool /\ a.mined = s.mined
  BY DEF NodeInv, NodeState
<1>2. /\ r \in NodeState /\ r.cand = s.cand /\ r.orphan = s.orphan /\ r.voted = s.voted
      /\ r.locked = s.locked /\ r.forgot = s.forgot /\ r.pool = s.pool /\ r.mined = s.mined
  BY DEF NodeInv, NodeState
<1> HIDE DEF a, r
<1>3. NodeInv(a, S) /\ NodeInv(r, S)
  BY <1>1, <1>2, Unrelated DEF SameCandidate, Exists
<1> QED
  BY <1>3 DEF a, r

\* A step that signs no vote.
LEMMA SilentInv ==
    ASSUME IInv, NEW n \in Node, NEW s, NodeInv(s, signed), Become(n, s, {}), Quiet \/ Event
    PROVE  IInv'
<1>1. signed \cup {} = signed
  OBVIOUS
<1> QED
  BY <1>1, BecomeInv, EventTypes

\* IInv for one node.
LEMMA NodeOf ==
    ASSUME IInv, NEW n \in Node
    PROVE  signed \in SUBSET Vote /\ NodeInv(node[n], signed) /\ node[n] \in NodeState
  BY DEF IInv, TypeOK

\* One lemma for each action that is more than one of the functions above.
LEMMA ReceiveRequestInv ==
    ASSUME IInv, NEW n \in Node, NEW t \in Tx, NEW as \in {"ix", "auto"}, ReceiveRequest(n, t, as)
    PROVE  IInv'
<1> DEFINE r == ProcessTxLockRequest(node[n], t)
<1>1. NodeInv(r, signed) /\ signed \in SUBSET Vote
  BY NodeOf, ProcessTxLockRequestInv
<1>2. Quiet /\ \/ Become(n, [r EXCEPT !.handling = [tx |-> t, as |-> as]], {})
               \/ Become(n, r, {})
               \/ Become(n, [r EXCEPT !.handling = [tx |-> t, as |-> "plain"]], {})
  BY DEF ReceiveRequest
<1>3. [tx |-> t, as |-> as] \in Handled /\ [tx |-> t, as |-> "plain"] \in Handled
  BY DEF Handled
<1> HIDE DEF r
<1>4. /\ NodeInv([r EXCEPT !.handling = [tx |-> t, as |-> as]], signed)
      /\ NodeInv([r EXCEPT !.handling = [tx |-> t, as |-> "plain"]], signed)
  BY <1>1, <1>3, Handling
<1> QED
  BY <1>1, <1>2, <1>4, SilentInv

\* A masternode votes for complete candidates only.
LEMMA OwnVotesFor ==
    ASSUME NEW n \in Node, NEW s \in NodeState, NEW t \in Tx
    PROVE  LET V == OwnVotes(n, s, t)
           IN  /\ V \in SUBSET Vote /\ \A v \in V : v.tx = t
               /\ V # {} => Exists(s, t) /\ s.cand[t].full
  BY DEF OwnVotes

LEMMA AcceptRequestInv ==
    ASSUME IInv, NEW n \in Node, AcceptRequest(n)
    PROVE  IInv'
<1> DEFINE t == node[n].handling.tx
           s == [node[n] EXCEPT !.handling = Idle]
           p == AcceptToMemoryPool(s, t)
           a == [p EXCEPT !.accepted = p.accepted \cup {t}]
           V == OwnVotes(n, a, t)
           q == CastVotes(a, t, V)
<1>1. t \in Tx /\ MayEnter(s, t) /\ Quiet /\ Become(n, q, V)
  BY DEF AcceptRequest
<1>2. NodeInv(s, signed) /\ signed \in SUBSET Vote
  BY NodeOf, Handling
<1> HIDE DEF s, t
<1>3. NodeInv(p, signed)
  BY <1>1, <1>2, AcceptToMemoryPoolInv
<1> HIDE DEF p
<1>4. NodeInv(a, signed)
  BY <1>1, <1>2, <1>3, Answered
<1> HIDE DEF a
<1>5. a \in NodeState
  BY <1>4 DEF NodeInv
<1>6. /\ V \in SUBSET Vote /\ \A v \in V : v.tx = t
      /\ V # {} => Exists(a, t) /\ a.cand[t].full
  BY <1>1, <1>5, OwnVotesFor
<1> HIDE DEF V
<1>7. signed \cup V \in SUBSET Vote /\ signed \subseteq signed \cup V /\ V \in SUBSET (signed \cup V)
  BY <1>2, <1>6
<1>8. NodeInv(a, signed \cup V)
  BY <1>2, <1>4, <1>7, NodeInvMonotone
<1>9. NodeInv(q, signed \cup V)
  BY <1>1, <1>6, <1>7, <1>8, CastVotesInv
<1> HIDE DEF q
<1> QED
  BY <1>1, <1>6, <1>9, BecomeInv, EventTypes

LEMMA RefuseRequestInv ==
    ASSUME IInv, NEW n \in Node, RefuseRequest(n)
    PROVE  IInv'
<1> DEFINE t == node[n].handling.tx
           s == [node[n] EXCEPT !.handling = Idle]
           r == [s EXCEPT !.rejected = s.rejected \cup {t}]
<1>1. node[n].handling \in Handled
  BY NodeOf DEF RefuseRequest, NodeState
<1>2. t \in Tx
  BY <1>1 DEF Handled
<1>3. Quiet /\ (Become(n, r, {}) \/ Become(n, s, {}))
  BY DEF RefuseRequest
<1>4. NodeInv(s, signed) /\ signed \in SUBSET Vote
  BY NodeOf, Handling
<1> HIDE DEF s, t
<1>5. NodeInv(r, signed)
  BY <1>2, <1>4, Answered
<1> HIDE DEF r
<1> QED
  BY <1>3, <1>4, <1>5, SilentInv

LEMMA AcceptPlainInv ==
    ASSUME IInv, NEW n \in Node, NEW t \in Tx, AcceptPlain(n, t)
    PROVE  IInv'
<1> DEFINE s == [node[n] EXCEPT !.handling = Idle]
           p == AcceptToMemoryPool(s, t)
<1>1. Event /\ MayEnter(s, t) /\ Become(n, p, {})
  BY DEF AcceptPlain
<1>2. NodeInv(s, signed) /\ signed \in SUBSET Vote
  BY NodeOf, Handling
<1> HIDE DEF s
<1>3. NodeInv(p, signed)
  BY <1>1, <1>2, AcceptToMemoryPoolInv
<1> HIDE DEF p
<1> QED
  BY <1>1, <1>3, SilentInv

LEMMA RelayWalletTransactionInv ==
    ASSUME IInv, NEW n \in Node, NEW t \in Tx, RelayWalletTransaction(n, t)
    PROVE  IInv'
<1> DEFINE s == node[n]
           p == IF t \in s.pool THEN s ELSE AcceptToMemoryPool(s, t)
           r == ProcessTxLockRequest(p, t)
           a == [r EXCEPT !.accepted = r.accepted \cup {t}]
           b == [r EXCEPT !.rejected = r.rejected \cup {t}]
<1>1. Event /\ (t \in s.pool \/ MayEnter(s, t)) /\ (Become(n, a, {}) \/ Become(n, b, {}))
  BY DEF RelayWalletTransaction
<1>2. NodeInv(s, signed) /\ signed \in SUBSET Vote
  BY NodeOf
<1> HIDE DEF s
<1>3. NodeInv(p, signed)
  BY <1>1, <1>2, AcceptToMemoryPoolInv
<1> HIDE DEF p
<1>4. NodeInv(r, signed)
  BY <1>2, <1>3, ProcessTxLockRequestInv
<1> HIDE DEF r
<1>5. NodeInv(a, signed) /\ NodeInv(b, signed)
  BY <1>2, <1>4, Answered
<1> HIDE DEF a, b
<1> QED
  BY <1>1, <1>5, SilentInv

LEMMA ReceiveVoteInv ==
    ASSUME IInv, NEW n \in Node, NEW v \in Vote, ReceiveVote(n, v)
    PROVE  IInv'
<1> DEFINE S == signed \cup {v}
           s == [node[n] EXCEPT !.known[v] = Unconfirmed]
           t == v.tx
           r == AddVotes(s, t, {v})
           c == IF Exists(s, t) THEN s.cand[t] ELSE EmptyCandidate
           e == [s EXCEPT !.orphan = s.orphan \cup {v}]
           k == [e EXCEPT !.cand[t] = c]
           w == [s EXCEPT !.orphan = s.orphan \cup {v}, !.cand[t] = c]
           f == TryToFinalize(r, r.cand[t], t)
<1>1. t \in Tx /\ S \in SUBSET Vote /\ v \in S /\ signed \subseteq S /\ {v} \in SUBSET Vote
  BY NodeOf DEF Vote
<1>2. NodeInv(node[n], S) /\ node[n] \in NodeState
  BY <1>1, NodeOf, NodeInvMonotone
<1>3. /\ s \in NodeState /\ s.cand = node[n].cand /\ s.orphan = node[n].orphan /\ s.voted = node[n].voted
      /\ s.locked = node[n].locked /\ s.forgot = node[n].forgot /\ s.pool = node[n].pool
      /\ s.mined = node[n].mined
  <2>1. [node[n].known EXCEPT ![v] = Unconfirmed] \in [Vote -> {Unknown} \cup Heights]
    BY <1>2, HeightTypes DEF NodeState
  <2> QED BY <1>2, <2>1 DEF NodeState
<1>4. NodeInv(s, S)
  <2> HIDE DEF s, S
  <2> QED BY <1>1, <1>2, <1>3, Unrelated DEF SameCandidate, Exists
<1>5. \/ Become(n, s, {v})
      \/ ~HasRequest(s, t) /\ Become(n, w, {v})
      \/ HasRequest(s, t) /\ s.cand[t].age = 0 /\ (Become(n, r, {v}) \/ Become(n, f, {v}))
  BY DEF ReceiveVote
<1> HIDE DEF s, S, t
<1>6. CASE Become(n, s, {v})
  BY <1>1, <1>4, <1>6, BecomeInv, EventTypes DEF S, ReceiveVote
<1>7. CASE ~HasRequest(s, t) /\ Become(n, w, {v})
  <2>1. /\ e \in NodeState /\ e.cand = s.cand /\ e.orphan = s.orphan \cup {v} /\ e.voted = s.voted
        /\ e.locked = s.locked /\ e.forgot = s.forgot /\ e.pool = s.pool /\ e.mined = s.mined
    BY <1>3 DEF NodeState
  <2>2. NodeInv(e, S)
    <3> HIDE DEF e
    <3>0. s.orphan \subseteq S /\ v \in S /\ Backing(s, S) /\ Respect(s) /\ Kept(s) /\ Noticed(s)
      BY <1>1, <1>4 DEF NodeInv, Backing, S
    <3>1. Backing(e, S)
      BY <2>1, <3>0, BackingSame
    <3>2. Respect(e)
      BY <2>1, <3>0, RespectSame
    <3>3. Kept(e)
      BY <2>1, <3>0, KeptSame
    <3>4. Noticed(e)
      BY <2>1, <3>0, NoticedGrows
    <3> QED BY <2>1, <3>1, <3>2, <3>3, <3>4 DEF NodeInv
  <2>3. Exists(e, t) <=> Exists(s, t)
    BY <2>1 DEF Exists
  <2>4. /\ c \in Candidate /\ (c.full => c.req) /\ (c.req /\ c.age = 0 => c.full)
        /\ \/ /\ Exists(e, t) /\ c.votes = e.cand[t].votes /\ c.attacked = e.cand[t].attacked
              /\ c.full = e.cand[t].full
           \/ (Exists(e, t) => ~e.cand[t].full) /\ \A o \in Outpoint : c.votes[o] = {}
    <3>1. CASE Exists(s, t)
      <4>1. c = s.cand[t] /\ c \in Candidate
        BY <1>1, <1>3, <3>1 DEF Exists, NodeState
      <4>2. (c.full => c.req) /\ (c.req /\ c.age = 0 => c.full)
        BY <1>1, <1>4, <3>1, <4>1 DEF NodeInv, Noticed
      <4> QED BY <2>1, <2>3, <3>1, <4>1, <4>2
    <3>2. CASE ~Exists(s, t)
      <4>1. c = EmptyCandidate
        BY <3>2
      <4> QED BY <2>3, <3>2, <4>1, NoVotes
    <3> QED BY <3>1, <3>2
  <2>5. NodeInv(k, S)
    <3> HIDE DEF e, c
    <3> QED BY <1>1, <2>2, <2>4, SetCandidateInv
  <2>6. k = w
    <3> HIDE DEF c
    <3> QED BY <1>3 DEF NodeState
  <2> HIDE DEF w, k
  <2> QED BY <1>1, <1>7, <2>5, <2>6, BecomeInv, EventTypes DEF S, ReceiveVote
<1>8. CASE HasRequest(s, t) /\ s.cand[t].age = 0 /\ (Become(n, r, {v}) \/ Become(n, f, {v}))
  <2>1. Exists(s, t) /\ s.cand[t].full
    BY <1>1, <1>4, <1>8 DEF NodeInv, Noticed, HasRequest
  <2>2. {v} \in SUBSET S /\ \A x \in {v} : x.tx = t
    BY <1>1 DEF t
  <2>3. NodeInv(r, S)
    BY <1>1, <1>4, <2>1, <2>2, AddVotesInv
  <2>4. Exists(r, t)
    BY <1>1, <1>3, <2>1, AddVotesFields
  <2> HIDE DEF r
  <2>5. r.cand[t] \in Candidate /\ \A o \in Outpoint : \A m \in r.cand[t].votes[o] : VoteOf(t, o, m) \in S
    BY <1>1, <2>3, <2>4 DEF NodeInv, NodeState, Exists, Backing
  <2>6. NodeInv(f, S)
    BY <1>1, <2>3, <2>4, <2>5, TryToFinalizeInv
  <2> HIDE DEF f
  <2> QED BY <1>1, <1>8, <2>3, <2>6, BecomeInv, EventTypes DEF S, ReceiveVote
<1> QED
  BY <1>5, <1>6, <1>7, <1>8

LEMMA AgeInv ==
    ASSUME IInv, NEW n \in Node, NEW t \in Tx, Age(n, t)
    PROVE  IInv'
<1> DEFINE s == node[n]
           c == [s.cand[t] EXCEPT !.age = s.cand[t].age + 1]
           r == [s EXCEPT !.cand[t] = c]
<1>1. Event /\ Exists(s, t) /\ s.cand[t].age < 2 /\ Become(n, r, {})
  BY DEF Age
<1>2. NodeInv(s, signed) /\ s \in NodeState /\ signed \in SUBSET Vote
  BY NodeOf
<1>3. s.cand[t] \in Candidate
  BY <1>1, <1>2 DEF NodeState, Exists
<1>4. /\ c \in Candidate /\ c.req = s.cand[t].req /\ c.full = s.cand[t].full
      /\ c.votes = s.cand[t].votes /\ c.attacked = s.cand[t].attacked /\ c.age # 0
  BY SMT, <1>1, <1>3 DEF Candidate
<1> HIDE DEF c, s
<1>5. NodeInv(r, signed)
  BY <1>1, <1>2, <1>4, ChangeCandidate
<1> HIDE DEF r
<1> QED
  BY <1>1, <1>5, SilentInv

LEMMA UpdatedBlockTipInv ==
    ASSUME IInv, NEW n \in Node, UpdatedBlockTip(n)
    PROVE  IInv'
<1> DEFINE s == node[n]
           r == [s EXCEPT !.cached = s.height]
<1>1. NodeInv(s, signed) /\ s \in NodeState /\ signed \in SUBSET Vote /\ s.height \in Heights
  BY NodeOf, Fields, HeightTypes
<1>2. /\ r \in NodeState /\ r.cand = s.cand /\ r.orphan = s.orphan /\ r.voted = s.voted
      /\ r.locked = s.locked /\ r.forgot = s.forgot /\ r.pool = s.pool /\ r.mined = s.mined
  BY <1>1 DEF NodeState
<1>3. Quiet /\ Become(n, r, {})
  BY DEF UpdatedBlockTip
<1> HIDE DEF r, s
<1>4. NodeInv(r, signed)
  BY <1>1, <1>2, Unrelated DEF SameCandidate, Exists
<1> QED
  BY <1>3, <1>4, SilentInv

LEMMA EvictInv ==
    ASSUME IInv, NEW n \in Node, NEW t \in Tx, Evict(n, t)
    PROVE  IInv'
<1> DEFINE s == node[n]
           r == [s EXCEPT !.pool = s.pool \ {t}]
<1>1. NodeInv(s, signed) /\ s \in NodeState /\ signed \in SUBSET Vote
  BY NodeOf
<1>2. /\ r \in NodeState /\ r.cand = s.cand /\ r.orphan = s.orphan /\ r.voted = s.voted
      /\ r.locked = s.locked /\ r.forgot = s.forgot /\ r.pool = s.pool \ {t} /\ r.mined = s.mined
  BY <1>1 DEF NodeState
<1>3. Event /\ Become(n, r, {})
  BY DEF Evict
<1> HIDE DEF r, s
<1>4. Respect(r)
  BY SMT, <1>1, <1>2 DEF NodeInv, Respect, Mined
<1>5. NodeInv(r, signed)
  BY <1>1, <1>2, <1>4, ChainChange
<1> QED
  BY <1>3, <1>5, SilentInv

LEMMA InitIInv == Init => IInv
<1> SUFFICES ASSUME Init PROVE IInv
  OBVIOUS
<1>1. signed \in SUBSET Vote /\ locks = {} /\ events \in 0..MaxEvents
  BY SMT, InstantSendAssumption DEF Init
<1>2. ASSUME NEW n \in Node PROVE NodeInv(node[n], signed) /\ node[n] \in NodeState
  BY <1>1, StartInv DEF Init, NodeInv
<1> QED
  BY <1>1, <1>2 DEF IInv, TypeOK, Init

\* Every step of every node keeps IInv.
LEMMA NextIInv == IInv /\ [Next]_vars => IInv'
<1> SUFFICES ASSUME IInv, [Next]_vars PROVE IInv'
  OBVIOUS
<1>1. CASE UNCHANGED vars
  BY <1>1 DEF vars, IInv, TypeOK
<1>2. ASSUME NEW n \in Node, DoMaintenance(n) PROVE IInv'
  BY <1>2, NodeOf, CheckAndRemoveInv, SilentInv DEF DoMaintenance
<1>3. ASSUME NEW n \in Node, NEW T \in SUBSET Tx, ConnectBlock(n, T) PROVE IInv'
  BY <1>3, NodeOf, ConnectTipInv, SilentInv DEF ConnectBlock
<1>4. ASSUME NEW n \in Node, DisconnectBlock(n) PROVE IInv'
  BY <1>4, NodeOf, DisconnectTipInv, SilentInv DEF DisconnectBlock
<1>5. ASSUME NEW n \in Node, Crash(n) PROVE IInv'
  <2> DEFINE r == [Cleared(node[n]) EXCEPT !.pool = {}, !.handling = Idle, !.cached = node[n].height]
  <2>1. NodeInv(r, signed)
    BY <1>5, NodeOf, CrashInv
  <2>2. Event /\ Become(n, r, {})
    BY <1>5 DEF Crash
  <2> HIDE DEF r
  <2> QED BY <1>5, <2>1, <2>2, SilentInv
<1>6. CASE Next
  BY <1>2, <1>3, <1>4, <1>5, <1>6, ReceiveRequestInv, AcceptRequestInv, RefuseRequestInv, AcceptPlainInv,
     RelayWalletTransactionInv, AgeInv, EvictInv, ReceiveVoteInv, UpdatedBlockTipInv DEF Next
<1> QED
  BY <1>1, <1>6

-----------------------------------------------------------------------------
(* Theorems. *)

\* In every reachable state, whatever the order of requests, votes, blocks, reorganisations,
\* time-outs and crashes: every vote counted or kept was signed, every lock ever taken had
\* Required votes of its quorum, and each node's maps agree with each other (instantx.cpp).
THEOREM InductiveInvariant == Spec => []IInv
  BY InitIInv, NextIInv, PTL DEF Spec

\* A completed lock keeps every other spender of its inputs out of mempool and chain, for
\* any number of nodes, transactions and inputs (validation.cpp:684, validation.cpp:2240).
THEOREM LocksRespectedAlways == Spec => []LocksRespected
<1>1. IInv => LocksRespected
  BY NodeOf DEF IInv, NodeInv, Respect, LocksRespected
<1> QED
  BY <1>1, InductiveInvariant, PTL

\* mapVotedOutpoints and mapLockedOutpoints name only candidates that exist, so that the
\* lookup in Vote never fails (instantx.cpp:274), for any number of candidates.
THEOREM NothingOutlivesCandidateAlways == Spec => []NothingOutlivesCandidate
<1>1. IInv => NothingOutlivesCandidate
  BY DEF IInv, NodeInv, Kept, NothingOutlivesCandidate
<1> QED
  BY <1>1, InductiveInvariant, PTL

\* Two sets of votes of one quorum have at least this many masternodes in common.
LEMMA Overlap ==
    ASSUME NEW Q, IsFiniteSet(Q), NEW X \in SUBSET Q, NEW Y \in SUBSET Q
    PROVE  /\ Cardinality(X) \in Nat /\ Cardinality(Y) \in Nat /\ Cardinality(Q) \in Nat
           /\ Cardinality(X \cap Y) \in Nat
           /\ Cardinality(X \cap Y) >= Cardinality(X) + Cardinality(Y) - Cardinality(Q)
<1>1. IsFiniteSet(X) /\ IsFiniteSet(Y) /\ IsFiniteSet(X \cup Y) /\ IsFiniteSet(X \cap Y)
  BY FS_Subset, X \cup Y \subseteq Q, X \cap Y \subseteq Q
<1>2. Cardinality(X \cup Y) <= Cardinality(Q)
  BY FS_Subset, X \cup Y \subseteq Q
<1>3. Cardinality(X \cup Y) = Cardinality(X) + Cardinality(Y) - Cardinality(X \cap Y)
  BY <1>1, FS_Union
<1>4. /\ Cardinality(X) \in Nat /\ Cardinality(Y) \in Nat /\ Cardinality(Q) \in Nat
      /\ Cardinality(X \cap Y) \in Nat
  BY <1>1, FS_CardinalityType
<1> QED
  BY SMT, <1>2, <1>3, <1>4

\* Two conflicting transactions are both locked, anywhere and at any time, only if at least
\* 2 * Required - |Quorum| masternodes of the quorum voted for both: for any quorum size and
\* any number of faulty masternodes (instantx.cpp:501).
THEOREM DoubleLockNeedsDoubleVotesAlways == Spec => []DoubleLockNeedsDoubleVotes
<1>1. IInv => DoubleLockNeedsDoubleVotes
  <2> SUFFICES ASSUME IInv, NEW o \in Outpoint, NEW t \in Tx, NEW u \in Tx,
                      <<t, o>> \in locks, <<u, o>> \in locks
               PROVE  Cardinality(Voters(t, o) \cap Voters(u, o)) >= 2 * Required - Cardinality(Quorum[o])
    BY DEF DoubleLockNeedsDoubleVotes
  <2>1. Cardinality(Voters(t, o)) >= Required /\ Cardinality(Voters(u, o)) >= Required
    BY DEF IInv, Backed, Voters
  <2>2. Voters(t, o) \in SUBSET Quorum[o] /\ Voters(u, o) \in SUBSET Quorum[o] /\ IsFiniteSet(Quorum[o])
    BY InstantSendAssumption DEF Voters
  <2>3. Required \in Nat
    BY InstantSendAssumption
  <2> DEFINE X == Voters(t, o)
             Y == Voters(u, o)
             Q == Quorum[o]
  <2> HIDE DEF X, Y, Q
  <2>4. Cardinality(X \cap Y) \in Nat /\ Cardinality(X) \in Nat /\ Cardinality(Y) \in Nat
        /\ Cardinality(Q) \in Nat
        /\ Cardinality(X \cap Y) >= Cardinality(X) + Cardinality(Y) - Cardinality(Q)
    BY <2>2, Overlap DEF X, Y, Q
  <2>5. Cardinality(X) >= Required /\ Cardinality(Y) >= Required
    BY <2>1 DEF X, Y
  <2>6. Cardinality(X \cap Y) >= 2 * Required - Cardinality(Q)
    BY SMT, <2>3, <2>4, <2>5
  <2> QED BY <2>6 DEF X, Y, Q
<1> QED
  BY <1>1, InductiveInvariant, PTL

\* On one node two candidates for an outpoint are never both ready, as long as CheckAndRemove
\* has not erased the outpoint's entry under a candidate that is kept (instantx.cpp:449).
THEOREM NeverBothReadyAlways == Spec => []NeverBothReady
<1>1. IInv => NeverBothReady
  <2> SUFFICES ASSUME IInv, NEW n \in Node, NEW o \in Outpoint, NEW t \in Tx, NEW u \in Tx, t # u,
                      o \in Inputs[t], o \in Inputs[u], o \notin node[n].forgot,
                      Exists(node[n], t), Exists(node[n], u),
                      IsAllOutPointsReady(node[n].cand[t], t), IsAllOutPointsReady(node[n].cand[u], u)
               PROVE  FALSE
    BY DEF NeverBothReady
  <2> DEFINE X == node[n].cand[t].votes[o]
             Y == node[n].cand[u].votes[o]
  <2>1. NodeInv(node[n], signed) /\ signed \in SUBSET Vote
    BY NodeOf
  <2>2. \A x \in Tx : \A m : VoteOf(x, o, m) \in Vote => m \in Quorum[o]
    BY DEF Vote, VoteOf
  <2>3. X \in SUBSET Quorum[o] /\ Y \in SUBSET Quorum[o]
    BY <2>1, <2>2 DEF NodeInv, Backing
  <2>4. Cardinality(X) >= Required /\ Cardinality(Y) >= Required /\ o \notin node[n].cand[t].attacked
    BY DEF IsAllOutPointsReady
  <2>5. X \cap Y = {}
    BY <2>1, <2>4 DEF NodeInv, Noticed
  <2>6. IsFiniteSet(Quorum[o]) /\ Cardinality(Quorum[o]) < 2 * Required /\ Required \in Nat
    BY InstantSendAssumption
  <2> HIDE DEF X, Y
  <2>7. Cardinality(X \cap Y) = 0
    BY <2>5, FS_EmptySet
  <2>8. /\ Cardinality(X) \in Nat /\ Cardinality(Y) \in Nat /\ Cardinality(Quorum[o]) \in Nat
        /\ Cardinality(X \cap Y) >= Cardinality(X) + Cardinality(Y) - Cardinality(Quorum[o])
    BY <2>3, <2>6, Overlap
  <2> QED BY SMT, <2>4, <2>6, <2>7, <2>8
<1> QED
  BY <1>1, InductiveInvariant, PTL


-----------------------------------------------------------------------------
(* The last vote. *)

OrphansOf(s, t) == {v \in s.orphan : v.tx = t}

\* t is no nearer to its lock in r than it is in s.
NoNearer(r, s, t) ==
    HasRequest(r, t) /\ r.cand[t].age = 0 =>
        /\ HasRequest(s, t) /\ s.cand[t].age = 0
        /\ \A o \in Outpoint : r.cand[t].votes[o] = s.cand[t].votes[o]
        /\ OrphansOf(r, t) = OrphansOf(s, t)

\* A candidate that may still be locked has counted every vote that came before its request.
Settled(s, t) ==
    HasRequest(s, t) /\ s.cand[t].age = 0 =>
        \A v \in OrphansOf(s, t) : v.mn \in s.cand[t].votes[v.out]

\* CheckAndRemove drops a candidate whose height is set to 0 (ResolveConflicts).
Risen(s) == s.cached \in FirstHeight..(FirstHeight + MaxBlocks)

Ripe(s) == Risen(s) /\ \A t \in Tx : Settled(s, t)

\* What LastVoteLocks asks of a node's step from s to r.
Locks(r, t) == Complete(r, t) /\ Unopposed(r, t) => IsLocked(r, t)
Answers(r, s) == Ripe(r) /\ \A t \in Tx : NoNearer(r, s, t) \/ Locks(r, t)

LEMMA NoNearerSame ==
    ASSUME NEW r, NEW s, NEW t, SameCandidate(r, s, t), OrphansOf(r, t) = OrphansOf(s, t)
    PROVE  NoNearer(r, s, t)
  BY DEF SameCandidate, NoNearer, HasRequest

LEMMA NoNearerTrans ==
    ASSUME NEW q, NEW r, NEW s, NEW t, NoNearer(q, r, t), NoNearer(r, s, t)
    PROVE  NoNearer(q, s, t)
  BY SMT DEF NoNearer

LEMMA NoNearerSettled ==
    ASSUME NEW r \in NodeState, NEW s, NEW t \in Tx, NoNearer(r, s, t), Settled(s, t)
    PROVE  Settled(r, t)
<1> SUFFICES ASSUME HasRequest(r, t), r.cand[t].age = 0, NEW v \in OrphansOf(r, t)
             PROVE  v.mn \in r.cand[t].votes[v.out]
  BY DEF Settled
<1>1. v \in Vote
  BY Fields DEF OrphansOf
<1>2. v.out \in Outpoint
  BY <1>1 DEF Vote
<1> QED
  BY <1>2 DEF NoNearer, Settled

LEMMA NoNearerComplete ==
    ASSUME NEW r, NEW s, NEW t \in Tx, NoNearer(r, s, t), Complete(r, t)
    PROVE  Complete(s, t)
<1>1. /\ HasRequest(s, t) /\ s.cand[t].age = 0 /\ OrphansOf(r, t) = OrphansOf(s, t)
      /\ \A o \in Outpoint : r.cand[t].votes[o] = s.cand[t].votes[o]
  BY DEF NoNearer, Complete
<1>2. ASSUME NEW o \in Inputs[t] PROVE VotesHeld(r, t, o) = VotesHeld(s, t, o)
  <2>1. o \in Outpoint
    BY InstantSendAssumption
  <2>2. \A m : VoteOf(t, o, m).tx = t
    BY DEF VoteOf
  <2>3. \A m : VoteOf(t, o, m) \in r.orphan <=> VoteOf(t, o, m) \in s.orphan
    BY <1>1, <2>2 DEF OrphansOf
  <2> QED
    BY <1>1, <2>1, <2>3 DEF VotesHeld
<1> QED
  BY <1>1, <1>2 DEF Complete

\* Nothing but a step that brings t nearer can complete it.
LEMMA AnswersLocks ==
    ASSUME NEW r, NEW s, Answers(r, s), NEW t \in Tx, ~Complete(s, t), Complete(r, t), Unopposed(r, t)
    PROVE  IsLocked(r, t)
<1>1. NoNearer(r, s, t) \/ Locks(r, t)
  BY DEF Answers
<1>2. CASE NoNearer(r, s, t)
  BY <1>2, NoNearerComplete
<1>3. CASE Locks(r, t)
  BY <1>3 DEF Locks
<1> QED
  BY <1>1, <1>2, <1>3

LEMMA AnswersQuietly ==
    ASSUME NEW r \in NodeState, NEW s, Ripe(s), Risen(r), \A t \in Tx : NoNearer(r, s, t)
    PROVE  Answers(r, s)
<1>1. ASSUME NEW t \in Tx PROVE Settled(r, t)
  BY NoNearerSettled DEF Ripe
<1> QED
  BY <1>1 DEF Answers, Ripe

\* A step that leaves candidates and orphan votes alone, but for the height.
LEMMA AnswersSame ==
    ASSUME NEW r \in NodeState, NEW s, Ripe(s), Risen(r), \A t \in Tx : SameCandidate(r, s, t), r.orphan = s.orphan
    PROVE  Answers(r, s)
<1>1. ASSUME NEW t \in Tx PROVE NoNearer(r, s, t)
  <2>1. OrphansOf(r, t) = OrphansOf(s, t)
    BY DEF OrphansOf
  <2> QED
    BY <2>1, NoNearerSame
<1> QED
  BY <1>1, AnswersQuietly

\* Expiry takes nobody nearer.
LEMMA CheckAndRemoveNoNearer ==
    ASSUME NEW s \in NodeState, NEW t \in Tx
    PROVE  NoNearer(CheckAndRemove(s), s, t)
<1> DEFINE q == CheckAndRemove(s)
           gone == {u \in Tx : Exists(s, u) /\ IsExpired(s, s.cand[u].height)}
<1>1. /\ q.cand[t] = IF t \in gone THEN NoCandidate ELSE s.cand[t]
      /\ q.orphan \subseteq s.orphan
      /\ \A v \in s.orphan : Exists(s, v.tx) /\ s.cand[v.tx].age = 0 => v \in q.orphan
  BY SMT, CheckAndRemoveFields
<1> HIDE DEF q, gone
<1>2. ASSUME HasRequest(q, t), q.cand[t].age = 0
      PROVE  q.cand[t] = s.cand[t] /\ HasRequest(s, t) /\ OrphansOf(q, t) = OrphansOf(s, t)
  <2>1. q.cand[t] = s.cand[t]
    BY <1>1, <1>2 DEF HasRequest, Exists
  <2>2. Exists(s, t) /\ s.cand[t].age = 0
    BY <1>2, <2>1 DEF HasRequest, Exists
  <2> QED
    BY <1>1, <1>2, <2>1, <2>2 DEF HasRequest, Exists, OrphansOf
<1>3. NoNearer(q, s, t)
  BY <1>2 DEF NoNearer
<1> QED
  BY <1>3 DEF q

\* One height is set.
LEMMA SameButHeight ==
    ASSUME NEW s \in NodeState, NEW t \in Tx, Exists(s, t)
    PROVE  LET c == [s.cand[t] EXCEPT !.height = 0]
               r == [s EXCEPT !.cand[t] = c]
           IN  /\ r \in NodeState /\ r.cand[t] = c /\ c.height = 0 /\ r.orphan = s.orphan /\ r.cached = s.cached
               /\ \A w \in Tx : SameCandidate(r, s, w)
               /\ \A w \in Tx \ {t} : r.cand[w] = s.cand[w]
<1> DEFINE c == [s.cand[t] EXCEPT !.height = 0]
           r == [s EXCEPT !.cand[t] = c]
<1>1. s.cand[t] \in Candidate
  BY CandidateFields
<1>2. c \in Candidate /\ c.height = 0
  BY <1>1, HeightTypes DEF Candidate
<1>3. /\ r \in NodeState /\ r.cand[t] = c /\ \A u \in Tx \ {t} : r.cand[u] = s.cand[u]
      /\ r.orphan = s.orphan /\ r.cached = s.cached
  <2> HIDE DEF c
  <2> QED BY SMT, <1>2, SetCandidate
<1> HIDE DEF r
<1>4. SameCandidate(r, s, t)
  BY <1>3, SetHeight, HeightTypes
<1>5. ASSUME NEW w \in Tx \ {t} PROVE SameCandidate(r, s, w)
  <2>1. r.cand[w] = s.cand[w]
    BY <1>3
  <2> QED BY <2>1 DEF SameCandidate, Exists
<1> HIDE DEF c
<1> QED
  BY <1>2, <1>3, <1>4, <1>5 DEF r, c

LEMMA DropBothNoNearer ==
    ASSUME NEW s \in NodeState, NEW t \in Tx, NEW u \in Tx, Exists(s, t), Exists(s, u)
    PROVE  LET q == DropBoth(s, t, u)
           IN  /\ q.cached = s.cached /\ \A w \in Tx : NoNearer(q, s, w)
               /\ Risen(s) => ~Exists(q, t)
<1> DEFINE ct == [s.cand[t] EXCEPT !.height = 0]
           s1 == [s EXCEPT !.cand[t] = ct]
           cu == [s1.cand[u] EXCEPT !.height = 0]
           s2 == [s1 EXCEPT !.cand[u] = cu]
           r == CheckAndRemove(s2)
           q == [r EXCEPT !.rejected = r.rejected \cup {t, u}]
<1>1. /\ s1 \in NodeState /\ s1.cand[t] = ct /\ ct.height = 0 /\ s1.orphan = s.orphan /\ s1.cached = s.cached
      /\ \A w \in Tx : SameCandidate(s1, s, w)
  BY SMT, SameButHeight
<1>2. s2 = [s EXCEPT !.cand[t].height = 0, !.cand[u].height = 0]
  BY SMT, Fields DEF NodeState
<1> HIDE DEF s1
<1>3. Exists(s1, u)
  BY <1>1 DEF SameCandidate
<1>4. /\ s2 \in NodeState /\ s2.cand[u] = cu /\ cu.height = 0 /\ s2.orphan = s1.orphan /\ s2.cached = s1.cached
      /\ \A w \in Tx : SameCandidate(s2, s1, w)
      /\ \A w \in Tx \ {u} : s2.cand[w] = s1.cand[w]
  <2>1. s1 \in NodeState
    BY <1>1
  <2> HIDE <1>1, <1>2
  <2> QED BY <2>1, <1>3, SameButHeight
<1> HIDE DEF ct, cu
<1>5. DropBoth(s, t, u) = q
  <2> HIDE DEF s2
  <2> QED BY <1>2 DEF DropBoth
<1> HIDE DEF s2
<1>6. s2.cand[t].height = 0 /\ Exists(s2, t)
  <2>1. Exists(s2, t)
    BY <1>1, <1>4 DEF SameCandidate
  <2> QED BY <1>1, <1>4, <2>1
<1>7. r \in NodeState /\ r.cached = s2.cached
      /\ (IsExpired(s2, s2.cand[t].height) => r.cand[t] = NoCandidate)
  <2> DEFINE gone == {x \in Tx : Exists(s2, x) /\ IsExpired(s2, s2.cand[x].height)}
  <2>1. r \in NodeState /\ r.cached = s2.cached /\ r.cand[t] = IF t \in gone THEN NoCandidate ELSE s2.cand[t]
    BY SMT, <1>4, CheckAndRemoveFields
  <2> QED BY <1>6, <2>1
<1> HIDE DEF r
<1>8. q.cand = r.cand /\ q.orphan = r.orphan /\ q.cached = r.cached
  BY <1>7 DEF NodeState
<1> HIDE DEF q
<1>9. ASSUME NEW w \in Tx PROVE NoNearer(q, s, w)
  <2>1. NoNearer(s1, s, w) /\ NoNearer(s2, s1, w)
    BY <1>1, <1>4, NoNearerSame DEF OrphansOf
  <2>2. NoNearer(r, s2, w)
    BY <1>4, CheckAndRemoveNoNearer DEF r
  <2>3. NoNearer(q, r, w)
    BY <1>8, NoNearerSame DEF SameCandidate, Exists, OrphansOf
  <2> QED BY <2>1, <2>2, <2>3, NoNearerTrans
<1>10. Risen(s) => ~Exists(q, t)
  <2>1. ASSUME Risen(s) PROVE IsExpired(s2, 0)
    BY SMT, <1>1, <1>4, <2>1, InstantSendAssumption DEF IsExpired, Risen, FirstHeight, Unconfirmed
  <2> QED BY <1>6, <1>7, <1>8, <2>1 DEF Exists
<1> QED
  BY <1>1, <1>4, <1>5, <1>7, <1>8, <1>9, <1>10

\* What TryToFinalizeLockCandidate comes to.
LEMMA TryToFinalizeCases ==
    ASSUME NEW s \in NodeState, NEW c, NEW t \in Tx
    PROVE  LET r == TryToFinalize(s, c, t)
               L == [o \in Outpoint |-> IF o \in Inputs[t] /\ s.locked[o] = NoTx THEN t ELSE s.locked[o]]
           IN  \/ r = s /\ (IsLocked(s, t) \/ ~IsAllOutPointsReady(c, t) \/ ~Unopposed(s, t))
               \/ ~Unopposed(s, t) /\ \E u \in Tx : r = DropBoth(s, t, u)
               \/ /\ IsAllOutPointsReady(c, t) /\ r = [s EXCEPT !.locked = L]
                  /\ \A o \in Inputs[t] : s.locked[o] \in {t, NoTx}
<1> DEFINE lockedByOther(o) == s.locked[o] \notin {t, NoTx}
           inPool(o) == \E u \in s.pool \ {t} : o \in Inputs[u]
           conflicts == {o \in Inputs[t] : lockedByOther(o) \/ inPool(o)}
           first == CHOOSE o \in conflicts : TRUE
<1>0. Inputs[t] \subseteq Outpoint
  BY InstantSendAssumption
<1>1. CASE ~IsAllOutPointsReady(c, t) \/ IsLocked(s, t)
  BY <1>1 DEF TryToFinalize
<1>2. CASE ~(~IsAllOutPointsReady(c, t) \/ IsLocked(s, t)) /\ conflicts # {}
  <2>1. first \in conflicts
    BY <1>2
  <2>2. ~Unopposed(s, t)
    <3>1. PICK o \in Inputs[t] : lockedByOther(o) \/ inPool(o)
      BY <1>2
    <3> QED BY <3>1 DEF Unopposed
  <2>3. CASE lockedByOther(first)
    <3>1. s.locked[first] \in Tx
      <4>1. first \in Outpoint
        BY <1>0, <2>1
      <4>2. s.locked[first] \in Tx \cup {NoTx}
        <5> HIDE DEF first
        <5> QED BY <4>1, Fields
      <4> QED BY <2>3, <4>2
    <3>2. TryToFinalize(s, c, t) = DropBoth(s, t, s.locked[first])
      BY <1>2, <2>3 DEF TryToFinalize
    <3> HIDE DEF first
    <3> QED BY <2>2, <3>1, <3>2
  <2>4. CASE ~lockedByOther(first)
    BY <1>2, <2>2, <2>4 DEF TryToFinalize
  <2> QED BY <2>3, <2>4
<1>3. CASE /\ ~(~IsAllOutPointsReady(c, t) \/ IsLocked(s, t)) /\ conflicts = {}
           /\ ~Mined(s, t) /\ ~RequestValid(s, t)
  BY <1>3 DEF TryToFinalize, Unopposed
<1>4. CASE /\ IsAllOutPointsReady(c, t) /\ ~IsLocked(s, t) /\ conflicts = {}
           /\ Mined(s, t) \/ RequestValid(s, t)
  <2>1. \A o \in Inputs[t] : s.locked[o] \in {t, NoTx}
    BY <1>4
  <2> QED BY <1>4, <2>1 DEF TryToFinalize
<1> QED
  BY <1>1, <1>2, <1>3, <1>4

LEMMA TryToFinalizeNoNearer ==
    ASSUME NEW s \in NodeState, NEW c, NEW t \in Tx
    PROVE  LET r == TryToFinalize(s, c, t)
           IN  r.cached = s.cached /\ \A w \in Tx : NoNearer(r, s, w)
<1> DEFINE r == TryToFinalize(s, c, t)
           L == [o \in Outpoint |-> IF o \in Inputs[t] /\ s.locked[o] = NoTx THEN t ELSE s.locked[o]]
<1>1. r = s \/ (\E u \in Tx : r = DropBoth(s, t, u)) \/ r = [s EXCEPT !.locked = L]
  <2>1. \/ r = s /\ (IsLocked(s, t) \/ ~IsAllOutPointsReady(c, t) \/ ~Unopposed(s, t))
        \/ ~Unopposed(s, t) /\ \E u \in Tx : r = DropBoth(s, t, u)
        \/ /\ IsAllOutPointsReady(c, t) /\ r = [s EXCEPT !.locked = L]
           /\ \A o \in Inputs[t] : s.locked[o] \in {t, NoTx}
    BY TryToFinalizeCases
  <2> HIDE DEF r, L
  <2> QED BY <2>1
<1> HIDE DEF r, L
<1>2. CASE r = s
  BY <1>2 DEF NoNearer, r
<1>3. CASE \E u \in Tx : r = DropBoth(s, t, u)
  <2>1. PICK u \in Tx : r = DropBoth(s, t, u)
    BY <1>3
  <2>2. CASE Exists(s, t) /\ Exists(s, u)
    <3>1. r.cached = s.cached /\ \A w \in Tx : NoNearer(r, s, w)
      BY SMT, <2>1, <2>2, DropBothNoNearer
    <3> QED BY <3>1 DEF r
  <2>3. CASE ~Exists(s, t) \/ ~Exists(s, u)
    <3>1. r = s
      BY <2>1, <2>3 DEF DropBoth
    <3> QED BY <1>2, <3>1
  <2> QED BY <2>2, <2>3
<1>4. CASE r = [s EXCEPT !.locked = L]
  <2>1. r.cand = s.cand /\ r.orphan = s.orphan /\ r.cached = s.cached
    BY <1>4 DEF NodeState
  <2>2. \A w \in Tx : NoNearer(r, s, w)
    BY <2>1 DEF NoNearer, HasRequest, Exists, OrphansOf
  <2> QED BY <2>1, <2>2 DEF r
<1> QED
  BY <1>1, <1>2, <1>3, <1>4

\* Where the votes are there and nothing is in the way, the lock is taken.
LEMMA TryToFinalizeLocks ==
    ASSUME NEW s \in NodeState, NEW t \in Tx, Noticed(s), Risen(s), Settled(s, t)
    PROVE  Locks(TryToFinalize(s, s.cand[t], t), t)
<1> DEFINE c == s.cand[t]
           r == TryToFinalize(s, c, t)
           L == [o \in Outpoint |-> IF o \in Inputs[t] /\ s.locked[o] = NoTx THEN t ELSE s.locked[o]]
<1> SUFFICES ASSUME Complete(r, t), Unopposed(r, t) PROVE IsLocked(r, t)
  BY DEF Locks
<1>0. \/ r = s /\ (IsLocked(s, t) \/ ~IsAllOutPointsReady(c, t) \/ ~Unopposed(s, t))
      \/ ~Unopposed(s, t) /\ \E u \in Tx : r = DropBoth(s, t, u)
      \/ /\ IsAllOutPointsReady(c, t) /\ r = [s EXCEPT !.locked = L]
         /\ \A o \in Inputs[t] : s.locked[o] \in {t, NoTx}
  BY TryToFinalizeCases
<1>1. Complete(s, t)
  <2>1. NoNearer(r, s, t)
    BY SMT, TryToFinalizeNoNearer
  <2> HIDE DEF r
  <2> QED BY <2>1, NoNearerComplete
<1> HIDE DEF r
<1>2. Exists(s, t) /\ c.full /\ \A o \in Inputs[t] : VotesHeld(s, t, o) = c.votes[o]
  <2>1. Exists(s, t) /\ c.req /\ c.age = 0
    BY <1>1 DEF Complete, HasRequest
  <2>2. c.full
    BY <2>1 DEF Noticed
  <2>3. ASSUME NEW o \in Inputs[t], NEW m \in Masternode, VoteOf(t, o, m) \in s.orphan PROVE m \in c.votes[o]
    <3>1. VoteOf(t, o, m) \in OrphansOf(s, t) /\ VoteOf(t, o, m).mn = m /\ VoteOf(t, o, m).out = o
      BY <2>3 DEF OrphansOf, VoteOf
    <3>2. VoteOf(t, o, m).mn \in c.votes[VoteOf(t, o, m).out]
      BY <2>1, <3>1 DEF Settled, HasRequest
    <3> QED BY <3>1, <3>2
  <2> QED BY <2>1, <2>2, <2>3 DEF VotesHeld
<1>3. CASE r = s /\ (IsLocked(s, t) \/ ~IsAllOutPointsReady(c, t) \/ ~Unopposed(s, t))
  <2>1. IsAllOutPointsReady(c, t)
    BY <1>1, <1>2, <1>3 DEF IsAllOutPointsReady, Complete, Unopposed
  <2> QED BY <1>3, <2>1
<1>4. CASE ~Unopposed(s, t) /\ \E u \in Tx : r = DropBoth(s, t, u)
  <2>1. PICK u \in Tx : r = DropBoth(s, t, u)
    BY <1>4
  <2>2. CASE Exists(s, u)
    <3>1. ~Exists(r, t)
      BY SMT, <1>2, <2>1, <2>2, DropBothNoNearer
    <3> QED BY <3>1 DEF Complete, HasRequest
  <2>3. CASE ~Exists(s, u)
    <3>1. r = s
      BY <2>1, <2>3 DEF DropBoth
    <3> QED BY <1>4, <3>1
  <2> QED BY <2>2, <2>3
<1>5. CASE /\ IsAllOutPointsReady(c, t) /\ r = [s EXCEPT !.locked = L]
           /\ \A o \in Inputs[t] : s.locked[o] \in {t, NoTx}
  <2>1. Inputs[t] \subseteq Outpoint
    BY InstantSendAssumption
  <2>2. \A o \in Inputs[t] : L[o] = t
    BY <1>5, <2>1
  <2> HIDE DEF L
  <2>3. r.locked = L /\ r.cand = s.cand
    BY <1>5 DEF NodeState
  <2> QED BY <1>2, <2>2, <2>3 DEF IsLocked, Exists
<1> QED
  BY <1>0, <1>3, <1>4, <1>5

LEMMA NoNearerAt ==
    ASSUME NEW r, NEW s, NEW t, r.cand[t] = s.cand[t], OrphansOf(r, t) = OrphansOf(s, t)
    PROVE  NoNearer(r, s, t)
  BY DEF NoNearer, HasRequest, Exists

\* Where only the candidate of t is replaced.
LEMMA SetCandidateNoNearer ==
    ASSUME NEW s \in NodeState, NEW t \in Tx, NEW c \in Candidate
    PROVE  LET r == [s EXCEPT !.cand[t] = c]
           IN  /\ r.cached = s.cached /\ \A u \in Tx \ {t} : NoNearer(r, s, u)
               /\ (~c.req \/ c.age # 0) => NoNearer(r, s, t)
<1> DEFINE r == [s EXCEPT !.cand[t] = c]
<1>1. /\ r.cand[t] = c /\ \A u \in Tx \ {t} : r.cand[u] = s.cand[u]
      /\ r.orphan = s.orphan /\ r.cached = s.cached
  BY ZenonT(30), SetCandidate
<1> HIDE DEF r
<1>2. ASSUME NEW u \in Tx \ {t} PROVE NoNearer(r, s, u)
  BY <1>1, NoNearerAt DEF OrphansOf
<1>3. (~c.req \/ c.age # 0) => NoNearer(r, s, t)
  BY <1>1 DEF NoNearer, HasRequest
<1> QED
  BY <1>1, <1>2, <1>3 DEF r

\* A vote that is counted takes only its own candidate nearer.
LEMMA AddVotesNoNearer ==
    ASSUME NEW s \in NodeState, NEW t \in Tx, Exists(s, t), NEW V \in SUBSET Vote
    PROVE  LET q == AddVotes(s, t, V)
           IN  \A u \in Tx : u # t \/ (\A o \in Outpoint : VotersOn(V, o) \subseteq s.cand[t].votes[o]) => NoNearer(q, s, u)
<1> DEFINE q == AddVotes(s, t, V)
<1>1. /\ q.orphan = s.orphan
      /\ \A u \in Tx : Exists(q, u) <=> Exists(s, u)
      /\ \A u \in Tx : Exists(s, u) =>
            /\ q.cand[u].req = s.cand[u].req
            /\ q.cand[u].age = s.cand[u].age
            /\ \A o \in Outpoint :
                  /\ u = t => q.cand[u].votes[o] = s.cand[u].votes[o] \cup VotersOn(V, o)
                  /\ u # t => q.cand[u].votes[o] = s.cand[u].votes[o]
  BY SMT, AddVotesFields
<1> HIDE DEF q
<1>2. ASSUME NEW u \in Tx, u # t \/ \A o \in Outpoint : VotersOn(V, o) \subseteq s.cand[t].votes[o]
      PROVE  NoNearer(q, s, u)
  <2>1. OrphansOf(q, u) = OrphansOf(s, u)
    BY <1>1 DEF OrphansOf
  <2>2. ASSUME Exists(s, u), NEW o \in Outpoint PROVE q.cand[u].votes[o] = s.cand[u].votes[o]
    <3>1. CASE u # t
      BY <1>1, <2>2, <3>1
    <3>2. CASE u = t
      <4>1. VotersOn(V, o) \subseteq s.cand[t].votes[o]
        BY <1>2, <3>2
      <4>2. q.cand[u].votes[o] = s.cand[u].votes[o] \cup VotersOn(V, o)
        BY <1>1, <2>2, <3>2
      <4> QED BY <3>2, <4>1, <4>2
    <3> QED BY <3>1, <3>2
  <2>3. Exists(s, u) => q.cand[u].req = s.cand[u].req /\ q.cand[u].age = s.cand[u].age
    BY <1>1
  <2>4. Exists(q, u) <=> Exists(s, u)
    BY <1>1
  <2> QED BY <2>1, <2>2, <2>3, <2>4 DEF NoNearer, HasRequest
<1> QED
  BY <1>2 DEF q

\* The orphan votes for t are counted, and t is settled.
LEMMA ProcessOrphanTxLockVotesSettles ==
    ASSUME NEW S \in SUBSET Vote, NEW s, NodeInv(s, S), NEW t \in Tx, Exists(s, t), s.cand[t].req
    PROVE  LET p == ProcessOrphanTxLockVotes(s, t)
           IN  /\ p.cached = s.cached /\ \A u \in Tx \ {t} : NoNearer(p, s, u)
               /\ Settled(p, t)
<1> DEFINE V == {v \in s.orphan : v.tx = t /\ v.mn \notin s.cand[t].votes[v.out]}
           a == AddVotes(s, t, V)
           p == [a EXCEPT !.orphan = a.orphan \ V]
<1>0. s \in NodeState
  BY DEF NodeInv
<1>1. CASE s.cand[t].age # 0
  <2>1. ProcessOrphanTxLockVotes(s, t) = s
    BY <1>1 DEF ProcessOrphanTxLockVotes
  <2>2. \A u \in Tx : NoNearer(s, s, u)
    BY NoNearerAt
  <2> QED BY <1>1, <2>1, <2>2 DEF Settled
<1>2. CASE s.cand[t].age = 0
  <2>1. ProcessOrphanTxLockVotes(s, t) = p
    BY <1>2 DEF ProcessOrphanTxLockVotes
  <2>2. V \in SUBSET Vote /\ V \subseteq s.orphan /\ \A v \in V : v.tx = t
    BY <1>0, Fields
  <2>3. \A v \in s.orphan \ V : v.tx = t => v.mn \in s.cand[t].votes[v.out]
    OBVIOUS
  <2> HIDE DEF V
  <2>4. \A u \in Tx \ {t} : NoNearer(a, s, u)
    BY SMT, <1>0, <2>2, AddVotesNoNearer
  <2>5. /\ a \in NodeState /\ a.orphan = s.orphan /\ a.cached = s.cached /\ Exists(a, t)
        /\ \A o \in Outpoint : a.cand[t].votes[o] = s.cand[t].votes[o] \cup VotersOn(V, o)
    BY SMTT(30), <1>0, <2>2, AddVotesFields
  <2> HIDE DEF a
  <2>6. p.cand = a.cand /\ p.cached = a.cached /\ p.orphan = a.orphan \ V
    BY <2>5 DEF NodeState
  <2> HIDE DEF p
  <2>7. ASSUME NEW u \in Tx \ {t} PROVE NoNearer(p, s, u)
    <3>1. OrphansOf(p, u) = OrphansOf(a, u)
      BY <2>2, <2>6 DEF OrphansOf
    <3>2. NoNearer(p, a, u)
      BY <2>6, <3>1, NoNearerAt
    <3> QED BY <2>4, <3>2, NoNearerTrans
  <2>8. ASSUME NEW v \in OrphansOf(p, t) PROVE v.mn \in p.cand[t].votes[v.out]
    <3>1. v \in s.orphan /\ v \notin V /\ v.tx = t
      BY <2>5, <2>6 DEF OrphansOf
    <3>2. v.mn \in s.cand[t].votes[v.out]
      BY <2>3, <3>1
    <3>3. v.out \in Outpoint
      BY <1>0, <3>1, Fields DEF Vote
    <3> QED BY <2>5, <2>6, <3>2, <3>3
  <2> QED BY <2>1, <2>5, <2>6, <2>7, <2>8 DEF Settled
<1> QED
  BY <1>1, <1>2

\* A request that is refused, or comes too late, takes nobody nearer.
LEMMA CreateTxLockCandidateNoNearer ==
    ASSUME NEW s \in NodeState, NEW t \in Tx
    PROVE  LET r == CreateTxLockCandidate(s, t)
           IN  /\ r.cached = s.cached /\ \A u \in Tx \ {t} : NoNearer(r, s, u)
               /\ ~Created(s, t) => NoNearer(r, s, t)
<1> DEFINE r == CreateTxLockCandidate(s, t)
<1>0. ASSUME r = s PROVE r.cached = s.cached /\ \A u \in Tx : NoNearer(r, s, u)
  BY <1>0, NoNearerAt
<1>1. CASE RequestValid(s, t) /\ ~Exists(s, t)
  <2>1. r = [s EXCEPT !.cand[t] = NewCandidate] /\ Created(s, t)
    BY <1>1 DEF CreateTxLockCandidate, Created
  <2> HIDE DEF r
  <2>2. r.cached = s.cached /\ \A u \in Tx \ {t} : NoNearer(r, s, u)
    BY SMT, <2>1, NoVotes, SetCandidateNoNearer
  <2> QED BY <2>1, <2>2 DEF r
<1>2. CASE RequestValid(s, t) /\ Exists(s, t) /\ ~s.cand[t].req
  <2> DEFINE c == [s.cand[t] EXCEPT !.req = TRUE, !.full = (s.cand[t].age = 0)]
  <2>1. r = [s EXCEPT !.cand[t].req = TRUE, !.cand[t].full = (s.cand[t].age = 0)]
    BY <1>2 DEF CreateTxLockCandidate
  <2>2. s.cand[t] \in Candidate /\ s.cand[t].age \in 0..2
    BY <1>2, CandidateFields
  <2>3. c \in Candidate /\ c.age = s.cand[t].age
    BY <2>2 DEF Candidate
  <2>4. r = [s EXCEPT !.cand[t] = c]
    BY <2>1 DEF NodeState
  <2>5. ~Created(s, t) => s.cand[t].age # 0
    BY SMT, <1>2, <2>2 DEF Created
  <2> HIDE DEF c, r
  <2>6. /\ r.cached = s.cached /\ \A u \in Tx \ {t} : NoNearer(r, s, u)
        /\ c.age # 0 => NoNearer(r, s, t)
    BY SMT, <2>3, <2>4, SetCandidateNoNearer
  <2> QED BY <2>3, <2>5, <2>6 DEF r
<1>3. CASE ~RequestValid(s, t) \/ (Exists(s, t) /\ s.cand[t].req)
  <2>1. r = s
    BY <1>3 DEF CreateTxLockCandidate
  <2> QED BY <1>0, <2>1
<1> QED
  BY <1>1, <1>2, <1>3

\* The last thing the lock needs came with the step to p, which is settled at t.
LEMMA FinalizeAnswers ==
    ASSUME NEW s, Ripe(s), NEW p \in NodeState, Noticed(p), p.cached = s.cached, NEW t \in Tx, Settled(p, t),
           \A u \in Tx \ {t} : NoNearer(p, s, u), TryToFinalize(p, p.cand[t], t) \in NodeState
    PROVE  Answers(TryToFinalize(p, p.cand[t], t), s)
<1> DEFINE r == TryToFinalize(p, p.cand[t], t)
<1>1. r.cached = p.cached /\ \A w \in Tx : NoNearer(r, p, w)
  BY SMT, TryToFinalizeNoNearer
<1>2. Risen(p)
  BY DEF Ripe, Risen
<1>3. Locks(r, t)
  BY <1>2, TryToFinalizeLocks
<1>4. \A u \in Tx : Settled(p, u)
  BY NoNearerSettled DEF Ripe
<1>5. ASSUME NEW u \in Tx PROVE Settled(r, u)
  <2> HIDE DEF r
  <2>1. r \in NodeState
    BY DEF r
  <2> QED BY <1>1, <1>4, <2>1, NoNearerSettled
<1>6. ASSUME NEW u \in Tx \ {t} PROVE NoNearer(r, s, u)
  <2> HIDE DEF r
  <2> QED BY <1>1, NoNearerTrans
<1>7. Risen(r)
  BY <1>1, <1>2 DEF Risen
<1> HIDE DEF r
<1> QED
  BY <1>3, <1>5, <1>6, <1>7 DEF Answers, Ripe, r

LEMMA ProcessTxLockRequestAnswers ==
    ASSUME NEW S \in SUBSET Vote, NEW s, NodeInv(s, S), Ripe(s), NEW t \in Tx
    PROVE  Answers(ProcessTxLockRequest(s, t), s)
<1> DEFINE r == CreateTxLockCandidate(s, t)
           p == ProcessOrphanTxLockVotes(r, t)
           q == ProcessTxLockRequest(s, t)
<1>0. s \in NodeState
  BY DEF NodeInv
<1>1. NodeInv(r, S) /\ (Created(s, t) => Exists(r, t) /\ r.cand[t].req)
  BY CreateTxLockCandidateInv
<1>2. /\ r.cached = s.cached /\ \A u \in Tx \ {t} : NoNearer(r, s, u)
      /\ ~Created(s, t) => NoNearer(r, s, t)
  BY SMT, <1>0, CreateTxLockCandidateNoNearer
<1>3. q \in NodeState
  BY ProcessTxLockRequestInv DEF NodeInv
<1>4. CASE Created(s, t)
  <2>1. q = TryToFinalize(p, p.cand[t], t)
    BY <1>4 DEF ProcessTxLockRequest
  <2> HIDE DEF r
  <2>2. p \in NodeState /\ Noticed(p)
    BY <1>1, <1>4, ProcessOrphanTxLockVotesInv DEF NodeInv
  <2>3. p.cached = r.cached /\ (\A u \in Tx \ {t} : NoNearer(p, r, u)) /\ Settled(p, t)
    BY <1>1, <1>4, ProcessOrphanTxLockVotesSettles
  <2> HIDE DEF p, q
  <2>4. ASSUME NEW u \in Tx \ {t} PROVE NoNearer(p, s, u)
    BY <1>2, <2>3, NoNearerTrans
  <2>5. Answers(q, s)
    BY <1>2, <1>3, <2>1, <2>2, <2>3, <2>4, FinalizeAnswers
  <2> QED BY <2>5 DEF q
<1>5. CASE ~Created(s, t)
  <2>1. q = r
    BY <1>5 DEF ProcessTxLockRequest
  <2> HIDE DEF q, r
  <2>2. \A u \in Tx : NoNearer(q, s, u)
    BY <1>2, <1>5, <2>1
  <2>3. Risen(q)
    BY <1>2, <2>1 DEF Ripe, Risen
  <2>4. Answers(q, s)
    BY <1>3, <2>2, <2>3, AnswersQuietly
  <2> QED BY <2>4 DEF q
<1> QED
  BY <1>4, <1>5

-----------------------------------------------------------------------------
(* The steps, for the last vote. *)

LEMMA AnswersAfter ==
    ASSUME NEW r, NEW p, NEW s, Answers(r, p), \A t \in Tx : NoNearer(p, s, t)
    PROVE  Answers(r, s)
  BY NoNearerTrans DEF Answers

\* Fields that none of it depends on.
LEMMA AnswersOther ==
    ASSUME NEW q, NEW r, NEW s, Answers(r, s), q.cand = r.cand, q.orphan = r.orphan, q.cached = r.cached,
           q.locked = r.locked, q.pool = r.pool, q.mined = r.mined
    PROVE  Answers(q, s)
<1>1. ASSUME NEW t \in Tx PROVE Settled(q, t)
  BY DEF Answers, Ripe, Settled, HasRequest, Exists, OrphansOf
<1>2. ASSUME NEW t \in Tx, NoNearer(r, s, t) PROVE NoNearer(q, s, t)
  <2>1. OrphansOf(q, t) = OrphansOf(r, t)
    BY DEF OrphansOf
  <2> QED BY <1>2, <2>1, NoNearerAt, NoNearerTrans
<1>3. ASSUME NEW t \in Tx, Locks(r, t) PROVE Locks(q, t)
  <2>1. \A o : VotesHeld(q, t, o) = VotesHeld(r, t, o)
    BY DEF VotesHeld
  <2>2. Complete(q, t) => Complete(r, t)
    BY <2>1 DEF Complete, HasRequest, Exists
  <2>3. Unopposed(q, t) => Unopposed(r, t)
    BY DEF Unopposed, RequestValid, Spent, Mined
  <2>4. IsLocked(r, t) => IsLocked(q, t)
    BY DEF IsLocked, Exists
  <2> QED BY <1>3, <2>2, <2>3, <2>4 DEF Locks
<1>4. Risen(q)
  BY DEF Answers, Ripe, Risen
<1> QED
  BY <1>1, <1>2, <1>3, <1>4 DEF Answers, Ripe

LEMMA AnswersCandidates ==
    ASSUME NEW r \in NodeState, NEW s, Ripe(s), Risen(r), r.cand = s.cand, r.orphan = s.orphan
    PROVE  Answers(r, s)
<1>1. \A t \in Tx : SameCandidate(r, s, t)
  BY DEF SameCandidate, Exists
<1> QED
  BY <1>1, AnswersSame

LEMMA SyncTransactionsAnswers ==
    ASSUME NEW r \in NodeState, NEW s, Ripe(s), Risen(r), \A t \in Tx : SameCandidate(r, s, t), r.orphan = s.orphan,
           NEW T \in SUBSET Tx, NEW h \in Heights
    PROVE  LET q == SyncTransactions(r, T, h)
           IN  /\ q \in NodeState /\ Risen(q) /\ q.orphan = s.orphan
               /\ (\A t \in Tx : SameCandidate(q, s, t)) /\ Answers(q, s)
<1> DEFINE q == SyncTransactions(r, T, h)
<1>1. q \in NodeState /\ (\A t \in Tx : SameCandidate(q, r, t)) /\ q.orphan = r.orphan /\ q.cached = r.cached
  BY SMT, SyncTransactionsFields
<1> HIDE DEF q
<1>2. ASSUME NEW t \in Tx PROVE SameCandidate(q, s, t)
  <2>1. SameCandidate(q, r, t) /\ SameCandidate(r, s, t)
    BY <1>1
  <2> QED BY <2>1 DEF SameCandidate
<1>3. Risen(q)
  BY <1>1 DEF Risen
<1>4. Answers(q, s)
  BY <1>1, <1>2, <1>3, AnswersSame
<1> QED
  BY <1>1, <1>2, <1>3, <1>4 DEF q

LEMMA AcceptToMemoryPoolAnswers ==
    ASSUME NEW s \in NodeState, Ripe(s), NEW t \in Tx
    PROVE  /\ AcceptToMemoryPool(s, t) \in NodeState
           /\ Answers(AcceptToMemoryPool(s, t), s)
           /\ \A u \in Tx : NoNearer(AcceptToMemoryPool(s, t), s, u)
<1> DEFINE r == [s EXCEPT !.pool = s.pool \cup {t}]
           q == SyncTransactions(r, {t}, Unconfirmed)
<1>1. r \in NodeState /\ r.cand = s.cand /\ r.orphan = s.orphan /\ r.cached = s.cached
  BY DEF NodeState
<1>2. q = AcceptToMemoryPool(s, t)
  BY DEF AcceptToMemoryPool
<1> HIDE DEF r
<1>3. Risen(r) /\ \A u \in Tx : SameCandidate(r, s, u)
  BY <1>1 DEF Ripe, Risen, SameCandidate, Exists
<1>4. {t} \in SUBSET Tx /\ Unconfirmed \in Heights
  BY HeightTypes
<1>5. q \in NodeState /\ q.orphan = s.orphan /\ (\A u \in Tx : SameCandidate(q, s, u)) /\ Answers(q, s)
  BY <1>1, <1>3, <1>4, SyncTransactionsAnswers
<1> HIDE DEF q
<1>6. ASSUME NEW u \in Tx PROVE NoNearer(q, s, u)
  BY <1>5, NoNearerSame DEF OrphansOf
<1> QED
  BY <1>2, <1>5, <1>6

LEMMA ConnectTipAnswers ==
    ASSUME NEW s \in NodeState, Ripe(s), NEW T \in SUBSET Tx, s.height < FirstHeight + MaxBlocks
    PROVE  Answers(ConnectTip(s, T), s)
<1> DEFINE out == {u \in s.pool \ T : \E t \in T : Inputs[u] \cap Inputs[t] # {}}
           mined == [t \in Tx |-> IF t \in T THEN s.height + 1 ELSE s.mined[t]]
           r == [s EXCEPT !.pool = s.pool \ (T \cup out), !.height = s.height + 1, !.mined = mined]
           p == SyncTransactions(r, out, Unconfirmed)
           q == SyncTransactions(p, T, s.height + 1)
<1>1. s.height + 1 \in FirstHeight..(FirstHeight + MaxBlocks)
  BY SMT, Fields, InstantSendAssumption DEF FirstHeight
<1>2. mined \in [Tx -> {Unconfirmed} \cup FirstHeight..(FirstHeight + MaxBlocks)]
  BY <1>1, Fields
<1>3. out \in SUBSET Tx
  BY Fields
<1>4. q = ConnectTip(s, T)
  BY DEF ConnectTip
<1> HIDE DEF mined, out
<1>5. r \in NodeState /\ r.cand = s.cand /\ r.orphan = s.orphan /\ r.cached = s.cached
  BY <1>1, <1>2 DEF NodeState
<1> HIDE DEF r
<1>6. Risen(r) /\ \A u \in Tx : SameCandidate(r, s, u)
  BY <1>5 DEF Ripe, Risen, SameCandidate, Exists
<1>7. p \in NodeState /\ Risen(p) /\ p.orphan = s.orphan /\ \A u \in Tx : SameCandidate(p, s, u)
  BY <1>3, <1>5, <1>6, SyncTransactionsAnswers, HeightTypes
<1> HIDE DEF p
<1>8. Answers(q, s)
  BY <1>1, <1>7, SyncTransactionsAnswers, HeightTypes
<1> HIDE DEF q
<1> QED
  BY <1>4, <1>8

LEMMA DisconnectTipAnswers ==
    ASSUME NEW s \in NodeState, Ripe(s), s.height > FirstHeight
    PROVE  Answers(DisconnectTip(s), s)
<1> DEFINE T == {t \in Tx : s.mined[t] = s.height}
           mined == [t \in Tx |-> IF t \in T THEN Unconfirmed ELSE s.mined[t]]
           r == [s EXCEPT !.height = s.height - 1, !.mined = mined]
           back == {t \in T : MayEnter(r, t)}
           p == [r EXCEPT !.pool = r.pool \cup back]
           q == SyncTransactions(p, T, Unconfirmed)
<1>1. s.height - 1 \in FirstHeight..(FirstHeight + MaxBlocks)
  BY SMT, Fields, InstantSendAssumption DEF FirstHeight
<1>2. mined \in [Tx -> {Unconfirmed} \cup FirstHeight..(FirstHeight + MaxBlocks)]
  BY Fields
<1>3. T \in SUBSET Tx /\ back \in SUBSET Tx
  OBVIOUS
<1>4. q = DisconnectTip(s)
  BY DEF DisconnectTip
<1> HIDE DEF mined, T
<1>5. r \in NodeState /\ r.cand = s.cand /\ r.orphan = s.orphan /\ r.cached = s.cached
  BY <1>1, <1>2 DEF NodeState
<1> HIDE DEF r, back
<1>6. p \in NodeState /\ p.cand = s.cand /\ p.orphan = s.orphan /\ p.cached = s.cached
  BY <1>3, <1>5 DEF NodeState
<1> HIDE DEF p
<1>7. Risen(p) /\ \A u \in Tx : SameCandidate(p, s, u)
  BY <1>6 DEF Ripe, Risen, SameCandidate, Exists
<1>8. Answers(q, s)
  BY <1>3, <1>6, <1>7, SyncTransactionsAnswers, HeightTypes
<1> HIDE DEF q
<1> QED
  BY <1>4, <1>8

\* A node's own votes are counted only when they come back to it.
LEMMA CastVotesNoNearer ==
    ASSUME NEW s \in NodeState, NEW t \in Tx, NEW V \in SUBSET Vote
    PROVE  LET q == CastVotes(s, t, V)
           IN  q.cached = s.cached /\ \A u \in Tx : NoNearer(q, s, u)
<1> DEFINE known == [v \in Vote |-> IF v \in V /\ s.known[v] = Unknown THEN Unconfirmed ELSE s.known[v]]
           voted == [o \in Outpoint |-> IF VotersOn(V, o) # {} THEN s.voted[o] \cup {t} ELSE s.voted[o]]
           r == [s EXCEPT !.known = known, !.voted = voted]
           votes == [o \in Outpoint |-> s.cand[t].votes[o] \cup VotersOn(V, o)]
           copy == [s.cand[t] EXCEPT !.votes = votes]
           q == CastVotes(s, t, V)
           f == TryToFinalize(r, copy, t)
<1>1. q = IF Exists(s, t) THEN f ELSE r
  BY DEF CastVotes, VotersOn
<1>2. known \in [Vote -> {Unknown} \cup Heights] /\ voted \in [Outpoint -> SUBSET Tx]
  BY SMT, Fields, HeightTypes
<1> HIDE DEF known, voted, copy
<1>3. r \in NodeState /\ r.cand = s.cand /\ r.orphan = s.orphan /\ r.cached = s.cached
  BY <1>2 DEF NodeState
<1> HIDE DEF r
<1>4. \A u \in Tx : NoNearer(r, s, u)
  BY <1>3, NoNearerAt DEF OrphansOf
<1>5. f.cached = r.cached /\ \A u \in Tx : NoNearer(f, r, u)
  BY SMT, <1>3, TryToFinalizeNoNearer
<1> HIDE DEF f, q
<1>6. q.cached = s.cached /\ \A u \in Tx : NoNearer(q, s, u)
  BY <1>1, <1>3, <1>4, <1>5, NoNearerTrans
<1> QED
  BY <1>6 DEF q

RipeInv == \A n \in Node : Ripe(node[n])
Answering == \A n \in Node : Answers(node'[n], node[n])

LEMMA BecomeAnswers ==
    ASSUME IInv, RipeInv, NEW n \in Node, NEW s, NEW V, Become(n, s, V), Answers(s, node[n])
    PROVE  Answering
<1>1. node' = [node EXCEPT ![n] = s] /\ node \in [Node -> NodeState]
  BY DEF IInv, TypeOK, Become
<1>2. ASSUME NEW k \in Node, k # n PROVE Answers(node'[k], node[k])
  <2>1. node'[k] = node[k] /\ node[k] \in NodeState /\ Ripe(node[k]) /\ Risen(node[k])
    BY <1>1, <1>2 DEF RipeInv, Ripe
  <2> QED BY <2>1, AnswersCandidates
<1>3. node'[n] = s
  BY <1>1
<1> QED
  BY <1>2, <1>3 DEF Answering

\* IInv and RipeInv for one node.
LEMMA RipeNode ==
    ASSUME IInv, RipeInv, NEW n \in Node
    PROVE  node[n] \in NodeState /\ Ripe(node[n]) /\ Risen(node[n])
  BY NodeOf DEF RipeInv, Ripe

\* Where the message thread is has no part in it.
LEMMA IdleSame ==
    ASSUME NEW s \in NodeState, Ripe(s)
    PROVE  LET r == [s EXCEPT !.handling = Idle]
           IN  r \in NodeState /\ Ripe(r) /\ Answers(r, s) /\ \A t \in Tx : NoNearer(r, s, t)
<1> DEFINE r == [s EXCEPT !.handling = Idle]
<1>1. r \in NodeState /\ r.cand = s.cand /\ r.orphan = s.orphan /\ r.cached = s.cached
  BY DEF NodeState
<1> HIDE DEF r
<1>2. Answers(r, s)
  BY <1>1, AnswersCandidates DEF Ripe, Risen
<1>3. ASSUME NEW t \in Tx PROVE NoNearer(r, s, t)
  BY <1>1, NoNearerAt DEF OrphansOf
<1>4. Ripe(r)
  BY <1>2 DEF Answers
<1> QED
  BY <1>1, <1>2, <1>3, <1>4 DEF r

LEMMA ReceiveRequestAnswers ==
    ASSUME IInv, RipeInv, NEW n \in Node, NEW t \in Tx, NEW as \in {"ix", "auto"}, ReceiveRequest(n, t, as)
    PROVE  Answering
<1> DEFINE r == ProcessTxLockRequest(node[n], t)
<1>1. NodeInv(node[n], signed) /\ signed \in SUBSET Vote /\ Ripe(node[n])
  BY NodeOf, RipeNode
<1>2. \/ Become(n, [r EXCEPT !.handling = [tx |-> t, as |-> as]], {})
      \/ Become(n, r, {})
      \/ Become(n, [r EXCEPT !.handling = [tx |-> t, as |-> "plain"]], {})
  BY DEF ReceiveRequest
<1>3. Answers(r, node[n])
  BY <1>1, ProcessTxLockRequestAnswers
<1>4. r \in NodeState
  BY <1>1, ProcessTxLockRequestInv DEF NodeInv
<1> HIDE DEF r
<1>5. ASSUME NEW h PROVE Answers([r EXCEPT !.handling = h], node[n])
  <2> DEFINE q == [r EXCEPT !.handling = h]
  <2>1. /\ q.cand = r.cand /\ q.orphan = r.orphan /\ q.cached = r.cached
        /\ q.locked = r.locked /\ q.pool = r.pool /\ q.mined = r.mined
    BY <1>4 DEF NodeState
  <2> HIDE DEF q
  <2>2. Answers(q, node[n])
    BY <1>3, <2>1, AnswersOther
  <2> QED BY <2>2 DEF q
<1> QED
  BY <1>2, <1>3, <1>5, BecomeAnswers

LEMMA AcceptRequestAnswers ==
    ASSUME IInv, RipeInv, NEW n \in Node, AcceptRequest(n)
    PROVE  Answering
<1> DEFINE t == node[n].handling.tx
           s == [node[n] EXCEPT !.handling = Idle]
           p == AcceptToMemoryPool(s, t)
           a == [p EXCEPT !.accepted = p.accepted \cup {t}]
           V == OwnVotes(n, a, t)
           q == CastVotes(a, t, V)
<1>1. t \in Tx /\ MayEnter(s, t) /\ Become(n, q, V)
  BY DEF AcceptRequest
<1>2. s \in NodeState /\ Ripe(s) /\ \A u \in Tx : NoNearer(s, node[n], u)
  BY RipeNode, IdleSame
<1>3. NodeInv(s, signed) /\ signed \in SUBSET Vote
  BY NodeOf, Handling
<1> HIDE DEF s, t
<1>4. p \in NodeState /\ Answers(p, s) /\ \A u \in Tx : NoNearer(p, s, u)
  BY <1>1, <1>2, AcceptToMemoryPoolAnswers
<1>5. NodeInv(p, signed)
  BY <1>1, <1>3, AcceptToMemoryPoolInv
<1> HIDE DEF p
<1>6. a \in NodeState /\ a.cand = p.cand /\ a.orphan = p.orphan /\ a.cached = p.cached
  BY <1>1, <1>4 DEF NodeState
<1>7. NodeInv(a, signed)
  BY <1>1, <1>3, <1>5, Answered
<1> HIDE DEF a
<1>8. /\ V \in SUBSET Vote /\ \A v \in V : v.tx = t
      /\ V # {} => Exists(a, t) /\ a.cand[t].full
  BY <1>1, <1>6, OwnVotesFor
<1> HIDE DEF V
<1>9. q.cached = a.cached /\ \A u \in Tx : NoNearer(q, a, u)
  BY SMT, <1>1, <1>6, <1>8, CastVotesNoNearer
<1>10. q \in NodeState
  <2>1. signed \cup V \in SUBSET Vote /\ signed \subseteq signed \cup V /\ V \in SUBSET (signed \cup V)
    BY <1>3, <1>8
  <2>2. NodeInv(a, signed \cup V)
    BY <1>3, <1>7, <2>1, NodeInvMonotone
  <2>3. NodeInv(q, signed \cup V)
    BY <1>1, <1>8, <2>1, <2>2, CastVotesInv
  <2> HIDE DEF q
  <2> QED BY <2>3 DEF NodeInv
<1> HIDE DEF q
<1>11. ASSUME NEW u \in Tx PROVE NoNearer(q, node[n], u)
  <2>1. NoNearer(a, p, u)
    BY <1>6, NoNearerAt DEF OrphansOf
  <2>2. NoNearer(q, p, u)
    BY <1>9, <2>1, NoNearerTrans
  <2>3. NoNearer(q, s, u)
    BY <1>4, <2>2, NoNearerTrans
  <2> QED BY <1>2, <2>3, NoNearerTrans
<1>12. Risen(q)
  BY <1>4, <1>6, <1>9 DEF Answers, Ripe, Risen
<1>13. Answers(q, node[n])
  BY <1>10, <1>11, <1>12, RipeNode, AnswersQuietly
<1> QED
  BY <1>1, <1>13, BecomeAnswers

LEMMA RefuseRequestAnswers ==
    ASSUME IInv, RipeInv, NEW n \in Node, RefuseRequest(n)
    PROVE  Answering
<1> DEFINE t == node[n].handling.tx
           s == [node[n] EXCEPT !.handling = Idle]
           r == [s EXCEPT !.rejected = s.rejected \cup {t}]
<1>1. Become(n, r, {}) \/ Become(n, s, {})
  BY DEF RefuseRequest
<1>2. s \in NodeState /\ Answers(s, node[n])
  BY RipeNode, IdleSame
<1> HIDE DEF s, t
<1>3. /\ r.cand = s.cand /\ r.orphan = s.orphan /\ r.cached = s.cached
      /\ r.locked = s.locked /\ r.pool = s.pool /\ r.mined = s.mined
  BY <1>2 DEF NodeState
<1> HIDE DEF r
<1>4. Answers(r, node[n])
  BY <1>2, <1>3, AnswersOther
<1> QED
  BY <1>1, <1>2, <1>4, BecomeAnswers

LEMMA AcceptPlainAnswers ==
    ASSUME IInv, RipeInv, NEW n \in Node, NEW t \in Tx, AcceptPlain(n, t)
    PROVE  Answering
<1> DEFINE s == [node[n] EXCEPT !.handling = Idle]
           p == AcceptToMemoryPool(s, t)
<1>1. Become(n, p, {})
  BY DEF AcceptPlain
<1>2. s \in NodeState /\ Ripe(s) /\ \A u \in Tx : NoNearer(s, node[n], u)
  BY RipeNode, IdleSame
<1> HIDE DEF s
<1>3. Answers(p, s)
  BY <1>2, AcceptToMemoryPoolAnswers
<1> HIDE DEF p
<1>4. Answers(p, node[n])
  BY <1>2, <1>3, AnswersAfter
<1> QED
  BY <1>1, <1>4, BecomeAnswers

LEMMA RelayWalletTransactionAnswers ==
    ASSUME IInv, RipeInv, NEW n \in Node, NEW t \in Tx, RelayWalletTransaction(n, t)
    PROVE  Answering
<1> DEFINE s == node[n]
           p == IF t \in s.pool THEN s ELSE AcceptToMemoryPool(s, t)
           r == ProcessTxLockRequest(p, t)
           a == [r EXCEPT !.accepted = r.accepted \cup {t}]
           b == [r EXCEPT !.rejected = r.rejected \cup {t}]
<1>1. (t \in s.pool \/ MayEnter(s, t)) /\ (Become(n, a, {}) \/ Become(n, b, {}))
  BY DEF RelayWalletTransaction
<1>2. NodeInv(s, signed) /\ signed \in SUBSET Vote /\ s \in NodeState /\ Ripe(s)
  BY NodeOf, RipeNode
<1>3. \A u \in Tx : NoNearer(s, s, u)
  BY NoNearerAt
<1> HIDE DEF s
<1>4. NodeInv(p, signed) /\ Ripe(p) /\ \A u \in Tx : NoNearer(p, s, u)
  BY <1>1, <1>2, <1>3, AcceptToMemoryPoolInv, AcceptToMemoryPoolAnswers DEF Answers
<1> HIDE DEF p
<1>5. Answers(r, p)
  BY <1>2, <1>4, ProcessTxLockRequestAnswers
<1>6. r \in NodeState
  BY <1>2, <1>4, ProcessTxLockRequestInv DEF NodeInv
<1> HIDE DEF r
<1>7. Answers(r, s)
  BY <1>4, <1>5, AnswersAfter
<1>8. /\ a.cand = r.cand /\ a.orphan = r.orphan /\ a.cached = r.cached
      /\ a.locked = r.locked /\ a.pool = r.pool /\ a.mined = r.mined
  BY <1>6 DEF NodeState
<1>9. /\ b.cand = r.cand /\ b.orphan = r.orphan /\ b.cached = r.cached
      /\ b.locked = r.locked /\ b.pool = r.pool /\ b.mined = r.mined
  BY <1>6 DEF NodeState
<1> HIDE DEF a, b
<1>10. Answers(a, s) /\ Answers(b, s)
  BY <1>7, <1>8, <1>9, AnswersOther
<1> QED
  BY <1>1, <1>10, BecomeAnswers DEF s

\* A vote for a candidate with a request is counted at once; the other votes wait.
LEMMA ReceiveVoteAnswers ==
    ASSUME IInv, RipeInv, NEW n \in Node, NEW v \in Vote, ReceiveVote(n, v)
    PROVE  Answering
<1> DEFINE S == signed \cup {v}
           s == [node[n] EXCEPT !.known[v] = Unconfirmed]
           t == v.tx
           r == AddVotes(s, t, {v})
           c == IF Exists(s, t) THEN s.cand[t] ELSE EmptyCandidate
           e == [s EXCEPT !.orphan = s.orphan \cup {v}]
           k == [e EXCEPT !.cand[t] = c]
           w == [s EXCEPT !.orphan = s.orphan \cup {v}, !.cand[t] = c]
           f == TryToFinalize(r, r.cand[t], t)
<1>1. t \in Tx /\ S \in SUBSET Vote /\ v \in S /\ signed \subseteq S /\ {v} \in SUBSET Vote
  BY NodeOf DEF Vote
<1>2. NodeInv(node[n], S) /\ node[n] \in NodeState /\ Ripe(node[n])
  BY <1>1, NodeOf, NodeInvMonotone, RipeNode
<1>3. /\ s \in NodeState /\ s.cand = node[n].cand /\ s.orphan = node[n].orphan /\ s.voted = node[n].voted
      /\ s.locked = node[n].locked /\ s.forgot = node[n].forgot /\ s.pool = node[n].pool
      /\ s.mined = node[n].mined /\ s.cached = node[n].cached
  <2>1. [node[n].known EXCEPT ![v] = Unconfirmed] \in [Vote -> {Unknown} \cup Heights]
    BY <1>2, HeightTypes DEF NodeState
  <2> QED BY <1>2, <2>1 DEF NodeState
<1>4. NodeInv(s, S)
  <2> HIDE DEF s, S
  <2> QED BY <1>1, <1>2, <1>3, Unrelated DEF SameCandidate, Exists
<1>5. \/ Become(n, s, {v})
      \/ ~HasRequest(s, t) /\ Become(n, w, {v})
      \/ /\ HasRequest(s, t) /\ s.cand[t].age = 0
         /\ (v.mn \in s.cand[t].votes[v.out] /\ Become(n, r, {v})) \/ Become(n, f, {v})
  BY DEF ReceiveVote
<1> HIDE DEF s, S
<1>6. Answers(s, node[n]) /\ Ripe(s) /\ \A u \in Tx : NoNearer(s, node[n], u)
  <2>1. Answers(s, node[n])
    BY <1>2, <1>3, AnswersCandidates DEF Ripe, Risen
  <2>2. ASSUME NEW u \in Tx PROVE NoNearer(s, node[n], u)
    BY <1>3, NoNearerAt DEF OrphansOf
  <2> QED BY <2>1, <2>2 DEF Answers
<1>7. CASE Become(n, s, {v})
  BY <1>6, <1>7, BecomeAnswers
<1>8. CASE ~HasRequest(s, t) /\ Become(n, w, {v})
  <2>1. e \in NodeState /\ e.cand = s.cand /\ e.orphan = s.orphan \cup {v} /\ e.cached = s.cached
    BY <1>3 DEF NodeState
  <2>2. c \in Candidate /\ ~c.req
    <3>1. CASE Exists(s, t)
      BY <1>1, <1>3, <1>8, <3>1, CandidateFields DEF HasRequest
    <3>2. CASE ~Exists(s, t)
      BY <3>2, NoVotes
    <3> QED BY <3>1, <3>2
  <2>3. k = w
    <3> HIDE DEF c, t
    <3> QED BY <1>3 DEF NodeState
  <2> HIDE DEF e, c
  <2>4. k \in NodeState
    BY <1>1, <2>1, <2>2, SetCandidate
  <2>5. k.cached = e.cached /\ \A u \in Tx : NoNearer(k, e, u)
    <3>1. k.cached = e.cached /\ (\A u \in Tx \ {t} : NoNearer(k, e, u)) /\ NoNearer(k, e, t)
      BY <1>1, <2>1, <2>2, SetCandidateNoNearer
    <3> HIDE DEF k, t
    <3> QED BY <3>1
  <2> HIDE DEF k, w
  <2>6. ASSUME NEW u \in Tx PROVE NoNearer(k, s, u)
    <3>1. CASE u = t
      <4>1. NoNearer(e, s, t)
        BY <1>8, <2>1 DEF NoNearer, HasRequest, Exists
      <4> QED BY <2>5, <3>1, <4>1, NoNearerTrans
    <3>2. CASE u # t
      <4>1. OrphansOf(e, u) = OrphansOf(s, u)
        BY <2>1, <3>2 DEF OrphansOf
      <4>2. NoNearer(e, s, u)
        BY <2>1, <4>1, NoNearerAt
      <4> QED BY <2>5, <4>2, NoNearerTrans
    <3> QED BY <3>1, <3>2
  <2>7. Risen(k)
    BY <1>6, <2>1, <2>5 DEF Ripe, Risen
  <2>8. Answers(k, s)
    BY <1>6, <2>4, <2>6, <2>7, AnswersQuietly
  <2>9. Answers(k, node[n])
    BY <1>6, <2>8, AnswersAfter
  <2> QED BY <1>8, <2>3, <2>9, BecomeAnswers
<1>9. CASE /\ HasRequest(s, t) /\ s.cand[t].age = 0
           /\ (v.mn \in s.cand[t].votes[v.out] /\ Become(n, r, {v})) \/ Become(n, f, {v})
  <2>1. Exists(s, t) /\ s.cand[t].full
    BY <1>1, <1>4, <1>9 DEF NodeInv, Noticed, HasRequest
  <2>2. {v} \in SUBSET S /\ \A x \in {v} : x.tx = t
    BY <1>1
  <2>3. NodeInv(r, S)
    BY <1>1, <1>4, <2>1, <2>2, AddVotesInv
  <2> HIDE DEF t
  <2>4. Exists(r, t) /\ r \in NodeState /\ r.cached = s.cached /\ r.orphan = s.orphan
    BY <1>1, <1>3, <2>1, AddVotesFields
  <2>5. \A o \in Outpoint : r.cand[t].votes[o] = s.cand[t].votes[o] \cup VotersOn({v}, o)
    <3> DEFINE V == {v}
    <3>1. V \in SUBSET Vote /\ s \in NodeState
      BY <1>1, <1>3
    <3> HIDE DEF V
    <3>2. LET q == AddVotes(s, t, V)
          IN  \A u \in Tx : Exists(s, u) => \A o \in Outpoint :
                 u = t => q.cand[u].votes[o] = s.cand[u].votes[o] \cup VotersOn(V, o)
      BY SMTT(30), <1>1, <2>1, <3>1, AddVotesFields
    <3>3. LET q == AddVotes(s, t, V)
          IN  \A o \in Outpoint : q.cand[t].votes[o] = s.cand[t].votes[o] \cup VotersOn(V, o)
      BY <1>1, <2>1, <3>2
    <3> QED BY <3>3 DEF V
  <2>6. \A u \in Tx \ {t} : NoNearer(r, s, u)
    BY <1>1, <1>3, <2>1, AddVotesNoNearer
  <2>7. v.mn \in s.cand[t].votes[v.out] => NoNearer(r, s, t)
    <3>1. \A o \in Outpoint : v.mn \in s.cand[t].votes[v.out] => VotersOn({v}, o) \subseteq s.cand[t].votes[o]
      BY DEF VotersOn
    <3>2. \A u \in Tx : u # t \/ (\A o \in Outpoint : VotersOn({v}, o) \subseteq s.cand[t].votes[o]) => NoNearer(r, s, u)
      BY <1>1, <1>3, <2>1, AddVotesNoNearer
    <3> HIDE DEF r, t
    <3> QED BY <1>1, <3>1, <3>2
  <2> HIDE DEF r, t
  <2>8. Settled(r, t)
    <3>1. ASSUME NEW x \in OrphansOf(r, t) PROVE x.mn \in r.cand[t].votes[x.out]
      <4>1. x \in OrphansOf(s, t)
        BY <2>4 DEF OrphansOf
      <4>2. x.mn \in s.cand[t].votes[x.out]
        BY <1>1, <1>6, <1>9, <4>1 DEF Ripe, Settled
      <4>3. x.out \in Outpoint
        BY <1>3, <4>1, Fields DEF OrphansOf, Vote
      <4> QED BY <2>5, <4>2, <4>3
    <3> QED BY <3>1 DEF Settled
  <2>9. CASE v.mn \in s.cand[t].votes[v.out] /\ Become(n, r, {v})
    <3>1. \A u \in Tx : NoNearer(r, s, u)
      BY <2>6, <2>7, <2>9
    <3>2. Risen(r)
      BY <1>6, <2>4 DEF Ripe, Risen
    <3>3. Answers(r, s)
      BY <1>6, <2>4, <3>1, <3>2, AnswersQuietly
    <3>4. Answers(r, node[n])
      BY <1>6, <3>3, AnswersAfter
    <3> QED BY <2>9, <3>4, BecomeAnswers
  <2>10. CASE Become(n, f, {v})
    <3>1. r.cand[t] \in Candidate /\ \A o \in Outpoint : \A m \in r.cand[t].votes[o] : VoteOf(t, o, m) \in S
      BY <1>1, <2>3, <2>4 DEF NodeInv, NodeState, Exists, Backing
    <3>2. NodeInv(f, S)
      BY <1>1, <2>3, <2>4, <3>1, TryToFinalizeInv
    <3>3. f \in NodeState /\ Noticed(r)
      BY <2>3, <3>2 DEF NodeInv
    <3>4. Answers(f, s)
      BY <1>1, <1>6, <2>4, <2>6, <2>8, <3>3, FinalizeAnswers
    <3> HIDE DEF f
    <3>5. Answers(f, node[n])
      BY <1>6, <3>4, AnswersAfter
    <3> QED BY <2>10, <3>5, BecomeAnswers
  <2> QED BY <1>9, <2>9, <2>10
<1> QED
  BY <1>5, <1>7, <1>8, <1>9

LEMMA AgeAnswers ==
    ASSUME IInv, RipeInv, NEW n \in Node, NEW t \in Tx, Age(n, t)
    PROVE  Answering
<1> DEFINE s == node[n]
           c == [s.cand[t] EXCEPT !.age = s.cand[t].age + 1]
           r == [s EXCEPT !.cand[t] = c]
<1>1. Exists(s, t) /\ s.cand[t].age < 2 /\ Become(n, r, {})
  BY DEF Age
<1>2. s \in NodeState /\ Ripe(s) /\ Risen(s)
  BY RipeNode
<1>3. s.cand[t] \in Candidate
  BY <1>1, <1>2 DEF NodeState, Exists
<1>4. c \in Candidate /\ c.age # 0
  BY SMT, <1>1, <1>3 DEF Candidate
<1> HIDE DEF c, s
<1>5. r \in NodeState
  BY <1>2, <1>4, SetCandidate
<1>6. r.cached = s.cached /\ (\A u \in Tx \ {t} : NoNearer(r, s, u)) /\ NoNearer(r, s, t)
  BY <1>2, <1>4, SetCandidateNoNearer
<1> HIDE DEF r
<1>7. \A u \in Tx : NoNearer(r, s, u)
  BY <1>6
<1>8. Risen(r)
  BY <1>2, <1>6 DEF Risen
<1>9. Answers(r, s)
  BY <1>2, <1>5, <1>7, <1>8, AnswersQuietly
<1> QED
  BY <1>1, <1>9, BecomeAnswers DEF s

LEMMA UpdatedBlockTipAnswers ==
    ASSUME IInv, RipeInv, NEW n \in Node, UpdatedBlockTip(n)
    PROVE  Answering
<1> DEFINE s == node[n]
           r == [s EXCEPT !.cached = s.height]
<1>1. s \in NodeState /\ Ripe(s) /\ s.height \in FirstHeight..(FirstHeight + MaxBlocks) /\ s.height \in Heights
  BY RipeNode, Fields, HeightTypes
<1>2. r \in NodeState /\ r.cand = s.cand /\ r.orphan = s.orphan /\ r.cached = s.height
  BY <1>1 DEF NodeState
<1>3. Become(n, r, {})
  BY DEF UpdatedBlockTip
<1> HIDE DEF r, s
<1>4. Answers(r, s)
  BY <1>1, <1>2, AnswersCandidates DEF Risen
<1> QED
  BY <1>3, <1>4, BecomeAnswers DEF s

LEMMA EvictAnswers ==
    ASSUME IInv, RipeInv, NEW n \in Node, NEW t \in Tx, Evict(n, t)
    PROVE  Answering
<1> DEFINE s == node[n]
           r == [s EXCEPT !.pool = s.pool \ {t}]
<1>1. s \in NodeState /\ Ripe(s) /\ Risen(s)
  BY RipeNode
<1>2. r \in NodeState /\ r.cand = s.cand /\ r.orphan = s.orphan /\ r.cached = s.cached
  BY <1>1 DEF NodeState
<1>3. Become(n, r, {})
  BY DEF Evict
<1> HIDE DEF r, s
<1>4. Answers(r, s)
  BY <1>1, <1>2, AnswersCandidates DEF Risen
<1> QED
  BY <1>3, <1>4, BecomeAnswers DEF s

LEMMA CrashAnswers ==
    ASSUME IInv, RipeInv, NEW n \in Node, Crash(n)
    PROVE  Answering
<1> DEFINE s == node[n]
           r == [Cleared(s) EXCEPT !.pool = {}, !.handling = Idle, !.cached = s.height]
<1>1. s \in NodeState /\ Ripe(s) /\ s.height \in FirstHeight..(FirstHeight + MaxBlocks) /\ s.height \in Heights
  BY RipeNode, Fields, HeightTypes
<1>2. r \in NodeState /\ r.cand = [t \in Tx |-> NoCandidate] /\ r.cached = s.height
  BY <1>1 DEF Cleared, NodeState
<1>3. Become(n, r, {})
  BY DEF Crash
<1> HIDE DEF r, s
<1>4. \A t \in Tx : NoNearer(r, s, t)
  BY <1>2 DEF NoNearer, HasRequest, Exists
<1>5. Answers(r, s)
  BY <1>1, <1>2, <1>4, AnswersQuietly DEF Risen
<1> QED
  BY <1>3, <1>5, BecomeAnswers DEF s

LEMMA DoMaintenanceAnswers ==
    ASSUME IInv, RipeInv, NEW n \in Node, DoMaintenance(n)
    PROVE  Answering
<1> DEFINE s == node[n]
           r == CheckAndRemove(s)
<1>1. s \in NodeState /\ Ripe(s) /\ Risen(s)
  BY RipeNode
<1>2. Become(n, r, {})
  BY DEF DoMaintenance
<1> HIDE DEF s
<1>3. r \in NodeState /\ r.cached = s.cached
  BY SMT, <1>1, CheckAndRemoveFields
<1>4. \A t \in Tx : NoNearer(r, s, t)
  BY <1>1, CheckAndRemoveNoNearer
<1> HIDE DEF r
<1>5. Answers(r, s)
  BY <1>1, <1>3, <1>4, AnswersQuietly DEF Risen
<1> QED
  BY <1>2, <1>5, BecomeAnswers DEF s

\* Every step of every node.
LEMMA NextAnswers == IInv /\ RipeInv /\ [Next]_vars => Answering
<1> SUFFICES ASSUME IInv, RipeInv, [Next]_vars PROVE Answering
  OBVIOUS
<1>1. CASE UNCHANGED vars
  <2>1. ASSUME NEW n \in Node PROVE Answers(node'[n], node[n])
    <3>1. node'[n] = node[n] /\ node[n] \in NodeState /\ Ripe(node[n]) /\ Risen(node[n])
      BY <1>1, RipeNode DEF vars
    <3> QED BY <3>1, AnswersCandidates
  <2> QED BY <2>1 DEF Answering
<1>2. ASSUME NEW n \in Node, NEW T \in SUBSET Tx, ConnectBlock(n, T) PROVE Answering
  BY <1>2, RipeNode, ConnectTipAnswers, BecomeAnswers DEF ConnectBlock
<1>3. ASSUME NEW n \in Node, DisconnectBlock(n) PROVE Answering
  BY <1>3, RipeNode, DisconnectTipAnswers, BecomeAnswers DEF DisconnectBlock
<1>4. CASE Next
  BY <1>2, <1>3, <1>4, ReceiveRequestAnswers, AcceptRequestAnswers, RefuseRequestAnswers, AcceptPlainAnswers,
     RelayWalletTransactionAnswers, AgeAnswers, EvictAnswers, ReceiveVoteAnswers, UpdatedBlockTipAnswers,
     DoMaintenanceAnswers, CrashAnswers DEF Next
<1> QED
  BY <1>1, <1>4

LEMMA InitRipeInv == Init => RipeInv
<1> SUFFICES ASSUME Init, NEW n \in Node PROVE Ripe(node[n])
  BY DEF RipeInv
<1>1. node[n] = Start
  BY DEF Init
<1>2. \A t \in Tx : ~Exists(Start, t)
  BY DEF Start, Exists
<1>3. FirstHeight \in FirstHeight..(FirstHeight + MaxBlocks)
  BY SMT, InstantSendAssumption DEF FirstHeight
<1>4. Risen(Start)
  BY <1>3 DEF Risen, Start
<1> QED
  BY <1>1, <1>2, <1>4 DEF Ripe, Settled, HasRequest

\* The step that brings the last vote or the request locks the transaction unless something
\* is in its way, in whatever order votes, request, blocks, time-outs and crashes come, for
\* any number of nodes, masternodes and transactions (instantx.cpp:97, instantx.cpp:486).
THEOREM LastVoteLocksAlways == Spec => LastVoteLocks
<1> DEFINE A == \A n \in Node, t \in Tx :
                  ~Complete(node[n], t) /\ Complete(node'[n], t) /\ Unopposed(node'[n], t) => IsLocked(node'[n], t)
<1>1. Answering => A
  BY AnswersLocks DEF Answering
<1>2. Answering => RipeInv'
  BY DEF Answering, Answers, RipeInv
<1>3. IInv /\ RipeInv /\ [Next]_vars => RipeInv' /\ [A]_vars
  BY <1>1, <1>2, NextAnswers
<1>4. Spec => []RipeInv
  BY <1>3, InitRipeInv, InductiveInvariant, PTL DEF Spec
<1>5. Spec => [][A]_vars
  BY <1>3, <1>4, InductiveInvariant, PTL DEF Spec
<1> QED
  BY <1>5 DEF LastVoteLocks
=============================================================================
