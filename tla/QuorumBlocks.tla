---------------------------- MODULE QuorumBlocks ----------------------------
(***************************************************************************)
(* CQuorumBlockProcessor (llmq/quorums_blockprocessor.cpp) for one quorum  *)
(* type: final commitments arrive as messages, wait as minable ones, are   *)
(* mined in the blocks of a session's mining window, and become minable    *)
(* again when their block is disconnected.                                 *)
(* A quorum is named by the hash of the first block of its session, here   *)
(* the chain up to that block, so reorganisations give new quorums.        *)
(***************************************************************************)
EXTENDS Integers, Sequences

CONSTANTS
    Interval,                   \* dkgInterval
    WindowStart, WindowEnd,     \* dkgMiningWindowStart, dkgMiningWindowEnd
    Signers,                    \* how many may have signed a commitment
    Salts,                      \* what tells the first blocks of rival sessions apart
    MaxHeight, MaxMsgs, MaxUndos    \* bounds: the chain, messages received, blocks disconnected

\* What is assumed of the constants.
QuorumAssumption ==
    /\ Interval \in Nat \ {0} /\ WindowEnd \in 1..(Interval - 1) /\ WindowStart \in 1..WindowEnd
    /\ Signers \subseteq Nat \ {0} /\ Salts \subseteq Nat
    /\ MaxHeight \in Nat /\ MaxMsgs \in Nat /\ MaxUndos \in Nat

VARIABLES
    chain,          \* the active chain: chain[i] is the block at height i - 1
    mined,          \* DB_MINED_COMMITMENT: commitments by quorum
    minable,        \* minableCommitments
    byQuorum,       \* minableCommitmentsByQuorum: of each quorum, the one to mine
    verifying,      \* messages between the first check and AddMinableCommitment
    msgs,           \* messages received
    undos           \* blocks disconnected

vars == <<chain, mined, minable, byQuorum, verifying, msgs, undos>>

\* A block's commitment: none, the null commitment, or one with so many signers.
NoQc == -1
NullQc == 0
Blocks == [qc : {NoQc, NullQc} \cup Signers, salt : Salts]
NoQuorum == <<>>
Commitment(q, n) == [quorum |-> q, signers |-> n]

-----------------------------------------------------------------------------
IsMiningPhase(h) == h % Interval \in WindowStart..WindowEnd

\* Unknown for the first block of a session: its own hash will be the quorum's.
GetQuorumBlockHash(h) ==
    LET start == h - (h % Interval) IN IF start < Len(chain) THEN SubSeq(chain, 1, start + 1) ELSE NoQuorum

HasMinedCommitment(q) == \E c \in mined : c.quorum = q

IsCommitmentRequired(h) ==
    LET q == GetQuorumBlockHash(h)
    IN  q # NoQuorum /\ IsMiningPhase(h) /\ ~HasMinedCommitment(q)

\* Seeded fault: the override enters the commitment under its quorum only.
AddMinableCommitmentForgets(c) ==
    LET old == {k \in byQuorum : k.quorum = c.quorum}
        better == \A k \in old : c.signers > k.signers
    IN  /\ byQuorum' = IF better THEN (byQuorum \ old) \cup {c} ELSE byQuorum
        /\ minable' = IF old = {} THEN minable \cup {c} ELSE minable

\* A better commitment replaces the one to mine; minableCommitments.erase() is given the
\* hash of the new one, so the old one stays among the minable ones.
AddMinableCommitment(c) ==
    LET old == {k \in byQuorum : k.quorum = c.quorum}
        better == \A k \in old : c.signers > k.signers
    IN  /\ byQuorum' = IF better THEN (byQuorum \ old) \cup {c} ELSE byQuorum
        /\ minable' = IF better THEN minable \cup {c} ELSE minable

\* What a block template at height h gets: NoQc, NullQc, or a commitment's signers.
GetMinableCommitment(h) ==
    LET known == {k \in byQuorum : k.quorum = GetQuorumBlockHash(h)}
    IN  IF ~IsCommitmentRequired(h) THEN NoQc
        ELSE IF known = {} THEN NullQc ELSE (CHOOSE k \in known : TRUE).signers

\* The commitment of a template for the next block.
NextTemplate == GetMinableCommitment(Len(chain))

-----------------------------------------------------------------------------
ActiveQuorums == {SubSeq(chain, 1, h + 1) : h \in {x \in 0..(Len(chain) - 1) : x % Interval = 0}}

\* ProcessMessage up to the verification: the quorum is one of the active chain, and the
\* message is dropped when CountSigners() of the known commitment is not above its own.
ProcessMessage(c) ==
    /\ msgs < MaxMsgs /\ msgs' = msgs + 1
    /\ c.quorum \in ActiveQuorums
    /\ verifying' = IF \E k \in byQuorum : k.quorum = c.quorum /\ k.signers <= c.signers
                      THEN verifying ELSE verifying \cup {c}
    /\ UNCHANGED <<chain, mined, minable, byQuorum, undos>>

\* The commitment was found valid, without any lock in the meantime.
Verified(c) ==
    /\ c \in verifying /\ verifying' = verifying \ {c}
    /\ AddMinableCommitment(c)
    /\ UNCHANGED <<chain, mined, msgs, undos>>

\* A block extends the chain (ProcessBlock and ProcessCommitment accept it): it has a
\* commitment for the current session exactly when one is required.
ConnectBlock(b) ==
    LET h == Len(chain)
    IN  /\ h <= MaxHeight
        /\ b.qc # NoQc <=> IsCommitmentRequired(h)
        /\ h % Interval # 0 => b.salt = chain[Len(chain)].salt
        /\ chain' = Append(chain, b)
        /\ mined' = IF b.qc \in Signers THEN mined \cup {Commitment(GetQuorumBlockHash(h), b.qc)} ELSE mined
        /\ UNCHANGED <<minable, byQuorum, verifying, msgs, undos>>

\* Seeded fault: the mined commitment stays in the database.
UndoBlockKeeps ==
    LET h == Len(chain) - 1
        b == chain[Len(chain)]
        c == Commitment(GetQuorumBlockHash(h), b.qc)
    IN  /\ undos < MaxUndos /\ undos' = undos + 1
        /\ h > 0 /\ chain' = SubSeq(chain, 1, h)
        /\ mined' = mined
        /\ IF b.qc \in Signers THEN AddMinableCommitment(c) ELSE UNCHANGED <<minable, byQuorum>>
        /\ UNCHANGED <<verifying, msgs>>

\* Seeded fault: a disconnected commitment is not offered again.
UndoBlockForgets ==
    LET h == Len(chain) - 1
        b == chain[Len(chain)]
        c == Commitment(GetQuorumBlockHash(h), b.qc)
    IN  /\ undos < MaxUndos /\ undos' = undos + 1
        /\ h > 0 /\ chain' = SubSeq(chain, 1, h)
        /\ mined' = {k \in mined : b.qc \in Signers => k.quorum # c.quorum}
        /\ UNCHANGED <<minable, byQuorum>>
        /\ UNCHANGED <<verifying, msgs>>

\* UndoBlock of the tip: its commitment may be mined again.
UndoBlock ==
    LET h == Len(chain) - 1
        b == chain[Len(chain)]
        c == Commitment(GetQuorumBlockHash(h), b.qc)
    IN  /\ undos < MaxUndos /\ undos' = undos + 1
        /\ h > 0 /\ chain' = SubSeq(chain, 1, h)
        /\ mined' = {k \in mined : b.qc \in Signers => k.quorum # c.quorum}
        /\ IF b.qc \in Signers THEN AddMinableCommitment(c) ELSE UNCHANGED <<minable, byQuorum>>
        /\ UNCHANGED <<verifying, msgs>>

Init ==
    /\ chain = <<[qc |-> NoQc, salt |-> CHOOSE s \in Salts : TRUE]>>
    /\ mined = {} /\ minable = {} /\ byQuorum = {} /\ verifying = {} /\ msgs = 0 /\ undos = 0

Next ==
    \/ \E q \in ActiveQuorums, n \in Signers : ProcessMessage(Commitment(q, n))
    \/ \E c \in verifying : Verified(c)
    \/ \E b \in Blocks : ConnectBlock(b)
    \/ UndoBlock

Spec == Init /\ [][Next]_vars

-----------------------------------------------------------------------------
\* The session of the block at position i of the chain.
SessionOf(i) == SubSeq(chain, 1, (i - 1) - ((i - 1) % Interval) + 1)

\* After any reorganisation the database has the non-null commitments of the active
\* chain and no others, at most one for each session.  While a session's window is open
\* and nothing was mined, every block has a commitment; after a non-null one, none has.
MinedMatchesChain ==
    LET real == {i \in DOMAIN chain : chain[i].qc \in Signers}
        before(i) == {j \in real : j < i /\ SessionOf(j) = SessionOf(i)}
    IN  /\ mined = {Commitment(SessionOf(i), chain[i].qc) : i \in real}
        /\ \A i \in DOMAIN chain : chain[i].qc # NoQc <=> IsMiningPhase(i - 1) /\ before(i) = {}

\* The map by quorum never names a commitment that is gone (minableCommitments.at() would
\* throw), and has one entry for each quorum; a null commitment is never offered.
IndexComplete ==
    /\ byQuorum \subseteq minable
    /\ \A c, d \in byQuorum : c.quorum = d.quorum => c = d
    /\ \A c \in minable : c.quorum # NoQuorum /\ c.signers \in Signers

\* A commitment mined once and disconnected is not forgotten: as long as its session is
\* open again, the template has a commitment with at least as many signers.
DisconnectedMinedAgain ==
    [][Len(chain') < Len(chain) /\ chain[Len(chain)].qc \in Signers
         => NextTemplate' >= chain[Len(chain)].qc]_vars

\* "Check if we already got a better one locally" (ProcessMessage): a message is dropped
\* only when a commitment at least as good is known.
BetterNotDropped ==
    [][\A q \in ActiveQuorums, n \in Signers :
          ProcessMessage(Commitment(q, n)) /\ verifying' = verifying
            => \E k \in byQuorum \cup verifying : k.quorum = q /\ k.signers >= n]_vars
=============================================================================
