-------------------------------- MODULE Evo ---------------------------------
(***************************************************************************)
(* MNPayments, PoSe and QuorumBlocks side by side: part says which of the  *)
(* three a behaviour is one of, and the others stand still.                *)
(***************************************************************************)
EXTENDS MNPayments

\* The constants of PoSe and QuorumBlocks; MaxHeight is that of MNPayments.
CONSTANTS
    MinMaxPenalty, Percent, MaxCount, PoSeHeight, MaxFails, BanHeights,
    Interval, WindowStart, WindowEnd, Signers, Salts, ChainHeight, MaxMsgs, MaxUndos

VARIABLES
    part,
    pHeight, count, penalty, banHeight, fails, peak,
    chain, mined, minable, byQuorum, verifying, msgs, undos

P == INSTANCE PoSe WITH MaxHeight <- PoSeHeight, height <- pHeight

Q == INSTANCE QuorumBlocks WITH MaxHeight <- ChainHeight

ASSUME PoSeConstants == P!PoSeAssumption
ASSUME QuorumConstants == Q!QuorumAssumption

pVars == <<pHeight, count, penalty, banHeight, fails, peak>>
qVars == <<chain, mined, minable, byQuorum, verifying, msgs, undos>>
evoVars == <<part, vars, pVars, qVars>>

EvoInit ==
    /\ part \in {"payments", "pose", "quorums"}
    /\ Init /\ P!Init /\ Q!Init
    /\ part = "pose" \/ (count = 1 /\ banHeight = -1)

EvoNext ==
    \/ part = "payments" /\ Next /\ UNCHANGED <<part, pVars, qVars>>
    \/ part = "pose" /\ P!Next /\ UNCHANGED <<part, vars, qVars>>
    \/ part = "quorums" /\ Q!Next /\ UNCHANGED <<part, vars, pVars>>

EvoSpec == EvoInit /\ [][EvoNext]_evoVars

-----------------------------------------------------------------------------
\* PoSe: the ban at the maximum penalty never comes a session late.
BannedAtMaximum == P!BannedAtMaximum

\* PoSe: two failed sessions in short succession ban a masternode.
TwoFailuresBan == P!TwoFailuresBan

\* QuorumBlocks: the database has the commitments of the active chain, one per session.
MinedMatchesChain == Q!MinedMatchesChain

\* QuorumBlocks: the commitment to mine is one of the minable ones.
IndexComplete == Q!IndexComplete

\* QuorumBlocks: a disconnected commitment is offered again.
DisconnectedMinedAgain == Q!DisconnectedMinedAgain
=============================================================================
