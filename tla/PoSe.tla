-------------------------------- MODULE PoSe --------------------------------
(***************************************************************************)
(* Proof of service: the penalty and the ban of one masternode             *)
(* (evo/deterministicmns.cpp).  A failed DKG session adds 66% of the       *)
(* maximum penalty, each block takes one point off, and at the maximum the *)
(* masternode is banned until a ProUpServTx revives it.  The maximum       *)
(* follows the number of registered masternodes.                           *)
(***************************************************************************)
EXTENDS Integers, Sequences

CONSTANTS
    MinMaxPenalty,      \* the least maximum penalty: 100
    Percent,            \* the share of it that a failed session costs: 66
    MaxCount,           \* bound: registered masternodes
    MaxHeight,          \* bound: blocks
    MaxFails,           \* bound: failed sessions
    BanHeights          \* bound: the blocks with a ProUpRegTx or ProUpRevTx

\* What is assumed of the constants.
PoSeAssumption ==
    /\ MinMaxPenalty \in Nat \ {0} /\ Percent \in 1..100
    /\ MinMaxPenalty * Percent >= 100
    /\ MaxCount \in Nat \ {0} /\ MaxHeight \in Nat /\ MaxFails \in Nat
    /\ BanHeights \subseteq Nat

VARIABLES
    height,     \* nHeight of the list
    count,      \* GetAllMNsCount()
    penalty,    \* nPoSePenalty
    banHeight,  \* nPoSeBanHeight, -1 when not banned
    fails,      \* the heights of the sessions failed since the last revival
    peak        \* the largest maximum penalty so far

vars == <<height, count, penalty, banHeight, fails, peak>>

Least(a, b) == IF a < b THEN a ELSE b
Most(a, b) == IF a > b THEN a ELSE b

MaxPenaltyOf(n) == Most(MinMaxPenalty, n)
CalcMaxPoSePenalty == MaxPenaltyOf(count)

CalcPenalty == (CalcMaxPoSePenalty * Percent) \div 100

Banned == banHeight # -1

\* Seeded fault: the penalty is decreased twice per block.
BeginBlockTwo ==
    /\ height < MaxHeight
    /\ height' = height + 1
    /\ penalty' = IF penalty > 1 /\ ~Banned THEN penalty - 2 ELSE penalty
    /\ UNCHANGED <<count, banHeight, fails, peak>>

\* DecreasePoSePenalties() at the start of a block: only for masternodes not banned.
BeginBlock ==
    /\ height < MaxHeight
    /\ height' = height + 1
    /\ penalty' = IF penalty > 0 /\ ~Banned THEN penalty - 1 ELSE penalty
    /\ UNCHANGED <<count, banHeight, fails, peak>>

\* Seeded fault: the ban waits until the maximum is exceeded.
PoSePunishLate ==
    /\ Len(fails) < MaxFails
    /\ penalty' = Least(CalcMaxPoSePenalty, penalty + CalcPenalty)
    /\ banHeight' = IF penalty + CalcPenalty > CalcMaxPoSePenalty /\ ~Banned THEN height ELSE banHeight
    /\ fails' = Append(fails, height)
    /\ UNCHANGED <<height, count, peak>>

\* HandleQuorumCommitment(): the masternode is not among the valid members.
PoSePunish ==
    /\ Len(fails) < MaxFails
    /\ penalty' = Least(CalcMaxPoSePenalty, penalty + CalcPenalty)
    /\ banHeight' = IF penalty' >= CalcMaxPoSePenalty /\ ~Banned THEN height ELSE banHeight
    /\ fails' = Append(fails, height)
    /\ UNCHANGED <<height, count, peak>>

\* Another masternode is registered or removed.
CountChanges ==
    /\ count' \in {count - 1, count + 1} \cap 1..MaxCount
    /\ peak' = Most(peak, MaxPenaltyOf(count'))
    /\ UNCHANGED <<height, penalty, banHeight, fails>>

\* ProUpRegTx with a new operator key, ProUpRevTx: BanIfNotBanned().
BanIfNotBanned ==
    /\ height \in BanHeights
    /\ banHeight' = IF Banned THEN banHeight ELSE height
    /\ UNCHANGED <<height, count, penalty, fails, peak>>

\* ProUpServTx of a banned masternode that has all its keys (here always: MNPayments has them).
Revive ==
    /\ Banned
    /\ penalty' = 0 /\ banHeight' = -1 /\ fails' = <<>>
    /\ UNCHANGED <<height, count, peak>>

Init ==
    /\ height = 0 /\ count \in 1..MaxCount /\ penalty = 0 /\ banHeight \in {-1, 0}
    /\ fails = <<>> /\ peak = MaxPenaltyOf(count)

Next == BeginBlock \/ PoSePunish \/ CountChanges \/ BanIfNotBanned \/ Revive

Spec == Init /\ [][Next]_vars

-----------------------------------------------------------------------------
\* A masternode that is not banned is below a maximum it was punished under: the
\* ban never comes a session late, although the maximum moves with the list.
BannedAtMaximum == /\ penalty \in 0..peak
                   /\ ~Banned => penalty < peak

LastTwo == IF Len(fails) < 2 THEN <<>> ELSE SubSeq(fails, Len(fails) - 1, Len(fails))

\* "The idea is to immediately ban a MN when it fails 2 DKG sessions with only a few
\* blocks in-between" (HandleQuorumCommitment): few is what two penalties exceed the
\* maximum by, as long as the list has at most MinMaxPenalty masternodes.
TwoFailuresBan ==
    peak = MinMaxPenalty /\ Len(fails) >= 2
      => LET gap == LastTwo[2] - LastTwo[1]
         IN  gap <= 2 * CalcPenalty - MinMaxPenalty => Banned
=============================================================================
