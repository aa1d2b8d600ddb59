----------------------------- MODULE SporkLoad ------------------------------
(***************************************************************************)
(* CSporkManager::CheckAndRemove (spork.cpp), run by CFlatDB::Load on what *)
(* sporks.dat holds, for one spork: the loop over the signers one          *)
(* iteration at a time, then the loop over mapSporksByHash.                *)
(* A message is named by its signer; the spork keys of this start may not  *)
(* be those of the run that dumped the file.                               *)
(***************************************************************************)
EXTENDS Naturals, Sequences, FiniteSets

CONSTANTS
    Signers,            \* keys that signed messages of the file, in map order
    CurrentKeys,        \* setSporkPubKeyIDs of this start
    Unverified          \* signers whose message has no valid signature of theirs

Valid == CurrentKeys \ Unverified

VARIABLES
    active,         \* signers in mapSporksActive[nSporkID]
    byHash,         \* messages in mapSporksByHash
    at,             \* itSignerPair: how many signers are behind it
    state,          \* "signers", "hashes" or "done"
    turn            \* flips with every iteration, so that each one is a step

vars == <<active, byHash, at, state, turn>>

\* The loop over the signers.  The message of a signer that is no spork key any more is
\* erased by hash, and the iterator stays where it is; one that fails CheckSignature is
\* erased from both maps.
CheckSigner ==
    LET k == Signers[at + 1]
    IN  /\ state = "signers" /\ at < Len(Signers)
        /\ byHash' = IF k \in Valid THEN byHash ELSE byHash \ {k}
        /\ active' = IF k \in CurrentKeys \cap Unverified THEN active \ {k} ELSE active
        /\ at' = IF k \in CurrentKeys THEN at + 1 ELSE at
        /\ turn' = 1 - turn
        /\ UNCHANGED state

\* An entry left without signers is erased, which the empty set stands for.
SignersDone ==
    /\ state = "signers" /\ at = Len(Signers) /\ state' = "hashes"
    /\ UNCHANGED <<active, byHash, at, turn>>

\* The loop over the hashes keeps the messages that a spork key has signed.
CheckHashes ==
    /\ state = "hashes" /\ state' = "done"
    /\ byHash' = byHash \cap Valid
    /\ UNCHANGED <<active, at, turn>>

Init ==
    /\ active = {Signers[i] : i \in DOMAIN Signers} /\ byHash = active
    /\ at = 0 /\ turn = 0 /\ state = "signers"

Next == CheckSigner \/ SignersDone \/ CheckHashes \/ (state = "done" /\ UNCHANGED vars)

\* The loop is run by one thread, which is never blocked.
Spec == Init /\ [][Next]_vars /\ WF_vars(Next)

\* "If sporks that are restored from cache do not have valid signatures when compared
\* against the current spork private keys, they are removed from in-memory storage."
\* (spork.h): CheckAndRemove comes to an end with the messages of the current keys alone.
RemovedInTheEnd == <>(state = "done" /\ active \subseteq Valid /\ byHash \subseteq Valid)
=============================================================================
