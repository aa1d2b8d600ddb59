----------------------------- MODULE BestChain ------------------------------
(***************************************************************************)
(* Which chain is active (validation.cpp): the block index with its        *)
(* failure flags, setBlockIndexCandidates, mapBlocksUnlinked, and the      *)
(* threads that call ActivateBestChain after a block has come, after the   *)
(* calls invalidateblock, reconsiderblock and preciousblock, after a spork *)
(* has ordered blocks to be processed again, and after a restart.          *)
(* ActivateBestChain gives cs_main back between its steps and keeps        *)
(* pindexMostWork; only ReprocessBlocks runs it with cs_main held.         *)
(*                                                                         *)
(* Block files are not pruned: what has data keeps it.  Whether            *)
(* ConnectBlock takes a block can depend on transaction locks, payments    *)
(* and sporks at the time: it takes a block of Refusable now and refuses   *)
(* it then.                                                                *)
(***************************************************************************)
EXTENDS Integers, Sequences, FiniteSets, FiniteSetsExt

CONSTANTS
    Block, Genesis,
    Ancestors,          \* the ancestors of each block
    Proof,              \* GetBlockProof
    Memory,             \* the index entries in the order of their addresses, the last tie-breaker
    Malformed,          \* refused by ContextualCheckBlock
    Refusable,          \* ConnectBlock may refuse them
    Thread,
    Idle, Null,         \* not in ActivateBestChain; pindexMostWork = NULL
    MaxCalls            \* bound: calls by the operator, spork orders and restarts in a run

\* The chain that ends in a block, nChainWork, and where the index entry lies.
Chain == [b \in Block |-> Ancestors[b] \cup {b}]
Work == [b \in Block |-> MapThenSumSet(LAMBDA c : Proof[c], Chain[b])]
Address == [b \in Block |-> CHOOSE i \in DOMAIN Memory : Memory[i] = b]

\* The last and the first of blocks in one chain.
Highest(B) == CHOOSE b \in B : B \subseteq Chain[b]
Lowest(B) == CHOOSE b \in B : \A c \in B : b \in Chain[c]
Parent == [b \in Block \ {Genesis} |-> Highest(Chain[b] \ {b})]

ASSUME BestChainAssumption ==
    /\ Genesis \in Block /\ Ancestors \in [Block -> SUBSET Block]
    /\ \A b \in Block : b \notin Ancestors[b] /\ Genesis \in Chain[b] /\ IsFiniteSet(Ancestors[b])
    /\ \A b \in Block : \A c \in Ancestors[b] : Chain[c] \subseteq Ancestors[b]
    /\ \A b \in Block : \A c, d \in Chain[b] : c \in Chain[d] \/ d \in Chain[c]
    /\ Proof \in [Block -> Nat \ {0}]
    /\ Memory \in Seq(Block) /\ \A b \in Block : \E i \in DOMAIN Memory : Memory[i] = b
    /\ Malformed \cup Refusable \subseteq Block \ {Genesis}
    /\ Idle \notin Block /\ Null \notin Block /\ Idle # Null
    /\ MaxCalls \in Nat

VARIABLES
    known,          \* mapBlockIndex
    data,           \* the blocks with BLOCK_HAVE_DATA
    linked,         \* the blocks with nChainTx # 0
    invalid,        \* the blocks with BLOCK_FAILED_VALID
    child,          \* the blocks with BLOCK_FAILED_CHILD
    seq,            \* nSequenceId
    nextSeq,        \* nBlockSequenceId
    precious,       \* nBlockReverseSequenceId and nLastPreciousChainwork
    candidates,     \* setBlockIndexCandidates
    unlinked,       \* mapBlocksUnlinked: the blocks it maps their parents to
    tip,            \* chainActive.Tip()
    rejected,       \* mapRejectedBlocks
    thread,         \* each thread's pindexMostWork while it is in ActivateBestChain
    holder,         \* the thread that keeps cs_main between its steps, or Idle
    aborted,        \* the assertion of PruneBlockIndexCandidates has failed
    calls,          \* how many of MaxCalls were made
    turn,           \* history: flips with each turn of the loop, so that a turn that changes nothing is a step
    was,            \* history: the blocks that have been in the active chain
    excuse          \* history: what has happened that the properties make an exception for

index == <<known, data, linked, seq, nextSeq, unlinked>>
rest == <<precious, rejected, calls, aborted, turn, was, excuse>>
vars == <<known, data, linked, invalid, child, seq, nextSeq, precious, candidates, unlinked,
          tip, rejected, thread, holder, aborted, calls, turn, was, excuse>>

-----------------------------------------------------------------------------
Failed == invalid \cup child

\* CBlockIndexWorkComparator, with the sequence ids s.
Worse(s, b, c) ==
    \/ Work[b] < Work[c]
    \/ Work[b] = Work[c] /\ s[b] > s[c]
    \/ Work[b] = Work[c] /\ s[b] = s[c] /\ Address[b] > Address[c]

\* PruneBlockIndexCandidates.
Prune(s, C, t) == {c \in C : ~Worse(s, c, t)}

\* cs_main is free for thread t and the process runs.
Free(t) == holder \in {Idle, t} /\ ~aborted
Call == calls < MaxCalls /\ calls' = calls + 1

Init ==
    /\ known = {Genesis} /\ data = {Genesis} /\ linked = {Genesis}
    /\ invalid = {} /\ child = {} /\ unlinked = {} /\ rejected = {}
    /\ seq = [b \in Block |-> 0] /\ nextSeq = 1
    /\ precious = [id |-> -1, work |-> 0]
    /\ candidates = {Genesis} /\ tip = Genesis
    /\ thread = [t \in Thread |-> Idle] /\ holder = Idle
    /\ aborted = FALSE /\ calls = 0 /\ turn = FALSE /\ was = {Genesis} /\ excuse = {}

-----------------------------------------------------------------------------
(* Blocks come in. *)

\* AcceptBlockHeader refuses.
HeaderRefused(b) == IF b \in known THEN b \in Failed ELSE Parent[b] \notin known \/ Parent[b] \in Failed

AcceptBlockHeader(t, b) ==
    /\ Free(t) /\ thread[t] = Idle
    /\ b \notin known /\ ~HeaderRefused(b)
    /\ known' = known \cup {b}
    /\ UNCHANGED <<data, linked, seq, nextSeq, unlinked, invalid, child, candidates, tip, thread, holder, rest>>

\* Seeded fault: the waiting descendants are left waiting.
WaitingNone(b) == {}

\* The waiting descendants of b that can be connected once b is there.
Waiting(b) == {c \in unlinked : b \in Chain[c] /\ \A d \in Chain[c] \ Chain[b] : d \in unlinked}

\* ReceivedBlockTransactions.  The queue goes from parents to children; the order of
\* blocks of the same height is that of the map.
ReceivedBlockTransactions(b) ==
    LET L == {b} \cup Waiting(b)
        ids == nextSeq..(nextSeq + Cardinality(L) - 1)
    IN  /\ data' = data \cup {b}
        /\ \/ /\ Parent[b] \in linked
              /\ linked' = linked \cup L
              /\ \E f \in [L -> ids] :
                    /\ \A c, d \in L : Cardinality(Chain[c]) < Cardinality(Chain[d]) => f[c] < f[d]
                    /\ \A c, d \in L : f[c] = f[d] => c = d
                    /\ seq' = [c \in Block |-> IF c \in L THEN f[c] ELSE seq[c]]
              /\ nextSeq' = nextSeq + Cardinality(L)
              /\ candidates' = candidates \cup Prune(seq', L, tip)
              /\ unlinked' = unlinked \ L
           \/ /\ Parent[b] \notin linked
              /\ unlinked' = IF Parent[b] \in Failed THEN unlinked ELSE unlinked \cup {b}
              /\ UNCHANGED <<linked, seq, nextSeq, candidates>>

\* ProcessNewBlock: AcceptBlock, then ActivateBestChain.
ProcessNewBlock(t, b, fRequested) ==
    LET unwanted == b \in data \/ (~fRequested /\ Work[b] <= Work[tip])
    IN  /\ Free(t) /\ thread[t] = Idle
        /\ ~HeaderRefused(b)
        /\ known' = known \cup {b}
        /\ \/ /\ unwanted
              /\ thread' = [thread EXCEPT ![t] = Null]
              /\ UNCHANGED <<data, linked, seq, nextSeq, unlinked, candidates, invalid>>
           \/ /\ ~unwanted /\ b \in Malformed
              /\ invalid' = invalid \cup {b}
              /\ UNCHANGED <<data, linked, seq, nextSeq, unlinked, candidates, thread>>
           \/ /\ ~unwanted /\ b \notin Malformed
              /\ ReceivedBlockTransactions(b)
              /\ thread' = [thread EXCEPT ![t] = Null]
              /\ UNCHANGED invalid
        /\ UNCHANGED <<child, tip, holder, rest>>

-----------------------------------------------------------------------------
(* ActivateBestChain. *)

\* The part of c's chain that is not active.
Branch(c) == Chain[c] \ Chain[tip]

\* Seeded fault: only the candidate's own flags are looked at.
FindMostWorkChainSelf ==
    LET usable == candidates \ Failed
        most == IF usable = {} THEN Null
                ELSE CHOOSE c \in usable : \A d \in usable \ {c} : Worse(seq, d, c)
    IN  [most |-> most, marked |-> {}, erased |-> {}]

\* FindMostWorkChain: the best candidate with no failed block in its branch.  The
\* candidates before it in the order are dropped, with the blocks of their branches from
\* the last failed one on, and those after the failed one are marked.
FindMostWorkChain ==
    LET usable == {c \in candidates : Branch(c) \cap Failed = {}}
        most == IF usable = {} THEN Null
                ELSE CHOOSE c \in usable : \A d \in usable \ {c} : Worse(seq, d, c)
        dropped == {c \in candidates \ usable : most = Null \/ Worse(seq, most, c)}
        lastFailed(c) == Highest(Branch(c) \cap Failed)
        marked == UNION {Branch(c) \ Chain[lastFailed(c)] : c \in dropped}
    IN  [most |-> most, marked |-> marked, erased |-> marked \cup {lastFailed(c) : c \in dropped}]

\* Seeded fault: the block is not marked.
InvalidBlockFoundUnmarked(C, bad) ==
    /\ candidates' = C
    /\ UNCHANGED invalid

\* InvalidBlockFound, for the block that was refused if there is one.
InvalidBlockFound(C, bad) ==
    /\ candidates' = C \ bad
    /\ invalid' = invalid \cup bad

Leave(t) == IF holder = t THEN Idle ELSE holder

\* ActivateBestChainStep towards most, where ConnectBlock refuses the blocks in refused:
\* connecting stops at one of them, and for now at the first block with more work than
\* the old tip.
ActivateBestChainStep(most, refused) ==
    LET fork == Highest(Chain[tip] \cap Chain[most])
        path == Chain[most] \ Chain[fork]
        better == {b \in path : Work[b] > Work[tip]}
        goal == IF better = {} THEN most ELSE Lowest(better)
        stop == path \cap Chain[goal] \cap refused
    IN  IF stop = {} THEN [tip |-> goal, bad |-> {}, connected |-> TRUE]
        ELSE [tip |-> Parent[Lowest(stop)], bad |-> {Lowest(stop)},
              connected |-> Parent[Lowest(stop)] # fork]

\* pindexMostWork after the step: wiped after a refusal; the loop ends where it is reached.
Onward(most, step) == IF step.bad # {} THEN Null ELSE IF step.tip = most THEN Idle ELSE most

\* One turn of the loop of ActivateBestChain.
ActivateBestChain(t) ==
    /\ Free(t) /\ thread[t] # Idle
    /\ \E found \in {FindMostWorkChain} :
       LET first == thread[t] = Null
           most == IF first THEN found.most ELSE thread[t]
           C == IF first THEN candidates \ found.erased ELSE candidates
       IN  /\ child' = IF first THEN child \cup found.marked ELSE child
           /\ \/ /\ most \in {Null, tip}
                 /\ candidates' = C
                 /\ thread' = [thread EXCEPT ![t] = Idle]
                 /\ UNCHANGED <<invalid, tip, rejected, aborted, was, excuse>>
              \/ /\ most \notin {Null, tip}
                 /\ \E refused \in SUBSET Refusable :
                    \E step \in {ActivateBestChainStep(most, refused)} :
                    LET P == IF step.connected THEN Prune(seq, C, step.tip) ELSE C
                    IN  /\ tip' = step.tip
                        /\ aborted' = (step.connected /\ P = {})
                        /\ InvalidBlockFound(P, step.bad)
                        /\ rejected' = rejected \cup step.bad
                        /\ thread' = [thread EXCEPT ![t] = Onward(most, step)]
                        /\ was' = was \cup Chain[step.tip]
                        /\ excuse' = excuse \cup (IF most = found.most THEN {} ELSE {"stale"})
                                         \cup (IF step.bad \cap was = {} THEN {} ELSE {"turned"})
    /\ holder' = IF thread'[t] = Idle THEN Leave(t) ELSE holder
    /\ turn' = (thread'[t] # Idle /\ ~turn)
    /\ UNCHANGED <<index, precious, calls>>

-----------------------------------------------------------------------------
(* The operator, the sporks and restarts. *)

\* Seeded fault: nothing comes back, as if the candidates were still complete.
ReaddedNone(t, F) == {}

\* Seeded fault: only blocks with more work than the new tip come back.
ReaddedBetter(t, F) == {c \in linked \ F : Work[c] > Work[t]}

\* The blocks InvalidateBlock puts back into setBlockIndexCandidates.
Readded(t, F) == {c \in linked \ F : ~Worse(seq, c, t)}

\* invalidateblock: InvalidateBlock, then ActivateBestChain.
InvalidateBlock(t, b) ==
    LET undone == IF b \in Chain[tip] THEN {c \in Chain[tip] : b \in Chain[c]} ELSE {}
    IN  /\ Free(t) /\ thread[t] = Idle /\ Call
        /\ b \in known \ {Genesis}
        /\ invalid' = invalid \cup {b}
        /\ child' = child \cup undone
        /\ tip' = IF undone = {} THEN tip ELSE Parent[b]
        /\ candidates' = (candidates \ ({b} \cup undone)) \cup Readded(tip', invalid' \cup child')
        /\ thread' = [thread EXCEPT ![t] = Null]
        /\ UNCHANGED <<index, precious, rejected, holder, aborted, turn, was, excuse>>

\* ResetBlockFailureFlags for each of B, in the order of the map: what has been cleared
\* before as the ancestor of another one is not made a candidate.
Reset(B) == {c \in known : \E b \in B : b \in Chain[c] \/ c \in Chain[b]}
ResetBlockFailureFlags(B) ==
    /\ invalid' = invalid \ Reset(B)
    /\ child' = child \ Reset(B)
    /\ \E cleared \in SUBSET UNION {Ancestors[b] : b \in B} :
          candidates' = candidates \cup {c \in (linked \cap Failed) \ cleared :
                                            Worse(seq, tip, c) /\ \E b \in B : b \in Chain[c]}

\* reconsiderblock.
ReconsiderBlock(t, b) ==
    /\ Free(t) /\ thread[t] = Idle /\ Call
    /\ b \in known
    /\ ResetBlockFailureFlags({b})
    /\ thread' = [thread EXCEPT ![t] = Null]
    /\ excuse' = excuse \cup {"reconsider"}
    /\ UNCHANGED <<index, precious, tip, rejected, holder, aborted, turn, was>>

\* PreciousBlock.
PreciousBlock(t, b) ==
    LET id == IF Work[tip] > precious.work THEN -1 ELSE precious.id
        s == [seq EXCEPT ![b] = id]
    IN  /\ Free(t) /\ thread[t] = Idle /\ Call
        /\ b \in known
        /\ \/ /\ Work[b] < Work[tip]
              /\ UNCHANGED <<seq, precious, candidates, aborted, excuse>>
           \/ /\ Work[b] >= Work[tip]
              /\ seq' = s
              /\ precious' = [id |-> id - 1, work |-> Work[tip]]
              /\ IF b \in linked \ Failed
                 THEN /\ candidates' = Prune(s, candidates \cup {b}, tip)
                      /\ aborted' = (candidates' = {})
                 ELSE candidates' = candidates \ {b} /\ UNCHANGED aborted
              /\ excuse' = excuse \cup (IF id > seq[b] THEN {"demoted"} ELSE {})
        /\ thread' = [thread EXCEPT ![t] = Null]
        /\ UNCHANGED <<known, data, linked, nextSeq, unlinked, invalid, child, tip, rejected, holder, turn, was>>

\* ReprocessBlocks, on a spork: forget the recent ones of the rejected blocks' failures,
\* undo blocks, and run ActivateBestChain with cs_main held.
ReprocessBlocks(t, recent, b) ==
    /\ Free(t) /\ thread[t] = Idle /\ Call
    /\ recent \subseteq rejected /\ b \in Chain[tip] \ {tip}
    /\ ResetBlockFailureFlags(recent)
    /\ tip' = b
    /\ thread' = [thread EXCEPT ![t] = Null]
    /\ holder' = t
    /\ excuse' = IF recent = {} THEN excuse ELSE excuse \cup {"reconsider"}
    /\ UNCHANGED <<index, precious, rejected, aborted, turn, was>>

\* A stop, and LoadBlockIndexDB.  FindMostWorkChain does not put its marks on the list of
\* entries to write, so they may be gone.
Restart(t) ==
    /\ Call /\ holder = Idle /\ ~aborted
    /\ \E lost \in SUBSET child : child' = child \ lost
    /\ seq' = [b \in Block |-> 0] /\ nextSeq' = 1
    /\ precious' = [id |-> -1, work |-> 0]
    /\ rejected' = {}
    /\ linked' = {b \in data : Chain[b] \subseteq data}
    /\ unlinked' = data \ linked'
    /\ candidates' = Prune(seq', linked' \ (invalid \cup child'), tip)
    /\ aborted' = (candidates' = {})
    /\ thread' = [u \in Thread |-> IF u = t THEN Null ELSE Idle]
    /\ excuse' = excuse \ {"turned", "demoted"}
    /\ was' = Chain[tip]
    /\ turn' = FALSE
    /\ UNCHANGED <<known, data, invalid, tip, holder>>

Next == \E t \in Thread :
    \/ ActivateBestChain(t)
    \/ \E b \in Block \ {Genesis} :
          \/ AcceptBlockHeader(t, b) \/ InvalidateBlock(t, b) \/ ReconsiderBlock(t, b) \/ PreciousBlock(t, b)
          \/ \E fRequested \in BOOLEAN : ProcessNewBlock(t, b, fRequested)
    \/ \E recent \in SUBSET rejected, b \in Block : ReprocessBlocks(t, recent, b)
    \/ Restart(t)

Spec == Init /\ [][Next]_vars

\* Weak fairness of a thread inside ActivateBestChain, which can take its step whenever
\* cs_main is free for it.
Fair(t) == []<>(thread[t] = Idle \/ ~Free(t)) \/ []<><<ActivateBestChain(t)>>_vars
FairSpec == Spec /\ \A t \in Thread : Fair(t)

-----------------------------------------------------------------------------
\* No thread is in ActivateBestChain.
Quiet == \A t \in Thread : thread[t] = Idle
Valid(b) == b \in linked /\ Chain[b] \cap Failed = {}

\* The exceptions below.  "stale": a thread went on towards a pindexMostWork that
\* FindMostWorkChain would not have chosen any more.  "turned": a block was refused that
\* had been active before.  "reconsider": ResetBlockFailureFlags was called; it clears
\* the flags of ancestors without making them candidates again, and leaves those of
\* their other descendants.  "demoted": PreciousBlock started again at -1, after the chain
\* had grown, for a block that an earlier call had put further ahead: a block of the same
\* work that was pruned because of that can now be better than the tip.

\* When every thread has left ActivateBestChain, no block that is there with all its
\* ancestors and not known to be invalid is better than the tip, whatever blocks were
\* refused or invalidated, and however blocks came in between the steps
\* (validation.cpp:2881, ActivateBestChain).
BestChainActive ==
    Quiet /\ excuse = {} => \A b \in Block : Valid(b) => ~Worse(seq, tip, b)

\* What CheckBlockIndex asserts of setBlockIndexCandidates (validation.cpp:4382): it has
\* nothing worse than the tip or not yet linked, and, once the threads are through, every
\* valid block that is as good as the tip, the tip included.
CandidatesExact ==
    /\ "stale" \notin excuse => \A c \in candidates : c \in linked /\ ~Worse(seq, c, tip)
    /\ Quiet /\ excuse = {} =>
          \A b \in Block : Valid(b) /\ ~Worse(seq, b, tip) => b \in candidates

\* No failed block is ever active, PruneBlockIndexCandidates finds a candidate, and a
\* FAILED_CHILD mark has a cause, an invalid block in the chain that ends there: what
\* FindMostWorkChain and the assertions rely on (validation.cpp:2724, validation.cpp:2773,
\* validation.cpp:4379).
ActiveChainValid ==
    /\ "stale" \notin excuse => Chain[tip] \cap Failed = {}
    /\ excuse = {} => ~aborted
    /\ "reconsider" \notin excuse => \A b \in child : Chain[b] \cap invalid # {}

\* A block is linked exactly if it and all its ancestors have their data, in whatever
\* order they came: none is left behind in mapBlocksUnlinked (validation.cpp:3131).
LinkedExact ==
    /\ \A b \in linked : Chain[b] \subseteq data
    /\ "reconsider" \notin excuse =>
          \A b \in data : Chain[b] \cap Failed = {} /\ Chain[b] \subseteq data => b \in linked

\* A thread that enters ActivateBestChain leaves it, whatever is refused and whatever the
\* other threads do between its steps (validation.cpp:2952).
ActivationEnds == \A t \in Thread : thread[t] # Idle ~> thread[t] = Idle \/ aborted

\* "Either the current tip or a successor of it we're working towards is left in
\* setBlockIndexCandidates" (validation.cpp:2772): with no exception made.
CandidateLeft == ~aborted
=============================================================================
