---------------------------- MODULE StoresProofs ----------------------------
(***************************************************************************)
(* Proofs about the chain state and the two databases under it, for any    *)
(* block tree and set of faults, any outpoints and coins, any keys and     *)
(* values.                                                                 *)
(*                                                                         *)
(* ChainState.  The evo database (EvoInv): its best block follows the      *)
(* coins' best block in memory, in rootBatch and on disk, unless a process *)
(* ended between the two writes; a database without a best block has       *)
(* nothing to lose, since DIP0003 is not active for the coins' best block  *)
(* then.  The coins and the block index (CoinsInv): an index entry that is *)
(* not dirty is on disk, so the coins, which are written when nothing is   *)
(* dirty, refer only to durable entries.                                   *)
(*                                                                         *)
(* CoinsCache.  The inductive invariant is CacheInv.  FlagsSound is needed *)
(* because erasing a FRESH entry (SpendCoin, BatchWrite) or dropping a     *)
(* clean one (Uncache, BatchWrite) is only invisible to readers when the   *)
(* layer below already answers the same; BestLoaded because Flush() hands  *)
(* hashBlock down even when it is null.  UsageInv counts the memory of a   *)
(* cache entry by entry.                                                   *)
(*                                                                         *)
(* EvoDB.  The inductive invariant adds to the checked ones what holds     *)
(* inside a commit: only keys already handed over have a moved-from value, *)
(* and while rootBatch waits to be written the root layer is empty.        *)
(***************************************************************************)
EXTENDS ChainState, CoinsCache, EvoDB, Sums, TLAPS

\* Unless a step names another prover.
USE Zenon

Content == [best : BlockOrNull, blocks : SUBSET Blocks]

LEMMA AtContent ==
    ASSUME NEW b \in BlockOrNull, NEW s \in SUBSET Blocks
    PROVE  At(b, s) \in Content /\ At(b, s).best = b /\ At(b, s).blocks = s
  BY DEF At, Content

LEMMA ContentNotClean == \A c \in Content : c # Clean
  <1>1. \A c \in Content : "best" \in DOMAIN c
    BY DEF Content
  <1>2. "best" \notin DOMAIN Clean
    BY DEF Clean
  <1> QED
    BY <1>1, <1>2

\* Facts about the block tree.
LEMMA TreeFacts ==
    /\ NullBlock \notin Blocks
    /\ Genesis \in Blocks
    /\ Genesis \notin Dip3 /\ Dip3 \subseteq Blocks
    /\ Ancestors[NullBlock] = {}
    /\ \A b \in Blocks : Parent[b] \in BlockOrNull
    /\ \A b \in Blocks : Parent[b] = NullBlock <=> b = Genesis
    /\ \A b \in BlockOrNull : Ancestors[b] \subseteq Blocks
    /\ \A b \in Blocks : Ancestors[b] = Ancestors[Parent[b]] \cup {b} /\ b \notin Ancestors[Parent[b]]
    /\ \A b \in BlockOrNull : b \notin Dip3 => EvoAncestors(b) = {}
    /\ EvoAncestors(NullBlock) = {}
  BY ChainAssumption DEF BlockOrNull, EvoAncestors

\* The evo database is at b: it records b, or nothing as long as b is at most the
\* genesis block.
EvoAt(c, b) == c.best = b \/ (c.best = NullBlock /\ b \in {NullBlock, Genesis})

EvoInv ==
    /\ TypeOK
    /\ EvoMatchesBestBlock
    /\ evoBatch # Clean => aborted /\ evo = Clean
    /\ ~aborted /\ phase # "down" /\ Evo.best = NullBlock /\ (coins.best = tip \/ after = "UpdateTip")
       => coins.best \notin Dip3
    /\ ~cut /\ phase # "down" /\ evoBatch = Clean => EvoAt(Evo, coins.best)
    /\ ~cut /\ evoBatch # Clean => EvoAt(evoBatch, coinsDisk.best) /\ coins.best = coinsDisk.best
    /\ ~cut /\ evoBatch = Clean /\ phase # "evo" => EvoAt(evoDisk, coinsDisk.best)
    /\ phase = "evo" => coinsDisk.best = coins.best

LEMMA InitEvoInv == Init => EvoInv
  <1> SUFFICES ASSUME Init PROVE EvoInv
    OBVIOUS
  <1>1. At(NullBlock, {}) \in Content /\ At(NullBlock, {}).best = NullBlock
        /\ At(NullBlock, {}).blocks = {}
    BY AtContent DEF BlockOrNull
  <1>2. Evo = At(NullBlock, {})
    BY DEF Init, Evo
  <1>3. TypeOK
    BY <1>1 DEF Init, TypeOK, Content, BlockOrNull
  <1>4. EvoMatchesBestBlock
    BY <1>1, <1>2, TreeFacts DEF Init, EvoMatchesBestBlock
  <1>5. EvoAt(Evo, coins.best) /\ EvoAt(evoDisk, coinsDisk.best) /\ coins.best \notin Dip3
    BY SMT, <1>1, <1>2, TreeFacts DEF Init, EvoAt
  <1> QED
    BY <1>3, <1>4, <1>5 DEF Init, EvoInv

\* What is looked up in the evo database is a best block and a set of blocks.
LEMMA EvoType ==
    ASSUME TypeOK
    PROVE  Evo \in Content /\ coins \in Content /\ coinsDisk \in Content /\ evoDisk \in Content
  BY DEF TypeOK, Evo, Content

\* Connecting or disconnecting a block keeps types and the evo database's content.
LEMMA ConnectEvo ==
    ASSUME EvoInv, NEW b \in Blocks, ConnectTip(b)
    PROVE  EvoInv'
  <1> USE EvoType, TreeFacts DEF EvoInv
  <1> DEFINE add == {b} \cap Dip3
  <1>0. /\ phase = "up" /\ ~aborted /\ coins.best = tip /\ Evo.best \in {NullBlock, tip}
        /\ Parent[b] = tip
        /\ coins' = At(b, coins.blocks \cup {b})
        /\ evo' = IF b = Genesis THEN evo ELSE At(b, Evo.blocks \cup add)
        /\ aborted' \in BOOLEAN
        /\ UNCHANGED <<indexDisk, coinsDisk, evoBatch, evoDisk, cut, threw>>
    BY DEF ConnectTip, AssertionsHold, EvoMissing
  <1>1. /\ phase' \in {"up", "index"} /\ after' \in {"nothing", "UpdateTip", "exit"}
        /\ tip' \in BlockOrNull
    BY SMTT(30), <1>0 DEF ConnectTip, FlushIfNeeded, TypeOK, BlockOrNull
  <1>2. index' \in [Blocks -> SUBSET {"data", "undo"}]
        /\ dirty' \subseteq {x \in Blocks : index'[x] # {}}
    BY SMTT(30) DEF ConnectTip, WriteUndo, TypeOK
  <1>3. coins' \in Content /\ coins'.best = b
    BY SMT, <1>0, <1>1, AtContent DEF Content, BlockOrNull
  <1>4. evoBatch = Clean
    BY <1>0, <1>1
  <1>5. CASE b = Genesis
    <2>1. evo' = evo /\ Evo' = Evo /\ Evo.best = NullBlock
      BY <1>0, <1>1, <1>5 DEF Evo
    <2>2. TypeOK'
      BY ZenonT(60), <1>0, <1>1, <1>2, <1>3, <2>1 DEF TypeOK, Content
    <2>3. EvoAt(Evo', b)
      BY <2>1, <1>5 DEF EvoAt
    <2> QED
      BY <1>0, <1>1, <1>3, <1>4, <1>5, <2>1, <2>2, <2>3 DEF EvoMatchesBestBlock
  <1>6. CASE b # Genesis
    <2>1. evo' = At(b, Evo.blocks \cup add)
      BY <1>0, <1>1, <1>6
    <2>2. evo' \in Content /\ evo'.best = b /\ evo'.blocks = Evo.blocks \cup add
      BY SMT, <2>1, AtContent DEF Content, BlockOrNull
    <2>3. Evo' = evo'
      BY <2>2, ContentNotClean DEF Evo
    <2>4. TypeOK'
      BY <1>0, <1>1, <1>2, <1>3, <2>2 DEF TypeOK, Content
    <2>5. Evo.blocks = EvoAncestors(tip)
      BY <1>0, <1>1 DEF EvoMatchesBestBlock, TypeOK
    <2>6. Evo'.blocks = EvoAncestors(b)
      <3>1. Ancestors[b] = Ancestors[tip] \cup {b}
        BY <1>0
      <3> QED
        BY <2>2, <2>3, <2>5, <3>1 DEF EvoAncestors
    <2>7. EvoMatchesBestBlock'
      BY <1>0, <1>1, <1>4, <2>2, <2>3, <2>6 DEF EvoMatchesBestBlock
    <2> QED
      BY SMT, <1>0, <1>1, <1>3, <1>4, <2>2, <2>3, <2>4, <2>7 DEF EvoAt
  <1> QED
    BY <1>5, <1>6

LEMMA DisconnectEvo ==
    ASSUME EvoInv, DisconnectTip
    PROVE  EvoInv'
  <1> USE EvoType, TreeFacts DEF EvoInv
  <1>0. /\ phase = "up" /\ ~aborted /\ coins.best = tip /\ Evo.best \in {NullBlock, tip}
        /\ tip \in Blocks /\ tip # Genesis
        /\ coins' = At(Parent[tip], coins.blocks \ {tip})
        /\ evo' = At(Parent[tip], Evo.blocks \ {tip})
        /\ aborted' \in BOOLEAN
        /\ UNCHANGED <<indexVars, coinsDisk, evoBatch, evoDisk, cut, threw>>
    BY DEF DisconnectTip, AssertionsHold, EvoMissing, TypeOK, BlockOrNull
  <1>2. Parent[tip] \in Blocks
    BY <1>0 DEF BlockOrNull
  <1>1. /\ phase' \in {"up", "index"} /\ after' \in {"nothing", "UpdateTip", "exit"}
        /\ tip' \in BlockOrNull
    BY <1>0, <1>2 DEF DisconnectTip, FlushIfNeeded, TypeOK, BlockOrNull
  <1>3. coins' \in Content /\ coins'.best = Parent[tip]
    BY SMT, <1>0, <1>2, AtContent DEF Content, BlockOrNull
  <1>4. evo' \in Content /\ evo'.best = Parent[tip] /\ evo'.blocks = Evo.blocks \ {tip}
    BY SMT, <1>0, <1>2, AtContent DEF Content, BlockOrNull
  <1>5. Evo' = evo' /\ evoBatch = Clean
    BY <1>0, <1>4, ContentNotClean DEF Evo
  <1>6. TypeOK'
    BY <1>0, <1>1, <1>3, <1>4 DEF TypeOK, Content, indexVars
  <1>7. Evo.blocks = EvoAncestors(tip)
    BY <1>0 DEF EvoMatchesBestBlock, TypeOK
  <1>8. Evo'.blocks = EvoAncestors(Parent[tip])
    <2>1. Ancestors[tip] = Ancestors[Parent[tip]] \cup {tip} /\ tip \notin Ancestors[Parent[tip]]
      BY <1>0
    <2> QED
      BY <1>4, <1>5, <1>7, <2>1 DEF EvoAncestors
  <1>9. EvoMatchesBestBlock'
    BY <1>0, <1>4, <1>5, <1>8 DEF EvoMatchesBestBlock
  <1> QED
    BY SMT, <1>0, <1>1, <1>2, <1>3, <1>4, <1>5, <1>6, <1>9 DEF EvoAt

\* A return from FlushStateToDisk, as far as types and the tip are concerned.
LEMMA ReturnFacts ==
    ASSUME TypeOK, NEW ok \in BOOLEAN, Return(ok)
    PROVE  /\ phase' \in {"up", "down"} /\ after' = "nothing" /\ aborted' \in BOOLEAN
           /\ tip' \in BlockOrNull /\ tip' \in {tip, coins.best}
           /\ (aborted \/ ~ok) => aborted'
           /\ ~aborted' => ~aborted /\ ok
           /\ tip' # tip => after = "UpdateTip"
  BY EvoType DEF Return, TypeOK, Content

\* Steps that touch neither best blocks nor the evo database.
LEMMA QuietEvo ==
    ASSUME EvoInv, TypeOK', coins'.best = coins.best,
           UNCHANGED <<evoVars, coinsDisk, cut>>, phase # "down",
           phase # "evo", phase' # "evo", aborted => aborted',
           ~aborted' /\ phase' # "down" /\ (coins'.best = tip' \/ after' = "UpdateTip")
             => coins.best = tip \/ after = "UpdateTip"
    PROVE  EvoInv'
  <1>1. Evo' = Evo
    BY DEF Evo, evoVars
  <1>2. EvoMatchesBestBlock'
    BY <1>1 DEF EvoInv, EvoMatchesBestBlock, evoVars
  <1> QED
    BY <1>1, <1>2 DEF EvoInv, EvoAt, evoVars, TypeOK

LEMMA FlushEvoEvo ==
    ASSUME EvoInv, FlushEvo
    PROVE  EvoInv'
  <1> USE EvoType DEF EvoInv
  <1>1. /\ phase = "evo" /\ evo' = Clean /\ evoBatch' = Clean /\ Return(TRUE)
        /\ evoDisk' = IF RootBatch = Clean THEN evoDisk ELSE RootBatch
        /\ UNCHANGED <<indexVars, coinsVars, cut, threw>>
    BY DEF FlushEvo
  <1>2. evoDisk' = IF evoBatch = Clean THEN Evo ELSE evoBatch
    BY <1>1 DEF RootBatch, Evo
  <1>3. evoDisk' \in Content
    BY <1>2 DEF TypeOK, Content
  <1>4. Evo' = evoDisk'
    BY <1>1 DEF Evo
  <1>5. TypeOK'
    BY <1>1, <1>3, ReturnFacts DEF TypeOK, Content, indexVars, coinsVars
  <1>6. EvoMatchesBestBlock'
    BY <1>1, <1>2, <1>4 DEF EvoMatchesBestBlock
  <1>7. ~cut => EvoAt(evoDisk', coinsDisk.best) /\ coins.best = coinsDisk.best
    BY <1>1, <1>2, <1>3 DEF EvoAt, TypeOK
  <1>8. ~aborted => evoBatch = Clean /\ evoDisk' = Evo
    BY <1>2
  <1> QED
    BY <1>1, <1>4, <1>5, <1>6, <1>7, <1>8, ReturnFacts DEF EvoAt, coinsVars

LEMMA FlushEvoFailsEvo ==
    ASSUME EvoInv, FlushEvoFails
    PROVE  EvoInv'
  <1> USE EvoType DEF EvoInv
  <1>1. /\ phase = "evo" /\ evo' = Clean /\ evoBatch' = RootBatch /\ Return(FALSE)
        /\ UNCHANGED <<indexVars, coinsVars, evoDisk, cut, threw>>
    BY DEF FlushEvoFails, Fails
  <1>2. evoBatch' # Clean => evoBatch' = IF evoBatch = Clean THEN Evo ELSE evoBatch
    BY <1>1 DEF RootBatch, Evo
  <1>3. evoBatch' = Clean => evo = Clean /\ evoBatch = Clean /\ Evo = evoDisk
    BY <1>1 DEF RootBatch, Evo
  <1>4. Evo' = evoDisk
    BY <1>1 DEF Evo
  <1>5. TypeOK'
    BY <1>1, ReturnFacts DEF TypeOK, Content, indexVars, coinsVars, RootBatch
  <1>6. EvoMatchesBestBlock'
    BY <1>1, <1>2, <1>4 DEF EvoMatchesBestBlock
  <1>7. aborted' /\ phase' \in {"up", "down"}
    BY <1>1, ReturnFacts
  <1>8. ~cut /\ evoBatch' # Clean => EvoAt(evoBatch', coinsDisk.best) /\ coins.best = coinsDisk.best
    BY <1>1, <1>2 DEF EvoAt, TypeOK
  <1>9. ~cut /\ evoBatch' = Clean => EvoAt(evoDisk, coinsDisk.best) /\ EvoAt(evoDisk, coins.best)
    BY <1>1, <1>3 DEF EvoAt, TypeOK
  <1> QED
    BY <1>1, <1>4, <1>5, <1>6, <1>7, <1>8, <1>9 DEF EvoAt, coinsVars

LEMMA StartEvo ==
    ASSUME EvoInv, Start
    PROVE  EvoInv'
  <1> USE EvoType, TreeFacts DEF EvoInv
  <1>1. /\ phase' = "up" /\ after' = "nothing" /\ evo' = Clean /\ evoBatch' = Clean
        /\ coins' = coinsDisk /\ tip' = LoadedTip
        /\ aborted' = (LoadedTip \in Dip3 /\ evoDisk.best = NullBlock)
        /\ cut' = (cut \/ evoBatch # Clean)
        /\ index' = indexDisk /\ dirty' = {}
        /\ UNCHANGED <<indexDisk, coinsDisk, evoDisk, threw>>
        /\ phase = "down"
    BY DEF Start
  <1>2. Evo' = evoDisk
    BY <1>1 DEF Evo
  <1>3. LoadedTip \in BlockOrNull
    BY DEF LoadedTip, TypeOK, BlockOrNull
  <1>4. TypeOK'
    BY <1>1, <1>3 DEF TypeOK, Content
  <1>5. EvoMatchesBestBlock'
    BY <1>1, <1>2 DEF EvoMatchesBestBlock
  <1>6. ~cut' => ~cut /\ evoBatch = Clean
    BY <1>1
  <1> QED
    BY <1>1, <1>2, <1>4, <1>5, <1>6 DEF EvoAt

LEMMA NextEvoInv ==
    ASSUME EvoInv, [Next]_vars
    PROVE  EvoInv'
  <1> USE EvoType
  <1>0. TypeOK
    BY DEF EvoInv
  <1>1. ASSUME NEW b \in Blocks, AcceptBlock(b) PROVE EvoInv'
    <2>1. TypeOK'
      BY SMT, <1>0, <1>1 DEF AcceptBlock, TypeOK, coinsVars, evoVars
    <2> QED
      BY <1>1, <2>1, QuietEvo DEF AcceptBlock, coinsVars
  <1>2. CASE AssertionFails
    <2>1. TypeOK'
      BY <1>0, <1>2 DEF AssertionFails, TypeOK, coinsVars, evoVars, indexVars
    <2> QED
      BY <1>2, <2>1, QuietEvo DEF AssertionFails, coinsVars
  <1>3. CASE FlushStateToDisk
    <2>1. TypeOK'
      BY <1>0, <1>3 DEF FlushStateToDisk, TypeOK, coinsVars, evoVars, indexVars
    <2> QED
      BY <1>3, <2>1, QuietEvo DEF FlushStateToDisk, coinsVars
  <1>4. CASE Shutdown
    <2>1. TypeOK'
      BY <1>0, <1>4 DEF Shutdown, TypeOK, coinsVars, evoVars, indexVars
    <2> QED
      BY <1>4, <2>1, QuietEvo DEF Shutdown, coinsVars
  <1>5. CASE FlushIndex
    <2>1. TypeOK'
      BY <1>0, <1>5, ReturnFacts DEF FlushIndex, TypeOK, coinsVars, evoVars
    <2>2. CASE phase' = "coins" /\ UNCHANGED <<after, tip, aborted>>
      BY <1>5, <2>1, <2>2, QuietEvo DEF FlushIndex, coinsVars
    <2>3. CASE Return(TRUE)
      BY <1>0, <1>5, <2>1, <2>3, QuietEvo, ReturnFacts DEF FlushIndex, coinsVars
    <2> QED
      BY <1>5, <2>2, <2>3 DEF FlushIndex
  <1>6. CASE FlushIndexFails
    <2>1. TypeOK'
      BY <1>0, <1>6, ReturnFacts DEF FlushIndexFails, Fails, TypeOK, coinsVars, evoVars
    <2> QED
      BY <1>0, <1>6, <2>1, QuietEvo, ReturnFacts DEF FlushIndexFails, Fails, coinsVars
  <1>7. CASE OutOfDiskSpace
    <2>1. TypeOK'
      BY <1>0, <1>7, ReturnFacts DEF OutOfDiskSpace, Fails, TypeOK, coinsVars, evoVars, indexVars
    <2> QED
      BY <1>0, <1>7, <2>1, QuietEvo, ReturnFacts DEF OutOfDiskSpace, Fails, coinsVars
  <1>8. CASE FlushCoins
    <2>1. TypeOK'
      BY <1>0, <1>8 DEF FlushCoins, TypeOK, evoVars, indexVars
    <2>2. Evo' = Evo /\ EvoMatchesBestBlock'
      BY <1>8 DEF FlushCoins, Evo, EvoInv, EvoMatchesBestBlock, evoVars
    <2> QED
      BY <1>8, <2>1, <2>2 DEF FlushCoins, EvoInv, EvoAt, evoVars
  <1>9. CASE FlushCoinsFails
    <2>1. coins' \in Content /\ coins'.best = coins.best
      BY <1>0, <1>9, AtContent DEF FlushCoinsFails, Content
    <2>2. TypeOK'
      BY <1>0, <1>9, <2>1, ReturnFacts
      DEF FlushCoinsFails, Fails, TypeOK, Content, evoVars, indexVars
    <2> QED
      BY <1>0, <1>9, <2>1, <2>2, QuietEvo, ReturnFacts DEF FlushCoinsFails, Fails
  <1>10. CASE Crash
    <2>1. TypeOK'
      BY <1>0, <1>10 DEF Crash, TypeOK, coinsVars, evoVars, indexVars
    <2>2. Evo' = Evo /\ EvoMatchesBestBlock'
      BY <1>10 DEF Crash, Evo, EvoInv, EvoMatchesBestBlock, evoVars
    <2> QED
      BY <1>10, <2>1, <2>2 DEF Crash, EvoInv, EvoAt, coinsVars, evoVars
  <1>11. CASE UNCHANGED vars
    <2>1. TypeOK' /\ Evo' = Evo /\ EvoMatchesBestBlock'
      BY SMT, <1>11 DEF EvoInv, TypeOK, Evo, EvoMatchesBestBlock, vars, indexVars, coinsVars, evoVars
    <2> QED
      BY <1>11, <2>1 DEF EvoInv, EvoAt, vars, indexVars, coinsVars, evoVars
  <1> QED
    BY <1>1, <1>2, <1>3, <1>4, <1>5, <1>6, <1>7, <1>8, <1>9, <1>10, <1>11,
       ConnectEvo, DisconnectEvo, FlushEvoEvo, FlushEvoFailsEvo, StartEvo DEF Next

\* The evo database holds the changes of exactly the chain that ends in its best
\* block, in the root transaction, in rootBatch and on disk, whatever flushes,
\* write errors, assertions and crashes happen (validation.cpp FlushStateToDisk,
\* CEvoDB::CommitRootTransaction).
THEOREM EvoContent == Spec => [](TypeOK /\ EvoMatchesBestBlock)
  <1>1. EvoInv => TypeOK /\ EvoMatchesBestBlock
    BY DEF EvoInv
  <1> QED
    BY <1>1, InitEvoInv, NextEvoInv, PTL DEF Spec

\* Unless a process ended between its coins write and its evo write, the evo
\* database is at the coins' best block wherever CEvoDB::VerifyBestBlock asserts
\* it, and the two databases on disk include the same blocks.
THEOREM EvoFollowsCoins == Spec => []EvoInStep
  <1>1. EvoInv => VerifyBestBlockUnlessCut
    BY DEF EvoInv, VerifyBestBlockUnlessCut, VerifyBestBlock, EvoAt
  <1>2. EvoInv => DisksAgree
    <2> SUFFICES ASSUME EvoInv, phase # "evo", evoBatch = Clean, ~cut
                 PROVE  evoDisk.blocks = EvoAncestors(coinsDisk.best)
      BY DEF DisksAgree
    <2>1. EvoAt(evoDisk, coinsDisk.best) /\ evoDisk.blocks = EvoAncestors(evoDisk.best)
      BY DEF EvoInv, EvoMatchesBestBlock
    <2>2. EvoAncestors(NullBlock) = {} /\ EvoAncestors(Genesis) = {}
      BY TreeFacts DEF BlockOrNull
    <2> QED
      BY <2>1, <2>2 DEF EvoAt
  <1> QED
    BY <1>1, <1>2, InitEvoInv, NextEvoInv, PTL DEF Spec, EvoInStep
-----------------------------------------------------------------------------
\* The index entry of a connected block.
Connected(b) == IF b = Genesis THEN {"data"} ELSE {"data", "undo"}

CoinsInv ==
    /\ CoinsMatch
    /\ IndexCovers
    /\ index[Genesis] \in {{}, {"data"}} /\ indexDisk[Genesis] \in {{}, {"data"}}
    /\ phase # "down" => \A b \in Ancestors[coins.best] \cup Ancestors[coinsDisk.best] :
                            index[b] = Connected(b)
    /\ phase # "down" => \A b \in Blocks \ dirty : indexDisk[b] = index[b]
    /\ phase = "coins" => dirty = {}
    /\ phase = "up" => after = "nothing"
    /\ phase # "down" /\ ~aborted /\ after # "UpdateTip" => coins.best = tip

LEMMA InitCoinsInv == Init => CoinsInv
  <1> SUFFICES ASSUME Init PROVE CoinsInv
    OBVIOUS
  <1>1. At(NullBlock, {}).best = NullBlock /\ At(NullBlock, {}).blocks = {}
    BY AtContent DEF BlockOrNull
  <1>2. CoinsMatch /\ IndexCovers
        /\ Ancestors[coins.best] = {} /\ Ancestors[coinsDisk.best] = {}
    BY <1>1, TreeFacts DEF Init, CoinsMatch, IndexCovers
  <1> QED
    BY <1>1, <1>2, TreeFacts DEF Init, CoinsInv

\* The parts of the invariants that the steps below use.
LEMMA TypeFacts ==
    ASSUME TypeOK
    PROVE  /\ index \in [Blocks -> SUBSET {"data", "undo"}]
           /\ indexDisk \in [Blocks -> SUBSET {"data", "undo"}]
           /\ tip \in BlockOrNull /\ coins.best \in BlockOrNull /\ coinsDisk.best \in BlockOrNull
           /\ coins.blocks \in SUBSET Blocks
           /\ Ancestors[coins.best] \subseteq Blocks /\ Ancestors[coinsDisk.best] \subseteq Blocks
  <1>1. coins \in Content /\ coinsDisk \in Content
    BY DEF TypeOK, Content
  <1>2. coins.best \in BlockOrNull /\ coinsDisk.best \in BlockOrNull /\ coins.blocks \in SUBSET Blocks
    BY <1>1 DEF Content
  <1>3. Ancestors[coins.best] \subseteq Blocks /\ Ancestors[coinsDisk.best] \subseteq Blocks
    BY <1>2, TreeFacts
  <1> QED
    BY <1>2, <1>3 DEF TypeOK

\* ConnectBlock's undo data: the entry of b becomes that of a connected block, no
\* other entry changes, and an entry that changes is dirty.
LEMMA WriteUndoFacts ==
    ASSUME TypeOK, NEW b \in Blocks, WriteUndo(b), "data" \in index[b],
           index[Genesis] \in {{}, {"data"}}
    PROVE  /\ index'[b] = Connected(b)
           /\ \A x \in Blocks : x # b => index'[x] = index[x]
           /\ dirty \subseteq dirty'
           /\ b \notin dirty' => index'[b] = index[b]
  <1>0. index \in [Blocks -> SUBSET {"data", "undo"}]
    BY TypeFacts
  <1>1. CASE b = Genesis \/ "undo" \in index[b]
    <2>1. index' = index /\ dirty' = dirty
      BY <1>1 DEF WriteUndo
    <2>2. index[b] = Connected(b)
      <3>1. CASE b = Genesis
        BY <3>1 DEF Connected
      <3>2. CASE b # Genesis
        <4>1. index[b] \in SUBSET {"data", "undo"} /\ "data" \in index[b] /\ "undo" \in index[b]
          BY <1>0, <1>1, <3>2
        <4>2. index[b] = {"data", "undo"}
          BY <4>1
        <4> QED
          BY <3>2, <4>2 DEF Connected
      <3> QED
        BY <3>1, <3>2
    <2> QED
      BY <2>1, <2>2
  <1>2. CASE ~(b = Genesis \/ "undo" \in index[b])
    <2>1. index' = [index EXCEPT ![b] = {"data", "undo"}] /\ dirty' = dirty \cup {b}
      BY <1>2 DEF WriteUndo
    <2> QED
      BY <1>0, <1>2, <2>1 DEF Connected
  <1> QED
    BY <1>1, <1>2

LEMMA ConnectCoins ==
    ASSUME TypeOK, CoinsInv, NEW b \in Blocks, ConnectTip(b)
    PROVE  CoinsInv'
  <1> DEFINE Old == Ancestors[coins.best] \cup Ancestors[coinsDisk.best]
  <1>1. /\ phase = "up" /\ ~aborted /\ coins.best = tip /\ "data" \in index[b]
        /\ Parent[b] = tip /\ WriteUndo(b) /\ FlushIfNeeded(b)
        /\ coins' = At(b, coins.blocks \cup {b})
        /\ indexDisk' = indexDisk /\ coinsDisk' = coinsDisk
    BY DEF ConnectTip, AssertionsHold
  <1>2. coins'.best = b /\ coins'.blocks = coins.blocks \cup {b}
    BY SMT, <1>1, AtContent, TypeFacts DEF BlockOrNull
  <1>3. Ancestors[b] = Ancestors[coins.best] \cup {b}
    BY <1>1, TreeFacts
  <1>4. CoinsMatch' /\ IndexCovers'
    BY <1>1, <1>2, <1>3 DEF CoinsInv, CoinsMatch, IndexCovers
  <1>5. /\ index'[b] = Connected(b)
        /\ \A x \in Blocks : x # b => index'[x] = index[x]
        /\ dirty \subseteq dirty'
        /\ b \notin dirty' => index'[b] = index[b]
    BY <1>1, WriteUndoFacts DEF CoinsInv
  <1>6. index'[Genesis] \in {{}, {"data"}} /\ indexDisk'[Genesis] \in {{}, {"data"}}
    <2>1. index[Genesis] \in {{}, {"data"}} /\ indexDisk[Genesis] \in {{}, {"data"}}
          /\ Genesis \in Blocks
      BY TreeFacts DEF CoinsInv
    <2> QED
      BY <1>1, <1>5, <2>1 DEF Connected
  <1>7. \A x \in Ancestors[coins'.best] \cup Ancestors[coinsDisk'.best] : index'[x] = Connected(x)
    <2>1. Old \subseteq Blocks /\ \A x \in Old : index[x] = Connected(x)
      BY <1>1, TypeFacts DEF CoinsInv
    <2>2. Ancestors[coins'.best] \cup Ancestors[coinsDisk'.best] \subseteq Old \cup {b}
      BY <1>1, <1>2, <1>3
    <2> QED
      BY <1>5, <2>1, <2>2
  <1>8. \A x \in Blocks \ dirty' : indexDisk'[x] = index'[x]
    <2>1. \A x \in Blocks \ dirty : indexDisk[x] = index[x]
      BY <1>1 DEF CoinsInv
    <2> QED
      BY <1>1, <1>5, <2>1
  <1>9. phase' \in {"up", "index"} /\ (phase' = "up" => after' = "nothing")
         /\ (after' # "UpdateTip" => tip' = b)
    BY <1>1 DEF FlushIfNeeded, CoinsInv
  <1> QED
    BY <1>2, <1>4, <1>6, <1>7, <1>8, <1>9 DEF CoinsInv

LEMMA RemoveAdded == \A S, x : x \notin S => (S \cup {x}) \ {x} = S
  OBVIOUS

LEMMA DisconnectCoins ==
    ASSUME TypeOK, CoinsInv, DisconnectTip
    PROVE  CoinsInv'
  <1>1. /\ phase = "up" /\ ~aborted /\ coins.best = tip /\ FlushIfNeeded(Parent[tip])
        /\ tip \in Blocks
        /\ coins' = At(Parent[tip], coins.blocks \ {tip})
        /\ UNCHANGED <<indexVars, coinsDisk>>
    BY TypeFacts DEF DisconnectTip, AssertionsHold, BlockOrNull
  <1>2. coins'.best = Parent[tip] /\ coins'.blocks = coins.blocks \ {tip}
    BY SMT, <1>1, AtContent, TypeFacts, TreeFacts
  <1>3. Ancestors[tip] = Ancestors[Parent[tip]] \cup {tip} /\ tip \notin Ancestors[Parent[tip]]
    BY <1>1, TreeFacts
  <1>4. CoinsMatch' /\ IndexCovers'
    <2>1. coins'.blocks = Ancestors[coins'.best]
      <3>1. coins.blocks = Ancestors[Parent[tip]] \cup {tip}
        BY <1>1, <1>3 DEF CoinsInv, CoinsMatch
      <3> QED
        BY <1>2, <1>3, <3>1, RemoveAdded
    <2> QED
      BY <1>1, <2>1 DEF CoinsInv, CoinsMatch, IndexCovers, indexVars
  <1>5. phase' \in {"up", "index"} /\ (phase' = "up" => after' = "nothing")
         /\ (after' # "UpdateTip" => tip' = Parent[tip])
    BY <1>1 DEF FlushIfNeeded, CoinsInv
  <1>6. \A x \in Ancestors[coins'.best] \cup Ancestors[coinsDisk'.best] : index'[x] = Connected(x)
    <2>1. Ancestors[coins'.best] \subseteq Ancestors[coins.best]
      BY <1>1, <1>2, <1>3
    <2> QED
      BY <1>1, <2>1 DEF CoinsInv, indexVars
  <1> QED
    BY <1>1, <1>2, <1>4, <1>5, <1>6 DEF CoinsInv, indexVars

LEMMA NextCoinsInv ==
    ASSUME TypeOK, CoinsInv, [Next]_vars, ~threw'
    PROVE  CoinsInv'
  <1>1. ASSUME NEW b \in Blocks, AcceptBlock(b) PROVE CoinsInv'
    <2> DEFINE Old == Ancestors[coins.best] \cup Ancestors[coinsDisk.best]
    <2>1. /\ phase = "up" /\ index[b] = {} /\ dirty' = dirty \cup {b}
          /\ index' = [index EXCEPT ![b] = {"data"}]
          /\ coins' = coins /\ coinsDisk' = coinsDisk
          /\ UNCHANGED <<indexDisk, tip, phase, after, aborted>>
      BY <1>1 DEF AcceptBlock, coinsVars
    <2>2. index'[b] = {"data"} /\ \A x \in Blocks : x # b => index'[x] = index[x]
      BY <2>1, TypeFacts
    <2>3. Old \subseteq Blocks /\ \A x \in Old : index[x] = Connected(x)
      BY <2>1, TypeFacts DEF CoinsInv
    <2>4. \A x \in Old : x # b
      BY <2>1, <2>3 DEF Connected
    <2>5. \A x \in Old : index'[x] = Connected(x)
      BY <2>2, <2>3, <2>4
    <2>6. CoinsMatch' /\ IndexCovers'
      BY <2>1 DEF CoinsInv, CoinsMatch, IndexCovers
    <2>7. index'[Genesis] \in {{}, {"data"}} /\ indexDisk'[Genesis] \in {{}, {"data"}}
      BY <2>1, <2>2, TreeFacts DEF CoinsInv
    <2>8. \A x \in Blocks \ dirty' : indexDisk'[x] = index'[x]
      BY <2>1, <2>2 DEF CoinsInv
    <2> QED
      BY <2>1, <2>5, <2>6, <2>7, <2>8 DEF CoinsInv
  <1>2. CASE AssertionFails \/ FlushStateToDisk \/ Shutdown \/ Crash
    <2>1. /\ UNCHANGED <<index, dirty, indexDisk, coins, coinsDisk, tip, aborted>>
          /\ phase # "down"
          /\ \/ phase' = "down"
             \/ phase' = "index" /\ phase = "up" /\ after' \in {"nothing", "exit"}
      BY <1>2 DEF AssertionFails, FlushStateToDisk, Shutdown, Crash, coinsVars, indexVars
    <2>2. CoinsMatch' /\ IndexCovers'
      BY <2>1 DEF CoinsInv, CoinsMatch, IndexCovers
    <2> QED
      BY <2>1, <2>2 DEF CoinsInv
  <1>3. CASE FlushIndex
    <2>1. phase = "index" /\ dirty' = {} /\ UNCHANGED <<index, coins, coinsDisk>>
          /\ indexDisk' = [b \in Blocks |-> IF b \in dirty THEN index[b] ELSE indexDisk[b]]
      BY <1>3 DEF FlushIndex, coinsVars
    <2>2. \A b \in Blocks : indexDisk'[b] = index[b]
      BY <2>1 DEF CoinsInv
    <2>3. \A b \in Ancestors[coinsDisk.best] : indexDisk'[b] = Connected(b)
      BY <2>1, <2>2, TypeFacts DEF CoinsInv
    <2>4. CoinsMatch' /\ IndexCovers'
      BY <2>1, <2>3 DEF CoinsInv, CoinsMatch, IndexCovers, Connected
    <2>5. index'[Genesis] \in {{}, {"data"}} /\ indexDisk'[Genesis] \in {{}, {"data"}}
      BY <2>1, <2>2, TreeFacts DEF CoinsInv
    <2>6. CASE phase' = "coins" /\ UNCHANGED <<after, tip, aborted>>
      BY <2>1, <2>2, <2>4, <2>5, <2>6 DEF CoinsInv
    <2>7. CASE after = "nothing" /\ Return(TRUE)
      BY <2>1, <2>2, <2>4, <2>5, <2>7 DEF CoinsInv, Return
    <2> QED
      BY <1>3, <2>6, <2>7 DEF FlushIndex
  <1>4. CASE OutOfDiskSpace
    <2>1. CoinsMatch' /\ IndexCovers'
      BY <1>4 DEF OutOfDiskSpace, coinsVars, indexVars, CoinsInv, CoinsMatch,
                  IndexCovers
    <2> QED
      BY <1>4, <2>1 DEF CoinsInv, OutOfDiskSpace, Fails, Return, coinsVars, indexVars
  <1>5. CASE FlushCoins
    <2>1. phase = "coins" /\ phase' = "evo" /\ coinsDisk' = coins
          /\ UNCHANGED <<index, dirty, indexDisk, coins, tip, after, aborted>>
      BY <1>5 DEF FlushCoins, indexVars
    <2>2. \A b \in Ancestors[coins.best] : indexDisk[b] = Connected(b)
      BY <2>1, TypeFacts DEF CoinsInv
    <2>3. CoinsMatch' /\ IndexCovers'
      BY <2>1, <2>2 DEF CoinsInv, CoinsMatch, IndexCovers, Connected
    <2> QED
      BY <2>1, <2>3 DEF CoinsInv
  <1>6. CASE FlushEvo \/ FlushEvoFails
    <2>0. UNCHANGED <<indexVars, coinsVars>>
      BY <1>6 DEF FlushEvo, FlushEvoFails
    <2>1. CoinsMatch' /\ IndexCovers'
      BY <2>0 DEF coinsVars, indexVars, CoinsInv, CoinsMatch, IndexCovers
    <2>2. phase = "evo" /\ \E ok \in BOOLEAN : Return(ok)
      BY <1>6 DEF FlushEvo, FlushEvoFails, Fails
    <2> QED
      BY <2>0, <2>1, <2>2 DEF CoinsInv, Return, coinsVars, indexVars
  <1>7. CASE Start
    <2>1. phase' = "up" /\ after' = "nothing" /\ index' = indexDisk /\ coins' = coinsDisk
          /\ tip' = LoadedTip /\ UNCHANGED <<indexDisk, coinsDisk>>
      BY <1>7 DEF Start
    <2>2. CoinsMatch' /\ IndexCovers'
      BY <2>1 DEF CoinsInv, CoinsMatch, IndexCovers
    <2>3. \A b \in Ancestors[coinsDisk.best] : indexDisk[b] = Connected(b)
      BY DEF CoinsInv, IndexCovers, Connected
    <2>4. LoadedTip = coinsDisk.best
      <3>1. coinsDisk.best # NullBlock => coinsDisk.best \in Ancestors[coinsDisk.best]
        BY SMT, TypeFacts, TreeFacts DEF BlockOrNull
      <3> QED
        BY <2>3, <3>1 DEF LoadedTip, Connected
    <2> QED
      BY <2>1, <2>2, <2>3, <2>4 DEF CoinsInv
  <1>8. CASE FlushIndexFails \/ FlushCoinsFails
    BY <1>8 DEF FlushIndexFails, FlushCoinsFails, Fails
  <1>9. CASE UNCHANGED vars
    BY <1>9 DEF vars, indexVars, coinsVars, CoinsInv, CoinsMatch, IndexCovers
  <1> QED
    BY <1>1, <1>2, <1>3, <1>4, <1>5, <1>6, <1>7, <1>8, <1>9,
       ConnectCoins, DisconnectCoins DEF Next

\* The history variable never goes back.
LEMMA ThrewStays == ASSUME [Next]_vars, threw PROVE threw'
  BY DEF Next, vars, AcceptBlock, ConnectTip, DisconnectTip, AssertionFails, FlushStateToDisk,
           Shutdown, FlushIndex, FlushIndexFails, OutOfDiskSpace, FlushCoins, FlushCoinsFails,
           FlushEvo, FlushEvoFails, Crash, Start

\* Until a write of the block index or of the coins throws, whatever else goes wrong
\* and whenever the process ends: the assertions on view.GetBestBlock() hold, the
\* coins are those of their best block's chain, and the durable index holds all of
\* that chain (validation.cpp FlushStateToDisk).
THEOREM CoinsFollowTip == Spec => []CoinsInStep
  <1> DEFINE Inv == ~threw => CoinsInv
  <1>1. EvoInv => TypeOK
    BY DEF EvoInv
  <1>2. TypeOK /\ Inv /\ [Next]_vars => Inv'
    BY NextCoinsInv, ThrewStays
  <1>3. Inv => CoinsAtTip /\ CoinsMatchBestBlock /\ IndexCoversCoins
    BY DEF CoinsInv, CoinsAtTip, CoinsMatchBestBlock, IndexCoversCoins
  <1>4. Init => Inv
    BY InitCoinsInv
  <1> QED
    BY <1>1, <1>2, <1>3, <1>4, InitEvoInv, NextEvoInv, PTL DEF Spec, CoinsInStep

-----------------------------------------------------------------------------
\* An open view has loaded its best block, unless there is none to load.
BestLoaded == viewOpen /\ viewBest = NullBlock => TipBest = NullBlock

CacheInv == CacheTypeOK /\ FlagsSound /\ BestLoaded

\* Looking a coin up through pcoinsTip does not change what any layer answers.
LEMMA FetchTipLemma ==
    ASSUME CacheTypeOK, TipFlagsSound, NEW o \in Outpoints, FetchTip(o), UNCHANGED dbVars
    PROVE  /\ DOMAIN tipCoins' \subseteq Outpoints
           /\ \A x \in DOMAIN tipCoins' : tipCoins'[x] \in Entry
           /\ TipFlagsSound'
           /\ \A x \in Outpoints : TipCoin(x)' = TipCoin(x)
  <1>1. CASE TipFetches(o)
    <2>1. tipCoins' = Put(tipCoins, o, [coin |-> coinsDb[o], flags |-> {}])
      BY <1>1 DEF FetchTip
    <2>2. DOMAIN tipCoins' = DOMAIN tipCoins \cup {o}
      BY <2>1 DEF Put
    <2>3. tipCoins'[o] = [coin |-> coinsDb[o], flags |-> {}]
      BY <2>1 DEF Put
    <2>4. \A x \in DOMAIN tipCoins : tipCoins'[x] = tipCoins[x]
      BY <2>1, <1>1 DEF Put, TipFetches
    <2>5. coinsDb' = coinsDb /\ coinsDb[o] \in CoinOrSpent
      BY DEF dbVars, CacheTypeOK
    <2> QED
      BY SMT, <1>1, <2>2, <2>3, <2>4, <2>5
      DEF CacheTypeOK, TipFlagsSound, Entry, TipCoin, TipFetches, Flags
  <1>2. CASE ~TipFetches(o)
    BY <1>2 DEF FetchTip, CacheTypeOK, TipFlagsSound, TipCoin, dbVars
  <1> QED
    BY <1>1, <1>2

\* The same for a lookup that starts at the view.
LEMMA FetchParentLemma ==
    ASSUME CacheTypeOK, TipFlagsSound, NEW o \in Outpoints, FetchParent(o), UNCHANGED dbVars
    PROVE  /\ DOMAIN tipCoins' \subseteq Outpoints
           /\ \A x \in DOMAIN tipCoins' : tipCoins'[x] \in Entry
           /\ TipFlagsSound'
           /\ \A x \in Outpoints : TipCoin(x)' = TipCoin(x)
  <1>1. CASE o \in DOMAIN view
    BY <1>1 DEF FetchParent, CacheTypeOK, TipFlagsSound, TipCoin, dbVars
  <1>2. CASE o \notin DOMAIN view
    BY <1>2, FetchTipLemma DEF FetchParent
  <1> QED
    BY <1>1, <1>2

\* FetchCoin at the view adds at most one clean entry, equal to the parent's.
LEMMA FetchedLemma ==
    ASSUME CacheTypeOK, NEW o \in Outpoints
    PROVE  /\ DOMAIN Fetched(o) \subseteq Outpoints
           /\ \A x \in DOMAIN view : x \in DOMAIN Fetched(o) /\ Fetched(o)[x] = view[x]
           /\ \A x \in DOMAIN Fetched(o) :
                 /\ Fetched(o)[x] \in Entry
                 /\ x \notin DOMAIN view =>
                       /\ x = o
                       /\ Fetched(o)[x].coin = TipCoin(x)
                       /\ Fetched(o)[x].flags = {}
           /\ o \notin DOMAIN Fetched(o) => TipCoin(o) = Spent /\ o \notin DOMAIN view
  <1>1. TipCoin(o) \in CoinOrSpent
    BY DEF TipCoin, CacheTypeOK, Entry
  <1>2. CASE ViewFetches(o)
    <2>1. /\ DOMAIN Fetched(o) = DOMAIN view \cup {o}
          /\ Fetched(o)[o] = [coin |-> TipCoin(o), flags |-> {}]
          /\ \A x \in DOMAIN view : Fetched(o)[x] = view[x]
      BY <1>2 DEF Fetched, Put, ViewFetches
    <2> QED
      BY SMT, <1>1, <1>2, <2>1 DEF CacheTypeOK, Entry, ViewFetches
  <1>3. CASE ~ViewFetches(o)
    BY <1>3 DEF Fetched, CacheTypeOK, ViewFetches
  <1> QED
    BY <1>2, <1>3

\* What BatchWrite leaves in pcoinsTip, per outpoint.
LEMMA BatchWriteLemma ==
    ASSUME CacheInv
    PROVE  /\ DOMAIN BatchWrite \subseteq Outpoints
           /\ \A x \in DOMAIN BatchWrite :
                 /\ BatchWrite[x] \in Entry
                 /\ "DIRTY" \notin BatchWrite[x].flags => BatchWrite[x].coin = coinsDb[x]
                 /\ "FRESH" \in BatchWrite[x].flags => coinsDb[x] = Spent
           /\ \A x \in Outpoints :
                 (IF x \in DOMAIN BatchWrite THEN BatchWrite[x].coin ELSE coinsDb[x]) = ViewCoin(x)
  <1> USE DEF CacheInv, FlagsSound
  <1>1. Dirty(view) \subseteq DOMAIN view /\ NotKept \subseteq Dirty(view)
    BY DEF Dirty, NotKept
  <1>2. DOMAIN BatchWrite = (DOMAIN tipCoins \cup Dirty(view)) \ NotKept
    BY DEF BatchWrite
  <1>3. ASSUME NEW x \in Dirty(view), x \notin NotKept
        PROVE  /\ x \in Outpoints
               /\ BatchWrite[x] = [coin |-> view[x].coin, flags |-> MergedFlags(x)]
               /\ MergedFlags(x) \subseteq Flags
               /\ "DIRTY" \in MergedFlags(x)
               /\ "FRESH" \in MergedFlags(x) => coinsDb[x] = Spent
    <2>1. x \in DOMAIN view /\ x \in Outpoints /\ view[x] \in Entry
      BY <1>1, <1>3 DEF CacheTypeOK
    <2>2. BatchWrite[x] = [coin |-> view[x].coin, flags |-> MergedFlags(x)]
      BY <1>3 DEF BatchWrite
    <2>3. CASE x \in DOMAIN tipCoins
      BY <2>1, <2>2, <2>3 DEF MergedFlags, CacheTypeOK, TipFlagsSound, Entry, Flags
    <2>4. CASE x \notin DOMAIN tipCoins
      BY <2>1, <2>2, <2>4 DEF MergedFlags, ViewFlagsSound, TipCoin, Flags
    <2> QED
      BY <2>1, <2>2, <2>3, <2>4
  <1>4. ASSUME NEW x \in DOMAIN BatchWrite, x \notin Dirty(view)
        PROVE  x \in DOMAIN tipCoins /\ BatchWrite[x] = tipCoins[x]
    BY <1>2, <1>4 DEF BatchWrite
  <1>5. DOMAIN BatchWrite \subseteq Outpoints
    BY <1>1, <1>2 DEF CacheTypeOK
  <1>6. ASSUME NEW x \in DOMAIN BatchWrite
        PROVE  /\ BatchWrite[x] \in Entry
               /\ "DIRTY" \notin BatchWrite[x].flags => BatchWrite[x].coin = coinsDb[x]
               /\ "FRESH" \in BatchWrite[x].flags => coinsDb[x] = Spent
    <2>1. CASE x \in Dirty(view)
      <3>1. x \notin NotKept /\ view[x].coin \in CoinOrSpent
        BY <1>1, <1>2, <2>1 DEF CacheTypeOK, Entry
      <3>2. /\ BatchWrite[x] = [coin |-> view[x].coin, flags |-> MergedFlags(x)]
            /\ MergedFlags(x) \in SUBSET Flags
            /\ "DIRTY" \in MergedFlags(x)
            /\ "FRESH" \in MergedFlags(x) => coinsDb[x] = Spent
        BY <1>3, <2>1, <3>1
      <3> QED
        BY SMT, <3>1, <3>2 DEF Entry
    <2>2. CASE x \notin Dirty(view)
      BY <1>4, <2>2 DEF CacheTypeOK, TipFlagsSound
    <2> QED
      BY <2>1, <2>2
  <1>7. ASSUME NEW x \in Outpoints
        PROVE  (IF x \in DOMAIN BatchWrite THEN BatchWrite[x].coin ELSE coinsDb[x]) = ViewCoin(x)
    <2>1. CASE x \in NotKept
      <3>1. x \in DOMAIN view /\ view[x].coin = Spent
        BY <1>1, <2>1 DEF NotKept
      <3>2. coinsDb[x] = Spent
        BY <2>1, <3>1 DEF NotKept, TipFlagsSound, ViewFlagsSound, TipCoin
      <3> QED
        BY <1>2, <2>1, <3>1, <3>2 DEF ViewCoin
    <2>2. CASE x \in Dirty(view) /\ x \notin NotKept
      BY SMT, <1>1, <1>2, <1>3, <2>2 DEF ViewCoin
    <2>3. CASE x \notin Dirty(view)
      <3>1. ViewCoin(x) = TipCoin(x)
        BY <2>3 DEF ViewCoin, Dirty, ViewFlagsSound
      <3>2. x \in DOMAIN BatchWrite <=> x \in DOMAIN tipCoins
        BY <1>1, <1>2, <2>3
      <3> QED
        BY <1>4, <2>3, <3>1, <3>2 DEF TipCoin
    <2> QED
      BY <2>1, <2>2, <2>3
  <1> QED
    BY <1>5, <1>6, <1>7

\* One step per action: types and flags are preserved.
LEMMA NextPreservesFlags ==
    ASSUME CacheInv, [CacheNext]_cacheVars
    PROVE  CacheTypeOK' /\ FlagsSound'
  <1> USE DEF CacheInv, FlagsSound
  <1>e. /\ DOMAIN EmptyCache = {}
        /\ \A x \in DOMAIN EmptyCache : EmptyCache[x] \in Entry
    BY DEF EmptyCache
  <1>1. ASSUME NEW o \in Outpoints, AccessTip(o) PROVE CacheTypeOK' /\ FlagsSound'
    <2>1. FetchTip(o) /\ UNCHANGED dbVars /\ UNCHANGED viewVars /\ tipBest' = tipBest
      BY <1>1 DEF AccessTip
    <2>2. CacheTypeOK'
      BY <2>1, FetchTipLemma DEF CacheTypeOK, dbVars, viewVars
    <2>3. TipFlagsSound'
      BY <2>1, FetchTipLemma
    <2>4. ViewFlagsSound'
      BY <2>1, FetchTipLemma DEF ViewFlagsSound, CacheTypeOK, viewVars
    <2> QED
      BY <2>2, <2>3, <2>4
  <1>2. ASSUME NEW o \in Outpoints, Uncache(o) PROVE CacheTypeOK' /\ FlagsSound'
    <2>1. /\ tipCoins' = Drop(tipCoins, o) /\ tipCoins[o].flags = {} /\ o \in DOMAIN tipCoins
          /\ UNCHANGED <<coinsDb, dbBest, tipBest, viewOpen, view, viewBest>>
      BY <1>2 DEF Uncache, dbVars, viewVars
    <2>2. DOMAIN tipCoins' = DOMAIN tipCoins \ {o} /\ \A x \in DOMAIN tipCoins' : tipCoins'[x] = tipCoins[x]
      BY <2>1 DEF Drop
    <2>3. \A x \in Outpoints : TipCoin(x)' = TipCoin(x)
      BY <2>1, <2>2 DEF TipCoin, TipFlagsSound
    <2> QED
      BY SMT, <2>1, <2>2, <2>3 DEF CacheTypeOK, TipFlagsSound, ViewFlagsSound
  <1>3. CASE OpenView
    <2>1. TipBest \in Hashes \cup {NullBlock}
      BY DEF TipBest, CacheTypeOK
    <2> QED
      BY <1>3, <1>e, <2>1
      DEF OpenView, CacheTypeOK, TipFlagsSound, ViewFlagsSound, dbVars
  <1>4. ASSUME NEW o \in Outpoints, AccessView(o) PROVE CacheTypeOK' /\ FlagsSound'
    <2>1. /\ FetchParent(o) /\ UNCHANGED dbVars /\ view' = Fetched(o)
          /\ tipBest' = tipBest /\ viewOpen' = viewOpen /\ viewBest' = viewBest
      BY <1>4 DEF AccessView
    <2>2. CacheTypeOK'
      BY <2>1, FetchParentLemma, FetchedLemma DEF CacheTypeOK, dbVars
    <2>3. ViewFlagsSound'
      BY SMT, <2>1, FetchParentLemma, FetchedLemma DEF ViewFlagsSound, CacheTypeOK
    <2> QED
      BY <2>1, <2>2, <2>3, FetchParentLemma
  <1>5. ASSUME NEW o \in Outpoints, NEW c \in Coins, NEW overwrite \in BOOLEAN,
               AddCoin(o, c, overwrite)
        PROVE  CacheTypeOK' /\ FlagsSound'
    <2>1. UNCHANGED <<coinsDb, dbBest, tipCoins, tipBest, viewOpen, viewBest>>
      BY <1>5 DEF AddCoin, dbVars, tipVars
    <2>2. \A x \in Outpoints : TipCoin(x)' = TipCoin(x)
      BY <2>1 DEF TipCoin
    <2>3. CASE c \in Unspendable
      BY <1>5, <2>1, <2>2, <2>3 DEF AddCoin, CacheTypeOK, TipFlagsSound, ViewFlagsSound
    <2>4. CASE c \notin Unspendable
      <3>1. view' = Put(view, o, [coin |-> c, flags |-> AddedFlags(o, overwrite)])
        BY <1>5, <2>4 DEF AddCoin
      <3>2. /\ DOMAIN view' = DOMAIN view \cup {o}
            /\ view'[o] = [coin |-> c, flags |-> AddedFlags(o, overwrite)]
            /\ \A x \in DOMAIN view : x # o => view'[x] = view[x]
        BY <3>1 DEF Put
      <3>3. /\ AddedFlags(o, overwrite) \in SUBSET Flags
            /\ "DIRTY" \in AddedFlags(o, overwrite)
        BY DEF AddedFlags, Cached, CacheTypeOK, Entry, Flags
      <3>4. "FRESH" \in AddedFlags(o, overwrite) => TipCoin(o) = Spent
        <4>1. CASE o \in DOMAIN view
          BY <1>5, <4>1 DEF AddCoin, AddedFlags, Cached, ViewCoin, ViewFlagsSound
        <4>2. CASE o \notin DOMAIN view
          BY <1>5, <4>2 DEF AddCoin, AddedFlags, Cached, ViewCoin
        <4> QED
          BY <4>1, <4>2
      <3>5. CacheTypeOK'
        BY SMT, <2>1, <3>2, <3>3 DEF CacheTypeOK, Entry, CoinOrSpent
      <3>6. ViewFlagsSound'
        BY SMT, <2>2, <3>2, <3>3, <3>4 DEF ViewFlagsSound, CacheTypeOK
      <3> QED
        BY <2>1, <3>5, <3>6 DEF TipFlagsSound
    <2> QED
      BY <2>3, <2>4
  <1>6. ASSUME NEW o \in Outpoints, AddCoinThrows(o) PROVE CacheTypeOK' /\ FlagsSound'
    BY <1>6, <1>e
    DEF AddCoinThrows, CacheTypeOK, TipFlagsSound, ViewFlagsSound, dbVars, tipVars
  <1>7. ASSUME NEW o \in Outpoints, SpendCoin(o) PROVE CacheTypeOK' /\ FlagsSound'
    <2>1. /\ FetchParent(o) /\ UNCHANGED dbVars
          /\ tipBest' = tipBest /\ viewOpen' = viewOpen /\ viewBest' = viewBest
      BY <1>7 DEF SpendCoin
    <2>2. CASE o \notin DOMAIN Fetched(o)
      <3>1. view' = view
        BY <1>7, <2>2 DEF SpendCoin
      <3> QED
        BY <2>1, <3>1, FetchParentLemma DEF CacheTypeOK, ViewFlagsSound, dbVars
    <2>3. CASE o \in DOMAIN Fetched(o)
      <3>1. view' = IF "FRESH" \in Fetched(o)[o].flags
                    THEN Drop(Fetched(o), o)
                    ELSE Put(Fetched(o), o, [coin |-> Spent,
                                             flags |-> Fetched(o)[o].flags \cup {"DIRTY"}])
        BY <1>7, <2>3 DEF SpendCoin
      <3>2. /\ DOMAIN view' \subseteq DOMAIN Fetched(o)
            /\ \A x \in DOMAIN view' :
                  \/ view'[x] = Fetched(o)[x] /\ x # o
                  \/ /\ x = o
                     /\ view'[x] = [coin |-> Spent, flags |-> Fetched(o)[o].flags \cup {"DIRTY"}]
                     /\ "FRESH" \notin Fetched(o)[o].flags
        BY <2>3, <3>1 DEF Drop, Put
      <3>3. CacheTypeOK'
        BY SMT, <2>1, <3>2, FetchParentLemma, FetchedLemma
        DEF CacheTypeOK, Entry, CoinOrSpent, Flags, dbVars
      <3>4. ViewFlagsSound'
        BY SMTT(30), <2>1, <3>2, FetchParentLemma, FetchedLemma DEF CacheTypeOK, ViewFlagsSound
      <3> QED
        BY <2>1, <3>3, <3>4, FetchParentLemma
    <2> QED
      BY <2>2, <2>3
  <1>8. ASSUME NEW b \in Hashes, SetBestBlock(b) PROVE CacheTypeOK' /\ FlagsSound'
    BY <1>8
    DEF SetBestBlock, CacheTypeOK, TipFlagsSound, ViewFlagsSound, TipCoin, dbVars, tipVars
  <1>9. CASE FlushView
    <2>1. /\ tipCoins' = BatchWrite /\ view' = EmptyCache /\ viewOpen' = FALSE
          /\ tipBest' = viewBest /\ viewBest' = NullBlock /\ coinsDb' = coinsDb /\ dbBest' = dbBest
      BY <1>9 DEF FlushView, dbVars
    <2> QED
      BY <2>1, <1>e, BatchWriteLemma DEF CacheTypeOK, TipFlagsSound, ViewFlagsSound
  <1>10. CASE DropView
    BY <1>10, <1>e
    DEF DropView, CacheTypeOK, TipFlagsSound, ViewFlagsSound, dbVars, tipVars
  <1>11. CASE FlushTip
    <2>1. /\ coinsDb' = [o \in Outpoints |-> IF o \in Dirty(tipCoins) THEN tipCoins[o].coin ELSE coinsDb[o]]
          /\ dbBest' = TipBest /\ tipCoins' = EmptyCache
          /\ UNCHANGED <<tipBest, viewOpen, view, viewBest>>
      BY <1>11 DEF FlushTip, TipBest, viewVars
    <2>2. \A x \in Outpoints : coinsDb'[x] = TipCoin(x) /\ coinsDb'[x] \in CoinOrSpent
      BY <2>1 DEF Dirty, TipCoin, TipFlagsSound, CacheTypeOK, Entry
    <2>3. \A x \in Outpoints : TipCoin(x)' = TipCoin(x)
      BY <1>e, <2>1, <2>2 DEF TipCoin
    <2>4. CacheTypeOK'
      BY <1>e, <2>1, <2>2 DEF CacheTypeOK, TipBest
    <2> QED
      BY <1>e, <2>1, <2>3, <2>4 DEF CacheTypeOK, TipFlagsSound, ViewFlagsSound
  <1>12. CASE CacheCrash
    BY <1>12, <1>e DEF CacheCrash, CacheTypeOK, TipFlagsSound, ViewFlagsSound, dbVars
  <1>13. CASE UNCHANGED cacheVars
    BY <1>13
    DEF cacheVars, dbVars, tipVars, viewVars, CacheTypeOK, TipFlagsSound, ViewFlagsSound, TipCoin
  <1> QED
    BY <1>1, <1>2, <1>3, <1>4, <1>5, <1>6, <1>7, <1>8, <1>9, <1>10, <1>11, <1>12, <1>13
    DEF CacheNext

\* While a view is open nothing below it changes its best block.
LEMMA NextPreservesBestLoaded ==
    ASSUME CacheInv, [CacheNext]_cacheVars
    PROVE  BestLoaded'
  <1> USE DEF CacheInv, BestLoaded
  <1>1. CASE OpenView
    BY <1>1 DEF OpenView, TipBest, dbVars
  <1>2. ASSUME NEW b \in Hashes, SetBestBlock(b) PROVE BestLoaded'
    BY <1>2, CoinsAssumption DEF SetBestBlock
  <1>3. ASSUME UNCHANGED <<viewOpen, dbBest, tipBest, viewBest>> PROVE BestLoaded'
    BY <1>3 DEF TipBest
  <1>4. ASSUME NEW o \in Outpoints, AccessTip(o) \/ Uncache(o) \/ AccessView(o) \/ SpendCoin(o)
        PROVE  BestLoaded'
    BY <1>3, <1>4 DEF AccessTip, Uncache, AccessView, SpendCoin, dbVars, viewVars
  <1>5. ASSUME NEW o \in Outpoints, NEW c \in Coins, NEW overwrite \in BOOLEAN,
               AddCoin(o, c, overwrite)
        PROVE  BestLoaded'
    BY <1>3, <1>5 DEF AddCoin, dbVars, tipVars
  <1>6. CASE FlushView \/ DropView \/ FlushTip \/ CacheCrash \/ \E o \in Outpoints : AddCoinThrows(o)
    BY <1>6 DEF FlushView, DropView, FlushTip, CacheCrash, AddCoinThrows, viewVars
  <1>7. CASE UNCHANGED cacheVars
    BY <1>3, <1>7 DEF cacheVars, dbVars, tipVars, viewVars
  <1> QED
    BY <1>1, <1>2, <1>4, <1>5, <1>6, <1>7 DEF CacheNext

\* The initial caches are empty, so their flags are sound.
LEMMA InitCacheInv == CacheInit => CacheInv
  BY DEF CacheInit, CacheInv, BestLoaded, CacheTypeOK, FlagsSound, TipFlagsSound, ViewFlagsSound,
         EmptyCache, CoinOrSpent

LEMMA CacheInvariant == CacheSpec => []CacheInv
  <1>1. CacheInv /\ [CacheNext]_cacheVars => CacheInv'
    BY NextPreservesFlags, NextPreservesBestLoaded DEF CacheInv
  <1> QED
    BY InitCacheInv, <1>1, PTL DEF CacheSpec

\* The flags of both caches mean what coins.h says they mean, in every state of
\* every sequence of calls, block failures and crashes.
THEOREM FlagsSoundness == CacheSpec => [](CacheTypeOK /\ FlagsSound)
  <1>1. CacheInv => CacheTypeOK /\ FlagsSound
    BY DEF CacheInv
  <1> QED
    BY <1>1, CacheInvariant, PTL

\* CCoinsViewCache::BatchWrite never reaches its "FRESH flag misapplied" throw.
THEOREM BatchWriteNeverThrows == CacheSpec => []FreshNeverMisapplied
  <1>1. CacheInv => FreshNeverMisapplied
    BY DEF CacheInv, FlagsSound, ViewFlagsSound, FreshNeverMisapplied, TipCoin, Dirty
  <1> QED
    BY <1>1, CacheInvariant, PTL

\* Each step of the caches is a step of the abstract UTXO set or a stutter, and
\* only a crash is a crash.
LEMMA CacheStep ==
    ASSUME CacheInv, CacheInv', [CacheNext]_cacheVars
    PROVE  (CacheCrash /\ Utxo!Crash) \/ [Utxo!Step]_(Utxo!vars)
  <1> USE DEF CacheInv, FlagsSound
  <1>e. DOMAIN EmptyCache = {}
    BY DEF EmptyCache
  <1>s. ASSUME viewOpen' = viewOpen, CacheDurable' = CacheDurable, CacheCurrent' = CacheCurrent, CachePending' = CachePending
        PROVE  UNCHANGED Utxo!vars
    BY <1>s DEF Utxo!vars
  <1>c. ASSUME \A x \in Outpoints : TipCoin(x)' = TipCoin(x), TipBest' = TipBest
        PROVE  CacheCurrent' = CacheCurrent
    BY <1>c DEF CacheCurrent
  <1>p. ASSUME viewOpen' = viewOpen, CacheCurrent' = CacheCurrent, ViewBest' = ViewBest,
               \A x \in Outpoints : ViewCoin(x)' = ViewCoin(x)
        PROVE  CachePending' = CachePending
    BY <1>p DEF CachePending
  \* A dropped view, by an invalid block or by an exception, aborts the transaction.
  <1>d. ASSUME viewOpen, viewOpen' = FALSE, UNCHANGED <<dbVars, tipVars>>
        PROVE  Utxo!Step
    <2>1. CacheDurable' = CacheDurable /\ CacheCurrent' = CacheCurrent
      BY <1>d DEF CacheDurable, CacheCurrent, TipCoin, TipBest, dbVars, tipVars
    <2>2. CachePending' = CacheCurrent
      BY <1>d, <2>1 DEF CachePending
    <2> QED
      BY <1>d, <2>1, <2>2 DEF Utxo!Step, Utxo!Abort
  <1>1. ASSUME NEW o \in Outpoints, AccessTip(o) PROVE UNCHANGED Utxo!vars
    <2>1. FetchTip(o) /\ UNCHANGED dbVars /\ UNCHANGED viewVars /\ tipBest' = tipBest
      BY <1>1 DEF AccessTip
    <2>2. \A x \in Outpoints : TipCoin(x)' = TipCoin(x) /\ ViewCoin(x)' = ViewCoin(x)
      BY <2>1, FetchTipLemma DEF ViewCoin, viewVars
    <2>3. viewOpen' = viewOpen /\ CacheDurable' = CacheDurable /\ TipBest' = TipBest /\ ViewBest' = ViewBest
      BY <2>1 DEF CacheDurable, TipBest, ViewBest, dbVars, viewVars
    <2> QED
      BY <2>2, <2>3, <1>s, <1>c, <1>p
  <1>2. ASSUME NEW o \in Outpoints, Uncache(o) PROVE UNCHANGED Utxo!vars
    <2>1. /\ tipCoins' = Drop(tipCoins, o) /\ tipCoins[o].flags = {} /\ o \in DOMAIN tipCoins
          /\ UNCHANGED <<coinsDb, dbBest, tipBest, viewOpen, view, viewBest>>
      BY <1>2 DEF Uncache, dbVars, viewVars
    <2>2. DOMAIN tipCoins' = DOMAIN tipCoins \ {o} /\ \A x \in DOMAIN tipCoins' : tipCoins'[x] = tipCoins[x]
      BY <2>1 DEF Drop
    <2>3. \A x \in Outpoints : TipCoin(x)' = TipCoin(x)
      BY <2>1, <2>2 DEF TipCoin, TipFlagsSound
    <2>4. \A x \in Outpoints : ViewCoin(x)' = ViewCoin(x)
      BY <2>1, <2>3 DEF ViewCoin
    <2>5. CacheDurable' = CacheDurable /\ TipBest' = TipBest /\ ViewBest' = ViewBest
      BY <2>1 DEF CacheDurable, TipBest, ViewBest
    <2> QED
      BY <2>1, <2>3, <2>4, <2>5, <1>s, <1>c, <1>p
  <1>3. CASE OpenView
    <2>1. /\ ~viewOpen /\ viewOpen' = TRUE /\ view' = EmptyCache /\ tipCoins' = tipCoins /\ coinsDb' = coinsDb
          /\ dbBest' = dbBest /\ tipBest' = TipBest /\ viewBest' = TipBest
      BY <1>3 DEF OpenView, dbVars
    <2>2. \A x \in Outpoints : TipCoin(x)' = TipCoin(x) /\ ViewCoin(x)' = TipCoin(x)
      BY <2>1, <1>e DEF TipCoin, ViewCoin
    <2>3. TipBest' = TipBest /\ ViewBest' = TipBest
      BY <2>1 DEF TipBest, ViewBest
    <2>4. CacheCurrent' = CacheCurrent /\ CacheDurable' = CacheDurable
      BY <2>1, <2>2, <2>3, <1>c DEF CacheDurable
    <2>5. CachePending' = CacheCurrent
      BY <2>1, <2>2, <2>3 DEF CachePending, CacheCurrent
    <2> QED
      BY <2>1, <2>4, <2>5 DEF Utxo!Step, Utxo!Begin
  <1>4. ASSUME NEW o \in Outpoints, AccessView(o) PROVE UNCHANGED Utxo!vars
    <2>1. /\ FetchParent(o) /\ UNCHANGED dbVars /\ view' = Fetched(o)
          /\ tipBest' = tipBest /\ viewOpen' = viewOpen /\ viewBest' = viewBest
      BY <1>4 DEF AccessView
    <2>2. \A x \in Outpoints : TipCoin(x)' = TipCoin(x)
      BY <2>1, FetchParentLemma
    <2>3. \A x \in Outpoints : ViewCoin(x)' = ViewCoin(x)
      BY SMT, <2>1, <2>2, FetchedLemma DEF ViewCoin
    <2>4. CacheDurable' = CacheDurable /\ TipBest' = TipBest /\ ViewBest' = ViewBest
      BY <2>1 DEF CacheDurable, TipBest, ViewBest, dbVars
    <2> QED
      BY <2>1, <2>2, <2>3, <2>4, <1>s, <1>c, <1>p
  <1>5. ASSUME NEW o \in Outpoints, NEW c \in Coins, NEW overwrite \in BOOLEAN,
               AddCoin(o, c, overwrite)
        PROVE  Utxo!Step \/ UNCHANGED Utxo!vars
    <2>1. viewOpen /\ UNCHANGED <<coinsDb, dbBest, tipCoins, tipBest, viewOpen, viewBest>>
      BY <1>5 DEF AddCoin, dbVars, tipVars
    <2>2. CacheCurrent' = CacheCurrent /\ CacheDurable' = CacheDurable /\ ViewBest' = ViewBest
      BY <2>1 DEF CacheCurrent, CacheDurable, TipCoin, TipBest, ViewBest
    <2>3. CASE c \in Unspendable
      <3>1. view' = view
        BY <1>5, <2>3 DEF AddCoin
      <3>2. CachePending' = CachePending
        BY <2>1, <2>2, <3>1 DEF CachePending, ViewCoin, TipCoin
      <3> QED
        BY <2>1, <2>2, <3>2, <1>s
    <2>4. CASE c \notin Unspendable
      <3>1. view' = Put(view, o, [coin |-> c, flags |-> AddedFlags(o, overwrite)])
        BY <1>5, <2>4 DEF AddCoin
      <3>2. \A x \in Outpoints : ViewCoin(x)' = IF x = o THEN c ELSE ViewCoin(x)
        BY <2>1, <3>1 DEF ViewCoin, TipCoin, Put
      <3>3. CachePending' = [map |-> [CachePending.map EXCEPT ![o] = c], best |-> CachePending.best]
        BY <2>1, <2>2, <3>2 DEF CachePending
      <3> QED
        BY <2>1, <2>2, <3>3 DEF Utxo!Step, Utxo!Set
    <2> QED
      BY <2>3, <2>4
  <1>6. ASSUME NEW o \in Outpoints, AddCoinThrows(o) PROVE Utxo!Step
    BY <1>6, <1>d DEF AddCoinThrows
  <1>7. ASSUME NEW o \in Outpoints, SpendCoin(o)
        PROVE  Utxo!Step \/ UNCHANGED Utxo!vars
    <2>1. /\ viewOpen /\ FetchParent(o) /\ UNCHANGED dbVars
          /\ tipBest' = tipBest /\ viewOpen' = viewOpen /\ viewBest' = viewBest
      BY <1>7 DEF SpendCoin
    <2>2. \A x \in Outpoints : TipCoin(x)' = TipCoin(x)
      BY <2>1, FetchParentLemma
    <2>3. CacheDurable' = CacheDurable /\ TipBest' = TipBest /\ ViewBest' = ViewBest
      BY <2>1 DEF CacheDurable, TipBest, ViewBest, dbVars
    <2>4. CacheCurrent' = CacheCurrent
      BY <2>2, <2>3, <1>c
    <2>5. CASE o \notin DOMAIN Fetched(o)
      <3>1. view' = view
        BY <1>7, <2>5 DEF SpendCoin
      <3>2. \A x \in Outpoints : ViewCoin(x)' = ViewCoin(x)
        BY <2>2, <3>1 DEF ViewCoin
      <3> QED
        BY <2>1, <2>3, <2>4, <3>2, <1>s, <1>p
    <2>6. CASE o \in DOMAIN Fetched(o)
      <3>1. view' = IF "FRESH" \in Fetched(o)[o].flags
                    THEN Drop(Fetched(o), o)
                    ELSE Put(Fetched(o), o, [coin |-> Spent,
                                             flags |-> Fetched(o)[o].flags \cup {"DIRTY"}])
        BY <1>7, <2>6 DEF SpendCoin
      <3>2. "FRESH" \in Fetched(o)[o].flags => o \in DOMAIN view /\ TipCoin(o) = Spent
        BY <2>6, FetchedLemma DEF ViewFlagsSound
      <3>3. ViewCoin(o)' = Spent
        BY <2>2, <3>1, <3>2 DEF ViewCoin, Drop, Put
      <3>4. ASSUME NEW x \in Outpoints, x # o PROVE ViewCoin(x)' = ViewCoin(x)
        <4>1. x \in DOMAIN view' <=> x \in DOMAIN view
          BY <3>1, <3>4, FetchedLemma DEF Drop, Put
        <4>2. x \in DOMAIN view => view'[x] = view[x]
          BY <3>1, <3>4, FetchedLemma DEF Drop, Put
        <4> QED
          BY <2>2, <4>1, <4>2 DEF ViewCoin
      <3>5. \A x \in Outpoints : ViewCoin(x)' = IF x = o THEN Spent ELSE ViewCoin(x)
        BY <3>3, <3>4
      <3>6. CachePending' = [map |-> [CachePending.map EXCEPT ![o] = Spent], best |-> CachePending.best]
        BY <2>1, <2>3, <3>5 DEF CachePending
      <3> QED
        BY <2>1, <2>3, <2>4, <3>6 DEF Utxo!Step, Utxo!Set
    <2> QED
      BY <2>5, <2>6
  <1>8. ASSUME NEW b \in Hashes, SetBestBlock(b) PROVE Utxo!Step
    <2>1. viewOpen /\ viewOpen' = viewOpen /\ viewBest' = b /\ view' = view /\ UNCHANGED <<dbVars, tipVars>>
      BY <1>8 DEF SetBestBlock
    <2>2. CacheDurable' = CacheDurable /\ CacheCurrent' = CacheCurrent
      BY <2>1 DEF CacheDurable, CacheCurrent, TipCoin, TipBest, dbVars, tipVars
    <2>3. ViewBest' = b
      BY <2>1, CoinsAssumption DEF ViewBest
    <2>4. CachePending' = [map |-> CachePending.map, best |-> b]
      BY <2>1, <2>3 DEF CachePending, ViewCoin, TipCoin, dbVars, tipVars
    <2> QED
      BY <2>1, <2>2, <2>4 DEF Utxo!Step, Utxo!SetBest
  <1>9. CASE FlushView
    <2>1. /\ viewOpen /\ viewOpen' = FALSE /\ tipCoins' = BatchWrite /\ tipBest' = viewBest
          /\ coinsDb' = coinsDb /\ dbBest' = dbBest
      BY <1>9 DEF FlushView, dbVars
    <2>2. \A x \in Outpoints : TipCoin(x)' = ViewCoin(x)
      BY <2>1, BatchWriteLemma DEF TipCoin
    <2>3. TipBest' = ViewBest
      BY <2>1 DEF TipBest, ViewBest, BestLoaded
    <2>4. CacheCurrent' = CachePending /\ CacheDurable' = CacheDurable
      BY <2>1, <2>2, <2>3 DEF CacheCurrent, CachePending, CacheDurable
    <2>5. CachePending' = CachePending
      BY <2>1, <2>4 DEF CachePending
    <2> QED
      BY <2>1, <2>4, <2>5 DEF Utxo!Step, Utxo!Commit
  <1>10. CASE DropView
    BY <1>10, <1>d DEF DropView
  <1>11. CASE FlushTip
    <2>1. /\ ~viewOpen /\ viewOpen' = viewOpen
          /\ coinsDb' = [o \in Outpoints |-> IF o \in Dirty(tipCoins) THEN tipCoins[o].coin ELSE coinsDb[o]]
          /\ dbBest' = TipBest /\ tipCoins' = EmptyCache /\ tipBest' = tipBest
      BY <1>11 DEF FlushTip, TipBest, viewVars
    <2>2. coinsDb' = [o \in Outpoints |-> TipCoin(o)]
      BY <2>1 DEF Dirty, TipCoin, TipFlagsSound
    <2>3. \A x \in Outpoints : TipCoin(x)' = TipCoin(x)
      BY <1>e, <2>1, <2>2 DEF TipCoin
    <2>4. TipBest' = TipBest
      BY <2>1 DEF TipBest
    <2>5. CacheCurrent' = CacheCurrent /\ CacheDurable' = CacheCurrent
      BY <2>1, <2>2, <2>3, <2>4, <1>c DEF CacheDurable, CacheCurrent
    <2>6. CachePending' = CachePending
      BY <2>1, <2>5 DEF CachePending
    <2> QED
      BY <2>1, <2>5, <2>6 DEF Utxo!Step, Utxo!Persist
  <1>12. CASE CacheCrash
    <2>1. /\ viewOpen' = FALSE /\ coinsDb' = coinsDb /\ dbBest' = dbBest /\ tipCoins' = EmptyCache
          /\ tipBest' = NullBlock
      BY <1>12 DEF CacheCrash, dbVars
    <2>2. \A x \in Outpoints : TipCoin(x)' = coinsDb[x]
      BY <1>e, <2>1 DEF TipCoin
    <2>3. CacheCurrent' = CacheDurable
      BY <2>1, <2>2 DEF CacheCurrent, CacheDurable, TipBest, CacheTypeOK
    <2>4. CachePending' = CacheDurable /\ CacheDurable' = CacheDurable
      BY <2>1, <2>3 DEF CachePending, CacheDurable
    <2> QED
      BY <1>12, <2>1, <2>3, <2>4 DEF Utxo!Crash
  <1>13. CASE UNCHANGED cacheVars
    <2>1. UNCHANGED <<coinsDb, dbBest, tipCoins, tipBest, viewOpen, view, viewBest>>
      BY <1>13 DEF cacheVars, dbVars, tipVars, viewVars
    <2> QED
      BY <2>1, <1>s DEF CachePending, CacheCurrent, CacheDurable, TipCoin, TipBest, ViewCoin, ViewBest
  <1> QED
    BY <1>1, <1>2, <1>3, <1>4, <1>5, <1>6, <1>7, <1>8, <1>9, <1>10, <1>11, <1>12, <1>13
    DEF CacheNext

\* The two caches over the database behave as one UTXO set with one best block:
\* a flushed view commits all its changes at once, a dropped one none of them,
\* a flush of pcoinsTip makes exactly the committed state durable, and a crash
\* returns to exactly the last durable state.
THEOREM CoinsCacheImplementsUtxoSet == CacheSpec => ImplementsUtxoSet
  <1>1. CacheInit => Utxo!Init
    <2> SUFFICES ASSUME CacheInit PROVE Utxo!Init
      OBVIOUS
    <2>1. CacheCurrent = Utxo!EmptyStore /\ CacheDurable = Utxo!EmptyStore
      BY DEF CacheInit, EmptyCache, CacheCurrent, CacheDurable, TipCoin, TipBest, Utxo!EmptyStore
    <2> QED
      BY <2>1 DEF CacheInit, CachePending, Utxo!Init
  <1>2. CacheInv /\ CacheInv' /\ [CacheNext]_cacheVars =>
            /\ [Utxo!Next]_(Utxo!vars)
            /\ [CacheCrash \/ [Utxo!Step]_(Utxo!vars)]_cacheVars
    BY CacheStep DEF Utxo!Next
  <1> QED
    BY <1>1, <1>2, CacheInvariant, PTL DEF CacheSpec, ImplementsUtxoSet, Utxo!Spec

-----------------------------------------------------------------------------
\* The memory of each cached coin, and of all the coins of a cache.
Weight(c) == [o \in DOMAIN c |-> UsageOf(c[o].coin)]
Owned(c) == SumOver(Weight(c), DOMAIN c)
IsCache(c) == IsFiniteSet(DOMAIN c) /\ \A o \in DOMAIN c : c[o] \in Entry

UsageInv ==
    /\ IsCache(tipCoins) /\ tipUsage = Owned(tipCoins)
    /\ IsCache(view) /\ viewUsage = Owned(view)

LEMMA UsageType == \A c \in CoinOrSpent : UsageOf(c) \in Nat
  <1>1. UsageOf(Spent) = 0 /\ 0 \in Nat
    BY SMT DEF UsageOf
  <1>2. \A c \in Coins : Usage[c] \in Nat
    BY CoinsAssumption
  <1> QED
    BY <1>1, <1>2 DEF UsageOf, CoinOrSpent

LEMMA WeightType == ASSUME NEW c, IsCache(c) PROVE \A o \in DOMAIN c : Weight(c)[o] \in Nat
  <1>1. \A o \in DOMAIN c : c[o].coin \in CoinOrSpent
    BY DEF IsCache, Entry
  <1> QED
    BY <1>1, UsageType DEF Weight

\* The sums of the module are those of Sums.
LEMMA SumIsWeight ==
    ASSUME NEW c, NEW S \in SUBSET DOMAIN c
    PROVE  MapThenSumSet(LAMBDA o : UsageOf(c[o].coin), S) = SumOver(Weight(c), S)
  <1> DEFINE Step(f, s) == IF s = {} THEN 0 ELSE UsageOf(c[Pick(s)].coin) + f[s \ {Pick(s)}]
             IsStep(f) == f = [s \in SUBSET S |-> Step(f, s)]
  <1>1. MapThenSumSet(LAMBDA o : UsageOf(c[o].coin), S) = (CHOOSE f : IsStep(f))[S]
    BY DEF MapThenSumSet, MapThenFoldSet, Pick
  <1>2. ASSUME NEW f, NEW s \in SUBSET S PROVE Step(f, s) = Fold(Weight(c), f, s)
    BY PickIn DEF Fold, Weight
  <1>3. ASSUME NEW f PROVE IsStep(f) <=> IsFold(Weight(c), S, f)
    BY <1>2 DEF IsFold
  <1>4. (CHOOSE f : IsStep(f)) = (CHOOSE f : IsFold(Weight(c), S, f))
    BY <1>3
  <1> QED
    BY <1>1, <1>4, SumIsFold

LEMMA EmptyOwned == IsCache(EmptyCache) /\ Owned(EmptyCache) = 0
  <1>1. DOMAIN EmptyCache = {}
    BY DEF EmptyCache
  <1> QED
    BY <1>1, SumEmpty, FS_EmptySet DEF IsCache, Owned

LEMMA OwnedType == ASSUME NEW c, IsCache(c) PROVE Owned(c) \in Nat
  BY WeightType, SumNat DEF Owned, IsCache

\* An entry leaves a cache.
LEMMA DropOwned ==
    ASSUME NEW c, IsCache(c), NEW o \in DOMAIN c
    PROVE  IsCache(Drop(c, o)) /\ Owned(c) = UsageOf(c[o].coin) + Owned(Drop(c, o))
  <1> DEFINE d == Drop(c, o)
  <1>1. DOMAIN d = DOMAIN c \ {o} /\ \A x \in DOMAIN d : d[x] = c[x]
    BY DEF Drop
  <1> HIDE DEF d
  <1>2. IsCache(d)
    BY <1>1, FS_Subset DEF IsCache
  <1>3. Owned(c) = Weight(c)[o] + SumOver(Weight(c), DOMAIN c \ {o})
    BY WeightType, SumOut DEF Owned, IsCache
  <1>4. \A x \in DOMAIN d : Weight(d)[x] = Weight(c)[x]
    BY <1>1 DEF Weight
  <1>5. SumOver(Weight(d), DOMAIN d) = SumOver(Weight(c), DOMAIN d)
    BY <1>4, SumSame
  <1>6. Weight(c)[o] = UsageOf(c[o].coin)
    BY DEF Weight
  <1> QED
    BY <1>1, <1>2, <1>3, <1>5, <1>6 DEF Owned, d

\* An entry enters a cache or replaces another.
LEMMA PutOwned ==
    ASSUME NEW c, IsCache(c), NEW o, NEW e \in Entry
    PROVE  /\ IsCache(Put(c, o, e))
           /\ o \notin DOMAIN c => Owned(Put(c, o, e)) = Owned(c) + UsageOf(e.coin)
           /\ o \in DOMAIN c => Owned(Put(c, o, e)) = (Owned(c) - UsageOf(c[o].coin)) + UsageOf(e.coin)
  <1> DEFINE d == Put(c, o, e)
  <1>1. DOMAIN d = DOMAIN c \cup {o} /\ d[o] = e /\ \A x \in DOMAIN d \ {o} : d[x] = c[x]
    BY DEF Put
  <1> HIDE DEF d
  <1>2. IsCache(d)
    <2>1. IsFiniteSet(DOMAIN d)
      BY <1>1, FS_AddElement DEF IsCache
    <2> QED
      BY <1>1, <2>1 DEF IsCache
  <1>3. Owned(d) = UsageOf(e.coin) + Owned(Drop(d, o)) /\ IsCache(Drop(d, o))
    BY <1>1, <1>2, DropOwned
  <1>4. UsageOf(e.coin) \in Nat /\ Owned(Drop(d, o)) \in Nat /\ Owned(c) \in Nat
    BY <1>3, UsageType, OwnedType DEF Entry
  <1>5. CASE o \notin DOMAIN c
    <2>1. DOMAIN Drop(d, o) = DOMAIN c /\ \A x \in DOMAIN c : Drop(d, o)[x] = c[x]
      BY <1>1, <1>5 DEF Drop
    <2>2. \A x \in DOMAIN c : Weight(Drop(d, o))[x] = Weight(c)[x]
      BY <2>1 DEF Weight
    <2>3. Owned(Drop(d, o)) = Owned(c)
      BY ZenonT(30), <2>1, <2>2, SumSame DEF Owned
    <2>4. Owned(d) = Owned(c) + UsageOf(e.coin)
      BY SMT, <1>3, <1>4, <2>3
    <2> QED
      BY <1>2, <1>5, <2>4 DEF d
  <1>6. CASE o \in DOMAIN c
    <2>1. Drop(d, o) = Drop(c, o)
      BY <1>1, <1>6 DEF Drop
    <2>2. Owned(c) = UsageOf(c[o].coin) + Owned(Drop(c, o))
      BY <1>6, DropOwned
    <2>3. UsageOf(c[o].coin) \in Nat
      BY <1>6, UsageType DEF IsCache, Entry
    <2>4. Owned(d) = (Owned(c) - UsageOf(c[o].coin)) + UsageOf(e.coin)
      BY SMT, <1>3, <1>4, <2>1, <2>2, <2>3
    <2> QED
      BY <1>2, <1>6, <2>4 DEF d
  <1> QED
    BY <1>5, <1>6

LEMMA FetchTipOwned ==
    ASSUME CacheTypeOK, UsageInv, NEW o \in Outpoints, FetchTip(o)
    PROVE  IsCache(tipCoins') /\ tipUsage' = Owned(tipCoins')
  <1>1. CASE TipFetches(o)
    <2> DEFINE e == [coin |-> coinsDb[o], flags |-> {}]
    <2>1. e \in Entry /\ e.coin = coinsDb[o]
      BY DEF CacheTypeOK, Entry
    <2>2. tipCoins' = Put(tipCoins, o, e) /\ tipUsage' = tipUsage + UsageOf(coinsDb[o]) /\ o \notin DOMAIN tipCoins
      BY <1>1 DEF FetchTip, TipFetches
    <2> HIDE DEF e
    <2> QED
      BY <2>1, <2>2, PutOwned DEF UsageInv
  <1>2. CASE ~TipFetches(o)
    BY <1>2 DEF FetchTip, UsageInv
  <1> QED
    BY <1>1, <1>2

LEMMA FetchParentOwned ==
    ASSUME CacheTypeOK, UsageInv, NEW o \in Outpoints, FetchParent(o)
    PROVE  IsCache(tipCoins') /\ tipUsage' = Owned(tipCoins')
  BY FetchTipOwned DEF FetchParent, UsageInv

LEMMA FetchedOwned ==
    ASSUME CacheTypeOK, UsageInv, NEW o \in Outpoints
    PROVE  IsCache(Fetched(o)) /\ FetchedUsage(o) = Owned(Fetched(o))
  <1>1. CASE ViewFetches(o)
    <2> DEFINE e == [coin |-> TipCoin(o), flags |-> {}]
    <2>1. e \in Entry /\ e.coin = TipCoin(o)
      BY DEF CacheTypeOK, Entry, TipCoin
    <2>2. Fetched(o) = Put(view, o, e) /\ FetchedUsage(o) = viewUsage + UsageOf(TipCoin(o)) /\ o \notin DOMAIN view
      BY <1>1 DEF Fetched, FetchedUsage, ViewFetches
    <2> HIDE DEF e
    <2> QED
      BY <2>1, <2>2, PutOwned DEF UsageInv
  <1>2. CASE ~ViewFetches(o)
    <2>1. Fetched(o) = view /\ FetchedUsage(o) = viewUsage + 0
      BY <1>2 DEF Fetched, FetchedUsage
    <2>2. viewUsage + 0 = viewUsage
      BY SMT, OwnedType DEF UsageInv
    <2> QED
      BY <2>1, <2>2 DEF UsageInv
  <1> QED
    BY <1>1, <1>2

\* The first sum of BatchUsage: what is not kept owns nothing.
LEMMA SumIsKept ==
    ASSUME NEW c, IsCache(c), NEW S \in SUBSET DOMAIN c, NEW N \in SUBSET S
    PROVE  MapThenSumSet(LAMBDA o : IF o \in N THEN 0 ELSE UsageOf(c[o].coin), S) = SumOver(Weight(c), S \ N)
  <1> DEFINE h == [o \in S |-> IF o \in N THEN 0 ELSE UsageOf(c[o].coin)]
             Step(f, s) == IF s = {} THEN 0
                           ELSE (IF Pick(s) \in N THEN 0 ELSE UsageOf(c[Pick(s)].coin)) + f[s \ {Pick(s)}]
             IsStep(f) == f = [s \in SUBSET S |-> Step(f, s)]
  <1>1. MapThenSumSet(LAMBDA o : IF o \in N THEN 0 ELSE UsageOf(c[o].coin), S) = (CHOOSE f : IsStep(f))[S]
    BY DEF MapThenSumSet, MapThenFoldSet, Pick
  <1>2. ASSUME NEW f, NEW s \in SUBSET S PROVE Step(f, s) = Fold(h, f, s)
    BY PickIn DEF Fold
  <1>3. (\A o \in N : h[o] = 0) /\ \A o \in S \ N : h[o] = Weight(c)[o]
    BY DEF Weight
  <1> HIDE DEF h
  <1>4. ASSUME NEW f PROVE IsStep(f) <=> IsFold(h, S, f)
    BY <1>2 DEF IsFold
  <1>5. (CHOOSE f : IsStep(f)) = (CHOOSE f : IsFold(h, S, f))
    BY <1>4
  <1>6. IsFiniteSet(N) /\ IsFiniteSet(S \ N) /\ (S \ N) \cup N = S /\ (S \ N) \cap N = {}
    BY FS_Subset DEF IsCache
  <1>7. \A o \in S \ N : Weight(c)[o] \in Nat
    BY WeightType
  <1>8. 0 \in Nat
    BY SMT
  <1>9. \A o \in (S \ N) \cup N : h[o] \in Nat
    BY <1>3, <1>7, <1>8
  <1>10. SumOver(h, (S \ N) \cup N) = SumOver(h, S \ N) + SumOver(h, N)
    BY <1>6, <1>9, SumUnion
  <1>11. SumOver(h, N) = 0 /\ SumOver(h, S \ N) = SumOver(Weight(c), S \ N)
    BY <1>3, <1>6, SumOfZeros, SumSame
  <1>12. SumOver(Weight(c), S \ N) \in Nat
    BY <1>6, <1>7, SumNat
  <1>13. SumOver(Weight(c), S \ N) = SumOver(Weight(c), S \ N) + 0
    BY SMT, <1>12
  <1>14. SumOver(h, S) = SumOver(Weight(c), S \ N)
    BY <1>6, <1>10, <1>11, <1>13
  <1>15. (CHOOSE f : IsStep(f))[S] = SumOver(h, S)
    BY <1>5, SumIsFold
  <1> QED
    BY <1>1, <1>14, <1>15

LEMMA BatchOwned ==
    ASSUME UsageInv
    PROVE  IsCache(BatchWrite) /\ BatchUsage = Owned(BatchWrite)
  <1> DEFINE D == Dirty(view)
             N == NotKept
             T == DOMAIN tipCoins
             B == BatchWrite
  <1>1. D \in SUBSET DOMAIN view /\ N \in SUBSET D
    BY DEF Dirty, NotKept
  <1>2. DOMAIN B = (T \ D) \cup (D \ N)
    BY <1>1 DEF BatchWrite
  <1>3. /\ \A o \in T \ D : B[o] = tipCoins[o]
        /\ \A o \in D \ N : B[o] = [coin |-> view[o].coin, flags |-> MergedFlags(o)] /\ B[o].coin = view[o].coin
    BY <1>1 DEF BatchWrite
  <1>4. IsCache(tipCoins) /\ IsCache(view)
    BY DEF UsageInv
  <1>5. \A o \in D \ N : B[o] \in Entry
    <2> SUFFICES ASSUME NEW o \in D \ N PROVE B[o] \in Entry
      OBVIOUS
    <2>1. view[o] \in Entry /\ (o \in T => tipCoins[o] \in Entry)
      BY <1>1, <1>4 DEF IsCache
    <2>2. view[o].coin \in CoinOrSpent /\ MergedFlags(o) \in SUBSET Flags
      BY <2>1 DEF Entry, MergedFlags, Flags
    <2> QED
      <3>1. B[o] = [coin |-> view[o].coin, flags |-> MergedFlags(o)]
        BY <1>3
      <3> HIDE DEF B
      <3> QED
        BY SMT, <2>2, <3>1 DEF Entry
  <1> HIDE DEF D, N, T, B
  <1>6. /\ IsFiniteSet(T) /\ IsFiniteSet(T \ D) /\ IsFiniteSet(D \ N) /\ IsFiniteSet(D \cap T)
        /\ T = (T \ D) \cup (D \cap T) /\ (T \ D) \cap (D \cap T) = {} /\ (T \ D) \cap (D \ N) = {}
    BY <1>1, <1>4, FS_Subset DEF IsCache, T
  <1>7. IsCache(B)
    <2>1. IsFiniteSet(DOMAIN B)
      <3>1. IsFiniteSet((T \ D) \cup (D \ N))
        BY <1>6, FS_Union
      <3> QED
        BY <1>2, <3>1
    <2> QED
      BY <1>2, <1>3, <1>4, <1>5, <2>1 DEF IsCache, T
  <1>8. Owned(B) = SumOver(Weight(B), T \ D) + SumOver(Weight(B), D \ N)
    <2>1. \A o \in (T \ D) \cup (D \ N) : Weight(B)[o] \in Nat
      BY <1>2, <1>7, WeightType
    <2>2. SumOver(Weight(B), (T \ D) \cup (D \ N)) = SumOver(Weight(B), T \ D) + SumOver(Weight(B), D \ N)
      BY <1>6, <2>1, SumUnion
    <2> QED
      BY <1>2, <2>2 DEF Owned
  <1>9. SumOver(Weight(B), T \ D) = SumOver(Weight(tipCoins), T \ D)
    <2>1. \A o \in T \ D : Weight(B)[o] = Weight(tipCoins)[o]
      BY <1>2, <1>3 DEF Weight, T
    <2> QED
      BY <2>1, SumSame
  <1>10. SumOver(Weight(B), D \ N) = SumOver(Weight(view), D \ N)
    <2>1. \A o \in D \ N : Weight(B)[o] = Weight(view)[o]
      <3>1. \A o \in D \ N : B[o].coin = view[o].coin
        BY <1>3
      <3>2. \A o \in D \ N : o \in DOMAIN B /\ o \in DOMAIN view
        BY <1>1, <1>2
      <3> QED
        BY <3>1, <3>2 DEF Weight
    <2> QED
      BY <2>1, SumSame
  <1>11. \A o \in T : Weight(tipCoins)[o] \in Nat
    BY <1>4, WeightType DEF T
  <1>12. Owned(tipCoins) = SumOver(Weight(tipCoins), T \ D) + SumOver(Weight(tipCoins), D \cap T)
    <2>1. SumOver(Weight(tipCoins), (T \ D) \cup (D \cap T))
            = SumOver(Weight(tipCoins), T \ D) + SumOver(Weight(tipCoins), D \cap T)
      <3>1. \A o \in (T \ D) \cup (D \cap T) : Weight(tipCoins)[o] \in Nat
        BY <1>11
      <3> DEFINE K == D \cap T
      <3>2. IsFiniteSet(T \ D) /\ IsFiniteSet(K) /\ (T \ D) \cap K = {}
        BY <1>6
      <3> HIDE DEF K
      <3>3. \A o \in (T \ D) \cup K : Weight(tipCoins)[o] \in Nat
        BY <3>1 DEF K
      <3>4. SumOver(Weight(tipCoins), (T \ D) \cup K) = SumOver(Weight(tipCoins), T \ D) + SumOver(Weight(tipCoins), K)
        BY <3>2, <3>3, SumUnion
      <3> QED
        BY <3>4 DEF K
    <2> QED
      BY <1>6, <2>1 DEF Owned, T
  <1>13. /\ SumOver(Weight(tipCoins), T \ D) \in Nat /\ SumOver(Weight(tipCoins), D \cap T) \in Nat
         /\ SumOver(Weight(view), D \ N) \in Nat
    <2>1. \A o \in D \ N : Weight(view)[o] \in Nat
      BY <1>1, <1>4, WeightType
    <2> QED
      BY <1>6, <1>11, <2>1, SumNat
  <1>14. BatchUsage = Owned(tipCoins) + SumOver(Weight(view), D \ N) - SumOver(Weight(tipCoins), D \cap T)
    <2>1. MapThenSumSet(LAMBDA o : IF o \in N THEN 0 ELSE UsageOf(view[o].coin), D) = SumOver(Weight(view), D \ N)
      BY <1>1, <1>4, SumIsKept
    <2>2. MapThenSumSet(LAMBDA o : UsageOf(tipCoins[o].coin), D \cap T) = SumOver(Weight(tipCoins), D \cap T)
      BY SumIsWeight DEF T
    <2>3. tipUsage = Owned(tipCoins)
      BY DEF UsageInv
    <2> QED
      BY <2>1, <2>2, <2>3 DEF BatchUsage, N, D, T
  <1>15. BatchUsage = Owned(B)
    BY SMT, <1>8, <1>9, <1>10, <1>12, <1>13, <1>14
  <1> QED
    BY <1>7, <1>15 DEF B

LEMMA InitUsageInv == CacheInit => UsageInv
  BY EmptyOwned DEF CacheInit, UsageInv

LEMMA NextUsageInv ==
    ASSUME CacheTypeOK, UsageInv, [CacheNext]_cacheVars
    PROVE  UsageInv'
  <1>0. IsCache(tipCoins) /\ tipUsage = Owned(tipCoins) /\ IsCache(view) /\ viewUsage = Owned(view)
    BY DEF UsageInv
  <1>1. ASSUME NEW o \in Outpoints, AccessTip(o) PROVE UsageInv'
    BY <1>0, <1>1, FetchTipOwned DEF AccessTip, viewVars, UsageInv
  <1>2. ASSUME NEW o \in Outpoints, Uncache(o) PROVE UsageInv'
    <2>1. o \in DOMAIN tipCoins /\ tipCoins' = Drop(tipCoins, o) /\ tipUsage' = tipUsage - UsageOf(tipCoins[o].coin)
      BY <1>2 DEF Uncache
    <2>2. IsCache(tipCoins') /\ Owned(tipCoins) = UsageOf(tipCoins[o].coin) + Owned(tipCoins')
      BY <1>0, <2>1, DropOwned
    <2>3. UsageOf(tipCoins[o].coin) \in Nat /\ Owned(tipCoins') \in Nat
      BY <1>0, <2>1, <2>2, UsageType, OwnedType DEF IsCache, Entry
    <2>4. tipUsage' = Owned(tipCoins')
      BY SMT, <1>0, <2>1, <2>2, <2>3
    <2> QED
      BY <1>0, <1>2, <2>2, <2>4 DEF Uncache, viewVars, UsageInv
  <1>3. CASE OpenView
    BY <1>0, <1>3, EmptyOwned DEF OpenView, UsageInv
  <1>4. ASSUME NEW o \in Outpoints, AccessView(o) PROVE UsageInv'
    BY <1>4, FetchParentOwned, FetchedOwned DEF AccessView, UsageInv
  <1>5. ASSUME NEW o \in Outpoints, NEW c \in Coins, NEW overwrite \in BOOLEAN, AddCoin(o, c, overwrite) PROVE UsageInv'
    <2>1. CASE c \in Unspendable
      BY <1>0, <1>5, <2>1 DEF AddCoin, tipVars, UsageInv
    <2>2. CASE c \notin Unspendable
      <3> DEFINE e == [coin |-> c, flags |-> AddedFlags(o, overwrite)]
      <3>1. /\ view' = Put(view, o, e) /\ viewUsage' = (viewUsage - UsageOf(Cached(o).coin)) + UsageOf(c)
            /\ tipCoins' = tipCoins /\ tipUsage' = tipUsage
        BY <1>5, <2>2 DEF AddCoin, tipVars
      <3>2. e \in Entry /\ e.coin = c
        <4>1. Cached(o).flags \in SUBSET Flags
          BY <1>0 DEF Cached, IsCache, Entry
        <4>2. AddedFlags(o, overwrite) \in SUBSET Flags
          BY <4>1 DEF AddedFlags, Flags
        <4> QED
          BY <4>2 DEF Entry, CoinOrSpent
      <3> HIDE DEF e
      <3>3. IsCache(view') /\ viewUsage' = Owned(view')
        <4>1. CASE o \in DOMAIN view
          BY <1>0, <3>1, <3>2, <4>1, PutOwned DEF Cached
        <4>2. CASE o \notin DOMAIN view
          <5>1. UsageOf(Cached(o).coin) = 0
            BY <4>2 DEF Cached, UsageOf
          <5>2. IsCache(view') /\ Owned(view') = Owned(view) + UsageOf(c)
            BY <1>0, <3>1, <3>2, <4>2, PutOwned
          <5>3. Owned(view) \in Nat
            BY <1>0, OwnedType
          <5>4. Owned(view) - 0 = Owned(view)
            BY SMT, <5>3
          <5> QED
            BY <1>0, <3>1, <5>1, <5>2, <5>4
        <4> QED
          BY <4>1, <4>2
      <3> QED
        BY <1>0, <3>1, <3>3 DEF UsageInv
    <2> QED
      BY <2>1, <2>2
  <1>6. ASSUME NEW o \in Outpoints, AddCoinThrows(o) PROVE UsageInv'
    BY <1>0, <1>6, EmptyOwned DEF AddCoinThrows, tipVars, UsageInv
  <1>7. ASSUME NEW o \in Outpoints, SpendCoin(o) PROVE UsageInv'
    <2> DEFINE v == Fetched(o)
    <2>1. IsCache(tipCoins') /\ tipUsage' = Owned(tipCoins')
      BY <1>7, FetchParentOwned DEF SpendCoin
    <2>2. IsCache(v) /\ FetchedUsage(o) = Owned(v)
      BY FetchedOwned
    <2>3. CASE o \notin DOMAIN v
      BY <1>0, <1>7, <2>1, <2>3 DEF SpendCoin, UsageInv
    <2>4. CASE o \in DOMAIN v
      <3> DEFINE e == [coin |-> Spent, flags |-> v[o].flags \cup {"DIRTY"}]
      <3>1. /\ view' = IF "FRESH" \in v[o].flags THEN Drop(v, o) ELSE Put(v, o, e)
            /\ viewUsage' = FetchedUsage(o) - UsageOf(v[o].coin)
        BY <1>7, <2>4 DEF SpendCoin
      <3> HIDE DEF v
      <3>2. v[o] \in Entry /\ UsageOf(v[o].coin) \in Nat /\ Owned(v) \in Nat
        BY <2>2, <2>4, UsageType, OwnedType DEF IsCache, Entry
      <3>3. e \in Entry /\ UsageOf(e.coin) = 0
        BY <3>2 DEF Entry, Flags, CoinOrSpent, UsageOf
      <3> HIDE DEF e
      <3>4. IsCache(Drop(v, o)) /\ Owned(v) = UsageOf(v[o].coin) + Owned(Drop(v, o))
        BY <2>2, <2>4, DropOwned
      <3>5. IsCache(Put(v, o, e)) /\ Owned(Put(v, o, e)) = (Owned(v) - UsageOf(v[o].coin)) + 0
        BY <2>2, <2>4, <3>3, PutOwned
      <3>6. Owned(Drop(v, o)) \in Nat
        BY <3>4, OwnedType
      <3>7. Owned(Drop(v, o)) = Owned(v) - UsageOf(v[o].coin) /\ Owned(Put(v, o, e)) = Owned(v) - UsageOf(v[o].coin)
        BY SMT, <3>2, <3>4, <3>5, <3>6
      <3>8. IsCache(view') /\ viewUsage' = Owned(view')
        BY <2>2, <3>1, <3>4, <3>5, <3>7
      <3> QED
        BY <2>1, <3>8 DEF UsageInv
    <2> QED
      BY <2>3, <2>4
  <1>8. ASSUME NEW b \in Hashes, SetBestBlock(b) PROVE UsageInv'
    BY <1>0, <1>8 DEF SetBestBlock, tipVars, UsageInv
  <1>9. CASE FlushView
    BY <1>9, BatchOwned, EmptyOwned DEF FlushView, UsageInv
  <1>10. CASE DropView
    BY <1>0, <1>10, EmptyOwned DEF DropView, tipVars, UsageInv
  <1>11. CASE FlushTip
    BY <1>0, <1>11, EmptyOwned DEF FlushTip, viewVars, UsageInv
  <1>12. CASE CacheCrash
    BY <1>12, EmptyOwned DEF CacheCrash, UsageInv
  <1>13. CASE UNCHANGED cacheVars
    BY <1>0, <1>13 DEF cacheVars, tipVars, viewVars, UsageInv
  <1> QED
    BY <1>1, <1>2, <1>3, <1>4, <1>5, <1>6, <1>7, <1>8, <1>9, <1>10, <1>11, <1>12, <1>13 DEF CacheNext

LEMMA InvUsage == UsageInv => UsageExact
  <1> SUFFICES ASSUME UsageInv PROVE UsageExact
    OBVIOUS
  <1>1. MapThenSumSet(LAMBDA o : UsageOf(tipCoins[o].coin), DOMAIN tipCoins) = SumOver(Weight(tipCoins), DOMAIN tipCoins)
    BY SumIsWeight
  <1>2. MapThenSumSet(LAMBDA o : UsageOf(view[o].coin), DOMAIN view) = SumOver(Weight(view), DOMAIN view)
    BY SumIsWeight
  <1> QED
    BY <1>1, <1>2 DEF UsageInv, UsageExact, Owned

\* cachedCoinsUsage, kept by adding and subtracting in five functions, is the memory of
\* the cached coins, for any number of them.
THEOREM UsageStaysExact == CacheSpec => []UsageExact
  <1>1. CacheInv => CacheTypeOK
    BY DEF CacheInv
  <1>2. CacheTypeOK /\ UsageInv /\ [CacheNext]_cacheVars => UsageInv'
    BY NextUsageInv
  <1> QED
    BY <1>1, <1>2, CacheInvariant, InitUsageInv, InvUsage, PTL DEF CacheSpec

-----------------------------------------------------------------------------
PhaseInv ==
    /\ commitPhase = "commit" => inTransaction
    /\ commitPhase # "commit" => done = {}
    /\ commitPhase = "batch" => ~inTransaction /\ root = EmptyLayer

MovedInv ==
    /\ \A k \in AllKeys : evoDb[k] # Moved
    /\ \A k \in DOMAIN rootBatch : rootBatch[k] # Moved
    /\ \A k \in DOMAIN root.writes : root.writes[k] # Moved
    /\ \A k \in DOMAIN cur.writes \ done : cur.writes[k] # Moved

EvoDBInv == EvoDBTypeOK /\ CleanOutsideTransaction /\ PhaseInv /\ MovedInv

\* A write keeps a layer well formed and is what the next read of the key finds.
LEMMA WrittenLemma ==
    ASSUME NEW layer, LayerOK(layer), NEW k \in AllKeys, NEW v \in Stored,
           k = BestKey => v # Moved
    PROVE  /\ LayerOK(Written(layer, k, v))
           /\ DOMAIN Written(layer, k, v).writes = DOMAIN layer.writes \cup {k}
           /\ Written(layer, k, v).writes[k] = v
           /\ \A x \in DOMAIN layer.writes \ {k} : Written(layer, k, v).writes[x] = layer.writes[x]
           /\ Written(layer, k, v).deletes = layer.deletes \ {k}
           /\ \A p : Through(Written(layer, k, v), k, p) = v
           /\ \A x \in AllKeys \ {k} : \A p : Through(Written(layer, k, v), x, p) = Through(layer, x, p)
  BY DEF LayerOK, Written, Through

\* An erased key reads as absent, whatever the parent holds.
LEMMA ErasedLemma ==
    ASSUME NEW layer, LayerOK(layer), NEW k \in AllKeys
    PROVE  /\ LayerOK(Erased(layer, k))
           /\ DOMAIN Erased(layer, k).writes = DOMAIN layer.writes \ {k}
           /\ \A x \in DOMAIN layer.writes \ {k} : Erased(layer, k).writes[x] = layer.writes[x]
           /\ Erased(layer, k).deletes = layer.deletes \cup {k}
           /\ \A p : Through(Erased(layer, k), k, p) = None
           /\ \A x \in AllKeys \ {k} : \A p : Through(Erased(layer, k), x, p) = Through(layer, x, p)
  BY DEF LayerOK, Erased, Through

\* An empty layer is well formed and transparent.
LEMMA EmptyLemma ==
    /\ LayerOK(EmptyLayer)
    /\ DOMAIN EmptyLayer.writes = {}
    /\ EmptyLayer.deletes = {}
    /\ DOMAIN NoWrites = {}
    /\ \A x, p : Through(EmptyLayer, x, p) = p
  BY DEF LayerOK, EmptyLayer, NoWrites, Through

LEMMA InitEvoDBInv == EvoDBInit => EvoDBInv
  <1> SUFFICES ASSUME EvoDBInit PROVE EvoDBInv
    OBVIOUS
  <1>1. DOMAIN cur.writes = {} /\ cur.deletes = {} /\ DOMAIN root.writes = {}
        /\ DOMAIN rootBatch = {} /\ LayerOK(cur) /\ LayerOK(root)
    BY EmptyLemma DEF EvoDBInit
  <1>2. EvoDBTypeOK
    BY <1>1 DEF EvoDBInit, EvoDBTypeOK
  <1>3. MovedInv
    BY <1>1, EvoAssumption DEF EvoDBInit, MovedInv
  <1> QED
    BY <1>2, <1>3 DEF EvoDBInit, EvoDBInv, CleanOutsideTransaction, PhaseInv

\* One step per action: the invariant is inductive.
LEMMA NextEvoDBInv ==
    ASSUME EvoDBInv, [EvoDBNext]_evoDBVars
    PROVE  EvoDBInv'
  <1> USE DEF EvoDBInv, EvoDBTypeOK, CleanOutsideTransaction, PhaseInv, MovedInv
  <1>1. CASE BeginTransaction
    BY <1>1 DEF BeginTransaction, LayerOK
  <1>2. ASSUME NEW k \in AllKeys, NEW v \in Values \cup Hashes, Write(k, v) PROVE EvoDBInv'
    <2>1. v \in Stored /\ v # Moved
      BY EvoAssumption DEF Stored
    <2>2. cur' = Written(cur, k, v) /\ inTransaction /\ done = {} /\ commitPhase = "idle"
          /\ UNCHANGED <<evoDb, rootBatch, root, inTransaction, commitPhase, done, failed>>
      BY <1>2 DEF Write
    <2>3. LayerOK(cur') /\ LayerOK(root')
      BY <2>1, <2>2, WrittenLemma
    <2>m. DOMAIN cur'.writes = DOMAIN cur.writes \cup {k} /\ cur'.writes[k] = v
          /\ cur'.deletes = cur.deletes \ {k}
          /\ \A x \in DOMAIN cur.writes \ {k} : cur'.writes[x] = cur.writes[x]
      BY SMT, <2>1, <2>2, WrittenLemma
    <2>4. MovedInv'
      BY <2>1, <2>2, <2>m
    <2> QED
      BY <2>2, <2>3, <2>4
  <1>3. ASSUME NEW k \in Keys, Erase(k) PROVE EvoDBInv'
    <2>1. k \in AllKeys
      BY DEF AllKeys
    <2>2. cur' = Erased(cur, k) /\ inTransaction /\ done = {} /\ commitPhase = "idle"
          /\ UNCHANGED <<evoDb, rootBatch, root, inTransaction, commitPhase, done, failed>>
      BY <1>3 DEF Erase
    <2>3. LayerOK(cur') /\ LayerOK(root')
      BY <2>1, <2>2, ErasedLemma
    <2>m. DOMAIN cur'.writes = DOMAIN cur.writes \ {k}
          /\ \A x \in DOMAIN cur.writes \ {k} : cur'.writes[x] = cur.writes[x]
      BY SMT, <2>1, <2>2, ErasedLemma
    <2>4. MovedInv'
      BY <2>2, <2>m
    <2> QED
      BY <2>2, <2>3, <2>4
  <1>4. CASE Rollback
    BY <1>4, EmptyLemma DEF Rollback
  <1>5. CASE CommitBegin
    BY <1>5 DEF CommitBegin
  <1>6. ASSUME NEW k \in AllKeys, CommitErase(k) PROVE EvoDBInv'
    <2>1. root' = Erased(root, k) /\ k \in cur.deletes /\ done' = done \cup {k}
          /\ UNCHANGED <<evoDb, rootBatch, cur, inTransaction, commitPhase, failed>> /\ commitPhase = "commit"
      BY <1>6 DEF CommitErase
    <2>2. LayerOK(root') /\ LayerOK(cur')
      BY <2>1, ErasedLemma
    <2>m. DOMAIN root'.writes = DOMAIN root.writes \ {k}
          /\ \A x \in DOMAIN root.writes \ {k} : root'.writes[x] = root.writes[x]
      BY SMT, <2>1, ErasedLemma
    <2>3. MovedInv'
      BY <2>1, <2>m
    <2>4. EvoDBTypeOK'
      BY <2>1, <2>2
    <2>5. PhaseInv'
      BY <2>1
    <2>6. CleanOutsideTransaction'
      BY <2>1
    <2> QED
      BY <2>2, <2>3, <2>4, <2>5, <2>6
  <1>7. ASSUME NEW k \in AllKeys, CommitWrite(k) PROVE EvoDBInv'
    <2>1. root' = Written(root, k, cur.writes[k]) /\ cur' = Written(cur, k, MovedFrom(k))
          /\ k \in DOMAIN cur.writes \ done /\ done' = done \cup {k} /\ commitPhase = "commit"
          /\ UNCHANGED <<evoDb, rootBatch, inTransaction, commitPhase, failed>>
      BY <1>7 DEF CommitWrite
    <2>2. cur.writes[k] \in Stored /\ cur.writes[k] # Moved
      BY <2>1 DEF LayerOK
    <2>3. MovedFrom(k) \in Stored /\ (k = BestKey => MovedFrom(k) # Moved)
      BY <2>2 DEF MovedFrom, Stored
    <2>4. LayerOK(root') /\ LayerOK(cur')
      BY <2>1, <2>2, <2>3, WrittenLemma
    <2>5. MovedInv'
      <3>1. \A x \in DOMAIN root'.writes : root'.writes[x] # Moved
        BY SMT, <2>1, <2>2, WrittenLemma
      <3>2. \A x \in DOMAIN cur'.writes \ done' :
                x \in DOMAIN cur.writes \ done /\ cur'.writes[x] = cur.writes[x]
        BY SMT, <2>1, <2>3, WrittenLemma
      <3> QED
        BY <2>1, <3>1, <3>2
    <2>6. done' \subseteq DOMAIN cur'.writes \cup cur'.deletes
      BY SMT, <2>1, <2>3, WrittenLemma
    <2> QED
      BY <2>1, <2>4, <2>5, <2>6
  <1>8. CASE CommitEnd
    BY <1>8, EmptyLemma DEF CommitEnd
  <1>9. CASE RootCommit
    <2>1. ~inTransaction /\ commitPhase = "idle" /\ root' = EmptyLayer /\ commitPhase' = "batch"
          /\ UNCHANGED <<evoDb, cur, inTransaction, done, failed>>
      BY <1>9 DEF RootCommit
    <2>2. DOMAIN rootBatch' \subseteq AllKeys
      BY <1>9 DEF RootCommit, LayerOK
    <2>3. \A k \in DOMAIN rootBatch' :
              rootBatch'[k] \in Stored \cup {None} /\ rootBatch'[k] # Moved
      BY <1>9, EvoAssumption DEF RootCommit, LayerOK, Through
    <2> QED
      BY <2>1, <2>2, <2>3, EmptyLemma
  <1>10. CASE WriteBatch
    <2>1. rootBatch' = NoWrites /\ commitPhase' = "idle" /\ commitPhase = "batch"
          /\ UNCHANGED <<root, cur, inTransaction, done, failed>>
      BY <1>10 DEF WriteBatch
    <2>2. evoDb' \in [AllKeys -> Stored \cup {None}] /\ \A k \in AllKeys : evoDb'[k] # Moved
      BY <1>10 DEF WriteBatch
    <2> QED
      BY <2>1, <2>2, EmptyLemma
  <1>11. CASE WriteBatchThrows
    BY <1>11 DEF WriteBatchThrows
  <1>12. CASE EvoDBCrash
    BY <1>12, EmptyLemma DEF EvoDBCrash
  <1>13. CASE UNCHANGED evoDBVars
    BY <1>13 DEF evoDBVars, LayerOK
  <1> QED
    BY <1>1, <1>2, <1>3, <1>4, <1>5, <1>6, <1>7, <1>8, <1>9, <1>10, <1>11, <1>12, <1>13
    DEF EvoDBNext, WriteBestBlock, AllKeys

LEMMA EvoDBInvariant == EvoDBSpec => []EvoDBInv
  BY InitEvoDBInv, NextEvoDBInv, PTL DEF EvoDBSpec

\* No key is both written and deleted in a layer, so the order in which Commit()
\* applies deletes and writes cannot matter; and both IsClean() assertions hold.
THEOREM LayersWellFormed == EvoDBSpec => [](EvoDBTypeOK /\ CleanOutsideTransaction)
  <1>1. EvoDBInv => EvoDBTypeOK /\ CleanOutsideTransaction
    BY DEF EvoDBInv
  <1> QED
    BY <1>1, EvoDBInvariant, PTL

\* Moving values in Commit() is sound for whoever reads under cs_main.
THEOREM MovedValuesUnseen == EvoDBSpec => []MovedStaysInCommit
  <1>1. EvoDBInv => MovedStaysInCommit
    <2> SUFFICES ASSUME EvoDBInv PROVE MovedStaysInCommit
      OBVIOUS
    <2> USE DEF EvoDBInv, EvoDBTypeOK, PhaseInv, MovedInv
    <2>1. \A k \in AllKeys : RootRead(k) # Moved
      BY EvoAssumption DEF RootRead, Through
    <2>2. ASSUME commitPhase # "commit", NEW k \in AllKeys PROVE Read(k) # Moved
      BY <2>1, <2>2, EvoAssumption DEF Read, Through
    <2> QED
      BY <2>1, <2>2 DEF MovedStaysInCommit
  <1> QED
    BY <1>1, EvoDBInvariant, PTL

\* Each step of the layers is a step of the abstract store or a stutter, and only
\* a crash is a crash.
LEMMA EvoDBStep ==
    ASSUME EvoDBInv, EvoDBInv', [EvoDBNext]_evoDBVars
    PROVE  (EvoDBCrash /\ Store!Crash) \/ [Store!Step]_(Store!vars)
  <1> USE DEF EvoDBInv, EvoDBTypeOK, CleanOutsideTransaction, PhaseInv
  <1> DEFINE Idle == inTransaction /\ commitPhase = "idle"
  <1>k. Keys \subseteq AllKeys /\ BestKey \in AllKeys /\ BestKey \notin Keys
    BY EvoAssumption DEF AllKeys
  \* Equal maps are equal stores.
  <1>p. ASSUME \A x \in AllKeys : Uncommitted(x)' = Uncommitted(x) PROVE EvoDBPending' = EvoDBPending
    BY <1>p, <1>k DEF EvoDBPending, AsStore
  <1>c. ASSUME \A x \in AllKeys : Committed(x)' = Committed(x),
               commitPhase # "commit", commitPhase' # "commit"
        PROVE  EvoDBCurrent' = EvoDBCurrent
    BY ZenonT(60), <1>c, <1>k DEF EvoDBCurrent, AsStore
  \* Outside a transaction nothing is pending.
  <1>q. ~inTransaction => EvoDBPending = AsStore([x \in AllKeys |-> Committed(x)])
    <2>1. ~inTransaction => \A x \in AllKeys : Uncommitted(x) = Committed(x)
      BY EmptyLemma DEF Uncommitted
    <2> QED
      BY <2>1, <1>k DEF EvoDBPending, AsStore
  <1>r. ~inTransaction' => EvoDBPending' = AsStore([x \in AllKeys |-> Committed(x)'])
    <2>1. ~inTransaction' => \A x \in AllKeys : Uncommitted(x)' = Committed(x)'
      BY EmptyLemma DEF Uncommitted
    <2> QED
      BY <2>1, <1>k DEF EvoDBPending, AsStore
  <1>s. ASSUME EvoDBDurable' = EvoDBDurable, EvoDBCurrent' = EvoDBCurrent, EvoDBPending' = EvoDBPending, Idle' = Idle
        PROVE  UNCHANGED Store!vars
    BY <1>s DEF Store!vars
  <1>1. CASE BeginTransaction
    <2>1. ~inTransaction /\ commitPhase = "idle" /\ inTransaction' = TRUE
          /\ UNCHANGED <<evoDb, rootBatch, root, cur, commitPhase, done, failed>>
      BY <1>1 DEF BeginTransaction
    <2>2. EvoDBDurable' = EvoDBDurable /\ EvoDBPending' = EvoDBPending /\ EvoDBCurrent' = EvoDBCurrent
      BY <2>1 DEF EvoDBDurable, EvoDBPending, EvoDBCurrent, Uncommitted, Committed
    <2>3. EvoDBPending = EvoDBCurrent
      BY <2>1, <1>q DEF EvoDBCurrent
    <2> QED
      BY <2>1, <2>2, <2>3 DEF Store!Step, Store!Begin
  <1>2. ASSUME NEW k \in AllKeys, NEW v, LayerOK(cur), cur' = Written(cur, k, v), v \in Stored,
               k = BestKey => v # Moved, inTransaction, commitPhase = "idle",
               UNCHANGED <<evoDb, rootBatch, root, inTransaction, commitPhase, done, failed>>
        PROVE  /\ EvoDBDurable' = EvoDBDurable /\ EvoDBCurrent' = EvoDBCurrent
               /\ Uncommitted(k)' = v
               /\ \A x \in AllKeys \ {k} : Uncommitted(x)' = Uncommitted(x)
    <2>1. \A x \in AllKeys : Committed(x)' = Committed(x)
      BY <1>2 DEF Committed
    <2>2. EvoDBDurable' = EvoDBDurable /\ EvoDBCurrent' = EvoDBCurrent
      BY <1>2, <2>1, <1>c DEF EvoDBDurable
    <2> QED
      BY SMTT(30), <1>2, <2>1, <2>2, WrittenLemma DEF Uncommitted
  <1>3. ASSUME NEW k \in Keys, NEW v \in Values, Write(k, v) PROVE Store!Step
    <2>1. v \in Stored /\ v # Moved /\ v \in Values \cup {None}
      BY EvoAssumption DEF Stored
    <2>2. /\ EvoDBDurable' = EvoDBDurable /\ EvoDBCurrent' = EvoDBCurrent
          /\ Uncommitted(k)' = v
          /\ \A x \in AllKeys \ {k} : Uncommitted(x)' = Uncommitted(x)
      BY <1>2, <1>3, <1>k, <2>1 DEF Write
    <2>3. EvoDBPending' = [map |-> [EvoDBPending.map EXCEPT ![k] = v], best |-> EvoDBPending.best]
      BY <2>2, <1>k DEF EvoDBPending, AsStore
    <2> QED
      BY <1>3, <2>1, <2>2, <2>3 DEF Store!Step, Store!Set, Write
  <1>4. ASSUME NEW b \in Hashes, WriteBestBlock(b) PROVE Store!Step
    <2>1. b \in Stored /\ b # Moved
      BY EvoAssumption DEF Stored
    <2>2. /\ EvoDBDurable' = EvoDBDurable /\ EvoDBCurrent' = EvoDBCurrent
          /\ Uncommitted(BestKey)' = b
          /\ \A x \in AllKeys \ {BestKey} : Uncommitted(x)' = Uncommitted(x)
      BY <1>2, <1>4, <1>k, <2>1 DEF Write, WriteBestBlock
    <2>3. EvoDBPending' = [map |-> EvoDBPending.map, best |-> b]
      BY <2>2, <1>k DEF EvoDBPending, AsStore
    <2> QED
      BY <1>4, <2>2, <2>3 DEF Store!Step, Store!SetBest, Write, WriteBestBlock
  <1>5. ASSUME NEW k \in Keys, Erase(k) PROVE Store!Step
    <2>1. cur' = Erased(cur, k) /\ inTransaction /\ commitPhase = "idle" /\ done = {}
          /\ UNCHANGED <<evoDb, rootBatch, root, inTransaction, commitPhase, done, failed>>
      BY <1>5 DEF Erase
    <2>2. \A x \in AllKeys : Committed(x)' = Committed(x)
      BY <2>1 DEF Committed
    <2>3. EvoDBDurable' = EvoDBDurable /\ EvoDBCurrent' = EvoDBCurrent
      BY <2>1, <2>2, <1>c DEF EvoDBDurable
    <2>4. /\ Uncommitted(k)' = None
          /\ \A x \in AllKeys \ {k} : Uncommitted(x)' = Uncommitted(x)
      BY SMT, <2>1, <2>2, <1>k, ErasedLemma DEF Uncommitted
    <2>5. EvoDBPending' = [map |-> [EvoDBPending.map EXCEPT ![k] = None], best |-> EvoDBPending.best]
      BY <2>4, <1>k DEF EvoDBPending, AsStore
    <2> QED
      BY <2>1, <2>3, <2>5 DEF Store!Step, Store!Set
  <1>6. CASE Rollback
    <2>1. inTransaction /\ commitPhase = "idle" /\ ~inTransaction' /\ UNCHANGED <<evoDb, rootBatch, root, commitPhase>>
      BY <1>6 DEF Rollback
    <2>2. \A x \in AllKeys : Committed(x)' = Committed(x)
      BY <2>1 DEF Committed
    <2>3. EvoDBDurable' = EvoDBDurable /\ EvoDBCurrent' = EvoDBCurrent
      BY <2>1, <2>2, <1>c DEF EvoDBDurable
    <2>4. EvoDBPending' = EvoDBCurrent
      BY <2>1, <2>2, <1>r, <1>k DEF EvoDBCurrent, AsStore
    <2> QED
      BY <2>1, <2>3, <2>4 DEF Store!Step, Store!Abort
  <1>7. CASE CommitBegin
    <2>1. inTransaction /\ commitPhase = "idle" /\ commitPhase' = "commit"
          /\ UNCHANGED <<evoDb, rootBatch, root, cur, inTransaction, done, failed>>
      BY <1>7 DEF CommitBegin
    <2>2. EvoDBDurable' = EvoDBDurable /\ EvoDBPending' = EvoDBPending /\ EvoDBCurrent' = EvoDBPending'
      BY <2>1 DEF EvoDBDurable, EvoDBPending, EvoDBCurrent, Uncommitted, Committed
    <2> QED
      BY <2>1, <2>2 DEF Store!Step, Store!Commit
  \* A key that Commit() hands over reads the same before and after.
  <1>8. ASSUME NEW k \in AllKeys, CommitErase(k) \/ CommitWrite(k) PROVE UNCHANGED Store!vars
    <2>1. commitPhase = "commit" /\ done' = done \cup {k} /\ k \notin done
          /\ UNCHANGED <<evoDb, rootBatch, inTransaction, commitPhase, failed>>
      BY <1>8 DEF CommitErase, CommitWrite
    <2>2. ASSUME CommitErase(k) PROVE \A x \in AllKeys : Uncommitted(x)' = Uncommitted(x)
      <3>1. k \in cur.deletes /\ root' = Erased(root, k) /\ cur' = cur
        BY <2>2 DEF CommitErase
      <3>2. Committed(k)' = None /\ \A x \in AllKeys \ {k} : Committed(x)' = Committed(x)
        BY SMT, <2>1, <3>1, ErasedLemma DEF Committed
      <3> QED
        BY SMT, <2>1, <3>1, <3>2 DEF Uncommitted, Through
    <2>3. ASSUME CommitWrite(k) PROVE \A x \in AllKeys : Uncommitted(x)' = Uncommitted(x)
      <3>1. k \in DOMAIN cur.writes /\ root' = Written(root, k, cur.writes[k])
            /\ cur' = Written(cur, k, MovedFrom(k))
        BY <2>3 DEF CommitWrite
      <3>2. cur.writes[k] \in Stored /\ k \notin cur.deletes
            /\ (k = BestKey => cur.writes[k] # Moved)
        BY <3>1 DEF LayerOK
      <3>3. MovedFrom(k) \in Stored /\ (k = BestKey => MovedFrom(k) # Moved)
        BY <3>2 DEF MovedFrom, Stored
      <3>4. /\ Committed(k)' = cur.writes[k]
            /\ \A x \in AllKeys \ {k} : Committed(x)' = Committed(x)
        BY SMTT(30), <2>1, <3>1, <3>2, WrittenLemma DEF Committed
      <3>5. Uncommitted(k)' = Uncommitted(k)
        BY <2>1, <3>1, <3>2, <3>4 DEF Uncommitted, Through
      <3>6. ASSUME NEW x \in AllKeys \ {k} PROVE Uncommitted(x)' = Uncommitted(x)
        BY SMTT(30), <2>1, <3>1, <3>3, <3>4, WrittenLemma DEF Uncommitted
      <3> QED
        BY <3>5, <3>6
    <2>4. EvoDBPending' = EvoDBPending
      BY <1>8, <2>2, <2>3, <1>p
    <2>5. EvoDBCurrent' = EvoDBCurrent /\ EvoDBDurable' = EvoDBDurable
      BY <2>1, <2>4 DEF EvoDBCurrent, EvoDBDurable
    <2> QED
      BY <2>1, <2>4, <2>5, <1>s
  <1>9. CASE CommitEnd
    <2>1. commitPhase = "commit" /\ commitPhase' = "idle" /\ ~inTransaction' /\ UNCHANGED <<evoDb, rootBatch, root>>
          /\ cur.deletes \cup DOMAIN cur.writes \subseteq done
      BY <1>9 DEF CommitEnd
    <2>2. \A x \in AllKeys : Committed(x)' = Committed(x) /\ Uncommitted(x) = Committed(x)
      BY <2>1 DEF Committed, Uncommitted, Through
    <2>3. EvoDBPending' = EvoDBPending
      <3>1. EvoDBPending = AsStore([x \in AllKeys |-> Committed(x)])
        BY <2>2, <1>k DEF EvoDBPending, AsStore
      <3>2. EvoDBPending' = AsStore([x \in AllKeys |-> Committed(x)'])
        BY <2>1, <1>r
      <3> QED
        BY <3>1, <3>2, <2>2, <1>k DEF AsStore
    <2>4. EvoDBCurrent' = EvoDBPending'
      BY <2>1, <1>r, <1>k DEF EvoDBCurrent, AsStore
    <2>5. EvoDBCurrent = EvoDBPending /\ EvoDBDurable' = EvoDBDurable
      BY <2>1 DEF EvoDBCurrent, EvoDBDurable
    <2> QED
      BY <2>1, <2>3, <2>4, <2>5, <1>s
  <1>10. CASE RootCommit
    <2>1. ~inTransaction /\ commitPhase = "idle" /\ commitPhase' = "batch" /\ root' = EmptyLayer
          /\ rootBatch' = [k \in DOMAIN rootBatch \cup DOMAIN root.writes \cup root.deletes |->
                              Through(root, k, rootBatch[k])]
          /\ UNCHANGED <<evoDb, cur, inTransaction, done, failed>>
      BY <1>10 DEF RootCommit
    <2>2. \A x \in AllKeys : Committed(x)' = Committed(x)
      BY <2>1, EmptyLemma DEF Committed, Through
    <2>3. EvoDBCurrent' = EvoDBCurrent /\ EvoDBDurable' = EvoDBDurable
      BY <2>1, <2>2, <1>c DEF EvoDBDurable
    <2>4. EvoDBPending' = EvoDBPending
      BY <2>1, <2>2, <1>q, <1>r, <1>k DEF AsStore
    <2> QED
      BY <2>1, <2>3, <2>4, <1>s
  <1>11. CASE WriteBatch
    <2>1. commitPhase = "batch" /\ commitPhase' = "idle" /\ rootBatch' = NoWrites /\ ~inTransaction
          /\ evoDb' = [k \in AllKeys |-> IF k \in DOMAIN rootBatch THEN rootBatch[k] ELSE evoDb[k]]
          /\ root = EmptyLayer /\ UNCHANGED <<root, cur, inTransaction, done, failed>>
      BY <1>11 DEF WriteBatch
    <2>2. \A x \in AllKeys : Committed(x)' = Committed(x) /\ evoDb'[x] = Committed(x)
      BY <2>1, EmptyLemma DEF Committed
    <2>3. EvoDBCurrent' = EvoDBCurrent
      BY <2>1, <2>2, <1>c
    <2>4. EvoDBDurable' = EvoDBCurrent
      BY <2>1, <2>2, <1>k DEF EvoDBDurable, EvoDBCurrent, AsStore
    <2>5. EvoDBPending' = EvoDBPending
      BY <2>1, <2>2, <1>q, <1>r, <1>k DEF AsStore
    <2> QED
      BY <2>1, <2>3, <2>4, <2>5 DEF Store!Step, Store!Persist
  <1>12. CASE WriteBatchThrows
    <2>1. commitPhase = "batch" /\ commitPhase' = "idle" /\ ~inTransaction
          /\ UNCHANGED <<evoDb, rootBatch, root, cur, inTransaction, done>>
      BY <1>12 DEF WriteBatchThrows
    <2>2. EvoDBDurable' = EvoDBDurable /\ EvoDBPending' = EvoDBPending /\ EvoDBCurrent' = EvoDBCurrent
      BY <2>1 DEF EvoDBDurable, EvoDBPending, EvoDBCurrent, Uncommitted, Committed
    <2> QED
      BY <2>1, <2>2, <1>s
  <1>13. CASE EvoDBCrash
    <2>1. rootBatch' = NoWrites /\ root' = EmptyLayer /\ ~inTransaction' /\ commitPhase' = "idle" /\ evoDb' = evoDb
      BY <1>13 DEF EvoDBCrash
    <2>2. \A x \in AllKeys : Committed(x)' = evoDb[x]
      BY <2>1, EmptyLemma DEF Committed
    <2>3. EvoDBCurrent' = EvoDBDurable /\ EvoDBPending' = EvoDBDurable
      BY <2>1, <2>2, <1>r, <1>k DEF EvoDBCurrent, EvoDBDurable, AsStore
    <2>4. EvoDBDurable' = EvoDBDurable
      BY <2>1 DEF EvoDBDurable
    <2> QED
      BY <1>13, <2>1, <2>3, <2>4 DEF Store!Crash
  <1>14. CASE UNCHANGED evoDBVars
    BY <1>14, <1>s DEF evoDBVars, EvoDBDurable, EvoDBPending, EvoDBCurrent, Uncommitted, Committed
  <1> QED
    BY <1>1, <1>3, <1>4, <1>5, <1>6, <1>7, <1>8, <1>9, <1>10, <1>11, <1>12, <1>13, <1>14
    DEF EvoDBNext

\* The two transaction layers over leveldb behave as one map with one best block:
\* blocks commit or roll back as a whole, a root commit becomes durable as a whole
\* and survives a failed write, and only a crash takes anything back.
THEOREM LayersImplementEvoStore == EvoDBSpec => ImplementsEvoStore
  <1>1. EvoDBInit => Store!Init
    <2> SUFFICES ASSUME EvoDBInit PROVE Store!Init
      OBVIOUS
    <2>1. \A x \in AllKeys : Committed(x) = None /\ Uncommitted(x) = None /\ evoDb[x] = None
      BY EmptyLemma DEF EvoDBInit, Committed, Uncommitted
    <2>2. Keys \subseteq AllKeys /\ BestKey \in AllKeys
      BY DEF AllKeys
    <2>3. EvoDBPending = Store!EmptyStore /\ EvoDBCurrent = Store!EmptyStore /\ EvoDBDurable = Store!EmptyStore
      BY <2>1, <2>2 DEF EvoDBInit, EvoDBPending, EvoDBCurrent, EvoDBDurable, AsStore, Store!EmptyStore
    <2> QED
      BY <2>3 DEF EvoDBInit, Store!Init
  <1>2. EvoDBInv /\ EvoDBInv' /\ [EvoDBNext]_evoDBVars =>
            /\ [Store!Next]_(Store!vars)
            /\ [EvoDBCrash \/ [Store!Step]_(Store!vars)]_evoDBVars
    BY EvoDBStep DEF Store!Next
  <1> QED
    BY <1>1, <1>2, EvoDBInvariant, PTL DEF EvoDBSpec, ImplementsEvoStore, Store!Spec
=============================================================================
